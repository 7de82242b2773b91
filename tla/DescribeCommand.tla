--------------------------- MODULE DescribeCommand ---------------------------
(***************************************************************************)
(* The describe-artefacts command of                                       *)
(* cmds/ocm/commands/ocicmds/artefacts/describe/cmd.go with the output    *)
(* options of cmds/ocm/pkg/output/options.go it completes.                 *)
(*                                                                         *)
(* Complete refuses a call with neither a reference nor a repository,     *)
(* completes the repository option, then the output options: the output *)
(* mode pointer is set for a non-empty --output, and every --sort value is *)
(* split at commas into trimmed, non-empty field names.  Run opens a       *)
(* session, gets the repository and hands the references to the output;  *)
(* the deferred session.Close runs on every return.                        *)
(*                                                                         *)
(* The references reach the output through the describe Options the     *)
(* command registers with its output options (NewCommand, From): the     *)
(* default output prints every artefact, the chained outputs map each to  *)
(* an Info whose layer files are listed as --layerfiles says.             *)
(*                                                                         *)
(* A --sort value is a string over field letters, blanks and commas.      *)
(***************************************************************************)
EXTENDS Naturals, Sequences, SequencesExt

CONSTANTS
  Letters,    \* characters of field names
  MaxValLen,  \* bound on the length of one --sort value
  MaxVals,    \* bound on the number of --sort flags
  OutputModes, \* the keys of the command's outputs map ("" is the default)
  OutputFlags, \* --output values tried: "", output modes and one that is none
  Artefacts,  \* the artefacts of the repository
  NONE

Chars == Letters \cup {" ", ","}

Values == BoundedSeq(Chars, MaxValLen)

VARIABLES
  refs,       \* the reference arguments
  layerfiles, \* the --layerfiles flag on the command line
  BlobFiles,  \* the describe Options' BlobFiles, NONE until flags are added
  printed,    \* what the output printed: one record per artefact
  spec,       \* the --repo option is given
  output,     \* the --output flag value ("" when not given)
  Output,     \* o.Output: NONE or the output mode
  Sort,       \* o.Sort: the --sort values, after Complete the fields
  sorted,     \* history: the --sort values as given
  session,    \* "none", or "closed" once Run returned
  usage,      \* the usage text of --output, once the flags are added
  pc,         \* "setup", "new", "completed", "done"
  result      \* the command's error, NONE for nil

vars == <<refs, layerfiles, BlobFiles, printed, spec, output, Output, Sort, sorted, usage, session, pc, result>>

Results == {NONE, "NoReference", "RepositoryOption", "Repository", "Output"}

Infos == [ref: Artefacts, info: {"text", "layers", "plain"}]

TypeOK ==
  /\ refs \in BoundedSeq(Artefacts, 1)
  /\ layerfiles \in BOOLEAN
  /\ BlobFiles \in BOOLEAN \cup {NONE}
  /\ printed \subseteq Infos
  /\ spec \in BOOLEAN
  /\ output \in OutputFlags
  /\ Output \in {NONE} \cup ({output} \ {""})
  /\ Sort \in Seq(Seq(Chars))
  /\ sorted \in Seq(Seq(Chars))
  /\ Len(sorted) <= MaxVals /\ \A k \in 1..Len(sorted) : Len(sorted[k]) <= MaxValLen
  /\ usage \in Seq(OutputModes \cup {", "}) \cup {NONE}
  /\ session \in {"none", "closed"}
  /\ pc \in {"setup", "new", "completed", "done"}
  /\ result \in Results

Init ==
  /\ refs \in BoundedSeq(Artefacts, 1)
  /\ layerfiles \in BOOLEAN
  /\ BlobFiles = NONE
  /\ printed = {}
  /\ spec \in BOOLEAN
  /\ output \in OutputFlags
  /\ Output = NONE
  /\ Sort \in BoundedSeq(Values, MaxVals)
  /\ sorted = Sort
  /\ usage = NONE
  /\ session = "none"
  /\ pc = "setup"
  /\ result = NONE

(***************************************************************************)
(* Options.AddFlags: the usage of --output lists the non-empty keys of the *)
(* outputs map in the order the range loop visits them, which Go leaves   *)
(* unspecified (order is a permutation of the keys), joined by ", ".       *)
(***************************************************************************)
\* mutant: the separator is set after the default key "" as well
OutputAddFlagsEagerSep(order) ==
  LET step(acc, m) == [s   |-> IF m # "" THEN acc.s \o acc.sep \o <<m>> ELSE acc.s,
                       sep |-> <<", ">>]
  IN FoldLeft(step, [s |-> <<>>, sep |-> <<>>], order).s

OutputAddFlags(order) ==
  LET step(acc, m) == IF m # "" THEN [s |-> acc.s \o acc.sep \o <<m>>, sep |-> <<", ">>]
                      ELSE acc
  IN FoldLeft(step, [s |-> <<>>, sep |-> <<>>], order).s

(***************************************************************************)
(* Command.AddFlags: the repository flags, then the output flags, whose    *)
(* Others, the describe Options registered by NewCommand, add the         *)
(* --layerfiles flag bound to Options.BlobFiles; cobra then parses the    *)
(* command line into the bound fields.                                     *)
(***************************************************************************)
\* Options.AddFlags of the describe Options: --layerfiles, default false,
\* bound to BlobFiles, which the parsed command line then sets.
OthersAddFlags == BlobFiles' = layerfiles

AddFlags ==
  /\ pc = "setup"
  /\ \E order \in SetToSeqs(OutputModes) : usage' = OutputAddFlags(order)
  /\ OthersAddFlags
  /\ pc' = "new"
  /\ UNCHANGED <<refs, layerfiles, printed, spec, output, Output, Sort, sorted, session, result>>

\* strings.Split(f, ","): the pieces between commas, empty ones included
Split(f) ==
  LET step(acc, c) == IF c = "," THEN Append(acc, <<>>)
                      ELSE [acc EXCEPT ![Len(acc)] = Append(@, c)]
  IN FoldLeft(step, <<<<>>>>, f)

\* mutant: only leading blanks are removed
RECURSIVE TrimLeft(_)
TrimLeft(s) == IF s # <<>> /\ Head(s) = " " THEN TrimLeft(Tail(s)) ELSE s

\* strings.TrimSpace
RECURSIVE TrimSpace(_)
TrimSpace(s) ==
  CASE s # <<>> /\ Head(s) = " "  -> TrimSpace(Tail(s))
    [] s # <<>> /\ Last(s) = " "  -> TrimSpace(Front(s))
    [] OTHER                      -> s

\* The loops of Options.Complete over the --sort values and their pieces
Fields(vals) ==
  LET piece(acc, p) == IF TrimSpace(p) # <<>> THEN Append(acc, TrimSpace(p)) ELSE acc
  IN FoldLeft(LAMBDA acc, f : FoldLeft(piece, acc, Split(f)), <<>>, vals)

\* mutant: the output pointer is set for an empty --output as well
CompleteAnyOutput ==
  /\ pc = "new"
  /\ pc' = "completed"
  /\ IF refs = <<>> /\ ~spec
     THEN /\ result' = "NoReference"
          /\ UNCHANGED <<Output, Sort>>
     ELSE \/ /\ spec
             /\ result' = "RepositoryOption"
             /\ UNCHANGED <<Output, Sort>>
          \/ /\ result' = NONE
             /\ Output' = output
             /\ Sort' = Fields(Sort)
  /\ UNCHANGED <<refs, layerfiles, BlobFiles, printed, spec, output, sorted, usage, session>>

(***************************************************************************)
(* Command.Complete: the reference check, Repository.Complete, which may  *)
(* fail for a given --repo, and Output.Complete: the output pointer, the  *)
(* sort fields, and the describe Options' Complete, which returns nil.     *)
(***************************************************************************)
Complete ==
  /\ pc = "new"
  /\ pc' = "completed"
  /\ IF refs = <<>> /\ ~spec
     THEN /\ result' = "NoReference"
          /\ UNCHANGED <<Output, Sort>>
     ELSE \/ /\ spec
             /\ result' = "RepositoryOption"
             /\ UNCHANGED <<Output, Sort>>
          \/ /\ result' = NONE
             /\ Output' = IF output # "" THEN output ELSE NONE
             /\ Sort' = Fields(Sort)
  /\ UNCHANGED <<refs, layerfiles, BlobFiles, printed, spec, output, sorted, usage, session>>

\* From(o): the describe Options among the output options' Others
From == [BlobFiles |-> BlobFiles]

\* mapInfo(opts): an object becomes an Info of its reference and the
\* artefact info, with layer files when opts.BlobFiles
mapInfo(opts, a) == [ref |-> a, info |-> IF opts.BlobFiles THEN "layers" ELSE "plain"]

\* The objects the type handler yields: the referenced artefacts, or every
\* tagged artefact of the repository when no reference is given.
Objects == IF refs = <<>> THEN Artefacts ELSE Range(refs)

\* What the output selected by the completed output mode prints: outInfo's
\* artefact text for the default output (get_regular), else the Infos of
\* the chain infoChain(options) = Map(mapInfo(From(options))).
Outputs ==
  IF Output = NONE THEN {[ref |-> a, info |-> "text"] : a \in Objects}
  ELSE {mapInfo(From, a) : a \in Objects}

(***************************************************************************)
(* Command.Run, after a successful Complete: a new session, GetRepository *)
(* (may fail), then HandleArgs(outputs, &o.Output, handler, refs): an     *)
(* output mode that is no key of outputs fails, as may the lookup of a    *)
(* reference; otherwise the selected output prints.  session.Close is     *)
(* deferred.                                                               *)
(***************************************************************************)
Run ==
  /\ pc = "completed" /\ result = NONE
  /\ session = "none"
  /\ session' = "closed"
  /\ pc' = "done"
  /\ \/ /\ result' \in {"Repository", "Output"}
        /\ UNCHANGED printed
     \/ /\ output \in OutputModes
        /\ result' = NONE
        /\ printed' = Outputs
  /\ UNCHANGED <<refs, layerfiles, BlobFiles, spec, output, Output, Sort, sorted, usage>>

Next == AddFlags \/ Complete \/ Run

Spec == Init /\ [][Next]_vars

-----------------------------------------------------------------------------

\* Reference: the comma-separated field names of one value, blanks around
\* them dropped, empty ones dropped.
Commas(f) == {0, Len(f) + 1} \cup {j \in 1..Len(f) : f[j] = ","}
NextComma(f, j) == CHOOSE k \in Commas(f) : k > j /\ \A l \in Commas(f) : l > j => k <= l
Blank(s) == \A j \in 1..Len(s) : s[j] = " "
Stripped(s) ==
  LET body == {j \in 1..Len(s) : s[j] # " "}
  IN IF body = {} THEN <<>>
     ELSE SubSeq(s, CHOOSE a \in body : \A b \in body : a <= b,
                    CHOOSE a \in body : \A b \in body : a >= b)
Names(f) ==
  LET pieces == {<<j, SubSeq(f, j + 1, NextComma(f, j) - 1)>> : j \in Commas(f) \ {Len(f) + 1}}
      named  == SetToSortSeq({p \in pieces : ~Blank(p[2])}, LAMBDA x, y : x[1] < y[1])
  IN [n \in 1..Len(named) |-> Stripped(named[n][2])]

RefFields(vals) == FoldLeft(LAMBDA acc, f : acc \o Names(f), <<>>, vals)

(* The sort fields a completed describe command hands to its output are   *)
(* exactly the comma-separated names of all --sort values, in flag order, *)
(* each without surrounding blanks, and no empty name, however blanks,    *)
(* commas and flags were combined.                                        *)
SortFieldsAsGiven ==
  (pc \notin {"setup", "new"} /\ result \in {NONE, "Repository", "Output"}) => Sort = RefFields(sorted)

\* The non-empty keys in the given order, with ", " between two of them
Joined(o) == [k \in 1..(2 * Len(o) - 1) |-> IF k % 2 = 1 THEN o[(k + 1) \div 2] ELSE ", "]

(* Whichever order the map iteration of AddFlags takes, the usage of      *)
(* --output names every output mode except the default exactly once,      *)
(* separated by ", ", with no separator in front, at the end or doubled.  *)
UsageListsOutputModes ==
  usage # NONE => \E o \in SetToSeqs(OutputModes \ {""}) : usage = Joined(o)

=============================================================================
