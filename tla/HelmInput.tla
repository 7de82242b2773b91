----------------------------- MODULE HelmInput -----------------------------
(***************************************************************************)
(* The helm input handler of                                               *)
(* cmds/ocm/commands/ocmcmds/common/inputs/handlers/helm/handler.go.  A    *)
(* resources file lists Slots inputs; each is validated in turn          *)
(* (Validate returns a field error list), and only when no input has an  *)
(* error is each turned into a blob (GetBlob), as the resource and source *)
(* "add" commands do with their input handlers.                           *)
(*                                                                         *)
(* An input is abstracted to whether it sets file-info fields the helm     *)
(* type forbids (inputs.ForbidFileInfo) and to what its path denotes:      *)
(* nothing (""), a missing file, a directory, a regular file, or a file   *)
(* of another type (device, socket, pipe, symlink mode bits).  On error,   *)
(* inputs.FileInfo returns the nil FileInfo of the failed stat; a method   *)
(* call on a nil FileInfo panics.  Loading the chart and synthesizing the  *)
(* artefact set may each fail for a chart the loader or the packer        *)
(* cannot read.                                                            *)
(***************************************************************************)

EXTENDS Naturals

CONSTANT Slots   \* the inputs of the resources file, 1..N

PathKinds == {"", "missing", "dir", "regular", "special"}

Inputs == [path: PathKinds, forbidden: BOOLEAN]

\* The field errors Validate can report
FieldErrors == {"Forbidden", "Required", "Invalid", "NoRegularFile"}

VARIABLES
  input,      \* per slot: the input
  phase,      \* per slot: "validate", "getblob", "rejected", "panic", "done"
  errs,       \* per slot: field errors Validate returned
  blobResult  \* per slot: outcome of GetBlob

vars == <<input, phase, errs, blobResult>>

TypeOK ==
  /\ input \in [Slots -> Inputs]
  /\ phase \in [Slots -> {"validate", "getblob", "rejected", "panic", "done"}]
  /\ errs \in [Slots -> SUBSET FieldErrors]
  /\ blobResult \in [Slots -> {"none", "ok", "StatError", "LoadError", "SynthError"}]
  \* an input is past validation only with an empty error list
  /\ \A k \in Slots : phase[k] \in {"getblob", "done"} => errs[k] = {}

Init ==
  /\ input \in [Slots -> Inputs]
  /\ phase = [k \in Slots |-> "validate"]
  /\ errs = [k \in Slots |-> {}]
  /\ blobResult = [k \in Slots |-> "none"]

\* Inputs are handled in file order; a panic ends the command.
Turn(k) == /\ \A j \in Slots : j < k => phase[j] # "validate"
           /\ \A j \in Slots : phase[j] # "panic"

\* inputs.FileInfo: stat of the path; nil info and an error if it is missing.
StatFails(i) == i.path = "missing"

\* !inputInfo.IsDir() && inputInfo.Mode()&os.ModeType != 0 on a non-nil info
NotRegularOrDir(i) == i.path = "special"

(***************************************************************************)
(* Validate: the forbidden fields, then Required for an empty path, else  *)
(* FileInfo, an Invalid error if it failed, and the mode test on the info  *)
(* it returned, whether or not it failed.                                  *)
(***************************************************************************)
\* mutant: the returned error list is not looked at
ValidateIgnoresErrors(k) ==
  /\ phase[k] = "validate"
  /\ Turn(k)
  /\ LET i == input[k]
         forb == IF i.forbidden THEN {"Forbidden"} ELSE {}
         e == CASE i.path = ""         -> forb \cup {"Required"}
                [] NotRegularOrDir(i) -> forb \cup {"NoRegularFile"}
                [] OTHER              -> forb
     IN /\ errs' = [errs EXCEPT ![k] = e]
        /\ phase' = [phase EXCEPT ![k] = IF StatFails(i) THEN "panic" ELSE "getblob"]
  /\ UNCHANGED <<input, blobResult>>

\* mutant: the file mode test is left out
ValidateNoModeCheck(k) ==
  /\ phase[k] = "validate"
  /\ Turn(k)
  /\ LET i == input[k]
         forb == IF i.forbidden THEN {"Forbidden"} ELSE {}
         e == CASE i.path = ""  -> forb \cup {"Required"}
                [] StatFails(i) -> forb \cup {"Invalid"}
                [] OTHER        -> forb
     IN /\ errs' = [errs EXCEPT ![k] = e]
        /\ phase' = [phase EXCEPT ![k] = IF e = {} THEN "getblob" ELSE "rejected"]
  /\ UNCHANGED <<input, blobResult>>

Validate(k) ==
  /\ phase[k] = "validate"
  /\ Turn(k)
  /\ LET i == input[k]
         forb == IF i.forbidden THEN {"Forbidden"} ELSE {}
     IN IF i.path # "" /\ StatFails(i)
        THEN /\ errs' = [errs EXCEPT ![k] = forb \cup {"Invalid"}]
             /\ phase' = [phase EXCEPT ![k] = "panic"]
        ELSE LET e == CASE i.path = ""         -> forb \cup {"Required"}
                        [] NotRegularOrDir(i) -> forb \cup {"NoRegularFile"}
                        [] OTHER              -> forb
             IN /\ errs' = [errs EXCEPT ![k] = e]
                /\ phase' = [phase EXCEPT ![k] = IF e = {} THEN "getblob" ELSE "rejected"]
  /\ UNCHANGED <<input, blobResult>>

(***************************************************************************)
(* GetBlob: FileInfo, loader.Load of the chart, SynthesizeArtefactBlob;   *)
(* each error is returned as it occurs.  Load reads only directories and   *)
(* regular files (chart archives).                                         *)
(***************************************************************************)
\* Blobs are only taken once every input validated without error.
GetBlob(k) ==
  /\ phase[k] = "getblob"
  /\ \A j \in Slots : phase[j] \in {"getblob", "done"}
  /\ phase' = [phase EXCEPT ![k] = "done"]
  /\ \E r \in CASE StatFails(input[k])       -> {"StatError"}
                [] NotRegularOrDir(input[k]) -> {"LoadError"}
                [] OTHER                     -> {"ok", "LoadError", "SynthError"} :
       blobResult' = [blobResult EXCEPT ![k] = r]
  /\ UNCHANGED <<input, errs>>

Next == \E k \in Slots : Validate(k) \/ GetBlob(k)

Spec == Init /\ [][Next]_vars

-----------------------------------------------------------------------------

(* Only a chart reaches the loader: every input that Validate accepts     *)
(* denotes an existing directory or regular file without file-info        *)
(* fields, so GetBlob fails only on what the chart contains.              *)
AcceptedInputIsChart ==
  \A k \in Slots : phase[k] = "done" =>
    input[k].path \in {"dir", "regular"} /\ ~input[k].forbidden

(* Validate reports every bad input in its error list and never aborts    *)
(* the command: a path that does not exist is returned as an Invalid      *)
(* field error (Validate's result is the list of all input errors).       *)
ValidateNeverPanics == \A k \in Slots : phase[k] # "panic"

=============================================================================
