------------------------------- MODULE Regex -------------------------------
(***************************************************************************)
(* The regular-expression combinators of pkg/regex/regex.go.  Each         *)
(* combinator builds the source text of a new expression from the source   *)
(* text of its arguments (re.String()) and compiles it with Match; what    *)
(* the result denotes is therefore what the concatenated text parses to.  *)
(*                                                                         *)
(* A regexp's text is a sequence of tokens: the group brackets "(?:", "(" *)
(* and ")", "|", the postfix operators "?", "+", "*", the anchors "^" and *)
(* "$", the classes "[A-Za-z]", "[A-Za-z0-9]", "[0-9]" and ".", and literal *)
(* characters.  Strings are over a three-letter alphabet standing for a    *)
(* letter ("a"), a digit ("1") and the regexp metacharacter "+".  Ends    *)
(* gives RE2's (leftmost-first is irrelevant for matching) set semantics:  *)
(* the positions a match can end at.                                       *)
(*                                                                         *)
(* A client composes expressions as grammar.go does: it starts from the   *)
(* package atoms and applies one combinator per step.  Every value keeps   *)
(* its text and the language its combinators' comments promise for it.    *)
(***************************************************************************)
EXTENDS Naturals, Sequences, SequencesExt, FiniteSetsExt

CONSTANTS
  Raw,        \* further texts a client passes to Match
  MaxLen,     \* bound on the length of the strings matched
  MaxBuilt,   \* bound on the combinator applications of a client
  NONE

Alphabet == {"a", "1", "+"}

Words == UNION {[1..n -> Alphabet] : n \in 0..MaxLen}

\* The characters a class or literal token matches
Class(t) ==
  CASE t = "[A-Za-z]"    -> {"a"}
    [] t = "[A-Za-z0-9]" -> {"a", "1"}
    [] t = "[0-9]"       -> {"1"}
    [] t = "."           -> Alphabet
    [] t = "\\+"         -> {"+"}
    [] OTHER             -> {t}

Opens == {"(?:", "("}
Postfix == {"?", "+", "*"}

\* Group nesting depth in front of the k-th token
Depth(r, k) ==
  Cardinality({j \in 1..(k - 1) : r[j] \in Opens})
    - Cardinality({j \in 1..(k - 1) : r[j] = ")"})

\* The alternation bars outside of every group
TopBars(r) == {k \in 1..Len(r) : r[k] = "|" /\ Depth(r, k) = 0}

\* Length of the atom a text starts with: a bracketed group or one token
AtomLen(r) ==
  IF r[1] \in Opens THEN Min({k \in 2..Len(r) : r[k] = ")" /\ Depth(r, k) = 1}) ELSE 1

RECURSIVE Ends(_, _, _), Cat(_, _, _), AtomEnds(_, _, _), Star(_, _, _, _)

\* The positions of w a match of r begun at a position of S can end at.
Ends(r, w, S) ==
  IF S = {} THEN {}
  ELSE IF TopBars(r) = {} THEN Cat(r, w, S)
  ELSE LET b == Min(TopBars(r)) IN
       Ends(SubSeq(r, 1, b - 1), w, S) \cup Ends(SubSeq(r, b + 1, Len(r)), w, S)

\* A concatenation of atoms, each followed by at most one postfix operator
\* (and the non-greedy "?" after it, which does not change what matches).
Cat(r, w, S) ==
  IF r = <<>> \/ S = {} THEN S
  ELSE LET n    == AtomLen(r)
           atom == SubSeq(r, 1, n)
           op   == IF n < Len(r) /\ r[n + 1] \in Postfix THEN r[n + 1] ELSE "none"
           lazy == op \in {"+", "*"} /\ n + 1 < Len(r) /\ r[n + 2] = "?"
           next == n + 1 + (IF op = "none" THEN 0 ELSE 1) + (IF lazy THEN 1 ELSE 0)
           T    == CASE op = "?" -> S \cup AtomEnds(atom, w, S)
                     [] op = "+" -> Star(atom, w, AtomEnds(atom, w, S), Len(w))
                     [] op = "*" -> Star(atom, w, S, Len(w))
                     [] OTHER    -> AtomEnds(atom, w, S)
       IN Cat(SubSeq(r, next, Len(r)), w, T)

AtomEnds(a, w, S) ==
  CASE a[1] \in Opens -> Ends(SubSeq(a, 2, Len(a) - 1), w, S)
    [] a[1] = "^"     -> S \cap {0}
    [] a[1] = "$"     -> S \cap {Len(w)}
    [] OTHER          -> {i + 1 : i \in {j \in S : j < Len(w) /\ w[j + 1] \in Class(a[1])}}

\* Further repetitions of an atom until nothing new is reached
Star(a, w, T, n) ==
  LET U == T \cup AtomEnds(a, w, T) IN
  IF n = 0 \/ U = T THEN T ELSE Star(a, w, U, n - 1)

\* re.MatchString(w): a match anywhere in w
MatchString(r, w) == Ends(r, w, 0..Len(w)) # {}

\* The strings r matches as a whole: the language r denotes
Lang(r) == {w \in Words : Len(w) \in Ends(r, w, {0})}

-----------------------------------------------------------------------------
(* The combinators: text in, text out (a variadic argument is a sequence). *)

\* regexp.QuoteMeta of one character: "+" is the metacharacter of Alphabet
QuoteMeta(c) == IF c = "+" THEN "\\+" ELSE c

\* Literal(s): QuoteMeta, compile; the LiteralPrefix test always passes on a
\* quoted text, so the panic cannot happen.
Literal(s) == [i \in 1..Len(s) |-> QuoteMeta(s[i])]

\* mutant: the arguments' texts are joined in reverse order
SequenceReversed(res) == FlattenSeq(Reverse(res))

Sequence(res) == FlattenSeq(res)

Group(res) == <<"(?:">> \o Sequence(res) \o <<")">>

Optional(res) == Group(<<Sequence(res)>>) \o <<"?">>

Repeated(res) == Group(<<Sequence(res)>>) \o <<"+">>

Or(res) ==
  <<"(?:">> \o FoldLeft(LAMBDA s, re : IF s = <<>> THEN Group(<<re>>)
                                       ELSE s \o <<"|">> \o Group(<<re>>),
                        <<>>, res) \o <<")">>

\* mutant: the capture is never closed
CaptureUnclosed(res) == <<"(">> \o Sequence(res)

Capture(res) == <<"(">> \o Sequence(res) \o <<")">>

\* mutant: only the start is anchored
AnchoredStartOnly(res) == <<"^">> \o Sequence(res)

Anchored(res) == <<"^">> \o Sequence(res) \o <<"$">>

\* The package atoms
Alpha == <<"[A-Za-z]", "+">>
AlphaNumeric == <<"[A-Za-z0-9]", "+">>
Identifier == Sequence(<<Alpha, <<"[A-Za-z0-9]">>, Optional(<<Literal(<<"+">>), Alpha>>)>>)

-----------------------------------------------------------------------------
(* The languages the combinators' comments promise *)

Concat(L1, L2) == {u \o v : u \in L1, v \in L2} \cap Words

RECURSIVE Iterate(_, _, _)
Iterate(L, T, n) == IF n = 0 THEN T ELSE Iterate(L, T \cup Concat(T, L), n - 1)

\* "each regular expression must follow the previous"
SeqLang(Ls) == FoldLeft(Concat, {<<>>}, Ls)
\* "makes the production optional"
OptLang(Ls) == SeqLang(Ls) \cup {<<>>}
\* "one or more matches"
RepLang(Ls) == Iterate(SeqLang(Ls), SeqLang(Ls), MaxLen)
\* "alternative regexps"
OrLang(Ls) == UNION {Ls[i] : i \in 1..Len(Ls)}

\* The alphanumeric strings that start with a letter
IdentifierDoc == {w \in Words \ {<<>>} : w[1] = "a" /\ \A i \in 1..Len(w) : w[i] \in {"a", "1"}}

-----------------------------------------------------------------------------
(* A client composing expressions, as the package variables and           *)
(* grammar.go do.                                                          *)

VARIABLES
  built,      \* the expressions the client holds: text and promised language
  last,       \* the expression built last, or NONE
  steps       \* combinator applications so far

vars == <<built, last, steps>>

Value == [re: Seq(STRING), lang: SUBSET Words]

\* Match of a text: the promised language is what the text denotes
MatchValue(t) == [re |-> t, lang |-> Lang(t)]

\* The package variables and the texts the client matches itself
Atoms == {Alpha, AlphaNumeric, Identifier, Literal(<<"+">>)} \cup Raw

\* A text MustCompile accepts: its group brackets balance
Compiles(t) ==
  /\ \A k \in 1..Len(t) + 1 : Depth(t, k) >= 0
  /\ Depth(t, Len(t) + 1) = 0

TypeOK ==
  /\ built \subseteq Value
  /\ \A v \in built : Compiles(v.re)
  /\ last \in Value \cup {NONE}
  /\ steps \in 0..MaxBuilt

Init ==
  /\ built = {MatchValue(t) : t \in Atoms}
  /\ last = NONE
  /\ steps = 0

\* Argument lists of one or two held expressions
Args == {<<x>> : x \in built} \cup {<<x, y>> : x, y \in built}

Texts(args) == [i \in 1..Len(args) |-> args[i].re]
Langs(args) == [i \in 1..Len(args) |-> args[i].lang]

Build(v) ==
  /\ steps < MaxBuilt
  /\ built' = built \cup {v}
  /\ last' = v
  /\ steps' = steps + 1

NewSequence(args) == Build([re |-> Sequence(Texts(args)), lang |-> SeqLang(Langs(args))])
NewOptional(args) == Build([re |-> Optional(Texts(args)), lang |-> OptLang(Langs(args))])
NewRepeated(args) == Build([re |-> Repeated(Texts(args)), lang |-> RepLang(Langs(args))])
NewGroup(args)    == Build([re |-> Group(Texts(args)), lang |-> SeqLang(Langs(args))])
NewOr(args)       == Build([re |-> Or(Texts(args)), lang |-> OrLang(Langs(args))])
NewCapture(args)  == Build([re |-> Capture(Texts(args)), lang |-> SeqLang(Langs(args))])

Next ==
  \E args \in Args :
    \/ NewSequence(args) \/ NewOptional(args) \/ NewRepeated(args)
    \/ NewGroup(args) \/ NewOr(args) \/ NewCapture(args)

Spec == Init /\ [][Next]_vars

-----------------------------------------------------------------------------

(* Every combinator denotes what its comment promises, for arguments that *)
(* are themselves built by the combinators: the text Sequence, Optional,  *)
(* Repeated, Group, Or and Capture put together, once compiled, matches   *)
(* exactly the concatenation, option, repetition or union of what its     *)
(* arguments match.  The combinators only concatenate texts, so this     *)
(* depends on every argument binding as a unit in its new context.       *)
CombinatorsDenote == last # NONE => Lang(last.re) = last.lang

(* Anchored(re) makes MatchString a whole-string test: for every built    *)
(* expression, the anchored text matches somewhere in a string exactly   *)
(* when the expression matches the whole string.                          *)
AnchoredMatchesWhole ==
  last # NONE =>
    \A w \in Words : MatchString(Anchored(<<last.re>>), w) = (w \in last.lang)

(* The package's Identifier is what its comment says: an AlphaNumeric      *)
(* string starting with an Alpha one.                                      *)
IdentifierAsDocumented ==
  \A v \in built : v.re = Identifier => v.lang = IdentifierDoc

=============================================================================
