----------------------------- MODULE OCMGrammar -----------------------------
(***************************************************************************)
(* The OCM reference grammar of pkg/contexts/ocm/grammar/grammar.go: the  *)
(* anchored expressions that split a repository, component version or     *)
(* full reference string into its parts, composed with the combinators of *)
(* Regex from the OCI grammar's expressions.  The OCI grammar lives        *)
(* outside this source tree; its expressions are parameters.              *)
(*                                                                         *)
(* What a caller gets from such an expression is FindStringSubmatch: the  *)
(* captures of the leftmost-first match.  Go's regexp gives the captures  *)
(* of the match a backtracking matcher finds first, trying an alternative *)
(* left to right, an optional or greedy repetition with the atom first and *)
(* a lazy one without; Submatches below is that matcher on the token texts.    *)
(***************************************************************************)
EXTENDS Regex

CONSTANTS
  Chars,                      \* the characters of reference strings
  OCITypeRegexp,              \* grammar.TypeRegexp
  DomainRegexp,               \* grammar.DomainRegexp
  DomainPortRegexp,           \* grammar.DomainPortRegexp
  RepositoryRegexp,           \* grammar.RepositoryRegexp
  RepositorySeparatorRegexp,  \* grammar.RepositorySeparatorRegexp
  TagRegexp,                  \* grammar.TagRegexp
  RepositorySeparator,        \* grammar.RepositorySeparator, as a string
  TagSeparator,               \* grammar.TagSeparator, as a string
  MaxPathLen,                 \* bound on the length of the CTF paths tried
  PathSuffixes,               \* what may follow a CTF path in a reference
  TypeNames, Hosts, SubPaths, Components, Versions  \* parts of references

-----------------------------------------------------------------------------
(* grammar.go *)

ComponentSeparator == RepositorySeparator
VersionSeparator == TagSeparator

TypeRegexp == OCITypeRegexp

AnchoredRepositoryRegexp ==
  Anchored(<<Optional(<<Capture(<<TypeRegexp>>), Literal(<<":", ":">>)>>),
             Capture(<<DomainPortRegexp>>),
             Optional(<<RepositorySeparatorRegexp, Capture(<<RepositoryRegexp>>)>>)>>)

AnchoredGenericRepositoryRegexp ==
  Anchored(<<Optional(<<Capture(<<TypeRegexp>>), Literal(<<":", ":">>)>>),
             Capture(<<<<".", "*">>>>)>>)

ComponentRegexp == Sequence(<<DomainRegexp, RepositorySeparatorRegexp, RepositoryRegexp>>)

AnchoredComponentVersionRegexp ==
  Anchored(<<Capture(<<ComponentRegexp>>),
             Optional(<<Literal(VersionSeparator), Capture(<<TagRegexp>>)>>)>>)

\* mutant: the sub path is captured together with its separator
AnchoredReferenceSubPathWithSeparator ==
  Anchored(<<Optional(<<Capture(<<TypeRegexp>>), Literal(<<":", ":">>)>>),
             Capture(<<DomainPortRegexp>>),
             Optional(<<Capture(<<RepositorySeparatorRegexp, RepositoryRegexp>>)>>),
             Literal(<<"/", "/">>), Capture(<<ComponentRegexp>>),
             Optional(<<Literal(VersionSeparator), Capture(<<TagRegexp>>)>>)>>)

AnchoredReferenceRegexp ==
  Anchored(<<Optional(<<Capture(<<TypeRegexp>>), Literal(<<":", ":">>)>>),
             Capture(<<DomainPortRegexp>>),
             Optional(<<RepositorySeparatorRegexp, Capture(<<RepositoryRegexp>>)>>),
             Literal(<<"/", "/">>), Capture(<<ComponentRegexp>>),
             Optional(<<Literal(VersionSeparator), Capture(<<TagRegexp>>)>>)>>)

\* mutant: the CTF path is matched greedily
AnchoredGenericReferenceGreedy ==
  Anchored(<<Optional(<<Capture(<<TypeRegexp>>), Literal(<<":", ":">>)>>),
             Capture(<<<<".", "*">>>>),
             Optional(<<Literal(<<"/", "/">>), Capture(<<ComponentRegexp>>),
                        Optional(<<Literal(VersionSeparator), Capture(<<TagRegexp>>)>>)>>)>>)

AnchoredGenericReferenceRegexp ==
  Anchored(<<Optional(<<Capture(<<TypeRegexp>>), Literal(<<":", ":">>)>>),
             Capture(<<<<".", "*", "?">>>>),
             Optional(<<Literal(<<"/", "/">>), Capture(<<ComponentRegexp>>),
                        Optional(<<Literal(VersionSeparator), Capture(<<TagRegexp>>)>>)>>)>>)

-----------------------------------------------------------------------------
(* Leftmost-first submatching.  A continuation is a sequence of items: a  *)
(* text still to match (with the number of captures in front of it), the *)
(* end of a capture, a loop over an atom, or the check that a loop        *)
(* iteration consumed something (Go never repeats an empty iteration).   *)

CharClass(t) == IF t = "." THEN Chars ELSE Class(t)

NCap(t) == Cardinality({k \in 1..Len(t) : t[k] = "("})

Item(r, g) == [kind |-> "re", r |-> r, g |-> g]

\* The length of the run of characters of class t in w behind position p
RunLen(w, t, p) ==
  Max({k \in 0..Len(w) - p : \A i \in 1..k : w[p + i] \in CharClass(t)})

RECURSIVE Bt(_, _, _), Step(_, _, _, _, _), FirstRun(_, _, _, _)

\* A loop over a one-character atom: its iterations, tried in the order
\* ks of their counts; every iteration consumes one character.
FirstRun(w, K, st, ks) ==
  IF ks = <<>> THEN NONE
  ELSE LET x == Bt(w, K, [st EXCEPT !.pos = @ + Head(ks)])
       IN IF x # NONE THEN x ELSE FirstRun(w, K, st, Tail(ks))

\* The first match state the continuation K reaches from st, or NONE
Bt(w, K, st) ==
  IF K = <<>> THEN st
  ELSE LET h == Head(K)
           T == Tail(K)
       IN CASE h.kind = "close" ->
                 Bt(w, T, [st EXCEPT !.caps[h.k] = <<h.s, st.pos>>])
            [] h.kind = "progress" ->
                 IF st.pos = h.from THEN NONE ELSE Bt(w, T, st)
            [] h.kind = "loop" ->
                 LET more == Step(w, h.a, h.g, <<[kind |-> "progress", from |-> st.pos], h>> \o T, st)
                     stop == Bt(w, T, st)
                 IN IF h.lazy THEN (IF stop # NONE THEN stop ELSE more)
                    ELSE (IF more # NONE THEN more ELSE stop)
            [] h.r = <<>> -> Bt(w, T, st)
            [] TopBars(h.r) # {} ->
                 LET b     == Min(TopBars(h.r))
                     left  == SubSeq(h.r, 1, b - 1)
                     first == Bt(w, <<Item(left, h.g)>> \o T, st)
                 IN IF first # NONE THEN first
                    ELSE Bt(w, <<Item(SubSeq(h.r, b + 1, Len(h.r)), h.g + NCap(left))>> \o T, st)
            [] OTHER ->
                 LET r    == h.r
                     n    == AtomLen(r)
                     a    == SubSeq(r, 1, n)
                     op   == IF n < Len(r) /\ r[n + 1] \in Postfix THEN r[n + 1] ELSE "none"
                     lazy == op \in {"+", "*"} /\ n + 1 < Len(r) /\ r[n + 2] = "?"
                     next == n + 1 + (IF op = "none" THEN 0 ELSE 1) + (IF lazy THEN 1 ELSE 0)
                     R    == <<Item(SubSeq(r, next, Len(r)), h.g + NCap(a))>> \o T
                     loop == [kind |-> "loop", a |-> a, g |-> h.g, lazy |-> lazy]
                     lo   == IF op = "+" THEN 1 ELSE 0
                     hi   == RunLen(w, a[1], st.pos)
                     ks   == IF lazy THEN [i \in 1..hi - lo + 1 |-> lo + i - 1]
                             ELSE [i \in 1..hi - lo + 1 |-> hi - i + 1]
                 IN CASE op \in {"+", "*"} /\ n = 1 /\ a[1] \notin {"^", "$"} ->
                         FirstRun(w, R, st, ks)
                      [] op = "none" -> Step(w, a, h.g, R, st)
                      [] op = "?"    -> LET x == Step(w, a, h.g, R, st)
                                        IN IF x # NONE THEN x ELSE Bt(w, R, st)
                      [] op = "*"    -> Bt(w, <<loop>> \o R, st)
                      [] op = "+"    -> Step(w, a, h.g, <<loop>> \o R, st)

\* One atom a (g captures in front of it), then the continuation K
Step(w, a, g, K, st) ==
  CASE a[1] = "(?:" -> Bt(w, <<Item(SubSeq(a, 2, Len(a) - 1), g)>> \o K, st)
    [] a[1] = "("   -> Bt(w, <<Item(SubSeq(a, 2, Len(a) - 1), g + 1),
                            [kind |-> "close", k |-> g + 1, s |-> st.pos]>> \o K, st)
    [] a[1] = "^"   -> IF st.pos = 0 THEN Bt(w, K, st) ELSE NONE
    [] a[1] = "$"   -> IF st.pos = Len(w) THEN Bt(w, K, st) ELSE NONE
    [] OTHER        -> IF st.pos < Len(w) /\ w[st.pos + 1] \in CharClass(a[1])
                       THEN Bt(w, K, [st EXCEPT !.pos = @ + 1]) ELSE NONE

\* FindStringSubmatch(w)[1:]: the captured strings, NONE for an unset group,
\* or NONE when r does not match w at all
Submatches(r, w) ==
  LET m == Bt(w, <<Item(r, 0)>>, [pos |-> 0, caps |-> [k \in 1..NCap(r) |-> NONE]])
  IN IF m = NONE THEN NONE
     ELSE [k \in 1..NCap(r) |-> IF m.caps[k] = NONE THEN NONE
                                ELSE SubSeq(w, m.caps[k][1] + 1, m.caps[k][2])]

-----------------------------------------------------------------------------
(* What the expressions are meant to split a string into *)

\* r matches the whole of s
Matches(r, s) == Len(s) \in Ends(r, s, {0})

Strings(n) == UNION {[1..k -> Chars] : k \in 0..n}

\* The type prefix of a string: the name in front of its first "::", if it
\* is a type name, and the rest of the string.
TypeSplit(w) ==
  LET cuts == {k \in 1..Len(w) - 1 : w[k] = ":" /\ w[k + 1] = ":"}
      k    == IF cuts = {} THEN 0 ELSE Min(cuts)
  IN IF k > 1 /\ Matches(TypeRegexp, SubSeq(w, 1, k - 1))
     THEN <<SubSeq(w, 1, k - 1), SubSeq(w, k + 2, Len(w))>>
     ELSE <<NONE, w>>

\* A component name with an optional version, split into the two
ComponentVersion(s) ==
  LET tags == {j \in 1..Len(s) : s[j] = VersionSeparator[1]
                                 /\ Matches(ComponentRegexp, SubSeq(s, 1, j - 1))
                                 /\ Matches(TagRegexp, SubSeq(s, j + 1, Len(s)))}
  IN CASE Matches(ComponentRegexp, s) -> <<s, NONE>>
       [] tags # {}                   -> LET j == Max(tags) IN
                                         <<SubSeq(s, 1, j - 1), SubSeq(s, j + 1, Len(s))>>
       [] OTHER                       -> NONE

\* A CTF reference: the file path reaches up to the first "//" behind which
\* a component version follows up to the end; without one it is the rest.
GenericReference(w) ==
  LET rest   == TypeSplit(w)[2]
      splits == {k \in 0..Len(rest) - 2 :
                   /\ rest[k + 1] = "/" /\ rest[k + 2] = "/"
                   /\ ComponentVersion(SubSeq(rest, k + 3, Len(rest))) # NONE}
  IN IF splits = {}
     THEN <<TypeSplit(w)[1], rest, NONE, NONE>>
     ELSE LET k  == Min(splits)
              cv == ComponentVersion(SubSeq(rest, k + 3, Len(rest)))
          IN <<TypeSplit(w)[1], SubSeq(rest, 1, k), cv[1], cv[2]>>

\* The text of a full reference with the given parts
Render(t, h, sub, c, v) ==
  (IF t = NONE THEN <<>> ELSE t \o <<":", ":">>) \o h
    \o (IF sub = NONE THEN <<>> ELSE RepositorySeparator \o sub)
    \o <<"/", "/">> \o c \o (IF v = NONE THEN <<>> ELSE VersionSeparator \o v)

-----------------------------------------------------------------------------

(* A CTF reference (optional type, file path, optional component version) *)
(* is split by AnchoredGenericReferenceRegexp as it is meant to be: the    *)
(* path ends at the first "//" behind which a component version follows  *)
(* up to the end, and is the whole rest otherwise; the lazy path, the      *)
(* optional type and the nested optional version decide this together.    *)
(* AnchoredGenericRepositoryRegexp gives the same type and the rest.  The  *)
(* expressions are fixed at package initialisation, that is, in the       *)
(* initial state of a client.                                              *)
GenericReferenceSplit ==
  steps = 0 =>
    \A pre \in {<<>>, <<"a", ":", ":">>}, p \in Strings(MaxPathLen), suf \in PathSuffixes :
      LET w == pre \o p \o suf IN
      /\ Submatches(AnchoredGenericReferenceRegexp, w) = GenericReference(w)
      /\ Submatches(AnchoredGenericRepositoryRegexp, w) = TypeSplit(w)

(* The comment of AnchoredReferenceRegexp: "It provides 5 captures: type, *)
(* repository host port, sub path, component and version".  For every    *)
(* reference put together from such parts, the five captures give back    *)
(* the parts, and AnchoredRepositoryRegexp and                             *)
(* AnchoredComponentVersionRegexp give back the repository and the        *)
(* component version parts of it.                                         *)
ReferenceCapturesAsDocumented ==
  steps = 0 =>
    \A t \in TypeNames, h \in Hosts, sub \in SubPaths, c \in Components, v \in Versions :
      LET repo == (IF t = NONE THEN <<>> ELSE t \o <<":", ":">>) \o h
                    \o (IF sub = NONE THEN <<>> ELSE RepositorySeparator \o sub)
          cv   == c \o (IF v = NONE THEN <<>> ELSE VersionSeparator \o v)
      IN /\ Submatches(AnchoredReferenceRegexp, Render(t, h, sub, c, v)) = <<t, h, sub, c, v>>
         /\ Submatches(AnchoredRepositoryRegexp, repo) = <<t, h, sub>>
         /\ Submatches(AnchoredComponentVersionRegexp, cv) = <<c, v>>

=============================================================================
