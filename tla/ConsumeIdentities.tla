------------------------- MODULE ConsumeIdentities -------------------------
(***************************************************************************)
(* ConsumeIdentities of cmds/ocm/commands/ocmcmds/common/utils.go: the     *)
(* command-line parser that turns "name key=value ... name ..." arguments  *)
(* into a list of element identities, stopping at a stop token.  The loop  *)
(* is modelled step by step (one Step per argument) and its outcome is     *)
(* compared with a declarative definition of the same grammar.             *)
(*                                                                         *)
(* An argument is abstracted to what strings.Index(a, "=") makes of it: a *)
(* record with key NONE and the whole text as val when it has no "=", and  *)
(* the text before and after the first "=" otherwise.                      *)
(***************************************************************************)
EXTENDS Naturals, Sequences, SequencesExt, TLC

CONSTANTS
  Names,      \* argument texts without "="
  Keys,       \* texts before the first "=" (the empty key included)
  Vals,       \* texts after the first "="
  Stop,       \* the stop arguments a caller may pass
  MaxArgs,    \* bound on the number of arguments
  NONE

SystemIdentityName == "name"

ASSUME Stop \subseteq Names /\ "" \in Keys /\ MaxArgs \in Nat

Args == {[key |-> NONE, val |-> n] : n \in Names} \cup
        {[key |-> k, val |-> v] : k \in Keys, v \in Vals}

Errors == {"FirstNotName", "EmptyKey", "OnlyOne"}

IsStop(a, st) == a.key = NONE /\ a.val \in st

VARIABLES
  pattern,    \* the pattern argument
  stop,       \* the stop arguments of this call
  args,       \* the arguments
  i,          \* loop index
  result,     \* the identities built so far
  rest,       \* returned rest of the arguments, NONE for nil
  err,        \* returned error, NONE for nil
  pc,         \* "loop", "done", or "mapped" once MapArgsToIdentityPattern returned
  pat         \* the identity MapArgsToIdentityPattern returned, NONE for nil

vars == <<pattern, stop, args, i, result, rest, err, pc, pat>>

Identity == UNION {[D -> Vals \cup Names] : D \in SUBSET (Keys \cup {SystemIdentityName})}

TypeOK ==
  /\ pattern \in BOOLEAN
  /\ stop \in {{}, Stop}
  /\ args \in BoundedSeq(Args, MaxArgs)
  /\ i \in 1..MaxArgs + 1
  /\ result \in Seq(Identity) \cup {NONE}
  /\ rest \in Seq(Args) \cup {NONE}
  /\ err \in Errors \cup {NONE}
  /\ pc \in {"loop", "done", "mapped"}
  /\ pat \in Identity \cup {NONE}

\* A call from MapArgsToIdentities or MapArgsToIdentityPattern passes no
\* stop arguments; other callers may.
Init ==
  /\ pattern \in BOOLEAN
  /\ stop \in {{}, Stop}
  /\ args \in BoundedSeq(Args, MaxArgs)
  /\ i = 1
  /\ result = <<>>
  /\ rest = NONE
  /\ err = NONE
  /\ pc = "loop"
  /\ pat = NONE

Return(res, r, e) ==
  /\ result' = res
  /\ rest' = r
  /\ err' = e
  /\ pc' = "done"
  /\ UNCHANGED <<pattern, stop, args, i, pat>>

\* mutant: key and value of a[:i] / a[i+1:] are swapped
AssignmentSwapped(a) == a.val :> a.key

\* Identity{a[:i]: a[i+1:]}
Assignment(a) == a.key :> a.val

\* mutant: the rest starts at the stop argument itself
RestFrom(as, j) == SubSeq(as, j, Len(as))

\* args[i+1:], the arguments after the stop argument at i
RestAfter(as, j) == SubSeq(as, j + 1, Len(as))

\* One iteration of the loop over args, or the return after it.
Step ==
  /\ pc = "loop"
  /\ IF i > Len(args)
     THEN Return(result, NONE, NONE)
     ELSE LET a == args[i]
              \* result = append(...) or result[len(result)-1][key] = value
              assigned == IF result = <<>>
                          THEN Append(result, Assignment(a))
                          ELSE [result EXCEPT ![Len(result)] = Assignment(a) @@ @]
          IN CASE IsStop(a, stop) -> Return(result, RestAfter(args, i), NONE)
               [] a.key = NONE ->
                    /\ result' = Append(result, SystemIdentityName :> a.val)
                    /\ i' = i + 1
                    /\ UNCHANGED <<pattern, stop, args, rest, err, pc, pat>>
               [] result = <<>> /\ ~pattern -> Return(NONE, NONE, "FirstNotName")
               [] a.key = "" -> Return(NONE, NONE, "EmptyKey")
               [] OTHER ->
                    /\ result' = assigned
                    /\ i' = i + 1
                    /\ UNCHANGED <<pattern, stop, args, rest, err, pc, pat>>

(***************************************************************************)
(* MapArgsToIdentityPattern(args...): ConsumeIdentities(true, args), then  *)
(* nil for no identity, the identity for one, an error for several; an     *)
(* error of ConsumeIdentities is returned as it is.                         *)
(***************************************************************************)
\* mutant: several identities are not refused; the first is returned
MapPatternTakesFirst ==
  /\ pc = "done" /\ pattern /\ stop = {}
  /\ pat' = IF err = NONE /\ Len(result) >= 1 THEN result[1] ELSE NONE
  /\ pc' = "mapped"
  /\ UNCHANGED <<pattern, stop, args, i, result, rest, err>>

MapArgsToIdentityPattern ==
  /\ pc = "done" /\ pattern /\ stop = {}
  /\ pat' = IF err = NONE /\ Len(result) = 1 THEN result[1] ELSE NONE
  /\ err' = IF err = NONE /\ Len(result) > 1 THEN "OnlyOne" ELSE err
  /\ pc' = "mapped"
  /\ UNCHANGED <<pattern, stop, args, i, result, rest>>

Next == Step \/ MapArgsToIdentityPattern

Spec == Init /\ [][Next]_vars

-----------------------------------------------------------------------------
(***************************************************************************)
(* Reference: the grammar the parser implements, stated without the loop. *)
(* The arguments before the first stop are consumed; each argument without *)
(* "=" (and, in pattern mode, a leading assignment) opens an identity, and *)
(* the assignments after it add keys to it, later ones overriding earlier  *)
(* ones.  The first offending argument decides the error.                  *)
(***************************************************************************)
StopAt(as, st) == LET S == {j \in 1..Len(as) : IsStop(as[j], st)}
                  IN IF S = {} THEN Len(as) + 1 ELSE CHOOSE j \in S : \A l \in S : j <= l

ErrorAt(as, pt, j) ==
  CASE as[j].key = NONE   -> NONE
    [] j = 1 /\ ~pt       -> "FirstNotName"
    [] as[j].key = ""     -> "EmptyKey"
    [] OTHER              -> NONE

\* The identity opened at position g of as, extended up to position e.
RECURSIVE Extend(_, _, _)
Extend(as, id, e) == IF e = 0 THEN id
                     ELSE (as[e].key :> as[e].val) @@ Extend(as, id, e - 1)

Opens(as, j) == as[j].key = NONE \/ j = 1

RefIdentities(as) ==
  LET starts == {j \in 1..Len(as) : Opens(as, j)}
      next(g) == LET L == {j \in starts : j > g}
                 IN IF L = {} THEN Len(as) + 1 ELSE CHOOSE j \in L : \A l \in L : j <= l
      ident(g) == LET body == SubSeq(as, g + 1, next(g) - 1)
                      first == IF as[g].key = NONE THEN (SystemIdentityName :> as[g].val)
                               ELSE (as[g].key :> as[g].val)
                  IN Extend(body, first, Len(body))
  IN SetToSortSeq({<<g, ident(g)>> : g \in starts}, LAMBDA x, y : x[1] < y[1])

Reference(pt, st, as) ==
  LET k == StopAt(as, st)
      prefix == SubSeq(as, 1, k - 1)
      bad == {j \in 1..Len(prefix) : ErrorAt(prefix, pt, j) # NONE}
  IN IF bad # {}
     THEN LET j == CHOOSE j \in bad : \A l \in bad : j <= l
          IN [result |-> NONE, rest |-> NONE, err |-> ErrorAt(prefix, pt, j)]
     ELSE [result |-> [n \in 1..Len(RefIdentities(prefix)) |-> RefIdentities(prefix)[n][2]],
           rest |-> IF k > Len(as) THEN NONE ELSE SubSeq(as, k + 1, Len(as)),
           err |-> NONE]

(* For every argument list of up to MaxArgs arguments, with and without    *)
(* pattern mode, the loop returns exactly the identities, rest and error   *)
(* of the grammar: identities split at sole names, keys merged in order,  *)
(* nothing consumed after the stop token, the first offending argument     *)
(* reported.                                                               *)
ConsumeMatchesReference ==
  pc = "done" => [result |-> result, rest |-> rest, err |-> err] = Reference(pattern, stop, args)

(***************************************************************************)
(* Reference for MapArgsToIdentityPattern: one identity built from every  *)
(* argument (a sole name sets "name"), later keys overriding earlier ones; *)
(* an empty key anywhere is an error, and so is a sole name after the      *)
(* first argument, which would start a second identity.                    *)
(***************************************************************************)
Merged(as) ==
  FoldLeft(LAMBDA id, a : (IF a.key = NONE THEN SystemIdentityName ELSE a.key) :> a.val @@ id,
           [x \in {} |-> NONE], as)

RefPattern(as) ==
  CASE \E j \in 1..Len(as) : as[j].key = ""         -> [pat |-> NONE, err |-> "EmptyKey"]
    [] \E j \in 2..Len(as) : as[j].key = NONE       -> [pat |-> NONE, err |-> "OnlyOne"]
    [] as = <<>>                                   -> [pat |-> NONE, err |-> NONE]
    [] OTHER                                       -> [pat |-> Merged(as), err |-> NONE]

(* MapArgsToIdentityPattern returns one pattern made of all its arguments, *)
(* or an error: never a pattern that silently drops arguments because    *)
(* they started a second identity, never one with an empty key.           *)
PatternMatchesReference ==
  pc = "mapped" => [pat |-> pat, err |-> err] = RefPattern(args)

=============================================================================
