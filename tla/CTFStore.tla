------------------------------ MODULE CTFStore ------------------------------
(***************************************************************************)
(* What the storage at the path of a CTF repository promises its readers,  *)
(* whatever codec, session or failure produced it: blobs, once stored,     *)
(* stay, and the index file, once there, is replaced only as a whole and   *)
(* only by one whose manifests resolve in the blob store, together with   *)
(* the blobs it brings along, or it becomes unreadable (the best-effort    *)
(* directory commit of the specification, section 9).  No opens, sessions, temporary archives or   *)
(* formats appear here; CTFRepository is checked to implement it.          *)
(***************************************************************************)
EXTENDS Naturals, FiniteSets

CONSTANTS
  Digests,     \* blob digests
  Manifests,   \* the digests that may be listed in the index
  Refs,        \* Refs[d]: the digests the content of d references
  NONE,        \* no index file
  TORN         \* an index file that cannot be read

VARIABLES
  index,       \* the manifests the index file at the path lists, or NONE
  blobs        \* the digests in the blob store at the path

\* Everything a set of manifests needs, found by following references
RECURSIVE Needed(_, _)
Needed(S, k) ==
  IF k = 0 THEN S ELSE Needed(S \cup UNION {Refs[d] : d \in S}, k - 1)

Resolves(I, B) == Needed(I, Cardinality(Digests)) \subseteq B

Init ==
  /\ index = NONE
  /\ blobs = {}

\* One more blob lands in the store; the index is untouched.
StoreBlob(d) ==
  /\ blobs' = blobs \cup {d}
  /\ UNCHANGED index

\* A new index replaces the old one at once, with any blobs it needs.
Commit(I, B) ==
  /\ blobs \subseteq B
  /\ Resolves(I, B)
  /\ index' = I
  /\ blobs' = B

\* An in-place rewrite of the index file is cut short: the index can no
\* longer be read, the blobs stay.
Tear ==
  /\ index' = TORN
  /\ UNCHANGED blobs

Next ==
  \/ Tear
  \/ \E d \in Digests : StoreBlob(d)
  \/ \E I \in SUBSET Manifests, B \in SUBSET Digests : Commit(I, B)

Spec == Init /\ [][Next]_<<index, blobs>>

=============================================================================
