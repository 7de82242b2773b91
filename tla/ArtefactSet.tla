---------------------------- MODULE ArtefactSet ----------------------------
(***************************************************************************)
(* Synthesis of an artefact-set blob from a namespace and a tag, the       *)
(* reference-counted temporary blob that holds it, and the extraction of   *)
(* the blob by OpenFromBlob, as exercised by                               *)
(* pkg/oci/repositories/ctf/synthesis_test.go: synthesize from a           *)
(* repository, open the blob, release the blob while the opened set is     *)
(* still in use, and synthesize again from the opened set.                 *)
(*                                                                         *)
(* OpenFromBlob is translated from pkg/contexts/oci/repositories/ctf/      *)
(* format.go; SynthesizeArtefactBlob, the temporary blob and the codec     *)
(* open live in packages outside this source tree (artefactset, accessio,  *)
(* accessobj) and are modelled from the specification (4.1, 4.6, 4.7).     *)
(***************************************************************************)
EXTENDS Naturals, FiniteSets, Bitwise

CONSTANTS
  Digests,    \* blob digests
  Refs,       \* Refs[d]: the digests the content of d references
  Tags,       \* tags of the source namespace
  TagRoot,    \* TagRoot[t]: the manifest the source namespace tags with t
  BlobIds,    \* temporary blobs that synthesis may create
  SetIds,     \* artefact-set objects that may be opened from blobs
  Holders,    \* handles on a temporary blob (the synthesis result and its Dups)
  NONE

ASSUME Refs \in [Digests -> SUBSET Digests]
ASSUME TagRoot \in [Tags -> Digests]

ACC_READONLY == 1
ACC_CREATE   == 2
AccessModes  == {0, ACC_READONLY, ACC_CREATE}

\* Options a caller may pass to OpenFromBlob besides the blob
OpenOptions == {"none", "file", "reader"}

RECURSIVE Reach(_, _)
Reach(S, n) == IF n = 0 THEN S ELSE Reach(S \cup UNION {Refs[d] : d \in S}, n - 1)
Closure(S) == Reach(S, Cardinality(Digests))

\* The source repository namespace (opened read-only in the test)
Source == [index |-> {TagRoot[t] : t \in Tags}, main |-> NONE, tag |-> NONE,
           blobs |-> Closure({TagRoot[t] : t \in Tags})]

Content == [index: SUBSET Digests, main: Digests \cup {NONE},
            tag: Tags \cup {NONE}, blobs: SUBSET Digests]

VARIABLES
  blob,       \* the temporary blobs
  handle,     \* handle[b][h]: holder h still holds blob b
  set,        \* the artefact-set objects opened from blobs
  result      \* result of the last call

vars == <<blob, handle, set, result>>

BlobState == [state: {"unused", "live", "deleted"}, gzip: BOOLEAN, compressed: BOOLEAN,
              refs: 0..Cardinality(Holders), content: Content \cup {NONE}]

SetState == [state: {"unused", "open", "closed"}, readonly: BOOLEAN,
             content: Content \cup {NONE}]

TypeOK ==
  /\ blob \in [BlobIds -> BlobState]
  /\ handle \in [BlobIds -> [Holders -> BOOLEAN]]
  /\ set \in [SetIds -> SetState]
  /\ result \in {"ok", "NotFound", "Invalid", "IO", "Format"}

Init ==
  /\ blob = [b \in BlobIds |-> [state |-> "unused", gzip |-> FALSE, compressed |-> FALSE, refs |-> 0, content |-> NONE]]
  /\ handle = [b \in BlobIds |-> [h \in Holders |-> FALSE]]
  /\ set = [s \in SetIds |-> [state |-> "unused", readonly |-> TRUE, content |-> NONE]]
  /\ result = "ok"

\* What an artefact set reads: the copy extracted when it was opened.
SetContent(s) == set[s].content

\* A namespace synthesis can start from: the source, or an open set
Namespaces == {"source"} \cup SetIds

NsContent(n) == IF n = "source" THEN Source ELSE SetContent(n)

\* Tag lookup: the source binds every tag; a set binds the tag it records.
Resolve(n, t) ==
  IF n = "source" THEN TagRoot[t]
  ELSE IF NsContent(n) # NONE /\ NsContent(n).tag = t THEN NsContent(n).main ELSE NONE

\* Slots a new blob or set may take: never used, or released for good
\* (a deleted temporary blob, a closed set), standing for a fresh object.
Free == {"unused", "deleted", "closed"}

Fail(r) == /\ result' = r
           /\ UNCHANGED <<blob, handle, set>>

(***************************************************************************)
(* SynthesizeArtefactBlob(ns, tag): resolve the tag, walk index/manifest   *)
(* to configs and layers, build an index listing only the root with the    *)
(* main-artefact and tag annotations, copy the reachable blobs, write a    *)
(* compressed archive to a temporary file and return it as a temporary    *)
(* blob held once (by h), with a mime type ending in "+gzip" (gzip).       *)
(***************************************************************************)
\* mutant: the new index lists every manifest of the namespace
SynthIndexAll(c, root) == c.index

SynthIndex(c, root) == {root}

SynthBlobs(c, root) == Closure({root}) \cap c.blobs

Synthesize(n, t, b, h) ==
  /\ blob[b].state \in Free
  /\ (n \in SetIds => set[n].state = "open")
  /\ LET root == Resolve(n, t)
         c == NsContent(n)
     IN CASE root = NONE                         -> Fail("NotFound")
          [] ~(Closure({root}) \subseteq c.blobs) -> Fail("NotFound")
          [] OTHER ->
               /\ blob' = [blob EXCEPT ![b] = [state |-> "live", gzip |-> TRUE, compressed |-> TRUE, refs |-> 1,
                             content |-> [index |-> SynthIndex(c, root), main |-> root,
                                          tag |-> t, blobs |-> SynthBlobs(c, root)]]]
               /\ handle' = [handle EXCEPT ![b][h] = TRUE]
               /\ result' = "ok"
               /\ UNCHANGED set

\* A further reference to a shared temporary blob (Dup): one more holder.
Dup(b, h) ==
  /\ blob[b].state = "live"
  /\ ~handle[b][h]
  /\ handle' = [handle EXCEPT ![b][h] = TRUE]
  /\ blob' = [blob EXCEPT ![b].refs = @ + 1]
  /\ result' = "ok"
  /\ UNCHANGED set

(***************************************************************************)
(* Close of a temporary-blob handle: a second Close of the same handle is  *)
(* a no-op; the Close that brings the count to zero deletes the file.      *)
(***************************************************************************)
\* mutant: Close of an already released blob decrements the count again
CloseBlobUncounted(b, h) ==
  /\ blob[b].state # "unused"
  /\ handle' = [handle EXCEPT ![b][h] = FALSE]
  /\ blob' = [blob EXCEPT ![b].refs = @ - 1,
                          ![b].state = IF blob[b].refs <= 1 THEN "deleted" ELSE "live"]
  /\ result' = "ok"
  /\ UNCHANGED set

\* mutant: the handle does not remember that it is closed
CloseBlobTwice(b, h) ==
  /\ blob[b].state = "live"
  /\ handle' = [handle EXCEPT ![b][h] = FALSE]
  /\ blob' = [blob EXCEPT ![b].refs = @ - 1,
                          ![b].state = IF blob[b].refs = 1 THEN "deleted" ELSE "live"]
  /\ result' = "ok"
  /\ UNCHANGED set

CloseBlob(b, h) ==
  /\ blob[b].state = "live"
  /\ IF ~handle[b][h]
     THEN Fail("ok")
     ELSE /\ handle' = [handle EXCEPT ![b][h] = FALSE]
          /\ blob' = [blob EXCEPT ![b].refs = @ - 1,
                                  ![b].state = IF blob[b].refs = 1 THEN "deleted" ELSE "live"]
          /\ result' = "ok"
          /\ UNCHANGED set

(***************************************************************************)
(* OpenFromBlob (format.go): a file or reader option is refused; the blob  *)
(* reader is opened (the file must still exist), the format is tgz when    *)
(* the mime type ends in "+gzip" and tar otherwise, and Open is called     *)
(* with acc & ACC_READONLY on the reader; the codec extracts the archive  *)
(* into the object's own file system, and the deferred reader.Close runs  *)
(* when OpenFromBlob returns.  A tar codec cannot read a gzip stream.      *)
(***************************************************************************)
\* strings.HasSuffix(blob.MimeType(), "+gzip")
SelectGzip(b) == blob[b].gzip

OpenFromBlob(b, s, acc, opt) ==
  /\ set[s].state \in Free
  /\ blob[b].state # "unused"
  /\ CASE opt # "none"                   -> Fail("Invalid")
       [] blob[b].state # "live"         -> Fail("IO")
       [] SelectGzip(b) # blob[b].compressed -> Fail("Format")
       [] OTHER ->
            /\ set' = [set EXCEPT ![s] = [state |-> "open",
                                          readonly |-> (acc & ACC_READONLY) # 0,
                                          content |-> blob[b].content]]
            /\ result' = "ok"
            /\ UNCHANGED <<blob, handle>>

CloseSet(s) ==
  /\ set[s].state = "open"
  /\ set' = [set EXCEPT ![s].state = "closed"]
  /\ result' = "ok"
  /\ UNCHANGED <<blob, handle>>

Next ==
  \/ \E n \in Namespaces, t \in Tags, b \in BlobIds, h \in Holders : Synthesize(n, t, b, h)
  \/ \E b \in BlobIds, h \in Holders : Dup(b, h) \/ CloseBlob(b, h)
  \/ \E b \in BlobIds, s \in SetIds, acc \in AccessModes, opt \in OpenOptions :
        OpenFromBlob(b, s, acc, opt)
  \/ \E s \in SetIds : CloseSet(s)

Spec == Init /\ [][Next]_vars

-----------------------------------------------------------------------------

(* A temporary blob's file exists as long as any handle on it is open:     *)
(* repeated Closes of one handle never release another holder's reference. *)
HeldBlobExists ==
  \A b \in BlobIds, h \in Holders : handle[b][h] => blob[b].state = "live"

=============================================================================
