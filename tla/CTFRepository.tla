--------------------------- MODULE CTFRepository ---------------------------
(***************************************************************************)
(* The Common Transport Format (CTF) repository at one path: the format    *)
(* dispatch of pkg/contexts/oci/repositories/ctf/format.go (Open, Create,  *)
(* the formatHandler wrappers and the codec Write) and the access-object   *)
(* lifecycle it delegates to (open read-only / writable, dirty flag,       *)
(* commit on Close).  The codecs and the lifecycle live in accessobj,      *)
(* which is not part of this source tree; they are modelled from the       *)
(* specification (sections 4.2, 4.3 and 7).                                *)
(*                                                                         *)
(* Data is abstracted to digests: a blob is its digest, a manifest is a    *)
(* digest whose content references other digests (the constant Refs, a    *)
(* property of the content and therefore fixed), and the index is the set  *)
(* of manifest digests it lists.                                           *)
(***************************************************************************)
EXTENDS Naturals, FiniteSets, Bitwise

CONSTANTS
  Digests,     \* blob digests (model values)
  Manifests,   \* the digests that are manifests and may be listed in the index
  Refs,        \* Refs[d]: the digests the content of d references
  Formats,     \* the formats registered at init: directory, tar, tgz
  FormatIds,   \* format identifiers a caller may pass (Formats and unknown ones)
  Directory,   \* the directory format identifier
  NONE,        \* no value: no index file, no format option, no temp file
  TORN         \* an index file whose in-place write was cut short

ASSUME Manifests \subseteq Digests
ASSUME Refs \in [Digests -> SUBSET Digests]
ASSUME Directory \in Formats /\ Formats \subseteq FormatIds
ASSUME NONE \notin FormatIds \cup Digests
ASSUME TORN \notin {NONE} \cup FormatIds \cup Digests

\* accessobj.AccessMode bit flags
ACC_WRITABLE == 0
ACC_READONLY == 1
ACC_CREATE   == 2
AccessModes  == {ACC_WRITABLE, ACC_READONLY, ACC_CREATE, ACC_READONLY + ACC_CREATE}

IsReadonly(acc) == (acc & ACC_READONLY) # 0
IsCreate(acc)   == (acc & ACC_CREATE) # 0

\* Results of the last call on the repository
Results == {"ok", "NotFound", "Unknown", "Exists", "InvalidState", "Integrity", "IO"}

VARIABLES
  disk,        \* the physical storage at the path
  tmp,         \* the temporary archive written by an archive codec's Close
  obj,         \* the open object (the handle the caller holds)
  result,      \* result of the last call
  lastCommit   \* history: the content of the last successful commit, or NONE

vars == <<disk, tmp, obj, result, lastCommit>>

Content == [index: SUBSET Manifests, blobs: SUBSET Digests]

DiskState == [exists: BOOLEAN, format: Formats \cup {NONE},
              index: SUBSET Manifests \cup {NONE, TORN}, blobs: SUBSET Digests]

ObjState == [state: {"none", "readonly", "writable", "closing", "closed"},
             format: Formats \cup {NONE}, dirty: BOOLEAN,
             index: SUBSET Manifests, blobs: SUBSET Digests]

NoObject == [state |-> "none", format |-> NONE, dirty |-> FALSE,
             index |-> {}, blobs |-> {}]

Absent == [exists |-> FALSE, format |-> NONE, index |-> NONE, blobs |-> {}]

\* The digests reachable from a set of manifests, the manifests included:
\* what a committed index needs to find in the blob store.
RECURSIVE Reach(_, _)
Reach(S, n) == IF n = 0 THEN S ELSE Reach(S \cup UNION {Refs[d] : d \in S}, n - 1)
Closure(S) == Reach(S, Cardinality(Digests))

IsArchive(f) == f # Directory

Open == obj.state \in {"readonly", "writable"}

TypeOK ==
  /\ disk \in DiskState
  /\ tmp \in Content \cup {NONE}
  /\ obj \in ObjState
  /\ result \in Results
  /\ lastCommit \in Content \cup {NONE}

Init ==
  /\ disk = Absent
  /\ tmp = NONE
  /\ obj = NoObject
  /\ result = "ok"
  /\ lastCommit = NONE

Fail(r) == /\ result' = r
           /\ UNCHANGED <<disk, tmp, obj, lastCommit>>

(***************************************************************************)
(* Codec Create (formatHandler.Create, accessobj FormatHandler.Create).    *)
(* The path must not exist.  The directory codec makes the directory at    *)
(* once; an archive codec writes nothing before Close.                     *)
(***************************************************************************)
\* mutant: the codec creates over an existing path
CodecCreateOverwrite(f) ==
  /\ disk' = IF IsArchive(f) THEN disk
             ELSE [exists |-> TRUE, format |-> f, index |-> NONE, blobs |-> {}]
  /\ obj' = [NoObject EXCEPT !.state = "writable", !.format = f]
  /\ result' = "ok"
  /\ UNCHANGED <<tmp, lastCommit>>

CodecCreate(f) ==
  IF disk.exists
  THEN Fail("Exists")
  ELSE /\ disk' = IF IsArchive(f) THEN disk
                  ELSE [exists |-> TRUE, format |-> f, index |-> NONE, blobs |-> {}]
       /\ obj' = [NoObject EXCEPT !.state = "writable", !.format = f]
       /\ result' = "ok"
       /\ UNCHANGED <<tmp, lastCommit>>

(***************************************************************************)
(* Codec Open (formatHandler.Open): reads the index file; an archive is    *)
(* extracted into a temporary file system, a directory is used in place.   *)
(***************************************************************************)
CodecOpen(acc, f) ==
  CASE f # disk.format  -> Fail("NotFound")
    [] disk.index = NONE -> Fail("NotFound")
    [] disk.index = TORN -> Fail("IO")
    [] OTHER ->
       /\ obj' = [state |-> IF IsReadonly(acc) THEN "readonly" ELSE "writable",
                  format |-> f, dirty |-> FALSE,
                  index |-> disk.index, blobs |-> disk.blobs]
       /\ result' = "ok"
       /\ UNCHANGED <<disk, tmp, lastCommit>>

(***************************************************************************)
(* ctf.Open: HandleAccessMode decides between create and open (a missing  *)
(* path with ACC_CREATE is created, with the directory format by default; *)
(* an existing path is opened with the given or the detected format), the  *)
(* format is looked up in fileFormats, and the handler is called.          *)
(***************************************************************************)
\* mutant: the ok of the fileFormats lookup is not checked
OpenRepoUnchecked(acc, opt) ==
  /\ obj.state \in {"none", "closed"}
  /\ LET create == ~disk.exists
         f == IF opt # NONE THEN opt
              ELSE IF disk.exists THEN disk.format ELSE Directory
     IN CASE ~disk.exists /\ ~IsCreate(acc) -> Fail("NotFound")
          [] create                         -> CodecCreate(f)
          [] OTHER                          -> CodecOpen(acc, f)

OpenRepo(acc, opt) ==
  /\ obj.state \in {"none", "closed"}
  /\ LET create == ~disk.exists
         f == IF opt # NONE THEN opt
              ELSE IF disk.exists THEN disk.format ELSE Directory
     IN CASE ~disk.exists /\ ~IsCreate(acc) -> Fail("NotFound")
          [] f \notin Formats               -> Fail("Unknown")
          [] create                         -> CodecCreate(f)
          [] OTHER                          -> CodecOpen(acc, f)

(***************************************************************************)
(* ctf.Create: the format defaults to directory, is looked up, and the     *)
(* handler's Create is called; the access mode argument is not used.       *)
(***************************************************************************)
CreateRepo(opt) ==
  /\ obj.state \in {"none", "closed"}
  /\ LET f == IF opt # NONE THEN opt ELSE Directory
     IN IF f \notin Formats THEN Fail("Unknown") ELSE CodecCreate(f)

(***************************************************************************)
(* Blob store Add: content-addressed and idempotent.  A directory object   *)
(* writes the blob file at once; an archive object keeps it in its         *)
(* temporary file system until Close.  Read-only objects refuse.           *)
(***************************************************************************)
AddBlob(d) ==
  /\ Open
  /\ IF obj.state = "readonly"
     THEN Fail("InvalidState")
     ELSE /\ obj' = [obj EXCEPT !.blobs = @ \cup {d}, !.dirty = @ \/ d \notin obj.blobs]
          /\ disk' = IF IsArchive(obj.format) THEN disk
                     ELSE [disk EXCEPT !.blobs = @ \cup {d}]
          /\ result' = "ok"
          /\ UNCHANGED <<tmp, lastCommit>>

\* Index Add: list a manifest in the in-memory index.
AddManifest(m) ==
  /\ Open
  /\ IF obj.state = "readonly"
     THEN Fail("InvalidState")
     ELSE /\ obj' = [obj EXCEPT !.index = @ \cup {m}, !.dirty = @ \/ m \notin obj.index]
          /\ result' = "ok"
          /\ UNCHANGED <<disk, tmp, lastCommit>>

(***************************************************************************)
(* Close: a clean object is just closed.  A dirty one is committed through *)
(* the codec Write (formatHandler.Write): the commit is refused when the   *)
(* index references a blob that is not stored.  An archive codec writes a  *)
(* temporary archive and then replaces the file at the path               *)
(* (CommitArchive).  The directory codec has written the blob files       *)
(* already and now rewrites the index file in place (WriteIndex); the     *)
(* specification (section 9) leaves this best-effort, not crash-safe.     *)
(***************************************************************************)
\* mutant: only the listed manifests themselves are looked up, not the
\* configs and layers they reference
UnresolvedShallow(o) == o.index \ o.blobs # {}

\* mutant: Close commits without the integrity check
UnresolvedUnchecked(o) == FALSE

Unresolved(o) == Closure(o.index) \ o.blobs # {}

Close ==
  /\ Open
  /\ CASE ~obj.dirty \/ obj.state = "readonly" ->
            /\ obj' = [obj EXCEPT !.state = "closed"]
            /\ result' = "ok"
            /\ UNCHANGED <<disk, tmp, lastCommit>>
       [] Unresolved(obj) -> Fail("Integrity")
       [] OTHER ->
            /\ tmp' = IF IsArchive(obj.format)
                      THEN [index |-> obj.index, blobs |-> obj.blobs] ELSE NONE
            /\ obj' = [obj EXCEPT !.state = "closing"]
            /\ UNCHANGED <<disk, result, lastCommit>>

\* The directory codec's index file is written completely.
WriteIndex ==
  /\ obj.state = "closing"
  /\ ~IsArchive(obj.format)
  /\ disk' = [disk EXCEPT !.index = obj.index]
  /\ lastCommit' = [index |-> obj.index, blobs |-> obj.blobs]
  /\ obj' = [obj EXCEPT !.state = "closed", !.dirty = FALSE]
  /\ result' = "ok"
  /\ UNCHANGED tmp

\* The temporary archive is complete: it replaces the file at the path.
CommitArchive ==
  /\ obj.state = "closing"
  /\ tmp # NONE
  /\ disk' = [exists |-> TRUE, format |-> obj.format,
              index |-> tmp.index, blobs |-> tmp.blobs]
  /\ lastCommit' = tmp
  /\ tmp' = NONE
  /\ obj' = [obj EXCEPT !.state = "closed", !.dirty = FALSE]
  /\ result' = "ok"

\* What an interrupted commit leaves as the index at the path: an archive
\* commit has only written the temporary archive, an in-place directory
\* write may have truncated the index file or not yet touched it.
IndexAfterFailure ==
  IF IsArchive(obj.format) THEN {disk.index} ELSE {disk.index, TORN}

\* The commit's write fails: a temporary archive is dropped, the object
\* stays open and dirty.
WriteFails ==
  /\ obj.state = "closing"
  /\ \E i \in IndexAfterFailure : disk' = [disk EXCEPT !.index = i]
  /\ tmp' = NONE
  /\ obj' = [obj EXCEPT !.state = "writable"]
  /\ result' = "IO"
  /\ UNCHANGED lastCommit

\* The process dies: the open object and a temporary archive are lost, and
\* a commit in progress is cut short.
Crash ==
  /\ obj.state \in {"readonly", "writable", "closing"}
  /\ \E i \in IF obj.state = "closing" THEN IndexAfterFailure ELSE {disk.index} :
       disk' = [disk EXCEPT !.index = i]
  /\ obj' = NoObject
  /\ tmp' = NONE
  /\ UNCHANGED <<result, lastCommit>>

Next ==
  \/ \E acc \in AccessModes, opt \in FormatIds \cup {NONE} : OpenRepo(acc, opt)
  \/ \E opt \in FormatIds \cup {NONE} : CreateRepo(opt)
  \/ \E d \in Digests : AddBlob(d)
  \/ \E m \in Manifests : AddManifest(m)
  \/ Close
  \/ CommitArchive
  \/ WriteIndex
  \/ WriteFails
  \/ Crash

Spec == Init /\ [][Next]_vars

-----------------------------------------------------------------------------
(***************************************************************************)
(* Properties                                                              *)
(***************************************************************************)

(* Refinement: seen from the path alone, every step of a CTF repository   *)
(* (Create, Open, AddBlob, AddManifest, Close, the archive commit, the    *)
(* directory's index write, a failed write, a crash) is a step of         *)
(* CTFStore: blob files are only ever added, and the index file either    *)
(* changes as a whole, to one whose graph is stored, together with the    *)
(* blobs the commit brings, or is torn by an interrupted directory write. *)
Store == INSTANCE CTFStore WITH index <- disk.index, blobs <- disk.blobs

ImplementsCTFStore == Store!Spec

(* Whatever sequence of opens, additions, closes, write failures and        *)
(* crashes happened, a readable index file at the path only lists          *)
(* manifests whose whole graph (configs, layers, nested manifests) is in   *)
(* the blob store at the path: Close's integrity check, the directory      *)
(* codec writing blobs before the index, and the archive codec's           *)
(* write-then-replace together.                                            *)
CommittedIndexResolves ==
  disk.index \notin {NONE, TORN} => Closure(disk.index) \subseteq disk.blobs

(* The durability a successful Close gives: until the next successful     *)
(* commit, every committed blob stays at the path, and the index there is  *)
(* the committed one, whatever failed Closes, crashes, Creates or          *)
(* read-only sessions came in between; the only exception is the weaker   *)
(* guarantee of the directory codec, whose interrupted in-place rewrite    *)
(* may leave the index torn, never an older or a foreign one.              *)
CommitDurable ==
  lastCommit # NONE =>
    /\ \/ disk.index = lastCommit.index
       \/ disk.index = TORN /\ ~IsArchive(disk.format)
    /\ lastCommit.blobs \subseteq disk.blobs

=============================================================================
