--------------------------- MODULE FormatRegistry ---------------------------
(***************************************************************************)
(* The CTF format registry of pkg/contexts/oci/repositories/ctf/format.go: *)
(* the map fileFormats guarded by the RWMutex lock.  RegisterFormat writes *)
(* under the write lock, GetFormat and SupportedFormats read under the     *)
(* read lock, while Open and Create index fileFormats directly, without    *)
(* the lock.  The three formats are registered by package-level variable  *)
(* initialisers (package init); RegisterFormat is exported and may also    *)
(* be called later by a goroutine (LateFormats).                           *)
(*                                                                         *)
(* A Go map read concurrent with a map write is a data race: the runtime   *)
(* may abort the process ("concurrent map read and map write") or the read *)
(* may return either answer.  An unlocked read while a writer is inside    *)
(* its write is modelled as a choice among these outcomes.                 *)
(***************************************************************************)
EXTENDS FiniteSets

CONSTANTS
  Procs,        \* goroutines using the registry after init
  InitFormats,  \* formats registered during package init
  LateFormats,  \* formats registered by a goroutine after init
  NONE

ASSUME InitFormats \cap LateFormats = {}

FormatIds == InitFormats \cup LateFormats

VARIABLES
  fileFormats,  \* the formats in the map
  writer,       \* goroutine pending on or holding the write lock, or NONE
  readers,      \* goroutines holding the read lock
  pc,           \* per goroutine: "idle", "lockwait", "writing", "reading", "fatal"
  arg,          \* per goroutine: the format of its current call
  result        \* per goroutine: "found" / "missing" of its last lookup

vars == <<fileFormats, writer, readers, pc, arg, result>>

TypeOK ==
  /\ fileFormats \subseteq FormatIds
  /\ writer \in Procs \cup {NONE}
  /\ readers \subseteq Procs
  /\ pc \in [Procs -> {"idle", "lockwait", "writing", "reading", "fatal"}]
  /\ arg \in [Procs -> FormatIds \cup {NONE}]
  /\ result \in [Procs -> {"found", "missing", NONE}]
  \* lock ownership matches where each goroutine is
  /\ \A p \in Procs : (p \in readers) = (pc[p] = "reading")
  /\ \A p \in Procs : (writer = p) = (pc[p] \in {"lockwait", "writing"})

\* Package init ran all variable initialisers before any goroutine started.
Init ==
  /\ fileFormats = InitFormats
  /\ writer = NONE
  /\ readers = {}
  /\ pc = [p \in Procs |-> "idle"]
  /\ arg = [p \in Procs |-> NONE]
  /\ result = [p \in Procs |-> NONE]

Writing == \E q \in Procs : pc[q] = "writing"

(***************************************************************************)
(* RegisterFormat: lock.Lock().  A sync.RWMutex writer first takes the     *)
(* writer mutex and announces itself pending, which blocks every later     *)
(* RLock; it then waits until the active readers have left.                *)
(***************************************************************************)
RegisterLock(p, f) ==
  /\ pc[p] = "idle"
  /\ writer = NONE
  /\ writer' = p
  /\ pc' = [pc EXCEPT ![p] = "lockwait"]
  /\ arg' = [arg EXCEPT ![p] = f]
  /\ UNCHANGED <<fileFormats, readers, result>>

\* The last active reader has left: Lock returns.
RegisterAcquire(p) ==
  /\ pc[p] = "lockwait"
  /\ readers = {}
  /\ pc' = [pc EXCEPT ![p] = "writing"]
  /\ UNCHANGED <<fileFormats, writer, readers, arg, result>>

\* fileFormats[f.Format()] = h completes; the deferred Unlock releases.
RegisterWrite(p) ==
  /\ pc[p] = "writing"
  /\ fileFormats' = fileFormats \cup {arg[p]}
  /\ writer' = NONE
  /\ pc' = [pc EXCEPT ![p] = "idle"]
  /\ UNCHANGED <<readers, arg, result>>

\* GetFormat / SupportedFormats: lock.RLock(), which waits while a writer
\* is pending or active ...
ReadLock(p, f) ==
  /\ pc[p] = "idle"
  /\ writer = NONE
  /\ readers' = readers \cup {p}
  /\ pc' = [pc EXCEPT ![p] = "reading"]
  /\ arg' = [arg EXCEPT ![p] = f]
  /\ UNCHANGED <<fileFormats, writer, result>>

\* mutant: the deferred RUnlock is missing
ReadUnlockKeepsLock(p) ==
  /\ pc[p] = "reading"
  /\ result' = [result EXCEPT ![p] = IF arg[p] \in fileFormats THEN "found" ELSE "missing"]
  /\ pc' = [pc EXCEPT ![p] = "idle"]
  /\ UNCHANGED <<fileFormats, writer, readers, arg>>

\* ... return fileFormats[name] under the read lock, deferred RUnlock.
ReadUnlock(p) ==
  /\ pc[p] = "reading"
  /\ result' = [result EXCEPT ![p] = IF arg[p] \in fileFormats THEN "found" ELSE "missing"]
  /\ readers' = readers \ {p}
  /\ pc' = [pc EXCEPT ![p] = "idle"]
  /\ UNCHANGED <<fileFormats, writer, arg>>

\* Open / Create: h, ok := fileFormats[*o.FileFormat] with no lock held.
UnlockedLookup(p, f) ==
  /\ pc[p] = "idle"
  /\ arg' = [arg EXCEPT ![p] = f]
  /\ IF Writing
     THEN \/ /\ pc' = [pc EXCEPT ![p] = "fatal"]
             /\ UNCHANGED result
          \/ /\ \E r \in {"found", "missing"} : result' = [result EXCEPT ![p] = r]
             /\ UNCHANGED pc
     ELSE /\ result' = [result EXCEPT ![p] = IF f \in fileFormats THEN "found" ELSE "missing"]
          /\ UNCHANGED pc
  /\ UNCHANGED <<fileFormats, writer, readers>>

Next ==
  \E p \in Procs :
    \/ \E f \in LateFormats : RegisterLock(p, f)
    \/ RegisterAcquire(p)
    \/ RegisterWrite(p)
    \/ \E f \in FormatIds : ReadLock(p, f)
    \/ ReadUnlock(p)
    \/ \E f \in FormatIds : UnlockedLookup(p, f)

Spec == Init /\ [][Next]_vars

-----------------------------------------------------------------------------

(* No goroutine is killed by the runtime's concurrent map access check:    *)
(* every read of fileFormats is ordered with every write of it, as the    *)
(* RWMutex that guards RegisterFormat and GetFormat is meant to ensure.    *)
NoConcurrentMapAccess ==
  \A p \in Procs : pc[p] # "fatal"

=============================================================================
