------------------------- MODULE CredentialsContext -------------------------
(***************************************************************************)
(* The credentials context of pkg/contexts/credentials/core/context.go:    *)
(* the consumer table (consumer identity -> credentials source), the      *)
(* updater that applies configuration objects added to the configuration  *)
(* context since the last Update, and the calls that run Update before    *)
(* they read or write the table.                                           *)
(*                                                                         *)
(* The context is shared (DefaultContext, MODE_SHARED) by all goroutines.  *)
(* The table and the updater each serialise their own calls, but          *)
(* SetCredentialsForConsumer is two of them, c.Update() and then          *)
(* c.consumers.Set: another goroutine may add configuration or call the    *)
(* context in between, so it is two steps here.  A configuration object   *)
(* for the credentials context is abstracted to the consumer entry it     *)
(* sets; the updater (cfgcpi, outside this source tree) applies the       *)
(* pending objects in the order they were added.  Identity matchers are   *)
(* not modelled: the nil-matcher path (consumers.Get) is.                   *)
(***************************************************************************)
EXTENDS Naturals, Sequences, SequencesExt

CONSTANTS
  Procs,       \* goroutines calling the context
  Ids,         \* consumer identities
  EmptyId,     \* ConsumerIdentity{}, the fallback consumer
  Creds,       \* credentials sources
  AliasTypes,  \* what the scheme registers for AliasRepositoryType
  MaxConfig,   \* bound on configuration objects added
  NONE

ASSUME EmptyId \in Ids /\ MaxConfig \in Nat
ASSUME AliasTypes \subseteq {"none", "registry", "plain"}

VARIABLES
  config,      \* configuration objects added to the configuration context
  applied,     \* how many of them the updater has applied to this context
  consumers,   \* the consumer table
  aliases,     \* alias names the alias registry holds
  aliasType,   \* the alias repository type of the scheme
  pc,          \* per goroutine: "idle" or "set" (between Update and Set)
  call,        \* per goroutine: the pending SetCredentialsForConsumer
  result,      \* result of the last completed call
  lastSet      \* history: per identity, the last completed Set and the
               \* number of configuration objects when it started

vars == <<config, applied, consumers, aliases, aliasType, pc, call, result, lastSet>>

Entry == [id: Ids, cred: Creds]
SetCall == [id: Ids, cred: Creds, at: 0..MaxConfig]
Results == {"ok", "UnknownConsumer", "NotSupported", "NotImplemented", "ChainError",
            "DecodeError", "UnknownCredentials"}

TypeOK ==
  /\ config \in BoundedSeq(Entry, MaxConfig)
  /\ applied \in 0..Len(config)
  /\ consumers \in [Ids -> Creds \cup {NONE}]
  /\ aliases \subseteq {"alias"}
  /\ aliasType \in AliasTypes
  /\ pc \in [Procs -> {"idle", "set"}]
  /\ call \in [Procs -> SetCall \cup {NONE}]
  /\ result \in Results \cup {NONE}
  /\ lastSet \in [Ids -> SetCall \cup {NONE}]
  \* a goroutine has a pending Set exactly while it is between its two steps
  /\ \A p \in Procs : (pc[p] = "set") = (call[p] # NONE)

Init ==
  /\ config = <<>>
  /\ applied = 0
  /\ consumers = [i \in Ids |-> NONE]
  /\ aliases = {}
  /\ aliasType \in AliasTypes
  /\ pc = [p \in Procs |-> "idle"]
  /\ call = [p \in Procs |-> NONE]
  /\ result = NONE
  /\ lastSet = [i \in Ids |-> NONE]

\* The table after applying configuration objects from..to in order.
ApplyConfig(cons, from, to) ==
  FoldLeft(LAMBDA t, e : [t EXCEPT ![e.id] = e.cred], cons, SubSeq(config, from, to))

\* c.Update(): the updater applies every pending configuration object.
Update ==
  /\ consumers' = ApplyConfig(consumers, applied + 1, Len(config))
  /\ applied' = Len(config)

\* The configuration context receives a credentials configuration object.
AddConfig(e) ==
  /\ Len(config) < MaxConfig
  /\ config' = Append(config, e)
  /\ UNCHANGED <<applied, consumers, aliases, aliasType, pc, call, result, lastSet>>

\* The consumer a lookup of id finds: its own entry, else the empty identity's.
Lookup(cons, id) == IF cons[id] # NONE THEN cons[id] ELSE cons[EmptyId]

(***************************************************************************)
(* GetCredentialsForConsumer(identity), nil matcher: Update, then          *)
(* consumers.Get(identity), falling back to the empty identity, else       *)
(* ErrUnknownConsumer.                                                      *)
(***************************************************************************)
GetCredentialsForConsumer(p, id) ==
  /\ pc[p] = "idle"
  /\ Update
  /\ result' = IF Lookup(consumers', id) = NONE THEN "UnknownConsumer" ELSE "ok"
  /\ UNCHANGED <<config, aliases, aliasType, pc, call, lastSet>>

(***************************************************************************)
(* SetCredentialsForConsumer(identity, creds): c.Update(), then            *)
(* c.consumers.Set(identity, creds).  Update's error is ignored.           *)
(***************************************************************************)
\* mutant: the table is written without the preceding c.Update()
SetUpdateSkipped(p, id, cr) ==
  /\ pc[p] = "idle"
  /\ pc' = [pc EXCEPT ![p] = "set"]
  /\ call' = [call EXCEPT ![p] = [id |-> id, cred |-> cr, at |-> Len(config)]]
  /\ UNCHANGED <<config, applied, consumers, aliases, aliasType, result, lastSet>>

SetUpdate(p, id, cr) ==
  /\ pc[p] = "idle"
  /\ Update
  /\ pc' = [pc EXCEPT ![p] = "set"]
  /\ call' = [call EXCEPT ![p] = [id |-> id, cred |-> cr, at |-> Len(config)]]
  /\ UNCHANGED <<config, aliases, aliasType, result, lastSet>>

\* mutant: the pending call is not cleared
SetStoreKeepsCall(p) ==
  /\ pc[p] = "set"
  /\ consumers' = [consumers EXCEPT ![call[p].id] = call[p].cred]
  /\ lastSet' = [lastSet EXCEPT ![call[p].id] = call[p]]
  /\ pc' = [pc EXCEPT ![p] = "idle"]
  /\ result' = "ok"
  /\ UNCHANGED <<config, applied, aliases, aliasType, call>>

SetStore(p) ==
  /\ pc[p] = "set"
  /\ consumers' = [consumers EXCEPT ![call[p].id] = call[p].cred]
  /\ lastSet' = [lastSet EXCEPT ![call[p].id] = call[p]]
  /\ pc' = [pc EXCEPT ![p] = "idle"]
  /\ call' = [call EXCEPT ![p] = NONE]
  /\ result' = "ok"
  /\ UNCHANGED <<config, applied, aliases, aliasType>>

(***************************************************************************)
(* RepositoryForSpec(spec, creds...): the credentials chain is evaluated   *)
(* first (its error is returned); then c.Update(), whose error is ignored, *)
(* and spec.Repository(c, cred).  RepositoryForConfig decodes the spec     *)
(* first; CredentialsForSpec (and CredentialsForConfig, which unmarshals   *)
(* the spec first) asks the repository for the named credentials.        *)
(***************************************************************************)
Calls == {"RepositoryForSpec", "RepositoryForConfig", "CredentialsForSpec",
          "CredentialsForConfig"}

RepositoryForSpec(p, f) ==
  /\ pc[p] = "idle"
  /\ \/ /\ f \in {"RepositoryForConfig", "CredentialsForConfig"}
        /\ result' = "DecodeError"
        /\ UNCHANGED <<consumers, applied>>
     \/ /\ result' = "ChainError"
        /\ UNCHANGED <<consumers, applied>>
     \/ /\ Update
        /\ result' \in IF f \in {"CredentialsForSpec", "CredentialsForConfig"}
                       THEN {"ok", "UnknownCredentials"} ELSE {"ok"}
  /\ UNCHANGED <<config, aliases, aliasType, pc, call, lastSet>>

\* The OCI context's RepositoryForSpec: the chain is evaluated against the
\* credentials context, with no Update of the credentials context.
OCIRepositoryForSpec(p) ==
  /\ pc[p] = "idle"
  /\ result' \in {"ok", "ChainError"}
  /\ UNCHANGED <<config, applied, consumers, aliases, aliasType, pc, call, lastSet>>

(***************************************************************************)
(* SetAlias(name, spec, creds...): c.Update(); the alias repository type   *)
(* must be known and implement AliasRegistry.                              *)
(***************************************************************************)
SetAlias(p) ==
  /\ pc[p] = "idle"
  /\ Update
  /\ CASE aliasType = "none" ->
            /\ result' = "NotSupported"
            /\ UNCHANGED aliases
       [] aliasType = "plain" ->
            /\ result' = "NotImplemented"
            /\ UNCHANGED aliases
       [] OTHER ->
            /\ aliases' = aliases \cup {"alias"}
            /\ result' = "ok"
  /\ UNCHANGED <<config, aliasType, pc, call, lastSet>>

(***************************************************************************)
(* cpi.RegisterRepositoryType(name, atype): registers a type with         *)
(* core.DefaultRepositoryTypeScheme, which contexts hold by reference: a  *)
(* registration for AliasRepositoryType after the context was created     *)
(* decides its later SetAlias calls.                                       *)
(***************************************************************************)
RegisterRepositoryType(t) ==
  /\ aliasType' = t
  /\ UNCHANGED <<config, applied, consumers, aliases, pc, call, result, lastSet>>

Next ==
  \/ \E e \in Entry : AddConfig(e)
  \/ \E t \in AliasTypes \ {"none"} : RegisterRepositoryType(t)
  \/ \E p \in Procs :
       \/ \E id \in Ids : GetCredentialsForConsumer(p, id)
       \/ \E id \in Ids, cr \in Creds : SetUpdate(p, id, cr)
       \/ SetStore(p)
       \/ \E f \in Calls : RepositoryForSpec(p, f)
       \/ OCIRepositoryForSpec(p)
       \/ SetAlias(p)

Spec == Init /\ [][Next]_vars

-----------------------------------------------------------------------------

\* What the next lookup of id sees: the table once Update has run.
Effective(id) == ApplyConfig(consumers, applied + 1, Len(config))[id]

(* An explicit SetCredentialsForConsumer is never undone by configuration *)
(* that was added before it: as long as no configuration object for the  *)
(* identity arrived after the Set began, and no later Set replaced it,    *)
(* every subsequent GetCredentialsForConsumer finds exactly the           *)
(* credentials that were set.  This is why Set runs c.Update() first.     *)
SetNotOverriddenByOlderConfig ==
  \A id \in Ids :
    LET s == lastSet[id] IN
      (s # NONE /\ \A k \in s.at + 1 .. Len(config) : config[k].id # id)
        => Effective(id) = s.cred

=============================================================================
