------------------------- MODULE ContextAttributes -------------------------
(***************************************************************************)
(* Context attributes shared between the data contexts: the credentials    *)
(* context takes the attribute store of its configuration context          *)
(* (credentials/core/context.go newContext), and the OCI context takes the *)
(* store of the attributes context it is given, or, when none is given,   *)
(* that of its credentials context's configuration context                 *)
(* (oci/core/context.go newContext).  Two values live in a store:          *)
(*   - the Empty repository, created once per store by                     *)
(*     GetOrCreateAttribute(ATTR_REPOS, newRepository) (empty/type.go);    *)
(*   - the signing registry of signingattr (attr.go): Get returns the     *)
(*     stored value asserted to signing.Registry, or the default registry *)
(*     when none is stored; Set wraps a plain KeyRegistry into a Registry  *)
(*     with the default handlers; Decode builds a Registry from a config  *)
(*     document over the default key registry.                             *)
(* The attribute store (datacontext, outside this source tree) is a       *)
(* locked map whose GetOrCreateAttribute is atomic.                        *)
(***************************************************************************)
EXTENDS Naturals

CONSTANTS
  Keys,         \* keys a key registry may hold
  DefaultKeys,  \* keys of signing.DefaultKeyRegistry()
  MaxRepos,     \* bound on Empty repository instances created
  NONE

Ctxs == {"config", "credentials", "oci", "other"}
Stores == {"s1", "s2"}

VARIABLES
  ociShared,    \* the attributes context passed to the OCI newContext, or NONE
  attrs,        \* per store: the Empty repository and the signing value
  created,      \* Empty repository instances created so far
  got,          \* history: the (store, instance) pairs Repository() returned
  result        \* result of the last signingattr.Get

vars == <<ociShared, attrs, created, got, result>>

SigningValue == [kind: {"Registry", "KeyRegistry"}, keys: SUBSET (Keys \cup DefaultKeys)]

\* The store each context reads its attributes from.
StoreOf(c) ==
  CASE c \in {"config", "credentials"} -> "s1"
    [] c = "other"                     -> "s2"
    [] OTHER -> IF ociShared = NONE THEN "s1" ELSE "s2"

TypeOK ==
  /\ ociShared \in {NONE, "other"}
  /\ attrs \in [Stores -> [repos: 0..MaxRepos, signing: SigningValue \cup {NONE}]]
  /\ created \in 0..MaxRepos
  /\ got \subseteq Stores \X (1..MaxRepos)
  /\ result \in {NONE, "default", "ok", "panic", "unknown type"}

\* The OCI context is built with or without an explicit attributes context.
Init ==
  /\ ociShared \in {NONE, "other"}
  /\ attrs = [s \in Stores |-> [repos |-> 0, signing |-> NONE]]
  /\ created = 0
  /\ got = {}
  /\ result = NONE

(***************************************************************************)
(* RepositorySpec.Repository of the Empty type: GetOrCreateAttribute     *)
(* of ATTR_REPOS in the context's store.                                  *)
(***************************************************************************)
\* mutant: the new instance is numbered before the count is raised
RepositoryOffByOne(c) ==
  LET s == StoreOf(c) IN
  IF attrs[s].repos = 0
  THEN /\ created < MaxRepos
       /\ attrs' = [attrs EXCEPT ![s].repos = created]
       /\ created' = created + 1
       /\ got' = got \cup {<<s, created>>}
       /\ UNCHANGED <<ociShared, result>>
  ELSE /\ got' = got \cup {<<s, attrs[s].repos>>}
       /\ UNCHANGED <<ociShared, attrs, created, result>>

Repository(c) ==
  LET s == StoreOf(c) IN
  IF attrs[s].repos = 0
  THEN /\ created < MaxRepos
       /\ attrs' = [attrs EXCEPT ![s].repos = created + 1]
       /\ created' = created + 1
       /\ got' = got \cup {<<s, created + 1>>}
       /\ UNCHANGED <<ociShared, result>>
  ELSE /\ got' = got \cup {<<s, attrs[s].repos>>}
       /\ UNCHANGED <<ociShared, attrs, created, result>>

\* The repository types the init function of package empty registers
\* with the OCI repository types: Type and its versioned name TypeV1.
EmptyTypes == {"Empty", "Empty/v1"}

(***************************************************************************)
(* RepositoryForConfig of the OCI context: the spec is decoded by its     *)
(* type name; an unregistered type is a decode error, and a spec of      *)
(* either Empty type yields RepositorySpec.Repository (the credentials    *)
(* chain of an Empty spec is empty and cannot fail).                       *)
(***************************************************************************)
RepositoryForConfig(t) ==
  IF t \in EmptyTypes
  THEN Repository("oci")
  ELSE /\ result' = "unknown type"
       /\ UNCHANGED <<ociShared, attrs, created, got>>

\* signingattr.Get: the stored value asserted to signing.Registry.
SigningGet(c) ==
  LET v == attrs[StoreOf(c)].signing IN
  /\ result' = CASE v = NONE              -> "default"
                 [] v.kind = "Registry"  -> "ok"
                 [] OTHER                -> "panic"
  /\ UNCHANGED <<ociShared, attrs, created, got>>

\* mutant: a plain key registry is stored as it is
SigningSetNoWrap(c, v) ==
  /\ attrs' = [attrs EXCEPT ![StoreOf(c)].signing = v]
  /\ UNCHANGED <<ociShared, created, got, result>>

\* signingattr.Set: a KeyRegistry that is no Registry is wrapped first.
SigningSet(c, v) ==
  /\ attrs' = [attrs EXCEPT ![StoreOf(c)].signing =
                 IF v.kind = "Registry" THEN v ELSE [kind |-> "Registry", keys |-> v.keys]]
  /\ UNCHANGED <<ociShared, created, got, result>>

\* A signing attribute from configuration: AttributeType.Decode builds a
\* Registry over the default keys and applies the configured keys to it.
SigningDecode(c, ks) ==
  /\ attrs' = [attrs EXCEPT ![StoreOf(c)].signing =
                 [kind |-> "Registry", keys |-> DefaultKeys \cup ks]]
  /\ UNCHANGED <<ociShared, created, got, result>>

Next ==
  \/ \E t \in EmptyTypes \cup {"OCIRegistry"} : RepositoryForConfig(t)
  \/ \E c \in Ctxs :
     \/ Repository(c)
     \/ SigningGet(c)
     \/ \E v \in [kind: {"Registry", "KeyRegistry"}, keys: SUBSET Keys] : SigningSet(c, v)
     \/ \E ks \in SUBSET Keys : SigningDecode(c, ks)

Spec == Init /\ [][Next]_vars

-----------------------------------------------------------------------------

(* signingattr.Get never fails its type assertion: whatever Set or a      *)
(* configured signing attribute stored through any context sharing the   *)
(* store, Get from any of them returns a signing.Registry.                *)
SigningGetNeverPanics == result # "panic"

=============================================================================
