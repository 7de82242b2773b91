------------------------- MODULE MC_CTFRepository -------------------------
(***************************************************************************)
(* Model of CTFRepository for TLC: two manifests sharing a config blob,    *)
(* one layer, the three registered formats and one unknown identifier.     *)
(***************************************************************************)
EXTENDS CTFRepository

CONSTANTS m1, m2, c1, l1

MCDigests == {m1, m2, c1, l1}
MCManifests == {m1, m2}
\* m1 -> config c1 + layer l1 (the test's DefaultManifestFill), m2 -> c1
MCRefs == [d \in MCDigests |-> CASE d = m1 -> {c1, l1}
                                 [] d = m2 -> {c1}
                                 [] OTHER  -> {}]
MCFormats == {"directory", "tar", "tgz"}
MCFormatIds == MCFormats \cup {"zip"}
=============================================================================
