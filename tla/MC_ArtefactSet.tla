-------------------------- MODULE MC_ArtefactSet --------------------------
(* Two tagged manifests sharing a config blob (v1 -> m1 -> c1, l1 as in     *)
(* the test; v2 -> m2 -> c1), two temporary blobs, two holders and two      *)
(* sets: enough for synthesize, open, release, re-synthesize, open again.  *)
EXTENDS ArtefactSet, TLC

CONSTANTS m1, m2, c1, l1, v1, v2, b1, b2, s1, s2, h1, h2

MCDigests == {m1, m2, c1, l1}
MCRefs == [d \in MCDigests |-> CASE d = m1 -> {c1, l1}
                                 [] d = m2 -> {c1}
                                 [] OTHER  -> {}]
MCTags == {v1, v2}
MCTagRoot == (v1 :> m1) @@ (v2 :> m2)
=============================================================================
