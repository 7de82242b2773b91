----------------------- MODULE MC_ContextAttributes -----------------------
(* Key model values for the signing registries.                            *)
EXTENDS ContextAttributes

CONSTANTS k0, k1
=============================================================================
