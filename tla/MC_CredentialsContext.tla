----------------------- MODULE MC_CredentialsContext -----------------------
(* Two goroutines, a consumer identity and the empty identity, two         *)
(* credentials sources, and up to two configuration objects: enough for a  *)
(* configuration object to arrive between another goroutine's Update and   *)
(* its Set, and for the empty-identity fallback to be taken.               *)
EXTENDS CredentialsContext, TLC

CONSTANTS p1, p2, i1, e0, c1, c2

MCAliasTypes == {"none", "registry", "plain"}

\* The goroutines are interchangeable: no action or property names one.
MCSymmetry == Permutations({p1, p2})
=============================================================================
