------------------------- MODULE MC_DescribeCommand -------------------------
(* Two field letters, so that the order of fields is visible.              *)
EXTENDS DescribeCommand, TLC

CONSTANTS a1, a2

\* No action or property names an artefact.
MCSymmetry == Permutations({a1, a2})

MCLetters == {"f", "g"}

\* The default output and two chained ones
MCOutputModes == {"", "yaml", "json"}

\* The default, a chained output and a mode no output has
MCOutputFlags == {"", "yaml", "other"}
=============================================================================
