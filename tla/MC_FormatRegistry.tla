------------------------- MODULE MC_FormatRegistry -------------------------
(* Three goroutines after init, so that two readers can overlap while a   *)
(* writer waits; the three init formats and one format                     *)
(* registered late by a goroutine.                                          *)
EXTENDS FormatRegistry

CONSTANTS p1, p2, p3

MCProcs == {p1, p2, p3}
MCInitFormats == {"directory", "tar", "tgz"}
MCLateFormats == {"oci"}
=============================================================================
