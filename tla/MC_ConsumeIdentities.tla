----------------------- MODULE MC_ConsumeIdentities -----------------------
(* Two names, the stop token ";", an ordinary key, the empty key and the   *)
(* key "name" that collides with the identity's name attribute.            *)
EXTENDS ConsumeIdentities

MCNames == {"n1", "n2", ";"}
MCKeys == {"", "a", "name"}
MCVals == {"v"}
MCStop == {";"}
=============================================================================
