---------------------------- MODULE MCRelayPairs ----------------------------
(* RelayPairs with three connections that differ in what they write.       *)
EXTENDS RelayPairs, TLC

CONSTANTS c1, c2, c3

Writes3 == c1 :> 2 @@ c2 :> 1 @@ c3 :> 0
=============================================================================
