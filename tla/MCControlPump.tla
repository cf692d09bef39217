--------------------------- MODULE MCControlPump ---------------------------
(* ControlPump on small instances.                                         *)
EXTENDS ControlPump

CONSTANTS k1, k2

\* Both use remote control; one has a tunnel and an agent, one may be controlled.
TwoClients == [k \in {k1, k2} |->
                 IF k = k1 THEN {"data", "ping", "start", "remote"} ELSE {"announce", "remote"}]

\* A client with a tunnel.
OneTunnel == [k \in {k1} |-> {"data"}]
=============================================================================
