------------------------------ MODULE MCTunnel ------------------------------
(* Small instances of Tunnel for TLC: Tunnel*.cfg.                         *)
EXTENDS Tunnel
=============================================================================
