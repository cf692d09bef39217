-------------------------- MODULE MCClientRegistry --------------------------
(* Small instances of ClientRegistry for TLC: Registry*.cfg.               *)
EXTENDS ClientRegistry
=============================================================================
