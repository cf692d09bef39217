-------------------------- MODULE MCRemoteSessions --------------------------
(* A small instance of RemoteSessions for TLC.                             *)
EXTENDS RemoteSessions
=============================================================================
