--------------------------- MODULE MCAcpSessions ---------------------------
(* AcpSessions on small instances: Acp*.cfg.                               *)
EXTENDS AcpSessions

\* An INSERT succeeds or fails.
MayFail == BOOLEAN

\* The properties exempt what follows the first step of a task on a successor
\* of its entry; the instance looks no further.
NotStale == ~stale
=============================================================================
