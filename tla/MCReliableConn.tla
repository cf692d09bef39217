--------------------------- MODULE MCReliableConn ---------------------------
(* Small instances of ReliableConn for TLC: Reliable*.cfg.                 *)
EXTENDS ReliableConn

\* Only the end that connected writes.
OneWay == [p \in Ends |-> IF p = "connect" THEN 3 ELSE 0]
BothWays == [p \in Ends |-> 2]

\* What theorem Pipes asks of the constants.
ASSUME StreamsAreShort == ShortStream
=============================================================================
