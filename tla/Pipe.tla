-------------------------------- MODULE Pipe --------------------------------
(***************************************************************************)
(* What one direction of a byte stream promises the two programs at its    *)
(* ends, however it is carried: the reader gets what the writer wrote, in  *)
(* order and without gaps; end of file tells that the writer has closed    *)
(* and that everything was read, unless the stream was cut.                *)
(* tokio's AsyncRead and AsyncWrite, as session.rs relies on them.         *)
(***************************************************************************)
EXTENDS Naturals, Sequences

VARIABLES
  wrote,     \* number of items written; an item is its position
  closed,    \* the writer has shut its half down
  read,      \* the items read so far
  eof        \* what ended the reading: no, clean or cut

pipeVars == <<wrote, closed, read, eof>>

Init ==
  /\ wrote = 0
  /\ closed = FALSE
  /\ read = <<>>
  /\ eof = "no"

Write ==
  /\ ~closed
  /\ wrote' > wrote
  /\ UNCHANGED <<closed, read, eof>>

Close ==
  /\ closed' = TRUE
  /\ UNCHANGED <<wrote, read, eof>>

More ==
  /\ eof = "no"
  /\ \E n \in Len(read) + 1 .. wrote : read' = [i \in 1..n |-> i]

Read ==
  /\ More
  /\ UNCHANGED <<wrote, closed, eof>>

CleanEof ==
  /\ eof = "no"
  /\ closed
  /\ Len(read) = wrote
  /\ eof' = "clean"
  /\ UNCHANGED <<wrote, closed, read>>

\* The carrier gives up: the reader gets an early end of file, at once or after
\* what it had on its way.
Cut ==
  /\ eof = "no"
  /\ eof' = "cut"
  /\ More \/ UNCHANGED read
  /\ UNCHANGED <<wrote, closed>>

Next == Write \/ Close \/ Read \/ CleanEof \/ Cut

Spec == Init /\ [][Next]_pipeVars
=============================================================================
