---------------------------- MODULE ReliableConn ----------------------------
(***************************************************************************)
(* The reliable byte stream over datagrams that carries a remote-control   *)
(* session when the two clients reach each other directly                  *)
(* (crates/remote/src/reliable.rs): handshake, sliding windows,            *)
(* retransmission, delayed acknowledgements, zero-window probes, FIN.      *)
(*                                                                         *)
(* An action is one round of run_conn's loop: one event, then step() and   *)
(* send_out().  Bytes are their positions in the stream and MAX_PAYLOAD is *)
(* a few of them; the two duplex buffers are left out, so a byte is        *)
(* written when the task takes it and read when the task hands it over.    *)
(* Timers carry no time: which may expire, and when, is said by Expires.   *)
(* The congestion window is any value from its floor up, round by round.   *)
(* The window bitmap (ack_bits) is sent but never read, RST is read but    *)
(* never sent: both are left out.                                          *)
(***************************************************************************)
EXTENDS Integers, Sequences, FiniteSets

CONSTANTS
  SeqSpace,        \* sequence numbers are modulo SeqSpace (2^32 in the code)
  FirstSeq,        \* number of the first data segment (1 in the code)
  MaxPayload,      \* bytes in a full segment (1200)
  RecvWindow,      \* MAX_RECV_WINDOW, in segments (64)
  MinCwnd,         \* MIN_CWND_BYTES (two segments)
  DupAcks,         \* DUP_ACK_THRESHOLD (3)
  MaxRetransmits,  \* MAX_RETRANSMITS (8)
  SendLimit,       \* SEND_BUFFER_LIMIT (16 segments)
  MaxBytes,        \* bound: MaxBytes[p] bytes are written at end p
  Closers,         \* bound: ends whose application closes the stream
  MaxFaults        \* bound: lost or repeated datagrams and early timeouts

Ends == {"connect", "accept"}

ASSUME SeqAssumption ==
  SeqSpace \in Nat /\ SeqSpace % 2 = 0 /\ FirstSeq \in 0..SeqSpace-1
ASSUME WindowAssumption ==
  /\ MaxPayload \in Nat \ {0}
  /\ RecvWindow \in Nat \ {0}
  /\ 4 * RecvWindow <= SeqSpace
  /\ MinCwnd \in 1 .. RecvWindow * MaxPayload
ASSUME LimitAssumption ==
  /\ {DupAcks, SendLimit} \subseteq Nat \ {0}
  /\ {MaxRetransmits, MaxFaults} \subseteq Nat
  /\ MaxBytes \in [Ends -> Nat] /\ Closers \subseteq Ends

Peer(p) == CHOOSE q \in Ends : q # p

VARIABLES
  st,      \* st[p]: shaking (hands), run, or ended
  conn,    \* conn[p]: the fields of Conn
  net,     \* datagrams in flight
  wrote,   \* wrote[p]: bytes the application has written
  read,    \* read[p]: bytes the application has been given
  eof,     \* eof[p]: the end of file it has read: no, clean or cut
  faults   \* faults so far

vars == <<st, conn, net, wrote, read, eof, faults>>

-----------------------------------------------------------------------------
(* Sequence numbers.                                                       *)

Seqs == 0..SeqSpace-1
Plus(a, n) == (a + n) % SeqSpace
SeqAfter(a, b) ==
  LET diff == (a - b) % SeqSpace IN diff # 0 /\ diff < SeqSpace \div 2

-----------------------------------------------------------------------------
(* Segments and the fields of a connection.                                *)

Min2(a, b) == IF a < b THEN a ELSE b

\* The bytes of several pieces together.
Bytes(pieces) == Cardinality(UNION {{i} \X DOMAIN pieces[i] : i \in DOMAIN pieces})
SumLen(segs) == Bytes([i \in DOMAIN segs |-> segs[i].data])

\* A datagram of end p for its peer.
Segment(p, seq, ack, flags, window, data) ==
  [to |-> Peer(p), seq |-> seq, ack |-> ack, flags |-> flags,
   window |-> window, data |-> data]

NewConn ==
  [sendNext |-> FirstSeq, sendBase |-> FirstSeq, unacked |-> <<>>,
   sendBuf |-> <<>>, dupAcks |-> 0, recvNext |-> FirstSeq, recvOoo |-> {},
   recvDeliver |-> <<>>, inOrder |-> 0, ackPending |-> FALSE,
   ackDelayed |-> FALSE, peerWindow |-> RecvWindow, finSent |-> FALSE,
   peerFin |-> FALSE, peerFinSeq |-> {}, appEof |-> FALSE, timeouts |-> 0,
   writeShut |-> FALSE, fatal |-> FALSE, out |-> {}]

Window(c) == RecvWindow - Min2(RecvWindow, Len(c.recvDeliver) + Cardinality(c.recvOoo))
\* Mutant: segments out of order do not count.
BugFull(c) == Len(c.recvDeliver) >= RecvWindow

Full(c) == Len(c.recvDeliver) + Cardinality(c.recvOoo) >= RecvWindow
FinAcked(c) == c.finSent /\ c.unacked = <<>>
WantsAppRead(c) == ~c.appEof /\ ~c.finSent /\ Len(c.sendBuf) < SendLimit

Emit(c, d) == [c EXCEPT !.out = @ \cup {d}]
AckNow(c) == [c EXCEPT !.ackPending = TRUE, !.ackDelayed = FALSE]

-----------------------------------------------------------------------------
(* What a round does once its event is handled.                            *)

\* Segments cut from the send buffer under congestion window cwnd.  As in the
\* code they carry sendBase in the acknowledgement field.
Pump(p, c, cwnd) ==
  LET limit == Min2(cwnd, c.peerWindow * MaxPayload)
      avail == limit - Min2(limit, SumLen(c.unacked))
      n     == Min2(Len(c.sendBuf), avail)
      count == (n + MaxPayload - 1) \div MaxPayload
      cut   == [i \in 1..count |->
                 [seq |-> Plus(c.sendNext, i - 1), flags |-> {"ACK"},
                  data |-> SubSeq(c.sendBuf, (i - 1) * MaxPayload + 1,
                                  Min2(i * MaxPayload, n))]]
  IN IF c.finSent \/ n = 0 THEN c
     ELSE [c EXCEPT
            !.sendBuf = SubSeq(@, n + 1, Len(@)),
            !.sendNext = Plus(@, count),
            !.unacked = @ \o cut,
            !.ackPending = FALSE,
            !.ackDelayed = FALSE,
            !.out = @ \cup {Segment(p, cut[i].seq, c.sendBase, {"ACK"},
                                    Window(c), cut[i].data) : i \in 1..count}]

MaybeSendFin(p, c) ==
  LET fin == [seq |-> c.sendNext, flags |-> {"FIN", "ACK"}, data |-> <<>>]
  IN IF c.finSent \/ ~c.appEof \/ c.sendBuf # <<>> \/ c.unacked # <<>> THEN c
     ELSE Emit([c EXCEPT !.finSent = TRUE, !.sendNext = Plus(@, 1),
                         !.unacked = <<fin>>],
               Segment(p, fin.seq, c.sendBase, fin.flags, Window(c), <<>>))

FlushAck(p, c) ==
  IF ~c.ackPending THEN c
  ELSE Emit([c EXCEPT !.ackPending = FALSE, !.ackDelayed = FALSE],
            Segment(p, c.sendNext, c.recvNext, {"ACK"}, Window(c), <<>>))

AckIfDue(p, c) == IF c.ackPending /\ ~c.ackDelayed THEN FlushAck(p, c) ELSE c

Finished(c) == c.fatal \/ (c.appEof /\ FinAcked(c))

\* The write half is shut down once the peer's FIN and all data are through.
ShutWrite(c) ==
  [c EXCEPT !.writeShut = @ \/ (c.peerFin /\ c.recvDeliver = <<>>)]

\* Datagrams to an end whose task is gone are dropped by the demultiplexer.
Carry(datagrams, states) == {d \in datagrams : states[d.to] # "ended"}

\* End p's task, whose event has left c behind, goes round its loop; rest are
\* the datagrams still in flight.  A task that breaks sends nothing any more.
Round(p, c, rest) ==
  IF Finished(c)
  THEN /\ st' = [st EXCEPT ![p] = "ended"]
       /\ conn' = [conn EXCEPT ![p] = [c EXCEPT !.out = {}]]
       /\ net' = Carry(rest, st')
  ELSE /\ \E cwnd \in MinCwnd .. RecvWindow * MaxPayload :
          \E pumped \in {Pump(p, c, cwnd)} :
          \E closing \in {MaybeSendFin(p, pumped)} :
          \E s \in {AckIfDue(p, closing)} :
            /\ conn' = [conn EXCEPT ![p] = [ShutWrite(s) EXCEPT !.out = {}]]
            /\ net' = Carry(rest \cup s.out, st)
       /\ UNCHANGED st

-----------------------------------------------------------------------------
(* Receiving.                                                              *)

FastRetransmit(p, c) ==
  LET u == Head(c.unacked)
  IN Emit(c, Segment(p, u.seq, c.sendBase, {"ACK"}, Window(c), u.data))

\* Segments are popped from the front as long as ack is after them.
Unacknowledged(segs, ack) ==
  LET popped == CHOOSE n \in 0..Len(segs) :
                  /\ \A i \in 1..n : SeqAfter(ack, segs[i].seq)
                  /\ n < Len(segs) => ~SeqAfter(ack, segs[n + 1].seq)
  IN SubSeq(segs, popped + 1, Len(segs))

\* Mutant: the segment that the peer expects next is forgotten too.
BugProcessAck(p, c, ack, window) ==
  IF SeqAfter(ack, c.sendBase)
  THEN [c EXCEPT !.unacked = Unacknowledged(@, Plus(ack, 1)),
                 !.sendBase = ack, !.dupAcks = 0, !.timeouts = 0,
                 !.peerWindow = window]
  ELSE [c EXCEPT !.peerWindow = window]

ProcessAck(p, c, ack, window) ==
  LET w == [c EXCEPT !.peerWindow = window]
      d == [w EXCEPT !.dupAcks = Min2(@ + 1, DupAcks + 1)]
  IN IF SeqAfter(ack, c.sendBase)
     THEN [w EXCEPT !.unacked = Unacknowledged(@, ack),
                    !.sendBase = ack, !.dupAcks = 0, !.timeouts = 0]
     ELSE IF ack # c.sendBase \/ c.unacked = <<>> THEN w
     ELSE IF d.dupAcks = DupAcks THEN FastRetransmit(p, d) ELSE d

TryConsumeFin(c) ==
  IF \A fs \in c.peerFinSeq : SeqAfter(fs, c.recvNext) THEN c
  ELSE AckNow([c EXCEPT !.peerFin = TRUE,
                        !.recvNext = IF @ \in c.peerFinSeq THEN Plus(@, 1) ELSE @])

\* Mutant: what was held back overtakes the segment that was missing.
BugInOrderData(c, data) ==
  LET next == Plus(c.recvNext, 1)
      held == {o \in c.recvOoo : o.seq = next}
  IN IF held = {} THEN AckNow([c EXCEPT !.recvDeliver = Append(@, data), !.recvNext = next])
     ELSE AckNow([c EXCEPT !.recvDeliver = @ \o <<(CHOOSE o \in held : TRUE).data, data>>,
                           !.recvNext = Plus(@, 2), !.recvOoo = @ \ held])

\* The segment that was missing: it and what follows it in the out-of-order
\* buffer go to the application.
InOrderData(c, data) ==
  LET held(n)  == \A i \in 1..n : \E o \in c.recvOoo : o.seq = Plus(c.recvNext, i)
      run      == CHOOSE n \in 0..RecvWindow : held(n) /\ ~held(n + 1)
      taken    == [i \in 1..run |->
                    (CHOOSE o \in c.recvOoo : o.seq = Plus(c.recvNext, i)).data]
      next     == [c EXCEPT
                    !.recvDeliver = Append(@, data) \o taken,
                    !.recvNext = Plus(@, run + 1),
                    !.recvOoo = {o \in @ : \A i \in 1..run :
                                   o.seq # Plus(c.recvNext, i)}]
      consumed == IF run > 0 THEN TryConsumeFin(next) ELSE next
  IN IF run > 0 \/ c.inOrder = 1
     THEN AckNow([consumed EXCEPT !.inOrder = 0])
     ELSE [consumed EXCEPT !.inOrder = 1, !.ackPending = TRUE,
                           !.ackDelayed = TRUE]

ProcessData(c, seq, data) ==
  IF SeqAfter(c.recvNext, seq) THEN AckNow(c)
  ELSE IF seq = c.recvNext
       THEN IF Full(c) THEN c ELSE InOrderData(c, data)
  ELSE IF ~SeqAfter(Plus(c.recvNext, RecvWindow), seq) \/ Full(c) THEN c
  ELSE AckNow([c EXCEPT !.recvOoo =
                 IF \E o \in @ : o.seq = seq THEN @
                 ELSE @ \cup {[seq |-> seq, data |-> data]}])

OnSegment(p, c, d) ==
  IF "SYN" \in d.flags /\ "ACK" \notin d.flags
  THEN Emit(c, Segment(p, Plus(FirstSeq, SeqSpace - 1), FirstSeq, {"SYN", "ACK"},
                       Window(c), <<>>))
  ELSE LET a == IF "ACK" \in d.flags THEN ProcessAck(p, c, d.ack, d.window)
                ELSE [c EXCEPT !.peerWindow = d.window]
           b == IF d.data # <<>> THEN ProcessData(a, d.seq, d.data)
                ELSE IF d.flags = {} THEN AckNow(a) ELSE a
       IN IF "FIN" \in d.flags
          THEN TryConsumeFin([b EXCEPT !.peerFinSeq = {d.seq}]) ELSE b

-----------------------------------------------------------------------------
(* Initial state.  connect has sent its first SYN.                         *)

Before == Plus(FirstSeq, SeqSpace - 1)
Syn == Segment("connect", Before, Before, {"SYN"}, RecvWindow, <<>>)
SynAck == Segment("accept", Before, FirstSeq, {"SYN", "ACK"}, RecvWindow, <<>>)

Init ==
  /\ st = [p \in Ends |-> "shaking"]
  /\ conn = [p \in Ends |-> NewConn]
  /\ net = {Syn}
  /\ wrote = [p \in Ends |-> 0]
  /\ read = [p \in Ends |-> <<>>]
  /\ eof = [p \in Ends |-> "no"]
  /\ faults = 0

appVars == <<wrote, read, eof>>

Fault == faults < MaxFaults /\ faults' = faults + 1

\* Retransmission and probe timers are longer than a round trip and the delay
\* of an acknowledgement: they expire when nothing is under way, or it is a
\* fault.
Expires(due) ==
  \/ /\ net = {}
     /\ \A q \in Ends : conn[q].ackDelayed => <<q, "ack">> \in due
     /\ UNCHANGED faults
  \/ Fault

-----------------------------------------------------------------------------
(* The handshake.                                                          *)

Probe ==
  /\ st["connect"] = "shaking"
  /\ Syn \notin net
  /\ net' = Carry(net \cup {Syn}, st)
  /\ Expires({})
  /\ UNCHANGED <<st, conn, appVars>>

\* accept takes any SYN for its conn_id and answers it; connect waits for the
\* answer, and until then loses every other datagram.
Shake(p, d) ==
  LET wanted == IF p = "accept" THEN "SYN" \in d.flags
                ELSE d.flags = {"SYN", "ACK"} /\ d.ack = FirstSeq
      reply  == IF p = "accept" /\ wanted THEN {SynAck} ELSE {}
  IN /\ st[p] = "shaking"
     /\ d \in net /\ d.to = p
     /\ st' = [st EXCEPT ![p] = IF wanted THEN "run" ELSE @]
     /\ net' = Carry((net \ {d}) \cup reply, st)
     /\ UNCHANGED <<conn, faults, appVars>>

\* The handshake's budget is used up.
GiveUpShaking(p) ==
  /\ st[p] = "shaking"
  /\ Fault
  /\ st' = [st EXCEPT ![p] = "ended"]
  /\ net' = Carry(net, st')
  /\ UNCHANGED <<conn, appVars>>

-----------------------------------------------------------------------------
(* Rounds of run_conn, one action for each arm of its select.              *)

Receive(p, d) ==
  /\ st[p] = "run"
  /\ d \in net /\ d.to = p
  /\ \E c \in {OnSegment(p, conn[p], d)} :
       \/ Round(p, c, net \ {d}) /\ UNCHANGED faults
       \/ Round(p, c, net) /\ Fault     \* it comes again
  /\ UNCHANGED appVars

\* The demultiplexer's channel is closed, or the application has dropped the
\* stream and what waits for it cannot be handed over.
Break(p) ==
  /\ st[p] = "run"
  /\ Fault
  /\ st' = [st EXCEPT ![p] = "ended"]
  /\ net' = Carry(net, st')
  /\ UNCHANGED <<conn, appVars>>

AppWrite(p) ==
  /\ st[p] = "run"
  /\ WantsAppRead(conn[p])
  /\ \E n \in 1..MaxPayload :
       /\ wrote[p] + n <= MaxBytes[p]
       /\ wrote' = [wrote EXCEPT ![p] = @ + n]
       /\ Round(p, [conn[p] EXCEPT !.sendBuf = @ \o [i \in 1..n |-> wrote[p] + i]], net)
  /\ UNCHANGED <<read, eof, faults>>

\* The application has shut its write half down, or dropped the stream.
AppEof(p) ==
  /\ p \in Closers
  /\ st[p] = "run"
  /\ WantsAppRead(conn[p])
  /\ Round(p, [conn[p] EXCEPT !.appEof = TRUE], net)
  /\ UNCHANGED <<appVars, faults>>

\* The task hands n bytes over; a window that was closed is announced again.
AppRead(p) ==
  LET c     == conn[p]
      front == Head(c.recvDeliver)
      Consumed(n) ==
        [c EXCEPT !.recvDeliver =
           IF n = Len(front) THEN Tail(@)
           ELSE <<SubSeq(front, n + 1, Len(front))>> \o Tail(@)]
  IN /\ st[p] = "run"
     /\ c.recvDeliver # <<>>
        /\ \E n \in 1..Len(front) :
        \E r \in {Consumed(n)} :
          /\ read' = [read EXCEPT ![p] = @ \o SubSeq(front, 1, n)]
          /\ Round(p, IF Window(c) = 0 /\ Window(r) > 0 THEN AckNow(r) ELSE r, net)
     /\ UNCHANGED <<wrote, eof, faults>>

ReadEof(p) ==
  /\ eof[p] = "no"
  /\ conn[p].writeShut \/ st[p] = "ended"
  /\ eof' = [eof EXCEPT ![p] = IF conn[p].writeShut THEN "clean" ELSE "cut"]
  /\ UNCHANGED <<st, conn, net, wrote, read, faults>>

\* Mutant: a dead link is never given up.
BugRetransmitOldest(p, c) ==
  LET u == Head(c.unacked)
  IN [Emit(c, Segment(p, u.seq, c.sendBase, u.flags, Window(c), u.data))
       EXCEPT !.timeouts = @ + 1]

RetransmitOldest(p, c) ==
  LET u == Head(c.unacked)
  IN [Emit(c, Segment(p, u.seq, c.sendBase, u.flags, Window(c), u.data))
       EXCEPT !.timeouts = @ + 1, !.fatal = c.timeouts + 1 > MaxRetransmits]

\* Mutant: a probe that looks like an acknowledgement gets no answer.
BugPersistProbe(p, c) ==
  Emit(c, Segment(p, c.sendNext, c.sendBase, {"ACK"}, Window(c), <<>>))

PersistProbe(p, c) ==
  Emit(c, Segment(p, c.sendNext, c.sendBase, {}, Window(c), <<>>))

Armed(c) ==
  (IF c.ackDelayed THEN {"ack"} ELSE {})
    \cup (IF c.unacked # <<>> THEN {"rto"} ELSE {})
    \cup (IF c.sendBuf # <<>> THEN {"persist"} ELSE {})

OnTimeout(p) ==
  /\ st[p] = "run"
  /\ \E due \in SUBSET Armed(conn[p]) \ {{}} :
       /\ IF due = {"ack"} THEN UNCHANGED faults
          ELSE Expires({<<p, k>> : k \in due})
       /\ \E a \in {IF "ack" \in due THEN FlushAck(p, conn[p]) ELSE conn[p]} :
          \E r \in {IF "rto" \in due THEN RetransmitOldest(p, a) ELSE a} :
          \E c \in {IF "persist" \in due THEN PersistProbe(p, r) ELSE r} :
            Round(p, c, net)
  /\ UNCHANGED appVars

-----------------------------------------------------------------------------
(* The network.                                                            *)

Lose(d) ==
  /\ d \in net
  /\ Fault
  /\ net' = net \ {d}
  /\ UNCHANGED <<st, conn, appVars>>

Next ==
  \/ Probe
  \/ \E d \in net : Shake(d.to, d) \/ Receive(d.to, d) \/ Lose(d)
  \/ \E p \in Ends :
       \/ GiveUpShaking(p) \/ Break(p)
       \/ AppWrite(p) \/ AppEof(p) \/ AppRead(p)
       \/ ReadEof(p) \/ OnTimeout(p)

\* Datagrams that are not lost arrive, timers expire, and an application that
\* has not dropped the stream goes on reading.
Arrives == \E d \in net : Shake(d.to, d) \/ Receive(d.to, d)
Wakes == Probe \/ \E p \in Ends : OnTimeout(p)
Reads == \E p \in Ends : AppRead(p) \/ ReadEof(p)

Spec == Init /\ [][Next]_vars /\ WF_vars(Arrives) /\ WF_vars(Wakes) /\ WF_vars(Reads)

-----------------------------------------------------------------------------
(* Properties.                                                             *)

Flags == {"SYN", "ACK", "FIN"}
Outgoing == [to : Ends, seq : Seqs, ack : Seqs, window : 0..RecvWindow,
             flags : SUBSET Flags, data : Seq(Nat)]
Kept == [seq : Seqs, flags : SUBSET Flags, data : Seq(Nat)]
Conns ==
  [sendNext : Seqs, sendBase : Seqs, unacked : Seq(Kept),
   sendBuf : Seq(Nat), dupAcks : 0 .. DupAcks + 1, recvNext : Seqs,
   recvOoo : SUBSET [seq : Seqs, data : Seq(Nat)], recvDeliver : Seq(Seq(Nat)),
   inOrder : 0..1, ackPending : BOOLEAN, ackDelayed : BOOLEAN,
   peerWindow : 0..RecvWindow, finSent : BOOLEAN, peerFin : BOOLEAN,
   peerFinSeq : SUBSET Seqs, appEof : BOOLEAN, timeouts : 0 .. MaxRetransmits + 1,
   writeShut : BOOLEAN, fatal : BOOLEAN, out : SUBSET Outgoing]

\* Every field holds what its type in Conn allows.
TypeOK ==
  /\ st \in [Ends -> {"shaking", "run", "ended"}]
  /\ conn \in [Ends -> Conns]
  /\ \A p \in Ends : IsFiniteSet(conn[p].recvOoo)
  /\ net \subseteq Outgoing
  /\ wrote \in [Ends -> Nat]
  /\ read \in [Ends -> Seq(Nat)]
  /\ eof \in [Ends -> {"no", "clean", "cut"}]
  /\ faults \in 0..MaxFaults

\* A stream has fewer bytes, and so fewer segments, than half the numbers: a
\* datagram that comes again long after is not taken for a later one.
ShortStream == \A p \in Ends : MaxBytes[p] < SeqSpace \div 2

\* Each direction is a pipe: bytes in order and once, end of file only after
\* the last of them unless the connection broke (reliable.rs:23, "no loss, no
\* disorder, no repetition").
Forward == INSTANCE Pipe WITH
  wrote <- wrote["connect"], closed <- conn["connect"].appEof,
  read <- read["accept"], eof <- eof["accept"]
Backward == INSTANCE Pipe WITH
  wrote <- wrote["accept"], closed <- conn["accept"].appEof,
  read <- read["connect"], eof <- eof["connect"]
DirectionsArePipes == Forward!Spec /\ Backward!Spec

\* What waits at the receiver, in and out of order, never exceeds the window,
\* whatever the sender and the network do (reliable.rs:15-16).
BufferIsBounded ==
  \A p \in Ends :
    Len(conn[p].recvDeliver) + Cardinality(conn[p].recvOoo) <= RecvWindow

\* What the sender no longer keeps has reached the receiver: nothing is taken
\* for acknowledged that may still be lost (reliable.rs:786, "data segments
\* carry the ack field, so the acknowledgement goes out with them").
AckedIsReceived ==
  \A p \in Ends :
    LET s == conn[p]
        r == conn[Peer(p)]
    IN wrote[p] - Len(s.sendBuf) - SumLen(s.unacked)
         <= Len(read[Peer(p)]) + Bytes(r.recvDeliver)

\* As long as nothing is forgotten before it has arrived, time and again the
\* reader has all the bytes written, and a clean end of file if the writer has
\* closed, or one of the two tasks has given up: no loss of a segment, of an
\* acknowledgement or of a window update leaves both waiting.  When both ends
\* write, the acknowledgement of reliable.rs:773 breaks the premise, and then the
\* reader may wait for ever for the segment that nobody has any more.
WrittenIsRead ==
  []AckedIsReceived =>
    \A p \in Ends :
      []<>( \/ /\ Len(read[Peer(p)]) = wrote[p]
               /\ conn[p].appEof => eof[Peer(p)] = "clean"
            \/ \E q \in Ends : st[q] = "ended" )
=============================================================================
