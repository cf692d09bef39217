---------------------------- MODULE ControlPump ----------------------------
(***************************************************************************)
(* What waits for what on the control connections of several clients.      *)
(* Each end has one reader loop that handles a message at a time and, for  *)
(* some of them, waits for room in a queue before it reads on: the server  *)
(* for a stream's inbound channel (Data), for the same client's queue      *)
(* (Ping), for the queue of every client (a broadcast), and for that of    *)
(* another client, its own or both (requests, answers and ends of remote   *)
(* control); the client for the local service (Data) and for its own queue *)
(* (the answer to AgentLlmProxyStart, and the failure of an overflowing    *)
(* tunnel).                                                                *)
(*                                                                         *)
(* Messages carry nothing: what they are about is in Tunnel, RemoteSessions*)
(* and AcpSessions.  A queue and the wire behind it are one bounded queue. *)
(* Every client has one tunnel; it and the connections stay open.          *)
(***************************************************************************)
EXTENDS Naturals, Sequences, FiniteSets

CONSTANTS
  Clients,   \* clients that are on line
  Traffic,   \* Traffic[k]: what there is of Kinds
  Cap,       \* room of a direction of a control connection (32 and the wire)
  Room       \* room of an inbound channel (32) and of a local socket

Kinds == {"data", "ping", "announce", "remote", "start"}

ASSUME ClientsAssumption == IsFiniteSet(Clients) /\ Clients # {}
ASSUME TrafficAssumption == Traffic \in [Clients -> SUBSET Kinds]
ASSUME RoomAssumption == {Cap, Room} \subseteq Nat \ {0}

VARIABLES
  down,      \* down[k]: messages to client k
  up,        \* up[k]: messages from client k
  srv,       \* srv[k]: sends that the server's reader of k has before it
  cli,       \* cli[k]: what the client's reader waits for
  inbound,   \* inbound[k]: Data in the inbound channel of the tunnel
  socket,    \* socket[k]: Data in the socket of the local service
  parked     \* tunnels whose user waits for room to write

vars == <<down, up, srv, cli, inbound, socket, parked>>

DownMsgs == {"data", "pong", "list", "session", "start"}
UpMsgs == {"data", "ping", "announce", "remote", "ready"}
Sends == [to : Clients, msg : {"data", "pong", "list", "session"}]

\* Every variable has its type, and no queue holds more than its room (the
\* mpsc channels of both ends).
TypeOK ==
  /\ \A k \in Clients : /\ down[k] \in Seq(DownMsgs) /\ Len(down[k]) <= Cap
                        /\ up[k] \in Seq(UpMsgs) /\ Len(up[k]) <= Cap
                        /\ srv[k] \in Seq(Sends)
                        /\ Len(srv[k]) <= Cardinality(Clients)
  /\ cli \in [Clients -> {"reads", "delivers", "answers"}]
  /\ inbound \in [Clients -> 0..Room] /\ socket \in [Clients -> 0..Room]
  /\ parked \subseteq Clients

Init ==
  /\ down = [k \in Clients |-> <<>>] /\ up = [k \in Clients |-> <<>>]
  /\ srv = [k \in Clients |-> <<>>]
  /\ cli = [k \in Clients |-> "reads"]
  /\ inbound = [k \in Clients |-> 0] /\ socket = [k \in Clients |-> 0]
  /\ parked = {}

-----------------------------------------------------------------------------
(* A send that awaits has room when it is done.                            *)

SendDown(k, msg) ==
  /\ Len(down[k]) < Cap
  /\ down' = [down EXCEPT ![k] = Append(@, msg)]

SendUp(k, msg) ==
  /\ Len(up[k]) < Cap
  /\ up' = [up EXCEPT ![k] = Append(@, msg)]

-----------------------------------------------------------------------------
(* The user of the tunnel at the server copies in both directions.         *)

\* poll_write: when there is no room the future of reserve() is polled once
\* and dropped, and with it what would wake the user.
UserWrite(k) ==
  /\ "data" \in Traffic[k] /\ k \notin parked
  /\ IF Len(down[k]) < Cap
     THEN /\ SendDown(k, "data")
          /\ UNCHANGED parked
     ELSE /\ parked' = parked \cup {k}
          /\ UNCHANGED down
  /\ UNCHANGED <<up, srv, cli, inbound, socket>>

\* Seeded fault: a user that waits for room to write does not read.
BugUserRead(k) ==
  /\ inbound[k] > 0 /\ k \notin parked
  /\ inbound' = [inbound EXCEPT ![k] = @ - 1]
  /\ UNCHANGED <<down, up, srv, cli, socket, parked>>

\* poll_read: Data wakes the task, which polls its write as well.
UserRead(k) ==
  /\ inbound[k] > 0
  /\ inbound' = [inbound EXCEPT ![k] = @ - 1]
  /\ parked' = parked \ {k}
  /\ UNCHANGED <<down, up, srv, cli, socket>>

\* The task is polled for another reason: the other side has more to copy.
Woken(k) ==
  /\ k \in parked
  /\ parked' = parked \ {k}
  /\ UNCHANGED <<down, up, srv, cli, inbound, socket>>

\* ensure_session asks for the client's LLM proxy.
StartProxy(k) ==
  /\ "start" \in Traffic[k]
  /\ SendDown(k, "start")
  /\ UNCHANGED <<up, srv, cli, inbound, socket, parked>>

-----------------------------------------------------------------------------
(* The server's reader loops.                                              *)

\* In which order a broadcast meets the clients.
Orders == {o \in [1..Cardinality(Clients) -> Clients] :
             \A i, j \in DOMAIN o : i # j => o[i] # o[j]}

\* What signalling of k sends about a session: a denial to k, the notice of an
\* answer or an end to the peer, or incoming to the target and then the grant to k.
Signals(k) ==
  LET about(c) == [to |-> c, msg |-> "session"]
  IN {<<about(k)>>} \cup {<<about(c)>> : c \in Clients \ {k}}
       \cup {<<about(c), about(k)>> : c \in Clients \ {k}}

ServerRead(k) ==
  /\ srv[k] = <<>> /\ up[k] # <<>>
  /\ up' = [up EXCEPT ![k] = Tail(@)]
  /\ \E next \in CASE Head(up[k]) = "ping" -> {<<[to |-> k, msg |-> "pong"]>>}
                   [] Head(up[k]) = "data" -> {<<[to |-> k, msg |-> "data"]>>}
                   [] Head(up[k]) = "announce" ->
                        {[i \in DOMAIN o |-> [to |-> o[i], msg |-> "list"]] : o \in Orders}
                   [] Head(up[k]) = "remote" -> Signals(k)
                   [] OTHER -> {<<>>} :
       srv' = [srv EXCEPT ![k] = next]
  /\ UNCHANGED <<down, cli, inbound, socket, parked>>

\* Seeded fault: try_reserve is awaited, but not counted.
BugServerSend(k) ==
  /\ srv[k] # <<>>
  /\ LET s == Head(srv[k])
     IN /\ inbound' = IF s.msg = "data" THEN [inbound EXCEPT ![s.to] = @ + 1] ELSE inbound
        /\ down' = IF s.msg = "data" THEN down ELSE [down EXCEPT ![s.to] = Append(@, s.msg)]
  /\ srv' = [srv EXCEPT ![k] = Tail(@)]
  /\ UNCHANGED <<up, cli, socket, parked>>

\* The first of the sends is done: Data to the stream, anything else to a
\* client.
ServerSend(k) ==
  /\ srv[k] # <<>>
  /\ LET s == Head(srv[k])
     IN IF s.msg = "data"
        THEN /\ inbound[s.to] < Room
             /\ inbound' = [inbound EXCEPT ![s.to] = @ + 1]
             /\ UNCHANGED down
        ELSE /\ SendDown(s.to, s.msg)
             /\ UNCHANGED inbound
  /\ srv' = [srv EXCEPT ![k] = Tail(@)]
  /\ UNCHANGED <<up, cli, socket, parked>>

-----------------------------------------------------------------------------
(* The client.                                                             *)

ClientRead(k) ==
  /\ cli[k] = "reads" /\ down[k] # <<>>
  /\ down' = [down EXCEPT ![k] = Tail(@)]
  /\ cli' = [cli EXCEPT ![k] = CASE Head(down[k]) = "data" -> "delivers"
                                 [] Head(down[k]) = "start" -> "answers"
                                 [] OTHER -> "reads"]
  /\ UNCHANGED <<up, srv, inbound, socket, parked>>

\* The reader itself writes to the local service.
Deliver(k) ==
  /\ cli[k] = "delivers"
  /\ socket[k] < Room
  /\ socket' = [socket EXCEPT ![k] = @ + 1]
  /\ cli' = [cli EXCEPT ![k] = "reads"]
  /\ UNCHANGED <<down, up, srv, inbound, parked>>

\* The reader itself sends AgentLlmProxyReady.
Answer(k) ==
  /\ cli[k] = "answers"
  /\ SendUp(k, "ready")
  /\ cli' = [cli EXCEPT ![k] = "reads"]
  /\ UNCHANGED <<down, srv, inbound, socket, parked>>

LocalRead(k) ==
  /\ socket[k] > 0
  /\ socket' = [socket EXCEPT ![k] = @ - 1]
  /\ UNCHANGED <<down, up, srv, cli, inbound, parked>>

\* Tasks of the client: the tunnel's, the heartbeat, the remote control's.
ClientSend(k) ==
  /\ \E kind \in Traffic[k] \cap {"data", "ping", "announce", "remote"} : SendUp(k, kind)
  /\ UNCHANGED <<down, srv, cli, inbound, socket, parked>>

-----------------------------------------------------------------------------
Next ==
  \E k \in Clients :
    \/ UserWrite(k) \/ UserRead(k) \/ Woken(k) \/ StartProxy(k)
    \/ ServerRead(k) \/ ServerSend(k)
    \/ ClientRead(k) \/ Deliver(k) \/ Answer(k) \/ LocalRead(k) \/ ClientSend(k)

\* The loops run, a queue serves those who wait for it in turn (tokio's
\* semaphore is fair), and what reaches a user or a local service is read.
\* Nobody has to send anything.
Fairness ==
  \A k \in Clients :
    /\ WF_vars(ServerRead(k)) /\ SF_vars(ServerSend(k))
    /\ WF_vars(ClientRead(k)) /\ WF_vars(Deliver(k)) /\ SF_vars(Answer(k))
    /\ WF_vars(UserRead(k)) /\ WF_vars(LocalRead(k))

Spec == Init /\ [][Next]_vars /\ Fairness

-----------------------------------------------------------------------------
(* Properties.                                                             *)

\* The server's readers wait for each other's clients, for users and for
\* local services, but never for ever, as long as no client's reader waits
\* for ever for room in its own queue.
ReadersReturn ==
  (\A k \in Clients : []<>(cli[k] # "answers")) =>
    \A k \in Clients : []<>(srv[k] = <<>>)

\* "Back-pressure: when the control sender is full, poll_write returns
\* Pending and registers a waker": a user that waits for room goes on when
\* there is room.
BackPressureEnds ==
  \A k \in Clients : k \in parked ~> k \notin parked \/ Len(down[k]) = Cap
=============================================================================
