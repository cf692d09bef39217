------------------------------- MODULE Tunnel -------------------------------
(***************************************************************************)
(* Tunnels multiplexed over one control connection: the server dials a     *)
(* target through the client and gets a byte stream.                       *)
(*   server: ClientRegistry::open_tunnel, ClientTunnelStream, the reader   *)
(*           loop's TunnelOpenResult / Data / Close arms                   *)
(*   client: ClientState's connection table, handle_open_tunnel, the       *)
(*           reader loop's OpenTunnel / Data / Close arms                  *)
(*                                                                         *)
(* A tunnel is a cid; cids are random and never reused.  A Data message    *)
(* carries its position in its direction instead of bytes.  Each direction *)
(* is one bounded queue: the 32-slot mpsc channel and the wire behind it.  *)
(* A local service takes what is written to it or its socket fails; one    *)
(* that does not read is left out.                                         *)
(***************************************************************************)
EXTENDS Naturals, Sequences

CONSTANTS
  Cids,        \* tunnels
  Cap,         \* capacity of a direction of the control connection
  InCap,       \* capacity of a stream's inbound channel (32 in the code)
  BufCap,      \* messages buffered while the dial is in flight (4 MiB)
  MaxData      \* bound: Data messages per tunnel and direction

ASSUME CapAssumption == Cap \in Nat \ {0}
ASSUME InCapAssumption == InCap \in Nat \ {0}
ASSUME BufCapAssumption == BufCap \in Nat
ASSUME MaxDataAssumption == MaxData \in Nat

Idle == <<>>       \* a reader loop that waits for its next message

VARIABLES
  \* the server
  sp,          \* sp[c]: idle, send, wait, open, shut, gone or failed
  active,      \* tunnels in the entry's active_connections
  slot,        \* tunnels whose open_result sender has not been taken
  result,      \* result[c]: what the open_result channel holds
  inq,         \* inq[c]: the stream's inbound channel
  rcvd,        \* rcvd[c]: Data read from the stream so far
  eof,         \* eof[c]: end of file on the stream: no, clean or cut
  sent,        \* sent[c]: Data written to the stream so far
  closers,     \* tunnels whose dropped stream has a task sending Close
  closed,      \* tunnels closed by the client, as seen by the server
  srv,         \* reader loop: Idle, or the Data it is delivering
  \* the control connection
  ctl,         \* up, lost, or gone (lost, and the entry dropped)
  down, up,    \* messages to the client, to the server
  \* the client
  conn,        \* conn[c]: none, pending or active
  buf,         \* buf[c]: Data buffered while pending
  task,        \* task[c]: where handle_open_tunnel is
  aborted,     \* tasks that were aborted
  handles,     \* tunnels with a handle in conn_tasks
  rdr,         \* reader loop: Idle, or the step it is in
  local,       \* local[c]: Data written to the local service
  leof,        \* leof[c]: its end of file: no, clean or cut
  lsent        \* lsent[c]: Data read from the local service and sent

serverVars == <<sp, active, slot, result, inq, rcvd, eof, sent, closers, closed, srv>>
netVars == <<ctl, down, up>>
clientVars == <<conn, buf, task, aborted, handles, rdr, local, leof, lsent>>
vars == <<serverVars, netVars, clientVars>>

Sps == {"idle", "send", "wait", "open", "shut", "gone", "failed"}
Tasks == {"none", "dial", "sendOk", "activate", "relay", "sendClose",
          "sendFail", "remove", "done"}
Steps == {"check", "insert", "overflow"}
Ends == {"no", "clean", "cut"}
Ns == 1..MaxData

Msgs == [type : {"open", "ok", "fail", "close"}, cid : Cids]
        \cup [type : {"data"}, cid : Cids, n : Ns]

Msg(t, c) == [type |-> t, cid |-> c]
Data(c, k) == [type |-> "data", cid |-> c, n |-> k]
Upto(k) == [i \in 1..k |-> i]

TypeOK ==
  /\ sp \in [Cids -> Sps]
  /\ active \in SUBSET Cids /\ slot \in SUBSET Cids
  /\ result \in [Cids -> {"none", "ok", "fail"}]
  /\ inq \in [Cids -> Seq(Ns)] /\ rcvd \in [Cids -> Seq(Ns)]
  /\ \A c \in Cids : Len(inq[c]) <= InCap
  /\ eof \in [Cids -> Ends] /\ leof \in [Cids -> Ends]
  /\ sent \in [Cids -> 0..MaxData]
  /\ closers \in SUBSET Cids /\ closed \in SUBSET Cids
  /\ srv \in {Idle} \cup (Cids \X Ns)
  /\ ctl \in {"up", "lost", "gone"}
  /\ down \in Seq(Msgs) /\ Len(down) <= Cap
  /\ up \in Seq(Msgs) /\ Len(up) <= Cap
  /\ conn \in [Cids -> {"none", "pending", "active"}]
  /\ buf \in [Cids -> Seq(Ns)]
  /\ \A c \in Cids : Len(buf[c]) <= BufCap
  /\ task \in [Cids -> Tasks]
  /\ aborted \in SUBSET Cids /\ handles \in SUBSET Cids
  /\ rdr \in {Idle} \cup (Cids \X Steps)
  /\ local \in [Cids -> Seq(Ns)]
  /\ lsent \in [Cids -> 0..MaxData]

Init ==
  /\ sp = [c \in Cids |-> "idle"]
  /\ active = {} /\ slot = {}
  /\ result = [c \in Cids |-> "none"]
  /\ inq = [c \in Cids |-> <<>>] /\ rcvd = [c \in Cids |-> <<>>]
  /\ eof = [c \in Cids |-> "no"] /\ leof = [c \in Cids |-> "no"]
  /\ sent = [c \in Cids |-> 0]
  /\ closers = {} /\ closed = {}
  /\ srv = Idle
  /\ ctl = "up" /\ down = <<>> /\ up = <<>>
  /\ conn = [c \in Cids |-> "none"]
  /\ buf = [c \in Cids |-> <<>>]
  /\ task = [c \in Cids |-> "none"]
  /\ aborted = {} /\ handles = {}
  /\ rdr = Idle
  /\ local = [c \in Cids |-> <<>>]
  /\ lsent = [c \in Cids |-> 0]

-----------------------------------------------------------------------------
(* The two queues.  A sender that awaits waits for room; when the          *)
(* connection is lost its send fails.                                      *)

SendDown(m) == ctl = "up" /\ Len(down) < Cap /\ down' = Append(down, m)
SendUp(m) == ctl = "up" /\ Len(up) < Cap /\ up' = Append(up, m)

\* send(m).await: m is queued, or the channel is closed and m is lost.
AwaitDown(m) == SendDown(m) \/ (ctl # "up" /\ UNCHANGED down)
AwaitUp(m) == SendUp(m) \/ (ctl # "up" /\ UNCHANGED up)

\* The reader loop awaits inbound.send with active_connections locked.
Unlocked == srv = Idle
\* The receiver of a tunnel's inbound channel: the open future or the stream.
HasReceiver(c) == sp[c] \in {"send", "wait", "open", "shut"}

-----------------------------------------------------------------------------
(* Server: open_tunnel.                                                    *)

OpenStart(c) ==
  /\ sp[c] = "idle" /\ ctl # "gone" /\ Unlocked
  /\ sp' = [sp EXCEPT ![c] = "send"]
  /\ active' = active \cup {c}
  /\ slot' = slot \cup {c}
  /\ UNCHANGED <<result, inq, rcvd, eof, sent, closers, closed, srv, netVars, clientVars>>

\* On a closed channel open_tunnel returns at once (and the entry stays); a
\* channel that is about to close takes the message and loses it.
OpenSend(c) ==
  /\ sp[c] = "send"
  /\ AwaitDown(Msg("open", c))
  /\ \E to \in IF ctl = "up" THEN {"wait"} ELSE {"wait", "failed"} :
       sp' = [sp EXCEPT ![c] = to]
  /\ UNCHANGED <<active, slot, result, inq, rcvd, eof, sent, closers, closed, srv,
                 ctl, up, clientVars>>

\* The oneshot's value arrives: a stream is made of the inbound receiver.
OpenOk(c) ==
  /\ sp[c] = "wait" /\ result[c] = "ok"
  /\ sp' = [sp EXCEPT ![c] = "open"]
  /\ UNCHANGED <<active, slot, result, inq, rcvd, eof, sent, closers, closed, srv,
                 netVars, clientVars>>

\* The client's dial failed, or OPEN_TUNNEL_TIMEOUT (5 s) elapsed without a
\* result: the entry is removed.
OpenFailed(c) ==
  /\ sp[c] = "wait" /\ result[c] # "ok" /\ Unlocked
  /\ sp' = [sp EXCEPT ![c] = "failed"]
  /\ active' = active \ {c}
  /\ slot' = slot \ {c}
  /\ UNCHANGED <<result, inq, rcvd, eof, sent, closers, closed, srv, netVars, clientVars>>

\* The caller drops the future (its own peer is gone): nothing is cleaned up.
OpenCancelled(c) ==
  /\ sp[c] \in {"send", "wait"}
  /\ sp' = [sp EXCEPT ![c] = "failed"]
  /\ inq' = [inq EXCEPT ![c] = <<>>]
  /\ UNCHANGED <<active, slot, result, rcvd, eof, sent, closers, closed, srv,
                 netVars, clientVars>>

-----------------------------------------------------------------------------
(* Server: the stream.                                                     *)

StreamWrite(c) ==
  /\ sp[c] = "open" /\ sent[c] < MaxData
  /\ SendDown(Data(c, sent[c] + 1))
  /\ sent' = [sent EXCEPT ![c] = @ + 1]
  /\ UNCHANGED <<sp, active, slot, result, inq, rcvd, eof, closers, closed, srv,
                 ctl, up, clientVars>>

StreamRead(c) ==
  /\ sp[c] \in {"open", "shut"} /\ inq[c] # <<>>
  /\ rcvd' = [rcvd EXCEPT ![c] = Append(@, Head(inq[c]))]
  /\ inq' = [inq EXCEPT ![c] = Tail(@)]
  /\ UNCHANGED <<sp, active, slot, result, eof, sent, closers, closed, srv,
                 netVars, clientVars>>

\* The inbound sender lives in active_connections: without it, end of file, a
\* clean one if the client's Close has removed it.
StreamEof(c) ==
  /\ sp[c] \in {"open", "shut"} /\ inq[c] = <<>> /\ c \notin active /\ eof[c] = "no"
  /\ eof' = [eof EXCEPT ![c] = IF c \in closed THEN "clean" ELSE "cut"]
  /\ UNCHANGED <<sp, active, slot, result, inq, rcvd, sent, closers, closed, srv,
                 netVars, clientVars>>

\* poll_shutdown: one try_send of Close, which a full queue drops.
StreamShutdown(c) ==
  /\ sp[c] = "open"
  /\ sp' = [sp EXCEPT ![c] = "shut"]
  /\ IF ctl = "up" /\ Len(down) < Cap
     THEN SendDown(Msg("close", c)) ELSE UNCHANGED down
  /\ UNCHANGED <<active, slot, result, inq, rcvd, eof, sent, closers, closed, srv,
                 ctl, up, clientVars>>

\* Drop: a task is spawned to send Close, unless poll_shutdown has run.
StreamDrop(c) ==
  /\ sp[c] \in {"open", "shut"}
  /\ sp' = [sp EXCEPT ![c] = "gone"]
  /\ closers' = IF sp[c] = "open" THEN closers \cup {c} ELSE closers
  /\ inq' = [inq EXCEPT ![c] = <<>>]
  /\ UNCHANGED <<active, slot, result, rcvd, eof, sent, closed, srv, netVars, clientVars>>

\* Seeded fault: Close overtakes the Data that is queued.
BugDropClose(c) ==
  /\ c \in closers
  /\ ctl = "up" /\ Len(down) < Cap /\ down' = <<Msg("close", c)>> \o down
  /\ closers' = closers \ {c}
  /\ UNCHANGED <<sp, active, slot, result, inq, rcvd, eof, sent, closed, srv,
                 ctl, up, clientVars>>

\* Seeded fault: drop tries to send once, as poll_shutdown does.
BugTryClose(c) ==
  /\ c \in closers
  /\ IF ctl = "up" /\ Len(down) < Cap
     THEN SendDown(Msg("close", c)) ELSE UNCHANGED down
  /\ closers' = closers \ {c}
  /\ UNCHANGED <<sp, active, slot, result, inq, rcvd, eof, sent, closed, srv,
                 ctl, up, clientVars>>

DropClose(c) ==
  /\ c \in closers
  /\ AwaitDown(Msg("close", c))
  /\ closers' = closers \ {c}
  /\ UNCHANGED <<sp, active, slot, result, inq, rcvd, eof, sent, closed, srv,
                 ctl, up, clientVars>>

-----------------------------------------------------------------------------
(* Server: the reader loop.                                                *)

ServerRecv(t, c) ==
  /\ srv = Idle /\ up # <<>>
  /\ Head(up).type = t /\ Head(up).cid = c
  /\ up' = Tail(up)

RecvResult(c) ==
  \E t \in {"ok", "fail"} :
    /\ ServerRecv(t, c)
    /\ slot' = slot \ {c}
    /\ result' = IF c \in active \cap slot /\ sp[c] = "wait"
                 THEN [result EXCEPT ![c] = t] ELSE result
    /\ active' = IF t = "fail" THEN active \ {c} ELSE active
    /\ UNCHANGED <<sp, inq, rcvd, eof, sent, closers, closed, srv, ctl, down, clientVars>>

RecvUpData(c) ==
  /\ ServerRecv("data", c)
  /\ srv' = IF c \in active THEN <<c, Head(up).n>> ELSE Idle
  /\ UNCHANGED <<sp, active, slot, result, inq, rcvd, eof, sent, closers, closed,
                 ctl, down, clientVars>>

\* inbound.send(data).await: the stream takes it, or there is no stream.
DeliverUp ==
  /\ srv # Idle
  /\ LET c == srv[1] IN
       IF HasReceiver(c)
       THEN Len(inq[c]) < InCap /\ inq' = [inq EXCEPT ![c] = Append(@, srv[2])]
       ELSE UNCHANGED inq
  /\ srv' = Idle
  /\ UNCHANGED <<sp, active, slot, result, rcvd, eof, sent, closers, closed,
                 netVars, clientVars>>

RecvUpClose(c) ==
  /\ ServerRecv("close", c)
  /\ active' = active \ {c}
  /\ slot' = slot \ {c}
  /\ closed' = closed \cup {c}
  /\ UNCHANGED <<sp, result, inq, rcvd, eof, sent, closers, srv, ctl, down, clientVars>>

\* Seeded fault: the entry, and its senders, outlive the connection.
BugEntryDropped ==
  /\ ctl = "lost" /\ up = <<>> /\ srv = Idle
  /\ \A c \in Cids : sp[c] \notin {"send", "wait"}
  /\ ctl' = "gone"
  /\ UNCHANGED <<sp, active, slot, result, inq, rcvd, eof, sent, closers, closed, srv,
                 down, up, clientVars>>

\* The loop has ended, the entry is out of the registry and no open_tunnel
\* holds it any more: it is dropped, with the senders of all its tunnels.
EntryDropped ==
  /\ ctl = "lost" /\ up = <<>> /\ srv = Idle
  /\ \A c \in Cids : sp[c] \notin {"send", "wait"}
  /\ ctl' = "gone"
  /\ active' = {}
  /\ slot' = {}
  /\ UNCHANGED <<sp, result, inq, rcvd, eof, sent, closers, closed, srv, down, up, clientVars>>

-----------------------------------------------------------------------------
(* Client: the reader loop.                                                *)

ClientRecv(t, c) ==
  /\ rdr = Idle /\ down # <<>>
  /\ Head(down).type = t /\ Head(down).cid = c
  /\ down' = Tail(down)

\* The tunnel is registered as pending and its task is spawned.
RecvOpen(c) ==
  /\ ClientRecv("open", c)
  /\ conn' = [conn EXCEPT ![c] = "pending"]
  /\ task' = [task EXCEPT ![c] = "dial"]
  /\ rdr' = <<c, "check">>
  /\ UNCHANGED <<buf, aborted, handles, local, leof, lsent, ctl, up, serverVars>>

\* register_conn_task: is the task finished already?  If not, store its handle.
RegisterCheck(c) ==
  /\ rdr = <<c, "check">>
  /\ rdr' = IF task[c] = "done" THEN Idle ELSE <<c, "insert">>
  /\ UNCHANGED <<conn, buf, task, aborted, handles, local, leof, lsent, netVars, serverVars>>

RegisterInsert(c) ==
  /\ rdr = <<c, "insert">>
  /\ handles' = handles \cup {c}
  /\ rdr' = Idle
  /\ UNCHANGED <<conn, buf, task, aborted, local, leof, lsent, netVars, serverVars>>

\* The task is aborted through its handle, if there is one.
AbortTasks(cs) ==
  /\ aborted' = aborted \cup (cs \cap handles)
  /\ handles' = handles \ cs

\* The writer to the local service is dropped.
EndLocal(cs, how) ==
  leof' = [c \in Cids |-> IF c \in cs /\ leof[c] = "no" THEN how ELSE leof[c]]

\* Seeded fault: the limit is checked before the message is counted.
BugRecvPending(c) ==
  /\ ClientRecv("data", c)
  /\ conn[c] = "pending" /\ Len(buf[c]) <= BufCap
  /\ buf' = [buf EXCEPT ![c] = Append(@, Head(down).n)]
  /\ UNCHANGED <<conn, task, aborted, handles, rdr, local, leof, lsent, ctl, up, serverVars>>

\* deliver_data.
RecvPending(c) ==
  /\ ClientRecv("data", c)
  /\ conn[c] = "pending" /\ Len(buf[c]) < BufCap
  /\ buf' = [buf EXCEPT ![c] = Append(@, Head(down).n)]
  /\ UNCHANGED <<conn, task, aborted, handles, rdr, local, leof, lsent, ctl, up, serverVars>>

RecvOverflow(c) ==
  /\ ClientRecv("data", c)
  /\ conn[c] = "pending" /\ Len(buf[c]) >= BufCap
  /\ conn' = [conn EXCEPT ![c] = "none"]
  /\ buf' = [buf EXCEPT ![c] = <<>>]
  /\ EndLocal({c}, "cut")
  /\ AbortTasks({c})
  /\ rdr' = <<c, "overflow">>
  /\ UNCHANGED <<task, local, lsent, ctl, up, serverVars>>

\* The open result of an overflowing tunnel is failed.
SendOverflow(c) ==
  /\ rdr = <<c, "overflow">>
  /\ AwaitUp(Msg("fail", c))
  /\ rdr' = Idle
  /\ UNCHANGED <<conn, buf, task, aborted, handles, local, leof, lsent, ctl, down, serverVars>>

\* Data for a socket that has failed are lost with a warning: the tunnel stays.
RecvActive(c) ==
  /\ ClientRecv("data", c)
  /\ conn[c] # "pending"
  /\ local' = IF conn[c] = "active" /\ leof[c] = "no"
              THEN [local EXCEPT ![c] = Append(@, Head(down).n)] ELSE local
  /\ UNCHANGED <<conn, buf, task, aborted, handles, rdr, leof, lsent, ctl, up, serverVars>>

\* Close: the tunnel is removed and its task aborted.  Until the tunnel is
\* active this loses what is buffered, and cuts the local service off.
RecvDownClose(c) ==
  /\ ClientRecv("close", c)
  /\ conn' = [conn EXCEPT ![c] = "none"]
  /\ buf' = [buf EXCEPT ![c] = <<>>]
  /\ EndLocal({c}, IF conn[c] = "active" THEN "clean" ELSE "cut")
  /\ AbortTasks({c})
  /\ UNCHANGED <<task, rdr, local, lsent, ctl, up, serverVars>>

\* shutdown_connections, after the reader loop has ended.
ClientShutdown ==
  /\ ctl # "up" /\ down = <<>> /\ rdr = Idle
  /\ handles # {} \/ \E c \in Cids : conn[c] # "none"
  /\ conn' = [c \in Cids |-> "none"]
  /\ buf' = [c \in Cids |-> <<>>]
  /\ EndLocal({c \in Cids : conn[c] # "none"}, "cut")
  /\ AbortTasks(Cids)
  /\ UNCHANGED <<task, rdr, local, lsent, netVars, serverVars>>

-----------------------------------------------------------------------------
(* Client: handle_open_tunnel, one task per tunnel.  An aborted task dies  *)
(* at its next await that does not return at once; until then it runs on.  *)

TaskGoto(c, from, to) == task[c] = from /\ task' = [task EXCEPT ![c] = to]

\* The dial succeeds, or it fails (at the latest after CONNECT_TIMEOUT, 10 s).
Dial(c) ==
  /\ TaskGoto(c, "dial", "sendOk") \/ TaskGoto(c, "dial", "sendFail")
  /\ UNCHANGED <<conn, buf, aborted, handles, rdr, local, leof, lsent, netVars, serverVars>>

SendOk(c) ==
  /\ TaskGoto(c, "sendOk", IF ctl = "up" THEN "activate" ELSE "done")
  /\ AwaitUp(Msg("ok", c))
  /\ UNCHANGED <<conn, buf, aborted, handles, rdr, local, leof, lsent, ctl, down, serverVars>>

\* activate_connection: flush what was buffered (as far as the socket takes it;
\* an error is ignored), or stop if the tunnel has been removed meanwhile.
Activate(c) ==
  /\ TaskGoto(c, "activate", IF conn[c] = "pending" THEN "relay" ELSE "done")
  /\ IF conn[c] = "pending"
     THEN /\ conn' = [conn EXCEPT ![c] = "active"]
          /\ \E k \in 0..Len(buf[c]) :
               /\ local' = [local EXCEPT ![c] = @ \o SubSeq(buf[c], 1, k)]
               /\ EndLocal(IF k < Len(buf[c]) THEN {c} ELSE {}, "cut")
          /\ buf' = [buf EXCEPT ![c] = <<>>]
     ELSE UNCHANGED <<conn, local, leof, buf>>
  /\ UNCHANGED <<aborted, handles, rdr, lsent, netVars, serverVars>>

\* The local service sends, and its bytes are sent on to the server.
RelayData(c) ==
  /\ task[c] = "relay" /\ lsent[c] < MaxData
  /\ SendUp(Data(c, lsent[c] + 1))
  /\ lsent' = [lsent EXCEPT ![c] = @ + 1]
  /\ UNCHANGED <<conn, buf, task, aborted, handles, rdr, local, leof, ctl, down, serverVars>>

\* The local service closes, the socket fails, or the channel is closed.
RelayEnd(c) ==
  /\ TaskGoto(c, "relay", "sendClose")
  /\ UNCHANGED <<conn, buf, aborted, handles, rdr, local, leof, lsent, netVars, serverVars>>

SendClose(c) ==
  /\ TaskGoto(c, "sendClose", "remove")
  /\ AwaitUp(Msg("close", c))
  /\ UNCHANGED <<conn, buf, aborted, handles, rdr, local, leof, lsent, ctl, down, serverVars>>

SendFail(c) ==
  /\ TaskGoto(c, "sendFail", "remove")
  /\ AwaitUp(Msg("fail", c))
  /\ UNCHANGED <<conn, buf, aborted, handles, rdr, local, leof, lsent, ctl, down, serverVars>>

\* remove_connection, by the task itself.
Remove(c) ==
  /\ TaskGoto(c, "remove", "done")
  /\ conn' = [conn EXCEPT ![c] = "none"]
  /\ buf' = [buf EXCEPT ![c] = <<>>]
  /\ EndLocal({c}, "cut")
  /\ handles' = handles \ {c}
  /\ UNCHANGED <<aborted, rdr, local, lsent, netVars, serverVars>>

TaskDies(c) ==
  /\ c \in aborted /\ task[c] \notin {"none", "done"}
  /\ task' = [task EXCEPT ![c] = "done"]
  /\ UNCHANGED <<conn, buf, aborted, handles, rdr, local, leof, lsent, netVars, serverVars>>

\* The socket to the local service fails for writing.
LocalFails(c) ==
  /\ conn[c] = "active" /\ leof[c] = "no"
  /\ EndLocal({c}, "cut")
  /\ UNCHANGED <<conn, buf, task, aborted, handles, rdr, local, lsent, netVars, serverVars>>

-----------------------------------------------------------------------------
(* The network: the connection is lost, with any suffix of what is queued. *)

ConnectionLost ==
  /\ ctl = "up"
  /\ ctl' = "lost"
  /\ \E k \in 0..Len(down) : down' = SubSeq(down, 1, k)
  /\ \E k \in 0..Len(up) : up' = SubSeq(up, 1, k)
  /\ UNCHANGED <<serverVars, clientVars>>

-----------------------------------------------------------------------------
Opening(c) == OpenSend(c) \/ OpenOk(c) \/ OpenFailed(c)
ServerReader == DeliverUp \/ \E c \in Cids : RecvResult(c) \/ RecvUpData(c) \/ RecvUpClose(c)
ClientReader ==
  \E c \in Cids :
    \/ RecvOpen(c) \/ RegisterCheck(c) \/ RegisterInsert(c)
    \/ RecvPending(c) \/ RecvOverflow(c) \/ SendOverflow(c) \/ RecvActive(c)
    \/ RecvDownClose(c)
Task(c) ==
  \/ Dial(c) \/ SendOk(c) \/ Activate(c) \/ SendClose(c) \/ SendFail(c)
  \/ Remove(c) \/ TaskDies(c)

Next ==
  \/ \E c \in Cids :
       \/ OpenStart(c) \/ Opening(c) \/ OpenCancelled(c)
       \/ StreamWrite(c) \/ StreamRead(c) \/ StreamEof(c)
       \/ StreamShutdown(c) \/ StreamDrop(c) \/ DropClose(c)
       \/ Task(c) \/ RelayData(c) \/ RelayEnd(c) \/ LocalFails(c)
  \/ ServerReader \/ EntryDropped
  \/ ClientReader \/ ClientShutdown
  \/ ConnectionLost

\* The runtime schedules every task, timers fire, the connection carries what
\* is queued, and whoever holds a stream reads it.  Nothing is assumed of the
\* local services, of the writers of the streams, or of the network's life.
Fairness ==
  /\ \A c \in Cids :
       /\ WF_vars(Opening(c)) /\ WF_vars(DropClose(c)) /\ WF_vars(Task(c))
       /\ WF_vars(StreamRead(c) \/ StreamEof(c))
  /\ WF_vars(ServerReader) /\ WF_vars(EntryDropped)
  /\ WF_vars(ClientReader) /\ WF_vars(ClientShutdown)

Spec == Init /\ [][Next]_vars /\ Fairness

-----------------------------------------------------------------------------
(* Properties.                                                             *)

\* Each direction of a tunnel is a pipe: towards the local service, across the
\* dial buffer and its flush, and towards the stream, across the inbound
\* channel.  Data arrive in order and without gaps at any speed of the reader,
\* and a reader that sees the end because of a Close has read everything the
\* writer wrote, also when the Close comes from the task that Drop spawns.
\* Whatever else ends a tunnel (an overflow, an abort, the loss of the
\* connection) cuts it, once, and nothing is read afterwards.
ToService(c) == INSTANCE Pipe WITH
  wrote <- sent[c], closed <- sp[c] \in {"shut", "gone"},
  read <- local[c], eof <- leof[c]
ToStream(c) == INSTANCE Pipe WITH
  wrote <- lsent[c], closed <- task[c] \in {"sendClose", "remove", "done"},
  read <- rcvd[c], eof <- eof[c]
TunnelsArePipes ==
  /\ \A c \in Cids : ToService(c)!Init /\ ToStream(c)!Init
  /\ [][\A c \in Cids :
          /\ ToService(c)!Next \/ UNCHANGED ToService(c)!pipeVars
          /\ ToStream(c)!Next \/ UNCHANGED ToStream(c)!pipeVars]_vars

\* Nobody hangs: open_tunnel returns, with a stream or with an error, and every
\* stream over a lost connection reads end of file, the one that is being opened
\* at that moment included.
NobodyHangs ==
  \A c \in Cids :
    LET hangs == \/ sp[c] \in {"send", "wait"}
                 \/ ctl # "up" /\ sp[c] \in {"open", "shut"} /\ eof[c] = "no"
    IN hangs ~> ~hangs

\* A stream that is dropped ends the tunnel at the client, also when the control
\* queue is full at that moment or the connection is lost before the Close is
\* sent; and a tunnel that is out of the client's table leaves no task behind
\* that holds on to the local socket, whether it was closed, it overflowed, its
\* dial was still running, or the control connection was lost.
EndedTunnelIsGone ==
  \A c \in Cids :
    c \in closers \/ conn[c] = "none"
      ~> conn[c] = "none" /\ task[c] \in {"none", "done"}
=============================================================================
