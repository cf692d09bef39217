# A verification project for rust-tunnel

TLA+ models of rust-tunnel's own core logic, checked by TLC on small instances
and proved by TLAPS where the prover reaches. Every definition is translated
from the Rust source under `crates/`; `PROJECT.json` gives the lines of each.

## 1. Inventory

rust-tunnel is a server that publishes services running behind its clients.
A client keeps one TLS *control connection* to the server; everything else is
carried over it as `ControlMessage` frames: tunnels of the reverse proxy, agent
commands, spawned agent processes with their stdio and LLM traffic, and the
signalling of remote-control sessions, whose data then flows over UDP or a
relay. Around that the server has an LLM gateway, an AI-agent workbench, a
knowledge base, certificate management, proxies, and an administration API.

| Component | State | Operations | Interacts with | What is hard |
|---|---|---|---|---|
| client registry, control connections (`server/control_plane`) | `entries` by client name; per connection a handler task, a bounded sender | register, get, disconnect, handler's read loop and clean-up | every feature that reaches a client by name | overlapping registrations, clean-up of a replaced connection, failed writes |
| tunnels (`open_tunnel`, `ClientTunnelStream`; client `control.rs`, `proxy.rs`) | server: per `cid` inbound sender, dial result; client: pending / active connection, relay task handle | open, result, data, close, both ends | reverse proxy, PTY, registry | open timeout racing a late answer, Close before Data is consumed, half close, back-pressure across streams |
| control-channel pumps (server and client reader/writer tasks) | two bounded queues, reader and writer tasks | ping/pong, answers sent from the reader loops | all of the above | mutual waiting on full queues |
| agent RPC (`agent_exec`, `spawn_negotiate`, client executor) | pending one-shots by request/session id, cancel handles | exec, response, cancel, timeout | agent runner, ACP bridge | answer after timeout, cancel after completion, disconnect |
| ACP bridge (`agent/acp_bridge`) | sessions: busy flag, prompt queue, generation, WS connections | ensure_session, prompt, cancel, kill, reaper, exit | registry, WebSocket handlers, database | turns racing with cancel, reaper and process exit |
| own agent runner (`agent/runner`, `session.rs`, `approval.rs`) | turn state, message history, approvals | turn, tool batch, approval, interrupt, compact | LLM gateway, tunnels | approvals racing with cancel, history after failure |
| LLM routing (`llm/breaker.rs`, `down.rs`, `route_cache.rs`, `pipeline.rs`) | breaker per model, negative cache, route cache | allow, record_success, record_failure, mark, invalidate | LLM handlers | single-flight probes, late outcomes, stale caches |
| LLM protocol adapters (`openai_handler`, `anthropic_handler`, `responses`, `format`, `upstream`) | stream conversion state | request and SSE conversion | router | pure data conversion |
| reverse proxy (`protocols/reverse_proxy`) | rules, shared listeners, reference counts | reconcile, route, proxy | tunnels, pki, LLM gateway | port sharing, reload while serving |
| Trojan, Shadowsocks (`protocols`) | listener task, users | accept, relay, restart | stats | restart with live connections |
| remote-control signalling (`server/control_plane/remote.rs`) | session table with TTL | connect, response, end, disconnect, reap | registry, RustDesk server | TTL racing the answer, re-registration |
| remote-control reliable stream (`remote/reliable.rs`) | ARQ: windows, sequence numbers, RTO, FIN | open, send, receive, retransmit, close | UDP socket, session layer | loss, duplication, reordering, close handshake |
| remote-control session, transfer, QoS, manager (`remote`) | handshake, AEAD counters, transfers, AIMD rate | start, frame, input, transfer, feedback | reliable stream, GUI | ordering of control and data, cancel |
| RustDesk rendezvous and relay (`rustdesk`) | peer table, punch requests, pairing of relay sockets | register, punch, pair | remote clients | pairing races, expiry |
| mesh, DNS (`server/net`) | routing table, zones | join, leave, resolve | control connections | mostly unused by the control handler |
| certificates (`pki`) | order state, storage, renewal | issue, renew, challenge | reverse proxy | renewal overlapping issue |
| knowledge base (`rag`, `wiki`) | documents with status, vector store | ingest, delete, retrieve | database, LLM | ingestion racing deletion |
| persistence (`persistence`) | SQLite tables | DAO functions | all | delegated to SQLite |
| statistics (`stats`) | counters, sessions | record, flush | proxies, tunnels | flush racing update |
| management API (`server/mgmt`) | dynamic configuration, log ring | REST handlers | all | request/response over the above |
| client reconnect, log ring, config (`client`) | back-off | next, reset | control connection | small |
| desktop client (`client-gui`) | input queue, reconnect machine, clipboard | UI state machines | remote manager | key-up after disconnect, desktop switch |
| Windows service (`win-service`, `win-platform`) | supervised instance | start, stop, respawn | desktop client | OS facilities |
| wiki desktop (`wiki-core`, `wiki-serve`, `wiki-desktop-ui`) | vault, index, JSON-RPC child | edit, rename, sync | codex process | atomic replace, watcher echo |
| frontend (`frontend`) | React UI | - | API | not modelled |
| vendored video codec (`vendor`) | - | - | - | third party |

The hazards of these components, each at its line, are listed in
`PROJECT.json` under `hazards` with the properties that watch over them.

For each component, what makes it correct:

- *registry*: an entry is backed by a handler that will remove it; whoever is
  told to go is out of the registry; nothing opened over a connection outlives it.
- *tunnels*: bytes arrive in order and without gaps, end of file means that all
  arrived, and whatever ends one end of a tunnel ends the other.
- *pumps*: no set of tasks waits for each other on full queues.
- *agent RPC, ACP bridge, runner*: an answer reaches the call it belongs to, a
  cancelled turn produces no effects, nothing stays busy for ever.
- *LLM routing*: a broken model is probed by one request at a time and comes
  back; a changed configuration takes effect.
- *remote control*: nobody is controlled without having agreed to this very
  session; sessions end at both ends; the stream delivers in order, once.
- *rendezvous and relay*: two sockets are paired only with each other.
- *reverse proxy*: a port is bound as long as some rule needs it, and no longer.
- *certificates, knowledge base, statistics*: no lost update between a periodic
  job and a request.

## 2. Plan

| Order | Module | Subject | Composes / abstract specification | State |
|---|---|---|---|---|
| 1 | `ClientRegistry`, `ClientRegistryProofs` | registry, handlers, agent sessions | - | done, four theorems |
| 2 | `Tunnel`, `TunnelProofs` | tunnels at both ends | each direction implements `Pipe` | done, two theorems |
| 3 | `LlmFailover`, `LlmFailoverProofs` | breakers, caches, failover | - | done, four theorems |
| 4 | `RemoteSessions`, `RemoteSessionsProofs` | signalling of remote control | - | done, four theorems |
| 5 | `Pipe`, `ReliableConn`, `ReliableConnProofs` | `remote/reliable.rs` | each direction implements `Pipe` | done, five theorems |
| 6 | `ControlPump` | queues and reader loops of both ends | with the load of `Tunnel`, `RemoteSessions`, `AcpSessions` | done |
| 7 | `AcpSessions`, `AcpSessionsProofs` | `agent/acp_bridge`: spawn, turns, cancel, reaper | over one of `ClientRegistry`'s connections | done, five theorems |
| 8 | `ProxyRules`, `ProxyRulesProofs` | rules, rows and shared listeners | - | done, three theorems |
| 9 | `RelayPairs`, `RelayPairsProofs` | pairing and copying of the RustDesk relay | - | done, three theorems |
| 10 | `RemoteManager` | the manager's locks, two threads | implements the client half of `RemoteSessions` | later |
| 11 | RustDesk service's runtime, Trojan's shared mode | `rustdesk_runtime.rs`, `trojan_runtime.rs` | - | later |
| 12 | agent RPC, approvals of the runner | `spawn_negotiate`, `agent/lib.rs:436-640` | - | later |

Every component gets one run with its safety and liveness properties on a small
instance; three sentences of the code's documentation that the code does not
keep have a run of their own.

## 3. Modules

Conventions. A `MODULE` models a component; `MC…` instantiates it for TLC;
`…Proofs` holds its theorems. One action per handler step: where the code awaits
(and other tasks may run), a step ends and a program counter says where the
handler goes on. An operator whose name begins with `Bug` is never used by the
specification: it is the faulty variant of the definition that follows it, kept
to show that a property can fail (section 4).

### ClientRegistry

`entries` is `ClientRegistry::entries` (a map from names to connections),
`hpc[c]` where `handle_client_connection` is for connection `c`, `live` the
clients that are still there, `notice[c]` a `Disconnect` under way, `acp[c]` the
agent session opened over `c`. `KickOld`, `Persist`, `Insert` are the steps of
`register()` between its awaits; `DropAcp` and `CleanUp` the clean-up, which
works by name and not by connection; `AdminKick` the administrator's `disconnect`.
The half-open connection is in the model: a client may vanish, or connect again,
long before its old handler sees the end of the stream. The reader has no time-out
(`server.rs:141`) and the socket no keepalive, so a vanished client (`silent`) is
noticed, as far as anything promises, only after something was written to it.

### Tunnel

Server: `sp[c]` is the state of `open_tunnel` and of the `ClientTunnelStream` it
returns, `active` and `slot` are `active_connections` and the pending
`open_result`, `inq` the stream's inbound channel, `srv` the reader loop (busy
when that channel is full). Client: `conn[c]` the entry in `connections`
(`Pending` with its buffer `buf`, or `Active`), `task[c]` the steps of
`handle_open_tunnel`, `rdr` the reader loop between its awaits, `handles` the
table of abort handles. A `Data` message carries its number instead of bytes, so
order, loss and duplication are visible and contents are not. Both directions
are bounded queues; `ConnectionLost` cuts off what is queued last. `eof[c]` and `leof[c]` are the ends
of file of the stream and of the local service: `clean` when a `Close` caused
them, `cut` otherwise; a local socket that fails cuts as well, and the tunnel stays. `TunnelsArePipes` maps each direction to `Pipe`, the
abstract specification below; the local service may only be told `clean` when it
has been given everything that was written to the stream. `TunnelProofs` proves
it (section 5).

### LlmFailover

`br[m]` is a model's breaker (consecutive failures, cooldown, time since it
opened, probe flag), `known` the negative cache, `db`, `cache`, `dirty` the
versions of the configuration and the generation test of `RouteCache`, `admin`
the management handler between its write, its invalidation and `clear_all`,
`req[s]` a request. The walk of `execute_with_failover` over candidates it skips
happens between two awaits and is one step, up to the next upstream call. Time
is counted in ticks, and an age stops growing when no comparison can tell it
from a larger one, which keeps the state finite without cutting time off.

### RemoteSessions

`table` and `party` are the server's `RemoteSessionTable`; `handler[c]` is where
the server's handler of client `c` is, with the snapshot of the session that it
took before an await; `up`, `down`, `link` are the control connection; `mgr[c]`
is the part of `RemoteManager` that decides about sessions: `active` with
`established`, `pending_grant`, `early_accept`, `pending_request`. A session that
the server reaped is `expired`: the TTL of a pending and the twelve hours of an
accepted session may pass at any moment, and take effect, as in the code, when
the next session is issued. Messages from a client are never dropped while its
connection is up, because of the manager's outbound back-log
(`manager.rs:826-876`). The data plane is one bit of each end, whether its
establish has returned, which asks nothing of the other end: the controller's
connection to the relay is not answered (`signaling.rs:712-717`), the direct one
meets an acceptor that always listens. `dialed` has the sessions in which the
controller's task has run; in any other nobody sends the target the Hello for which
it waits ten seconds (`controlled.rs:51`, action `HelloMissing`).
`said[s]` is a history variable. The server's handlers use the registry by name;
overlapping connections of one name are the subject of `ClientRegistry`, and a
client has one connection at a time here. A client does not ask for a session
with itself.

### Pipe and ReliableConn

`Pipe` is the abstract specification: a byte stream with one writer and one
reader. `ReliableConn` is `reliable.rs`: `conn[p]` is the `Conn` of end `p`
(send buffer, unacknowledged segments, received segments in and out of order,
windows, duplicate acknowledgements, retransmissions, FIN), `st[p]` its task,
`net` the datagrams under way, which may be lost, repeated and reordered. An
action is one round of `run_conn`'s loop. The refinement mapping hides
everything but the bytes written and read and how the reading ended: the property
`DirectionsArePipes` says that both directions implement `Pipe`. Sequence
numbers are modulo `SeqSpace`, and the instance starts just before the wrap.
What the code does in a loop over segments, `ReliableConn` says by what the loop
ends with (`Unacknowledged`, the `run` of `InOrderData`, the pieces `Pump` cuts),
and a sum of lengths is the size of a set (`Bytes`): so the proofs need no
recursion.

### AcpSessions

One session of the ACP bridge. `entry` is its `SpawnedAgent` in the table, `rows`
the stored queue, `step[m]` where the request that carries message `m` is,
`stage[n]` where the `n`-th attempt of `ensure_session` is, `turns` the requests
whose terminal callback has not run, `drains` the prompts that were taken from
the queue and are left to a task, `fallbacks` the tasks of a cancel, `ender` a
kill, a reaping or a lost client between two of its awaits; `procs`, `table` and
`exits` are the processes, the client's `SpawnManager` and its messages. The code
keys everything by the session's id, so a late task may act on a later
entry; the history variable `stale` records that this has happened, and
the properties are claimed for behaviours in which it has not (section 6 says
what happens in the others). Messages are numbered in the order of their arrival.
`Pick` is the filter of `restore_pending_prompts` and what a `DELETE` leaves; it is a
recursive function so that the proofs can speak about it.

### ControlPump

`down[k]` and `up[k]` are the queues of client `k`'s control connection with the wire
behind them, `srv[k]` the sends that the server's reader has before it, `cli[k]`
what the client's reader waits for, `inbound` and `socket` what waits for the
user of the tunnel and for the local service, `parked` the users whose
`poll_write` met a full queue. A broadcast (`announce`) and the signals of remote control
(`Signals`) go to other clients' queues. Messages have a kind and no content. Nothing is
opened, closed or lost here: that is in `Tunnel`.

### ProxyRules

`db` is the table `proxy_rules`, `rules` `ReverseProxyState::rules`,
`listeners[p]` the routing table of the shared listener on port `p`. `task[h]` is
a request of the management API between its awaits: it writes the row, then the
memory, then reconciles ports under their locks, and takes the change back when
the rule's own port cannot be reconciled. `Snapshot`, `Stop` and `Apply` are
`reconcile_http_listener`: the copy of the rules, the old listener that is taken out
and waited for, then `Results`, the hot swap or the new listener and the three
errors. `Drop` is a caller that disconnects: axum drops the handler at the
await where it is, with the lock, and nobody does the rest. `refresh` is the
reactor to certificate events. `Restart` loses everything but the rows, and goes on
without rules in memory when they cannot be loaded; `Boot` is the start's
reconciliation, which may switch rules off, in the database only where it can.
`missed` and `contested` are history variables, and both heal. A port is `missed`
from a reconciliation that failed or was dropped, or a change of its rules that none
follows, until its rules are copied again. A rule is `contested` from
two tasks that write it at once, a write that failed or was dropped after the first
of the two, or a failed load, until a request writes it alone (or a restart reads the
rows). Boot's switching off of several rules is one step.

### RelayPairs

`serving` is `RelayServer::serve`, `task[c]` where `handle_connection` is for
connection `c`, `pending` the table of waiting connections, `active` the counter
that `ActivePairGuard` keeps. `Lookup` and `Insert` are the two critical sections;
`Expire` is the timer of the pair window, which acts by uuid. A pair is known by
the task of the connection that came second: `first[c]` is its partner,
`carried[c]` the buffer that this task is writing out, item by item, as long as
the other socket has room (`Put`); while it writes it does not look at the ticker
(`IdleTick`). What a client writes is numbered, so that order, gaps and losses
show: `left[c]` came in one read with the handshake, `taken[c]` was read so far,
`toward[c]` is the socket to `c`, `got[c]` what `c` has read. There are no clocks:
a waiting connection's timer may fire at any moment, and `quiet` says
that the idle time has passed since the last activity, which may be so at any
moment too. Clients write, read and leave as they like. `Stop` is the end of
`serve`, which aborts all tasks where they wait.

## 4. Runs

| Run | Instance | Shows |
|---|---|---|
| `registry` | 2 names, 2 connections, 2 kicks | `EntryHasHandler`, `NoticeAfterRemoval`, `NoOrphanSession`, `DeadEntryIsRemoved` |
| `registry_cleanup_by_name` | 1 name, 2 connections | violated: `LiveSessionIsKept` |
| `tunnel` | 1 tunnel, queues and dial buffer of 2, inbound channel of 1, 3 messages each way | `TunnelsArePipes`, `NobodyHangs`, `EndedTunnelIsGone` |
| `llm_failover` | 2 requests, 2 models of one provider, threshold 2, one edit | `ProbeIsDue`, `FreshSnapshot`, `CooldownSteps`, `OrphanProbeIsReclaimed` |
| `remote_sessions` | 2 clients, 2 requests of one of them, 1 trouble | `ConfirmationGate`, `AnswerIsFinal`, `EndedStaysEnded`, `PlaceholderEnds`, `EndReachesPeer` |
| `reliable` | one end writes 3 bytes, receive window 2, 1 fault, numbers modulo 8 from 7 | `BufferIsBounded`, `AckedIsReceived`, `DirectionsArePipes`, `WrittenIsRead` |
| `reliable_acked` | both ends write 2 bytes, 1 fault | violated: `AckedIsReceived` |
| `acp_sessions` | 3 messages, queue of 1, 2 spawns, 1 fault | `OneTurnAtATime`, `AtMostOnce`, `QueuedIsStored`, `QueueMovesOn`, `CancelEndsTurn` |
| `control_pump` | 2 clients (tunnel and agent; remote control), queues and sockets of 1 | `ReadersReturn` |
| `pump_backpressure` | 1 client with a tunnel, queue of 2 | violated: `BackPressureEnds` |
| `proxy_rules` | 2 ports, 5 contents, 3 requests, 2 at a time, 1 fault, with or without a certificate manager | `ServedAsRulesSay`, `StoredAsRulesSay` |
| `relay` | 3 connections that write 2, 1 and no items, one uuid, sockets with room for 1, a stop | `PairsAreExact`, `Relayed`, `NobodyStays` |

The passing runs check `TypeOK` as well. Every property of a passing run has a
seeded fault (`mutants` in `PROJECT.json`): with the `Bug…` variant in place of
the definition it stands before, TLC finds that property violated.

Why the bounds are enough:

- `registry`: the races are between one connection and one that replaces it;
  with two names and free choice of the name both the same-name and the
  different-name case occur. A third connection adds a second replacement. The
  safety properties are proved for any number.
- `tunnel`: with an inbound channel of one and a dial buffer of two, three
  messages fill, overflow and drain each of them. Tunnels only share the two
  queues; an instance with two tunnels (queues of one, no dial buffer, one message each way, 4.5 million states)
  satisfies the order and the end of file that `TunnelsArePipes` asks for.
- `llm_failover`: two requests are needed for an outcome that is late with
  respect to a probe, a shared model in two chains for a probe taken by another
  group. The cooldown's maximum equals its base, so the cap is always in play;
  the doubling for all values is part of the theorem `CooldownsStep`.
- `remote_sessions`: two requests of one client give a session that is replaced
  and every message that is late for it; a trouble is a lost connection or a
  user's abort or a switched-off permission. With both clients requesting
  (495 thousand states) the same properties hold. `MaxRequests` and
  `MaxTroubles` bound nothing else.
- `reliable`: three segments and a window of two fill the window, leave a hole
  and wrap the numbers; a fault is a lost or repeated datagram or a timer that
  expires early, and reordering is free. The congestion window takes any value
  from its floor up. When both ends write, `AckedIsReceived` fails (run
  `reliable_acked`), and with it that all that is written is read: the segment that
  the peer has forgotten is waited for, for ever, or until a retransmission of
  something else runs out of its budget. `WrittenIsRead` therefore has
  `AckedIsReceived` as its premise, which the one-way instance always meets; the
  instance in which both ends write one byte and close (298 thousand states within the
  constraint `AckedIsReceived`) satisfies all the other properties and this one.
- `acp_sessions`: three tabs, so that one turn runs, one prompt waits and one is
  refused or dispatched; two attempts, so that an entry has a successor; a fault
  is a cancel, a kill, a reaping, a lost client or a restart. The instance
  does not go on from states in which `stale` is set (a `CONSTRAINT`), as every
  property exempts them. With two faults and two messages the same properties hold.
- `control_pump`: with queues of one every send may wait. Two clients, as a reader
  also sends to other clients' queues: in a broadcast, and when it signals for remote
  control (`remote.rs:361`, `429`, `446`, `511`, `562`), which both clients do here.
- `proxy_rules`: three requests are one that sets the scene and two that
  overlap. The contents collide by domain and by TLS, move between ports,
  are of another kind, and are switched off. `MaxAsked` bounds the requests,
  `MaxRules` the rules that are created, `MaxFaults` the restarts, failed
  writes, failed binds and dropped requests. With two faults (4.0 million states) the
  same properties hold.
- `relay`: three connections of one uuid are a pair and a third that finds the
  table empty, full or about to be emptied by a timer; two uuids do not meet.
  Two items let a left-over, a read of several and a full socket follow each other.
  The safety properties are proved for any numbers.

Deadlock is not checked: in all modules everything may come to rest (no more
connections, tunnels, edits, requests, bytes, messages or changes of rules;
no more clients of the relay).

### Fairness

- `ClientRegistry`: handlers run (the runtime schedules every task), a client
  that was told to go closes, a socket that was closed is noticed, a vanished client
  once something was written to it (TCP gives up resending); nothing is assumed of
  users, administrators or of the moment a client dies. `DeadEntryIsRemoved`
  exempts the vanished client to whom nobody writes (section 6).
- `Tunnel`: tasks and reader loops run, timers of `open_tunnel` and of the dial
  fire, whoever holds a stream reads it (both copy loops do). Not assumed: that
  local services send, answer or close, that writers write, that the connection
  is lost or stays.
- `LlmFailover`: time passes; an upstream call ends, at the latest by the HTTP
  client's timeout; loads finish; requests for every chain keep coming, and not
  all of them are dropped by their callers during a load (hence strong fairness
  of `Serve`). A caller may go away at any other time.
- `RemoteSessions`: server tasks and the client's reader run; the timers of
  approval, of waiting and of establish fire, and the target's for a Hello that
  nobody sends. An established session need not end otherwise, a user need not click. As the behaviours of the instance are finite
  (requests and troubles are bounded), weak fairness of the disjunction of these
  steps says the same as weak fairness of each, and is cheaper to check.

- `ReliableConn`: both tasks run, timers expire while they are armed, a datagram
  that is not lost arrives, and applications keep reading. Nothing is assumed of
  writing, closing or of faults, of which there are finitely many.
- `ControlPump`: the loops run; a full queue serves those who wait for it in turn
  (tokio's semaphore is first come, first served), hence strong fairness of the
  sends; what reaches a user or a local service is read. Nobody has to send.
- `AcpSessions`: tasks and callbacks are polled, the grace period elapses, an
  exit is handled, a process that was told to end dies, a closed connection ends
  its turns. The agent need not answer and nobody need act; behaviours are
  finite, so one weak fairness of the disjunction is enough.
- `RelayPairs`: tasks run, timers fire, the idle time passes when nothing flows,
  an abort takes effect. Clients need not write, read or leave, and nobody has to
  stop the relay. The second half of `NobodyStays` has a premise instead: both
  clients take what is written to them, without which a pair may last for ever
  (section 6).
- `ProxyRules` has safety properties only.

## 5. Proofs

TLAPS proves for every value of the constants, under the modules' named
assumptions:

- `ClientRegistryProofs`: `TypeCorrect`, `EntriesAreServed`,
  `NoticesFollowRemoval`, `NoSessionIsOrphaned`. None but the first is inductive
  alone. That a notice follows the removal needs that entries belong to handlers
  past their insertion; that a session is not orphaned needs `FreshIsClean`: a
  connection before its insertion has neither a notice nor a session. The
  invariant is the conjunction; each step lemma treats one action.
- `LlmFailoverProofs`: `TypeCorrect`, `ProbesAreDue`, `SnapshotsAreFresh`,
  `CooldownsStep`. The invariant adds `LoadIsCurrent` to the checked ones: a
  load under way has read the database's version, unless an edit is between its
  write and its invalidation (or lost it); this is what makes the write lock
  held during a load sufficient. A recursive walk would be out of the prover's
  reach; `Walk` therefore names the next admissible position, and the lemma
  `WalkMoves` says that such a step takes or leaves one breaker at a time. It
  needs that a chain names no model twice (`ChainsAssumption`, the database's
  key on group and model). The action property follows from the same lemmas.

- `RemoteSessionsProofs`: `TypeCorrect`, `GateHolds`, `AnswersAreFinal`,
  `EndedStayEnded`, with two parts besides the types. `Questions`: the question about a session
  exists at one place (the controller's handler, the target's queue, the
  target's pending request), once, and only while the session is unanswered; an
  answer removes it, so nobody can answer again. `Affirmed`: wherever a yes for
  `s` is found (in a queue, in the server's handler, as an early acceptance, in a
  running session) `said[s]` is yes. The second is inductive because the first
  makes answers final. Steps are treated by two lemmas, `ServerStep` and
  `ClientStep`, which say what a step of either side may do to the queues.
  That an entry stays removed needs the types alone: only `Issue` enters a
  session, one that was never issued; every later handler looks for the entry first.
  That who still has a task in a removed session is told
  needs `Closed`: a session is granted once (`Grants`); the controller is in a
  session only after its grant, the target only after its yes, and who leaves
  does not enter again (`Roles`); who is offline knows nothing (`Routes`); a no
  is the target's (`Refusals`); who tells of an end has removed the entry, and
  in the controller's queue the acceptance is before the end (`Endings`). Then a
  removed session that its controller might still start has its end on the way
  to him and its target outside (`Closing`), so a controller's task that starts
  late starts with the end behind it. For the target, `NewsKept` says that no step
  loses an end that is on its way to who is inside, and that who removes the entry
  tells; it is an invariant only of the sessions in `dialed` (`Dials`), as a target
  may accept after it was told. `ServerFits` and
  `ClientFits` name what a step of a handler and of a manager may do to queues,
  handlers and entries; each action is shown to fit, and `HandleEnds`,
  `ServerEnds` and `ClientEnds` do the rest once for all of them.
- `TunnelProofs`: `TypeCorrect`, `TunnelsImplementPipes`. The invariant
  `TunnelInv` has the types, `LoopKept` of the reader loop and six parts (`Kept`)
  of each tunnel. `OpenedOnce`: an id is opened by one
  message, once, and the two state machines agree on how far it got.
  `TableKept`: what the client's table may hold in each state, and that what the
  service has got is the numbers from 1 on. `DownInLine`: unless the service has
  seen its end, the data queued for it go on without a gap where it stands
  (`Served`), while the connection is up as far as the stream has written, and
  before a Close in any case. `UpInLine` and `StreamKept` say the same of the
  other direction, where one message may be in the hands of the reader loop. `FailedIsDead`: a tunnel that failed at the client sends no
  Close, so that the end of file it causes is never taken for a clean one.
  A clean end comes from a Close, hence after all data: the refinement's only
  difficult step. One queue carries all tunnels; the module's first part therefore says
  once what a queue means to one tunnel, and how sending a message, taking the
  head and losing the tail keep it (`Sends`, `SendsData`, `Takes`, `Loses`); the
  step lemmas use these and never look into a queue. The steps of the
  refinement, `ServiceStep` and `ReaderStep`, then follow action by action.
- `ProxyRulesProofs`: `TypeCorrect`, `PortsAreServed`, `RowsAreKept`. A port's
  table is as the rules say because whoever changes a rule still has the port's
  reconciliation before it, one request at a time reconciles (`LocksExclude`),
  and what it has read of the rules is current or will be read again
  (`SnapsAreCurrent`; `BootIsAlone` for the start). A listener that stops is still
  followed by the task that stops it, and a dropped task leaves what it followed in
  `missed`. For the rows, a rule that is not `contested` has one
  writer (`WritersAreAlone`), and that writer is still on its way
  (`WritersAreOnTheirWay`): its program counter says which of row and memory it has
  written. That is why a rule ceases to be contested with the first write of a task
  that is alone, whatever row and memory held before (`TaskStepRows`).
- `RelayPairsProofs`: `TypeCorrect`, `PairsStayExact`, `PairsRelay`. That a socket
  has one owner rests on `Placed` (who waits inserted itself, under its own uuid,
  and is asleep) and `Matched` (the first of a pair waits nowhere and has one
  partner). It survives the two critical sections because the insertion only
  ever overwrites. The count of pairs is the cardinality of their set, which every way of
  ending lowers by one. `Relayed` speaks of living pairs only; `DataInv` adds
  what holds before: who has no partner yet has been forwarded nothing
  (`Fresh`), left-overs are taken up as a whole (`LeftIs`), and `Flow`, direction
  by direction, with the stage at which each left-over goes. Moving an item from
  the buffer to the socket, or from the socket to the reader, leaves the
  concatenation as it is (`PutKeeps`, `ReadKeeps`), and a read continues the numbers (`NumbersGoOn`);
  another pair's sockets are others (`OthersAreElsewhere`).
- `AcpSessionsProofs`: `TypeCorrect`, `OneTurn`, `SentOnceAtMost`,
  `QueueIsStored`, `QueueMoves`. None of the four properties is inductive, and
  the parts they need hold only until a task acts on a successor of its entry
  (`stale`): `IInv` has the types, `Absent` and `Processes`, which always hold,
  and four parts under `~stale`. `Lineage`: only an attempt that is done has
  messages, prompts and turns, and all of them are on its own entry and
  connection; hence a turn's connection tells its entry, and a new attempt
  starts with nothing under way. `Lock`: unless the end of the process is decided,
  at most one turn or prompt under way belongs to an entry, and none when it is
  not busy; `busy` is this lock, handed from turn to prompt to turn.
  `Moves` is `QueueMovesOn` by entries instead of connections. `Copies` says where a
  message may be: before it comes to the queue nowhere, then in the queue and
  in the table together (when its row was written), then on its way, first with
  its row and then without, then sent; no sequence has it twice; and what
  an attempt has listed but not restored is still in the table. Why a restart or
  a restored queue cannot send a message again is thus one conjunct of
  `UnderWay`: a prompt that may be sent next has no row left. Two lemmas treat most
  steps (`CopiesStay`, for what moves no message, and `QueueKeepsCopies`, for a new queue that
  `Fits`), six those that move one. `WithoutIs` and `KeptIs` say what deleting a row and
  keeping what has no row do, from `Picked`: what `Pick` returns has a place in
  the sequence for each element, in order, and leaves nothing out. That is an
  induction; the library's theorems for it take an operator, but `Induct`, for a set of
  numbers, follows from its well-founded relations and serves as well.

- `ReliableConnProofs`: `SeqAfterOrders`, `TypeCorrect`, `Bounded`, `Pipes`, `AckedOneWay`.
  `SeqAfterOrders`: `seq_after` agrees with the order of segments less than half the space
  apart, around the wrap; it is what the pop of acknowledged segments and the test
  for old data rest on. `TypeCorrect` and `Bounded` follow
  from `TypeInv`: the types, the window (`Sound`), and that a task that runs has not
  failed (`Alive`). For the refinement, `PipeInv` adds `Streams`. In each
  direction, `N` segments have been numbered so far, and `f` says where they lie:
  segment `k` is the bytes from `f[k] + 1` to `f[k + 1]`. `Sender`: the send
  buffer is the stretch from `f[N]` to the last byte written, and whatever is
  unacknowledged or in flight is `Told`, that is, carries the number of its
  place and the bytes that lie there. `Receiver`: `R` segments were taken in order,
  what waits for the application `Follows` what it has read, up to `f[R]`, and
  what is held back lies where its number says; a FIN has the number after the
  last segment. `N` and `f` only grow (`Grows`), so a datagram once told stays
  true however late it comes. A clean end of file (`Eofs`) needs the FIN's number to
  be reached, hence all bytes. The acknowledgement field plays no part in it:
  a wrong one (finding 2) makes the sender forget segments, which stops
  the stream but does not falsify it. `RoundSteps` treats the common
  end of all actions, a round of the loop; the other step lemmas
  say what an event does before the round. `Pipes` has one hypothesis,
  `ShortStream`: with more segments than half the numbers, an old datagram that the
  network repeats has the number of a later one, and nothing in the protocol
  could tell them apart. It bounds bytes, and no segment is empty. With numbers
  of 32 bits this is 2 GiB at the least; `MCReliableConn` has it as an `ASSUME`,
  so it holds of the instance that is checked. `PipeInv` quantifies over all
  marks `f` and cannot be evaluated by TLC; its proof is its only check.

  `AckedOneWay` is about that field: `AckedIsReceived` holds when one end writes nothing,
  the most that is true (finding 2; the run `reliable` is such an instance).
  `AckInv` counts: the writer has forgotten `b` segments,
  its peer has taken `R`, and `b <= R`. `Counted`: what the writer still keeps are the
  segments from `b` on, each in its place. `AckOf`: a datagram to the
  writer acknowledges at most `R` segments; for that the
  peer must be `Idle`, that is, have sent nothing numbered but its FIN, as otherwise
  the numbers of its own segments (`Backs`) would go out as acknowledgements. The writer's
  data acknowledges in turn the wrong thing, but only a FIN can be forgotten by it,
  which has no bytes. `StreamMeets` ties this `R` to that of `Streams`, and
  `BytesIs` counts the bytes of pieces that follow each other, by a bijection between
  the set whose cardinality `Bytes` takes and the bytes' places in the stream.

What the proofs assume of the constants are the named `ASSUME`s of the modules:
non-empty sets, natural numbers as bounds, and for the LLM chains and the
callers the conditions mentioned. Nothing is assumed of their size.

Only model-checked: all liveness properties (liveness under fairness and
`ENABLED` are out of the prover's reach), and `ControlPump` altogether, which
promises nothing but its types and a liveness property.
`AckedIsReceived` of `ReliableConn` is no theorem of its specification without
the hypothesis that one end writes nothing: the run `reliable_acked` refutes it.

## 6. Where the code differs from what it says

Each is a run that ends in a counterexample, with the quoted text in
`PROJECT.json` under `findings`.

1. `registry_cleanup_by_name`: the late clean-up of a replaced connection works
   by name and takes down the connection that replaced it.
2. `reliable_acked`: data segments carry the sender's own `send_base` as
   acknowledgement, so as soon as both ends send, segments are forgotten that
   never arrived.
3. `pump_backpressure`: nothing wakes a writer who met a full control queue.

Other observations, found while modelling and checking; the models have the
steps, but no run is kept for them.

Registry and tunnels:

- A client that leaves before it was sent `RegisterResponse` stays registered
  until a client of its name registers again (`server.rs:110` returns before the
  clean-up).
- Two overlapping `register()` calls of one name: the later insert overwrites
  the earlier entry (`client_registry.rs:230` ignores what `insert` returns);
  that client is served on, unregistered, and never told.
- A client that vanishes without closing its socket, and to whom nobody writes
  after that, stays registered for ever: the reader waits without a time-out
  (`server.rs:141`), and no keepalive is set. One that connects again under its name replaces it.
- A tunnel whose opening timed out at the server goes on at the client: no
  `Close` is sent (`client_registry.rs:347`), although `control.rs:534-535`
  says that no orphan tasks are left.
- A tunnel closed by the server is never removed from `active_connections`, and
  a stream that was only shut down never reads end of file (`control.rs:331`).
- `poll_shutdown` on a full queue loses its `Close`, and drop sends none because
  the stream counts as closed (`tunnel_stream.rs:210`).
- The client answers `ok` before it activates the connection
  (`proxy.rs:46`): data and a `Close` that arrive in between are dropped with the
  buffer. A late `fail` after `ok` removes the entry of an open stream
  (`server.rs:184`). `is_finished` is tested before the lock is awaited
  (`control.rs:240`), so the handle of a task that ends in between stays.

Control pumps:

- The two readers can wait for each other for ever: the server's sends `Pong`
  from within, the client's `AgentLlmProxyReady` and the failure of an
  overflowing tunnel. Hence the premise of `ReadersReturn`.
- The client's reader writes to the local service itself, so one slow service
  holds up all tunnels, although `control.rs:340-342` says that it avoids
  head-of-line blocking (the table's lock is free, the reader is not).
- A client that stops reading blocks everybody who calls
  `broadcast_remote_peer_list`; two broadcasts may reach a client in the wrong
  order.

LLM routing:

- A request that was sent before the breaker opened closes the open breaker when
  it succeeds late, and counts as the probe's failure when it fails late
  (`breaker.rs:121`), although `breaker.rs:4-5` leaves that to the probe.
- A probe answered with 401, 403 or 404 leaves the probe flag set until it is
  stale (`upstream.rs:898`), although `breaker.rs:120` counts a 4xx as success.
- A management request that is dropped between its write and the invalidation
  leaves the old configuration in use (`mgmt/api/llm.rs:338`). A request that
  still uses the old key is refused after `clear_all` and marks the corrected
  provider as failing for the TTL (`upstream.rs:908`).

Remote control:

- A left-over `early_accept` makes the denial of a later request end an
  established session (`manager.rs:1056`).
- An end that comes while the target still asks its user does not take the question
  away (`manager.rs:997-1037` leaves `pending_request`): a user who approves then
  starts a session that is over, which ends when no Hello comes.
- With both clients calling: a's waiting time-out gives up session 1 without a
  message, b's acceptance is marked, then the denial of b's own request ends b's
  half-built session 1, again without a message (`deny_unissued_request` does
  not look at the role). The entry stays `accepted` until one of the two
  disconnects, or for twelve hours.
- `ReliableConn`: over a link that loses nothing, a reader that pauses can make
  the sender give the connection up, when segments fill the receiver's buffer
  exactly and the segment that fills a hole is refused (`reliable.rs:605`). The
  task ends on `app_eof && fin_acked`, so half-close (`reliable.rs:935`) does not
  work as described. A fast retransmission of a FIN drops its flag. A FIN that
  was held back is not consumed when data arrive in order without draining it. A
  reader cannot tell a fatal error from a clean end of file.

RustDesk service:

- The relay asks and writes its table in two critical sections (`relay.rs:258`,
  `265`): two ends that arrive at once both wait, and the second insert drops the
  first. A waiter's timer removes by uuid (`relay.rs:271`), hence also a later
  waiter of the uuid, before its time.
- The relay's `write_all` is awaited inside an arm of the select, where the ticker is
  not polled: a pair whose one end stops reading is not closed for idleness,
  although `relay.rs:68` gives the timeout without exception. Hence the premise
  in `NobodyStays`.
- The service's runtime (read, not modelled) does not serialise the applications
  of its settings (`rustdesk_runtime.rs:179`, `199`, `208`). Two requests that
  overlap may make one's bind fail on the ports the service itself holds, although
  `rustdesk_runtime.rs:99-101` says that stopping first leaves no such race, or leave
  the status `listening` with nothing listening. An accept error ends a listener while the status stays.

ACP bridge:

- A prompt that the end of a turn takes from the queue, and whose row it deletes,
  is lost when the process ends before the prompt is sent (`prompt.rs:224`),
  although `mod.rs:93-95` says that queued prompts survive the process.
- A failed or timed-out handshake leaves its process running. The retry's spawn
  makes the client kill it, and its `AgentSpawnExit`, which names the session
  only, closes the entry of the retry (`client_msg.rs:100`), whose handshake
  then fails in its turn.
- A turn that begins between the unlock of a cancel's fallback and its kill is
  killed though nobody cancelled it; so is one whose generation a cancel in the
  gap between two turns recorded (`prompt.rs:458-459`).
- A prompt may run twice when `ensure_session` restores its row between the
  `INSERT` and the push, or before the `DELETE`.
- Tasks that act on the successor of their entry (what `stale` records): a late
  terminal callback takes the migrated queue of an entry without a connection
  and leaves it busy; `ready`, the connection and `agent_io` are written to a
  later entry (`lifecycle.rs:409`); a kill or a failed spawn removes it
  (`kill.rs:52`, `lifecycle.rs:361`); the output of the old process goes to the
  new entry; a late callback wakes the fallback of a cancel of the new entry, so
  that the agent that ignores this cancel is not killed. Without the exemption
  `OneTurnAtATime`, `AtMostOnce`, `QueuedIsStored`, `QueueMovesOn` and
  `CancelEndsTurn` fail.
- The limit of the queue is tested in the first critical section only; two tabs
  that both see an idle session get one turn and one error.

Agent RPC (read, not modelled):

- The requests in flight are kept per workspace (`agent/lib.rs:665`), so stopping
  the turn of one session cancels the commands of another session of that
  workspace as well (`ws.rs:1494`).
- `agent_exec` holds on to the entry it found: a connection that is lost while a
  command runs is noticed at the timeout only, although the comment at
  `client_registry.rs:444` speaks of a disconnect. The cancel after a timeout is
  gated by that entry's client version but sent by name to whichever connection
  is registered by then.

Reverse proxy:

- An update that turns an http rule into another kind on the same port, a gateway
  that moves to another port, an llm rule written by the rules' API, and the
  rollback of a create are not followed by a reconciliation: the old table is
  served until something else reconciles the port, or until a restart.
- Two updates of one rule, each with the `previous` it read first, may leave an
  old port serving, and row and memory different. A refresh of certificate
  states may write back the row of a deleted rule (`state.rs:368`).
- When TLS is switched, the old listener is stopped before the new one is bound:
  a failed bind or a missing certificate manager leaves the port off line.
- A request whose caller disconnects is dropped where it waits. Between row and
  memory (`reverse_proxy.rs:277-288`, `377-399`) it leaves the two different, until
  another request writes the rule or a restart makes the row count; within the
  reconciliation (`shared_listener.rs:418`) it leaves the port without a listener,
  until another request reconciles it.
- When the rules cannot be loaded at a start (`bin/server.rs:348`) the server runs
  without any; a PUT of one of them is then answered with 404.
- At a start only http rules are switched off to resolve a conflict; one
  between an llm rule and the gateway leaves the port off line.

## 7. Not modelled

Section 1's components without a module, for the reasons given in
`PROJECT.json`. Of the modelled ones: contents of messages, the mappings summary
and the contents of peer lists, PTY tunnels,
`update_gateway_config` of the LLM state (a new `LlmState`), several management
handlers of the LLM configuration at once (a bound of `LlmFailover`), the locks
inside `RemoteManager` (each command or message is one step), the encryption,
codecs and media of the data planes; of the reliable stream RST, which nothing
sends, the estimate of the round-trip time and the rules by which the congestion
window grows; of the ACP bridge the frames to the tabs, stored output, options
and approvals, a handshake that times out after the agent has answered, and
`prompt_inner`'s two critical sections around a send that fails (one step here);
of the pumps log batches, command execution and several tunnels of a client; of
the reverse proxy requests and their routing, Trojan's shared mode, the TCP and
UDP listeners, which nothing starts, and ACME; of the RustDesk service the
rendezvous protocol, the runtime that starts and stops it, and the relay's
counters of rejections and bytes.
