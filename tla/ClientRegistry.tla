--------------------------- MODULE ClientRegistry ---------------------------
(***************************************************************************)
(* The server's registry of connected clients and the life of the control  *)
(* connections that feed it:                                               *)
(*   crates/server/src/control_plane/client_registry.rs  (ClientRegistry)  *)
(*   crates/server/src/control_plane/server.rs  (handle_client_connection) *)
(*                                                                         *)
(* Every accepted control connection c runs one handler task.  hpc[c] is   *)
(* its program counter; each label is an await point of the code, so the   *)
(* handlers of several connections of one name interleave exactly at the   *)
(* awaits.  The registry is keyed by client name, and an entry is          *)
(* identified here by the connection that inserted it (in the code: by its *)
(* control_sender).  A control channel carries many messages; the registry *)
(* only depends on Disconnect, whose way to the client is notice[c].       *)
(***************************************************************************)
EXTENDS Naturals

CONSTANTS
  Names,       \* client names, the registry's key
  Conns,       \* control connections; each is accepted at most once
  NoConn,      \* "no entry under this name"
  MaxKicks     \* bound: how often the administrator kicks

ASSUME NoConnAssumption == NoConn \notin Conns
ASSUME MaxKicksAssumption == MaxKicks \in Nat

HandlerPcs == {"free",        \* not accepted yet
               "auth",        \* Register read, register() is loading the token
               "kick",        \* authenticated, about to drop the old entry
               "persist",     \* old entry dropped, UPSERT in flight
               "insert",      \* row written, about to insert the new entry
               "respond",     \* entry inserted, writing RegisterResponse
               "serve",       \* reader loop
               "dropAcp",     \* loop over: drop the client's ACP sessions
               "disconnect",  \* then disconnect(name)
               "rejected",    \* returned before an entry was inserted
               "aborted",     \* RegisterResponse not written: returned at the ?
               "done"}        \* returned after the clean-up

VARIABLES
  entries,     \* entries[n]: connection whose entry is registered under n
  hpc,         \* hpc[c]: where c's handler is
  cname,       \* cname[c]: the name c registers with
  live,        \* connections whose client end is open
  silent,      \* clients that vanished, and nothing written to them since: the
               \* server's TCP has nothing that could fail (half-open)
  notice,      \* notice[c]: Disconnect to c's client: none, sent or read
  acp,         \* acp[c]: the ACP session opened over c: none, spawning or up
  kicks        \* number of administrator kicks so far

vars == <<entries, hpc, cname, live, silent, notice, acp, kicks>>

Registered(c) == entries[cname[c]] = c
Served(c) == hpc[c] \in {"serve", "dropAcp", "disconnect", "done"}

TypeOK ==
  /\ entries \in [Names -> Conns \cup {NoConn}]
  /\ hpc \in [Conns -> HandlerPcs]
  /\ cname \in [Conns -> Names]
  /\ live \in SUBSET Conns
  /\ silent \in SUBSET Conns
  /\ notice \in [Conns -> {"none", "sent", "read"}]
  /\ acp \in [Conns -> {"none", "spawning", "up"}]
  /\ kicks \in Nat

Init ==
  /\ entries = [n \in Names |-> NoConn]
  /\ hpc = [c \in Conns |-> "free"]
  /\ cname \in [Conns -> Names]
  /\ live = {}
  /\ silent = {}
  /\ notice = [c \in Conns |-> "none"]
  /\ acp = [c \in Conns |-> "none"]
  /\ kicks = 0

-----------------------------------------------------------------------------
(* The connection's handler, step by step.                                 *)

Goto(c, from, to) ==
  /\ hpc[c] = from
  /\ hpc' = [hpc EXCEPT ![c] = to]

\* A client connects and its first message, Register, is read.
Accept(c) ==
  /\ Goto(c, "free", "auth")
  /\ live' = live \cup {c}
  /\ UNCHANGED <<entries, cname, silent, notice, acp, kicks>>

\* The stored token matches (or not: no entry, no clean-up, just a refusal).
Authenticate(c) ==
  /\ Goto(c, "auth", "kick") \/ Goto(c, "auth", "rejected")
  /\ UNCHANGED <<entries, cname, live, silent, notice, acp, kicks>>

\* Seeded fault: Disconnect is sent, the entry is left in the table.
BugRemoveEntry(n) ==
  /\ entries' = entries
  /\ silent' = silent \ {entries[n]}
  /\ notice' = [d \in Conns |-> IF entries[n] = d THEN "sent" ELSE notice[d]]

\* The entry registered under n, if any, is taken out and sent a Disconnect
\* (which a vanished client never acknowledges: the server's TCP gives up).
RemoveEntry(n) ==
  /\ entries' = [entries EXCEPT ![n] = NoConn]
  /\ silent' = silent \ {entries[n]}
  /\ notice' = [d \in Conns |-> IF entries[n] = d THEN "sent" ELSE notice[d]]

\* Step 2 of register(): drop the entry of the same name ("replaced").
KickOld(c) ==
  /\ Goto(c, "kick", "persist")
  /\ RemoveEntry(cname[c])
  /\ UNCHANGED <<cname, live, acp, kicks>>

\* Step 3: the client's row is written; a database error refuses the client.
Persist(c) ==
  /\ Goto(c, "persist", "insert") \/ Goto(c, "persist", "rejected")
  /\ UNCHANGED <<entries, cname, live, silent, notice, acp, kicks>>

\* Step 4: insert the new entry, whatever is registered under the name by now.
Insert(c) ==
  /\ Goto(c, "insert", "respond")
  /\ entries' = [entries EXCEPT ![cname[c]] = c]
  /\ UNCHANGED <<cname, live, silent, notice, acp, kicks>>

\* RegisterResponse is written, or the write fails because the client is gone
\* and the handler returns at the `?`, without the clean-up.
Respond(c) ==
  /\ \/ Goto(c, "respond", "serve")
     \/ c \notin live /\ Goto(c, "respond", "aborted")
  /\ silent' = silent \ {c}
  /\ UNCHANGED <<entries, cname, live, notice, acp, kicks>>

\* Seeded fault: an undecodable frame returns at a `?`, like Respond.
BugEof(c) ==
  /\ Goto(c, "serve", "dropAcp") \/ Goto(c, "serve", "aborted")
  /\ UNCHANGED <<entries, cname, live, silent, notice, acp, kicks>>

\* The reader loop ends, because the client has closed its end or because a
\* frame cannot be decoded.
Eof(c) ==
  /\ Goto(c, "serve", "dropAcp")
  /\ UNCHANGED <<entries, cname, live, silent, notice, acp, kicks>>

\* Seeded fault: the sessions' records are removed and looked up afterwards.
BugDropAcp(c) ==
  /\ Goto(c, "dropAcp", "disconnect")
  /\ acp' = [d \in {e \in Conns : cname[e] # cname[c]} |-> acp[d]]
  /\ UNCHANGED <<entries, cname, live, silent, notice, kicks>>

\* drop_client_sessions(name): every ACP session of that name.
DropAcp(c) ==
  /\ Goto(c, "dropAcp", "disconnect")
  /\ acp' = [d \in Conns |-> IF cname[d] = cname[c] THEN "none" ELSE acp[d]]
  /\ UNCHANGED <<entries, cname, live, silent, notice, kicks>>

\* Seeded fault: the entry is only removed if its client is already gone.
BugCleanUp(c) ==
  /\ Goto(c, "disconnect", "done")
  /\ IF c \in live THEN UNCHANGED <<entries, silent, notice>> ELSE RemoveEntry(cname[c])
  /\ UNCHANGED <<cname, live, acp, kicks>>

\* disconnect(name, "connection closed"): the entry of that name.
CleanUp(c) ==
  /\ Goto(c, "disconnect", "done")
  /\ RemoveEntry(cname[c])
  /\ UNCHANGED <<cname, live, acp, kicks>>

-----------------------------------------------------------------------------
(* The other actors.                                                       *)

\* The management API kicks or deletes a client by name.
AdminKick(n) ==
  /\ kicks < MaxKicks
  /\ entries[n] # NoConn
  /\ kicks' = kicks + 1
  /\ RemoveEntry(n)
  /\ UNCHANGED <<hpc, cname, live, acp>>

\* ensure_session: a placeholder for the session is put in the table, and the
\* spawn is negotiated over the connection registered under the name.
OpenAcp(c) ==
  /\ Registered(c) /\ acp[c] = "none"
  /\ acp' = [acp EXCEPT ![c] = "spawning"]
  /\ silent' = silent \ {c}
  /\ UNCHANGED <<entries, hpc, cname, live, notice, kicks>>

\* Seeded fault: the answer is delivered by a task that outlives the reader.
BugAcpReady(c) ==
  /\ acp[c] = "spawning"
  /\ acp' = [acp EXCEPT ![c] = "up"]
  /\ UNCHANGED <<entries, hpc, cname, live, silent, notice, kicks>>

\* The reader loop of c hands over the client's answer: the agent is up.
AcpReady(c) ==
  /\ hpc[c] = "serve" /\ acp[c] = "spawning"
  /\ acp' = [acp EXCEPT ![c] = "up"]
  /\ UNCHANGED <<entries, hpc, cname, live, silent, notice, kicks>>

\* No answer in SPAWN_TIMEOUT, or a refusal: the placeholder is removed.
AcpFailed(c) ==
  /\ acp[c] = "spawning"
  /\ acp' = [acp EXCEPT ![c] = "none"]
  /\ UNCHANGED <<entries, hpc, cname, live, silent, notice, kicks>>

\* The client reads Disconnect: process_control_messages returns an error and
\* the connection is closed.
ClientDisconnect(c) ==
  /\ c \in live /\ Served(c)
  /\ notice[c] = "sent"
  /\ notice' = [notice EXCEPT ![c] = "read"]
  /\ live' = live \ {c}
  /\ UNCHANGED <<entries, hpc, cname, silent, acp, kicks>>

\* The handler has returned and the registry holds no sender of the connection:
\* the writer ends with its channel, and the client reads end of file.
ConnClosed(c) ==
  /\ hpc[c] \in {"rejected", "aborted", "done"} /\ ~Registered(c)
  /\ c \in live
  /\ live' = live \ {c}
  /\ UNCHANGED <<entries, hpc, cname, silent, notice, acp, kicks>>

\* The client stops: its end of the connection is closed, or reset.
ClientLeave(c) ==
  /\ c \in live
  /\ live' = live \ {c}
  /\ UNCHANGED <<entries, hpc, cname, silent, notice, acp, kicks>>

\* The client's machine or its network vanishes: nothing reaches the server.
ClientVanish(c) ==
  /\ c \in live
  /\ live' = live \ {c}
  /\ silent' = silent \cup {c}
  /\ UNCHANGED <<entries, hpc, cname, notice, acp, kicks>>

-----------------------------------------------------------------------------
RegisterStep(c) ==
  Authenticate(c) \/ KickOld(c) \/ Persist(c) \/ Insert(c) \/ Respond(c)
CleanUpStep(c) == DropAcp(c) \/ CleanUp(c)

Next ==
  \/ \E c \in Conns :
       \/ Accept(c) \/ RegisterStep(c) \/ Eof(c) \/ CleanUpStep(c)
       \/ OpenAcp(c) \/ AcpReady(c) \/ AcpFailed(c)
       \/ ClientDisconnect(c) \/ ConnClosed(c)
       \/ ClientLeave(c) \/ ClientVanish(c)
  \/ \E n \in Names : AdminKick(n)

\* The tasks of the server are scheduled, a Disconnect that was sent is read and
\* a negotiation ends within its timeout; clients and the administrator are free
\* to do nothing.  A connection that was closed or reset is noticed, and so is a
\* vanished client once something is written to it; before that the reader, which
\* has no timeout and whose socket has no keepalive, may wait for ever.
Fairness ==
  \A c \in Conns :
    /\ WF_vars(RegisterStep(c))
    /\ WF_vars(c \notin live \cup silent /\ Eof(c))
    /\ WF_vars(CleanUpStep(c))
    /\ WF_vars(ClientDisconnect(c))
    /\ WF_vars(ConnClosed(c))
    /\ WF_vars(AcpReady(c) \/ AcpFailed(c))

Spec == Init /\ [][Next]_vars /\ Fairness

-----------------------------------------------------------------------------
(* Properties.                                                             *)

\* An entry is registered under its own connection's name, and its handler
\* has inserted it and not yet run its own disconnect(name): the only entry
\* nobody will clean up is that of a handler which returned because the
\* RegisterResponse could not be written.
EntryHasHandler ==
  \A n \in Names : \A c \in Conns :
    entries[n] = c =>
      /\ cname[c] = n
      /\ hpc[c] \in {"respond", "serve", "dropAcp", "disconnect", "aborted"}

\* Whoever sends a Disconnect takes the entry out first: no client is told to
\* go away while tunnels and sessions are still opened over its connection.
NoticeAfterRemoval ==
  \A c \in Conns : notice[c] # "none" => ~Registered(c)

\* An agent session never outlives the clean-up of the connection it runs
\* over: a spawn that races with the end of the reader loop is either dropped
\* by drop_client_sessions or can no longer be answered.
NoOrphanSession ==
  \A c \in Conns : hpc[c] \in {"disconnect", "done"} => acp[c] # "up"

\* A connection that is served and whose client has closed it, or has vanished
\* and was written to since, is eventually out of the registry, and leaves no
\* session behind, not even a placeholder.  (The entry of a client that vanished
\* stays as long as nobody writes to it.)
DeadEntryIsRemoved ==
  \A c \in Conns :
    (hpc[c] = "serve" /\ c \notin live \cup silent)
      ~> (~Registered(c) /\ acp[c] = "none")

\* Before its entry is inserted a connection is sent no Disconnect and carries
\* no session (with the three above, the inductive invariant of the proofs).
FreshIsClean ==
  \A c \in Conns :
    hpc[c] \in {"free", "auth", "kick", "persist", "insert", "rejected"} =>
      notice[c] = "none" /\ acp[c] = "none"

-----------------------------------------------------------------------------
(* What comments of the code promise, and the code does not keep.          *)

\* kill.rs: sessions are dropped because the client's processes ended with the
\* connection; the session of a client that is registered, connected and being
\* served is not dropped.
LiveSessionIsKept ==
  [][\A c \in Conns :
       acp[c] = "up" /\ acp'[c] = "none" =>
         ~(Registered(c) /\ hpc[c] = "serve" /\ c \in live)]_vars
=============================================================================
