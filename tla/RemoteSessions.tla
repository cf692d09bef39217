--------------------------- MODULE RemoteSessions ---------------------------
(***************************************************************************)
(* Remote-control sessions between clients, signalled over the server:     *)
(*   crates/server/src/control_plane/remote.rs   session table, handlers   *)
(*   crates/server/src/control_plane/server.rs   reader loop and clean-up  *)
(*   crates/remote/src/manager.rs                RemoteManager, per client *)
(*                                                                         *)
(* The server handles the messages of one client one after another, and    *)
(* gives way at every await; a client's manager handles each message and   *)
(* each command of its user in one step.  Messages of a connection arrive  *)
(* in order.  Of the data plane there is whether the controller's task has *)
(* begun to dial, and at each end whether establish has returned.          *)
(* A client has one connection at a time; ClientRegistry models several.   *)
(* The TTL of an unanswered session may pass at any moment, and is looked  *)
(* at, as in the code, when another session is issued.                     *)
(***************************************************************************)
EXTENDS Integers, Sequences, FiniteSets

CONSTANTS
  Clients,
  Callers,       \* the clients whose users connect to others
  MaxRequests,   \* bound: connection requests; sessions
  MaxTroubles    \* bound: lost connections and users' commands to end things

ASSUME ClientsAssumption == Clients # {} /\ Callers \subseteq Clients
ASSUME RequestsAssumption == MaxRequests \in Nat
ASSUME TroublesAssumption == MaxTroubles \in Nat

VARIABLES
  table,         \* RemoteSessionTable: the state of every session id
  party,         \* party[s]: controller and target of session s
  issued,        \* number of sessions issued
  requests,      \* number of connections requested
  link,          \* link[c]: control connection of c and its registry entry
  troubles,      \* number of lost connections and of such commands
  up, down,      \* up[c], down[c]: messages from and to client c
  handler,       \* handler[c]: where the server's handler for c is
  mgr,           \* mgr[c]: RemoteManager of c
  dialed,        \* sessions in which the controller's task has run: only there
                 \* can the target have been sent the Hello it waits for
  said           \* said[s]: what the target has answered (history)

vars == <<table, party, issued, requests, link, troubles, up, down, handler, mgr, dialed,
          said>>
serverVars == <<table, party, issued, handler>>
linkVars == <<link, troubles, dialed>>

Sids == 1..MaxRequests
NoSid == 0
Nobody == CHOOSE c \in Clients : TRUE

Incoming(s) == [type |-> "incoming", sid |-> s]
Grant(s) == [type |-> "grant", sid |-> s]
Resp(s, ok) == [type |-> "resp", sid |-> s, ok |-> ok]
End(s) == [type |-> "end", sid |-> s]
Deny == Resp(NoSid, FALSE)
Connect(t) == [type |-> "connect", to |-> t]

Resps == [type : {"resp"}, sid : Sids, ok : BOOLEAN]
Ends == [type : {"end"}, sid : Sids]
UpMsgs == Resps \cup Ends \cup [type : {"connect"}, to : Clients]
DownMsgs == Resps \cup Ends \cup {Deny} \cup [type : {"incoming", "grant"}, sid : Sids]

Receiving == [pc |-> "recv"]
Handlers ==
  {Receiving}
    \cup [pc : {"issue"}, to : Clients]
    \cup [pc : {"incoming", "grant", "remove", "tell"}, sid : Sids]
    \cup [pc : {"notify", "mark"}, sid : Sids, ok : BOOLEAN]
    \cup [pc : {"cleanup"}, left : SUBSET Sids]

\* active: the session's handle; est: its data plane is established; grant: an
\* accepted request that waits for the target; early: an acceptance that came
\* before its grant; req: a request that waits for the user.
Managers == [active : Sids \cup {NoSid}, est : BOOLEAN, grant : Sids \cup {NoSid},
             early : Sids \cup {NoSid}, req : Sids \cup {NoSid}]
Quiet == [active |-> NoSid, est |-> FALSE, grant |-> NoSid, early |-> NoSid, req |-> NoSid]

TypeOK ==
  /\ table \in [Sids -> {"none", "pending", "accepted", "expired"}]
  /\ party \in [Sids -> [ctl : Clients, tgt : Clients]]
  /\ issued \in 0..MaxRequests /\ requests \in 0..MaxRequests
  /\ link \in [Clients -> {"up", "dead", "down"}] /\ troubles \in 0..MaxTroubles
  /\ up \in [Clients -> Seq(UpMsgs)] /\ down \in [Clients -> Seq(DownMsgs)]
  /\ handler \in [Clients -> Handlers]
  /\ mgr \in [Clients -> Managers]
  /\ dialed \in SUBSET Sids
  /\ said \in [Sids -> {"none", "yes", "no"}]
  /\ \A c \in Clients :
       /\ mgr[c].est => mgr[c].active # NoSid
       /\ mgr[c].grant # NoSid => mgr[c].active = mgr[c].grant /\ ~mgr[c].est

Init ==
  /\ table = [s \in Sids |-> "none"]
  /\ party = [s \in Sids |-> [ctl |-> Nobody, tgt |-> Nobody]]
  /\ issued = 0 /\ requests = 0
  /\ link = [c \in Clients |-> "up"] /\ troubles = 0
  /\ up = [c \in Clients |-> <<>>] /\ down = [c \in Clients |-> <<>>]
  /\ handler = [c \in Clients |-> Receiving]
  /\ mgr = [c \in Clients |-> Quiet] /\ dialed = {}
  /\ said = [s \in Sids |-> "none"]

Present(s) == table[s] \in {"pending", "accepted"}
Removed(s) == IF Present(s) THEN [table EXCEPT ![s] = "none"] ELSE table
Parties(s) == {party[s].ctl, party[s].tgt}
Peer(c, s) == IF party[s].ctl = c THEN party[s].tgt ELSE party[s].ctl

\* A message queued for a connection that is lost is lost with it.
Deliver(c, msg) ==
  down' = IF link[c] = "up" THEN [down EXCEPT ![c] = Append(@, msg)] ELSE down
Goto(c, to) == handler' = [handler EXCEPT ![c] = to]

-----------------------------------------------------------------------------
(* The server: the handler of client c.                                    *)

Reading(c, type) ==
  /\ handler[c] = Receiving /\ up[c] # <<>> /\ Head(up[c]).type = type
  /\ up' = [up EXCEPT ![c] = Tail(@)]

\* handle_remote_connect_request: the target is offline, has not announced
\* itself or is too old, or the server has no RustDesk parameters.
ConnectDenied(c) ==
  /\ Reading(c, "connect")
  /\ Deliver(c, Deny)
  /\ UNCHANGED <<serverVars, requests, linkVars, mgr, said>>

ConnectAllowed(c) ==
  /\ Reading(c, "connect")
  /\ link[Head(up[c]).to] # "down"
  /\ Goto(c, [pc |-> "issue", to |-> Head(up[c]).to])
  /\ UNCHANGED <<table, party, issued, requests, linkVars, down, mgr, said>>

\* RemoteSessionTable::issue, which reaps what nobody has answered in time.
Issue(c) ==
  /\ handler[c].pc = "issue" /\ issued < MaxRequests
  /\ LET s == issued + 1 IN
     \E old \in SUBSET {r \in Sids : Present(r)} :
       /\ table' = [r \in Sids |-> IF r = s THEN "pending"
                                   ELSE IF r \in old THEN "expired" ELSE table[r]]
       /\ party' = [party EXCEPT ![s] = [ctl |-> c, tgt |-> handler[c].to]]
       /\ issued' = s
       /\ Goto(c, [pc |-> "incoming", sid |-> s])
  /\ UNCHANGED <<requests, linkVars, up, down, mgr, said>>

SendIncoming(c) ==
  /\ handler[c].pc = "incoming"
  /\ Deliver(party[handler[c].sid].tgt, Incoming(handler[c].sid))
  /\ Goto(c, [pc |-> "grant", sid |-> handler[c].sid])
  /\ UNCHANGED <<table, party, issued, requests, linkVars, up, mgr, said>>

\* The target's channel is closed.
IncomingFails(c) ==
  /\ handler[c].pc = "incoming"
  /\ link[party[handler[c].sid].tgt] # "up"
  /\ table' = Removed(handler[c].sid)
  /\ Deliver(c, Deny)
  /\ Goto(c, Receiving)
  /\ UNCHANGED <<party, issued, requests, linkVars, up, mgr, said>>

SendGrant(c) ==
  /\ handler[c].pc = "grant"
  /\ Deliver(c, Grant(handler[c].sid))
  /\ Goto(c, Receiving)
  /\ UNCHANGED <<table, party, issued, requests, linkVars, up, mgr, said>>

\* The controller's channel is closed.
GrantFails(c) ==
  /\ handler[c].pc = "grant" /\ link[c] # "up"
  /\ table' = Removed(handler[c].sid)
  /\ Goto(c, [pc |-> "tell", sid |-> handler[c].sid])
  /\ UNCHANGED <<party, issued, requests, linkVars, up, down, mgr, said>>

\* handle_session_response: unknown sessions and strangers are ignored.
RecvResponse(c) ==
  /\ Reading(c, "resp")
  /\ LET msg == Head(up[c]) IN
     Goto(c, IF Present(msg.sid) /\ party[msg.sid].tgt = c
             THEN [pc |-> "notify", sid |-> msg.sid, ok |-> msg.ok] ELSE Receiving)
  /\ UNCHANGED <<table, party, issued, requests, linkVars, down, mgr, said>>

NotifyController(c) ==
  /\ handler[c].pc = "notify"
  /\ Deliver(party[handler[c].sid].ctl, Resp(handler[c].sid, handler[c].ok))
  /\ Goto(c, [handler[c] EXCEPT !.pc = "mark"])
  /\ UNCHANGED <<table, party, issued, requests, linkVars, up, mgr, said>>

\* Seeded fault: the entry is written back without looking whether it is there.
BugMark(c) ==
  /\ handler[c].pc = "mark"
  /\ table' = [table EXCEPT ![handler[c].sid] = IF handler[c].ok THEN "accepted" ELSE "none"]
  /\ Goto(c, Receiving)
  /\ UNCHANGED <<party, issued, requests, linkVars, up, down, mgr, said>>

\* mark_accepted, which ignores an unknown session, or end.
Mark(c) ==
  /\ handler[c].pc = "mark"
  /\ LET s == handler[c].sid IN
     table' = IF ~handler[c].ok THEN Removed(s)
              ELSE IF Present(s) THEN [table EXCEPT ![s] = "accepted"] ELSE table
  /\ Goto(c, Receiving)
  /\ UNCHANGED <<party, issued, requests, linkVars, up, down, mgr, said>>

\* handle_session_end.
RecvEnd(c) ==
  /\ Reading(c, "end")
  /\ LET s == Head(up[c]).sid IN
     Goto(c, IF Present(s) /\ c \in Parties(s) THEN [pc |-> "remove", sid |-> s] ELSE Receiving)
  /\ UNCHANGED <<table, party, issued, requests, linkVars, down, mgr, said>>

RemoveSession(c) ==
  /\ handler[c].pc = "remove"
  /\ table' = Removed(handler[c].sid)
  /\ Goto(c, [handler[c] EXCEPT !.pc = "tell"])
  /\ UNCHANGED <<party, issued, requests, linkVars, up, down, mgr, said>>

TellPeer(c) ==
  /\ handler[c].pc = "tell"
  /\ Deliver(Peer(c, handler[c].sid), End(handler[c].sid))
  /\ Goto(c, Receiving)
  /\ UNCHANGED <<table, party, issued, requests, linkVars, up, mgr, said>>

\* Seeded fault: only the sessions that c controls are removed.
BugRemoveForClient(c) ==
  /\ handler[c] = Receiving /\ up[c] = <<>> /\ link[c] = "dead"
  /\ LET mine == {s \in Sids : Present(s) /\ party[s].ctl = c} IN
     /\ table' = [s \in Sids |-> IF s \in mine THEN "none" ELSE table[s]]
     /\ Goto(c, [pc |-> "cleanup", left |-> mine])
  /\ UNCHANGED <<party, issued, requests, linkVars, up, down, mgr, said>>

\* End of the reader loop; handle_client_disconnected, remove_for_client.
RemoveForClient(c) ==
  /\ handler[c] = Receiving /\ up[c] = <<>> /\ link[c] = "dead"
  /\ LET mine == {s \in Sids : Present(s) /\ c \in Parties(s)} IN
     /\ table' = [s \in Sids |-> IF s \in mine THEN "none" ELSE table[s]]
     /\ Goto(c, [pc |-> "cleanup", left |-> mine])
  /\ UNCHANGED <<party, issued, requests, linkVars, up, down, mgr, said>>

TellLeft(c) ==
  /\ handler[c].pc = "cleanup"
  /\ \E s \in handler[c].left :
       /\ Deliver(Peer(c, s), End(s))
       /\ Goto(c, [handler[c] EXCEPT !.left = @ \ {s}])
  /\ UNCHANGED <<table, party, issued, requests, linkVars, up, mgr, said>>

\* The registry's entry goes, the handler returns.
Unregister(c) ==
  /\ handler[c] = [pc |-> "cleanup", left |-> {}]
  /\ link' = [link EXCEPT ![c] = "down"]
  /\ Goto(c, Receiving)
  /\ UNCHANGED <<table, party, issued, requests, troubles, up, down, mgr, dialed, said>>

-----------------------------------------------------------------------------
(* The client: RemoteManager of c.                                         *)

Send(c, msgs) == up' = [up EXCEPT ![c] = @ \o msgs]
Become(c, r) == mgr' = [mgr EXCEPT ![c] = r]

\* Seeded fault: the grant of the session is forgotten.
BugConcluded(r, s) ==
  [r EXCEPT !.active = IF @ = s THEN NoSid ELSE @,
            !.est = @ /\ r.active # s,
            !.early = IF @ = s THEN NoSid ELSE @]

\* conclude_session: for one session, and for whatever there is.
Concluded(r, s) ==
  [active |-> IF r.active = s THEN NoSid ELSE r.active,
   est |-> r.est /\ r.active # s,
   grant |-> IF r.grant = s THEN NoSid ELSE r.grant,
   early |-> IF r.early = s THEN NoSid ELSE r.early,
   req |-> r.req]
ConcludedAny(r) == [Quiet EXCEPT !.req = r.req]

\* abort_active: what it sends.
AbortMsgs(r) ==
  (IF r.req # NoSid THEN <<Resp(r.req, FALSE)>> ELSE <<>>)
    \o (IF r.active # NoSid THEN <<End(r.active)>> ELSE <<>>)
Refused(r) == IF r.req # NoSid THEN [said EXCEPT ![r.req] = "no"] ELSE said

\* The session's task runs: from the acceptance at the target, and from the
\* moment the grant is used at the controller.
HasTask(c) == mgr[c].active # NoSid /\ mgr[c].grant = NoSid

\* request_connect.
RequestConnect(c, t) ==
  /\ link[c] = "up" /\ t # c /\ c \in Callers /\ requests < MaxRequests
  /\ requests' = requests + 1
  /\ Send(c, <<Connect(t)>>)
  /\ UNCHANGED <<serverVars, linkVars, down, mgr, said>>

Receive(c, type) ==
  /\ link[c] = "up" /\ down[c] # <<>> /\ Head(down[c]).type = type
  /\ down' = [down EXCEPT ![c] = Tail(@)]

\* accept_incoming.
Accept(c, s, r) ==
  /\ Become(c, [r EXCEPT !.active = s, !.est = FALSE, !.req = NoSid])
  /\ Send(c, <<Resp(s, TRUE)>>)
  /\ said' = [said EXCEPT ![s] = "yes"]

Decline(c, s, r) ==
  /\ Become(c, r)
  /\ Send(c, <<Resp(s, FALSE)>>)
  /\ said' = [said EXCEPT ![s] = "no"]

\* Seeded fault: the answered request still waits for the user.
BugReject(c) ==
  /\ link[c] = "up" /\ mgr[c].req # NoSid
  /\ Decline(c, mgr[c].req, mgr[c])
  /\ UNCHANGED <<serverVars, requests, linkVars, down>>

Busy(r) == r.req # NoSid \/ r.active # NoSid

\* handle_incoming: it declines when busy, disabled, or without a screen; a
\* trusted peer is accepted at once; else the user decides.
RecvIncoming(c) ==
  /\ Receive(c, "incoming")
  /\ LET s == Head(down[c]).sid
         r == mgr[c]
     IN \/ Decline(c, s, r)
        \/ ~Busy(r) /\ Accept(c, s, r)
        \/ ~Busy(r) /\ Become(c, [r EXCEPT !.req = s]) /\ UNCHANGED <<up, said>>
  /\ UNCHANGED <<serverVars, requests, linkVars>>

\* approve_pending; reject_pending and on_approval_timeout.
Approve(c) ==
  /\ link[c] = "up" /\ mgr[c].req # NoSid
  /\ Accept(c, mgr[c].req, mgr[c])
  /\ UNCHANGED <<serverVars, requests, linkVars, down>>

Reject(c) ==
  /\ link[c] = "up" /\ mgr[c].req # NoSid
  /\ Decline(c, mgr[c].req, [mgr[c] EXCEPT !.req = NoSid])
  /\ UNCHANGED <<serverVars, requests, linkVars, down>>

\* start_controller: the new session replaces the old one.
RecvGrant(c) ==
  /\ Receive(c, "grant")
  /\ LET s == Head(down[c]).sid
         r == mgr[c]
     IN /\ Send(c, AbortMsgs(r))
        /\ said' = Refused(r)
        /\ Become(c, [Quiet EXCEPT !.active = s,
                                   !.grant = IF r.early = s THEN NoSid ELSE s])
        /\ dialed' = IF r.early = s THEN dialed \cup {s} ELSE dialed
  /\ UNCHANGED <<serverVars, requests, link, troubles>>

\* Seeded fault: any acceptance starts the session that waits for one.
BugRecvAccepted(c) ==
  /\ Receive(c, "resp") /\ Head(down[c]).ok
  /\ LET s == Head(down[c]).sid IN
     /\ Become(c, IF mgr[c].grant # NoSid THEN [mgr[c] EXCEPT !.grant = NoSid]
                  ELSE [mgr[c] EXCEPT !.early = s])
     /\ dialed' = dialed \cup ({mgr[c].grant} \ {NoSid})
  /\ UNCHANGED <<serverVars, requests, link, troubles, up, said>>

\* on_session_response, accepted: the grant is used, or still to come.
RecvAccepted(c) ==
  /\ Receive(c, "resp") /\ Head(down[c]).ok
  /\ LET s == Head(down[c]).sid IN
     IF mgr[c].grant = s
     THEN Become(c, [mgr[c] EXCEPT !.grant = NoSid]) /\ dialed' = dialed \cup {s}
     ELSE Become(c, [mgr[c] EXCEPT !.early = s]) /\ UNCHANGED dialed
  /\ UNCHANGED <<serverVars, requests, link, troubles, up, said>>

\* on_session_response, refused; deny_unissued_request when no session was
\* issued.
RecvRefused(c) ==
  /\ Receive(c, "resp") /\ ~Head(down[c]).ok
  /\ LET s == Head(down[c]).sid
         r == mgr[c]
         placeholder == r.grant # NoSid \/ r.early # NoSid \/ (r.active # NoSid /\ ~r.est)
     IN IF s = NoSid
        THEN Become(c, IF placeholder THEN ConcludedAny(r) ELSE r)
        ELSE Become(c, Concluded(r, s))
  /\ UNCHANGED <<serverVars, requests, linkVars, up, said>>

\* on_remote_session_end.
RecvSessionEnd(c) ==
  /\ Receive(c, "end")
  /\ Become(c, Concluded(mgr[c], Head(down[c]).sid))
  /\ UNCHANGED <<serverVars, requests, linkVars, up, said>>

\* Seeded fault: an early acceptance counts as the one that is waited for.
BugWaitTimeout(c) ==
  /\ mgr[c].grant # NoSid /\ mgr[c].early = NoSid
  /\ Become(c, ConcludedAny(mgr[c]))
  /\ UNCHANGED <<serverVars, requests, linkVars, up, down, said>>

\* on_wait_timeout.
WaitTimeout(c) ==
  /\ mgr[c].grant # NoSid
  /\ Become(c, ConcludedAny(mgr[c]))
  /\ UNCHANGED <<serverVars, requests, linkVars, up, down, said>>

\* establish returns and mark_active is called, wherever the peer is: the
\* controller only dials and sends its Hello (the relay does not answer, the
\* target's acceptor always listens), the target takes whatever stream comes.
Establish(c) ==
  /\ HasTask(c) /\ ~mgr[c].est
  /\ Become(c, [mgr[c] EXCEPT !.est = TRUE])
  /\ UNCHANGED <<serverVars, requests, linkVars, up, down, said>>

\* finish_session: establish or the handshake has failed, or the session's loop
\* has ended.
Finish(c) ==
  /\ HasTask(c)
  /\ Send(c, <<End(mgr[c].active)>>)
  /\ Become(c, [mgr[c] EXCEPT !.active = NoSid, !.est = FALSE])
  /\ UNCHANGED <<serverVars, requests, linkVars, down, said>>
EstablishFails(c) == Finish(c) /\ ~mgr[c].est
HelloMissing(c) ==
  LET s == mgr[c].active IN Finish(c) /\ party[s].tgt = c /\ s \notin dialed

Trouble == troubles < MaxTroubles /\ troubles' = troubles + 1

\* abort_active, the user's command.
Abort(c) ==
  /\ link[c] = "up" /\ mgr[c] # Quiet /\ Trouble
  /\ Send(c, AbortMsgs(mgr[c]))
  /\ said' = Refused(mgr[c])
  /\ Become(c, Quiet)
  /\ UNCHANGED <<serverVars, requests, link, down, dialed>>

\* set_enabled(false): only what others do to c ends.
Disable(c) ==
  /\ link[c] = "up" /\ Busy(mgr[c]) /\ Trouble
  /\ LET r == [mgr[c] EXCEPT !.req = NoSid]
         s == r.active
         controlled == s # NoSid /\ party[s].tgt = c
     IN /\ Send(c, AbortMsgs([mgr[c] EXCEPT !.active = IF controlled THEN @ ELSE NoSid]))
        /\ said' = Refused(mgr[c])
        /\ Become(c, IF controlled THEN Concluded(r, s) ELSE r)
  /\ UNCHANGED <<serverVars, requests, link, down, dialed>>

\* The connection is lost: on_disconnected, attach.  What c had sent may still
\* arrive.
Lose(c) ==
  /\ link[c] = "up" /\ Trouble
  /\ link' = [link EXCEPT ![c] = "dead"]
  /\ down' = [down EXCEPT ![c] = <<>>]
  /\ \E n \in 0..Len(up[c]) : up' = [up EXCEPT ![c] = SubSeq(@, 1, n)]
  /\ Become(c, Quiet)
  /\ UNCHANGED <<serverVars, requests, dialed, said>>

Reconnect(c) ==
  /\ link[c] = "down"
  /\ link' = [link EXCEPT ![c] = "up"]
  /\ UNCHANGED <<serverVars, requests, troubles, up, down, mgr, dialed, said>>

-----------------------------------------------------------------------------
ConnectStep(c) ==
  \/ ConnectDenied(c) \/ ConnectAllowed(c) \/ Issue(c)
  \/ SendIncoming(c) \/ IncomingFails(c) \/ SendGrant(c) \/ GrantFails(c)
ResponseStep(c) == RecvResponse(c) \/ NotifyController(c) \/ Mark(c)
EndStep(c) == RecvEnd(c) \/ RemoveSession(c) \/ TellPeer(c)
CleanUpStep(c) == RemoveForClient(c) \/ TellLeft(c) \/ Unregister(c)
Handle(c) == ConnectStep(c) \/ ResponseStep(c) \/ EndStep(c) \/ CleanUpStep(c)

ClientRecv(c) ==
  RecvIncoming(c) \/ RecvGrant(c) \/ RecvAccepted(c) \/ RecvRefused(c) \/ RecvSessionEnd(c)

Next ==
  \E c \in Clients :
    \/ Handle(c) \/ ClientRecv(c)
    \/ \E t \in Clients : RequestConnect(c, t)
    \/ Approve(c) \/ Reject(c) \/ WaitTimeout(c)
    \/ Establish(c) \/ Finish(c)
    \/ Abort(c) \/ Disable(c) \/ Lose(c) \/ Reconnect(c)

\* The server's tasks and the client's reader run; the timers of approval, of
\* waiting and of establish fire, and the target's for a Hello that nobody sends.
\* An established session need not end otherwise.
Due(c) ==
  \/ Handle(c) \/ ClientRecv(c)
  \/ Reject(c) \/ WaitTimeout(c) \/ EstablishFails(c) \/ HelloMissing(c)

\* Requests and troubles are bounded, so every behaviour comes to rest: it is
\* enough that it does not rest while a step of anybody is due.
Fairness == WF_vars(\E c \in Clients : Due(c))

Spec == Init /\ [][Next]_vars /\ Fairness

-----------------------------------------------------------------------------
(* Properties.                                                             *)

\* The confirmation gate: a controller only dials after the target of this very
\* session has accepted it.
ConfirmationGate ==
  \A c \in Clients :
    LET s == mgr[c].active IN
    HasTask(c) /\ party[s].ctl = c => said[s] = "yes"

\* The target answers a session once: an approval that races with its timeout,
\* an abort or a lost connection does not contradict it.
AnswerIsFinal == [][\A s \in Sids : said[s] # "none" => said'[s] = said[s]]_vars

\* The end of session s is on its way to client c: in c's queue, or with the
\* handler of the other end, which is about to send it.
EndComes(c, s) ==
  \/ \E i \in DOMAIN down[c] : down[c][i] = End(s)
  \/ \E h \in Clients :
       /\ Peer(h, s) = c
       /\ \/ handler[h].pc = "tell" /\ handler[h].sid = s
          \/ handler[h].pc = "cleanup" /\ s \in handler[h].left

\* A session that has left the table is over.  A late acceptance, whose handler
\* gave way between its look at the entry and its mark, does not revive what an
\* end, a clean-up or the TTL has removed.  And an end of the session whose task
\* still runs after the removal, or starts then as the acceptance and the grant
\* were under way, is told, so that no data plane outlives the entry unnoticed.
\* (A target that accepts after it was told is not told again; then nobody has
\* dialed, and it gives up when no Hello comes.)
EndedStaysEnded ==
  /\ [][\A s \in Sids : s <= issued /\ ~Present(s) => table'[s] = table[s]]_vars
  /\ [](\A c \in Clients :
          LET s == mgr[c].active IN
          HasTask(c) /\ table[s] = "none" /\ s \in dialed => EndComes(c, s))

\* Requests are bounded, so what is due is done in the end for all sessions.

\* No client waits for ever for an answer or for the data plane.
PlaceholderEnds ==
  []<>(\A c \in Clients : mgr[c].active # NoSid => mgr[c].est)

\* Nobody stays in a session that the server has ended, or whose other end has
\* lost its connection, unless the entry had expired.
EndReachesPeer ==
  \A s \in Sids :
    (\E c \in Clients :
       /\ mgr[c].active = s
       /\ table[s] = "none" \/ (table[s] # "expired" /\ link[Peer(c, s)] = "dead"))
      ~> (table[s] = "expired" \/ \A c \in Clients : mgr[c].active # s)
=============================================================================
