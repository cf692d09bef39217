------------------------ MODULE RemoteSessionsProofs ------------------------
(***************************************************************************)
(* The confirmation gate of RemoteSessions, that an answer is final and    *)
(* that a removed session is over, for any clients and numbers of requests *)
(* and troubles.  A yes spreads from the target's answer over queues and   *)
(* handlers to the controller, and is good wherever it is found as the     *)
(* answer is never changed; that is so as the question about a session is  *)
(* at one place at a time, and is gone once it is answered.  A removed     *)
(* session is over as who leaves one never enters it again, and who is     *)
(* still in it, and may have a data plane in it, has the end before him,   *)
(* behind all that could still start it.                                   *)
(***************************************************************************)
EXTENDS RemoteSessions, TLAPS

Holds(q, x) == \E i \in DOMAIN q : q[i] = x

\* No question is twice in a queue.
Once(q) == \A i, j \in DOMAIN q : q[i] = q[j] /\ q[i].type = "incoming" => i = j

\* A client has the question about session s.
Asked(c, s) == Holds(down[c], Incoming(s)) \/ mgr[c].req = s

\* The server is about to ask about session s.
Asking(c, s) == handler[c].pc = "incoming" /\ handler[c].sid = s

\* The question about a session is asked by the controller's handler, of the
\* target, once, and has not been answered.
Questions ==
  /\ \A c \in Clients, s \in Sids : Asked(c, s) =>
       /\ s <= issued /\ said[s] = "none" /\ party[s].tgt = c
       /\ ~(Holds(down[c], Incoming(s)) /\ mgr[c].req = s)
  /\ \A c \in Clients, s \in Sids : Asking(c, s) =>
       /\ s <= issued /\ said[s] = "none" /\ party[s].ctl = c
       /\ \A d \in Clients : ~Asked(d, s)
  /\ \A c \in Clients : Once(down[c])
  /\ \A s \in Sids : s <= issued \/ said[s] = "none"

\* Wherever there is a yes, the target has said it.
Affirmed ==
  \A c \in Clients, s \in Sids :
    \/ Holds(up[c], Resp(s, TRUE)) \/ Holds(down[c], Resp(s, TRUE))
    \/ handler[c].pc \in {"notify", "mark"} /\ handler[c].sid = s /\ handler[c].ok
    \/ mgr[c].early = s
    \/ HasTask(c) /\ mgr[c].active = s
    => said[s] = "yes"

-----------------------------------------------------------------------------
(* Queues.                                                                 *)

LEMMA AppendHolds ==
  ASSUME NEW S, NEW q \in Seq(S), NEW x \in S
  PROVE  /\ Append(q, x) \in Seq(S)
         /\ \A y : Holds(Append(q, x), y) => Holds(q, y) \/ y = x
         /\ Once(q) /\ (x.type = "incoming" => ~Holds(q, x)) => Once(Append(q, x))
<1>1. /\ Append(q, x) \in Seq(S) /\ Len(Append(q, x)) = Len(q) + 1 /\ Len(q) \in Nat
      /\ \A i \in 1..Len(q) : Append(q, x)[i] = q[i]
      /\ Append(q, x)[Len(q) + 1] = x
      /\ DOMAIN q = 1..Len(q) /\ DOMAIN Append(q, x) = 1..(Len(q) + 1)
  OBVIOUS
<1>2. \A i \in DOMAIN Append(q, x) : i \in DOMAIN q \/ i = Len(q) + 1
  BY <1>1
<1>3. \A y : Holds(Append(q, x), y) => Holds(q, y) \/ y = x
  BY <1>1, <1>2 DEF Holds
<1>4. ASSUME Once(q), x.type = "incoming" => ~Holds(q, x)
      PROVE  Once(Append(q, x))
  BY <1>1, <1>2, <1>4 DEF Once, Holds
<1> QED BY <1>1, <1>3, <1>4

LEMMA TailHolds ==
  ASSUME NEW S, NEW q \in Seq(S), q # <<>>
  PROVE  /\ Tail(q) \in Seq(S) /\ Head(q) \in S /\ Holds(q, Head(q))
         /\ \A y : Holds(Tail(q), y) => Holds(q, y)
         /\ Once(q) => /\ Once(Tail(q))
                       /\ Head(q).type = "incoming" => ~Holds(Tail(q), Head(q))
<1>1. /\ Tail(q) \in Seq(S) /\ Head(q) \in S /\ Len(q) \in Nat \ {0} /\ Len(Tail(q)) = Len(q) - 1
      /\ DOMAIN q = 1..Len(q) /\ DOMAIN Tail(q) = 1..(Len(q) - 1)
      /\ Head(q) = q[1] /\ \A i \in 1..(Len(q) - 1) : Tail(q)[i] = q[i + 1]
  OBVIOUS
<1>2. 1 \in DOMAIN q /\ \A i \in DOMAIN Tail(q) : i + 1 \in DOMAIN q /\ i + 1 # 1 /\ i \in Int
  BY <1>1
<1>3. \A y : Holds(Tail(q), y) => Holds(q, y)
  BY <1>1, <1>2 DEF Holds
<1>4. ASSUME Once(q) PROVE Once(Tail(q))
  <2> SUFFICES ASSUME NEW i \in DOMAIN Tail(q), NEW j \in DOMAIN Tail(q),
                      Tail(q)[i] = Tail(q)[j], Tail(q)[i].type = "incoming"
               PROVE  i = j
    BY DEF Once
  <2>1. i + 1 = j + 1
    BY <1>1, <1>2, <1>4 DEF Once
  <2> QED BY <1>2, <2>1
<1>5. ASSUME Once(q), Head(q).type = "incoming" PROVE ~Holds(Tail(q), Head(q))
  BY <1>1, <1>2, <1>5 DEF Once, Holds
<1> QED BY <1>1, <1>2, <1>3, <1>4, <1>5 DEF Holds

LEMMA ConcatHolds ==
  ASSUME NEW S, NEW q \in Seq(S), NEW r \in Seq(S)
  PROVE  q \o r \in Seq(S) /\ \A y : Holds(q \o r, y) => Holds(q, y) \/ Holds(r, y)
<1>1. /\ q \o r \in Seq(S) /\ Len(q) \in Nat /\ Len(r) \in Nat /\ Len(q \o r) = Len(q) + Len(r)
      /\ DOMAIN q = 1..Len(q) /\ DOMAIN r = 1..Len(r) /\ DOMAIN (q \o r) = 1..(Len(q) + Len(r))
      /\ \A i \in 1..(Len(q) + Len(r)) : (q \o r)[i] = IF i <= Len(q) THEN q[i] ELSE r[i - Len(q)]
  OBVIOUS
<1>2. ASSUME NEW y, NEW i \in DOMAIN (q \o r), (q \o r)[i] = y
      PROVE  Holds(q, y) \/ Holds(r, y)
  <2>1. CASE i <= Len(q)
    BY <1>1, <1>2, <2>1 DEF Holds
  <2>2. CASE ~(i <= Len(q))
    <3>1. i - Len(q) \in DOMAIN r /\ r[i - Len(q)] = y
      BY <1>1, <1>2, <2>2
    <3> QED BY <3>1 DEF Holds
  <2> QED BY <2>1, <2>2
<1> QED BY <1>1, <1>2 DEF Holds

\* What is left of a connection's messages.
LEMMA PrefixHolds ==
  ASSUME NEW S, NEW q \in Seq(S), NEW n \in 0..Len(q)
  PROVE  SubSeq(q, 1, n) \in Seq(S) /\ \A y : Holds(SubSeq(q, 1, n), y) => Holds(q, y)
<1>1. /\ SubSeq(q, 1, n) \in Seq(S) /\ DOMAIN q = 1..Len(q) /\ DOMAIN SubSeq(q, 1, n) = 1..n
      /\ \A i \in 1..n : SubSeq(q, 1, n)[i] = q[i]
      /\ \A i \in 1..n : i \in 1..Len(q)
  OBVIOUS
<1> QED BY <1>1 DEF Holds

-----------------------------------------------------------------------------
(* Messages, handlers and managers.                                        *)

LEMMA MessageShapes ==
  /\ \A s \in Sids : /\ Incoming(s) \in DownMsgs /\ Grant(s) \in DownMsgs /\ End(s) \in DownMsgs
                     /\ End(s) \in UpMsgs
                     /\ Incoming(s).type = "incoming" /\ Incoming(s).sid = s
                     /\ Grant(s).type = "grant" /\ End(s).type = "end"
  /\ \A s \in Sids, ok \in BOOLEAN : /\ Resp(s, ok) \in DownMsgs /\ Resp(s, ok) \in UpMsgs
                                     /\ Resp(s, ok).type = "resp" /\ Resp(s, ok).ok = ok
                                     /\ Resp(s, ok).sid = s
  /\ Deny \in DownMsgs /\ Deny.type = "resp" /\ Deny.ok = FALSE
  /\ \A c \in Clients : Connect(c) \in UpMsgs /\ Connect(c).type = "connect"
  BY DEF Incoming, Grant, End, Resp, Deny, Connect, Resps, Ends, UpMsgs, DownMsgs, NoSid

LEMMA UpShapes ==
  ASSUME NEW x \in UpMsgs
  PROVE  /\ x.type = "connect" => x.to \in Clients
         /\ x.type = "resp" => x.sid \in Sids /\ x.ok \in BOOLEAN /\ x = Resp(x.sid, x.ok)
         /\ x.type = "end" => x.sid \in Sids
  BY DEF UpMsgs, Resps, Ends, Resp

LEMMA DownShapes ==
  ASSUME NEW x \in DownMsgs
  PROVE  /\ x.type = "incoming" => x.sid \in Sids /\ x = Incoming(x.sid)
         /\ x.type \in {"grant", "end"} => x.sid \in Sids
         /\ x.type = "resp" =>
              /\ x.sid \in Sids \cup {NoSid} /\ x.ok \in BOOLEAN
              /\ x.ok => x.sid \in Sids /\ x = Resp(x.sid, TRUE)
<1>1. CASE x \in Resps
  <2>1. x.type = "resp" /\ x.sid \in Sids /\ x.ok \in BOOLEAN /\ x = Resp(x.sid, x.ok)
    BY <1>1 DEF Resps, Resp
  <2> QED BY <2>1
<1>2. CASE x = Deny
  BY <1>2 DEF Deny, Resp
<1>3. CASE x \in Ends \cup [type : {"incoming", "grant"}, sid : Sids]
  BY <1>3 DEF Ends, Incoming
<1> QED BY <1>1, <1>2, <1>3 DEF DownMsgs

LEMMA HandlerShapes ==
  ASSUME NEW x \in Handlers
  PROVE  /\ x.pc = "issue" => x.to \in Clients
         /\ x.pc \in {"incoming", "grant", "remove", "tell", "notify", "mark"} => x.sid \in Sids
         /\ x.pc \in {"notify", "mark"} => x.ok \in BOOLEAN
         /\ x.pc = "cleanup" => x.left \subseteq Sids
         /\ x.pc = "notify" =>
              /\ [x EXCEPT !.pc = "mark"] \in Handlers /\ [x EXCEPT !.pc = "mark"].pc = "mark"
              /\ [x EXCEPT !.pc = "mark"].sid = x.sid /\ [x EXCEPT !.pc = "mark"].ok = x.ok
         /\ x.pc = "remove" =>
              [x EXCEPT !.pc = "tell"] \in Handlers /\ [x EXCEPT !.pc = "tell"].pc = "tell"
         /\ x.pc = "cleanup" => \A s :
              /\ [x EXCEPT !.left = @ \ {s}] \in Handlers
              /\ [x EXCEPT !.left = @ \ {s}].pc = "cleanup"
<1>1. CASE x = Receiving
  BY <1>1 DEF Receiving
<1>2. CASE x \in [pc : {"issue"}, to : Clients]
  BY <1>2
<1>3. CASE x \in [pc : {"incoming", "grant", "remove", "tell"}, sid : Sids]
  BY <1>3 DEF Handlers
<1>4. CASE x \in [pc : {"notify", "mark"}, sid : Sids, ok : BOOLEAN]
  BY <1>4 DEF Handlers
<1>5. CASE x \in [pc : {"cleanup"}, left : SUBSET Sids]
  BY <1>5 DEF Handlers
<1> QED BY <1>1, <1>2, <1>3, <1>4, <1>5 DEF Handlers

\* What a manager may be.
Fits(r) ==
  /\ r \in Managers
  /\ r.est => r.active # NoSid
  /\ r.grant # NoSid => r.active = r.grant /\ ~r.est
  /\ r.req # NoSid => r.active = NoSid

\* The parts of the types that the steps change together.
Queues == up \in [Clients -> Seq(UpMsgs)] /\ down \in [Clients -> Seq(DownMsgs)]
Ledger ==
  /\ table \in [Sids -> {"none", "pending", "accepted", "expired"}]
  /\ party \in [Sids -> [ctl : Clients, tgt : Clients]]
  /\ issued \in 0..MaxRequests /\ handler \in [Clients -> Handlers]
Outside ==
  /\ requests \in 0..MaxRequests /\ link \in [Clients -> {"up", "dead", "down"}]
  /\ troubles \in 0..MaxTroubles
ManagersFit == mgr \in [Clients -> Managers] /\ \A c \in Clients : Fits(mgr[c])

Sane == Queues /\ Ledger /\ Outside /\ ManagersFit /\ said \in [Sids -> {"none", "yes", "no"}]

LEMMA Numbers == MaxRequests \in Nat /\ MaxTroubles \in Nat /\ NoSid \notin Sids /\ NoSid = 0
  BY RequestsAssumption, TroublesAssumption DEF Sids, NoSid

-----------------------------------------------------------------------------
(* What the steps have in common.                                          *)

LEMMA Delivered ==
  ASSUME Queues, NEW c \in Clients, NEW x \in DownMsgs, Deliver(c, x)
  PROVE  /\ down' \in [Clients -> Seq(DownMsgs)]
         /\ \A d \in Clients : \A y : Holds(down'[d], y) => Holds(down[d], y) \/ (d = c /\ y = x)
         /\ (x.type = "incoming" => ~Holds(down[c], x))
              => \A d \in Clients : Once(down[d]) => Once(down'[d])
<1>1. CASE UNCHANGED down
  BY <1>1 DEF Queues
<1>2. CASE down' = [down EXCEPT ![c] = Append(@, x)]
  <2>1. down[c] \in Seq(DownMsgs)
    BY DEF Queues
  <2>2. /\ Append(down[c], x) \in Seq(DownMsgs)
        /\ \A y : Holds(Append(down[c], x), y) => Holds(down[c], y) \/ y = x
        /\ Once(down[c]) /\ (x.type = "incoming" => ~Holds(down[c], x)) => Once(Append(down[c], x))
    BY <2>1, AppendHolds
  <2>3. down'[c] = Append(down[c], x) /\ \A d \in Clients \ {c} : down'[d] = down[d]
    BY <1>2 DEF Queues
  <2> QED BY <1>2, <2>2, <2>3 DEF Queues
<1> QED BY <1>1, <1>2 DEF Deliver

LEMMA Received ==
  ASSUME Queues, NEW c \in Clients, NEW type, Receive(c, type)
  PROVE  /\ down' \in [Clients -> Seq(DownMsgs)]
         /\ Head(down[c]) \in DownMsgs /\ Head(down[c]).type = type /\ Holds(down[c], Head(down[c]))
         /\ \A d \in Clients : \A y : Holds(down'[d], y) => Holds(down[d], y)
         /\ \A d \in Clients : Once(down[d]) => Once(down'[d])
         /\ Once(down[c]) /\ type = "incoming" => ~Holds(down'[c], Head(down[c]))
<1>1. down[c] \in Seq(DownMsgs) /\ down[c] # <<>> /\ Head(down[c]).type = type
  BY DEF Queues, Receive
<1>2. /\ Tail(down[c]) \in Seq(DownMsgs) /\ Head(down[c]) \in DownMsgs
      /\ Holds(down[c], Head(down[c]))
      /\ \A y : Holds(Tail(down[c]), y) => Holds(down[c], y)
      /\ Once(down[c]) => /\ Once(Tail(down[c]))
                          /\ Head(down[c]).type = "incoming" => ~Holds(Tail(down[c]), Head(down[c]))
  BY <1>1, TailHolds
<1>3. /\ down' = [down EXCEPT ![c] = Tail(down[c])]
      /\ down'[c] = Tail(down[c]) /\ \A d \in Clients \ {c} : down'[d] = down[d]
  BY DEF Receive, Queues
<1> QED BY <1>1, <1>2, <1>3 DEF Queues

LEMMA ReadUp ==
  ASSUME Queues, NEW c \in Clients, NEW type, Reading(c, type)
  PROVE  /\ up' \in [Clients -> Seq(UpMsgs)]
         /\ Head(up[c]) \in UpMsgs /\ Head(up[c]).type = type /\ Holds(up[c], Head(up[c]))
         /\ \A d \in Clients : \A y : Holds(up'[d], y) => Holds(up[d], y)
<1>1. up[c] \in Seq(UpMsgs) /\ up[c] # <<>> /\ Head(up[c]).type = type
  BY DEF Queues, Reading
<1>2. /\ Tail(up[c]) \in Seq(UpMsgs) /\ Head(up[c]) \in UpMsgs
      /\ Holds(up[c], Head(up[c]))
      /\ \A y : Holds(Tail(up[c]), y) => Holds(up[c], y)
  BY <1>1, TailHolds
<1>3. /\ up' = [up EXCEPT ![c] = Tail(up[c])]
      /\ up'[c] = Tail(up[c]) /\ \A d \in Clients \ {c} : up'[d] = up[d]
  BY DEF Reading, Queues
<1> QED BY <1>1, <1>2, <1>3 DEF Queues

LEMMA Sent ==
  ASSUME Queues, NEW c \in Clients, NEW q \in Seq(UpMsgs), Send(c, q)
  PROVE  /\ up' \in [Clients -> Seq(UpMsgs)]
         /\ \A d \in Clients : \A y : Holds(up'[d], y) => Holds(up[d], y) \/ (d = c /\ Holds(q, y))
<1>1. up[c] \in Seq(UpMsgs)
  BY DEF Queues
<1>2. up[c] \o q \in Seq(UpMsgs) /\ \A y : Holds(up[c] \o q, y) => Holds(up[c], y) \/ Holds(q, y)
  BY <1>1, ConcatHolds
<1>3. /\ up' = [up EXCEPT ![c] = up[c] \o q]
      /\ up'[c] = up[c] \o q /\ \A d \in Clients \ {c} : up'[d] = up[d]
  BY DEF Send, Queues
<1> QED BY <1>2, <1>3 DEF Queues

\* One message, and the messages of an abort.
LEMMA OneHolds ==
  ASSUME NEW x \in UpMsgs
  PROVE  <<x>> \in Seq(UpMsgs) /\ \A y : Holds(<<x>>, y) => y = x
<1>1. <<x>> \in Seq(UpMsgs) /\ DOMAIN <<x>> = {1} /\ <<x>>[1] = x
  OBVIOUS
<1> QED BY <1>1 DEF Holds

LEMMA AbortHolds ==
  ASSUME NEW r \in Managers
  PROVE  AbortMsgs(r) \in Seq(UpMsgs) /\ \A s \in Sids : ~Holds(AbortMsgs(r), Resp(s, TRUE))
<1> DEFINE q == IF r.req # NoSid THEN <<Resp(r.req, FALSE)>> ELSE <<>>
           e == IF r.active # NoSid THEN <<End(r.active)>> ELSE <<>>
<1>1. q \in Seq(UpMsgs) /\ \A s \in Sids : ~Holds(q, Resp(s, TRUE))
  <2>1. CASE r.req # NoSid
    <3>1. r.req \in Sids /\ Resp(r.req, FALSE) \in UpMsgs /\ Resp(r.req, FALSE).ok = FALSE
      BY <2>1, MessageShapes DEF Managers
    <3>2. \A s \in Sids : Resp(s, TRUE) # Resp(r.req, FALSE)
      BY <3>1, MessageShapes
    <3> QED BY <2>1, <3>1, <3>2, OneHolds
  <2>2. CASE r.req = NoSid
    BY <2>2 DEF Holds
  <2> QED BY <2>1, <2>2
<1>2. e \in Seq(UpMsgs) /\ \A s \in Sids : ~Holds(e, Resp(s, TRUE))
  <2>1. CASE r.active # NoSid
    <3>1. r.active \in Sids /\ End(r.active) \in UpMsgs /\ End(r.active).type = "end"
      BY <2>1, MessageShapes DEF Managers
    <3>2. \A s \in Sids : Resp(s, TRUE) # End(r.active)
      BY <3>1, MessageShapes
    <3> QED BY <2>1, <3>1, <3>2, OneHolds
  <2>2. CASE r.active = NoSid
    BY <2>2 DEF Holds
  <2> QED BY <2>1, <2>2
<1>3. AbortMsgs(r) = q \o e
  BY DEF AbortMsgs
<1> HIDE DEF q, e
<1>4. q \o e \in Seq(UpMsgs) /\ \A y : Holds(q \o e, y) => Holds(q, y) \/ Holds(e, y)
  BY <1>1, <1>2, ConcatHolds
<1>5. \A s \in Sids : ~Holds(q \o e, Resp(s, TRUE))
  BY <1>1, <1>2, <1>4
<1> QED BY <1>3, <1>4, <1>5

-----------------------------------------------------------------------------
(* The invariant, for steps of the server and of a client.                 *)

Inv == Sane /\ Questions /\ Affirmed

AnswersStay == \A s \in Sids : said[s] # "none" => said'[s] = said[s]

\* Questions only disappear, and an answer takes its question with it.
LEMMA QuestionsKept ==
  ASSUME Questions, UNCHANGED <<party, issued>>,
         \A c \in Clients : Once(down'[c]),
         \A c \in Clients, s \in Sids : Asked(c, s)' => Asked(c, s),
         \A c \in Clients, s \in Sids : Holds(down'[c], Incoming(s)) => mgr'[c].req # s,
         \A c \in Clients, s \in Sids : Asking(c, s)' => Asking(c, s),
         \A s \in Sids : said'[s] = said[s] \/ \E c \in Clients : Asked(c, s) /\ ~Asked(c, s)'
  PROVE  Questions' /\ AnswersStay
<1>1. ASSUME NEW c \in Clients, NEW s \in Sids, Asked(c, s)'
      PROVE  /\ s <= issued' /\ said'[s] = "none" /\ party'[s].tgt = c
             /\ ~(Holds(down'[c], Incoming(s)) /\ mgr'[c].req = s)
  <2>1. Asked(c, s)
    BY <1>1
  <2>2. \A d \in Clients : Asked(d, s) => d = c
    BY <2>1 DEF Questions
  <2>3. said'[s] = said[s]
    BY <1>1, <2>2
  <2> QED BY <2>1, <2>3 DEF Questions
<1>2. ASSUME NEW c \in Clients, NEW s \in Sids, Asking(c, s)'
      PROVE  /\ s <= issued' /\ said'[s] = "none" /\ party'[s].ctl = c
             /\ \A d \in Clients : ~Asked(d, s)'
  <2>1. Asking(c, s)
    BY <1>2
  <2>2. \A d \in Clients : ~Asked(d, s)
    BY <2>1 DEF Questions
  <2> QED BY <2>1, <2>2 DEF Questions
<1>3. \A s \in Sids : s <= issued' \/ said'[s] = "none"
  BY DEF Questions
<1>4. AnswersStay
  BY DEF AnswersStay, Questions
<1>5. Questions'
  BY <1>1, <1>2, <1>3 DEF Questions
<1> QED BY <1>4, <1>5

\* The server takes messages from the clients, and sends them no question and
\* no yes that was not said.
UpKept ==
  /\ up' \in [Clients -> Seq(UpMsgs)]
  /\ \A d \in Clients, s \in Sids : Holds(up'[d], Resp(s, TRUE)) => Holds(up[d], Resp(s, TRUE))

DownKept ==
  /\ down' \in [Clients -> Seq(DownMsgs)] /\ \A d \in Clients : Once(down'[d])
  /\ \A d \in Clients, s \in Sids :
       /\ Holds(down'[d], Incoming(s)) => Holds(down[d], Incoming(s))
       /\ Holds(down'[d], Resp(s, TRUE)) => Holds(down[d], Resp(s, TRUE)) \/ said[s] = "yes"

LEMMA ServerStep ==
  ASSUME Inv, NEW c \in Clients, NEW h \in Handlers, handler' = [handler EXCEPT ![c] = h],
         UNCHANGED <<party, issued, requests, troubles, mgr, said>>,
         table' \in [Sids -> {"none", "pending", "accepted", "expired"}],
         link' \in [Clients -> {"up", "dead", "down"}],
         h.pc # "incoming", h.pc \in {"notify", "mark"} /\ h.ok => said[h.sid] = "yes",
         UpKept, DownKept
  PROVE  Inv' /\ AnswersStay
<1> USE DEF UpKept, DownKept
<1>1. handler' \in [Clients -> Handlers] /\ handler'[c] = h
      /\ \A d \in Clients \ {c} : handler'[d] = handler[d]
  BY DEF Inv, Sane, Queues, Ledger, Outside, ManagersFit
<1>2. Sane'
  BY <1>1 DEF Inv, Sane, Queues, Ledger, Outside, ManagersFit
<1>3. Questions' /\ AnswersStay
  <2>1. \A d \in Clients, s \in Sids : Asked(d, s)' => Asked(d, s)
    BY DEF Asked
  <2>2. ASSUME NEW d \in Clients, NEW s \in Sids, Holds(down'[d], Incoming(s))
        PROVE  mgr'[d].req # s
    <3>1. Holds(down[d], Incoming(s))
      BY <2>2
    <3> QED BY <3>1 DEF Inv, Questions, Asked
  <2>3. \A d \in Clients, s \in Sids : Asking(d, s)' => Asking(d, s)
    BY <1>1 DEF Asking
  <2>4. Questions
    BY DEF Inv
  <2> QED BY <2>1, <2>2, <2>3, <2>4, QuestionsKept
<1>4. Affirmed'
  <2> SUFFICES ASSUME NEW d \in Clients, NEW s \in Sids,
                      \/ Holds(up'[d], Resp(s, TRUE)) \/ Holds(down'[d], Resp(s, TRUE))
                      \/ handler'[d].pc \in {"notify", "mark"} /\ handler'[d].sid = s /\ handler'[d].ok
                      \/ mgr'[d].early = s
                      \/ HasTask(d)' /\ mgr'[d].active = s
               PROVE  said'[s] = "yes"
    BY DEF Affirmed
  <2>1. CASE Holds(up'[d], Resp(s, TRUE)) \/ Holds(down'[d], Resp(s, TRUE))
    <3>1. Holds(up[d], Resp(s, TRUE)) \/ Holds(down[d], Resp(s, TRUE)) \/ said[s] = "yes"
      BY <2>1
    <3> QED BY <3>1 DEF Inv, Affirmed
  <2>2. CASE handler'[d].pc \in {"notify", "mark"} /\ handler'[d].sid = s /\ handler'[d].ok
    <3>1. CASE d = c
      BY <1>1, <2>2, <3>1
    <3>2. CASE d # c
      <4>1. handler[d].pc \in {"notify", "mark"} /\ handler[d].sid = s /\ handler[d].ok
        BY <1>1, <2>2, <3>2
      <4> QED BY <4>1 DEF Inv, Affirmed
    <3> QED BY <3>1, <3>2
  <2>3. CASE mgr'[d].early = s \/ (HasTask(d)' /\ mgr'[d].active = s)
    BY <2>3 DEF Inv, Affirmed, HasTask
  <2> QED BY <2>1, <2>2, <2>3
<1> QED BY <1>2, <1>3, <1>4 DEF Inv

\* A client takes messages, and sends no yes but for its answer.
UpAnswers ==
  /\ up' \in [Clients -> Seq(UpMsgs)]
  /\ \A d \in Clients, s \in Sids :
       Holds(up'[d], Resp(s, TRUE)) => Holds(up[d], Resp(s, TRUE)) \/ said'[s] = "yes"

DownTaken ==
  /\ down' \in [Clients -> Seq(DownMsgs)] /\ \A d \in Clients : Once(down'[d])
  /\ \A d \in Clients : \A y : Holds(down'[d], y) => Holds(down[d], y)

LEMMA ClientStep ==
  ASSUME Inv, NEW c \in Clients, NEW r, Fits(r), mgr' = [mgr EXCEPT ![c] = r],
         UNCHANGED serverVars, Outside', said' \in [Sids -> {"none", "yes", "no"}],
         UpAnswers, DownTaken,
         r.req \in {NoSid, mgr[c].req}
           \/ (Holds(down[c], Incoming(r.req)) /\ ~Holds(down'[c], Incoming(r.req))),
         \A s \in Sids : \/ said'[s] = said[s]
                         \/ Asked(c, s) /\ ~Holds(down'[c], Incoming(s)) /\ r.req # s,
         r.early \in {NoSid, mgr[c].early} \/ said[r.early] = "yes",
         r.active # NoSid /\ r.grant = NoSid =>
           \/ HasTask(c) /\ mgr[c].active = r.active
           \/ said[r.active] = "yes" \/ said'[r.active] = "yes"
  PROVE  Inv' /\ AnswersStay
<1> USE DEF UpAnswers, DownTaken
<1>1. /\ mgr' \in [Clients -> Managers] /\ mgr'[c] = r /\ \A d \in Clients \ {c} : mgr'[d] = mgr[d]
      /\ \A d \in Clients : Fits(mgr'[d])
  BY DEF Inv, Sane, ManagersFit, Fits
<1>2. Sane'
  BY <1>1 DEF Inv, Sane, Queues, Ledger, Outside, ManagersFit, Fits, serverVars
<1>3. Questions' /\ AnswersStay
  <2>1. ASSUME NEW d \in Clients, NEW s \in Sids, Asked(d, s)' PROVE Asked(d, s)
    BY <1>1, <2>1, Numbers DEF Asked
  <2>2. ASSUME NEW d \in Clients, NEW s \in Sids, Holds(down'[d], Incoming(s))
        PROVE  mgr'[d].req # s
    <3>1. Holds(down[d], Incoming(s)) /\ mgr[d].req # s
      BY <2>2 DEF Inv, Questions, Asked
    <3> QED BY <1>1, <2>2, <3>1, Numbers
  <2>3. \A d \in Clients, s \in Sids : Asking(d, s)' => Asking(d, s)
    BY DEF Asking, serverVars
  <2>4. \A s \in Sids : said'[s] = said[s] \/ \E d \in Clients : Asked(d, s) /\ ~Asked(d, s)'
    BY <1>1 DEF Asked
  <2>5. Questions /\ UNCHANGED <<party, issued>>
    BY DEF Inv, serverVars
  <2> QED BY <2>1, <2>2, <2>3, <2>4, <2>5, QuestionsKept
<1>4. \A s \in Sids : said[s] = "yes" => said'[s] = "yes"
  BY <1>3 DEF AnswersStay
<1>5. Affirmed'
  <2> SUFFICES ASSUME NEW d \in Clients, NEW s \in Sids,
                      \/ Holds(up'[d], Resp(s, TRUE)) \/ Holds(down'[d], Resp(s, TRUE))
                      \/ handler'[d].pc \in {"notify", "mark"} /\ handler'[d].sid = s /\ handler'[d].ok
                      \/ mgr'[d].early = s
                      \/ HasTask(d)' /\ mgr'[d].active = s
               PROVE  said'[s] = "yes"
    BY DEF Affirmed
  <2>1. CASE Holds(up'[d], Resp(s, TRUE)) \/ Holds(down'[d], Resp(s, TRUE))
    BY <1>4, <2>1 DEF Inv, Affirmed
  <2>2. CASE handler'[d].pc \in {"notify", "mark"} /\ handler'[d].sid = s /\ handler'[d].ok
    <3>1. handler' = handler
      BY DEF serverVars
    <3>2. said[s] = "yes"
      BY <2>2, <3>1 DEF Inv, Affirmed
    <3> QED BY <1>4, <3>2
  <2>3. CASE mgr'[d].early = s
    BY <1>1, <1>4, <2>3, Numbers DEF Inv, Affirmed
  <2>4. CASE HasTask(d)' /\ mgr'[d].active = s
    <3>1. mgr'[d].active = s /\ mgr'[d].active # NoSid /\ mgr'[d].grant = NoSid
      BY <2>4 DEF HasTask
    <3>2. (HasTask(d) /\ mgr[d].active = s) \/ said[s] = "yes" \/ said'[s] = "yes"
      BY <1>1, <3>1 DEF HasTask
    <3> QED BY <1>4, <3>2 DEF Inv, Affirmed
  <2> QED BY <2>1, <2>2, <2>3, <2>4
<1> QED BY <1>2, <1>3, <1>5 DEF Inv

LEMMA Known ==
  ASSUME Inv, NEW c \in Clients
  PROVE  /\ Queues /\ Ledger /\ Outside
         /\ handler[c] \in Handlers /\ Fits(mgr[c]) /\ mgr[c] \in Managers
         /\ \A s \in Sids : party[s].ctl \in Clients /\ party[s].tgt \in Clients /\ Peer(c, s) \in Clients
         /\ \A s \in Sids : Removed(s) \in [Sids -> {"none", "pending", "accepted", "expired"}]
         /\ said \in [Sids -> {"none", "yes", "no"}]
<1>1. Queues /\ Ledger /\ Outside /\ ManagersFit /\ said \in [Sids -> {"none", "yes", "no"}]
  BY DEF Inv, Sane
<1> QED BY <1>1 DEF Ledger, ManagersFit, Peer, Removed

LEMMA Untouched ==
  ASSUME Inv
  PROVE  (UNCHANGED up => UpKept) /\ (UNCHANGED down => DownKept)
  BY DEF Inv, Sane, Queues, Questions, UpKept, DownKept

LEMMA Taken ==
  ASSUME Inv, NEW c \in Clients, NEW type, Reading(c, type)
  PROVE  UpKept /\ Head(up[c]) \in UpMsgs /\ Head(up[c]).type = type /\ Holds(up[c], Head(up[c]))
<1>1. Queues
  BY Known
<1> QED BY <1>1, ReadUp DEF UpKept

LEMMA Told ==
  ASSUME Inv, NEW c \in Clients, NEW x \in DownMsgs, Deliver(c, x), x.type # "incoming",
         \A s \in Sids : x = Resp(s, TRUE) => said[s] = "yes"
  PROVE  DownKept
<1>1. Queues /\ \A d \in Clients : Once(down[d])
  BY Known DEF Inv, Questions
<1>2. /\ down' \in [Clients -> Seq(DownMsgs)] /\ \A d \in Clients : Once(down'[d])
      /\ \A d \in Clients : \A y : Holds(down'[d], y) => Holds(down[d], y) \/ (d = c /\ y = x)
  BY <1>1, Delivered
<1>3. \A s \in Sids : Incoming(s) # x
  BY MessageShapes
<1> QED BY <1>2, <1>3 DEF DownKept

-----------------------------------------------------------------------------
(* The server's steps.                                                     *)

LEMMA IdleHandler == Receiving \in Handlers /\ Receiving.pc = "recv"
  BY DEF Handlers, Receiving

LEMMA DenyIsNoYes ==
  Deny \in DownMsgs /\ Deny.type # "incoming" /\ \A s \in Sids : Deny # Resp(s, TRUE)
  BY MessageShapes

LEMMA ConnectDeniedInv ==
  ASSUME Inv, NEW c \in Clients, ConnectDenied(c)
  PROVE  Inv' /\ AnswersStay
<1>1. Reading(c, "connect") /\ Deliver(c, Deny) /\ handler[c] = Receiving
      /\ UNCHANGED <<table, party, issued, handler, requests, link, troubles, mgr, said>>
  BY DEF ConnectDenied, Reading, serverVars, linkVars
<1>2. UpKept /\ DownKept
  BY <1>1, Taken, Told, DenyIsNoYes
<1>3. handler' = [handler EXCEPT ![c] = Receiving]
  BY <1>1, Known DEF Ledger
<1>4. /\ table' \in [Sids -> {"none", "pending", "accepted", "expired"}]
      /\ link' \in [Clients -> {"up", "dead", "down"}]
  BY <1>1, Known DEF Ledger, Outside
<1> QED BY <1>1, <1>2, <1>3, <1>4, IdleHandler, ServerStep

LEMMA ConnectAllowedInv ==
  ASSUME Inv, NEW c \in Clients, ConnectAllowed(c)
  PROVE  Inv' /\ AnswersStay
<1> DEFINE h == [pc |-> "issue", to |-> Head(up[c]).to]
<1>1. Reading(c, "connect") /\ handler' = [handler EXCEPT ![c] = h]
      /\ UNCHANGED <<table, party, issued, requests, link, troubles, down, mgr, said>>
  BY DEF ConnectAllowed, linkVars, Goto
<1>2. UpKept /\ DownKept
  BY <1>1, Taken, Untouched
<1>3. h \in Handlers /\ h.pc = "issue"
  BY <1>1, Taken, UpShapes DEF Handlers
<1>4. /\ table' \in [Sids -> {"none", "pending", "accepted", "expired"}]
      /\ link' \in [Clients -> {"up", "dead", "down"}]
  BY <1>1, Known DEF Ledger, Outside
<1> HIDE DEF h
<1> QED BY <1>1, <1>2, <1>3, <1>4, ServerStep

LEMMA IncomingFailsInv ==
  ASSUME Inv, NEW c \in Clients, IncomingFails(c)
  PROVE  Inv' /\ AnswersStay
<1>1. /\ handler[c].pc = "incoming" /\ table' = Removed(handler[c].sid)
      /\ Deliver(c, Deny) /\ handler' = [handler EXCEPT ![c] = Receiving]
      /\ UNCHANGED <<party, issued, requests, link, troubles, up, mgr, said>>
  BY DEF IncomingFails, linkVars, Goto
<1>2. UpKept /\ DownKept
  BY <1>1, Told, DenyIsNoYes, Untouched
<1>3. /\ table' \in [Sids -> {"none", "pending", "accepted", "expired"}]
      /\ link' \in [Clients -> {"up", "dead", "down"}]
  BY <1>1, Known, HandlerShapes DEF Outside
<1> QED BY <1>1, <1>2, <1>3, IdleHandler, ServerStep

LEMMA SendGrantInv ==
  ASSUME Inv, NEW c \in Clients, SendGrant(c)
  PROVE  Inv' /\ AnswersStay
<1>1. /\ handler[c].pc = "grant" /\ Deliver(c, Grant(handler[c].sid))
      /\ handler' = [handler EXCEPT ![c] = Receiving]
      /\ UNCHANGED <<table, party, issued, requests, link, troubles, up, mgr, said>>
  BY DEF SendGrant, linkVars, Goto
<1>2. handler[c].sid \in Sids
  BY <1>1, Known, HandlerShapes
<1>3. UpKept /\ DownKept
  <2>1. Grant(handler[c].sid) \in DownMsgs /\ Grant(handler[c].sid).type = "grant"
    BY <1>2, MessageShapes
  <2>2. \A s \in Sids : Grant(handler[c].sid) # Resp(s, TRUE)
    BY <2>1, MessageShapes
  <2> QED BY <1>1, <2>1, <2>2, Told, Untouched
<1>4. /\ table' \in [Sids -> {"none", "pending", "accepted", "expired"}]
      /\ link' \in [Clients -> {"up", "dead", "down"}]
  BY <1>1, Known DEF Ledger, Outside
<1> QED BY <1>1, <1>3, <1>4, IdleHandler, ServerStep

LEMMA GrantFailsInv ==
  ASSUME Inv, NEW c \in Clients, GrantFails(c)
  PROVE  Inv' /\ AnswersStay
<1> DEFINE h == [pc |-> "tell", sid |-> handler[c].sid]
<1>1. /\ handler[c].pc = "grant" /\ table' = Removed(handler[c].sid)
      /\ handler' = [handler EXCEPT ![c] = h]
      /\ UNCHANGED <<party, issued, requests, link, troubles, up, down, mgr, said>>
  BY DEF GrantFails, linkVars, Goto
<1>2. handler[c].sid \in Sids
  BY <1>1, Known, HandlerShapes
<1>3. h \in Handlers /\ h.pc = "tell"
  BY <1>2 DEF Handlers
<1>4. /\ table' \in [Sids -> {"none", "pending", "accepted", "expired"}]
      /\ link' \in [Clients -> {"up", "dead", "down"}]
  BY <1>1, <1>2, Known DEF Outside
<1> HIDE DEF h
<1> QED BY <1>1, <1>3, <1>4, Untouched, ServerStep

\* The handler repeats what the target has said.
LEMMA RecvResponseInv ==
  ASSUME Inv, NEW c \in Clients, RecvResponse(c)
  PROVE  Inv' /\ AnswersStay
<1> DEFINE x == Head(up[c])
           n == [pc |-> "notify", sid |-> x.sid, ok |-> x.ok]
           h == IF Present(x.sid) /\ party[x.sid].tgt = c THEN n ELSE Receiving
<1>1. /\ Reading(c, "resp") /\ handler' = [handler EXCEPT ![c] = h]
      /\ UNCHANGED <<table, party, issued, requests, link, troubles, down, mgr, said>>
  BY DEF RecvResponse, linkVars, Goto
<1>2. UpKept /\ DownKept /\ x \in UpMsgs /\ x.type = "resp" /\ Holds(up[c], x)
  BY <1>1, Taken, Untouched
<1>3. x.sid \in Sids /\ x.ok \in BOOLEAN /\ x = Resp(x.sid, x.ok)
  BY <1>2, UpShapes
<1>4. x.ok => said[x.sid] = "yes"
  BY <1>2, <1>3 DEF Inv, Affirmed
<1>5. n \in Handlers /\ n.pc = "notify" /\ n.sid = x.sid /\ n.ok = x.ok
  BY <1>3 DEF Handlers
<1>6. h \in Handlers /\ h.pc # "incoming" /\ (h.pc \in {"notify", "mark"} /\ h.ok => said[h.sid] = "yes")
  BY <1>4, <1>5, IdleHandler
<1>7. /\ table' \in [Sids -> {"none", "pending", "accepted", "expired"}]
      /\ link' \in [Clients -> {"up", "dead", "down"}]
  BY <1>1, Known DEF Ledger, Outside
<1> HIDE DEF h
<1> QED BY <1>1, <1>2, <1>6, <1>7, ServerStep

LEMMA NotifyControllerInv ==
  ASSUME Inv, NEW c \in Clients, NotifyController(c)
  PROVE  Inv' /\ AnswersStay
<1> DEFINE h == [handler[c] EXCEPT !.pc = "mark"]
           x == Resp(handler[c].sid, handler[c].ok)
<1>1. /\ handler[c].pc = "notify" /\ Deliver(party[handler[c].sid].ctl, x)
      /\ handler' = [handler EXCEPT ![c] = h]
      /\ UNCHANGED <<table, party, issued, requests, link, troubles, up, mgr, said>>
  BY DEF NotifyController, linkVars, Goto
<1>2. /\ handler[c].sid \in Sids /\ handler[c].ok \in BOOLEAN /\ h \in Handlers /\ h.pc = "mark"
      /\ h.sid = handler[c].sid /\ h.ok = handler[c].ok
  BY <1>1, Known, HandlerShapes
<1>3. handler[c].ok => said[handler[c].sid] = "yes"
  BY <1>1, <1>2 DEF Inv, Affirmed
<1>4. x \in DownMsgs /\ x.type = "resp" /\ x.sid = handler[c].sid /\ x.ok = handler[c].ok
  BY <1>2, MessageShapes
<1>5. \A s \in Sids : x = Resp(s, TRUE) => said[s] = "yes"
  <2> SUFFICES ASSUME NEW s \in Sids, x = Resp(s, TRUE) PROVE said[s] = "yes"
    OBVIOUS
  <2>1. Resp(s, TRUE).ok = TRUE /\ Resp(s, TRUE).sid = s
    BY MessageShapes
  <2>2. handler[c].ok = TRUE /\ handler[c].sid = s
    BY <1>4, <2>1
  <2> QED BY <1>3, <2>2
<1>6. party[handler[c].sid].ctl \in Clients
  BY <1>2, Known
<1> HIDE DEF h, x
<1>7. UpKept /\ DownKept
  BY <1>1, <1>4, <1>5, <1>6, Told, Untouched
<1>8. /\ table' \in [Sids -> {"none", "pending", "accepted", "expired"}]
      /\ link' \in [Clients -> {"up", "dead", "down"}]
  BY <1>1, Known DEF Ledger, Outside
<1> QED BY <1>1, <1>2, <1>3, <1>7, <1>8, ServerStep

LEMMA MarkInv ==
  ASSUME Inv, NEW c \in Clients, Mark(c)
  PROVE  Inv' /\ AnswersStay
<1>1. /\ handler[c].pc = "mark" /\ handler' = [handler EXCEPT ![c] = Receiving]
      /\ UNCHANGED <<party, issued, requests, link, troubles, up, down, mgr, said>>
  BY DEF Mark, linkVars, Goto
<1>2. /\ table' \in [Sids -> {"none", "pending", "accepted", "expired"}]
      /\ link' \in [Clients -> {"up", "dead", "down"}]
  BY <1>1, Known, HandlerShapes DEF Mark, Ledger, Outside
<1> QED BY <1>1, <1>2, IdleHandler, Untouched, ServerStep

LEMMA RecvEndInv ==
  ASSUME Inv, NEW c \in Clients, RecvEnd(c)
  PROVE  Inv' /\ AnswersStay
<1> DEFINE s == Head(up[c]).sid
           h == IF Present(s) /\ c \in Parties(s) THEN [pc |-> "remove", sid |-> s] ELSE Receiving
<1>1. /\ Reading(c, "end") /\ handler' = [handler EXCEPT ![c] = h]
      /\ UNCHANGED <<table, party, issued, requests, link, troubles, down, mgr, said>>
  BY DEF RecvEnd, linkVars, Goto
<1>2. UpKept /\ DownKept /\ s \in Sids
  BY <1>1, Taken, Untouched, UpShapes
<1>3. h \in Handlers /\ h.pc \in {"remove", "recv"}
  <2>1. [pc |-> "remove", sid |-> s] \in Handlers
    BY <1>2 DEF Handlers
  <2> QED BY <2>1, IdleHandler
<1>4. /\ table' \in [Sids -> {"none", "pending", "accepted", "expired"}]
      /\ link' \in [Clients -> {"up", "dead", "down"}]
  BY <1>1, Known DEF Ledger, Outside
<1> HIDE DEF h
<1> QED BY <1>1, <1>2, <1>3, <1>4, ServerStep

LEMMA RemoveSessionInv ==
  ASSUME Inv, NEW c \in Clients, RemoveSession(c)
  PROVE  Inv' /\ AnswersStay
<1> DEFINE h == [handler[c] EXCEPT !.pc = "tell"]
<1>1. /\ handler[c].pc = "remove" /\ table' = Removed(handler[c].sid)
      /\ handler' = [handler EXCEPT ![c] = h]
      /\ UNCHANGED <<party, issued, requests, link, troubles, up, down, mgr, said>>
  BY DEF RemoveSession, linkVars, Goto
<1>2. handler[c].sid \in Sids /\ h \in Handlers /\ h.pc = "tell"
  BY <1>1, Known, HandlerShapes
<1>3. /\ table' \in [Sids -> {"none", "pending", "accepted", "expired"}]
      /\ link' \in [Clients -> {"up", "dead", "down"}]
  BY <1>1, <1>2, Known DEF Outside
<1> HIDE DEF h
<1> QED BY <1>1, <1>2, <1>3, Untouched, ServerStep

\* The end of a session is told to the other end.
LEMMA EndTold ==
  ASSUME Inv, NEW c \in Clients, NEW s \in Sids, Deliver(Peer(c, s), End(s))
  PROVE  DownKept
<1>1. Peer(c, s) \in Clients
  BY Known
<1>2. End(s) \in DownMsgs /\ End(s).type = "end"
  BY MessageShapes
<1>3. \A r \in Sids : End(s) # Resp(r, TRUE)
  BY <1>2, MessageShapes
<1> QED BY <1>1, <1>2, <1>3, Told

LEMMA TellPeerInv ==
  ASSUME Inv, NEW c \in Clients, TellPeer(c)
  PROVE  Inv' /\ AnswersStay
<1>1. /\ handler[c].pc = "tell" /\ Deliver(Peer(c, handler[c].sid), End(handler[c].sid))
      /\ handler' = [handler EXCEPT ![c] = Receiving]
      /\ UNCHANGED <<table, party, issued, requests, link, troubles, up, mgr, said>>
  BY DEF TellPeer, linkVars, Goto
<1>2. handler[c].sid \in Sids
  BY <1>1, Known, HandlerShapes
<1>3. UpKept /\ DownKept
  BY <1>1, <1>2, EndTold, Untouched
<1>4. /\ table' \in [Sids -> {"none", "pending", "accepted", "expired"}]
      /\ link' \in [Clients -> {"up", "dead", "down"}]
  BY <1>1, Known DEF Ledger, Outside
<1> QED BY <1>1, <1>3, <1>4, IdleHandler, ServerStep

LEMMA RemoveForClientInv ==
  ASSUME Inv, NEW c \in Clients, RemoveForClient(c)
  PROVE  Inv' /\ AnswersStay
<1> DEFINE mine == {s \in Sids : Present(s) /\ c \in Parties(s)}
           h == [pc |-> "cleanup", left |-> mine]
<1>1. /\ table' = [s \in Sids |-> IF s \in mine THEN "none" ELSE table[s]]
      /\ handler' = [handler EXCEPT ![c] = h]
      /\ UNCHANGED <<party, issued, requests, link, troubles, up, down, mgr, said>>
  BY DEF RemoveForClient, linkVars, Goto
<1>2. h \in Handlers /\ h.pc = "cleanup"
  BY DEF Handlers
<1> HIDE DEF mine, h
<1>3. /\ table' \in [Sids -> {"none", "pending", "accepted", "expired"}]
      /\ link' \in [Clients -> {"up", "dead", "down"}]
  BY <1>1, Known DEF Ledger, Outside
<1> QED BY <1>1, <1>2, <1>3, Untouched, ServerStep

LEMMA TellLeftInv ==
  ASSUME Inv, NEW c \in Clients, TellLeft(c)
  PROVE  Inv' /\ AnswersStay
<1>1. PICK s \in handler[c].left :
        /\ Deliver(Peer(c, s), End(s))
        /\ handler' = [handler EXCEPT ![c] = [handler[c] EXCEPT !.left = @ \ {s}]]
  BY DEF TellLeft, Goto
<1> DEFINE h == [handler[c] EXCEPT !.left = @ \ {s}]
<1>2. /\ handler[c].pc = "cleanup"
      /\ UNCHANGED <<table, party, issued, requests, link, troubles, up, mgr, said>>
  BY DEF TellLeft, linkVars
<1>3. s \in Sids /\ h \in Handlers /\ h.pc = "cleanup"
  <2>1. handler[c] \in Handlers /\ handler[c].left \subseteq Sids
    BY <1>2, Known, HandlerShapes
  <2> QED BY <1>1, <1>2, <2>1, HandlerShapes
<1>4. UpKept /\ DownKept
  BY <1>1, <1>2, <1>3, EndTold, Untouched
<1>5. /\ table' \in [Sids -> {"none", "pending", "accepted", "expired"}]
      /\ link' \in [Clients -> {"up", "dead", "down"}]
  BY <1>2, Known DEF Ledger, Outside
<1>6. handler' = [handler EXCEPT ![c] = h]
  BY <1>1
<1> HIDE DEF h
<1> QED BY <1>2, <1>3, <1>4, <1>5, <1>6, ServerStep

LEMMA UnregisterInv ==
  ASSUME Inv, NEW c \in Clients, Unregister(c)
  PROVE  Inv' /\ AnswersStay
<1>1. /\ link' = [link EXCEPT ![c] = "down"] /\ handler' = [handler EXCEPT ![c] = Receiving]
      /\ UNCHANGED <<table, party, issued, requests, troubles, up, down, mgr, said>>
  BY DEF Unregister, Goto
<1>2. /\ table' \in [Sids -> {"none", "pending", "accepted", "expired"}]
      /\ link' \in [Clients -> {"up", "dead", "down"}]
  BY <1>1, Known DEF Ledger, Outside
<1> QED BY <1>1, <1>2, IdleHandler, Untouched, ServerStep

\* A new session has no question yet, but for its handler's.
LEMMA IssueInv ==
  ASSUME Inv, NEW c \in Clients, Issue(c)
  PROVE  Inv' /\ AnswersStay
<1> DEFINE s == issued + 1
           h == [pc |-> "incoming", sid |-> s]
<1>1. /\ handler[c].pc = "issue" /\ issued < MaxRequests
      /\ party' = [party EXCEPT ![s] = [ctl |-> c, tgt |-> handler[c].to]]
      /\ issued' = s /\ handler' = [handler EXCEPT ![c] = h]
      /\ UNCHANGED <<requests, link, troubles, up, down, mgr, said>>
  BY DEF Issue, linkVars, Goto
<1>2. PICK old \in SUBSET {r \in Sids : Present(r)} :
        table' = [r \in Sids |-> IF r = s THEN "pending"
                                 ELSE IF r \in old THEN "expired" ELSE table[r]]
  BY DEF Issue
<1>3. s \in Sids /\ issued \in Int /\ s \in 0..MaxRequests /\ ~(s <= issued)
      /\ \A r \in Sids : r <= issued => r <= s /\ r # s
  BY <1>1, Numbers, Known DEF Ledger, Sids
<1>4. h \in Handlers /\ h.pc = "incoming" /\ h.sid = s
  BY <1>3 DEF Handlers
<1>5. handler[c].to \in Clients
  BY <1>1, Known, HandlerShapes
<1> HIDE DEF h, s
<1>6. Sane'
  <2>1. Ledger'
    BY <1>1, <1>2, <1>3, <1>4, <1>5, Known DEF Ledger
  <2>2. Queues' /\ Outside' /\ ManagersFit' /\ said' \in [Sids -> {"none", "yes", "no"}]
    BY <1>1 DEF Inv, Sane, Queues, Outside, ManagersFit, Fits
  <2> QED BY <2>1, <2>2 DEF Sane, Ledger, Queues, Outside, ManagersFit, Fits
<1>7. /\ handler'[c] = h /\ \A d \in Clients \ {c} : handler'[d] = handler[d]
      /\ \A r \in Sids \ {s} : party'[r] = party[r]
      /\ party'[s].ctl = c
  BY <1>1, <1>3, <1>4, Known DEF Ledger
<1>8. Questions'
  <2>1. ASSUME NEW d \in Clients, NEW r \in Sids, Asked(d, r)'
        PROVE  /\ r <= issued' /\ said'[r] = "none" /\ party'[r].tgt = d
               /\ ~(Holds(down'[d], Incoming(r)) /\ mgr'[d].req = r)
    <3>1. Asked(d, r)
      BY <1>1, <2>1 DEF Asked
    <3> QED BY <1>1, <1>3, <1>7, <3>1 DEF Inv, Questions
  <2>2. ASSUME NEW d \in Clients, NEW r \in Sids, Asking(d, r)'
        PROVE  /\ r <= issued' /\ said'[r] = "none" /\ party'[r].ctl = d
               /\ \A e \in Clients : ~Asked(e, r)'
    <3>1. \A e \in Clients : Asked(e, r)' => Asked(e, r)
      BY <1>1 DEF Asked
    <3>2. CASE d = c
      <4>1. r = s
        BY <1>4, <1>7, <2>2, <3>2 DEF Asking
      <4>2. said[r] = "none" /\ \A e \in Clients : ~Asked(e, r)
        BY <1>3, <4>1 DEF Inv, Questions
      <4>3. r <= issued'
        BY <1>1, <1>3, <4>1
      <4> QED BY <1>1, <1>7, <3>1, <3>2, <4>1, <4>2, <4>3
    <3>3. CASE d # c
      <4>1. Asking(d, r)
        BY <1>7, <2>2, <3>3 DEF Asking
      <4>2. r <= issued /\ said[r] = "none" /\ party[r].ctl = d /\ \A e \in Clients : ~Asked(e, r)
        BY <4>1 DEF Inv, Questions
      <4> QED BY <1>1, <1>3, <1>7, <3>1, <4>2
    <3> QED BY <3>2, <3>3
  <2>3. \A r \in Sids : r <= issued' \/ said'[r] = "none"
    BY <1>1, <1>3 DEF Inv, Questions
  <2>4. \A d \in Clients : Once(down'[d])
    BY <1>1 DEF Inv, Questions
  <2> QED BY <2>1, <2>2, <2>3, <2>4 DEF Questions
<1>9. Affirmed'
  <2> SUFFICES ASSUME NEW d \in Clients, NEW r \in Sids,
                      \/ Holds(up'[d], Resp(r, TRUE)) \/ Holds(down'[d], Resp(r, TRUE))
                      \/ handler'[d].pc \in {"notify", "mark"} /\ handler'[d].sid = r /\ handler'[d].ok
                      \/ mgr'[d].early = r
                      \/ HasTask(d)' /\ mgr'[d].active = r
               PROVE  said'[r] = "yes"
    BY DEF Affirmed
  <2>1. CASE handler'[d].pc \in {"notify", "mark"} /\ handler'[d].sid = r /\ handler'[d].ok
    <3>1. handler'[d] = handler[d]
      BY <1>4, <1>7, <2>1
    <3> QED BY <1>1, <2>1, <3>1 DEF Inv, Affirmed
  <2>2. CASE ~(handler'[d].pc \in {"notify", "mark"} /\ handler'[d].sid = r /\ handler'[d].ok)
    BY <1>1, <2>2 DEF Inv, Affirmed, HasTask
  <2> QED BY <2>1, <2>2
<1> QED BY <1>1, <1>6, <1>8, <1>9 DEF Inv, AnswersStay

\* The question moves from the handler to the target.
LEMMA SendIncomingInv ==
  ASSUME Inv, NEW c \in Clients, SendIncoming(c)
  PROVE  Inv' /\ AnswersStay
<1> DEFINE s == handler[c].sid
           t == party[s].tgt
           h == [pc |-> "grant", sid |-> s]
<1>1. /\ handler[c].pc = "incoming" /\ Deliver(t, Incoming(s)) /\ handler' = [handler EXCEPT ![c] = h]
      /\ UNCHANGED <<table, party, issued, requests, link, troubles, up, mgr, said>>
  BY DEF SendIncoming, linkVars, Goto
<1>2. s \in Sids /\ t \in Clients /\ Asking(c, s) /\ Queues
  BY <1>1, Known, HandlerShapes DEF Asking
<1>3. /\ s <= issued /\ said[s] = "none" /\ party[s].ctl = c /\ \A d \in Clients : ~Asked(d, s)
  BY <1>2 DEF Inv, Questions
<1>4. h \in Handlers /\ h.pc = "grant"
  BY <1>2 DEF Handlers
<1>5. /\ Incoming(s) \in DownMsgs
      /\ \A r \in Sids : Incoming(s) # Resp(r, TRUE) /\ (Incoming(r) = Incoming(s) => r = s)
  <2>1. Incoming(s) \in DownMsgs /\ Incoming(s).type = "incoming" /\ Incoming(s).sid = s
    BY <1>2, MessageShapes
  <2>2. \A r \in Sids : Incoming(r).sid = r /\ Resp(r, TRUE).type = "resp"
    BY MessageShapes
  <2> QED BY <2>1, <2>2
<1> HIDE DEF h, s, t
<1>6. /\ down' \in [Clients -> Seq(DownMsgs)]
      /\ \A d \in Clients : \A y : Holds(down'[d], y) => Holds(down[d], y) \/ (d = t /\ y = Incoming(s))
      /\ \A d \in Clients : Once(down[d]) => Once(down'[d])
  <2>1. ~Holds(down[t], Incoming(s))
    BY <1>2, <1>3 DEF Asked
  <2> QED BY <1>1, <1>2, <1>5, <2>1, Delivered
<1>7. /\ handler' \in [Clients -> Handlers]
      /\ handler'[c] = h /\ \A d \in Clients \ {c} : handler'[d] = handler[d]
  BY <1>1, <1>4, Known DEF Ledger
<1>8. Sane'
  BY <1>1, <1>6, <1>7 DEF Inv, Sane, Queues, Ledger, Outside, ManagersFit
<1>9. Questions'
  <2>1. ASSUME NEW d \in Clients, NEW r \in Sids, Asked(d, r)'
        PROVE  /\ r <= issued' /\ said'[r] = "none" /\ party'[r].tgt = d
               /\ ~(Holds(down'[d], Incoming(r)) /\ mgr'[d].req = r)
    <3>1. CASE r = s
      <4>1. d = t /\ mgr[d].req # s
        BY <1>1, <1>3, <1>6, <2>1, <3>1 DEF Asked
      <4> QED BY <1>1, <1>3, <3>1, <4>1 DEF t
    <3>2. CASE r # s
      <4>1. Holds(down'[d], Incoming(r)) => Holds(down[d], Incoming(r))
        BY <1>5, <1>6, <3>2
      <4>2. Asked(d, r)
        BY <1>1, <2>1, <4>1 DEF Asked
      <4> QED BY <1>1, <4>1, <4>2 DEF Inv, Questions
    <3> QED BY <3>1, <3>2
  <2>2. ASSUME NEW d \in Clients, NEW r \in Sids, Asking(d, r)'
        PROVE  /\ r <= issued' /\ said'[r] = "none" /\ party'[r].ctl = d
               /\ \A e \in Clients : ~Asked(e, r)'
    <3>1. d # c /\ Asking(d, r)
      BY <1>4, <1>7, <2>2 DEF Asking
    <3>2. r <= issued /\ said[r] = "none" /\ party[r].ctl = d /\ \A e \in Clients : ~Asked(e, r)
      BY <3>1 DEF Inv, Questions
    <3>3. r # s
      BY <1>3, <3>1, <3>2
    <3>4. \A e \in Clients : Asked(e, r)' => Asked(e, r)
      BY <1>1, <1>5, <1>6, <3>3 DEF Asked
    <3> QED BY <1>1, <3>2, <3>4
  <2>3. \A r \in Sids : r <= issued' \/ said'[r] = "none"
    BY <1>1 DEF Inv, Questions
  <2>4. \A d \in Clients : Once(down'[d])
    BY <1>6 DEF Inv, Questions
  <2> QED BY <2>1, <2>2, <2>3, <2>4 DEF Questions
<1>10. Affirmed'
  <2> SUFFICES ASSUME NEW d \in Clients, NEW r \in Sids,
                      \/ Holds(up'[d], Resp(r, TRUE)) \/ Holds(down'[d], Resp(r, TRUE))
                      \/ handler'[d].pc \in {"notify", "mark"} /\ handler'[d].sid = r /\ handler'[d].ok
                      \/ mgr'[d].early = r
                      \/ HasTask(d)' /\ mgr'[d].active = r
               PROVE  said'[r] = "yes"
    BY DEF Affirmed
  <2>1. CASE handler'[d].pc \in {"notify", "mark"} /\ handler'[d].sid = r /\ handler'[d].ok
    <3>1. handler'[d] = handler[d]
      BY <1>4, <1>7, <2>1
    <3> QED BY <1>1, <2>1, <3>1 DEF Inv, Affirmed
  <2>2. CASE Holds(up'[d], Resp(r, TRUE)) \/ Holds(down'[d], Resp(r, TRUE))
    <3>1. Holds(up[d], Resp(r, TRUE)) \/ Holds(down[d], Resp(r, TRUE))
      BY <1>1, <1>5, <1>6, <2>2
    <3> QED BY <1>1, <3>1 DEF Inv, Affirmed
  <2>3. CASE mgr'[d].early = r \/ (HasTask(d)' /\ mgr'[d].active = r)
    BY <1>1, <2>3 DEF Inv, Affirmed, HasTask
  <2> QED BY <2>1, <2>2, <2>3
<1> QED BY <1>1, <1>8, <1>9, <1>10 DEF Inv, AnswersStay

-----------------------------------------------------------------------------
(* The clients' steps.                                                     *)

LEMMA UntouchedByClient ==
  ASSUME Inv
  PROVE  (UNCHANGED up => UpAnswers) /\ (UNCHANGED down => DownTaken)
  BY DEF Inv, Sane, Queues, Questions, UpAnswers, DownTaken

LEMMA TakenByClient ==
  ASSUME Inv, NEW c \in Clients, NEW type, Receive(c, type)
  PROVE  /\ DownTaken /\ Head(down[c]) \in DownMsgs /\ Head(down[c]).type = type
         /\ Holds(down[c], Head(down[c]))
         /\ type = "incoming" => ~Holds(down'[c], Head(down[c]))
<1>1. Queues /\ \A d \in Clients : Once(down[d])
  BY Known DEF Inv, Questions
<1> QED BY <1>1, Received DEF DownTaken

LEMMA SentByClient ==
  ASSUME Inv, NEW c \in Clients, NEW q \in Seq(UpMsgs), Send(c, q),
         \A s \in Sids : Holds(q, Resp(s, TRUE)) => said'[s] = "yes"
  PROVE  UpAnswers
<1>1. Queues
  BY Known
<1>2. /\ up' \in [Clients -> Seq(UpMsgs)]
      /\ \A d \in Clients : \A y : Holds(up'[d], y) => Holds(up[d], y) \/ (d = c /\ Holds(q, y))
  BY <1>1, Sent
<1> QED BY <1>2 DEF UpAnswers

\* A yes to the question takes the question away.
LEMMA AcceptInv ==
  ASSUME Inv, NEW c \in Clients, NEW s \in Sids, Asked(c, s), ~Holds(down'[c], Incoming(s)),
         DownTaken, mgr[c].active = NoSid, Accept(c, s, mgr[c]), Outside', UNCHANGED serverVars
  PROVE  Inv' /\ AnswersStay
<1> DEFINE r == [mgr[c] EXCEPT !.active = s, !.est = FALSE, !.req = NoSid]
<1>1. /\ mgr' = [mgr EXCEPT ![c] = r] /\ Send(c, <<Resp(s, TRUE)>>)
      /\ said' = [said EXCEPT ![s] = "yes"]
  BY DEF Accept, Become
<1>2. Fits(mgr[c]) /\ said \in [Sids -> {"none", "yes", "no"}]
  BY Known
<1>3. /\ r \in Managers /\ r.active = s /\ r.est = FALSE /\ r.req = NoSid /\ r.early = mgr[c].early
      /\ r.grant = mgr[c].grant /\ r.grant = NoSid
  BY <1>2 DEF Fits, Managers
<1>4. Fits(r)
  BY <1>3, Numbers DEF Fits
<1>5. said' \in [Sids -> {"none", "yes", "no"}] /\ said'[s] = "yes"
      /\ \A e \in Sids \ {s} : said'[e] = said[e]
  BY <1>1, <1>2
<1>6. UpAnswers
  <2>1. Resp(s, TRUE) \in UpMsgs
    BY MessageShapes
  <2>2. <<Resp(s, TRUE)>> \in Seq(UpMsgs) /\ \A y : Holds(<<Resp(s, TRUE)>>, y) => y = Resp(s, TRUE)
    BY <2>1, OneHolds
  <2>3. \A e \in Sids : Resp(e, TRUE) = Resp(s, TRUE) => e = s
    BY DEF Resp
  <2> QED BY <1>1, <1>5, <2>2, <2>3, SentByClient
<1>7. \A e \in Sids : \/ said'[e] = said[e]
                      \/ Asked(c, e) /\ ~Holds(down'[c], Incoming(e)) /\ r.req # e
  BY <1>3, <1>5, Numbers
<1> HIDE DEF r
<1> QED BY <1>1, <1>3, <1>4, <1>5, <1>6, <1>7, ClientStep

\* So does a no.
LEMMA DeclineInv ==
  ASSUME Inv, NEW c \in Clients, NEW s \in Sids, Asked(c, s), ~Holds(down'[c], Incoming(s)),
         DownTaken, NEW r, r = mgr[c] \/ r = [mgr[c] EXCEPT !.req = NoSid], r.req # s,
         Decline(c, s, r), Outside', UNCHANGED serverVars
  PROVE  Inv' /\ AnswersStay
<1>1. /\ mgr' = [mgr EXCEPT ![c] = r] /\ Send(c, <<Resp(s, FALSE)>>)
      /\ said' = [said EXCEPT ![s] = "no"]
  BY DEF Decline, Become
<1>2. Fits(mgr[c]) /\ said \in [Sids -> {"none", "yes", "no"}]
  BY Known
<1>3. /\ r \in Managers /\ r.active = mgr[c].active /\ r.est = mgr[c].est
      /\ r.req \in {NoSid, mgr[c].req} /\ r.early = mgr[c].early /\ r.grant = mgr[c].grant
  BY <1>2 DEF Fits, Managers
<1>4. Fits(r)
  BY <1>2, <1>3 DEF Fits
<1>5. said' \in [Sids -> {"none", "yes", "no"}] /\ \A e \in Sids \ {s} : said'[e] = said[e]
  BY <1>1, <1>2
<1>6. UpAnswers
  <2>1. Resp(s, FALSE) \in UpMsgs /\ Resp(s, FALSE).ok = FALSE /\ \A e \in Sids : Resp(e, TRUE).ok = TRUE
    BY MessageShapes
  <2>2. <<Resp(s, FALSE)>> \in Seq(UpMsgs) /\ \A y : Holds(<<Resp(s, FALSE)>>, y) => y = Resp(s, FALSE)
    BY <2>1, OneHolds
  <2> QED BY <1>1, <2>1, <2>2, SentByClient
<1>7. \A e \in Sids : \/ said'[e] = said[e]
                      \/ Asked(c, e) /\ ~Holds(down'[c], Incoming(e)) /\ r.req # e
  BY <1>5
<1>8. r.active # NoSid /\ r.grant = NoSid => HasTask(c) /\ mgr[c].active = r.active
  BY <1>3 DEF HasTask
<1> QED BY <1>1, <1>3, <1>4, <1>5, <1>6, <1>7, <1>8, ClientStep

LEMMA RecvIncomingInv ==
  ASSUME Inv, NEW c \in Clients, RecvIncoming(c)
  PROVE  Inv' /\ AnswersStay
<1> DEFINE s == Head(down[c]).sid
           r == [mgr[c] EXCEPT !.req = s]
<1>1. Receive(c, "incoming") /\ UNCHANGED serverVars /\ UNCHANGED <<requests, link, troubles>>
      /\ \/ Decline(c, s, mgr[c])
         \/ ~Busy(mgr[c]) /\ Accept(c, s, mgr[c])
         \/ ~Busy(mgr[c]) /\ Become(c, r) /\ UNCHANGED <<up, said>>
  BY DEF RecvIncoming, linkVars
<1>2. DownTaken /\ s \in Sids /\ Head(down[c]) = Incoming(s)
      /\ Holds(down[c], Incoming(s)) /\ ~Holds(down'[c], Incoming(s))
  BY <1>1, TakenByClient, DownShapes
<1>3. Asked(c, s) /\ mgr[c].req # s /\ Outside' /\ Fits(mgr[c]) /\ said \in [Sids -> {"none", "yes", "no"}]
  BY <1>1, <1>2, Known DEF Asked, Inv, Questions, Outside
<1> HIDE DEF s
<1>4. CASE Decline(c, s, mgr[c])
  BY <1>1, <1>2, <1>3, <1>4, DeclineInv
<1>5. CASE ~Busy(mgr[c]) /\ Accept(c, s, mgr[c])
  BY <1>1, <1>2, <1>3, <1>5, AcceptInv DEF Busy
<1>6. CASE ~Busy(mgr[c]) /\ Become(c, r) /\ UNCHANGED <<up, said>>
  <2>1. /\ r \in Managers /\ r.active = NoSid /\ r.est = mgr[c].est /\ r.req = s
        /\ r.early = mgr[c].early /\ r.grant = mgr[c].grant
    BY <1>2, <1>3, <1>6 DEF Fits, Managers, Busy
  <2>2. Fits(r)
    BY <1>3, <1>6, <2>1 DEF Fits, Busy
  <2>3. mgr' = [mgr EXCEPT ![c] = r] /\ UpAnswers /\ said' = said
    BY <1>6, UntouchedByClient DEF Become
  <2> HIDE DEF r
  <2> QED BY <1>1, <1>2, <1>3, <2>1, <2>2, <2>3, ClientStep
<1> QED BY <1>1, <1>4, <1>5, <1>6

LEMMA ApproveInv ==
  ASSUME Inv, NEW c \in Clients, Approve(c)
  PROVE  Inv' /\ AnswersStay
<1>1. /\ mgr[c].req # NoSid /\ Accept(c, mgr[c].req, mgr[c])
      /\ UNCHANGED serverVars /\ UNCHANGED <<requests, link, troubles, down>>
  BY DEF Approve, linkVars
<1>2. mgr[c].req \in Sids /\ mgr[c].active = NoSid /\ Outside'
  BY <1>1, Known DEF Fits, Managers, Outside
<1>3. Asked(c, mgr[c].req) /\ ~Holds(down'[c], Incoming(mgr[c].req))
  BY <1>1, <1>2 DEF Asked, Inv, Questions
<1> QED BY <1>1, <1>2, <1>3, UntouchedByClient, AcceptInv

LEMMA RejectInv ==
  ASSUME Inv, NEW c \in Clients, Reject(c)
  PROVE  Inv' /\ AnswersStay
<1> DEFINE r == [mgr[c] EXCEPT !.req = NoSid]
<1>1. /\ mgr[c].req # NoSid /\ Decline(c, mgr[c].req, r)
      /\ UNCHANGED serverVars /\ UNCHANGED <<requests, link, troubles, down>>
  BY DEF Reject, linkVars
<1>2. mgr[c].req \in Sids /\ r.req = NoSid /\ Outside'
  BY <1>1, Known DEF Managers, Outside
<1>3. Asked(c, mgr[c].req) /\ ~Holds(down'[c], Incoming(mgr[c].req))
  BY <1>1, <1>2 DEF Asked, Inv, Questions
<1> HIDE DEF r
<1>4. r = [mgr[c] EXCEPT !.req = NoSid]
  BY DEF r
<1> QED BY <1>1, <1>2, <1>3, <1>4, UntouchedByClient, DeclineInv

\* What is sent on an abort and noted of the request.
LEMMA Refusal ==
  ASSUME Inv, NEW c \in Clients, DownTaken, said' = Refused(mgr[c])
  PROVE  /\ said' \in [Sids -> {"none", "yes", "no"}]
         /\ \A s \in Sids : said'[s] = said[s] \/ (Asked(c, s) /\ ~Holds(down'[c], Incoming(s)))
<1>1. /\ said \in [Sids -> {"none", "yes", "no"}]
      /\ mgr[c].req \in Sids => Asked(c, mgr[c].req) /\ ~Holds(down[c], Incoming(mgr[c].req))
  BY Known DEF Inv, Questions, Asked
<1>2. mgr[c].req # NoSid => mgr[c].req \in Sids
  BY Known DEF Managers
<1> QED BY <1>1, <1>2 DEF Refused, DownTaken

LEMMA RecvGrantInv ==
  ASSUME Inv, NEW c \in Clients, RecvGrant(c)
  PROVE  Inv' /\ AnswersStay
<1> DEFINE s == Head(down[c]).sid
           r == [Quiet EXCEPT !.active = s, !.grant = IF mgr[c].early = s THEN NoSid ELSE s]
<1>1. /\ Receive(c, "grant") /\ UNCHANGED serverVars /\ UNCHANGED <<requests, link, troubles>>
      /\ Send(c, AbortMsgs(mgr[c])) /\ said' = Refused(mgr[c])
      /\ mgr' = [mgr EXCEPT ![c] = r]
  BY DEF RecvGrant, linkVars, Become
<1>2. DownTaken /\ s \in Sids
  BY <1>1, TakenByClient, DownShapes
<1>3. /\ r \in Managers /\ r.active = s /\ r.est = FALSE /\ r.req = NoSid /\ r.early = NoSid
      /\ r.grant = IF mgr[c].early = s THEN NoSid ELSE s
  BY <1>2 DEF Quiet, Managers
<1> HIDE DEF s, r
<1>4. Fits(r)
  BY <1>3 DEF Fits
<1>5. mgr[c].early = s => said[s] = "yes"
  BY <1>2 DEF Inv, Affirmed
<1>6. UpAnswers /\ Outside'
  BY <1>1, Known, AbortHolds, SentByClient DEF Outside
<1>7. \A e \in Sids : r.req # e
  BY <1>3, Numbers
<1>8. r.active # NoSid /\ r.grant = NoSid => said[r.active] = "yes"
  BY <1>2, <1>3, <1>5, Numbers
<1> QED BY <1>1, <1>2, <1>3, <1>4, <1>6, <1>7, <1>8, Refusal, ClientStep

\* A step that only changes c's manager, and may send an end.
LEMMA ManagerStep ==
  ASSUME Inv, NEW c \in Clients, NEW r, mgr' = [mgr EXCEPT ![c] = r], Fits(r),
         UNCHANGED serverVars, UNCHANGED <<requests, link, troubles, said>>, UpAnswers, DownTaken,
         r.req \in {NoSid, mgr[c].req}, r.early \in {NoSid, mgr[c].early} \/ said[r.early] = "yes",
         r.active # NoSid /\ r.grant = NoSid =>
           (HasTask(c) /\ mgr[c].active = r.active) \/ said[r.active] = "yes"
  PROVE  Inv' /\ AnswersStay
<1>1. Outside' /\ said' \in [Sids -> {"none", "yes", "no"}]
  BY Known DEF Outside
<1> QED BY <1>1, ClientStep

LEMMA ConcludedFits ==
  ASSUME NEW r, Fits(r), NEW s \in Sids
  PROVE  /\ Fits(Concluded(r, s)) /\ Concluded(r, s).req = r.req
         /\ Concluded(r, s).early \in {NoSid, r.early}
         /\ Concluded(r, s).active # NoSid => Concluded(r, s).active = r.active
         /\ Concluded(r, s).active # NoSid /\ Concluded(r, s).grant = NoSid => r.grant = NoSid
  BY DEF Fits, Concluded, Managers

LEMMA ConcludedAnyFits ==
  ASSUME NEW r, Fits(r)
  PROVE  /\ Fits(ConcludedAny(r)) /\ ConcludedAny(r).req = r.req
         /\ ConcludedAny(r).early = NoSid /\ ConcludedAny(r).active = NoSid
  BY DEF Fits, ConcludedAny, Quiet, Managers

\* The yes of the target is used, or kept for the grant.
LEMMA RecvAcceptedInv ==
  ASSUME Inv, NEW c \in Clients, RecvAccepted(c)
  PROVE  Inv' /\ AnswersStay
<1> DEFINE s == Head(down[c]).sid
           r == IF mgr[c].grant = s THEN [mgr[c] EXCEPT !.grant = NoSid]
                ELSE [mgr[c] EXCEPT !.early = s]
<1>1. /\ Receive(c, "resp") /\ Head(down[c]).ok /\ mgr' = [mgr EXCEPT ![c] = r]
      /\ UNCHANGED serverVars /\ UNCHANGED <<requests, link, troubles, up, said>>
  BY DEF RecvAccepted, linkVars, Become
<1>2. DownTaken /\ s \in Sids /\ Holds(down[c], Resp(s, TRUE))
  BY <1>1, TakenByClient, DownShapes
<1>3. said[s] = "yes" /\ Fits(mgr[c]) /\ UpAnswers
  BY <1>1, <1>2, Known, UntouchedByClient DEF Inv, Affirmed
<1>4. CASE mgr[c].grant = s
  <2>1. /\ r \in Managers /\ r.active = mgr[c].active /\ r.est = mgr[c].est /\ r.req = mgr[c].req
        /\ r.early = mgr[c].early /\ r.grant = NoSid
    BY <1>3, <1>4 DEF Fits, Managers
  <2>2. Fits(r) /\ r.active = s
    BY <1>2, <1>3, <1>4, <2>1, Numbers DEF Fits
  <2> HIDE DEF r
  <2> QED BY <1>1, <1>2, <1>3, <2>1, <2>2, ManagerStep
<1>5. CASE mgr[c].grant # s
  <2>1. /\ r \in Managers /\ r.active = mgr[c].active /\ r.est = mgr[c].est /\ r.req = mgr[c].req
        /\ r.early = s /\ r.grant = mgr[c].grant
    BY <1>2, <1>3, <1>5 DEF Fits, Managers
  <2>2. Fits(r) /\ (r.active # NoSid /\ r.grant = NoSid => HasTask(c))
    BY <1>3, <2>1 DEF Fits, HasTask
  <2> HIDE DEF r
  <2> QED BY <1>1, <1>2, <1>3, <2>1, <2>2, ManagerStep
<1> QED BY <1>4, <1>5

LEMMA RecvRefusedInv ==
  ASSUME Inv, NEW c \in Clients, RecvRefused(c)
  PROVE  Inv' /\ AnswersStay
<1> DEFINE s == Head(down[c]).sid
<1>1. /\ Receive(c, "resp")
      /\ UNCHANGED serverVars /\ UNCHANGED <<requests, link, troubles, up, said>>
      /\ \/ mgr' = [mgr EXCEPT ![c] = ConcludedAny(mgr[c])]
         \/ mgr' = [mgr EXCEPT ![c] = mgr[c]]
         \/ s # NoSid /\ mgr' = [mgr EXCEPT ![c] = Concluded(mgr[c], s)]
  BY DEF RecvRefused, linkVars, Become
<1>2. DownTaken /\ s \in Sids \cup {NoSid} /\ UpAnswers /\ Fits(mgr[c])
  BY <1>1, TakenByClient, DownShapes, UntouchedByClient, Known
<1> HIDE DEF s
<1>3. CASE mgr' = [mgr EXCEPT ![c] = ConcludedAny(mgr[c])]
  BY <1>1, <1>2, <1>3, ConcludedAnyFits, ManagerStep
<1>4. CASE mgr' = [mgr EXCEPT ![c] = mgr[c]]
  <2>1. mgr[c].active # NoSid /\ mgr[c].grant = NoSid => HasTask(c)
    BY DEF HasTask
  <2> QED BY <1>1, <1>2, <1>4, <2>1, ManagerStep
<1>5. CASE s # NoSid /\ mgr' = [mgr EXCEPT ![c] = Concluded(mgr[c], s)]
  <2> DEFINE r == Concluded(mgr[c], s)
  <2>1. /\ Fits(r) /\ r.req = mgr[c].req /\ r.early \in {NoSid, mgr[c].early}
        /\ r.active # NoSid /\ r.grant = NoSid => HasTask(c) /\ mgr[c].active = r.active
    BY <1>2, <1>5, ConcludedFits DEF HasTask
  <2> HIDE DEF r
  <2>2. mgr' = [mgr EXCEPT ![c] = r]
    BY <1>5 DEF r
  <2> QED BY <1>1, <1>2, <2>1, <2>2, ManagerStep
<1> QED BY <1>1, <1>3, <1>4, <1>5

LEMMA RecvSessionEndInv ==
  ASSUME Inv, NEW c \in Clients, RecvSessionEnd(c)
  PROVE  Inv' /\ AnswersStay
<1> DEFINE r == Concluded(mgr[c], Head(down[c]).sid)
<1>1. /\ Receive(c, "end") /\ mgr' = [mgr EXCEPT ![c] = r]
      /\ UNCHANGED serverVars /\ UNCHANGED <<requests, link, troubles, up, said>>
  BY DEF RecvSessionEnd, linkVars, Become
<1>2. DownTaken /\ Head(down[c]).sid \in Sids /\ UpAnswers /\ Fits(mgr[c])
  BY <1>1, TakenByClient, DownShapes, UntouchedByClient, Known
<1>3. /\ Fits(r) /\ r.req = mgr[c].req /\ r.early \in {NoSid, mgr[c].early}
      /\ r.active # NoSid /\ r.grant = NoSid => HasTask(c) /\ mgr[c].active = r.active
  BY <1>2, ConcludedFits DEF HasTask
<1> HIDE DEF r
<1> QED BY <1>1, <1>2, <1>3, ManagerStep

LEMMA WaitTimeoutInv ==
  ASSUME Inv, NEW c \in Clients, WaitTimeout(c)
  PROVE  Inv' /\ AnswersStay
<1>1. /\ mgr' = [mgr EXCEPT ![c] = ConcludedAny(mgr[c])]
      /\ UNCHANGED serverVars /\ UNCHANGED <<requests, link, troubles, up, down, said>>
  BY DEF WaitTimeout, linkVars, Become
<1> QED BY <1>1, Known, UntouchedByClient, ConcludedAnyFits, ManagerStep

LEMMA EstablishInv ==
  ASSUME Inv, NEW c \in Clients, Establish(c)
  PROVE  Inv' /\ AnswersStay
<1> DEFINE r == [mgr[c] EXCEPT !.est = TRUE]
<1>1. /\ HasTask(c) /\ mgr' = [mgr EXCEPT ![c] = r]
      /\ UNCHANGED serverVars /\ UNCHANGED <<requests, link, troubles, up, down, said>>
  BY DEF Establish, linkVars, Become
<1>2. /\ r \in Managers /\ r.active = mgr[c].active /\ r.req = mgr[c].req
      /\ r.early = mgr[c].early /\ r.grant = mgr[c].grant
  BY Known DEF Managers
<1>3. Fits(r)
  BY <1>1, <1>2, Known DEF Fits, HasTask
<1> HIDE DEF r
<1> QED BY <1>1, <1>2, <1>3, UntouchedByClient, ManagerStep

LEMMA FinishInv ==
  ASSUME Inv, NEW c \in Clients, Finish(c)
  PROVE  Inv' /\ AnswersStay
<1> DEFINE r == [mgr[c] EXCEPT !.active = NoSid, !.est = FALSE]
           x == End(mgr[c].active)
<1>1. /\ HasTask(c) /\ mgr' = [mgr EXCEPT ![c] = r] /\ Send(c, <<x>>)
      /\ UNCHANGED serverVars /\ UNCHANGED <<requests, link, troubles, down, said>>
  BY DEF Finish, linkVars, Become
<1>2. /\ r \in Managers /\ r.active = NoSid /\ r.est = FALSE /\ r.req = mgr[c].req
      /\ r.early = mgr[c].early /\ r.grant = NoSid
  <2>1. mgr[c] \in Managers /\ mgr[c].grant = NoSid
    BY <1>1, Known DEF HasTask
  <2> QED BY <2>1 DEF Managers
<1>3. Fits(r)
  BY <1>2 DEF Fits
<1>4. UpAnswers
  <2>1. x \in UpMsgs /\ x.type = "end"
    BY <1>1, Known, MessageShapes DEF HasTask, Managers
  <2>2. \A s \in Sids : Resp(s, TRUE).type = "resp"
    BY MessageShapes
  <2>3. <<x>> \in Seq(UpMsgs) /\ \A s \in Sids : ~Holds(<<x>>, Resp(s, TRUE))
    BY <2>1, <2>2, OneHolds
  <2> QED BY <1>1, <2>3, SentByClient
<1> HIDE DEF r
<1> QED BY <1>1, <1>2, <1>3, <1>4, UntouchedByClient, ManagerStep

LEMMA QuietFits == Fits(Quiet) /\ Quiet.active = NoSid /\ Quiet.req = NoSid /\ Quiet.early = NoSid
  BY DEF Fits, Quiet, Managers

LEMMA TroubleCounts ==
  ASSUME Outside, Trouble, UNCHANGED requests, link' \in [Clients -> {"up", "dead", "down"}]
  PROVE  Outside'
  BY Numbers DEF Outside, Trouble

LEMMA AbortInv ==
  ASSUME Inv, NEW c \in Clients, Abort(c)
  PROVE  Inv' /\ AnswersStay
<1>1. /\ mgr' = [mgr EXCEPT ![c] = Quiet] /\ Send(c, AbortMsgs(mgr[c])) /\ said' = Refused(mgr[c])
      /\ Trouble /\ UNCHANGED serverVars /\ UNCHANGED <<requests, link, down>>
  BY DEF Abort, Become
<1>2. Outside' /\ DownTaken
  BY <1>1, Known, TroubleCounts, UntouchedByClient DEF Outside
<1>3. UpAnswers
  BY <1>1, Known, AbortHolds, SentByClient
<1>4. \A e \in Sids : Quiet.req # e
  BY QuietFits, Numbers
<1> QED BY <1>1, <1>2, <1>3, <1>4, QuietFits, Refusal, ClientStep

LEMMA DisableInv ==
  ASSUME Inv, NEW c \in Clients, Disable(c)
  PROVE  Inv' /\ AnswersStay
<1> DEFINE r == [mgr[c] EXCEPT !.req = NoSid]
           s == r.active
           controlled == s # NoSid /\ party[s].tgt = c
           a == [mgr[c] EXCEPT !.active = IF controlled THEN @ ELSE NoSid]
           u == IF controlled THEN Concluded(r, s) ELSE r
<1>1. /\ mgr' = [mgr EXCEPT ![c] = u] /\ Send(c, AbortMsgs(a)) /\ said' = Refused(mgr[c])
      /\ Trouble /\ UNCHANGED serverVars /\ UNCHANGED <<requests, link, down>>
  BY DEF Disable, Become
<1>2. /\ r \in Managers /\ r.active = mgr[c].active /\ r.est = mgr[c].est /\ r.req = NoSid
      /\ r.early = mgr[c].early /\ r.grant = mgr[c].grant /\ Fits(mgr[c])
  <2>1. mgr[c] \in Managers /\ Fits(mgr[c])
    BY Known
  <2> QED BY <2>1 DEF Managers
<1>3. a \in Managers
  <2>1. mgr[c] \in Managers
    BY Known
  <2>2. (IF controlled THEN mgr[c].active ELSE NoSid) \in Sids \cup {NoSid}
    BY <2>1 DEF Managers
  <2> HIDE DEF controlled
  <2> QED BY <2>1, <2>2 DEF Managers
<1>4. Fits(r) /\ (s # NoSid => s \in Sids)
  <2> HIDE DEF r
  <2> QED BY <1>2 DEF Fits, Managers
<1> HIDE DEF r, a
<1>5. /\ Fits(u) /\ u.req = NoSid /\ u.early \in {NoSid, mgr[c].early}
      /\ u.active # NoSid /\ u.grant = NoSid => HasTask(c) /\ mgr[c].active = u.active
  <2>1. CASE controlled
    BY <1>2, <1>4, <2>1, ConcludedFits DEF HasTask
  <2>2. CASE ~controlled
    BY <1>2, <1>4, <2>2 DEF HasTask
  <2> QED BY <2>1, <2>2
<1> HIDE DEF u
<1>6. Outside' /\ DownTaken
  BY <1>1, Known, TroubleCounts, UntouchedByClient DEF Outside
<1>7. UpAnswers
  BY <1>1, <1>3, AbortHolds, SentByClient
<1>8. \A e \in Sids : u.req # e
  BY <1>5, Numbers
<1> QED BY <1>1, <1>5, <1>6, <1>7, <1>8, Refusal, ClientStep

LEMMA LoseInv ==
  ASSUME Inv, NEW c \in Clients, Lose(c)
  PROVE  Inv' /\ AnswersStay
<1>1. PICK n \in 0..Len(up[c]) : up' = [up EXCEPT ![c] = SubSeq(up[c], 1, n)]
  BY DEF Lose
<1>2. /\ mgr' = [mgr EXCEPT ![c] = Quiet] /\ down' = [down EXCEPT ![c] = <<>>]
      /\ link' = [link EXCEPT ![c] = "dead"]
      /\ Trouble /\ UNCHANGED serverVars /\ UNCHANGED <<requests, said>>
  BY DEF Lose, Become
<1>3. Queues /\ Outside /\ said \in [Sids -> {"none", "yes", "no"}] /\ \A d \in Clients : Once(down[d])
  BY Known DEF Inv, Questions
<1>4. UpAnswers
  <2>1. up[c] \in Seq(UpMsgs)
    BY <1>3 DEF Queues
  <2>2. /\ SubSeq(up[c], 1, n) \in Seq(UpMsgs)
        /\ \A y : Holds(SubSeq(up[c], 1, n), y) => Holds(up[c], y)
    BY <2>1, PrefixHolds
  <2>3. up'[c] = SubSeq(up[c], 1, n) /\ \A d \in Clients \ {c} : up'[d] = up[d]
    BY <1>1, <1>3 DEF Queues
  <2> QED BY <1>1, <1>3, <2>2, <2>3 DEF Queues, UpAnswers
<1>5. DownTaken
  <2>1. down'[c] = <<>> /\ \A d \in Clients \ {c} : down'[d] = down[d]
    BY <1>2, <1>3 DEF Queues
  <2>2. Once(<<>>) /\ \A y : ~Holds(<<>>, y)
    BY DEF Once, Holds
  <2> QED BY <1>2, <1>3, <2>1, <2>2 DEF Queues, DownTaken
<1>6. Outside'
  BY <1>2, <1>3, TroubleCounts DEF Outside
<1> QED BY <1>2, <1>3, <1>4, <1>5, <1>6, QuietFits, ClientStep

LEMMA RequestConnectInv ==
  ASSUME Inv, NEW c \in Clients, NEW t \in Clients, RequestConnect(c, t)
  PROVE  Inv' /\ AnswersStay
<1>1. /\ requests < MaxRequests /\ requests' = requests + 1 /\ Send(c, <<Connect(t)>>)
      /\ UNCHANGED serverVars /\ UNCHANGED <<link, troubles, down, mgr, said>>
  BY DEF RequestConnect, linkVars
<1>2. UpAnswers
  <2>1. Connect(t) \in UpMsgs /\ Connect(t).type = "connect"
    BY MessageShapes
  <2>2. \A s \in Sids : Resp(s, TRUE).type = "resp"
    BY MessageShapes
  <2>3. <<Connect(t)>> \in Seq(UpMsgs) /\ \A s \in Sids : ~Holds(<<Connect(t)>>, Resp(s, TRUE))
    BY <2>1, <2>2, OneHolds
  <2> QED BY <1>1, <2>3, SentByClient
<1>3. Outside' /\ said' \in [Sids -> {"none", "yes", "no"}] /\ Fits(mgr[c])
  BY <1>1, Known, Numbers DEF Outside
<1>4. mgr' = [mgr EXCEPT ![c] = mgr[c]]
  BY <1>1 DEF Inv, Sane, ManagersFit
<1>5. mgr[c].active # NoSid /\ mgr[c].grant = NoSid => HasTask(c)
  BY DEF HasTask
<1> QED BY <1>1, <1>2, <1>3, <1>4, <1>5, UntouchedByClient, ClientStep

LEMMA ReconnectInv ==
  ASSUME Inv, NEW c \in Clients, Reconnect(c)
  PROVE  Inv' /\ AnswersStay
<1>1. /\ link' = [link EXCEPT ![c] = "up"]
      /\ UNCHANGED serverVars /\ UNCHANGED <<requests, troubles, up, down, mgr, said>>
  BY DEF Reconnect
<1>2. Outside' /\ said' \in [Sids -> {"none", "yes", "no"}] /\ Fits(mgr[c])
  BY <1>1, Known DEF Outside
<1>3. mgr' = [mgr EXCEPT ![c] = mgr[c]]
  BY <1>1 DEF Inv, Sane, ManagersFit
<1>4. mgr[c].active # NoSid /\ mgr[c].grant = NoSid => HasTask(c)
  BY DEF HasTask
<1> QED BY <1>1, <1>2, <1>3, <1>4, UntouchedByClient, ClientStep

-----------------------------------------------------------------------------
(* The theorems.                                                           *)

LEMMA InitInv == Init => Inv
<1> SUFFICES ASSUME Init PROVE Inv
  OBVIOUS
<1>1. Nobody \in Clients
  BY ClientsAssumption DEF Nobody
<1>2. <<>> \in Seq(UpMsgs) /\ <<>> \in Seq(DownMsgs) /\ Once(<<>>) /\ \A y : ~Holds(<<>>, y)
  BY DEF Once, Holds
<1>3. Sane
  <2>1. Queues
    BY <1>2 DEF Init, Queues
  <2>2. Ledger
    BY <1>1, Numbers, IdleHandler DEF Init, Ledger
  <2>3. Outside
    BY Numbers DEF Init, Outside
  <2>4. ManagersFit
    BY QuietFits DEF Init, ManagersFit, Fits
  <2>5. said \in [Sids -> {"none", "yes", "no"}]
    BY DEF Init
  <2> QED BY <2>1, <2>2, <2>3, <2>4, <2>5 DEF Sane
<1>4. /\ \A c \in Clients : /\ up[c] = <<>> /\ down[c] = <<>> /\ mgr[c] = Quiet
                            /\ handler[c].pc = "recv"
      /\ \A s \in Sids : said[s] = "none"
  BY IdleHandler DEF Init
<1>5. Questions
  BY <1>2, <1>4, QuietFits, Numbers DEF Questions, Asked, Asking
<1>6. Affirmed
  BY <1>2, <1>4, QuietFits, Numbers DEF Affirmed, HasTask
<1> QED BY <1>3, <1>5, <1>6 DEF Inv

LEMMA HandleInv ==
  ASSUME Inv, NEW c \in Clients, Handle(c)
  PROVE  Inv' /\ AnswersStay
<1>1. CASE ConnectStep(c)
  BY <1>1, ConnectDeniedInv, ConnectAllowedInv, IssueInv, SendIncomingInv, IncomingFailsInv,
     SendGrantInv, GrantFailsInv DEF ConnectStep
<1>2. CASE ResponseStep(c)
  BY <1>2, RecvResponseInv, NotifyControllerInv, MarkInv DEF ResponseStep
<1>3. CASE EndStep(c)
  BY <1>3, RecvEndInv, RemoveSessionInv, TellPeerInv DEF EndStep
<1>4. CASE CleanUpStep(c)
  BY <1>4, RemoveForClientInv, TellLeftInv, UnregisterInv DEF CleanUpStep
<1> QED BY <1>1, <1>2, <1>3, <1>4 DEF Handle

LEMMA ClientRecvInv ==
  ASSUME Inv, NEW c \in Clients, ClientRecv(c)
  PROVE  Inv' /\ AnswersStay
  BY RecvIncomingInv, RecvGrantInv, RecvAcceptedInv, RecvRefusedInv, RecvSessionEndInv DEF ClientRecv

LEMMA StepInv ==
  ASSUME Inv, [Next]_vars
  PROVE  Inv' /\ AnswersStay
<1>1. CASE UNCHANGED vars
  <2>1. Sane'
    BY <1>1 DEF Inv, Sane, Queues, Ledger, Outside, ManagersFit, vars
  <2>2. Questions'
    BY <1>1 DEF Inv, Questions, Asked, Asking, vars
  <2>3. Affirmed'
    BY <1>1 DEF Inv, Affirmed, HasTask, vars
  <2> QED BY <1>1, <2>1, <2>2, <2>3 DEF Inv, AnswersStay, vars
<1>2. CASE Next
  <2>1. PICK c \in Clients :
          \/ Handle(c) \/ ClientRecv(c)
          \/ \E t \in Clients : RequestConnect(c, t)
          \/ Approve(c) \/ Reject(c) \/ WaitTimeout(c)
          \/ Establish(c) \/ Finish(c)
          \/ Abort(c) \/ Disable(c) \/ Lose(c) \/ Reconnect(c)
    BY <1>2 DEF Next
  <2>2. CASE Handle(c) \/ ClientRecv(c)
    BY <2>2, HandleInv, ClientRecvInv
  <2>3. CASE \E t \in Clients : RequestConnect(c, t)
    BY <2>3, RequestConnectInv
  <2>4. CASE Approve(c) \/ Reject(c) \/ WaitTimeout(c)
    BY <2>4, ApproveInv, RejectInv, WaitTimeoutInv
  <2>5. CASE Establish(c) \/ Finish(c)
    BY <2>5, EstablishInv, FinishInv
  <2>6. CASE Abort(c) \/ Disable(c) \/ Lose(c) \/ Reconnect(c)
    BY <2>6, AbortInv, DisableInv, LoseInv, ReconnectInv
  <2> QED BY <2>1, <2>2, <2>3, <2>4, <2>5, <2>6
<1> QED BY <1>1, <1>2

\* A controller's task runs from when its grant meets the acceptance.
LEMMA Dialing ==
  ASSUME Inv, [Next]_vars, NEW s \in dialed', s \notin dialed
  PROVE  /\ s \in Sids
         /\ \E c \in Clients : /\ mgr'[c].active = s /\ mgr'[c].grant = NoSid
                              /\ \/ Holds(down[c], Grant(s))
                                 \/ mgr[c].grant = s
<1>1. PICK c \in Clients : RecvGrant(c) \/ RecvAccepted(c)
  BY DEF Next, Handle, ConnectStep, ResponseStep, EndStep, CleanUpStep, ClientRecv, ConnectDenied,
         ConnectAllowed, Issue, SendIncoming, IncomingFails, SendGrant, GrantFails, RecvResponse,
         NotifyController, Mark, RecvEnd, RemoveSession, TellPeer, RemoveForClient, TellLeft,
         Unregister, RecvIncoming, RecvRefused, RecvSessionEnd, RequestConnect, Approve, Reject,
         WaitTimeout, Establish, Finish, Abort, Disable, Lose, Reconnect, linkVars, vars
<1>2. mgr[c] \in Managers /\ Fits(mgr[c]) /\ mgr \in [Clients -> Managers]
  BY Known DEF Inv, Sane, ManagersFit
<1> DEFINE x == Head(down[c])
<1>3. CASE RecvGrant(c)
  <2>1. x \in DownMsgs /\ x.type = "grant" /\ Holds(down[c], x)
    BY <1>3, TakenByClient DEF RecvGrant
  <2>2. x.sid \in Sids /\ x = Grant(x.sid)
    BY <2>1 DEF DownMsgs, Resps, Ends, Deny, Resp, Grant
  <2>3. mgr[c].early = x.sid /\ dialed' = dialed \cup {x.sid}
    BY <1>3 DEF RecvGrant
  <2>4. mgr'[c].active = x.sid /\ mgr'[c].grant = NoSid
    BY <1>2, <1>3, <2>3 DEF RecvGrant, Become, Quiet
  <2> QED BY <2>1, <2>2, <2>3, <2>4
<1>4. CASE RecvAccepted(c)
  <2>1. x \in DownMsgs /\ x.type = "resp" /\ x.ok
    BY <1>4, TakenByClient DEF RecvAccepted, Receive
  <2>2. x.sid \in Sids
    BY <2>1, DownShapes
  <2>3. mgr[c].grant = x.sid /\ dialed' = dialed \cup {x.sid}
    BY <1>4 DEF RecvAccepted
  <2>4. mgr[c].active = x.sid
    BY <1>2, <2>2, <2>3, Numbers DEF Fits
  <2>5. mgr' = [mgr EXCEPT ![c] = [mgr[c] EXCEPT !.grant = NoSid]]
    BY <1>4, <2>3 DEF RecvAccepted, Become
  <2>6. mgr'[c].active = x.sid /\ mgr'[c].grant = NoSid
    BY <1>2, <2>4, <2>5 DEF Managers
  <2> QED BY <2>2, <2>3, <2>6
<1> QED BY <1>1, <1>3, <1>4

\* Every session, message, handler and manager has its type, and a client's
\* manager never waits for a grant and has its data plane established at once.
THEOREM TypeCorrect == Spec => []TypeOK
<1> DEFINE I == Inv /\ dialed \in SUBSET Sids
<1>1. I => TypeOK
  BY DEF Inv, Sane, Queues, Ledger, Outside, ManagersFit, Fits, TypeOK
<1>2. Init => I
  BY InitInv DEF Init
<1>3. I /\ [Next]_vars => I'
  <2> SUFFICES ASSUME I, [Next]_vars, NEW s \in dialed' PROVE s \in Sids
    BY StepInv
  <2> QED BY Dialing
<1> QED BY <1>1, <1>2, <1>3, PTL DEF Spec

\* The confirmation gate of manager.rs: a controller's task, which dials, only
\* runs for a session that its target has accepted.
THEOREM GateHolds == Spec => []ConfirmationGate
<1>1. ASSUME Inv PROVE ConfirmationGate
  <2> SUFFICES ASSUME NEW c \in Clients, HasTask(c) PROVE said[mgr[c].active] = "yes"
    BY DEF ConfirmationGate
  <2>1. mgr[c] \in Managers /\ mgr[c].active # NoSid
    BY <1>1, Known DEF HasTask
  <2>2. mgr[c].active \in Sids
    BY <2>1 DEF Managers
  <2> QED BY <1>1, <2>2 DEF Inv, Affirmed
<1> QED BY <1>1, InitInv, StepInv, PTL DEF Spec

\* A target's answer to a session is its last, whatever timeouts, aborts,
\* disabling and lost connections come between.
THEOREM AnswersAreFinal == Spec => AnswerIsFinal
<1>1. AnswersStay => [\A s \in Sids : said[s] # "none" => said'[s] = said[s]]_vars
  BY DEF AnswersStay
<1> QED BY <1>1, InitInv, StepInv, PTL DEF Spec, AnswerIsFinal
\* A session that has been issued and is not in the table stays out of it.
StaysOut == \A s \in Sids : s <= issued /\ ~Present(s) => table'[s] = table[s]

LEMMA RemovedKeeps ==
  ASSUME table \in [Sids -> {"none", "pending", "accepted", "expired"}], NEW r \in Sids,
         table' = Removed(r)
  PROVE  StaysOut
  BY DEF Removed, Present, StaysOut

LEMMA ServerStaysOut ==
  ASSUME Inv, NEW c \in Clients, Handle(c)
  PROVE  StaysOut
<1>0. /\ table \in [Sids -> {"none", "pending", "accepted", "expired"}] /\ issued \in Nat
      /\ handler[c] \in Handlers
  BY Known, Numbers DEF Ledger
<1>1. CASE UNCHANGED table
  BY <1>1 DEF StaysOut
<1>2. CASE Issue(c)
  BY <1>0, <1>2 DEF Issue, Present, StaysOut, Sids
<1>3. CASE \/ IncomingFails(c) \/ GrantFails(c) \/ RemoveSession(c)
  <2>1. handler[c].sid \in Sids /\ table' = Removed(handler[c].sid)
    BY <1>0, <1>3, HandlerShapes DEF IncomingFails, GrantFails, RemoveSession
  <2> QED BY <1>0, <2>1, RemovedKeeps
<1>4. CASE Mark(c)
  <2>1. handler[c].sid \in Sids
    BY <1>0, <1>4, HandlerShapes DEF Mark
  <2>2. CASE table' = Removed(handler[c].sid)
    BY <1>0, <2>1, <2>2, RemovedKeeps
  <2>3. CASE Present(handler[c].sid) /\ table' = [table EXCEPT ![handler[c].sid] = "accepted"]
    BY <1>0, <2>1, <2>3 DEF StaysOut
  <2> QED BY <1>1, <1>4, <2>2, <2>3 DEF Mark
<1>5. CASE RemoveForClient(c)
  BY <1>0, <1>5 DEF RemoveForClient, StaysOut
<1> QED
  BY <1>1, <1>2, <1>3, <1>4, <1>5
     DEF Handle, ConnectStep, ResponseStep, EndStep, CleanUpStep, ConnectDenied, ConnectAllowed,
         SendIncoming, SendGrant, RecvResponse, NotifyController, RecvEnd, TellPeer, TellLeft,
         Unregister, serverVars

LEMMA ClientLeavesTable ==
  ASSUME NEW c \in Clients, ClientRecv(c)
  PROVE  UNCHANGED table
  BY DEF ClientRecv, RecvIncoming, RecvGrant, RecvAccepted, RecvRefused, RecvSessionEnd, serverVars

LEMMA OthersLeaveTable ==
  ASSUME NEW c \in Clients,
         \/ \E t \in Clients : RequestConnect(c, t)
         \/ Approve(c) \/ Reject(c) \/ WaitTimeout(c)
         \/ Establish(c) \/ Finish(c)
         \/ Abort(c) \/ Disable(c) \/ Lose(c) \/ Reconnect(c)
  PROVE  UNCHANGED table
  BY DEF RequestConnect, Approve, Reject, WaitTimeout, Establish, Finish, Abort, Disable, Lose,
         Reconnect, serverVars

-----------------------------------------------------------------------------
(* Where a session is while it ends.                                       *)

Sole(q, x) == \A i, j \in DOMAIN q : q[i] = x /\ q[j] = x => i = j
Before(q, x, y) == \A i, j \in DOMAIN q : q[i] = x /\ q[j] = y => i < j

\* What a handler is about to do.
Granting(h, s) == h.pc \in {"incoming", "grant"} /\ h.sid = s
Affirming(h, s) == h.pc = "notify" /\ h.sid = s /\ h.ok
Refusing(h, s) == h.pc \in {"notify", "mark"} /\ h.sid = s /\ ~h.ok
Removing(h, s) == h.pc = "remove" /\ h.sid = s
Telling(h, s) == (h.pc = "tell" /\ h.sid = s) \/ (h.pc = "cleanup" /\ s \in h.left)

\* Client c will be given session s, is in it, or has left it and its end has
\* not been handled.
GrantAhead(c, s) == Granting(handler[c], s) \/ Holds(down[c], Grant(s))
Inside(c, s) == mgr[c].active = s
Leaving(c, s) == Holds(up[c], End(s)) \/ Removing(handler[c], s)

\* The controller has the target's acceptance, or will have it.
YesAhead(c, s) ==
  \/ Affirming(handler[party[s].tgt], s) \/ Holds(down[c], Resp(s, TRUE))
  \/ mgr[c].early = s
  \/ HasTask(c) /\ mgr[c].active = s

\* Who is offline knows nothing; nobody connects to himself.
Routes ==
  /\ \A c \in Clients : /\ link[c] # "up" => mgr[c] = Quiet /\ down[c] = <<>>
                        /\ ~Holds(up[c], Connect(c))
                        /\ handler[c].pc = "issue" => handler[c].to # c
                        /\ handler[c].pc = "cleanup" => link[c] = "dead"
  /\ \A s \in Sids : IF s <= issued THEN party[s].ctl # party[s].tgt ELSE table[s] = "none"

\* A session is granted once.
Grants ==
  \A c \in Clients, s \in Sids :
    /\ GrantAhead(c, s) => s <= issued /\ party[s].ctl = c
    /\ Granting(handler[c], s) => ~Holds(down[c], Grant(s))
    /\ Sole(down[c], Grant(s))

\* A controller is in a session that was granted, a target in one that it
\* accepted, and who has left one does not enter it again.
Roles ==
  \A c \in Clients, s \in Sids :
    /\ Inside(c, s) \/ Leaving(c, s) =>
         /\ s <= issued
         /\ \/ party[s].ctl = c /\ ~GrantAhead(c, s)
            \/ party[s].tgt = c /\ said[s] = "yes"
    /\ Leaving(c, s) => ~Inside(c, s)

\* Wherever the server takes a no for an answer, the target has said it.
Refusals ==
  \A c \in Clients, s \in Sids :
    Holds(up[c], Resp(s, FALSE)) \/ Refusing(handler[c], s) => said[s] = "no"

\* Who tells of an end was in the session and has removed it; the acceptance
\* comes before the end.
Endings ==
  \A c \in Clients, s \in Sids :
    /\ Telling(handler[c], s) => s <= issued /\ ~Present(s) /\ c \in Parties(s)
    /\ Holds(down[c], End(s)) =>
         /\ s <= issued /\ ~Present(s)
         /\ party[s].ctl = c => ~Affirming(handler[party[s].tgt], s)
    /\ Before(down[c], Resp(s, TRUE), End(s))
    /\ Removing(handler[c], s) => c \in Parties(s)
    /\ Affirming(handler[c], s) => party[s].tgt = c

\* When a session was removed that the controller might still start, he is told,
\* and the target is out of it.
Closing ==
  \A s \in Sids :
    LET c == party[s].ctl IN
    table[s] = "none" /\ (GrantAhead(c, s) \/ Inside(c, s)) /\ YesAhead(c, s)
      => EndComes(c, s) /\ ~Inside(party[s].tgt, s)

Closed == Routes /\ Grants /\ Roles /\ Refusals /\ Endings /\ Closing

\* The target of an accepted session that was removed is out of it, or is told,
\* which no step undoes.  (A target that accepts a removed session is in it, and
\* may have been told before.)
TargetTold(s) ==
  table[s] = "none" /\ Inside(party[s].tgt, s) => EndComes(party[s].tgt, s)
NewsKept == \A s \in Sids : said[s] = "yes" /\ TargetTold(s) => TargetTold(s)'

LEMMA EndComing ==
  ASSUME NEW c, NEW s
  PROVE  EndComes(c, s) <=>
           Holds(down[c], End(s)) \/ \E h \in Clients : Peer(h, s) = c /\ Telling(handler[h], s)
  BY DEF EndComes, Holds, Telling

LEMMA AppendOrder ==
  ASSUME NEW S, NEW q \in Seq(S), NEW x \in S
  PROVE  /\ Holds(Append(q, x), x) /\ \A y : Holds(q, y) => Holds(Append(q, x), y)
         /\ \A y : Sole(q, y) /\ (y = x => ~Holds(q, y)) => Sole(Append(q, x), y)
         /\ \A y, z : Before(q, y, z) /\ y # z /\ (y = x => ~Holds(q, z)) => Before(Append(q, x), y, z)
<1>1. /\ Len(q) \in Nat
      /\ \A i \in 1..Len(q) : Append(q, x)[i] = q[i]
      /\ Append(q, x)[Len(q) + 1] = x
      /\ DOMAIN q = 1..Len(q) /\ DOMAIN Append(q, x) = 1..(Len(q) + 1)
  OBVIOUS
<1>2. /\ \A i \in DOMAIN Append(q, x) : i \in DOMAIN q \/ i = Len(q) + 1
      /\ \A i \in DOMAIN q : i < Len(q) + 1 /\ i \in DOMAIN Append(q, x)
      /\ Len(q) + 1 \in DOMAIN Append(q, x)
  BY <1>1
<1>3. Holds(Append(q, x), x) /\ \A y : Holds(q, y) => Holds(Append(q, x), y)
  BY <1>1, <1>2 DEF Holds
<1>4. ASSUME NEW y, Sole(q, y), y = x => ~Holds(q, y)
      PROVE  Sole(Append(q, x), y)
  BY <1>1, <1>2, <1>4 DEF Sole, Holds
<1>5. ASSUME NEW y, NEW z, Before(q, y, z), y # z, y = x => ~Holds(q, z)
      PROVE  Before(Append(q, x), y, z)
  BY <1>1, <1>2, <1>5 DEF Before, Holds
<1> QED BY <1>3, <1>4, <1>5

LEMMA TailOrder ==
  ASSUME NEW S, NEW q \in Seq(S), q # <<>>
  PROVE  /\ \A y : Holds(q, y) => Holds(Tail(q), y) \/ y = Head(q)
         /\ \A y : Sole(q, y) => Sole(Tail(q), y) /\ (y = Head(q) => ~Holds(Tail(q), y))
         /\ \A y, z : Before(q, y, z) => Before(Tail(q), y, z) /\ (z = Head(q) => ~Holds(Tail(q), y))
<1>1. /\ Len(q) \in Nat \ {0}
      /\ DOMAIN q = 1..Len(q) /\ DOMAIN Tail(q) = 1..(Len(q) - 1)
      /\ Head(q) = q[1] /\ \A i \in 1..(Len(q) - 1) : Tail(q)[i] = q[i + 1]
  OBVIOUS
<1>2. /\ 1 \in DOMAIN q
      /\ \A i \in DOMAIN Tail(q) : i \in Int /\ i + 1 \in DOMAIN q /\ i + 1 # 1 /\ ~(i + 1 < 1)
      /\ \A i \in DOMAIN q : i = 1 \/ (i - 1 \in DOMAIN Tail(q) /\ Tail(q)[i - 1] = q[i])
      /\ \A i \in DOMAIN Tail(q) : Tail(q)[i] = q[i + 1]
  BY <1>1
<1>3. \A y : Holds(q, y) => Holds(Tail(q), y) \/ y = Head(q)
  BY <1>1, <1>2 DEF Holds
<1>4. ASSUME NEW y, Sole(q, y)
      PROVE  Sole(Tail(q), y) /\ (y = Head(q) => ~Holds(Tail(q), y))
  <2>1. ASSUME NEW i \in DOMAIN Tail(q), NEW j \in DOMAIN Tail(q), Tail(q)[i] = y, Tail(q)[j] = y
        PROVE  i = j
    <3>1. i + 1 = j + 1
      BY <1>2, <1>4, <2>1 DEF Sole
    <3> QED BY <1>2, <3>1
  <2>2. ASSUME y = Head(q), NEW i \in DOMAIN Tail(q), Tail(q)[i] = y PROVE FALSE
    BY <1>1, <1>2, <1>4, <2>2 DEF Sole
  <2> QED BY <2>1, <2>2 DEF Sole, Holds
<1>5. ASSUME NEW y, NEW z, Before(q, y, z)
      PROVE  Before(Tail(q), y, z) /\ (z = Head(q) => ~Holds(Tail(q), y))
  <2>1. ASSUME NEW i \in DOMAIN Tail(q), NEW j \in DOMAIN Tail(q), Tail(q)[i] = y, Tail(q)[j] = z
        PROVE  i < j
    <3>1. i + 1 < j + 1
      BY <1>2, <1>5, <2>1 DEF Before
    <3> QED BY <1>2, <3>1
  <2>2. ASSUME z = Head(q), NEW i \in DOMAIN Tail(q), Tail(q)[i] = y PROVE FALSE
    BY <1>1, <1>2, <1>5, <2>2 DEF Before
  <2> QED BY <2>1, <2>2 DEF Before, Holds
<1> QED BY <1>3, <1>4, <1>5

\* What a delivered message x does to the queues of the clients.
Fed(e, x) ==
  /\ \A d \in Clients : \A y :
       /\ Holds(down'[d], y) => Holds(down[d], y) \/ (d = e /\ y = x)
       /\ Holds(down[d], y) => Holds(down'[d], y)
       /\ Sole(down[d], y) /\ (d = e /\ y = x => ~Holds(down[d], y)) => Sole(down'[d], y)
       /\ \A z : Before(down[d], y, z) /\ y # z /\ (d = e /\ y = x => ~Holds(down[d], z))
                   => Before(down'[d], y, z)
  /\ \A d \in Clients : link[d] # "up" => down'[d] = down[d]

LEMMA FedBy ==
  ASSUME Queues, NEW e \in Clients, NEW x \in DownMsgs, Deliver(e, x)
  PROVE  Fed(e, x) /\ (link[e] = "up" => Holds(down'[e], x))
<1>1. CASE link[e] # "up"
  BY <1>1 DEF Deliver, Fed
<1>2. CASE link[e] = "up"
  <2>1. down[e] \in Seq(DownMsgs)
    BY DEF Queues
  <2>2. /\ Holds(Append(down[e], x), x)
        /\ \A y : Holds(Append(down[e], x), y) => Holds(down[e], y) \/ y = x
        /\ \A y : Holds(down[e], y) => Holds(Append(down[e], x), y)
        /\ \A y : Sole(down[e], y) /\ (y = x => ~Holds(down[e], y)) => Sole(Append(down[e], x), y)
        /\ \A y, z : Before(down[e], y, z) /\ y # z /\ (y = x => ~Holds(down[e], z))
                       => Before(Append(down[e], x), y, z)
    BY <2>1, AppendHolds, AppendOrder
  <2>3. down'[e] = Append(down[e], x) /\ \A d \in Clients \ {e} : down'[d] = down[d]
    BY <1>2 DEF Deliver, Queues
  <2> QED BY <1>2, <2>2, <2>3 DEF Fed
<1> QED BY <1>1, <1>2

\* Nothing is delivered.
LEMMA FedNothing ==
  ASSUME UNCHANGED down, NEW e, NEW x
  PROVE  Fed(e, x)
  BY DEF Fed

\* What the server's steps have in common: where c's handler goes (h), which
\* message it sends (x, to e), which sessions it removes, and that it tells.
HandlerFits(c, h) ==
  /\ h.pc = "issue" => h.to # c
  /\ h.pc = "cleanup" => link'[c] = "dead"
  /\ \A s \in Sids :
       /\ Granting(h, s) => Granting(handler[c], s)
       /\ Removing(h, s) => c \in Parties(s) /\ Leaving(c, s)
       /\ Refusing(h, s) => said[s] = "no"
       /\ Affirming(h, s) => Present(s) /\ UNCHANGED table /\ party[s].tgt = c
       /\ Telling(h, s) => s <= issued /\ c \in Parties(s) /\ ~Present(s)'

MessageFits(c, h, e, x) ==
  \A s \in Sids :
    /\ x = Grant(s) => e = c /\ Granting(handler[c], s) /\ ~Granting(h, s)
    /\ x = Resp(s, TRUE) => Affirming(handler[c], s) /\ e = party[s].ctl
    /\ x = End(s) => Telling(handler[c], s) /\ e = Peer(c, s) /\ ~Affirming(h, s)

TableFits(c, h) ==
  \A s \in Sids :
    /\ table'[s] = table[s] \/ s <= issued
    /\ table'[s] = "none" /\ table[s] # "none" =>
         \/ said[s] # "yes"
         \/ /\ Telling(h, s) /\ c \in Parties(s) /\ ~Inside(c, s)
            /\ ~Granting(h, s) /\ ~Holds(down'[c], Grant(s))

TellingFits(c, h) ==
  \A s \in Sids : Telling(handler[c], s) =>
    Telling(h, s) \/ Holds(down'[Peer(c, s)], End(s)) \/ link[Peer(c, s)] # "up"

UpLess == \A d \in Clients : \A y : Holds(up'[d], y) => Holds(up[d], y)

ServerFits(c, h, e, x) ==
  /\ handler' = [handler EXCEPT ![c] = h] /\ UNCHANGED <<party, issued, mgr, said>>
  /\ \A d \in Clients : link'[d] # "up" => link[d] # "up"
  /\ \A d \in Clients \ {c} : link'[d] = link[d]
  /\ UpLess /\ Fed(e, x) /\ StaysOut
  /\ HandlerFits(c, h) /\ MessageFits(c, h, e, x) /\ TableFits(c, h) /\ TellingFits(c, h)

LEMMA OneHandler ==
  ASSUME Inv, NEW c \in Clients, NEW h, handler' = [handler EXCEPT ![c] = h]
  PROVE  handler'[c] = h /\ \A d \in Clients \ {c} : handler'[d] = handler[d]
  BY Known DEF Ledger

LEMMA ServerRoutes ==
  ASSUME Inv, Closed, NEW c \in Clients, NEW h, NEW e, NEW x, ServerFits(c, h, e, x)
  PROVE  Routes'
<1>1. handler'[c] = h /\ \A d \in Clients \ {c} : handler'[d] = handler[d]
  BY OneHandler DEF ServerFits
<1>2. ASSUME NEW d \in Clients
      PROVE  /\ link'[d] # "up" => mgr'[d] = Quiet /\ down'[d] = <<>>
             /\ ~Holds(up'[d], Connect(d))
             /\ handler'[d].pc = "issue" => handler'[d].to # d
             /\ handler'[d].pc = "cleanup" => link'[d] = "dead"
  <2>1. link'[d] # "up" => mgr'[d] = Quiet /\ down'[d] = <<>>
    BY DEF ServerFits, Fed, Closed, Routes
  <2>2. ~Holds(up'[d], Connect(d))
    BY DEF ServerFits, UpLess, Closed, Routes
  <2>3. handler'[d].pc = "issue" => handler'[d].to # d
    BY <1>1 DEF ServerFits, HandlerFits, Closed, Routes
  <2>4. handler'[d].pc = "cleanup" => link'[d] = "dead"
    BY <1>1 DEF ServerFits, HandlerFits, Closed, Routes
  <2> QED BY <2>1, <2>2, <2>3, <2>4
<1>3. ASSUME NEW s \in Sids
      PROVE  IF s <= issued' THEN party'[s].ctl # party'[s].tgt ELSE table'[s] = "none"
  BY DEF ServerFits, TableFits, Closed, Routes
<1> QED BY <1>2, <1>3 DEF Routes

LEMMA ServerGrants ==
  ASSUME Inv, Closed, NEW c \in Clients, NEW h, NEW e, NEW x, ServerFits(c, h, e, x)
  PROVE  Grants' /\ \A d \in Clients, s \in Sids : GrantAhead(d, s)' => GrantAhead(d, s)
<1>1. handler'[c] = h /\ \A d \in Clients \ {c} : handler'[d] = handler[d]
  BY OneHandler DEF ServerFits
<1>2. \A d \in Clients, s \in Sids : Granting(handler'[d], s) => Granting(handler[d], s)
  BY <1>1 DEF ServerFits, HandlerFits
<1>3. ASSUME NEW d \in Clients, NEW s \in Sids, Holds(down'[d], Grant(s)), ~Holds(down[d], Grant(s))
      PROVE  d = c /\ Granting(handler[c], s) /\ ~Granting(handler'[c], s)
  BY <1>1, <1>3 DEF ServerFits, Fed, MessageFits
<1>4. ASSUME NEW d \in Clients, NEW s \in Sids PROVE Sole(down'[d], Grant(s))
  <2>1. d = e /\ Grant(s) = x => ~Holds(down[d], Grant(s))
    BY DEF ServerFits, MessageFits, Closed, Grants
  <2>2. Sole(down[d], Grant(s))
    BY DEF Closed, Grants
  <2> QED BY <2>1, <2>2 DEF ServerFits, Fed
<1>5. \A d \in Clients, s \in Sids : GrantAhead(d, s)' => GrantAhead(d, s)
  BY <1>2, <1>3 DEF GrantAhead
<1>6. ASSUME NEW d \in Clients, NEW s \in Sids, Granting(handler'[d], s) PROVE ~Holds(down'[d], Grant(s))
  <2>1. Granting(handler[d], s) /\ ~Holds(down[d], Grant(s))
    BY <1>2, <1>6 DEF Closed, Grants
  <2> QED BY <1>3, <1>6, <2>1
<1>7. UNCHANGED <<party, issued>>
  BY DEF ServerFits
<1> QED BY <1>4, <1>5, <1>6, <1>7 DEF Closed, Grants

LEMMA ServerRoles ==
  ASSUME Inv, Closed, NEW c \in Clients, NEW h, NEW e, NEW x, ServerFits(c, h, e, x)
  PROVE  Roles' /\ Refusals'
<1>1. handler'[c] = h /\ \A d \in Clients \ {c} : handler'[d] = handler[d]
  BY OneHandler DEF ServerFits
<1>2. UNCHANGED <<party, issued, mgr, said>>
  BY DEF ServerFits
<1>3. \A d \in Clients, s \in Sids : GrantAhead(d, s)' => GrantAhead(d, s)
  BY ServerGrants
<1>4. ASSUME NEW d \in Clients, NEW s \in Sids, Leaving(d, s)' PROVE Leaving(d, s)
  <2>1. Holds(up'[d], End(s)) => Holds(up[d], End(s))
    BY DEF ServerFits, UpLess
  <2>2. Removing(handler'[d], s) => Leaving(d, s)
    BY <1>1 DEF ServerFits, HandlerFits, Leaving
  <2> QED BY <1>4, <2>1, <2>2 DEF Leaving
<1>5. Roles'
  BY <1>2, <1>3, <1>4 DEF Closed, Roles, Inside
<1>6. ASSUME NEW d \in Clients, NEW s \in Sids,
             Holds(up'[d], Resp(s, FALSE)) \/ Refusing(handler'[d], s)
      PROVE  said'[s] = "no"
  <2>1. Holds(up'[d], Resp(s, FALSE)) => Holds(up[d], Resp(s, FALSE))
    BY DEF ServerFits, UpLess
  <2>2. Refusing(handler'[d], s) => Refusing(handler[d], s) \/ said[s] = "no"
    BY <1>1 DEF ServerFits, HandlerFits
  <2> QED BY <1>2, <1>6, <2>1, <2>2 DEF Closed, Refusals
<1> QED BY <1>5, <1>6 DEF Refusals

LEMMA Others ==
  ASSUME Inv, Closed, NEW s \in Sids, s <= issued
  PROVE  /\ party[s].ctl \in Clients /\ party[s].tgt \in Clients /\ party[s].ctl # party[s].tgt
         /\ \A d \in Clients : d \in Parties(s) <=> d = party[s].ctl \/ d = party[s].tgt
         /\ Peer(party[s].ctl, s) = party[s].tgt /\ Peer(party[s].tgt, s) = party[s].ctl
         /\ \A d \in Clients : Peer(d, s) \in Clients
  BY Known, ClientsAssumption DEF Closed, Routes, Parties, Peer

LEMMA Kinds ==
  ASSUME NEW s \in Sids
  PROVE  Resp(s, TRUE) # End(s) /\ Grant(s) # End(s) /\ Resp(s, TRUE) # Grant(s)
  BY MessageShapes

LEMMA ServerEndings ==
  ASSUME Inv, Closed, NEW c \in Clients, NEW h, NEW e, NEW x, ServerFits(c, h, e, x)
  PROVE  Endings'
<1>1. handler'[c] = h /\ \A d \in Clients \ {c} : handler'[d] = handler[d]
  BY OneHandler DEF ServerFits
<1>2. UNCHANGED <<party, issued, mgr, said>>
  BY DEF ServerFits
<1>3. \A s \in Sids : s <= issued /\ ~Present(s) => ~Present(s)'
  BY DEF ServerFits, StaysOut, Present
<1>4. ASSUME NEW d \in Clients, NEW s \in Sids, Telling(handler'[d], s)
      PROVE  s <= issued /\ ~Present(s)' /\ d \in Parties(s)
  <2>1. CASE d = c
    BY <1>1, <1>3, <1>4, <2>1 DEF ServerFits, HandlerFits
  <2>2. CASE d # c
    BY <1>1, <1>3, <1>4, <2>2 DEF Closed, Endings
  <2> QED BY <2>1, <2>2
<1>5. ASSUME NEW s \in Sids, Affirming(h, s) PROVE Present(s) /\ party[s].tgt = c
  BY <1>5 DEF ServerFits, HandlerFits
<1>6. ASSUME NEW d \in Clients, NEW s \in Sids, Holds(down'[d], End(s))
      PROVE  /\ s <= issued /\ ~Present(s)'
             /\ party[s].ctl = d => ~Affirming(handler'[party[s].tgt], s)
  <2>1. CASE Holds(down[d], End(s))
    <3>1. /\ s <= issued /\ ~Present(s)
          /\ party[s].ctl = d => ~Affirming(handler[party[s].tgt], s)
      BY <2>1 DEF Closed, Endings
    <3>2. party[s].tgt \in Clients
      BY Known
    <3>3. ~Affirming(h, s)
      BY <1>5, <3>1
    <3> QED BY <1>1, <1>3, <3>1, <3>2, <3>3
  <2>2. CASE ~Holds(down[d], End(s))
    <3>1. d = e /\ x = End(s)
      BY <1>6, <2>2 DEF ServerFits, Fed
    <3>2. Telling(handler[c], s) /\ d = Peer(c, s) /\ ~Affirming(h, s)
      BY <3>1 DEF ServerFits, MessageFits
    <3>3. s <= issued /\ ~Present(s) /\ c \in Parties(s)
      BY <3>2 DEF Closed, Endings
    <3>4. party[s].ctl = d => party[s].tgt = c
      BY <3>2, <3>3, Others
    <3> QED BY <1>1, <1>3, <3>2, <3>3, <3>4
  <2> QED BY <2>1, <2>2
<1>7. ASSUME NEW d \in Clients, NEW s \in Sids PROVE Before(down'[d], Resp(s, TRUE), End(s))
  <2>1. Before(down[d], Resp(s, TRUE), End(s))
    BY DEF Closed, Endings
  <2>2. ASSUME d = e, Resp(s, TRUE) = x PROVE ~Holds(down[d], End(s))
    <3>1. Affirming(handler[c], s) /\ d = party[s].ctl
      BY <2>2 DEF ServerFits, MessageFits
    <3>2. party[s].tgt = c
      BY <3>1 DEF Closed, Endings
    <3> QED BY <3>1, <3>2 DEF Closed, Endings
  <2> QED BY <2>1, <2>2, Kinds DEF ServerFits, Fed
<1>8. ASSUME NEW d \in Clients, NEW s \in Sids
      PROVE  /\ Removing(handler'[d], s) => d \in Parties(s)
             /\ Affirming(handler'[d], s) => party[s].tgt = d
  <2>1. CASE d = c
    <3>1. Removing(h, s) => c \in Parties(s)
      BY DEF ServerFits, HandlerFits
    <3> QED BY <1>1, <1>5, <2>1, <3>1
  <2>2. CASE d # c
    BY <1>1, <2>2 DEF Closed, Endings
  <2> QED BY <2>1, <2>2
<1>9. \A s \in Sids : Parties(s)' = Parties(s)
  BY <1>2 DEF Parties
<1> QED BY <1>2, <1>4, <1>6, <1>7, <1>8, <1>9 DEF Endings

\* An end that is on its way to a client that is connected stays on its way.
LEMMA EndStays ==
  ASSUME Inv, Closed, NEW c \in Clients, NEW h, NEW e, NEW x, ServerFits(c, h, e, x),
         NEW d \in Clients, NEW s \in Sids, EndComes(d, s)
  PROVE  EndComes(d, s)' \/ (link[d] # "up" /\ Telling(handler[c], s) /\ Peer(c, s) = d)
<1>1. handler'[c] = h /\ \A g \in Clients \ {c} : handler'[g] = handler[g]
  BY OneHandler DEF ServerFits
<1>2. \A g : Peer(g, s)' = Peer(g, s)
  BY DEF ServerFits, Peer
<1>3. CASE Holds(down[d], End(s))
  <2>1. Holds(down'[d], End(s))
    BY <1>3 DEF ServerFits, Fed
  <2> QED BY <2>1 DEF EndComes, Holds
<1>4. CASE \E g \in Clients : Peer(g, s) = d /\ Telling(handler[g], s)
  <2>1. PICK g \in Clients : Peer(g, s) = d /\ Telling(handler[g], s)
    BY <1>4
  <2>2. CASE Telling(handler'[g], s)
    BY <1>2, <2>1, <2>2 DEF EndComes, Telling
  <2>3. CASE ~Telling(handler'[g], s)
    <3>1. g = c
      BY <1>1, <2>1, <2>3
    <3>2. Holds(down'[d], End(s)) \/ link[d] # "up"
      BY <1>1, <2>1, <2>3, <3>1 DEF ServerFits, TellingFits
    <3> QED BY <2>1, <3>1, <3>2 DEF EndComes, Holds
  <2> QED BY <2>2, <2>3
<1> QED BY <1>3, <1>4, EndComing

LEMMA YesIsSaid ==
  ASSUME Inv, NEW s \in Sids, YesAhead(party[s].ctl, s)
  PROVE  said[s] = "yes"
<1>1. party[s].ctl \in Clients /\ party[s].tgt \in Clients
  BY Known, ClientsAssumption
<1>2. CASE Affirming(handler[party[s].tgt], s)
  BY <1>1, <1>2 DEF Affirming, Inv, Affirmed
<1>3. CASE ~Affirming(handler[party[s].tgt], s)
  BY <1>1, <1>3 DEF YesAhead, Inv, Affirmed
<1> QED BY <1>2, <1>3

\* Who removes a session tells the other end, whom it leaves alone.
LEMMA RemoverTells ==
  ASSUME Inv, Closed, NEW c \in Clients, NEW h, NEW e, NEW x, ServerFits(c, h, e, x),
         NEW s \in Sids, s <= issued, said[s] = "yes", table'[s] = "none", table[s] # "none",
         NEW d \in Clients, d \in Parties(s), GrantAhead(d, s)' \/ Inside(d, s)
  PROVE  EndComes(d, s)' /\ ~Inside(c, s) /\ d = Peer(c, s) /\ c \in Parties(s)
<1>1. handler'[c] = h /\ \A g \in Clients \ {c} : handler'[g] = handler[g]
  BY OneHandler DEF ServerFits
<1>2. /\ Telling(h, s) /\ c \in Parties(s) /\ ~Inside(c, s)
      /\ ~Granting(h, s) /\ ~Holds(down'[c], Grant(s))
  BY DEF ServerFits, TableFits
<1>3. c # d
  BY <1>1, <1>2 DEF GrantAhead
<1>4. d = Peer(c, s)
  BY <1>2, <1>3, Others
<1>5. Peer(c, s)' = Peer(c, s)
  BY DEF ServerFits, Peer
<1>6. EndComes(d, s)'
  BY <1>1, <1>2, <1>4, <1>5 DEF EndComes, Telling
<1> QED BY <1>2, <1>4, <1>6

LEMMA ServerClosing ==
  ASSUME Inv, Closed, NEW c \in Clients, NEW h, NEW e, NEW x, ServerFits(c, h, e, x)
  PROVE  Closing'
<1>1. handler'[c] = h /\ \A d \in Clients \ {c} : handler'[d] = handler[d]
  BY OneHandler DEF ServerFits
<1>2. UNCHANGED <<party, issued, mgr, said>>
  BY DEF ServerFits
<1> SUFFICES ASSUME NEW s \in Sids, table'[s] = "none",
                    NEW d, d = party[s].ctl, NEW t, t = party[s].tgt,
                    GrantAhead(d, s)' \/ Inside(d, s), YesAhead(d, s)'
             PROVE  EndComes(d, s)' /\ ~Inside(t, s)
  BY <1>2 DEF Closing, Inside
<1>3. d \in Clients /\ t \in Clients
  BY Known
<1>4. GrantAhead(d, s) \/ Inside(d, s)
  BY <1>3, ServerGrants
<1>5. s <= issued
  BY <1>3, <1>4 DEF Closed, Grants, Roles
<1>6. ~Affirming(h, s) \/ (Present(s) /\ UNCHANGED table)
  BY DEF ServerFits, HandlerFits
<1>7. ~Affirming(h, s)
  BY <1>6 DEF Present
<1>8. YesAhead(d, s)
  <2>1. Affirming(handler'[t], s) => Affirming(handler[t], s)
    BY <1>1, <1>3, <1>7
  <2>2. ASSUME Holds(down'[d], Resp(s, TRUE)), ~Holds(down[d], Resp(s, TRUE))
        PROVE  Affirming(handler[t], s)
    <3>1. Affirming(handler[c], s)
      BY <1>3, <2>2 DEF ServerFits, Fed, MessageFits
    <3> QED BY <3>1 DEF Closed, Endings
  <2> QED BY <1>2, <2>1, <2>2 DEF YesAhead, HasTask
<1>9. said[s] = "yes"
  BY <1>8, YesIsSaid
<1>10. CASE table[s] = "none"
  <2>1. EndComes(d, s) /\ ~Inside(t, s)
    BY <1>4, <1>8, <1>10 DEF Closed, Closing
  <2>2. ASSUME link[d] # "up", Telling(handler[c], s), Peer(c, s) = d PROVE FALSE
    <3>1. mgr[d] = Quiet /\ down[d] = <<>> /\ down'[d] = <<>>
      BY <1>3, <2>2 DEF Closed, Routes, ServerFits, Fed
    <3>2. c = t
      BY <1>3, <1>5, <2>2, Others DEF Closed, Endings
    <3>3. ~Holds(down[d], Resp(s, TRUE)) /\ mgr[d].early # s /\ ~HasTask(d)
      BY <3>1, QuietFits, Numbers DEF Holds, HasTask
    <3>4. ~Affirming(handler[t], s)
      BY <2>2, <3>2 DEF Telling, Affirming
    <3> QED BY <1>8, <3>3, <3>4 DEF YesAhead
  <2> QED BY <1>3, <2>1, <2>2, EndStays
<1>11. CASE table[s] # "none"
  <2>1. d \in Parties(s)
    BY DEF Parties
  <2>2. EndComes(d, s)' /\ ~Inside(c, s) /\ d = Peer(c, s) /\ c \in Parties(s)
    BY <1>3, <1>5, <1>9, <1>11, <2>1, RemoverTells
  <2>3. c = t
    BY <1>3, <1>5, <2>2, Others
  <2> QED BY <2>2, <2>3
<1> QED BY <1>10, <1>11

LEMMA ServerNews ==
  ASSUME Inv, Closed, NEW c \in Clients, NEW h, NEW e, NEW x, ServerFits(c, h, e, x)
  PROVE  NewsKept
<1>1. UNCHANGED <<party, issued, mgr, said>>
  BY DEF ServerFits
<1> SUFFICES ASSUME NEW s \in Sids, said[s] = "yes", TargetTold(s), table'[s] = "none",
                    NEW t, t = party[s].tgt, Inside(t, s)
             PROVE  EndComes(t, s)'
  BY <1>1 DEF NewsKept, TargetTold, Inside
<1>2. t \in Clients /\ t \in Parties(s) /\ s <= issued
  BY Known DEF Closed, Roles, Parties
<1>3. link[t] = "up"
  BY <1>2, QuietFits, Numbers DEF Closed, Routes, Inside
<1>4. CASE table[s] = "none"
  BY <1>2, <1>3, <1>4, EndStays DEF TargetTold
<1>5. CASE table[s] # "none"
  BY <1>2, <1>5, RemoverTells
<1> QED BY <1>4, <1>5

LEMMA ServerEnds ==
  ASSUME Inv, Closed, NEW c \in Clients, NEW h, NEW e, NEW x, ServerFits(c, h, e, x)
  PROVE  Closed' /\ NewsKept
  BY ServerRoutes, ServerGrants, ServerRoles, ServerEndings, ServerClosing, ServerNews DEF Closed

-----------------------------------------------------------------------------
(* What the clients' steps have in common: c's manager becomes r.          *)

\* What c takes from its queue of messages, and what it adds to the other.
DownLess(c) ==
  \A y : /\ Holds(down'[c], y) => Holds(down[c], y)
         /\ Sole(down[c], y) => Sole(down'[c], y)
         /\ \A z : Before(down[c], y, z) => Before(down'[c], y, z)

SendingFits(c, r) ==
  /\ ~Holds(up'[c], Connect(c))
  /\ \A s \in Sids :
       /\ Holds(up'[c], End(s)) => Holds(up[c], End(s)) \/ (Inside(c, s) /\ r.active # s)
       /\ Holds(up'[c], Resp(s, FALSE)) => Holds(up[c], Resp(s, FALSE)) \/ said'[s] = "no"

EntryFits(c, r) ==
  \A s \in Sids :
    /\ r.active = s => \/ Inside(c, s)
                       \/ Holds(down[c], Grant(s)) /\ ~Holds(down'[c], Grant(s))
                       \/ Asked(c, s) /\ said'[s] = "yes"
    /\ r.early = s => mgr[c].early = s \/ Holds(down[c], Resp(s, TRUE))
    /\ r.active = s /\ r.grant = NoSid /\ party[s].ctl = c => YesAhead(c, s)

EndFits(c, r) ==
  \A s \in Sids :
    Holds(down[c], End(s)) => \/ Holds(down'[c], End(s))
                              \/ r.active # s /\ r.early # s /\ ~Holds(down'[c], Resp(s, TRUE))

ClientFits(c, r) ==
  /\ mgr' = [mgr EXCEPT ![c] = r] /\ UNCHANGED serverVars /\ AnswersStay
  /\ \A d \in Clients \ {c} : down'[d] = down[d] /\ up'[d] = up[d] /\ link'[d] = link[d]
  /\ link'[c] # "up" => r = Quiet /\ down'[c] = <<>>
  /\ link[c] = "dead" => link'[c] = "dead"
  /\ DownLess(c) /\ SendingFits(c, r) /\ EntryFits(c, r) /\ EndFits(c, r)

LEMMA OneManager ==
  ASSUME Inv, NEW c \in Clients, NEW r, ClientFits(c, r)
  PROVE  /\ mgr'[c] = r /\ \A d \in Clients \ {c} : mgr'[d] = mgr[d]
         /\ UNCHANGED <<table, party, issued, handler>>
  BY DEF Inv, Sane, ManagersFit, ClientFits, serverVars

LEMMA ClientRoutes ==
  ASSUME Inv, Closed, NEW c \in Clients, NEW r, ClientFits(c, r)
  PROVE  Routes' /\ Grants' /\ \A d \in Clients, s \in Sids : GrantAhead(d, s)' => GrantAhead(d, s)
<1>1. /\ mgr'[c] = r /\ \A d \in Clients \ {c} : mgr'[d] = mgr[d]
      /\ UNCHANGED <<table, party, issued, handler>>
  BY OneManager
<1>2. Routes'
  <2>1. ASSUME NEW d \in Clients
        PROVE  /\ link'[d] # "up" => mgr'[d] = Quiet /\ down'[d] = <<>>
               /\ ~Holds(up'[d], Connect(d))
               /\ link[d] = "dead" => link'[d] = "dead"
    <3>1. CASE d = c
      BY <1>1, <3>1 DEF ClientFits, SendingFits
    <3>2. CASE d # c
      BY <1>1, <3>2 DEF ClientFits, Closed, Routes
    <3> QED BY <3>1, <3>2
  <2> QED BY <1>1, <2>1 DEF Closed, Routes
<1>3. \A d \in Clients : \A y : /\ Holds(down'[d], y) => Holds(down[d], y)
                                /\ Sole(down[d], y) => Sole(down'[d], y)
  BY DEF ClientFits, DownLess
<1>4. \A d \in Clients, s \in Sids : GrantAhead(d, s)' => GrantAhead(d, s)
  BY <1>1, <1>3 DEF GrantAhead
<1>5. Grants'
  BY <1>1, <1>3, <1>4 DEF Closed, Grants
<1> QED BY <1>2, <1>4, <1>5

LEMMA ClientRoles ==
  ASSUME Inv, Closed, NEW c \in Clients, NEW r, ClientFits(c, r)
  PROVE  Roles'
<1>1. /\ mgr'[c] = r /\ \A d \in Clients \ {c} : mgr'[d] = mgr[d]
      /\ UNCHANGED <<table, party, issued, handler>>
  BY OneManager
<1>2. \A d \in Clients, s \in Sids : GrantAhead(d, s)' => GrantAhead(d, s)
  BY ClientRoutes
<1>3. \A s \in Sids : said[s] = "yes" => said'[s] = "yes"
  BY DEF ClientFits, AnswersStay
<1>4. ASSUME NEW d \in Clients, NEW s \in Sids, Leaving(d, s)', ~Leaving(d, s)
      PROVE  d = c /\ Inside(c, s) /\ r.active # s
  BY <1>1, <1>4 DEF Leaving, ClientFits, SendingFits
<1>5. ASSUME NEW s \in Sids, r.active = s, ~Inside(c, s)
      PROVE  /\ s <= issued /\ ~Leaving(c, s)
             /\ \/ party[s].ctl = c /\ ~GrantAhead(c, s)'
                \/ party[s].tgt = c /\ said'[s] = "yes"
  <2>1. CASE Holds(down[c], Grant(s)) /\ ~Holds(down'[c], Grant(s))
    <3>1. GrantAhead(c, s)
      BY <2>1 DEF GrantAhead
    <3>2. s <= issued /\ party[s].ctl = c /\ ~Granting(handler[c], s)
      BY <2>1, <3>1 DEF Closed, Grants
    <3>3. party[s].tgt # c
      BY <3>2 DEF Closed, Routes
    <3>4. ~Leaving(c, s)
      BY <3>1, <3>3 DEF Closed, Roles
    <3> QED BY <1>1, <2>1, <3>2, <3>4 DEF GrantAhead
  <2>2. CASE Asked(c, s) /\ said'[s] = "yes"
    <3>1. s <= issued /\ party[s].tgt = c /\ said[s] = "none"
      BY <2>2 DEF Inv, Questions
    <3>2. party[s].ctl # c
      BY <3>1 DEF Closed, Routes
    <3>3. ~Leaving(c, s)
      BY <3>1, <3>2 DEF Closed, Roles
    <3> QED BY <2>2, <3>1, <3>3
  <2> QED BY <1>5, <2>1, <2>2 DEF ClientFits, EntryFits
<1>6. ASSUME NEW d \in Clients, NEW s \in Sids, Inside(d, s)' \/ Leaving(d, s)'
      PROVE  /\ s <= issued
             /\ \/ party[s].ctl = d /\ ~GrantAhead(d, s)'
                \/ party[s].tgt = d /\ said'[s] = "yes"
  <2>1. CASE Inside(d, s) \/ Leaving(d, s)
    BY <1>2, <1>3, <2>1 DEF Closed, Roles
  <2>2. CASE ~Inside(d, s) /\ ~Leaving(d, s)
    <3>1. d = c /\ r.active = s
      BY <1>1, <1>4, <1>6, <2>2 DEF Inside
    <3> QED BY <1>5, <2>2, <3>1
  <2> QED BY <2>1, <2>2
<1>7. ASSUME NEW d \in Clients, NEW s \in Sids, Leaving(d, s)' PROVE ~Inside(d, s)'
  <2>1. CASE Leaving(d, s)
    <3>1. ~Inside(d, s)
      BY <2>1 DEF Closed, Roles
    <3>2. CASE d = c
      BY <1>1, <1>5, <2>1, <3>1, <3>2 DEF Inside
    <3>3. CASE d # c
      BY <1>1, <3>1, <3>3 DEF Inside
    <3> QED BY <3>2, <3>3
  <2>2. CASE ~Leaving(d, s)
    BY <1>1, <1>4, <1>7, <2>2 DEF Inside
  <2> QED BY <2>1, <2>2
<1> QED BY <1>1, <1>6, <1>7 DEF Roles

LEMMA ClientEndings ==
  ASSUME Inv, Closed, NEW c \in Clients, NEW r, ClientFits(c, r)
  PROVE  Refusals' /\ Endings'
<1>1. UNCHANGED <<table, party, issued, handler>>
  BY OneManager
<1>2. Refusals'
  <2> SUFFICES ASSUME NEW d \in Clients, NEW s \in Sids,
                      Holds(up'[d], Resp(s, FALSE)) \/ Refusing(handler[d], s)
               PROVE  said'[s] = "no"
    BY <1>1 DEF Refusals
  <2>1. Holds(up[d], Resp(s, FALSE)) \/ Refusing(handler[d], s) \/ said'[s] = "no"
    BY DEF ClientFits, SendingFits
  <2>2. said[s] = "no" => said'[s] = "no"
    BY DEF ClientFits, AnswersStay
  <2> QED BY <2>1, <2>2 DEF Closed, Refusals
<1>3. \A d \in Clients : \A y : /\ Holds(down'[d], y) => Holds(down[d], y)
                                /\ \A z : Before(down[d], y, z) => Before(down'[d], y, z)
  BY DEF ClientFits, DownLess
<1>4. \A s : Present(s)' = Present(s) /\ Parties(s)' = Parties(s)
  BY <1>1 DEF Present, Parties
<1>5. Endings'
  BY <1>1, <1>3, <1>4 DEF Closed, Endings
<1> QED BY <1>2, <1>5

\* Only c's own step takes an end from its queue.
EndTaken(c, r, s) ==
  /\ Holds(down[c], End(s))
  /\ r.active # s /\ r.early # s /\ ~Holds(down'[c], Resp(s, TRUE))

LEMMA EndStaysWithClients ==
  ASSUME Inv, Closed, NEW c \in Clients, NEW r, ClientFits(c, r),
         NEW d \in Clients, NEW s \in Sids, EndComes(d, s)
  PROVE  EndComes(d, s)' \/ (d = c /\ EndTaken(c, r, s))
<1>1. UNCHANGED <<party, handler>>
  BY OneManager
<1>2. CASE Holds(down[d], End(s))
  <2>1. \/ Holds(down'[d], End(s))
        \/ /\ d = c /\ r.active # s /\ r.early # s /\ ~Holds(down'[c], Resp(s, TRUE))
    BY <1>2 DEF ClientFits, EndFits
  <2> QED BY <1>2, <2>1 DEF EndComes, EndTaken, Holds
<1>3. CASE ~Holds(down[d], End(s))
  BY <1>1, <1>3 DEF EndComes, Holds, Peer
<1> QED BY <1>2, <1>3

LEMMA ClientClosing ==
  ASSUME Inv, Closed, NEW c \in Clients, NEW r, ClientFits(c, r)
  PROVE  Closing'
<1>1. /\ mgr'[c] = r /\ \A d \in Clients \ {c} : mgr'[d] = mgr[d]
      /\ UNCHANGED <<table, party, issued, handler>>
  BY OneManager
<1> SUFFICES ASSUME NEW s \in Sids, table[s] = "none",
                    NEW d, d = party[s].ctl, NEW t, t = party[s].tgt,
                    GrantAhead(d, s)' \/ Inside(d, s)', YesAhead(d, s)'
             PROVE  EndComes(d, s)' /\ ~Inside(t, s)'
  BY <1>1 DEF Closing
<1>2. d \in Clients /\ t \in Clients
  BY Known
<1>3. YesAhead(d, s)
  <2>1. Affirming(handler'[party'[s].tgt], s) => Affirming(handler[party[s].tgt], s)
    <3>1. handler' = handler /\ party' = party
      BY <1>1
    <3> QED BY <3>1
  <2>2. Holds(down'[d], Resp(s, TRUE)) => Holds(down[d], Resp(s, TRUE))
    BY <1>2 DEF ClientFits, DownLess
  <2>3. mgr'[d].early = s => mgr[d].early = s \/ Holds(down[d], Resp(s, TRUE))
    <3>1. CASE d = c
      BY <1>1, <3>1 DEF ClientFits, EntryFits
    <3>2. CASE d # c
      BY <1>1, <1>2, <3>2
    <3> QED BY <3>1, <3>2
  <2>4. HasTask(d)' /\ mgr'[d].active = s => YesAhead(d, s)
    <3>1. CASE d = c
      <4>1. HasTask(d)' => r.grant = NoSid
        BY <1>1, <3>1 DEF HasTask
      <4>2. r.active = s /\ r.grant = NoSid => YesAhead(d, s)
        BY <3>1 DEF ClientFits, EntryFits
      <4> QED BY <1>1, <3>1, <4>1, <4>2
    <3>2. CASE d # c
      BY <1>1, <1>2, <3>2 DEF YesAhead, HasTask
    <3> QED BY <3>1, <3>2
  <2> QED BY <2>1, <2>2, <2>3, <2>4 DEF YesAhead
<1>4. said[s] = "yes"
  BY <1>3, YesIsSaid
<1>5. ~Asked(t, s) /\ ~Asked(d, s)
  BY <1>2, <1>4 DEF Inv, Questions
<1>6. GrantAhead(d, s) \/ Inside(d, s)
  <2>1. GrantAhead(d, s)' => GrantAhead(d, s)
    BY <1>2, ClientRoutes
  <2>2. CASE Inside(d, s)' /\ ~Inside(d, s)
    <3>1. d = c /\ r.active = s
      BY <1>1, <1>2, <2>2 DEF Inside
    <3>2. Holds(down[c], Grant(s))
      BY <1>5, <2>2, <3>1 DEF ClientFits, EntryFits
    <3> QED BY <3>1, <3>2 DEF GrantAhead
  <2> QED BY <2>1, <2>2
<1>7. EndComes(d, s) /\ ~Inside(t, s)
  BY <1>3, <1>6 DEF Closed, Closing
<1>8. s <= issued /\ d # t
  BY <1>2, <1>6 DEF Closed, Grants, Roles, Routes
<1>9. ~Inside(t, s)'
  <2> SUFFICES ASSUME Inside(t, s)' PROVE FALSE
    OBVIOUS
  <2>1. t = c /\ r.active = s
    BY <1>1, <1>2, <1>7 DEF Inside
  <2>2. Holds(down[c], Grant(s))
    BY <1>5, <1>7, <2>1 DEF ClientFits, EntryFits
  <2>3. d = c
    BY <2>2 DEF GrantAhead, Closed, Grants
  <2> QED BY <1>8, <2>1, <2>3
<1>10. ASSUME d = c, EndTaken(c, r, s) PROVE FALSE
  <2>1. ~Affirming(handler[t], s)
    BY <1>2, <1>10 DEF EndTaken, Closed, Endings
  <2> QED BY <1>1, <1>2, <1>10, <2>1 DEF EndTaken, YesAhead
<1>11. EndComes(d, s)'
  BY <1>2, <1>7, <1>10, EndStaysWithClients
<1> QED BY <1>9, <1>11

LEMMA ClientNews ==
  ASSUME Inv, Closed, NEW c \in Clients, NEW r, ClientFits(c, r)
  PROVE  NewsKept
<1>1. /\ mgr'[c] = r /\ \A d \in Clients \ {c} : mgr'[d] = mgr[d]
      /\ UNCHANGED <<table, party, issued, handler>>
  BY OneManager
<1> SUFFICES ASSUME NEW s \in Sids, said[s] = "yes", TargetTold(s), table[s] = "none",
                    NEW t, t = party[s].tgt, Inside(t, s)'
             PROVE  EndComes(t, s)'
  BY <1>1 DEF NewsKept, TargetTold
<1>2. t \in Clients
  BY Known
<1>3. Inside(t, s)
  <2> SUFFICES ASSUME ~Inside(t, s) PROVE FALSE
    OBVIOUS
  <2>1. t = c /\ r.active = s
    BY <1>1, <1>2 DEF Inside
  <2>2. Holds(down[c], Grant(s))
    BY <2>1 DEF ClientFits, EntryFits, Inv, Questions
  <2>3. s <= issued /\ party[s].ctl = c
    BY <2>2 DEF GrantAhead, Closed, Grants
  <2> QED BY <2>1, <2>3 DEF Closed, Routes
<1>4. EndComes(t, s)
  BY <1>3 DEF TargetTold
<1>5. t = c => ~EndTaken(c, r, s)
  BY <1>1 DEF EndTaken, Inside
<1> QED BY <1>2, <1>4, <1>5, EndStaysWithClients

LEMMA ClientEnds ==
  ASSUME Inv, Closed, NEW c \in Clients, NEW r, ClientFits(c, r), Fits(r)
  PROVE  Closed' /\ NewsKept
  BY ClientRoutes, ClientRoles, ClientEndings, ClientClosing, ClientNews DEF Closed

-----------------------------------------------------------------------------
(* The server's steps, and the ends of sessions.                           *)

\* A message that neither grants, nor accepts, nor ends a session.
NoNews(x) == \A s \in Sids : x # Grant(s) /\ x # Resp(s, TRUE) /\ x # End(s)

LEMMA IsNoNews ==
  /\ NoNews(Deny) /\ \A s \in Sids : NoNews(Incoming(s)) /\ NoNews(Resp(s, FALSE))
<1>1. NoNews(Deny)
  BY MessageShapes DEF NoNews
<1>2. ASSUME NEW s \in Sids PROVE NoNews(Incoming(s))
  BY MessageShapes DEF NoNews
<1>3. ASSUME NEW s \in Sids PROVE NoNews(Resp(s, FALSE))
  BY MessageShapes DEF NoNews
<1> QED BY <1>1, <1>2, <1>3

LEMMA NoNewsFits ==
  ASSUME NEW c, NEW h, NEW e, NEW x, NoNews(x)
  PROVE  MessageFits(c, h, e, x)
  BY DEF NoNews, MessageFits

LEMMA IdleFits == \A c : HandlerFits(c, Receiving)
  BY DEF HandlerFits, Receiving, Granting, Removing, Refusing, Affirming, Telling

LEMMA UpTaken ==
  ASSUME Inv, NEW c \in Clients, NEW type, Reading(c, type)
  PROVE  UpLess
  BY Known, ReadUp DEF UpLess

\* A step that leaves the table alone, of a handler that has no end to tell.
LEMMA PlainEnds ==
  ASSUME Inv, Closed, NEW c \in Clients, NEW h, NEW e, NEW x, handler' = [handler EXCEPT ![c] = h],
         UNCHANGED <<table, party, issued, link, mgr, said>>, UpLess, Fed(e, x),
         HandlerFits(c, h), MessageFits(c, h, e, x), handler[c].pc \notin {"tell", "cleanup"}
  PROVE  Closed' /\ NewsKept
<1>1. StaysOut /\ TableFits(c, h)
  BY DEF StaysOut, TableFits
<1>2. TellingFits(c, h)
  BY DEF TellingFits, Telling
<1>3. ServerFits(c, h, e, x)
  BY <1>1, <1>2 DEF ServerFits
<1> QED BY <1>3, ServerEnds

LEMMA ConnectDeniedEnds ==
  ASSUME Inv, Closed, NEW c \in Clients, ConnectDenied(c)
  PROVE  Closed' /\ NewsKept
<1>1. Reading(c, "connect") /\ Deliver(c, Deny) /\ handler[c] = Receiving
      /\ UNCHANGED <<table, party, issued, handler, link, mgr, said>>
  BY DEF ConnectDenied, Reading, serverVars, linkVars
<1>2. handler' = [handler EXCEPT ![c] = Receiving]
  BY <1>1, Known DEF Ledger
<1>3. Fed(c, Deny)
  BY <1>1, Known, FedBy, DenyIsNoYes
<1>4. handler[c].pc \notin {"tell", "cleanup"}
  BY <1>1, IdleHandler
<1> QED BY <1>1, <1>2, <1>3, <1>4, UpTaken, IdleFits, IsNoNews, NoNewsFits, PlainEnds

LEMMA ConnectAllowedEnds ==
  ASSUME Inv, Closed, NEW c \in Clients, ConnectAllowed(c)
  PROVE  Closed' /\ NewsKept
<1> DEFINE x == Head(up[c])
           h == [pc |-> "issue", to |-> x.to]
<1>1. Reading(c, "connect") /\ handler' = [handler EXCEPT ![c] = h] /\ handler[c] = Receiving
      /\ UNCHANGED <<table, party, issued, link, down, mgr, said>>
  BY DEF ConnectAllowed, Reading, linkVars, Goto
<1>2. x \in UpMsgs /\ x.type = "connect" /\ Holds(up[c], x)
  BY <1>1, Taken
<1>3. x.to # c
  <2>1. x = Connect(x.to)
    BY <1>2 DEF UpMsgs, Resps, Ends, Connect
  <2> QED BY <1>2, <2>1 DEF Closed, Routes
<1>4. HandlerFits(c, h)
  BY <1>3 DEF HandlerFits, Granting, Removing, Refusing, Affirming, Telling
<1>5. handler[c].pc \notin {"tell", "cleanup"}
  BY <1>1, IdleHandler
<1> HIDE DEF h
<1> QED BY <1>1, <1>4, <1>5, UpTaken, FedNothing, IsNoNews, NoNewsFits, PlainEnds

LEMMA SendIncomingEnds ==
  ASSUME Inv, Closed, NEW c \in Clients, SendIncoming(c)
  PROVE  Closed' /\ NewsKept
<1> DEFINE s == handler[c].sid
           t == party[s].tgt
           h == [pc |-> "grant", sid |-> s]
<1>1. /\ handler[c].pc = "incoming" /\ Deliver(t, Incoming(s)) /\ handler' = [handler EXCEPT ![c] = h]
      /\ UNCHANGED <<table, party, issued, link, up, mgr, said>>
  BY DEF SendIncoming, linkVars, Goto
<1>2. s \in Sids /\ t \in Clients /\ Incoming(s) \in DownMsgs /\ Queues
  BY <1>1, Known, HandlerShapes, MessageShapes
<1>3. HandlerFits(c, h)
  BY <1>1 DEF HandlerFits, Granting, Removing, Refusing, Affirming, Telling
<1> HIDE DEF h, t, s
<1>4. Fed(t, Incoming(s)) /\ MessageFits(c, h, t, Incoming(s)) /\ UpLess
  BY <1>1, <1>2, FedBy, IsNoNews, NoNewsFits DEF UpLess
<1> QED BY <1>1, <1>3, <1>4, PlainEnds

LEMMA SendGrantEnds ==
  ASSUME Inv, Closed, NEW c \in Clients, SendGrant(c)
  PROVE  Closed' /\ NewsKept
<1> DEFINE s == handler[c].sid
           x == Grant(s)
<1>1. /\ handler[c].pc = "grant" /\ Deliver(c, x) /\ handler' = [handler EXCEPT ![c] = Receiving]
      /\ UNCHANGED <<table, party, issued, link, up, mgr, said>>
  BY DEF SendGrant, linkVars, Goto
<1>2. s \in Sids /\ x \in DownMsgs /\ Queues
  BY <1>1, Known, HandlerShapes, MessageShapes
<1>3. MessageFits(c, Receiving, c, x)
  <2>1. ASSUME NEW r \in Sids
        PROVE  (x = Grant(r) => r = s) /\ x # Resp(r, TRUE) /\ x # End(r)
    BY <1>2, MessageShapes DEF Grant
  <2>2. Granting(handler[c], s) /\ ~Granting(Receiving, s)
    BY <1>1 DEF Granting, Receiving
  <2> HIDE DEF x, s
  <2> QED BY <2>1, <2>2 DEF MessageFits
<1> HIDE DEF x, s
<1>4. Fed(c, x) /\ UpLess
  BY <1>1, <1>2, FedBy DEF UpLess
<1> QED BY <1>1, <1>3, <1>4, IdleFits, PlainEnds

LEMMA RecvResponseEnds ==
  ASSUME Inv, Closed, NEW c \in Clients, RecvResponse(c)
  PROVE  Closed' /\ NewsKept
<1> DEFINE x == Head(up[c])
           n == [pc |-> "notify", sid |-> x.sid, ok |-> x.ok]
<1>1. /\ Reading(c, "resp") /\ handler[c] = Receiving
      /\ \/ Present(x.sid) /\ party[x.sid].tgt = c /\ handler' = [handler EXCEPT ![c] = n]
         \/ handler' = [handler EXCEPT ![c] = Receiving]
      /\ UNCHANGED <<table, party, issued, link, down, mgr, said>>
  BY DEF RecvResponse, Reading, linkVars, Goto
<1>2. x \in UpMsgs /\ x.type = "resp" /\ Holds(up[c], x)
  BY <1>1, Taken
<1>3. x.sid \in Sids /\ x.ok \in BOOLEAN /\ x = Resp(x.sid, x.ok)
  BY <1>2, UpShapes
<1>4. ~x.ok => said[x.sid] = "no"
  <2> HIDE DEF x
  <2>1. CASE x.ok = TRUE
    BY <2>1
  <2>2. CASE x.ok = FALSE
    BY <1>2, <1>3, <2>2 DEF Closed, Refusals
  <2> QED BY <1>3, <2>1, <2>2
<1>5. n.pc = "notify" /\ n.sid = x.sid /\ n.ok = x.ok
  OBVIOUS
<1>6. handler[c].pc \notin {"tell", "cleanup"} /\ UpLess
  BY <1>1, IdleHandler, UpTaken
<1> HIDE DEF n, x
<1>7. CASE Present(x.sid) /\ party[x.sid].tgt = c /\ handler' = [handler EXCEPT ![c] = n]
  <2>1. HandlerFits(c, n)
    BY <1>1, <1>4, <1>5, <1>7 DEF HandlerFits, Granting, Removing, Refusing, Affirming, Telling
  <2> QED BY <1>1, <1>6, <1>7, <2>1, FedNothing, IsNoNews, NoNewsFits, PlainEnds
<1>8. CASE handler' = [handler EXCEPT ![c] = Receiving]
  BY <1>1, <1>6, <1>8, FedNothing, IdleFits, IsNoNews, NoNewsFits, PlainEnds
<1> QED BY <1>1, <1>7, <1>8

LEMMA NotifyControllerEnds ==
  ASSUME Inv, Closed, NEW c \in Clients, NotifyController(c)
  PROVE  Closed' /\ NewsKept
<1> DEFINE s == handler[c].sid
           h == [handler[c] EXCEPT !.pc = "mark"]
           e == party[s].ctl
           x == Resp(s, handler[c].ok)
<1>1. /\ handler[c].pc = "notify" /\ Deliver(e, x) /\ handler' = [handler EXCEPT ![c] = h]
      /\ UNCHANGED <<table, party, issued, link, up, mgr, said>>
  BY DEF NotifyController, linkVars, Goto
<1>2. s \in Sids /\ handler[c].ok \in BOOLEAN /\ h.pc = "mark" /\ h.sid = s /\ h.ok = handler[c].ok
  BY <1>1, Known, HandlerShapes
<1>3. /\ e \in Clients /\ Queues /\ e = party[s].ctl /\ handler[c].sid = s
      /\ x = Resp(s, handler[c].ok)
  BY <1>2, Known
<1> HIDE DEF s, h, e, x
<1>4. x \in DownMsgs
  BY <1>2, <1>3, MessageShapes
<1>5. MessageFits(c, h, e, x)
  <2>1. CASE handler[c].ok = TRUE
    <3>1. x = Resp(s, TRUE) /\ x.type = "resp" /\ x.sid = s
      BY <1>2, <1>3, <2>1, MessageShapes
    <3>2. \A r \in Sids : /\ Grant(r).type = "grant" /\ End(r).type = "end"
                          /\ Resp(r, TRUE).sid = r
      BY MessageShapes
    <3>3. \A r \in Sids : x # Grant(r) /\ (x = Resp(r, TRUE) => r = s) /\ x # End(r)
      BY <3>1, <3>2
    <3>4. Affirming(handler[c], s)
      BY <1>1, <1>3, <2>1 DEF Affirming
    <3> QED BY <1>3, <3>3, <3>4 DEF MessageFits
  <2>2. CASE handler[c].ok = FALSE
    BY <1>2, <1>3, <2>2, IsNoNews, NoNewsFits
  <2> QED BY <1>2, <2>1, <2>2
<1>6. Refusing(h, s) => said[s] = "no"
  <2>1. Refusing(h, s) => Refusing(handler[c], s)
    BY <1>1, <1>2, <1>3 DEF Refusing
  <2> QED BY <1>2, <2>1 DEF Closed, Refusals
<1>7. HandlerFits(c, h)
  BY <1>2, <1>6 DEF HandlerFits, Granting, Removing, Refusing, Affirming, Telling
<1>8. Fed(e, x) /\ UpLess
  BY <1>1, <1>3, <1>4, FedBy DEF UpLess
<1> QED BY <1>1, <1>5, <1>7, <1>8, PlainEnds

LEMMA RecvEndEnds ==
  ASSUME Inv, Closed, NEW c \in Clients, RecvEnd(c)
  PROVE  Closed' /\ NewsKept
<1> DEFINE x == Head(up[c])
           h == [pc |-> "remove", sid |-> x.sid]
<1>1. /\ Reading(c, "end") /\ handler[c] = Receiving
      /\ \/ c \in Parties(x.sid) /\ handler' = [handler EXCEPT ![c] = h]
         \/ handler' = [handler EXCEPT ![c] = Receiving]
      /\ UNCHANGED <<table, party, issued, link, down, mgr, said>>
  BY DEF RecvEnd, Reading, linkVars, Goto
<1>2. x \in UpMsgs /\ x.type = "end" /\ Holds(up[c], x)
  BY <1>1, Taken
<1>3. x = End(x.sid)
  BY <1>2 DEF UpMsgs, Resps, Ends, End
<1>4. Leaving(c, x.sid)
  BY <1>2, <1>3 DEF Leaving
<1>5. handler[c].pc \notin {"tell", "cleanup"} /\ UpLess /\ h.pc = "remove" /\ h.sid = x.sid
  BY <1>1, IdleHandler, UpTaken
<1> HIDE DEF h, x
<1>6. CASE c \in Parties(x.sid) /\ handler' = [handler EXCEPT ![c] = h]
  <2>1. HandlerFits(c, h)
    BY <1>4, <1>5, <1>6 DEF HandlerFits, Granting, Removing, Refusing, Affirming, Telling
  <2> QED BY <1>1, <1>5, <1>6, <2>1, FedNothing, IsNoNews, NoNewsFits, PlainEnds
<1>7. CASE handler' = [handler EXCEPT ![c] = Receiving]
  BY <1>1, <1>5, <1>7, FedNothing, IdleFits, IsNoNews, NoNewsFits, PlainEnds
<1> QED BY <1>1, <1>6, <1>7

\* What becomes of the table when one session is removed.
LEMMA RemovalShape ==
  ASSUME Inv, NEW s \in Sids, table' = Removed(s)
  PROVE  /\ StaysOut /\ ~Present(s)' /\ \A r \in Sids : r # s => table'[r] = table[r]
         /\ Present(s) \/ table'[s] = table[s]
<1>1. table \in [Sids -> {"none", "pending", "accepted", "expired"}]
  BY DEF Inv, Sane, Ledger
<1> QED BY <1>1, RemovedKeeps DEF Removed, Present

\* Whoever has lost his connection is in no session, and is sent nothing.
LEMMA LostIsOut ==
  ASSUME Inv, Closed, NEW c \in Clients, link[c] # "up"
  PROVE  \A s \in Sids : ~Inside(c, s) /\ ~Holds(down[c], Grant(s))
  BY QuietFits, Numbers DEF Closed, Routes, Inside, Holds

LEMMA IncomingFailsEnds ==
  ASSUME Inv, Closed, NEW c \in Clients, IncomingFails(c)
  PROVE  Closed' /\ NewsKept
<1> DEFINE s == handler[c].sid
<1>1. /\ handler[c].pc = "incoming" /\ table' = Removed(s) /\ Deliver(c, Deny)
      /\ handler' = [handler EXCEPT ![c] = Receiving]
      /\ UNCHANGED <<party, issued, link, up, mgr, said>>
  BY DEF IncomingFails, linkVars, Goto
<1>2. s \in Sids
  BY <1>1, Known, HandlerShapes
<1>3. s <= issued /\ said[s] = "none"
  BY <1>1, <1>2 DEF Asking, Inv, Questions
<1> HIDE DEF s
<1>4. TableFits(c, Receiving) /\ StaysOut
  BY <1>1, <1>2, <1>3, RemovalShape DEF TableFits
<1>5. TellingFits(c, Receiving)
  BY <1>1 DEF TellingFits, Telling
<1>6. Fed(c, Deny) /\ UpLess
  BY <1>1, Known, FedBy, DenyIsNoYes DEF UpLess
<1>7. HandlerFits(c, Receiving) /\ MessageFits(c, Receiving, c, Deny)
  BY IdleFits, IsNoNews, NoNewsFits
<1>8. ServerFits(c, Receiving, c, Deny)
  BY <1>1, <1>4, <1>5, <1>6, <1>7 DEF ServerFits
<1> QED BY <1>8, ServerEnds

\* The controller was to have the grant, and has lost his connection.
LEMMA GrantFailsEnds ==
  ASSUME Inv, Closed, NEW c \in Clients, GrantFails(c)
  PROVE  Closed' /\ NewsKept
<1> DEFINE s == handler[c].sid
           h == [pc |-> "tell", sid |-> s]
<1>1. /\ handler[c].pc = "grant" /\ link[c] # "up" /\ table' = Removed(s)
      /\ handler' = [handler EXCEPT ![c] = h]
      /\ UNCHANGED <<party, issued, link, up, down, mgr, said>>
  BY DEF GrantFails, linkVars, Goto
<1>2. s \in Sids /\ h.pc = "tell" /\ h.sid = s
  BY <1>1, Known, HandlerShapes
<1>3. s <= issued /\ party[s].ctl = c
  <2>1. GrantAhead(c, s)
    BY <1>1 DEF GrantAhead, Granting
  <2> QED BY <1>2, <2>1 DEF Closed, Grants
<1> HIDE DEF h, s
<1>4. HandlerFits(c, h)
  BY <1>1, <1>2, <1>3, RemovalShape
     DEF HandlerFits, Granting, Removing, Refusing, Affirming, Telling, Parties
<1>5. TableFits(c, h) /\ StaysOut
  <2>1. Telling(h, s) /\ c \in Parties(s) /\ ~Granting(h, s)
    BY <1>2, <1>3 DEF Telling, Parties, Granting
  <2> QED BY <1>1, <1>2, <1>3, <2>1, RemovalShape, LostIsOut DEF TableFits
<1>6. TellingFits(c, h) /\ UpLess
  BY <1>1 DEF TellingFits, Telling, UpLess
<1>7. ServerFits(c, h, c, Deny)
  BY <1>1, <1>4, <1>5, <1>6, FedNothing, IsNoNews, NoNewsFits DEF ServerFits
<1> QED BY <1>7, ServerEnds

LEMMA MarkEnds ==
  ASSUME Inv, Closed, NEW c \in Clients, Mark(c)
  PROVE  Closed' /\ NewsKept
<1> DEFINE s == handler[c].sid
<1>1. /\ handler[c].pc = "mark" /\ handler' = [handler EXCEPT ![c] = Receiving]
      /\ table' = IF ~handler[c].ok THEN Removed(s)
                  ELSE IF Present(s) THEN [table EXCEPT ![s] = "accepted"] ELSE table
      /\ UNCHANGED <<party, issued, link, up, down, mgr, said>>
  BY DEF Mark, linkVars, Goto
<1>2. s \in Sids /\ handler[c].ok \in BOOLEAN
  BY <1>1, Known, HandlerShapes
<1>3. TableFits(c, Receiving)
  <2>1. CASE handler[c].ok = FALSE
    <3>1. said[s] = "no" /\ table' = Removed(s)
      BY <1>1, <1>2, <2>1 DEF Refusing, Closed, Refusals
    <3>2. s <= issued
      BY <1>2, <3>1 DEF Inv, Questions
    <3> HIDE DEF s
    <3> QED BY <1>2, <3>1, <3>2, RemovalShape DEF TableFits
  <2>2. CASE handler[c].ok = TRUE
    <3>1. table \in [Sids -> {"none", "pending", "accepted", "expired"}]
      BY Known DEF Ledger
    <3>2. Present(s) => s <= issued
      BY <1>2 DEF Closed, Routes, Present
    <3>3. \A r \in Sids : table'[r] = table[r] \/ (r = s /\ Present(s) /\ table'[r] = "accepted")
      BY <1>1, <1>2, <2>2, <3>1
    <3> HIDE DEF s
    <3> QED BY <3>2, <3>3 DEF TableFits
  <2> QED BY <1>2, <2>1, <2>2
<1>4. TellingFits(c, Receiving) /\ UpLess /\ StaysOut
  BY <1>1, ServerStaysOut DEF TellingFits, Telling, UpLess, Handle, ResponseStep
<1> HIDE DEF s
<1>5. ServerFits(c, Receiving, c, Deny)
  BY <1>1, <1>3, <1>4, FedNothing, IdleFits, IsNoNews, NoNewsFits DEF ServerFits
<1> QED BY <1>5, ServerEnds

\* Who has left a session is not given it again.
LEMMA RemoveSessionEnds ==
  ASSUME Inv, Closed, NEW c \in Clients, RemoveSession(c)
  PROVE  Closed' /\ NewsKept
<1> DEFINE s == handler[c].sid
           h == [handler[c] EXCEPT !.pc = "tell"]
<1>1. /\ handler[c].pc = "remove" /\ table' = Removed(s) /\ handler' = [handler EXCEPT ![c] = h]
      /\ UNCHANGED <<party, issued, link, up, down, mgr, said>>
  BY DEF RemoveSession, linkVars, Goto
<1>2. s \in Sids /\ h.pc = "tell" /\ h.sid = s
  <2>1. handler[c] \in [pc : {"incoming", "grant", "remove", "tell"}, sid : Sids]
    BY <1>1, Known DEF Handlers, Receiving
  <2> QED BY <2>1
<1>3. c \in Parties(s) /\ ~Inside(c, s) /\ s <= issued /\ ~GrantAhead(c, s)
  <2>1. Leaving(c, s) /\ Removing(handler[c], s)
    BY <1>1 DEF Leaving, Removing
  <2>2. c \in Parties(s) /\ ~Inside(c, s) /\ s <= issued
        /\ ((party[s].ctl = c /\ ~GrantAhead(c, s)) \/ party[s].tgt = c)
    BY <1>2, <2>1 DEF Closed, Endings, Roles
  <2>3. party[s].tgt = c => ~GrantAhead(c, s)
    BY <1>2, <2>2 DEF Closed, Routes, Grants
  <2> QED BY <2>2, <2>3
<1> HIDE DEF h, s
<1>4. HandlerFits(c, h)
  BY <1>1, <1>2, <1>3, RemovalShape DEF HandlerFits, Granting, Removing, Refusing, Affirming, Telling
<1>5. TableFits(c, h) /\ StaysOut
  <2>1. Telling(h, s) /\ ~Granting(h, s) /\ ~Holds(down'[c], Grant(s))
    BY <1>1, <1>2, <1>3 DEF Telling, Granting, GrantAhead
  <2> QED BY <1>1, <1>2, <1>3, <2>1, RemovalShape DEF TableFits
<1>6. TellingFits(c, h) /\ UpLess
  BY <1>1 DEF TellingFits, Telling, UpLess
<1>7. ServerFits(c, h, c, Deny)
  BY <1>1, <1>4, <1>5, <1>6, FedNothing, IsNoNews, NoNewsFits DEF ServerFits
<1> QED BY <1>7, ServerEnds

\* The end of s is sent, and nothing else.
LEMMA EndSent ==
  ASSUME Inv, NEW c \in Clients, NEW s \in Sids, NEW h, Deliver(Peer(c, s), End(s)),
         Telling(handler[c], s), \A r \in Sids : ~Affirming(h, r),
         \A r \in Sids : Telling(handler[c], r) => r = s \/ Telling(h, r), UNCHANGED link
  PROVE  /\ Fed(Peer(c, s), End(s)) /\ MessageFits(c, h, Peer(c, s), End(s))
         /\ TellingFits(c, h)
<1>1. Peer(c, s) \in Clients /\ Queues /\ End(s) \in DownMsgs
  BY Known, MessageShapes
<1>2. Fed(Peer(c, s), End(s)) /\ (link[Peer(c, s)] = "up" => Holds(down'[Peer(c, s)], End(s)))
  BY <1>1, FedBy
<1>3. \A r \in Sids : End(s) # Grant(r) /\ End(s) # Resp(r, TRUE) /\ (End(s) = End(r) => r = s)
  <2>1. End(s).type = "end" /\ End(s).sid = s
    BY DEF End
  <2>2. \A r \in Sids : Grant(r).type = "grant" /\ Resp(r, TRUE).type = "resp" /\ End(r).sid = r
    BY DEF Grant, Resp, End
  <2> QED BY <2>1, <2>2
<1>4. MessageFits(c, h, Peer(c, s), End(s))
  BY <1>3 DEF MessageFits
<1>5. TellingFits(c, h)
  BY <1>2 DEF TellingFits
<1> QED BY <1>2, <1>4, <1>5

LEMMA TellPeerEnds ==
  ASSUME Inv, Closed, NEW c \in Clients, TellPeer(c)
  PROVE  Closed' /\ NewsKept
<1> DEFINE s == handler[c].sid
<1>1. /\ handler[c].pc = "tell" /\ Deliver(Peer(c, s), End(s))
      /\ handler' = [handler EXCEPT ![c] = Receiving]
      /\ UNCHANGED <<table, party, issued, link, up, mgr, said>>
  BY DEF TellPeer, linkVars, Goto
<1>2. s \in Sids /\ Telling(handler[c], s) /\ \A r \in Sids : Telling(handler[c], r) => r = s
  BY <1>1, Known, HandlerShapes DEF Telling
<1> HIDE DEF s
<1>3. \A r \in Sids : ~Affirming(Receiving, r)
  BY DEF Affirming, Receiving
<1>4. /\ Fed(Peer(c, s), End(s)) /\ MessageFits(c, Receiving, Peer(c, s), End(s))
      /\ TellingFits(c, Receiving)
  BY <1>1, <1>2, <1>3, EndSent
<1>5. TableFits(c, Receiving) /\ StaysOut /\ UpLess
  BY <1>1 DEF TableFits, StaysOut, UpLess
<1>6. ServerFits(c, Receiving, Peer(c, s), End(s))
  BY <1>1, <1>4, <1>5, IdleFits DEF ServerFits
<1> QED BY <1>6, ServerEnds

\* Whoever was in a session with c is told, one after the other.
LEMMA RemoveForClientEnds ==
  ASSUME Inv, Closed, NEW c \in Clients, RemoveForClient(c)
  PROVE  Closed' /\ NewsKept
<1> DEFINE mine == {s \in Sids : Present(s) /\ c \in Parties(s)}
           h == [pc |-> "cleanup", left |-> mine]
<1>1. /\ handler[c] = Receiving /\ link[c] = "dead"
      /\ table' = [s \in Sids |-> IF s \in mine THEN "none" ELSE table[s]]
      /\ handler' = [handler EXCEPT ![c] = h]
      /\ UNCHANGED <<party, issued, link, up, down, mgr, said>>
  BY DEF RemoveForClient, linkVars, Goto
<1>2. h.pc = "cleanup" /\ h.left = mine /\ \A s : Telling(h, s) <=> s \in mine
  BY DEF Telling
<1>3. \A s \in mine : s \in Sids /\ s <= issued /\ c \in Parties(s) /\ ~Present(s)'
  BY <1>1 DEF Closed, Routes, Present
<1> HIDE DEF mine, h
<1>4. HandlerFits(c, h)
  BY <1>1, <1>2, <1>3 DEF HandlerFits, Granting, Removing, Refusing, Affirming
<1>5. TableFits(c, h)
  <2>1. \A s \in Sids : ~Inside(c, s) /\ ~Holds(down'[c], Grant(s)) /\ ~Granting(h, s)
    BY <1>1, <1>2, LostIsOut DEF Granting
  <2> QED BY <1>1, <1>2, <1>3, <2>1 DEF TableFits
<1>6. TellingFits(c, h) /\ UpLess /\ StaysOut
  BY <1>1, IdleHandler, ServerStaysOut DEF TellingFits, Telling, UpLess, Handle, CleanUpStep
<1>7. ServerFits(c, h, c, Deny)
  BY <1>1, <1>4, <1>5, <1>6, FedNothing, IsNoNews, NoNewsFits DEF ServerFits
<1> QED BY <1>7, ServerEnds

LEMMA TellLeftEnds ==
  ASSUME Inv, Closed, NEW c \in Clients, TellLeft(c)
  PROVE  Closed' /\ NewsKept
<1>1. PICK s \in handler[c].left :
        /\ Deliver(Peer(c, s), End(s))
        /\ handler' = [handler EXCEPT ![c] = [handler[c] EXCEPT !.left = @ \ {s}]]
  BY DEF TellLeft, Goto
<1> DEFINE h == [handler[c] EXCEPT !.left = @ \ {s}]
<1>2. /\ handler[c].pc = "cleanup"
      /\ UNCHANGED <<table, party, issued, link, up, mgr, said>>
  BY DEF TellLeft, linkVars
<1>3. handler[c] \in [pc : {"cleanup"}, left : SUBSET Sids]
  BY <1>2, Known DEF Handlers, Receiving
<1>4. s \in Sids /\ h.pc = "cleanup" /\ h.left = handler[c].left \ {s}
  BY <1>1, <1>3
<1>5. handler' = [handler EXCEPT ![c] = h]
  BY <1>1
<1> HIDE DEF h
<1>6. /\ Telling(handler[c], s) /\ \A r \in Sids : Telling(handler[c], r) => r = s \/ Telling(h, r)
      /\ \A r \in Sids : Telling(h, r) => Telling(handler[c], r)
  BY <1>1, <1>2, <1>4 DEF Telling
<1>7. \A r \in Sids : ~Granting(h, r) /\ ~Removing(h, r) /\ ~Refusing(h, r) /\ ~Affirming(h, r)
  BY <1>4 DEF Granting, Removing, Refusing, Affirming
<1>8. HandlerFits(c, h)
  <2>1. \A r \in Sids : Telling(h, r) => r <= issued /\ c \in Parties(r) /\ ~Present(r)'
    BY <1>2, <1>6 DEF Closed, Endings, Present
  <2>2. link'[c] = "dead"
    BY <1>2 DEF Closed, Routes
  <2> QED BY <1>4, <1>7, <2>1, <2>2 DEF HandlerFits
<1>9. /\ Fed(Peer(c, s), End(s)) /\ MessageFits(c, h, Peer(c, s), End(s))
      /\ TellingFits(c, h)
  BY <1>1, <1>2, <1>4, <1>6, <1>7, EndSent
<1>10. TableFits(c, h) /\ StaysOut /\ UpLess
  BY <1>2 DEF TableFits, StaysOut, UpLess
<1>11. ServerFits(c, h, Peer(c, s), End(s))
  BY <1>2, <1>5, <1>8, <1>9, <1>10 DEF ServerFits
<1> QED BY <1>11, ServerEnds

LEMMA UnregisterEnds ==
  ASSUME Inv, Closed, NEW c \in Clients, Unregister(c)
  PROVE  Closed' /\ NewsKept
<1>1. /\ handler[c].pc = "cleanup" /\ handler[c].left = {}
      /\ link' = [link EXCEPT ![c] = "down"] /\ handler' = [handler EXCEPT ![c] = Receiving]
      /\ UNCHANGED <<table, party, issued, up, down, mgr, said>>
  BY DEF Unregister, Goto
<1>2. /\ \A d \in Clients : link'[d] # "up" => link[d] # "up"
      /\ \A d \in Clients \ {c} : link'[d] = link[d]
  BY <1>1, Known DEF Outside, Closed, Routes
<1>3. TableFits(c, Receiving) /\ TellingFits(c, Receiving) /\ StaysOut /\ UpLess
  BY <1>1 DEF TableFits, TellingFits, Telling, StaysOut, UpLess
<1>4. ServerFits(c, Receiving, c, Deny)
  BY <1>1, <1>2, <1>3, FedNothing, IdleFits, IsNoNews, NoNewsFits DEF ServerFits
<1> QED BY <1>4, ServerEnds

\* A session that is issued is in nobody's hands yet.
LEMMA Unissued ==
  ASSUME Inv, Closed, NEW s \in Sids, ~(s <= issued), NEW d \in Clients
  PROVE  /\ ~GrantAhead(d, s) /\ ~Inside(d, s) /\ ~Leaving(d, s)
         /\ ~Holds(down[d], End(s)) /\ ~Telling(handler[d], s)
         /\ ~Affirming(handler[d], s) /\ ~Removing(handler[d], s)
<1>1. ~GrantAhead(d, s) /\ ~Inside(d, s) /\ ~Leaving(d, s)
  BY DEF Closed, Grants, Roles
<1>2. ~Holds(down[d], End(s)) /\ ~Telling(handler[d], s)
  BY DEF Closed, Endings
<1>3. ~Affirming(handler[d], s)
  BY DEF Affirming, Inv, Affirmed, Questions
<1> QED BY <1>1, <1>2, <1>3 DEF Leaving

LEMMA IssueEnds ==
  ASSUME Inv, Closed, NEW c \in Clients, Issue(c)
  PROVE  Closed' /\ NewsKept
<1> DEFINE s == issued + 1
           h == [pc |-> "incoming", sid |-> s]
<1>1. /\ handler[c].pc = "issue" /\ issued < MaxRequests
      /\ party' = [party EXCEPT ![s] = [ctl |-> c, tgt |-> handler[c].to]]
      /\ issued' = s /\ handler' = [handler EXCEPT ![c] = h]
      /\ UNCHANGED <<link, up, down, mgr, said>>
  BY DEF Issue, linkVars, Goto
<1>2. PICK old \in SUBSET {r \in Sids : Present(r)} :
        table' = [r \in Sids |-> IF r = s THEN "pending"
                                 ELSE IF r \in old THEN "expired" ELSE table[r]]
  BY DEF Issue
<1>3. /\ s \in Sids /\ ~(s <= issued) /\ s <= s /\ \A r \in Sids : r <= issued => r <= s /\ r # s
      /\ \A r \in Sids : r <= s => r <= issued \/ r = s
  BY <1>1, Numbers, Known DEF Ledger, Sids
<1>4. h.pc = "incoming" /\ h.sid = s
  OBVIOUS
<1> HIDE DEF h, s
<1>5. /\ handler'[c] = h /\ \A d \in Clients \ {c} : handler'[d] = handler[d]
      /\ \A r \in Sids \ {s} : party'[r] = party[r]
      /\ party'[s].ctl = c /\ party'[s].tgt = handler[c].to
  BY <1>1, <1>3, <1>4, Known DEF Ledger
<1>6. ASSUME NEW d \in Clients, NEW r \in Sids
      PROVE  /\ Granting(handler'[d], r) => Granting(handler[d], r) \/ (d = c /\ r = s)
             /\ Refusing(handler'[d], r) => Refusing(handler[d], r)
             /\ Removing(handler'[d], r) <=> Removing(handler[d], r)
             /\ Affirming(handler'[d], r) <=> Affirming(handler[d], r)
             /\ Telling(handler'[d], r) <=> Telling(handler[d], r)
  BY <1>1, <1>4, <1>5 DEF Granting, Refusing, Removing, Affirming, Telling
<1>7. ASSUME NEW r \in Sids, r # s
      PROVE  /\ Present(r)' => Present(r)
             /\ table'[r] = "none" <=> table[r] = "none"
  BY <1>2, <1>7 DEF Present
<1>8. table'[s] = "pending"
  BY <1>2, <1>3
<1>9. Routes'
  <2>1. handler[c].to # c
    BY <1>1 DEF Closed, Routes
  <2>2. \A d \in Clients : /\ handler'[d].pc = "issue" => handler'[d].to # d
                           /\ handler'[d].pc = "cleanup" => link'[d] = "dead"
    BY <1>1, <1>4, <1>5 DEF Closed, Routes
  <2>3. ASSUME NEW r \in Sids
        PROVE  IF r <= issued' THEN party'[r].ctl # party'[r].tgt ELSE table'[r] = "none"
    <3>1. CASE r = s
      BY <1>1, <1>3, <1>5, <2>1, <3>1
    <3>2. CASE r # s
      BY <1>1, <1>3, <1>5, <1>7, <3>2 DEF Closed, Routes
    <3> QED BY <3>1, <3>2
  <2>4. \A d \in Clients : /\ link'[d] # "up" => mgr'[d] = Quiet /\ down'[d] = <<>>
                           /\ ~Holds(up'[d], Connect(d))
    BY <1>1 DEF Closed, Routes
  <2> QED BY <2>2, <2>3, <2>4 DEF Routes
<1>10. ASSUME NEW d \in Clients, NEW r \in Sids, GrantAhead(d, r)'
       PROVE  GrantAhead(d, r) \/ (d = c /\ r = s)
  BY <1>1, <1>6, <1>10 DEF GrantAhead
<1>11. Grants'
  <2>1. ASSUME NEW d \in Clients, NEW r \in Sids
        PROVE  /\ GrantAhead(d, r)' => r <= issued' /\ party'[r].ctl = d
               /\ Granting(handler'[d], r) => ~Holds(down'[d], Grant(r))
               /\ Sole(down'[d], Grant(r))
    <3>1. CASE r = s
      BY <1>1, <1>3, <1>5, <1>6, <1>10, <3>1, Unissued DEF Closed, Grants, GrantAhead
    <3>2. CASE r # s
      BY <1>1, <1>3, <1>5, <1>6, <1>10, <3>2 DEF Closed, Grants
    <3> QED BY <3>1, <3>2
  <2> QED BY <2>1 DEF Grants
<1>12. Roles'
  <2>1. ASSUME NEW d \in Clients, NEW r \in Sids
        PROVE  /\ Inside(d, r)' <=> Inside(d, r)
               /\ Leaving(d, r)' <=> Leaving(d, r)
    BY <1>1, <1>6 DEF Inside, Leaving
  <2>2. ASSUME NEW d \in Clients, NEW r \in Sids, Inside(d, r) \/ Leaving(d, r)
        PROVE  /\ r <= issued'
               /\ \/ party'[r].ctl = d /\ ~GrantAhead(d, r)'
                  \/ party'[r].tgt = d /\ said'[r] = "yes"
    <3>1. r # s
      BY <1>3, <2>2, Unissued
    <3>2. r <= issued /\ ((party[r].ctl = d /\ ~GrantAhead(d, r)) \/ (party[r].tgt = d /\ said[r] = "yes"))
      BY <2>2 DEF Closed, Roles
    <3> QED BY <1>1, <1>3, <1>5, <1>10, <3>1, <3>2
  <2> QED BY <2>1, <2>2 DEF Roles, Closed
<1>13. Refusals'
  BY <1>1, <1>6 DEF Refusals, Closed
<1>14. Endings'
  <2>1. ASSUME NEW d \in Clients, NEW r \in Sids
        PROVE  /\ Telling(handler'[d], r) => r <= issued' /\ ~Present(r)' /\ d \in Parties(r)'
               /\ Holds(down'[d], End(r)) =>
                    /\ r <= issued' /\ ~Present(r)'
                    /\ party'[r].ctl = d => ~Affirming(handler'[party'[r].tgt], r)
               /\ Before(down'[d], Resp(r, TRUE), End(r))
               /\ Removing(handler'[d], r) => d \in Parties(r)'
               /\ Affirming(handler'[d], r) => party'[r].tgt = d
    <3>1. CASE r = s
      <4>1. Before(down'[d], Resp(r, TRUE), End(r))
        BY <1>1 DEF Closed, Endings
      <4> QED BY <1>1, <1>3, <1>6, <3>1, <4>1, Unissued
    <3>2. CASE r # s
      <4>1. party'[r] = party[r] /\ party[r].tgt \in Clients
        BY <1>5, <3>2, Known
      <4>2. Telling(handler[d], r) => r <= issued /\ ~Present(r) /\ d \in Parties(r)
        BY DEF Closed, Endings
      <4>3. Holds(down[d], End(r)) =>
                    /\ r <= issued /\ ~Present(r)
                    /\ party[r].ctl = d => ~Affirming(handler[party[r].tgt], r)
        BY DEF Closed, Endings
      <4>4. /\ Before(down[d], Resp(r, TRUE), End(r))
            /\ Removing(handler[d], r) => d \in Parties(r)
            /\ Affirming(handler[d], r) => party[r].tgt = d
        BY DEF Closed, Endings
      <4>5. Parties(r)' = Parties(r)
        BY <4>1 DEF Parties
      <4> QED BY <1>1, <1>3, <1>6, <1>7, <3>2, <4>1, <4>2, <4>3, <4>4, <4>5
    <3> QED BY <3>1, <3>2
  <2> QED BY <2>1 DEF Endings
<1>15. ASSUME NEW d \in Clients, NEW r \in Sids, r # s, EndComes(d, r)
       PROVE  EndComes(d, r)'
  <2>1. party'[r] = party[r]
    BY <1>5, <1>15
  <2>2. \A g \in Clients : Peer(g, r)' = Peer(g, r)
    BY <2>1 DEF Peer
  <2> QED BY <1>1, <1>6, <1>15, <2>2 DEF EndComes, Telling
<1>16. Closing'
  <2> SUFFICES ASSUME NEW r \in Sids, table'[r] = "none",
                      NEW d, d = party'[r].ctl, NEW t, t = party'[r].tgt,
                      GrantAhead(d, r)' \/ Inside(d, r)', YesAhead(d, r)'
               PROVE  EndComes(d, r)' /\ ~Inside(t, r)'
    BY DEF Closing
  <2>1. r # s /\ table[r] = "none"
    BY <1>7, <1>8
  <2>2. d \in Clients /\ t \in Clients /\ d = party[r].ctl /\ t = party[r].tgt
    BY <1>5, <2>1, Known
  <2>3. GrantAhead(d, r) \/ Inside(d, r)
    BY <1>1, <1>10, <2>1, <2>2 DEF Inside
  <2>4. YesAhead(d, r)
    BY <1>1, <1>5, <1>6, <2>1, <2>2 DEF YesAhead, HasTask
  <2>5. EndComes(d, r) /\ ~Inside(t, r)
    BY <2>1, <2>2, <2>3, <2>4 DEF Closed, Closing
  <2> QED BY <1>1, <1>15, <2>1, <2>2, <2>5 DEF Inside
<1>17. NewsKept
  <2> SUFFICES ASSUME NEW r \in Sids, said[r] = "yes", TargetTold(r), table'[r] = "none",
                      NEW t, t = party'[r].tgt, Inside(t, r)
               PROVE  EndComes(t, r)'
    BY <1>1 DEF NewsKept, TargetTold, Inside
  <2>1. r # s /\ table[r] = "none"
    BY <1>7, <1>8
  <2>2. t = party[r].tgt /\ t \in Clients
    BY <1>5, <2>1, Known
  <2>3. EndComes(t, r)
    BY <2>1, <2>2 DEF TargetTold
  <2> QED BY <1>15, <2>1, <2>2, <2>3
<1> QED BY <1>9, <1>11, <1>12, <1>13, <1>14, <1>16, <1>17 DEF Closed

LEMMA HandleEnds ==
  ASSUME Inv, Closed, NEW c \in Clients, Handle(c)
  PROVE  Closed' /\ NewsKept
<1>1. ConnectStep(c) => Closed' /\ NewsKept
  BY ConnectDeniedEnds, ConnectAllowedEnds, IssueEnds, SendIncomingEnds, IncomingFailsEnds,
     SendGrantEnds, GrantFailsEnds DEF ConnectStep
<1>2. ResponseStep(c) => Closed' /\ NewsKept
  BY RecvResponseEnds, NotifyControllerEnds, MarkEnds DEF ResponseStep
<1>3. EndStep(c) => Closed' /\ NewsKept
  BY RecvEndEnds, RemoveSessionEnds, TellPeerEnds DEF EndStep
<1>4. CleanUpStep(c) => Closed' /\ NewsKept
  BY RemoveForClientEnds, TellLeftEnds, UnregisterEnds DEF CleanUpStep
<1> QED BY <1>1, <1>2, <1>3, <1>4 DEF Handle

-----------------------------------------------------------------------------
(* The clients' steps, and the ends of sessions.                           *)

\* What c says when its manager becomes r: a client ends the session it is in.
Says(c, r, q) ==
  \A y : Holds(q, y) =>
    \/ \E s \in Sids : y = End(s) /\ Inside(c, s) /\ r.active # s
    \/ \E s \in Sids : y = Resp(s, TRUE) \/ (y = Resp(s, FALSE) /\ said'[s] = "no")
    \/ \E t \in Clients \ {c} : y = Connect(t)

LEMMA SaysFits ==
  ASSUME Inv, Closed, NEW c \in Clients, NEW r, NEW q \in Seq(UpMsgs), Send(c, q), Says(c, r, q)
  PROVE  SendingFits(c, r) /\ \A d \in Clients \ {c} : up'[d] = up[d]
<1>1. /\ \A y : Holds(up'[c], y) => Holds(up[c], y) \/ Holds(q, y)
      /\ \A d \in Clients \ {c} : up'[d] = up[d]
  BY Known, Sent DEF Send, Queues
<1>2. ASSUME NEW s \in Sids, NEW e \in Sids, NEW t
      PROVE  /\ End(s) # Resp(e, TRUE) /\ End(s) # Resp(e, FALSE) /\ Resp(s, FALSE) # Resp(e, TRUE)
             /\ End(s) = End(e) => e = s
             /\ Resp(s, FALSE) = Resp(e, FALSE) => e = s
             /\ Connect(t) # End(s) /\ Connect(t) # Resp(s, TRUE) /\ Connect(t) # Resp(s, FALSE)
  <2>1. /\ End(s).type = "end" /\ End(s).sid = s /\ End(e).sid = e
        /\ Resp(s, FALSE).type = "resp" /\ Resp(s, FALSE).sid = s /\ Resp(s, FALSE).ok = FALSE
        /\ Resp(e, FALSE).type = "resp" /\ Resp(e, FALSE).sid = e
        /\ Resp(e, TRUE).type = "resp" /\ Resp(e, TRUE).ok = TRUE
        /\ Resp(s, TRUE).type = "resp"
    BY DEF End, Resp
  <2>2. Connect(t).type = "connect"
    BY DEF Connect
  <2> QED BY <2>1, <2>2
<1>3. ~Holds(q, Connect(c))
  <2>1. \A t \in Clients \ {c} : Connect(t) # Connect(c)
    <3>1. \A t : Connect(t).to = t
      BY DEF Connect
    <3> QED BY <3>1
  <2> QED BY <1>2, <2>1 DEF Says
<1>4. ASSUME NEW s \in Sids, Holds(q, End(s)) PROVE Inside(c, s) /\ r.active # s
  <2>1. \/ \E e \in Sids : End(s) = End(e) /\ Inside(c, e) /\ r.active # e
        \/ \E e \in Sids : End(s) = Resp(e, TRUE) \/ End(s) = Resp(e, FALSE)
        \/ \E t \in Clients \ {c} : End(s) = Connect(t)
    BY <1>4 DEF Says
  <2> QED BY <1>2, <2>1
<1>5. ASSUME NEW s \in Sids, Holds(q, Resp(s, FALSE)) PROVE said'[s] = "no"
  <2>1. \/ \E e \in Sids : Resp(s, FALSE) = End(e)
        \/ \E e \in Sids : Resp(s, FALSE) = Resp(e, TRUE) \/ (Resp(s, FALSE) = Resp(e, FALSE) /\ said'[e] = "no")
        \/ \E t \in Clients \ {c} : Resp(s, FALSE) = Connect(t)
    BY <1>5 DEF Says
  <2> QED BY <1>2, <2>1
<1>6. ~Holds(up[c], Connect(c))
  BY DEF Closed, Routes
<1> QED BY <1>1, <1>3, <1>4, <1>5, <1>6 DEF SendingFits

LEMMA SilentFits ==
  ASSUME Inv, Closed, UNCHANGED up, NEW c \in Clients, NEW r
  PROVE  SendingFits(c, r) /\ \A d \in Clients \ {c} : up'[d] = up[d]
  BY DEF SendingFits, Closed, Routes

\* What an abort sends.
LEMMA AbortSays ==
  ASSUME Inv, NEW c \in Clients, NEW a \in Managers, a.req = mgr[c].req,
         a.active \in {mgr[c].active, NoSid}, said' = Refused(mgr[c]),
         NEW r, a.active # NoSid => r.active # a.active
  PROVE  Says(c, r, AbortMsgs(a)) /\ AbortMsgs(a) \in Seq(UpMsgs)
<1> DEFINE q == IF a.req # NoSid THEN <<Resp(a.req, FALSE)>> ELSE <<>>
           e == IF a.active # NoSid THEN <<End(a.active)>> ELSE <<>>
<1>1. a.req \in Sids \cup {NoSid} /\ a.active \in Sids \cup {NoSid}
  BY DEF Managers
<1>2. q \in Seq(UpMsgs) /\ \A y : Holds(q, y) => a.req # NoSid /\ y = Resp(a.req, FALSE)
  <2>1. CASE a.req # NoSid
    BY <1>1, <2>1, MessageShapes, OneHolds
  <2>2. CASE a.req = NoSid
    BY <2>2 DEF Holds
  <2> QED BY <2>1, <2>2
<1>3. e \in Seq(UpMsgs) /\ \A y : Holds(e, y) => a.active # NoSid /\ y = End(a.active)
  <2>1. CASE a.active # NoSid
    BY <1>1, <2>1, MessageShapes, OneHolds
  <2>2. CASE a.active = NoSid
    BY <2>2 DEF Holds
  <2> QED BY <2>1, <2>2
<1>4. AbortMsgs(a) = q \o e
  BY DEF AbortMsgs
<1> HIDE DEF q, e
<1>5. q \o e \in Seq(UpMsgs) /\ \A y : Holds(q \o e, y) => Holds(q, y) \/ Holds(e, y)
  BY <1>2, <1>3, ConcatHolds
<1>6. a.req # NoSid => a.req \in Sids /\ said'[a.req] = "no"
  BY <1>1, Known DEF Refused
<1>7. a.active # NoSid => a.active \in Sids /\ Inside(c, a.active) /\ r.active # a.active
  BY <1>1 DEF Inside
<1> QED BY <1>2, <1>3, <1>4, <1>5, <1>6, <1>7 DEF Says

\* What c takes from its queue.
Taking(c, type, x) ==
  /\ link[c] = "up" /\ x \in DownMsgs /\ x.type = type /\ Holds(down[c], x)
  /\ \A d \in Clients \ {c} : down'[d] = down[d]
  /\ DownLess(c) /\ \A y : Holds(down[c], y) => Holds(down'[c], y) \/ y = x
  /\ \A s \in Sids : /\ x = Grant(s) => ~Holds(down'[c], x)
                     /\ x = End(s) => ~Holds(down'[c], Resp(s, TRUE))

LEMMA Receives ==
  ASSUME Inv, Closed, NEW c \in Clients, NEW type, Receive(c, type)
  PROVE  Taking(c, type, Head(down[c]))
<1> DEFINE x == Head(down[c])
<1>1. down[c] \in Seq(DownMsgs) /\ down[c] # <<>> /\ down'[c] = Tail(down[c])
      /\ \A d \in Clients \ {c} : down'[d] = down[d]
  BY Known DEF Receive, Queues
<1>2. /\ x \in DownMsgs /\ Holds(down[c], x)
      /\ \A y : Holds(down'[c], y) => Holds(down[c], y)
      /\ \A y : Holds(down[c], y) => Holds(down'[c], y) \/ y = x
      /\ \A y : Sole(down[c], y) => Sole(down'[c], y) /\ (y = x => ~Holds(down'[c], y))
      /\ \A y, z : Before(down[c], y, z) => Before(down'[c], y, z) /\ (z = x => ~Holds(down'[c], y))
  BY <1>1, TailHolds, TailOrder
<1>3. \A s \in Sids : Sole(down[c], Grant(s)) /\ Before(down[c], Resp(s, TRUE), End(s))
  BY DEF Closed, Grants, Endings
<1>4. DownLess(c)
  BY <1>2 DEF DownLess
<1> HIDE DEF x
<1>5. Taking(c, type, x)
  BY <1>1, <1>2, <1>3, <1>4 DEF Receive, Taking, x
<1> QED BY <1>5 DEF x

LEMMA TakesNothing ==
  ASSUME UNCHANGED down, NEW c
  PROVE  DownLess(c) /\ (\A d \in Clients \ {c} : down'[d] = down[d]) /\ \A r : EndFits(c, r)
  BY DEF DownLess, EndFits

LEMMA TakesNoEnd ==
  ASSUME Inv, Closed, NEW c \in Clients, NEW type, Receive(c, type), type # "end"
  PROVE  \A r : EndFits(c, r)
<1>1. \A y : Holds(down[c], y) => Holds(down'[c], y) \/ y.type = type
  BY Receives DEF Taking
<1>2. \A s \in Sids : End(s).type = "end"
  BY MessageShapes
<1> QED BY <1>1, <1>2 DEF EndFits

\* The manager enters nothing and learns of no acceptance.
Calmer(c, r) ==
  /\ r.active # NoSid => r.active = mgr[c].active /\ (r.grant = NoSid => mgr[c].grant = NoSid)
  /\ r.early # NoSid => r.early = mgr[c].early

LEMMA CalmFits ==
  ASSUME Inv, NEW c \in Clients, NEW r, Calmer(c, r)
  PROVE  EntryFits(c, r)
  BY Numbers DEF Calmer, EntryFits, Inside, YesAhead, HasTask

\* A step of a client that is and stays connected.
LEMMA UpEnds ==
  ASSUME Inv, Closed, Inv', AnswersStay, NEW c \in Clients, NEW r,
         mgr' = [mgr EXCEPT ![c] = r], UNCHANGED serverVars, UNCHANGED link, link[c] = "up",
         \A d \in Clients \ {c} : down'[d] = down[d], \A d \in Clients \ {c} : up'[d] = up[d],
         DownLess(c), SendingFits(c, r), EntryFits(c, r), EndFits(c, r)
  PROVE  Closed' /\ NewsKept
<1>1. Fits(r)
  <2>1. mgr'[c] = r
    BY DEF Inv, Sane, ManagersFit
  <2> QED BY <2>1 DEF Inv, Sane, ManagersFit, Fits
<1>2. ClientFits(c, r)
  BY DEF ClientFits
<1> QED BY <1>1, <1>2, ClientEnds

LEMMA AcceptEnds ==
  ASSUME Inv, Closed, Inv', AnswersStay, NEW c \in Clients, NEW s \in Sids, Asked(c, s),
         mgr[c].active = NoSid, Accept(c, s, mgr[c]), UNCHANGED serverVars, UNCHANGED link,
         link[c] = "up", \A d \in Clients \ {c} : down'[d] = down[d], DownLess(c),
         \A r : EndFits(c, r)
  PROVE  Closed' /\ NewsKept
<1> DEFINE r == [mgr[c] EXCEPT !.active = s, !.est = FALSE, !.req = NoSid]
           q == <<Resp(s, TRUE)>>
<1>1. mgr' = [mgr EXCEPT ![c] = r] /\ Send(c, q) /\ said' = [said EXCEPT ![s] = "yes"]
  BY DEF Accept, Become
<1>2. r.active = s /\ r.est = FALSE /\ r.early = mgr[c].early
  <2>1. mgr[c] \in Managers
    BY Known
  <2> QED BY <2>1 DEF Managers
<1>3. q \in Seq(UpMsgs) /\ \A y : Holds(q, y) => y = Resp(s, TRUE)
  BY MessageShapes, OneHolds
<1> HIDE DEF r, q
<1>4. SendingFits(c, r) /\ \A d \in Clients \ {c} : up'[d] = up[d]
  <2>1. Says(c, r, q)
    BY <1>3 DEF Says
  <2> QED BY <1>1, <1>3, <2>1, SaysFits
<1>5. EntryFits(c, r)
  <2>1. said'[s] = "yes"
    BY <1>1, Known
  <2>2. party[s].ctl # c
    BY DEF Inv, Questions, Closed, Routes
  <2> QED BY <1>2, <2>1, <2>2 DEF EntryFits
<1> QED BY <1>1, <1>4, <1>5, UpEnds

LEMMA DeclineEnds ==
  ASSUME Inv, Closed, Inv', AnswersStay, NEW c \in Clients, NEW s \in Sids,
         NEW r, r = mgr[c] \/ r = [mgr[c] EXCEPT !.req = NoSid],
         Decline(c, s, r), UNCHANGED serverVars, UNCHANGED link,
         link[c] = "up", \A d \in Clients \ {c} : down'[d] = down[d], DownLess(c),
         EndFits(c, r)
  PROVE  Closed' /\ NewsKept
<1> DEFINE q == <<Resp(s, FALSE)>>
<1>1. mgr' = [mgr EXCEPT ![c] = r] /\ Send(c, q) /\ said' = [said EXCEPT ![s] = "no"]
  BY DEF Decline, Become
<1>2. /\ r.active = mgr[c].active /\ r.est = mgr[c].est /\ r.grant = mgr[c].grant
      /\ r.early = mgr[c].early
  <2>1. mgr[c] \in Managers
    BY Known
  <2> QED BY <2>1 DEF Managers
<1>3. q \in Seq(UpMsgs) /\ \A y : Holds(q, y) => y = Resp(s, FALSE)
  BY MessageShapes, OneHolds
<1> HIDE DEF q
<1>4. SendingFits(c, r) /\ \A d \in Clients \ {c} : up'[d] = up[d]
  <2>1. said'[s] = "no"
    BY <1>1, Known
  <2>2. Says(c, r, q)
    BY <1>3, <2>1 DEF Says
  <2> QED BY <1>1, <1>3, <2>2, SaysFits
<1>5. EntryFits(c, r)
  BY <1>2, CalmFits DEF Calmer
<1> QED BY <1>1, <1>4, <1>5, UpEnds

LEMMA RecvIncomingEnds ==
  ASSUME Inv, Closed, NEW c \in Clients, RecvIncoming(c)
  PROVE  Closed' /\ NewsKept
<1> DEFINE x == Head(down[c])
           s == x.sid
           r == [mgr[c] EXCEPT !.req = s]
<1>1. Receive(c, "incoming") /\ UNCHANGED serverVars /\ UNCHANGED link
      /\ \/ Decline(c, s, mgr[c])
         \/ ~Busy(mgr[c]) /\ Accept(c, s, mgr[c])
         \/ ~Busy(mgr[c]) /\ Become(c, r) /\ UNCHANGED <<up, said>>
  BY DEF RecvIncoming, linkVars
<1>2. Inv' /\ AnswersStay
  BY RecvIncomingInv
<1>3. /\ link[c] = "up" /\ DownLess(c) /\ (\A d \in Clients \ {c} : down'[d] = down[d])
      /\ x \in DownMsgs /\ x.type = "incoming" /\ Holds(down[c], x)
  <2>1. Taking(c, "incoming", x)
    BY <1>1, Receives
  <2> QED BY <2>1 DEF Taking
<1>4. s \in Sids /\ Asked(c, s)
  BY <1>3, DownShapes DEF Asked
<1>5. \A u : EndFits(c, u)
  BY <1>1, TakesNoEnd
<1>6. r.active = mgr[c].active /\ r.est = mgr[c].est /\ r.grant = mgr[c].grant
      /\ r.early = mgr[c].early
  <2>1. mgr[c] \in Managers
    BY Known
  <2> QED BY <2>1 DEF Managers
<1> HIDE DEF r, s, x
<1>7. CASE Decline(c, s, mgr[c])
  BY <1>1, <1>2, <1>3, <1>4, <1>5, <1>7, DeclineEnds
<1>8. CASE ~Busy(mgr[c]) /\ Accept(c, s, mgr[c])
  BY <1>1, <1>2, <1>3, <1>4, <1>5, <1>8, AcceptEnds DEF Busy
<1>9. CASE ~Busy(mgr[c]) /\ Become(c, r) /\ UNCHANGED <<up, said>>
  <2>1. EntryFits(c, r)
    BY <1>6, CalmFits DEF Calmer
  <2> QED BY <1>1, <1>2, <1>3, <1>5, <1>9, <2>1, SilentFits, UpEnds DEF Become
<1> QED BY <1>1, <1>7, <1>8, <1>9

LEMMA ApproveEnds ==
  ASSUME Inv, Closed, NEW c \in Clients, Approve(c)
  PROVE  Closed' /\ NewsKept
<1>1. /\ link[c] = "up" /\ mgr[c].req # NoSid /\ Accept(c, mgr[c].req, mgr[c])
      /\ UNCHANGED serverVars /\ UNCHANGED link /\ UNCHANGED down
  BY DEF Approve, linkVars
<1>2. mgr[c].req \in Sids /\ mgr[c].active = NoSid /\ Asked(c, mgr[c].req)
  BY <1>1, Known DEF Fits, Managers, Asked
<1> QED BY <1>1, <1>2, ApproveInv, TakesNothing, AcceptEnds

LEMMA RejectEnds ==
  ASSUME Inv, Closed, NEW c \in Clients, Reject(c)
  PROVE  Closed' /\ NewsKept
<1> DEFINE r == [mgr[c] EXCEPT !.req = NoSid]
<1>1. /\ link[c] = "up" /\ mgr[c].req # NoSid /\ Decline(c, mgr[c].req, r)
      /\ UNCHANGED serverVars /\ UNCHANGED link /\ UNCHANGED down
  BY DEF Reject, linkVars
<1>2. mgr[c].req \in Sids
  BY <1>1, Known DEF Managers
<1>3. r = [mgr[c] EXCEPT !.req = NoSid]
  OBVIOUS
<1> HIDE DEF r
<1> QED BY <1>1, <1>2, <1>3, RejectInv, TakesNothing, DeclineEnds

\* A granted session is not the one that the controller is in.
LEMMA RecvGrantEnds ==
  ASSUME Inv, Closed, NEW c \in Clients, RecvGrant(c)
  PROVE  Closed' /\ NewsKept
<1> DEFINE x == Head(down[c])
           s == x.sid
           r == [Quiet EXCEPT !.active = s, !.grant = IF mgr[c].early = s THEN NoSid ELSE s]
<1>1. /\ Receive(c, "grant") /\ UNCHANGED serverVars /\ UNCHANGED link
      /\ Send(c, AbortMsgs(mgr[c])) /\ said' = Refused(mgr[c])
      /\ mgr' = [mgr EXCEPT ![c] = r]
  BY DEF RecvGrant, linkVars, Become
<1>2. Inv' /\ AnswersStay
  BY RecvGrantInv
<1>3. r.active = s /\ r.est = FALSE /\ r.early = NoSid /\ r.grant = IF mgr[c].early = s THEN NoSid ELSE s
  BY DEF Quiet
<1> HIDE DEF r
<1>4. /\ link[c] = "up" /\ DownLess(c) /\ (\A d \in Clients \ {c} : down'[d] = down[d])
      /\ x \in DownMsgs /\ x.type = "grant" /\ Holds(down[c], x)
      /\ \A e \in Sids : x = Grant(e) => ~Holds(down'[c], x)
  <2>1. Taking(c, "grant", x)
    BY <1>1, Receives
  <2> QED BY <2>1 DEF Taking
<1>5. s \in Sids /\ x = Grant(s)
  BY <1>4 DEF DownMsgs, Resps, Ends, Deny, Resp, Grant
<1> HIDE DEF s, x
<1>6. GrantAhead(c, s) /\ ~Inside(c, s)
  <2>1. GrantAhead(c, s)
    BY <1>4, <1>5 DEF GrantAhead
  <2> QED BY <1>5, <2>1 DEF Closed, Grants, Roles, Routes
<1>7. SendingFits(c, r) /\ \A d \in Clients \ {c} : up'[d] = up[d]
  <2>1. r.active # mgr[c].active
    BY <1>3, <1>6 DEF Inside
  <2> QED BY <1>1, <2>1, Known, AbortSays, SaysFits
<1>8. EntryFits(c, r)
  <2>1. mgr[c].early = s => YesAhead(c, s)
    BY DEF YesAhead
  <2>2. r.grant = NoSid => mgr[c].early = s
    BY <1>3, <1>5, Numbers
  <2> QED BY <1>3, <1>4, <1>5, <2>1, <2>2, Numbers DEF EntryFits
<1>9. EndFits(c, r)
  BY <1>1, TakesNoEnd
<1> QED BY <1>1, <1>2, <1>4, <1>7, <1>8, <1>9, UpEnds

LEMMA RecvAcceptedEnds ==
  ASSUME Inv, Closed, NEW c \in Clients, RecvAccepted(c)
  PROVE  Closed' /\ NewsKept
<1> DEFINE x == Head(down[c])
           s == x.sid
           r == IF mgr[c].grant = s THEN [mgr[c] EXCEPT !.grant = NoSid]
                ELSE [mgr[c] EXCEPT !.early = s]
<1>1. /\ Receive(c, "resp") /\ x.ok /\ mgr' = [mgr EXCEPT ![c] = r]
      /\ UNCHANGED serverVars /\ UNCHANGED <<link, up, said>>
  BY DEF RecvAccepted, linkVars, Become
<1>2. Inv' /\ AnswersStay
  BY RecvAcceptedInv
<1>3. /\ link[c] = "up" /\ DownLess(c) /\ (\A d \in Clients \ {c} : down'[d] = down[d])
      /\ x \in DownMsgs /\ x.type = "resp" /\ Holds(down[c], x)
  <2>1. Taking(c, "resp", x)
    BY <1>1, Receives
  <2> QED BY <2>1 DEF Taking
<1>4. s \in Sids /\ Holds(down[c], Resp(s, TRUE))
  BY <1>1, <1>3, DownShapes
<1>5. /\ r.active = mgr[c].active /\ r.est = mgr[c].est
      /\ \/ mgr[c].grant = s /\ r.early = mgr[c].early
         \/ r.grant = mgr[c].grant /\ r.early = s
  <2>1. mgr[c] \in Managers
    BY Known
  <2> QED BY <2>1 DEF Managers
<1> HIDE DEF r, s, x
<1>6. EntryFits(c, r)
  <2>1. mgr[c].grant = s => mgr[c].active = s
    BY <1>4, Known, Numbers DEF Fits
  <2>2. ASSUME NEW e \in Sids, r.active = e, r.grant = NoSid, party[e].ctl = c
        PROVE  YesAhead(c, e)
    <3>1. CASE mgr[c].grant = s
      BY <1>4, <1>5, <2>1, <2>2, <3>1 DEF YesAhead
    <3>2. CASE mgr[c].grant # s
      BY <1>5, <2>2, <3>2, Numbers DEF YesAhead, HasTask
    <3> QED BY <3>1, <3>2
  <2> QED BY <1>4, <1>5, <2>2 DEF EntryFits, Inside
<1>7. EndFits(c, r)
  BY <1>1, TakesNoEnd
<1> QED BY <1>1, <1>2, <1>3, <1>6, <1>7, SilentFits, UpEnds

\* What concludes a session leaves others as they are.
LEMMA ConcludedCalm ==
  ASSUME Inv, NEW c \in Clients, NEW s \in Sids
  PROVE  /\ Calmer(c, Concluded(mgr[c], s))
         /\ Concluded(mgr[c], s).active # s /\ Concluded(mgr[c], s).early # s
<1>1. Fits(mgr[c]) /\ NoSid # s
  BY Known, Numbers
<1>2. Calmer(c, Concluded(mgr[c], s))
  BY <1>1 DEF Fits, Calmer, Concluded
<1>3. Concluded(mgr[c], s).active # s /\ Concluded(mgr[c], s).early # s
  BY <1>1 DEF Concluded
<1> QED BY <1>2, <1>3

LEMMA AnyCalm ==
  ASSUME NEW c \in Clients
  PROVE  Calmer(c, ConcludedAny(mgr[c])) /\ Calmer(c, Quiet) /\ Calmer(c, mgr[c])
<1>1. ConcludedAny(mgr[c]).active = NoSid /\ ConcludedAny(mgr[c]).early = NoSid
  BY DEF ConcludedAny, Quiet
<1>2. Quiet.active = NoSid /\ Quiet.early = NoSid
  BY DEF Quiet
<1> QED BY <1>1, <1>2 DEF Calmer

LEMMA RecvRefusedEnds ==
  ASSUME Inv, Closed, NEW c \in Clients, RecvRefused(c)
  PROVE  Closed' /\ NewsKept
<1> DEFINE x == Head(down[c])
           s == x.sid
<1>1. /\ Receive(c, "resp") /\ UNCHANGED serverVars /\ UNCHANGED link /\ UNCHANGED up
      /\ \/ mgr' = [mgr EXCEPT ![c] = ConcludedAny(mgr[c])]
         \/ mgr' = [mgr EXCEPT ![c] = mgr[c]]
         \/ s # NoSid /\ mgr' = [mgr EXCEPT ![c] = Concluded(mgr[c], s)]
  BY DEF RecvRefused, linkVars, Become
<1>2. Inv' /\ AnswersStay
  BY RecvRefusedInv
<1>3. /\ link[c] = "up" /\ DownLess(c) /\ (\A d \in Clients \ {c} : down'[d] = down[d])
      /\ x \in DownMsgs /\ x.type = "resp"
  <2>1. Taking(c, "resp", x)
    BY <1>1, Receives
  <2> QED BY <2>1 DEF Taking
<1>4. s \in Sids \cup {NoSid}
  BY <1>3, DownShapes
<1> HIDE DEF s, x
<1>5. PICK r : mgr' = [mgr EXCEPT ![c] = r] /\ Calmer(c, r)
  <2>1. CASE mgr' = [mgr EXCEPT ![c] = ConcludedAny(mgr[c])]
    BY <2>1, AnyCalm
  <2>2. CASE mgr' = [mgr EXCEPT ![c] = mgr[c]]
    BY <2>2, AnyCalm
  <2>3. CASE s # NoSid /\ mgr' = [mgr EXCEPT ![c] = Concluded(mgr[c], s)]
    BY <1>4, <2>3, ConcludedCalm
  <2> QED BY <1>1, <2>1, <2>2, <2>3
<1>6. EndFits(c, r) /\ EntryFits(c, r) /\ SendingFits(c, r) /\ \A d \in Clients \ {c} : up'[d] = up[d]
  BY <1>1, <1>5, TakesNoEnd, CalmFits, SilentFits
<1> QED BY <1>1, <1>2, <1>3, <1>5, <1>6, UpEnds

\* The end comes after the acceptance, if any.
LEMMA RecvSessionEndEnds ==
  ASSUME Inv, Closed, NEW c \in Clients, RecvSessionEnd(c)
  PROVE  Closed' /\ NewsKept
<1> DEFINE x == Head(down[c])
           s == x.sid
           r == Concluded(mgr[c], s)
<1>1. /\ Receive(c, "end") /\ mgr' = [mgr EXCEPT ![c] = r]
      /\ UNCHANGED serverVars /\ UNCHANGED link /\ UNCHANGED up
  BY DEF RecvSessionEnd, linkVars, Become
<1>2. Inv' /\ AnswersStay
  BY RecvSessionEndInv
<1>3. /\ link[c] = "up" /\ DownLess(c) /\ (\A d \in Clients \ {c} : down'[d] = down[d])
      /\ x \in DownMsgs /\ x.type = "end"
      /\ \A y : Holds(down[c], y) => Holds(down'[c], y) \/ y = x
      /\ \A e \in Sids : x = End(e) => ~Holds(down'[c], Resp(e, TRUE))
  <2>1. Taking(c, "end", x)
    BY <1>1, Receives
  <2> QED BY <2>1 DEF Taking
<1>4. s \in Sids /\ x = End(s)
  BY <1>3 DEF DownMsgs, Resps, Ends, Deny, Resp, End
<1>5. \A e \in Sids : x = End(e) => e = s
  <2>1. \A e \in Sids : End(e).sid = e
    BY DEF End
  <2> QED BY <2>1
<1>6. Calmer(c, r) /\ r.active # s /\ r.early # s
  BY <1>4, ConcludedCalm
<1> HIDE DEF r, s, x
<1>7. EndFits(c, r)
  BY <1>3, <1>5, <1>6 DEF EndFits
<1>8. EntryFits(c, r) /\ SendingFits(c, r) /\ \A d \in Clients \ {c} : up'[d] = up[d]
  BY <1>1, <1>6, CalmFits, SilentFits
<1> QED BY <1>1, <1>2, <1>3, <1>6, <1>7, <1>8, UpEnds

\* Who has a session is connected.
LEMMA ActiveIsUp ==
  ASSUME Inv, Closed, NEW c \in Clients, mgr[c].active # NoSid \/ mgr[c].grant # NoSid
  PROVE  link[c] = "up"
<1>1. Quiet.active = NoSid /\ Quiet.grant = NoSid
  BY DEF Quiet
<1> QED BY <1>1 DEF Closed, Routes

LEMMA WaitTimeoutEnds ==
  ASSUME Inv, Closed, NEW c \in Clients, WaitTimeout(c)
  PROVE  Closed' /\ NewsKept
<1> DEFINE r == ConcludedAny(mgr[c])
<1>1. /\ mgr[c].grant # NoSid /\ mgr' = [mgr EXCEPT ![c] = r]
      /\ UNCHANGED serverVars /\ UNCHANGED link /\ UNCHANGED up /\ UNCHANGED down
  BY DEF WaitTimeout, linkVars, Become
<1>2. Inv' /\ AnswersStay
  BY WaitTimeoutInv
<1>3. Calmer(c, r)
  BY AnyCalm
<1> HIDE DEF r
<1>4. /\ EntryFits(c, r) /\ SendingFits(c, r) /\ EndFits(c, r) /\ DownLess(c)
      /\ \A d \in Clients \ {c} : up'[d] = up[d] /\ down'[d] = down[d]
  BY <1>1, <1>3, CalmFits, SilentFits, TakesNothing
<1> QED BY <1>1, <1>2, <1>3, <1>4, ActiveIsUp, UpEnds

LEMMA EstablishEnds ==
  ASSUME Inv, Closed, NEW c \in Clients, Establish(c)
  PROVE  Closed' /\ NewsKept
<1> DEFINE r == [mgr[c] EXCEPT !.est = TRUE]
<1>1. /\ mgr[c].active # NoSid /\ mgr' = [mgr EXCEPT ![c] = r]
      /\ UNCHANGED serverVars /\ UNCHANGED link /\ UNCHANGED up /\ UNCHANGED down
  BY DEF Establish, HasTask, linkVars, Become
<1>2. Inv' /\ AnswersStay
  BY EstablishInv
<1>3. Calmer(c, r)
  <2>1. mgr[c] \in Managers
    BY Known
  <2> QED BY <2>1 DEF Managers, Calmer
<1> HIDE DEF r
<1>4. /\ EntryFits(c, r) /\ SendingFits(c, r) /\ EndFits(c, r) /\ DownLess(c)
      /\ \A d \in Clients \ {c} : up'[d] = up[d] /\ down'[d] = down[d]
  BY <1>1, <1>3, CalmFits, SilentFits, TakesNothing
<1> QED BY <1>1, <1>2, <1>4, ActiveIsUp, UpEnds

LEMMA FinishEnds ==
  ASSUME Inv, Closed, NEW c \in Clients, Finish(c)
  PROVE  Closed' /\ NewsKept
<1> DEFINE r == [mgr[c] EXCEPT !.active = NoSid, !.est = FALSE]
           s == mgr[c].active
           q == <<End(s)>>
<1>1. /\ s # NoSid /\ mgr' = [mgr EXCEPT ![c] = r] /\ Send(c, q)
      /\ UNCHANGED serverVars /\ UNCHANGED link /\ UNCHANGED down
  BY DEF Finish, linkVars, Become, HasTask
<1>2. Inv' /\ AnswersStay
  BY FinishInv
<1>3. r.active = NoSid /\ r.est = FALSE /\ r.early = mgr[c].early
  <2>1. mgr[c] \in Managers
    BY Known
  <2> QED BY <2>1 DEF Managers
<1>4. s \in Sids /\ Inside(c, s)
  BY <1>1, Known DEF Managers, Inside
<1>5. q \in Seq(UpMsgs) /\ \A y : Holds(q, y) => y = End(s)
  BY <1>4, MessageShapes, OneHolds
<1>6. link[c] = "up"
  BY <1>1, ActiveIsUp
<1> HIDE DEF q, r, s
<1>7. SendingFits(c, r) /\ \A d \in Clients \ {c} : up'[d] = up[d]
  <2>1. Says(c, r, q)
    BY <1>1, <1>3, <1>4, <1>5 DEF Says
  <2> QED BY <1>1, <1>5, <2>1, SaysFits
<1>8. Calmer(c, r)
  BY <1>3 DEF Calmer
<1>9. /\ EntryFits(c, r) /\ EndFits(c, r) /\ DownLess(c)
      /\ \A d \in Clients \ {c} : down'[d] = down[d]
  BY <1>1, <1>8, CalmFits, TakesNothing
<1> QED BY <1>1, <1>2, <1>6, <1>7, <1>8, <1>9, UpEnds

LEMMA AbortEnds ==
  ASSUME Inv, Closed, NEW c \in Clients, Abort(c)
  PROVE  Closed' /\ NewsKept
<1>1. /\ link[c] = "up" /\ mgr' = [mgr EXCEPT ![c] = Quiet] /\ Send(c, AbortMsgs(mgr[c]))
      /\ said' = Refused(mgr[c])
      /\ UNCHANGED serverVars /\ UNCHANGED link /\ UNCHANGED down
  BY DEF Abort, Become
<1>2. Inv' /\ AnswersStay
  BY AbortInv
<1>3. Calmer(c, Quiet)
  BY AnyCalm
<1>4. SendingFits(c, Quiet) /\ \A d \in Clients \ {c} : up'[d] = up[d]
  <2>1. mgr[c].active # NoSid => Quiet.active # mgr[c].active
    BY QuietFits
  <2> QED BY <1>1, <2>1, Known, AbortSays, SaysFits
<1>5. /\ EntryFits(c, Quiet) /\ EndFits(c, Quiet) /\ DownLess(c)
      /\ \A d \in Clients \ {c} : down'[d] = down[d]
  BY <1>1, <1>3, CalmFits, TakesNothing
<1> QED BY <1>1, <1>2, <1>3, <1>4, <1>5, UpEnds

\* Only a session in which c is controlled is ended.
LEMMA DisableEnds ==
  ASSUME Inv, Closed, NEW c \in Clients, Disable(c)
  PROVE  Closed' /\ NewsKept
<1> DEFINE r == [mgr[c] EXCEPT !.req = NoSid]
           s == r.active
           controlled == s # NoSid /\ party[s].tgt = c
           a == [mgr[c] EXCEPT !.active = IF controlled THEN @ ELSE NoSid]
           u == IF controlled THEN Concluded(r, s) ELSE r
<1>1. /\ link[c] = "up" /\ mgr' = [mgr EXCEPT ![c] = u] /\ Send(c, AbortMsgs(a))
      /\ said' = Refused(mgr[c])
      /\ UNCHANGED serverVars /\ UNCHANGED link /\ UNCHANGED down
  BY DEF Disable, Become
<1>2. Inv' /\ AnswersStay
  BY DisableInv
<1>3. /\ r.active = mgr[c].active /\ r.est = mgr[c].est /\ r.early = mgr[c].early
      /\ r.grant = mgr[c].grant
  <2>1. mgr[c] \in Managers
    BY Known
  <2> QED BY <2>1 DEF Managers
<1>4. a \in Managers /\ a.req = mgr[c].req /\ a.active = IF controlled THEN mgr[c].active ELSE NoSid
  <2>1. mgr[c] \in Managers
    BY Known
  <2>2. (IF controlled THEN mgr[c].active ELSE NoSid) \in Sids \cup {NoSid}
    BY <2>1 DEF Managers
  <2> HIDE DEF controlled
  <2> QED BY <2>1, <2>2 DEF Managers
<1> HIDE DEF a, r
<1>5. Calmer(c, u) /\ (controlled => u.active # mgr[c].active)
  <2>1. CASE controlled
    <3>1. /\ u.active = NoSid /\ u.est = FALSE /\ u.early \in {NoSid, r.early}
          /\ mgr[c].active # NoSid
      BY <1>3, <2>1 DEF Concluded
    <3> QED BY <1>3, <3>1 DEF Calmer
  <2>2. CASE ~controlled
    BY <1>3, <2>2 DEF Calmer
  <2> QED BY <2>1, <2>2
<1> HIDE DEF u, controlled
<1>6. SendingFits(c, u) /\ \A d \in Clients \ {c} : up'[d] = up[d]
  <2>1. a.active \in {mgr[c].active, NoSid} /\ (a.active # NoSid => u.active # a.active)
    BY <1>4, <1>5
  <2> QED BY <1>1, <1>4, <2>1, AbortSays, SaysFits
<1>7. /\ EntryFits(c, u) /\ EndFits(c, u) /\ DownLess(c)
      /\ \A d \in Clients \ {c} : down'[d] = down[d]
  BY <1>1, <1>5, CalmFits, TakesNothing
<1> QED BY <1>1, <1>2, <1>5, <1>6, <1>7, UpEnds

\* What c was told is lost with its connection, and its session with it.
LEMMA LoseEnds ==
  ASSUME Inv, Closed, NEW c \in Clients, Lose(c)
  PROVE  Closed' /\ NewsKept
<1>1. PICK n \in 0..Len(up[c]) : up' = [up EXCEPT ![c] = SubSeq(up[c], 1, n)]
  BY DEF Lose
<1>2. /\ mgr' = [mgr EXCEPT ![c] = Quiet] /\ down' = [down EXCEPT ![c] = <<>>]
      /\ link' = [link EXCEPT ![c] = "dead"] /\ UNCHANGED serverVars /\ UNCHANGED said
  BY DEF Lose, Become
<1>3. Inv' /\ AnswersStay
  BY LoseInv
<1>4. /\ link'[c] = "dead" /\ down'[c] = <<>> /\ up'[c] = SubSeq(up[c], 1, n)
      /\ \A d \in Clients \ {c} : down'[d] = down[d] /\ up'[d] = up[d] /\ link'[d] = link[d]
  BY <1>1, <1>2, Known DEF Queues, Outside
<1>5. \A y : ~Holds(down'[c], y)
  BY <1>4 DEF Holds
<1>6. DownLess(c)
  BY <1>4, <1>5 DEF DownLess, Sole, Before
<1>7. SendingFits(c, Quiet)
  <2>1. up[c] \in Seq(UpMsgs)
    BY Known DEF Queues
  <2>2. \A y : Holds(up'[c], y) => Holds(up[c], y)
    BY <1>4, <2>1, PrefixHolds
  <2> QED BY <2>2 DEF SendingFits, Closed, Routes
<1>8. EntryFits(c, Quiet)
  BY AnyCalm, CalmFits
<1>9. EndFits(c, Quiet)
  BY <1>5, QuietFits, Numbers DEF EndFits
<1>10. ClientFits(c, Quiet)
  BY <1>2, <1>3, <1>4, <1>6, <1>7, <1>8, <1>9 DEF ClientFits
<1> QED BY <1>10, QuietFits, ClientEnds

\* A manager that stays as it is.
LEMMA SameManager ==
  ASSUME Inv, UNCHANGED mgr, NEW c \in Clients
  PROVE  mgr' = [mgr EXCEPT ![c] = mgr[c]] /\ Fits(mgr[c])
         /\ EntryFits(c, mgr[c])
  BY Known, AnyCalm, CalmFits DEF Inv, Sane, ManagersFit

\* Nobody connects to himself.
LEMMA RequestConnectEnds ==
  ASSUME Inv, Closed, NEW c \in Clients, NEW t \in Clients, RequestConnect(c, t)
  PROVE  Closed' /\ NewsKept
<1> DEFINE q == <<Connect(t)>>
<1>1. /\ link[c] = "up" /\ t # c /\ Send(c, q)
      /\ UNCHANGED serverVars /\ UNCHANGED link /\ UNCHANGED down /\ UNCHANGED mgr
  BY DEF RequestConnect, linkVars
<1>2. Inv' /\ AnswersStay
  BY RequestConnectInv
<1>3. q \in Seq(UpMsgs) /\ \A y : Holds(q, y) => y = Connect(t)
  BY MessageShapes, OneHolds
<1> HIDE DEF q
<1>4. SendingFits(c, mgr[c]) /\ \A d \in Clients \ {c} : up'[d] = up[d]
  <2>1. Says(c, mgr[c], q)
    BY <1>1, <1>3 DEF Says
  <2> QED BY <1>1, <1>3, <2>1, SaysFits
<1>5. /\ mgr' = [mgr EXCEPT ![c] = mgr[c]] /\ EntryFits(c, mgr[c])
      /\ EndFits(c, mgr[c]) /\ DownLess(c) /\ \A d \in Clients \ {c} : down'[d] = down[d]
  BY <1>1, SameManager, TakesNothing
<1> QED BY <1>1, <1>2, <1>4, <1>5, UpEnds

LEMMA ReconnectEnds ==
  ASSUME Inv, Closed, NEW c \in Clients, Reconnect(c)
  PROVE  Closed' /\ NewsKept
<1>1. /\ link[c] = "down" /\ link' = [link EXCEPT ![c] = "up"]
      /\ UNCHANGED serverVars /\ UNCHANGED up /\ UNCHANGED down /\ UNCHANGED mgr
  BY DEF Reconnect
<1>2. AnswersStay
  BY ReconnectInv
<1>3. link'[c] = "up" /\ \A d \in Clients \ {c} : link'[d] = link[d]
  BY <1>1, Known DEF Outside
<1>4. /\ mgr' = [mgr EXCEPT ![c] = mgr[c]] /\ EntryFits(c, mgr[c])
      /\ EndFits(c, mgr[c]) /\ DownLess(c) /\ Fits(mgr[c])
      /\ \A d \in Clients \ {c} : down'[d] = down[d]
  BY <1>1, SameManager, TakesNothing
<1>5. SendingFits(c, mgr[c]) /\ \A d \in Clients \ {c} : up'[d] = up[d]
  BY <1>1, SilentFits
<1>6. ClientFits(c, mgr[c])
  BY <1>1, <1>2, <1>3, <1>4, <1>5 DEF ClientFits
<1> QED BY <1>4, <1>6, ClientEnds

-----------------------------------------------------------------------------
(* The theorem about ends.                                                 *)

LEMMA InitClosed == Init => Closed
<1> SUFFICES ASSUME Init PROVE Closed
  OBVIOUS
<1>1. /\ issued = 0 /\ \A s \in Sids : table[s] = "none" /\ ~(s <= issued)
      /\ \A c \in Clients : /\ link[c] = "up" /\ up[c] = <<>> /\ down[c] = <<>>
                            /\ handler[c] = Receiving /\ mgr[c] = Quiet
  BY DEF Init, Sids
<1>2. \A y : ~Holds(<<>>, y)
  BY DEF Holds
<1>3. \A s : /\ ~Granting(Receiving, s) /\ ~Affirming(Receiving, s) /\ ~Refusing(Receiving, s)
             /\ ~Removing(Receiving, s) /\ ~Telling(Receiving, s)
  BY DEF Receiving, Granting, Affirming, Refusing, Removing, Telling
<1>4. Quiet.active = NoSid /\ Quiet.est = FALSE /\ Receiving.pc = "recv" /\ NoSid \notin Sids
  BY IdleHandler, Numbers DEF Quiet
<1>5. Routes
  BY <1>1, <1>2, <1>4 DEF Routes
<1>6. \A c \in Clients, s \in Sids : ~GrantAhead(c, s) /\ ~Inside(c, s) /\ ~Leaving(c, s)
  BY <1>1, <1>2, <1>3, <1>4 DEF GrantAhead, Inside, Leaving
<1>7. Grants
  BY <1>1, <1>3, <1>6 DEF Grants, Sole
<1>8. Roles /\ Refusals
  BY <1>1, <1>2, <1>3, <1>6 DEF Roles, Refusals
<1>9. Endings
  <2>1. \A y, z : Before(<<>>, y, z)
    BY DEF Before
  <2>2. ASSUME NEW c \in Clients, NEW s \in Sids
        PROVE  /\ ~Telling(handler[c], s) /\ ~Removing(handler[c], s) /\ ~Affirming(handler[c], s)
               /\ ~Holds(down[c], End(s)) /\ Before(down[c], Resp(s, TRUE), End(s))
    BY <1>1, <1>2, <1>3, <2>1
  <2> QED BY <2>2 DEF Endings
<1>10. Closing
  <2>1. \A s \in Sids : party[s].ctl \in Clients
    BY InitInv, Known, ClientsAssumption
  <2> QED BY <1>6, <2>1 DEF Closing
<1> QED BY <1>5, <1>7, <1>8, <1>9, <1>10 DEF Closed

LEMMA StepClosed ==
  ASSUME Inv, Closed, [Next]_vars
  PROVE  Closed' /\ NewsKept
<1>1. CASE UNCHANGED vars
  <2>1. Routes' /\ Grants' /\ Refusals'
    BY <1>1 DEF vars, Closed, Routes, Grants, GrantAhead, Refusals
  <2>2. Roles'
    BY <1>1 DEF vars, Closed, Roles, GrantAhead, Inside, Leaving
  <2>3. Endings'
    BY <1>1 DEF vars, Closed, Endings, Present, Parties
  <2>4. Closing' /\ NewsKept
    <3>1. \A c, s : EndComes(c, s)' <=> EndComes(c, s)
      BY <1>1 DEF vars, EndComes, Peer
    <3>2. \A c, s : /\ YesAhead(c, s)' <=> YesAhead(c, s)
                    /\ GrantAhead(c, s)' <=> GrantAhead(c, s)
                    /\ Inside(c, s)' <=> Inside(c, s)
      BY <1>1 DEF vars, YesAhead, HasTask, GrantAhead, Inside
    <3>3. UNCHANGED <<table, party, mgr>>
      BY <1>1 DEF vars
    <3>4. NewsKept
      BY <3>1, <3>2, <3>3 DEF NewsKept, TargetTold
    <3>5. Closing'
      BY <3>1, <3>2, <3>3 DEF Closed, Closing
    <3> QED BY <3>4, <3>5
  <2> QED BY <2>1, <2>2, <2>3, <2>4 DEF Closed
<1>2. ASSUME NEW c \in Clients, ClientRecv(c) PROVE Closed' /\ NewsKept
  BY <1>2, RecvIncomingEnds, RecvGrantEnds, RecvAcceptedEnds, RecvRefusedEnds, RecvSessionEndEnds
     DEF ClientRecv
<1>3. ASSUME NEW c \in Clients,
             \/ \E t \in Clients : RequestConnect(c, t)
             \/ Approve(c) \/ Reject(c) \/ WaitTimeout(c)
             \/ Establish(c) \/ Finish(c)
             \/ Abort(c) \/ Disable(c) \/ Lose(c) \/ Reconnect(c)
      PROVE  Closed' /\ NewsKept
  BY <1>3, RequestConnectEnds, ApproveEnds, RejectEnds, WaitTimeoutEnds, EstablishEnds, FinishEnds,
     AbortEnds, DisableEnds, LoseEnds, ReconnectEnds
<1> QED BY <1>1, <1>2, <1>3, HandleEnds DEF Next

-----------------------------------------------------------------------------
(* The sessions in which the controller's task has run.                    *)

\* Who waits for a session's acceptance controls it.  Where the controller's task
\* has run the target has accepted, and it was not told before it did.
Dials ==
  /\ dialed \in SUBSET Sids
  /\ \A c \in Clients : mgr[c].grant # NoSid => party[mgr[c].grant].ctl = c
  /\ \A s \in dialed : said[s] = "yes" /\ TargetTold(s)

LEMMA GrantKept ==
  ASSUME Inv, [Next]_vars, NEW d \in Clients, mgr'[d].grant # NoSid
  PROVE  mgr'[d].grant = mgr[d].grant \/ Holds(down[d], Grant(mgr'[d].grant))
<1>1. CASE UNCHANGED mgr
  BY <1>1
<1>2. ASSUME NEW c \in Clients, Handle(c) PROVE UNCHANGED mgr
  BY <1>2 DEF Handle, ConnectStep, ResponseStep, EndStep, CleanUpStep, ConnectDenied, ConnectAllowed,
         Issue, SendIncoming, IncomingFails, SendGrant, GrantFails, RecvResponse, NotifyController,
         Mark, RecvEnd, RemoveSession, TellPeer, RemoveForClient, TellLeft, Unregister
<1>3. ASSUME NEW c \in Clients, NEW r, mgr' = [mgr EXCEPT ![c] = r], r.grant \in {NoSid, mgr[c].grant}
      PROVE  mgr'[d].grant = mgr[d].grant
  <2>1. mgr \in [Clients -> Managers]
    BY DEF Inv, Sane, ManagersFit
  <2> QED BY <1>3, <2>1
<1>4. ASSUME NEW c \in Clients
      PROVE  /\ mgr[c].grant = [mgr[c] EXCEPT !.req = NoSid].grant
             /\ \A s : mgr[c].grant = [mgr[c] EXCEPT !.req = s].grant
             /\ \A s : [mgr[c] EXCEPT !.active = s, !.est = FALSE, !.req = NoSid].grant = mgr[c].grant
             /\ \A s : [mgr[c] EXCEPT !.early = s].grant = mgr[c].grant
             /\ [mgr[c] EXCEPT !.grant = NoSid].grant = NoSid
             /\ [mgr[c] EXCEPT !.est = TRUE].grant = mgr[c].grant
             /\ [mgr[c] EXCEPT !.active = NoSid, !.est = FALSE].grant = mgr[c].grant
             /\ Quiet.grant = NoSid /\ ConcludedAny(mgr[c]).grant = NoSid
             /\ \A r, s : Concluded(r, s).grant \in {NoSid, r.grant}
  <2>1. mgr[c] \in Managers
    BY Known
  <2> QED BY <2>1 DEF Managers, Quiet, ConcludedAny, Concluded
<1>5. ASSUME NEW c \in Clients, RecvIncoming(c) \/ Approve(c) \/ Reject(c)
      PROVE  mgr'[d].grant = mgr[d].grant
  <2>1. ASSUME NEW s, Accept(c, s, mgr[c]) \/ Become(c, [mgr[c] EXCEPT !.req = s])
        PROVE  mgr'[d].grant = mgr[d].grant
    <3>1. CASE Accept(c, s, mgr[c])
      <4> DEFINE r == [mgr[c] EXCEPT !.active = s, !.est = FALSE, !.req = NoSid]
      <4>1. mgr' = [mgr EXCEPT ![c] = r] /\ r.grant = mgr[c].grant
        BY <1>4, <3>1 DEF Accept, Become
      <4> HIDE DEF r
      <4> QED BY <1>3, <4>1
    <3>2. CASE Become(c, [mgr[c] EXCEPT !.req = s])
      <4> DEFINE r == [mgr[c] EXCEPT !.req = s]
      <4>1. mgr' = [mgr EXCEPT ![c] = r] /\ r.grant = mgr[c].grant
        BY <1>4, <3>2 DEF Become
      <4> HIDE DEF r
      <4> QED BY <1>3, <4>1
    <3> QED BY <2>1, <3>1, <3>2
  <2>2. ASSUME NEW s, Decline(c, s, mgr[c]) \/ Decline(c, s, [mgr[c] EXCEPT !.req = NoSid])
        PROVE  mgr'[d].grant = mgr[d].grant
    BY <1>3, <1>4, <2>2 DEF Decline, Become
  <2> QED BY <1>5, <2>1, <2>2 DEF RecvIncoming, Approve, Reject
<1>6. ASSUME NEW c \in Clients, RecvAccepted(c) \/ RecvRefused(c) \/ RecvSessionEnd(c)
      PROVE  mgr'[d].grant = mgr[d].grant
  <2>1. ASSUME NEW s, \/ Become(c, [mgr[c] EXCEPT !.grant = NoSid])
                      \/ Become(c, [mgr[c] EXCEPT !.early = s])
        PROVE  mgr'[d].grant = mgr[d].grant
    <3>1. CASE Become(c, [mgr[c] EXCEPT !.grant = NoSid])
      BY <1>3, <1>4, <3>1 DEF Become
    <3>2. CASE Become(c, [mgr[c] EXCEPT !.early = s])
      <4> DEFINE r == [mgr[c] EXCEPT !.early = s]
      <4>1. mgr' = [mgr EXCEPT ![c] = r] /\ r.grant = mgr[c].grant
        BY <1>4, <3>2 DEF Become
      <4> HIDE DEF r
      <4> QED BY <1>3, <4>1
    <3> QED BY <2>1, <3>1, <3>2
  <2>2. ASSUME NEW s, Become(c, Concluded(mgr[c], s)) PROVE mgr'[d].grant = mgr[d].grant
    BY <1>3, <1>4, <2>2 DEF Become
  <2>3. ASSUME Become(c, ConcludedAny(mgr[c])) \/ Become(c, mgr[c])
        PROVE  mgr'[d].grant = mgr[d].grant
    BY <1>3, <1>4, <2>3 DEF Become
  <2>4. CASE RecvAccepted(c)
    BY <2>1, <2>4 DEF RecvAccepted
  <2>5. CASE RecvRefused(c)
    BY <2>2, <2>3, <2>5 DEF RecvRefused
  <2>6. CASE RecvSessionEnd(c)
    BY <2>2, <2>6 DEF RecvSessionEnd
  <2> QED BY <1>6, <2>4, <2>5, <2>6
<1>7. ASSUME NEW c \in Clients, WaitTimeout(c) \/ Establish(c) \/ Finish(c) \/ Abort(c) \/ Lose(c)
      PROVE  mgr'[d].grant = mgr[d].grant
  <2>1. \E r : mgr' = [mgr EXCEPT ![c] = r] /\ r.grant \in {NoSid, mgr[c].grant}
    BY <1>4, <1>7 DEF WaitTimeout, Establish, Finish, Abort, Lose, Become
  <2> QED BY <1>3, <2>1
<1>8. ASSUME NEW c \in Clients, Disable(c)
      PROVE  mgr'[d].grant = mgr[d].grant
  <2>1. \E r : mgr' = [mgr EXCEPT ![c] = r] /\ r.grant \in {NoSid, mgr[c].grant}
    BY <1>4, <1>8 DEF Disable, Become
  <2> QED BY <1>3, <2>1
<1>9. ASSUME NEW c \in Clients, RecvGrant(c)
      PROVE  mgr'[d].grant = mgr[d].grant \/ Holds(down[d], Grant(mgr'[d].grant))
  <2>1. mgr \in [Clients -> Managers]
    BY DEF Inv, Sane, ManagersFit
  <2> DEFINE x == Head(down[c])
  <2>2. x \in DownMsgs /\ x.type = "grant" /\ Holds(down[c], x)
    BY <1>9, TakenByClient DEF RecvGrant
  <2>3. x = Grant(x.sid)
    BY <2>2 DEF DownMsgs, Resps, Ends, Deny, Resp, Grant
  <2> DEFINE r == [Quiet EXCEPT !.active = x.sid,
                                !.grant = IF mgr[c].early = x.sid THEN NoSid ELSE x.sid]
  <2>4. mgr' = [mgr EXCEPT ![c] = r]
    BY <1>9 DEF RecvGrant, Become
  <2>5. r.grant \in {NoSid, x.sid}
    BY DEF Quiet
  <2> HIDE DEF r
  <2>6. CASE d = c
    BY <2>1, <2>2, <2>3, <2>4, <2>5, <2>6
  <2>7. CASE d # c
    BY <2>1, <2>4, <2>7
  <2> QED BY <2>6, <2>7
<1>10. ASSUME NEW c \in Clients, Reconnect(c) \/ \E t \in Clients : RequestConnect(c, t)
       PROVE  UNCHANGED mgr
  BY <1>10 DEF Reconnect, RequestConnect
<1> QED BY <1>1, <1>2, <1>5, <1>6, <1>7, <1>8, <1>9, <1>10 DEF Next, ClientRecv, vars

\* The parties of a session that was issued stay.
LEMMA PartiesStay ==
  ASSUME Inv, [Next]_vars, NEW s \in Sids, s <= issued
  PROVE  party'[s] = party[s]
<1>1. issued \in Nat /\ s \in Nat
  BY Numbers DEF Inv, Sane, Ledger, Sids
<1>2. ASSUME NEW c \in Clients, Issue(c) PROVE party'[s] = party[s]
  BY <1>1, <1>2 DEF Issue
<1>3. ASSUME NEW c \in Clients, Handle(c), ~Issue(c) PROVE UNCHANGED party
  BY <1>3 DEF Handle, ConnectStep, ResponseStep, EndStep, CleanUpStep, ConnectDenied, ConnectAllowed,
         SendIncoming, IncomingFails, SendGrant, GrantFails, RecvResponse, NotifyController,
         Mark, RecvEnd, RemoveSession, TellPeer, RemoveForClient, TellLeft, Unregister, serverVars
<1>4. ASSUME NEW c \in Clients,
             \/ ClientRecv(c) \/ \E t \in Clients : RequestConnect(c, t)
             \/ Approve(c) \/ Reject(c) \/ WaitTimeout(c) \/ Establish(c) \/ Finish(c)
             \/ Abort(c) \/ Disable(c) \/ Lose(c) \/ Reconnect(c)
      PROVE  UNCHANGED party
  BY <1>4 DEF ClientRecv, RecvIncoming, RecvGrant, RecvAccepted, RecvRefused, RecvSessionEnd,
         RequestConnect, Approve, Reject, WaitTimeout, Establish, Finish, Abort, Disable, Lose,
         Reconnect, serverVars
<1> QED BY <1>2, <1>3, <1>4 DEF Next, vars

LEMMA DialsStep ==
  ASSUME Inv, Closed, Dials, [Next]_vars
  PROVE  Dials'
<1>1. Inv' /\ AnswersStay /\ Closed' /\ NewsKept
  BY StepInv, StepClosed
<1>2. ASSUME NEW c \in Clients, NEW s \in Sids, Holds(down[c], Grant(s)) \/ mgr[c].grant = s
      PROVE  party'[s].ctl = c
  <2>1. CASE Holds(down[c], Grant(s))
    <3>1. s <= issued /\ party[s].ctl = c
      BY <2>1 DEF GrantAhead, Closed, Grants
    <3> QED BY <3>1, PartiesStay
  <2>2. CASE mgr[c].grant = s
    <3>1. Inside(c, s) /\ party[s].ctl = c
      BY <2>2, Known, Numbers DEF Fits, Inside, Dials
    <3>2. s <= issued
      BY <3>1 DEF Closed, Roles
    <3> QED BY <3>1, <3>2, PartiesStay
  <2> QED BY <1>2, <2>1, <2>2
<1>3. ASSUME NEW c \in Clients, mgr'[c].grant # NoSid PROVE party'[mgr'[c].grant].ctl = c
  <2>1. mgr'[c].grant \in Sids
    BY <1>1, <1>3 DEF Inv, Sane, ManagersFit, Managers
  <2> QED BY <1>2, <1>3, <2>1, GrantKept
<1>4. ASSUME NEW s \in dialed', s \notin dialed
      PROVE  s \in Sids /\ said'[s] = "yes" /\ TargetTold(s)'
  <2>1. s \in Sids
    BY <1>4, Dialing
  <2>2. PICK c \in Clients : /\ mgr'[c].active = s /\ mgr'[c].grant = NoSid
                             /\ \/ Holds(down[c], Grant(s))
                                \/ mgr[c].grant = s
    BY <1>4, Dialing
  <2>3. HasTask(c)' /\ Inside(c, s)'
    BY <2>1, <2>2, Numbers DEF HasTask, Inside
  <2>4. party'[s].ctl = c
    BY <1>2, <2>1, <2>2
  <2>5. said'[s] = "yes"
    BY <1>1, <2>1, <2>2, <2>3 DEF Inv, Affirmed
  <2>6. YesAhead(c, s)'
    BY <2>2, <2>3 DEF YesAhead
  <2>7. TargetTold(s)'
    BY <1>1, <2>1, <2>3, <2>4, <2>6 DEF Closed, Closing, TargetTold
  <2> QED BY <2>1, <2>5, <2>7
<1>5. ASSUME NEW s \in dialed', s \in dialed
      PROVE  s \in Sids /\ said'[s] = "yes" /\ TargetTold(s)'
  BY <1>1, <1>5 DEF Dials, AnswersStay, NewsKept
<1> QED BY <1>3, <1>4, <1>5 DEF Dials

\* Once a session has left the table it is over.  No answer that is still under
\* way puts it back (mark_accepted looks for the entry).  Whoever has a task in it
\* is told.  The controller may start his when it is removed already, as the grant
\* and the acceptance still reach him: the end is then on its way behind the
\* acceptance.  The target has its task from its answer on: the one who removed
\* the session later is the other end, or has lost its connection, and its handler
\* sends the end before it does anything else; and a controller who has dialed
\* either did so before that, or the target was out of it.
THEOREM EndedStayEnded == Spec => EndedStaysEnded
<1> DEFINE Over == \A s \in Sids : s <= issued /\ ~Present(s) => table'[s] = table[s]
           News == \A c \in Clients :
                     LET s == mgr[c].active IN
                     HasTask(c) /\ table[s] = "none" /\ s \in dialed => EndComes(c, s)
<1>1. ASSUME Inv, [Next]_vars PROVE [Over]_vars
  <2>1. CASE UNCHANGED table
    BY <2>1
  <2>2. ASSUME NEW c \in Clients, Handle(c) PROVE Over
    BY <1>1, <2>2, ServerStaysOut DEF StaysOut
  <2> QED BY <1>1, <2>1, <2>2, ClientLeavesTable, OthersLeaveTable DEF Next, vars
<1>2. ASSUME Inv, Closed, Dials PROVE News
  <2> SUFFICES ASSUME NEW c \in Clients, HasTask(c), NEW s, s = mgr[c].active, table[s] = "none",
                      s \in dialed
               PROVE  EndComes(c, s)
    OBVIOUS
  <2>1. s \in Sids /\ Inside(c, s)
    BY <1>2 DEF Dials, Inside
  <2>2. CASE party[s].ctl = c
    <3>1. YesAhead(c, s)
      BY DEF YesAhead
    <3> QED BY <1>2, <2>1, <2>2, <3>1 DEF Closed, Closing
  <2>3. CASE party[s].tgt = c
    BY <1>2, <2>1, <2>3 DEF Dials, TargetTold
  <2> QED BY <1>2, <2>1, <2>2, <2>3 DEF Closed, Roles
<1>3. Init => Dials
  BY QuietFits DEF Init, Dials, Quiet
<1>4. Spec => [](Inv /\ Closed /\ Dials)
  <2>1. Inv /\ Closed /\ Dials /\ [Next]_vars => (Inv /\ Closed /\ Dials)'
    BY StepInv, StepClosed, DialsStep
  <2> QED BY <1>3, <2>1, InitInv, InitClosed, PTL DEF Spec
<1>5. Spec => [][Over]_vars
  BY <1>1, <1>4, PTL DEF Spec
<1>6. Spec => []News
  BY <1>2, <1>4, PTL
<1> QED BY <1>5, <1>6 DEF EndedStaysEnded
=============================================================================
