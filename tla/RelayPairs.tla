----------------------------- MODULE RelayPairs -----------------------------
(***************************************************************************)
(* The relay hbbr of crates/rustdesk/src/relay.rs: a connection says which *)
(* uuid it is for; the first of a uuid waits in the table pending, the     *)
(* second takes it from there and copies bytes between the two until one   *)
(* of them closes or nothing flows for a while.                            *)
(*                                                                         *)
(* Every accepted connection has a task of its own.  What a connection     *)
(* writes is numbered from 1.  A uuid is a value, a handshake is what it   *)
(* amounts to: a uuid or a refusal.  Time: a timer of waiting may expire at *)
(* any moment; that idle_timeout has passed is the flag quiet.             *)
(***************************************************************************)
EXTENDS Naturals, Sequences, FiniteSets

CONSTANTS
  Conns,     \* connections that are made
  Uuids,     \* tokens that they are for
  Items,     \* Items[c]: how many items c writes at most
  Room,      \* what the socket towards a connection holds
  none

ASSUME ConnsAssumption == IsFiniteSet(Conns) /\ none \notin Conns \cup Uuids
ASSUME BoundsAssumption == Items \in [Conns -> Nat] /\ Room \in Nat \ {0}

VARIABLES
  serving,   \* serve: runs, aborts its tasks, ended
  task,      \* task[c]: where the task of connection c is
  uuid,      \* uuid[c]: what c asked for
  pending,   \* pending[u]: the connection that waits for u
  first,     \* first[c]: whom c, that came second, was paired with
  quiet,     \* tasks whose last_activity is idle_timeout ago
  active,    \* RelayStats.active_pairs
  \* data
  wrote,     \* wrote[c]: items that c has written
  gone,      \* connections that their client has closed
  left,      \* left[c]: items that came with c's handshake
  taken,     \* taken[c]: items of c that the relay has read
  carried,   \* carried[c]: items in the buffer of task c
  toward,    \* toward[c]: items in the socket towards c
  got        \* got[c]: items that client c has read

table == <<serving, task, uuid, pending, first, quiet, active>>
data == <<wrote, gone, left, taken, carried, toward, got>>
vars == <<table, data>>

Paired == {"greets", "answers", "pumps", "carries1", "carries2"}
States == {"none", "shakes", "looks", "inserts", "sleeps", "done"} \cup Paired

TypeOK ==
  /\ serving \in {"runs", "aborts", "ended"}
  /\ task \in [Conns -> States]
  /\ uuid \in [Conns -> Uuids \cup {none}]
  /\ pending \in [Uuids -> Conns \cup {none}]
  /\ first \in [Conns -> Conns \cup {none}]
  /\ quiet \subseteq Conns /\ gone \subseteq Conns
  /\ active \in Nat
  /\ wrote \in [Conns -> Nat] /\ taken \in [Conns -> Nat] /\ left \in [Conns -> Nat]
  /\ \A c \in Conns : left[c] <= taken[c] /\ taken[c] <= wrote[c] /\ wrote[c] <= Items[c]
  /\ carried \in [Conns -> Seq(Nat)]
  /\ got \in [Conns -> Seq(Nat)] /\ toward \in [Conns -> Seq(Nat)]
  /\ \A c \in Conns : Len(toward[c]) <= Room

Init ==
  /\ serving = "runs"
  /\ task = [c \in Conns |-> "none"]
  /\ uuid = [c \in Conns |-> none]
  /\ pending = [u \in Uuids |-> none]
  /\ first = [c \in Conns |-> none]
  /\ quiet = {}
  /\ active = 0
  /\ wrote = [c \in Conns |-> 0]
  /\ gone = {}
  /\ left = [c \in Conns |-> 0]
  /\ taken = [c \in Conns |-> 0]
  /\ carried = [c \in Conns |-> <<>>]
  /\ toward = [c \in Conns |-> <<>>]
  /\ got = [c \in Conns |-> <<>>]

-----------------------------------------------------------------------------
(* A pair is known by the task of its second connection.                   *)

Couple(c) == {c, first[c]}

Numbers(m, n) == [i \in 1 .. n - m |-> m + i]

-----------------------------------------------------------------------------
(* handle_connection.                                                      *)

Accept(c) ==
  /\ serving = "runs" /\ task[c] = "none"
  /\ task' = [task EXCEPT ![c] = "shakes"]
  /\ UNCHANGED <<serving, uuid, pending, first, quiet, active, data>>

\* read_handshake returns a RequestRelay with a key that fits and a uuid, and
\* what was read after it.
Handshake(c, u) ==
  /\ task[c] = "shakes"
  /\ task' = [task EXCEPT ![c] = "looks"]
  /\ uuid' = [uuid EXCEPT ![c] = u]
  /\ \E n \in 0 .. wrote[c] :
       /\ left' = [left EXCEPT ![c] = n]
       /\ taken' = [taken EXCEPT ![c] = n]
  /\ UNCHANGED <<serving, pending, first, quiet, active, wrote, gone, carried, toward, got>>

\* Nothing in time, the end of the connection, another message, a wrong key.
Refuse(c) ==
  /\ task[c] = "shakes"
  /\ task' = [task EXCEPT ![c] = "done"]
  /\ UNCHANGED <<serving, uuid, pending, first, quiet, active, data>>

\* Seeded fault: the table keeps the one that was found.
BugLookup(c) ==
  /\ task[c] = "looks"
  /\ LET waiting == pending[uuid[c]]
     IN IF waiting = none
        THEN /\ task' = [task EXCEPT ![c] = "inserts"]
             /\ UNCHANGED <<first, active>>
        ELSE /\ first' = [first EXCEPT ![c] = waiting]
             /\ task' = [task EXCEPT ![c] = "greets"]
             /\ active' = active + 1
  /\ UNCHANGED <<serving, uuid, pending, quiet, data>>

\* The first critical section: who waits is taken, or nobody does.
Lookup(c) ==
  /\ task[c] = "looks"
  /\ LET waiting == pending[uuid[c]]
     IN IF waiting = none
        THEN /\ task' = [task EXCEPT ![c] = "inserts"]
             /\ UNCHANGED <<pending, first, active>>
        ELSE /\ pending' = [pending EXCEPT ![uuid[c]] = none]
             /\ first' = [first EXCEPT ![c] = waiting]
             /\ task' = [task EXCEPT ![c] = "greets"]
             /\ active' = active + 1
  /\ UNCHANGED <<serving, uuid, quiet, data>>

\* The second one.  What the table had under this uuid is dropped.
Insert(c) ==
  /\ task[c] = "inserts"
  /\ pending' = [pending EXCEPT ![uuid[c]] = c]
  /\ task' = [task EXCEPT ![c] = "sleeps"]
  /\ UNCHANGED <<serving, uuid, first, quiet, active, data>>

\* Seeded fault: the timer only ends its task.
BugExpire(c) ==
  /\ task[c] = "sleeps"
  /\ task' = [task EXCEPT ![c] = "done"]
  /\ UNCHANGED <<serving, uuid, pending, first, quiet, active, data>>

\* pair_window has passed since: whoever the table has under the uuid is
\* dropped, and nobody when the connection was claimed and no other waits.
Expire(c) ==
  /\ task[c] = "sleeps"
  /\ pending' = [pending EXCEPT ![uuid[c]] = none]
  /\ task' = [task EXCEPT ![c] = "done"]
  /\ UNCHANGED <<serving, uuid, first, quiet, active, data>>

-----------------------------------------------------------------------------
(* pair and pump, in the task of the one that came second.                 *)

\* Both sockets and the guard of active_pairs are dropped.
End(c) ==
  /\ task' = [task EXCEPT ![c] = "done"]
  /\ active' = active - 1
  /\ quiet' = quiet \ {c}
  /\ carried' = [carried EXCEPT ![c] = <<>>]

\* Seeded fault: what came with the first handshake is not forwarded.
BugGreet(c) ==
  /\ task[c] = "greets"
  /\ task' = [task EXCEPT ![c] = "answers"]
  /\ left' = [left EXCEPT ![first[c]] = 0]
  /\ UNCHANGED <<serving, uuid, pending, first, quiet, active, wrote, gone, taken, carried, toward, got>>

\* The left-over of the first becomes what is to be written to the second.
Greet(c) ==
  /\ task[c] = "greets" /\ carried[c] = <<>>
  /\ IF left[first[c]] > 0
     THEN /\ carried' = [carried EXCEPT ![c] = Numbers(0, left[first[c]])]
          /\ left' = [left EXCEPT ![first[c]] = 0]
          /\ UNCHANGED task
     ELSE /\ task' = [task EXCEPT ![c] = "answers"]
          /\ UNCHANGED <<carried, left>>
  /\ UNCHANGED <<serving, uuid, pending, first, quiet, active, wrote, gone, taken, toward, got>>

\* The left-over of the second becomes what is to be written to the first.
Answer(c) ==
  /\ task[c] = "answers" /\ carried[c] = <<>>
  /\ IF left[c] > 0
     THEN /\ carried' = [carried EXCEPT ![c] = Numbers(0, left[c])]
          /\ left' = [left EXCEPT ![c] = 0]
          /\ UNCHANGED task
     ELSE /\ task' = [task EXCEPT ![c] = "pumps"]
          /\ UNCHANGED <<carried, left>>
  /\ UNCHANGED <<serving, uuid, pending, first, quiet, active, wrote, gone, taken, toward, got>>

\* To whom task c writes while it is in a write_all.
Target(c) == IF task[c] \in {"greets", "carries1"} THEN c ELSE first[c]

Writes(c) == task[c] \in Paired \ {"pumps"} /\ carried[c] # <<>>

\* select: one of the two sockets has something.
Take(c, side) ==
  LET from == IF side = "carries1" THEN first[c] ELSE c
  IN /\ task[c] = "pumps"
     /\ \E n \in taken[from] + 1 .. wrote[from] :
          /\ carried' = [carried EXCEPT ![c] = Numbers(taken[from], n)]
          /\ taken' = [taken EXCEPT ![from] = n]
     /\ task' = [task EXCEPT ![c] = side]
     /\ UNCHANGED <<serving, uuid, pending, first, quiet, active, wrote, gone, left, toward, got>>

\* Seeded fault: the socket is written to whether or not it has room.
BugPut(c) ==
  /\ Writes(c)
  /\ LET d == Target(c)
         done == Len(carried[c]) = 1 /\ task[c] \in {"carries1", "carries2"}
     IN /\ toward' = [toward EXCEPT ![d] = Append(@, Head(carried[c]))]
        /\ carried' = [carried EXCEPT ![c] = Tail(@)]
        /\ IF done
           THEN /\ task' = [task EXCEPT ![c] = "pumps"]
                /\ quiet' = quiet \ {c}
           ELSE UNCHANGED <<task, quiet>>
  /\ UNCHANGED <<serving, uuid, pending, first, active, wrote, gone, left, taken, got>>

\* write_all: the next item goes into the socket, as soon as it has room.
\* After the last one there was activity, and select goes on.
Put(c) ==
  /\ Writes(c)
  /\ LET d == Target(c)
         done == Len(carried[c]) = 1 /\ task[c] \in {"carries1", "carries2"}
     IN /\ Len(toward[d]) < Room
        /\ toward' = [toward EXCEPT ![d] = Append(@, Head(carried[c]))]
        /\ carried' = [carried EXCEPT ![c] = Tail(@)]
        /\ IF done
           THEN /\ task' = [task EXCEPT ![c] = "pumps"]
                /\ quiet' = quiet \ {c}
           ELSE UNCHANGED <<task, quiet>>
  /\ UNCHANGED <<serving, uuid, pending, first, active, wrote, gone, left, taken, got>>

\* A write to a connection that its client has closed fails.
PutFails(c) ==
  /\ Writes(c) /\ Target(c) \in gone
  /\ End(c)
  /\ UNCHANGED <<serving, uuid, pending, first, wrote, gone, left, taken, toward, got>>

\* select: a read of one that has closed ends or fails.
Eof(c) ==
  /\ task[c] = "pumps" /\ Couple(c) \cap gone # {}
  /\ End(c)
  /\ UNCHANGED <<serving, uuid, pending, first, wrote, gone, left, taken, toward, got>>

\* idle_timeout has passed since the last activity.
FallQuiet(c) ==
  /\ task[c] \in {"pumps", "carries1", "carries2"} /\ c \notin quiet
  /\ quiet' = quiet \cup {c}
  /\ UNCHANGED <<serving, task, uuid, pending, first, active, data>>

\* Seeded fault: idleness counts from the first bytes on.
BugIdleTick(c) ==
  /\ task[c] = "pumps" /\ c \in quiet
  /\ taken[c] + taken[first[c]] > 0
  /\ End(c)
  /\ UNCHANGED <<serving, uuid, pending, first, wrote, gone, left, taken, toward, got>>

\* select: the ticker; it is not polled while an arm writes.
IdleTick(c) ==
  /\ task[c] = "pumps" /\ c \in quiet
  /\ End(c)
  /\ UNCHANGED <<serving, uuid, pending, first, wrote, gone, left, taken, toward, got>>

-----------------------------------------------------------------------------
(* serve is told to stop, or accept fails: its tasks are aborted where     *)
(* they wait, then the server goes, with what its table still holds.       *)

Stop ==
  /\ serving = "runs"
  /\ serving' = "aborts"
  /\ UNCHANGED <<task, uuid, pending, first, quiet, active, data>>

Abort(c) ==
  /\ serving = "aborts" /\ task[c] \notin {"none", "done"}
  /\ IF task[c] \in Paired
     THEN End(c)
     ELSE /\ task' = [task EXCEPT ![c] = "done"]
          /\ UNCHANGED <<active, quiet, carried>>
  /\ UNCHANGED <<serving, uuid, pending, first, wrote, gone, left, taken, toward, got>>

Ended ==
  /\ serving = "aborts" /\ \A c \in Conns : task[c] \in {"none", "done"}
  /\ serving' = "ended"
  /\ pending' = [u \in Uuids |-> none]
  /\ UNCHANGED <<task, uuid, first, quiet, active, data>>

-----------------------------------------------------------------------------
(* The clients.                                                            *)

Write(c) ==
  /\ task[c] # "none" /\ c \notin gone /\ wrote[c] < Items[c]
  /\ wrote' = [wrote EXCEPT ![c] = @ + 1]
  /\ UNCHANGED <<table, gone, left, taken, carried, toward, got>>

Read(c) ==
  /\ c \notin gone /\ toward[c] # <<>>
  /\ got' = [got EXCEPT ![c] = Append(@, Head(toward[c]))]
  /\ toward' = [toward EXCEPT ![c] = Tail(@)]
  /\ UNCHANGED <<table, wrote, gone, left, taken, carried>>

Leave(c) ==
  /\ task[c] # "none" /\ c \notin gone
  /\ gone' = gone \cup {c}
  /\ UNCHANGED <<table, wrote, left, taken, carried, toward, got>>

-----------------------------------------------------------------------------
TaskStep(c) ==
  \/ Lookup(c) \/ Insert(c) \/ Greet(c) \/ Answer(c) \/ Put(c) \/ PutFails(c)
  \/ Take(c, "carries1") \/ Take(c, "carries2") \/ Eof(c) \/ IdleTick(c)

Next ==
  \/ \E c \in Conns :
       \/ Accept(c) \/ \E u \in Uuids : Handshake(c, u)
       \/ Refuse(c) \/ Expire(c) \/ FallQuiet(c) \/ Abort(c)
       \/ TaskStep(c)
       \/ Write(c) \/ Read(c) \/ Leave(c)
  \/ Stop \/ Ended

\* Tasks run, timers expire, an abort takes effect.  Clients need not do
\* anything, nor is the relay ever told to stop.
Fairness ==
  /\ \A c \in Conns : /\ WF_vars(TaskStep(c)) /\ WF_vars(Expire(c))
                      /\ WF_vars(Refuse(c)) /\ WF_vars(FallQuiet(c))
                      /\ WF_vars(Abort(c))
  /\ WF_vars(Ended)

Spec == Init /\ [][Next]_vars /\ Fairness

-----------------------------------------------------------------------------
(* Properties.                                                             *)

\* A socket is in one place: with the task that reads its handshake, in the
\* table, or with one pair of connections that asked for the same uuid
\* (handle_connection takes the waiting one out of the table); and active_pairs
\* counts the pairs there are, however they end (ActivePairGuard).
PairsAreExact ==
  /\ \A c, d \in Conns :
       task[d] \in Paired /\ c \in Couple(d) =>
         /\ uuid[c] = uuid[d] /\ first[d] # d
         /\ \A u \in Uuids : pending[u] # c
         /\ \A e \in Conns \ {d} : task[e] \in Paired => c \notin Couple(e)
  /\ active = Cardinality({c \in Conns : task[c] \in Paired})

\* What reaches a client is what the one it was paired with wrote, from the
\* first byte after the handshake on, in order and without gaps; nothing of
\* what a living pair has read is lost (the left-overs in pair, pump).
Relayed ==
  \A c \in Conns : task[c] \in Paired =>
    \A d \in Couple(c) :
      LET from == CHOOSE e \in Couple(c) : e # d
          now == IF Writes(c) /\ Target(c) = d THEN carried[c] ELSE <<>>
      IN got[d] \o toward[d] \o now = Numbers(0, taken[from] - left[from])

\* Nobody stays with the relay for nothing: a connection that waits is claimed,
\* or the timer of the pair window drops it, whichever of the two wins; a pair
\* over which nothing flows is closed (the ticker of pump), as long as both
\* clients take what is written to them.  Connections and what they write are
\* bounded, so what is due is done in the end for all of them.
NobodyStays ==
  /\ []<>(\A u \in Uuids : pending[u] = none)
  /\ []<>(\A c \in Conns : Len(toward[c]) < Room) => []<>(quiet = {})
=============================================================================
