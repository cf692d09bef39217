-------------------------- MODULE ProxyRulesProofs --------------------------
(***************************************************************************)
(* The safety properties of ProxyRules for any ports, contents and numbers *)
(* of requests: what a listener serves, and what the rows say.  Each is    *)
(* made inductive by what the tasks have read: a copy of the rules that    *)
(* was taken under the lock of a port is current unless somebody else is   *)
(* still going to reconcile the port, and a rule that only one task writes *)
(* is where the task's program counter says it is.                         *)
(***************************************************************************)
EXTENDS ProxyRules, TLAPS

\* A task's fields fit its program counter.
Shape(t) ==
  /\ t.pc = "idle" => t = Idle
  /\ t.held # NoPort => t.pc \in {"must", "rest"} /\ t.held \in t.left
  /\ t.held # NoPort /\ t.pc = "must" => t.held = t.new.port
  /\ t.op = "update" => t.old # Absent
  /\ t.op = "create" => t.old = Absent
  /\ t.pc = "rest" => t.left # {}
  /\ t.pc \in {"save", "insert"} =>
       t.left = {} /\ t.new # Absent /\ t.op \in {"create", "update", "gateway"}
  /\ t.pc = "must" =>
       /\ t.new # Absent /\ t.op \in {"create", "update"} /\ t.new.port \in t.left
       /\ t.left \subseteq {t.new.port} \cup (IF t.op = "update" THEN {t.old.port} ELSE {})

TasksFit == \A h \in Handlers : Shape(task[h])

\* No request is handled before the start has reconciled every port.
BootIsAlone ==
  (\E p \in Ports : booting[p] # "no") => \A h \in Handlers : task[h] = Idle

\* A lock has one holder, and its copy of the rules is current unless the port
\* is missed or another task will reconcile it.
LocksExclude ==
  \A g, h \in Handlers : task[g].held = task[h].held /\ task[g].held # NoPort => g = h

SnapsAreCurrent ==
  \A h \in Handlers : \A p \in Ports \ missed :
    task[h].held = p /\ (\A g \in Handlers \ {h} : p \notin task[g].left)
      => task[h].snap = Wanted(p)

Served == BootIsAlone /\ LocksExclude /\ SnapsAreCurrent /\ ServedAsRulesSay

\* A rule that is not contested has one writer.
Writes(h, i) == task[h].id = i /\ task[h].pc \notin {"idle", "rest"}
Refreshes(i) == refresh.id = i /\ refresh.row # Absent

WritersAreAlone ==
  \A i \in Ids \ contested : \A g, h \in Handlers :
    Writes(g, i) => ~Refreshes(i) /\ (Writes(h, i) => g = h)

\* How far the only writer of a rule has come.
WritersAreOnTheirWay ==
  /\ \A i \in Ids \ contested : \A h \in Handlers : Writes(h, i) =>
       /\ task[h].pc \in {"save", "must", "undo"} => db[i] = rules[i]
       /\ task[h].pc = "insert" => db[i] = task[h].new
       /\ task[h].pc = "redo" => rules[i] = task[h].old
       /\ task[h].pc = "erase" => rules[i] = Absent
  /\ \A i \in Ids \ contested : Refreshes(i) => refresh.row = rules[i] /\ db[i] = rules[i]

Rows == WritersAreAlone /\ WritersAreOnTheirWay /\ StoredAsRulesSay

-----------------------------------------------------------------------------
(* Contents, tables and reconciliation.                                    *)

\* Switching a rule off changes nothing else of it.
LEMMA StoredFields ==
  ASSUME NEW c \in Stored
  PROVE  /\ c \in Content /\ c # Absent
         /\ c.port \in Ports
         /\ Off(c) \in Stored /\ Off(c).port = c.port /\ ~Off(c).on
<1>1. \A d \in Content : Off(d) \in Content /\ Off(Off(d)) = Off(d) /\ Off(d).port = d.port /\ ~Off(d).on
  BY DEF Content, Off
<1>2. c \in Content /\ c # Absent
  BY <1>1, ContentsAssumption DEF Stored
<1>3. Off(c) \in Stored
  <2>1. CASE c \in Contents
    BY <2>1 DEF Stored
  <2>2. CASE \E d \in Contents : c = Off(d)
    BY <1>1, <2>2, ContentsAssumption DEF Stored
  <2> QED BY <2>1, <2>2 DEF Stored
<1> QED BY <1>1, <1>2, <1>3 DEF Content

LEMMA EmptyTable == Empty \in Tables
<1>1. Empty \in [{} -> Stored]
  BY DEF Empty
<1> QED BY <1>1 DEF Tables

\* The copy of a port's rules is a table.
LEMMA WantedIsTable ==
  ASSUME rules \in [Ids -> Stored \cup {Absent}], NEW p
  PROVE  Wanted(p) \in Tables
<1> DEFINE S == {j \in Ids : OnPort(rules[j], p) /\ rules[j].on}
<1>1. \A i \in S : rules[i] \in Stored
  BY DEF OnPort
<1>2. [i \in S |-> rules[i]] \in [S -> Stored]
  BY <1>1
<1> QED BY <1>2 DEF Wanted, Tables

\* A reconciliation leaves a table, without an error the one it was given; its
\* only error that is a fault is a failed bind.
LEMMA ResultsAreTables ==
  ASSUME listeners \in [Ports -> Tables], NEW p \in Ports, NEW snap \in Tables,
         NEW r \in Results(p, snap)
  PROVE  r.table \in Tables /\ (r.err = "none" => r.table = snap)
<1>1. CASE snap = Empty
  BY <1>1, EmptyTable DEF Results
<1>2. CASE snap # Empty /\ Conflicts(snap) # {}
  <2>1. \E e \in Conflicts(snap) : r = [err |-> e, table |-> listeners[p]]
    BY <1>2 DEF Results
  <2>2. \A e \in Conflicts(snap) : e # "none"
    BY DEF Conflicts
  <2> QED BY <2>1, <2>2
<1>3. CASE snap # Empty /\ Conflicts(snap) = {}
  <2>1. \/ r = [err |-> "none", table |-> snap]
        \/ r = [err |-> "certs", table |-> Empty]
        \/ r = [err |-> "bind", table |-> Empty]
    BY <1>3 DEF Results
  <2> QED BY <2>1, EmptyTable
<1> QED BY <1>1, <1>2, <1>3

\* A change of a rule keeps the types, and what a port has to serve unless the
\* port is followed or missed.
LEMMA SetRuleChanges ==
  ASSUME rules \in [Ids -> Stored \cup {Absent}], missed \subseteq Ports,
         NEW i \in Ids, NEW c \in Stored \cup {Absent}, NEW F, SetRule(i, c, F)
  PROVE  /\ rules' = [rules EXCEPT ![i] = c]
         /\ rules' \in [Ids -> Stored \cup {Absent}]
         /\ missed' \subseteq Ports /\ missed \subseteq missed'
         /\ \A p \in Ports \ missed' : p \in F \/ Wanted(p)' = Wanted(p)
<1>1. rules' = [rules EXCEPT ![i] = c] /\ rules' \in [Ids -> Stored \cup {Absent}]
  BY DEF SetRule
<1>2. missed' \subseteq Ports /\ missed \subseteq missed'
  BY DEF SetRule, ServedOn
<1>3. ASSUME NEW p \in Ports \ missed', p \notin F
      PROVE  Wanted(p)' = Wanted(p)
  <2>1. CASE rules[i] = c
    BY <1>1, <2>1 DEF Wanted, OnPort
  <2>2. CASE rules[i] # c
    <3>1. p \notin ServedOn(rules[i]) /\ p \notin ServedOn(c)
      BY <1>3, <2>2 DEF SetRule
    <3>2. \A j \in Ids : (OnPort(rules'[j], p) /\ rules'[j].on) = (OnPort(rules[j], p) /\ rules[j].on)
      BY <1>1, <3>1 DEF ServedOn, OnPort
    <3>3. \A j \in Ids : OnPort(rules[j], p) /\ rules[j].on => rules'[j] = rules[j]
      BY <1>1, <3>1 DEF ServedOn
    <3> QED BY <3>2, <3>3 DEF Wanted
  <2> QED BY <2>1, <2>2
<1> QED BY <1>1, <1>2, <1>3

-----------------------------------------------------------------------------
(* Types.                                                                  *)

Typed == TypeOK /\ TasksFit

LEMMA Consts == MaxRules \in Nat /\ MaxAsked \in Nat /\ MaxFaults \in Nat /\ Gateway \in Ids
  BY BoundsAssumption DEF Ids, Gateway

LEMMA IdleFits == Idle \in Tasks /\ Shape(Idle)
  BY EmptyTable, Consts DEF Idle, Tasks, Shape

\* What is left of a request once its rule is written.
LEMMA RestFits ==
  ASSUME NEW t \in Tasks, t.held = NoPort, t.op = "update" => t.old # Absent,
         t.op = "create" => t.old = Absent
  PROVE  /\ Rest(t) \in Tasks /\ Shape(Rest(t))
         /\ Rest(t).left = t.left /\ Rest(t).held = NoPort /\ Rest(t).pc \in {"idle", "rest"}
<1>1. CASE t.left = {}
  BY <1>1, IdleFits DEF Rest, Idle
<1>2. CASE t.left # {}
  <2>1. Rest(t) = [t EXCEPT !.pc = "rest"]
    BY <1>2 DEF Rest
  <2>2. Rest(t) \in Tasks /\ Rest(t).pc = "rest" /\ Rest(t).left = t.left /\ Rest(t).held = t.held
        /\ Rest(t).op = t.op /\ Rest(t).old = t.old
    BY <2>1 DEF Tasks
  <2> QED BY <1>2, <2>2 DEF Shape
<1> QED BY <1>1, <1>2

\* One task changes.
LEMMA TaskChanges ==
  ASSUME Typed, NEW h \in Handlers, NEW t \in Tasks, Shape(t), task' = [task EXCEPT ![h] = t]
  PROVE  /\ task' \in [Handlers -> Tasks] /\ TasksFit'
         /\ task'[h] = t /\ \A g \in Handlers \ {h} : task'[g] = task[g]
         /\ \A g \in Handlers : /\ task'[g].held \in task'[g].left \cup {NoPort}
                                /\ task'[g].pc = "rest" => task'[g].left # {}
<1>1. task' \in [Handlers -> Tasks] /\ task'[h] = t /\ \A g \in Handlers \ {h} : task'[g] = task[g]
  BY DEF Typed, TypeOK
<1>2. \A g \in Handlers : Shape(task'[g])
  BY <1>1 DEF Typed, TasksFit
<1> QED BY <1>1, <1>2 DEF TasksFit, Shape

LEMMA FaultTyped ==
  ASSUME faults \in 0..MaxFaults, NEW f \in BOOLEAN, Fault(f)
  PROVE  faults' \in 0..MaxFaults
  BY Consts DEF Fault, CanFail

\* A request begins with a task that fits.
LEMMA BeginTyped ==
  ASSUME Typed, NEW h \in Handlers, NEW t \in Tasks, Shape(t), Begin(h, t)
  PROVE  /\ task' = [task EXCEPT ![h] = t] /\ task' \in [Handlers -> Tasks] /\ TasksFit'
         /\ \A g \in Handlers : /\ task'[g].held \in task'[g].left \cup {NoPort}
                                /\ task'[g].pc = "rest" => task'[g].left # {}
         /\ asked' \in 0..MaxAsked /\ certs' \in BOOLEAN
<1>1. task' = [task EXCEPT ![h] = t] /\ certs' \in BOOLEAN /\ asked' \in 0..MaxAsked
  BY Consts DEF Begin, Typed, TypeOK
<1> QED BY <1>1, TaskChanges

LEMMA ContestTyped ==
  ASSUME Typed, NEW I \in SUBSET Ids, Contest(I)
  PROVE  contested' \subseteq Ids
  BY DEF Contest, Typed, TypeOK

\* One lemma for each action.
LEMMA CreateTyped ==
  ASSUME Typed, NEW h \in Handlers, NEW c \in Contents, Create(h, c)
  PROVE  Typed'
<1> DEFINE t == [Idle EXCEPT !.pc = "save", !.op = "create", !.id = made', !.new = c]
<1>1. made' \in Ids /\ made' \in 0..MaxRules /\ c \in Stored /\ c # Absent
  BY Consts, ContentsAssumption DEF Create, Typed, TypeOK, Ids, Gateway, Stored
<1>2. t \in Tasks /\ Shape(t)
  BY <1>1, EmptyTable DEF Idle, Tasks, Shape
<1>3. Begin(h, t)
  BY DEF Create
<1>4. contested' \subseteq Ids
  BY <1>1, ContestTyped DEF Create
<1> QED BY <1>1, <1>2, <1>3, <1>4, BeginTyped DEF Create, Typed, TypeOK

LEMMA UpdateTyped ==
  ASSUME Typed, NEW h \in Handlers, NEW i \in Ids, NEW c \in Contents, Update(h, i, c)
  PROVE  Typed'
<1> DEFINE t == [Idle EXCEPT !.pc = "save", !.op = "update", !.id = i, !.old = rules[i], !.new = c]
<1>1. c \in Stored /\ c # Absent /\ rules[i] \in Stored /\ rules[i] # Absent
  BY ContentsAssumption DEF Update, Typed, TypeOK, Stored
<1>2. t \in Tasks /\ Shape(t)
  BY <1>1, EmptyTable DEF Idle, Tasks, Shape
<1>3. Begin(h, t)
  BY DEF Update
<1>4. contested' \subseteq Ids
  BY ContestTyped DEF Update
<1> QED BY <1>2, <1>3, <1>4, BeginTyped DEF Update, Typed, TypeOK

LEMMA DeleteTyped ==
  ASSUME Typed, NEW h \in Handlers, NEW i \in Ids, Delete(h, i)
  PROVE  Typed'
<1> DEFINE ports == {p \in Ports : OnPort(rules[i], p)}
           t == [Idle EXCEPT !.pc = "erase", !.op = "delete", !.id = i, !.old = rules[i], !.left = ports]
<1>1. rules[i] \in Stored
  BY DEF Delete, Typed, TypeOK
<1>2. t \in Tasks /\ Shape(t)
  BY <1>1, EmptyTable DEF Idle, Tasks, Shape
<1>3. Begin(h, t) /\ SetRule(i, Absent, ports)
  BY DEF Delete
<1>4. rules' \in [Ids -> Stored \cup {Absent}] /\ missed' \subseteq Ports
  BY <1>3, SetRuleChanges DEF Typed, TypeOK
<1>5. contested' \subseteq Ids
  BY DEF Delete, Typed, TypeOK
<1> QED BY <1>2, <1>3, <1>4, <1>5, BeginTyped DEF Delete, Typed, TypeOK

LEMMA PutGatewayTyped ==
  ASSUME Typed, NEW h \in Handlers, NEW c \in Contents, PutGateway(h, c)
  PROVE  Typed'
<1> DEFINE t == [Idle EXCEPT !.pc = "save", !.op = "gateway", !.id = Gateway, !.new = c]
<1>1. c \in Stored /\ c # Absent
  BY ContentsAssumption DEF Stored
<1>2. t \in Tasks /\ Shape(t)
  BY <1>1, Consts, EmptyTable DEF Idle, Tasks, Shape
<1>3. Begin(h, t)
  BY DEF PutGateway
<1>4. contested' \subseteq Ids
  BY Consts, ContestTyped DEF PutGateway
<1> QED BY <1>2, <1>3, <1>4, BeginTyped DEF PutGateway, Typed, TypeOK

LEMMA SaveTyped ==
  ASSUME Typed, NEW h \in Handlers, Save(h)
  PROVE  Typed'
<1>1. PICK failed \in BOOLEAN :
        /\ Fault(failed)
        /\ IF failed THEN task' = [task EXCEPT ![h] = Idle] /\ UNCHANGED db
           ELSE task' = [task EXCEPT ![h].pc = "insert"] /\ SetRow(task[h].id, task[h].new)
        /\ contested' \subseteq contested
  BY DEF Save
<1>2. faults' \in 0..MaxFaults
  BY <1>1, FaultTyped DEF Typed, TypeOK
<1>3. CASE failed
  BY <1>1, <1>2, <1>3, IdleFits, TaskChanges DEF Save, setup, Typed, TypeOK
<1>4. CASE ~failed
  <2> DEFINE t == [task[h] EXCEPT !.pc = "insert"]
  <2>1. task[h] \in Tasks /\ Shape(task[h]) /\ task[h].pc = "save"
    BY DEF Save, Typed, TypeOK, TasksFit
  <2>2. t \in Tasks /\ Shape(t)
    BY <2>1 DEF Tasks, Shape
  <2>3. task' = [task EXCEPT ![h] = t]
    BY <1>1, <1>4
  <2>4. db' \in [Ids -> Stored \cup {Absent}]
    BY <1>1, <1>4, <2>1 DEF SetRow, Typed, TypeOK, Tasks
  <2> QED BY <1>1, <1>2, <2>2, <2>3, <2>4, TaskChanges DEF Save, setup, Typed, TypeOK
<1> QED BY <1>3, <1>4

\* A request that may be taken back follows its own port, and only an update
\* follows another.
LEMMA FollowedTyped ==
  ASSUME NEW t \in Tasks, Shape(t), t.pc = "insert"
  PROVE  /\ Followed(t) \subseteq Ports
         /\ t.op # "gateway" /\ t.new.kind = "http" =>
              /\ t.new.port \in Followed(t) /\ t.op \in {"create", "update"}
              /\ Followed(t) \subseteq {t.new.port} \cup (IF t.op = "update" THEN {t.old.port} ELSE {})
<1>1. t.new \in Stored /\ t.new # Absent /\ t.op \in {"create", "update", "gateway"}
  BY DEF Tasks, Shape
<1>2. t.new.port \in Ports
  BY <1>1, StoredFields
<1>3. t.old # Absent => t.old \in Stored /\ t.old.port \in Ports
  BY StoredFields DEF Tasks
<1>4. t.op = "create" => t.old = Absent
  BY DEF Shape
<1>5. Followed(t) \subseteq Ports
  BY <1>2, <1>3 DEF Followed
<1>6. ASSUME t.op # "gateway", t.new.kind = "http"
      PROVE  /\ t.new.port \in Followed(t) /\ t.op \in {"create", "update"}
             /\ Followed(t) \subseteq {t.new.port} \cup (IF t.op = "update" THEN {t.old.port} ELSE {})
  <2>1. CASE t.op = "create"
    BY <1>1, <1>4, <1>6, <2>1 DEF Followed
  <2>2. CASE t.op = "update"
    BY <1>1, <1>6, <2>2 DEF Followed
  <2> QED BY <1>1, <1>6, <2>1, <2>2
<1> QED BY <1>5, <1>6

\* The task of a request between two of its steps.
LEMMA TaskFits ==
  ASSUME Typed, NEW h \in Handlers
  PROVE  /\ task[h] \in Tasks /\ Shape(task[h])
         /\ task[h].id \in Ids /\ task[h].old \in Stored \cup {Absent}
         /\ task[h].new \in Stored \cup {Absent}
         /\ task[h].left \subseteq Ports /\ task[h].snap \in Tables
  BY DEF Typed, TypeOK, TasksFit, Tasks

\* The task that an insertion leaves.
LEMMA InsertedFits ==
  ASSUME Typed, NEW h \in Handlers, task[h].pc = "insert",
         NEW t, t = [task[h] EXCEPT !.left = Followed(task[h])]
  PROVE  /\ t \in Tasks /\ t.id = task[h].id /\ t.new = task[h].new
         /\ t.left = Followed(task[h]) /\ t.held = NoPort /\ Shape(Rest(t)) /\ Rest(t) \in Tasks
         /\ Rest(t).left = t.left /\ Rest(t).held = NoPort /\ Rest(t).pc \in {"idle", "rest"}
         /\ t.op # "gateway" /\ t.new.kind = "http" =>
              [t EXCEPT !.pc = "must"] \in Tasks /\ Shape([t EXCEPT !.pc = "must"])
<1>1. task[h] \in Tasks /\ Shape(task[h]) /\ Followed(task[h]) \subseteq Ports
  BY TaskFits, FollowedTyped
<1>2. /\ t \in Tasks /\ t.id = task[h].id /\ t.new = task[h].new /\ t.op = task[h].op
      /\ t.old = task[h].old /\ t.left = Followed(task[h]) /\ t.held = task[h].held
  BY <1>1 DEF Tasks
<1>3. t.held = NoPort /\ (t.op = "update" => t.old # Absent) /\ (t.op = "create" => t.old = Absent)
  BY <1>1, <1>2 DEF Shape
<1>4. ASSUME t.op # "gateway", t.new.kind = "http"
      PROVE  [t EXCEPT !.pc = "must"] \in Tasks /\ Shape([t EXCEPT !.pc = "must"])
  <2> DEFINE u == [t EXCEPT !.pc = "must"]
  <2>1. /\ u \in Tasks /\ u.pc = "must" /\ u.op = t.op /\ u.old = t.old /\ u.new = t.new
        /\ u.left = t.left /\ u.held = NoPort
    BY <1>2, <1>3 DEF Tasks
  <2>2. /\ t.op \in {"create", "update"}
        /\ t.left \subseteq {t.new.port} \cup (IF t.op = "update" THEN {t.old.port} ELSE {})
        /\ t.new.port \in t.left
    BY <1>1, <1>2, <1>4, FollowedTyped
  <2>3. u.new # Absent
    BY <1>1, <1>2, <2>1 DEF Shape
  <2> HIDE DEF u
  <2>4. Shape(u)
    BY <1>3, <2>1, <2>2, <2>3 DEF Shape
  <2> QED BY <2>1, <2>4 DEF u
<1> QED BY <1>2, <1>3, <1>4, RestFits

LEMMA InsertTyped ==
  ASSUME Typed, NEW h \in Handlers, Insert(h)
  PROVE  Typed'
<1> DEFINE t == [task[h] EXCEPT !.left = Followed(task[h])]
           u == IF t.op # "gateway" /\ t.new.kind = "http" THEN [t EXCEPT !.pc = "must"] ELSE Rest(t)
<1>1. task[h].pc = "insert" /\ SetRule(t.id, t.new, t.left) /\ task' = [task EXCEPT ![h] = u]
  BY DEF Insert
<1>2. u \in Tasks /\ Shape(u) /\ t.id \in Ids /\ t.new \in Stored \cup {Absent}
  BY <1>1, InsertedFits, TaskFits
<1>3. rules' \in [Ids -> Stored \cup {Absent}] /\ missed' \subseteq Ports
  <2> HIDE DEF t
  <2> QED BY <1>1, <1>2, SetRuleChanges DEF Typed, TypeOK
<1>4. /\ task' \in [Handlers -> Tasks] /\ TasksFit'
      /\ \A g \in Handlers : /\ task'[g].held \in task'[g].left \cup {NoPort}
                             /\ task'[g].pc = "rest" => task'[g].left # {}
  <2> HIDE DEF u
  <2> QED BY <1>1, <1>2, TaskChanges
<1> QED BY <1>3, <1>4 DEF Insert, setup, Typed, TypeOK

LEMMA SnapshotTyped ==
  ASSUME Typed, NEW h \in Handlers, Snapshot(h)
  PROVE  Typed'
<1>1. PICK p \in PortsOf(task[h]) :
        /\ task' = [task EXCEPT ![h].held = p, ![h].snap = Wanted(p)]
        /\ missed' = missed \ {p}
  BY DEF Snapshot
<1> DEFINE t == [task[h] EXCEPT !.held = p, !.snap = Wanted(p)]
<1>2. task[h] \in Tasks /\ Shape(task[h]) /\ task[h].pc \in {"must", "rest"}
  BY TaskFits DEF Snapshot
<1>3. p \in task[h].left /\ p \in Ports
  BY <1>2, TaskFits DEF PortsOf, Shape
<1>4. t \in Tasks /\ t.held = p /\ t.left = task[h].left /\ t.pc = task[h].pc /\ t.op = task[h].op
      /\ t.old = task[h].old /\ t.new = task[h].new
  BY <1>2, <1>3, WantedIsTable DEF Tasks, Typed, TypeOK
<1>5. t.pc = "must" => p = t.new.port
  BY <1>4 DEF PortsOf
<1>6. task' = [task EXCEPT ![h] = t]
  BY <1>1
<1> HIDE DEF t
<1>7. Shape(t)
  BY <1>2, <1>3, <1>4, <1>5 DEF Shape
<1> QED BY <1>1, <1>4, <1>6, <1>7, TaskChanges DEF Snapshot, setup, Typed, TypeOK

LEMMA UndoTyped ==
  ASSUME Typed, NEW h \in Handlers, Undo(h)
  PROVE  Typed'
<1> DEFINE t == [task[h] EXCEPT !.pc = "redo"]
<1>1. task[h].pc = "undo" /\ SetRule(task[h].id, task[h].old, task[h].left) /\ task' = [task EXCEPT ![h] = t]
  BY DEF Undo
<1>2. t \in Tasks /\ Shape(t)
  BY <1>1, TaskFits DEF Tasks, Shape
<1>3. rules' \in [Ids -> Stored \cup {Absent}] /\ missed' \subseteq Ports
  BY <1>1, TaskFits, SetRuleChanges DEF Typed, TypeOK
<1> HIDE DEF t
<1> QED BY <1>1, <1>2, <1>3, TaskChanges DEF Undo, setup, Typed, TypeOK

\* The task that a reconciliation leaves, and the task of a request that an
\* error of the rule's own port takes back.
Reconciled(t) == [t EXCEPT !.held = NoPort, !.snap = Empty, !.left = @ \ {t.held}]
TakenBack(t) ==
  [Reconciled(t) EXCEPT !.pc = "undo",
     !.left = IF Reconciled(t).op = "update"
              THEN {Reconciled(t).old.port, Reconciled(t).new.port} ELSE {}]

\* Only the port that was reconciled is left out.
LEMMA ReconciledFits ==
  ASSUME NEW t \in Tasks, Shape(t), t.held # NoPort
  PROVE  /\ Reconciled(t).pc = t.pc /\ t.pc \in {"must", "rest"} /\ t.held \in t.left
         /\ Rest(Reconciled(t)) \in Tasks /\ Shape(Rest(Reconciled(t)))
         /\ Rest(Reconciled(t)).held = NoPort /\ Rest(Reconciled(t)).pc \in {"idle", "rest"}
         /\ Rest(Reconciled(t)).left = t.left \ {t.held}
<1> DEFINE r == Reconciled(t)
<1>1. /\ r \in Tasks /\ r.pc = t.pc /\ r.op = t.op /\ r.id = t.id /\ r.old = t.old /\ r.new = t.new
      /\ r.held = NoPort /\ r.left = t.left \ {t.held}
  BY EmptyTable DEF Tasks, Reconciled
<1>2. /\ r.op = "update" => r.old # Absent
      /\ r.op = "create" => r.old = Absent
  BY <1>1 DEF Shape
<1>3. t.pc \in {"must", "rest"} /\ t.held \in t.left
  BY DEF Shape
<1> HIDE DEF r
<1>4. /\ Rest(r) \in Tasks /\ Shape(Rest(r)) /\ Rest(r).held = NoPort
      /\ Rest(r).left = r.left /\ Rest(r).pc \in {"idle", "rest"}
  BY <1>1, <1>2, RestFits
<1> QED BY <1>1, <1>3, <1>4 DEF r

\* A request that is taken back still follows all that it followed.
LEMMA TakenBackFits ==
  ASSUME NEW t \in Tasks, Shape(t), t.held # NoPort, t.pc = "must"
  PROVE  /\ TakenBack(t) \in Tasks /\ Shape(TakenBack(t))
         /\ TakenBack(t).held = NoPort /\ t.left \ {t.held} \subseteq TakenBack(t).left
         /\ TakenBack(t).pc = "undo" /\ TakenBack(t).id = t.id /\ TakenBack(t).old = t.old
<1> DEFINE L == IF t.op = "update" THEN {t.old.port, t.new.port} ELSE {}
           u == [t EXCEPT !.held = NoPort, !.snap = Empty, !.left = L, !.pc = "undo"]
<1>1. /\ t.new # Absent /\ t.held = t.new.port
      /\ t.op = "update" => t.old # Absent
      /\ t.op = "create" => t.old = Absent
      /\ t.left \subseteq {t.new.port} \cup (IF t.op = "update" THEN {t.old.port} ELSE {})
  BY DEF Shape
<1>2. t.new.port \in Ports /\ (t.op = "update" => t.old.port \in Ports)
  BY <1>1, StoredFields DEF Tasks
<1>3. L \subseteq Ports /\ t.left \ {t.held} \subseteq L
  BY <1>1, <1>2
<1>4. TakenBack(t) = u
  BY DEF TakenBack, Reconciled, Tasks
<1> HIDE DEF L
<1>5. /\ u \in Tasks /\ u.held = NoPort /\ u.left = L /\ u.pc = "undo" /\ u.id = t.id
      /\ u.old = t.old /\ u.op = t.op
  BY <1>3, EmptyTable DEF Tasks
<1> HIDE DEF u
<1>6. Shape(u)
  BY <1>1, <1>5 DEF Shape
<1> QED BY <1>3, <1>4, <1>5, <1>6

LEMMA ApplyTyped ==
  ASSUME Typed, NEW h \in Handlers, Apply(h)
  PROVE  Typed'
<1> DEFINE t == task[h]
<1>1. PICK r \in Results(t.held, t.snap) :
        /\ listeners' = [listeners EXCEPT ![t.held] = r.table]
        /\ Fault(r.err = "bind")
        /\ missed' = missed \cup IF r.err = "none" THEN {} ELSE {t.held}
        /\ task' = [task EXCEPT ![h] = IF r.err # "none" /\ Reconciled(t).pc = "must"
                                       THEN TakenBack(t) ELSE Rest(Reconciled(t))]
  BY DEF Apply, Reconciled, TakenBack
<1>2. t \in Tasks /\ Shape(t) /\ t.held # NoPort /\ t.held \in Ports
  BY TaskFits DEF Apply, Shape
<1>3. r.table \in Tables
  BY <1>2, TaskFits, ResultsAreTables DEF Typed, TypeOK
<1>4. listeners' \in [Ports -> Tables] /\ missed' \subseteq Ports
  BY <1>1, <1>2, <1>3 DEF Typed, TypeOK
<1>5. faults' \in 0..MaxFaults
  BY <1>1, FaultTyped DEF Typed, TypeOK
<1>6. CASE r.err # "none" /\ t.pc = "must"
  <2>1. task' = [task EXCEPT ![h] = TakenBack(t)]
    BY <1>1, <1>2, <1>6, ReconciledFits
  <2>2. TakenBack(t) \in Tasks /\ Shape(TakenBack(t))
    BY <1>2, <1>6, TakenBackFits
  <2> QED BY <2>1, <2>2, <1>4, <1>5, TaskChanges DEF Apply, setup, Typed, TypeOK
<1>7. CASE ~(r.err # "none" /\ t.pc = "must")
  <2>1. task' = [task EXCEPT ![h] = Rest(Reconciled(t))]
    BY <1>1, <1>2, <1>7, ReconciledFits
  <2>2. Rest(Reconciled(t)) \in Tasks /\ Shape(Rest(Reconciled(t)))
    BY <1>2, ReconciledFits
  <2> QED BY <2>1, <2>2, <1>4, <1>5, TaskChanges DEF Apply, setup, Typed, TypeOK
<1> QED BY <1>6, <1>7

LEMMA RewriteTyped ==
  ASSUME Typed, NEW h \in Handlers, Rewrite(h)
  PROVE  Typed'
<1>1. PICK failed \in BOOLEAN :
        /\ Fault(failed)
        /\ IF failed THEN UNCHANGED db
           ELSE SetRow(task[h].id, IF task[h].pc = "redo" THEN task[h].old ELSE Absent)
        /\ contested' = contested \cup IF failed THEN {task[h].id} ELSE {}
  BY DEF Rewrite
<1>2. task' = [task EXCEPT ![h] = Rest(task[h])] /\ task[h].pc \in {"redo", "erase"}
  BY DEF Rewrite
<1>3. Rest(task[h]) \in Tasks /\ Shape(Rest(task[h]))
  <2>1. task[h] \in Tasks /\ Shape(task[h])
    BY TaskFits
  <2>2. /\ task[h].held = NoPort /\ (task[h].op = "update" => task[h].old # Absent)
        /\ (task[h].op = "create" => task[h].old = Absent)
    BY <1>2, <2>1 DEF Shape
  <2> QED BY <2>1, <2>2, RestFits
<1>4. faults' \in 0..MaxFaults
  BY <1>1, FaultTyped DEF Typed, TypeOK
<1>5. contested' \subseteq Ids /\ db' \in [Ids -> Stored \cup {Absent}]
  BY <1>1, TaskFits DEF SetRow, Typed, TypeOK
<1> QED BY <1>2, <1>3, <1>4, <1>5, TaskChanges DEF Rewrite, setup, Typed, TypeOK

LEMMA StopTyped ==
  ASSUME Typed, NEW h \in Handlers, Stop(h)
  PROVE  Typed'
<1>1. listeners' \in [Ports -> Tables]
  BY EmptyTable DEF Stop, Typed, TypeOK
<1> QED BY <1>1 DEF Stop, setup, Typed, TypeOK, TasksFit

LEMMA DropTyped ==
  ASSUME Typed, NEW h \in Handlers, Drop(h)
  PROVE  Typed'
<1>1. task' = [task EXCEPT ![h] = Idle] /\ faults' \in 0..MaxFaults
  BY FaultTyped DEF Drop, Typed, TypeOK
<1>2. missed' \subseteq Ports /\ contested' \subseteq Ids
  BY TaskFits DEF Drop, Typed, TypeOK
<1> QED BY <1>1, <1>2, IdleFits, TaskChanges DEF Drop, setup, Typed, TypeOK

LEMMA RefreshTyped ==
  ASSUME Typed, RefreshBegin \/ RefreshSave \/ \E i \in Ids : RefreshRead(i)
  PROVE  Typed'
<1>1. refresh' \in [todo : SUBSET Ids, id : Ids, row : Stored \cup {Absent}]
  <2>1. CASE RefreshBegin
    BY <2>1 DEF RefreshBegin, Typed, TypeOK
  <2>2. CASE RefreshSave
    BY <2>2, Consts DEF RefreshSave, Typed, TypeOK
  <2>3. CASE \E i \in Ids : RefreshRead(i)
    BY <2>3 DEF RefreshRead, Typed, TypeOK
  <2> QED BY <2>1, <2>2, <2>3
<1>2. contested' \subseteq Ids /\ db' \in [Ids -> Stored \cup {Absent}]
  BY DEF RefreshBegin, RefreshRead, RefreshSave, Contest, SetRow, Typed, TypeOK
<1>3. UNCHANGED <<certs, rules, listeners, task, booting, made, asked, missed>>
  BY DEF RefreshBegin, RefreshRead, RefreshSave, setup
<1>4. faults' \in 0..MaxFaults
  <2>1. CASE RefreshSave
    BY <2>1, FaultTyped DEF RefreshSave, Typed, TypeOK
  <2>2. CASE ~RefreshSave
    BY <2>2 DEF RefreshBegin, RefreshRead, Typed, TypeOK
  <2> QED BY <2>1, <2>2
<1> QED BY <1>1, <1>2, <1>3, <1>4 DEF Typed, TypeOK, TasksFit

LEMMA RestartTyped ==
  ASSUME Typed, Restart
  PROVE  Typed'
<1>1. task' \in [Handlers -> Tasks] /\ \A h \in Handlers : task'[h] = Idle
  BY IdleFits DEF Restart
<1>2. TasksFit' /\ \A h \in Handlers : task'[h].held = NoPort /\ task'[h].pc = "idle"
  BY <1>1, IdleFits DEF TasksFit, Idle
<1>3. faults' \in 0..MaxFaults
  BY FaultTyped DEF Restart, Typed, TypeOK
<1>4. refresh' \in [todo : SUBSET Ids, id : Ids, row : Stored \cup {Absent}]
  BY Consts DEF Restart
<1>5. listeners' \in [Ports -> Tables] /\ booting' \in [Ports -> {"no", "first", "again"}]
  BY EmptyTable DEF Restart
<1>6. rules' \in [Ids -> Stored \cup {Absent}] /\ contested' \subseteq Ids
  BY DEF Restart, Typed, TypeOK
<1> QED BY <1>1, <1>2, <1>3, <1>4, <1>5, <1>6 DEF Restart, Typed, TypeOK

\* The start switches off only rules that the port serves.
LEMMA VictimsAreOn ==
  ASSUME rules \in [Ids -> Stored \cup {Absent}], NEW p \in Ports, NEW err,
         NEW i \in Victims(p, err)
  PROVE  /\ i \in Ids /\ OnPort(rules[i], p) /\ rules[i].on
         /\ rules[i] \in Stored /\ Off(rules[i]) \in Stored
<1>1. i \in DOMAIN Wanted(p)
  BY DEF Victims
<1>2. i \in Ids /\ OnPort(rules[i], p) /\ rules[i].on
  BY <1>1 DEF Wanted
<1>3. rules[i] \in Stored
  BY <1>2 DEF OnPort
<1> QED BY <1>2, <1>3, StoredFields

LEMMA BootTyped ==
  ASSUME Typed, NEW p \in Ports, Boot(p)
  PROVE  Typed'
<1> DEFINE retry(r) == r.err # "none" /\ booting[p] = "first"
           victims(r) == IF retry(r) THEN Victims(p, r.err) ELSE {}
           off(f, I) == [i \in Ids |-> IF i \in I THEN Off(rules[i]) ELSE f[i]]
<1>1. PICK r \in Results(p, Wanted(p)) : \E lost \in SUBSET victims(r) :
        /\ listeners' = [listeners EXCEPT ![p] = r.table]
        /\ rules' = off(rules, victims(r)) /\ db' = off(db, victims(r) \ lost)
        /\ booting' = [booting EXCEPT ![p] = IF retry(r) THEN "again" ELSE "no"]
        /\ missed' = missed \cup IF r.err = "none" \/ retry(r) THEN {} ELSE {p}
        /\ contested' \subseteq contested \cup victims(r)
        /\ Fault(r.err = "bind" \/ lost # {})
  BY DEF Boot
<1>2. listeners' \in [Ports -> Tables]
  BY <1>1, WantedIsTable, ResultsAreTables DEF Typed, TypeOK
<1>3. \A i \in victims(r) : i \in Ids /\ Off(rules[i]) \in Stored
  BY VictimsAreOn DEF Typed, TypeOK
<1>4. rules' \in [Ids -> Stored \cup {Absent}] /\ db' \in [Ids -> Stored \cup {Absent}]
  <2> HIDE DEF victims
  <2> QED BY <1>1, <1>3 DEF Typed, TypeOK
<1>5. contested' \subseteq Ids
  BY <1>1, <1>3 DEF Typed, TypeOK
<1>6. /\ booting' \in [Ports -> {"no", "first", "again"}] /\ missed' \subseteq Ports
  BY <1>1 DEF Typed, TypeOK
<1>7. faults' \in 0..MaxFaults
  BY <1>1, FaultTyped DEF Typed, TypeOK
<1>8. UNCHANGED <<task, refresh, certs, made, asked>>
  BY DEF Boot, setup
<1> QED BY <1>2, <1>4, <1>5, <1>6, <1>7, <1>8 DEF Typed, TypeOK, TasksFit

LEMMA InitTyped == Init => Typed
<1> SUFFICES ASSUME Init PROVE Typed
  OBVIOUS
<1>1. task \in [Handlers -> Tasks] /\ \A h \in Handlers : task[h] = Idle
  BY IdleFits DEF Init
<1>2. TasksFit /\ \A h \in Handlers : task[h].held = NoPort /\ task[h].pc = "idle"
  BY <1>1, IdleFits DEF TasksFit, Idle
<1> QED BY <1>1, <1>2, EmptyTable, Consts DEF Init, Typed, TypeOK

LEMMA StepTyped == Typed /\ [Next]_vars => Typed'
<1> SUFFICES ASSUME Typed, [Next]_vars PROVE Typed'
  OBVIOUS
<1>1. ASSUME NEW h \in Handlers, NEW c \in Contents, Create(h, c) \/ PutGateway(h, c)
      PROVE  Typed'
  BY <1>1, CreateTyped, PutGatewayTyped
<1>2. ASSUME NEW h \in Handlers, NEW i \in Ids, Delete(h, i) \/ \E c \in Contents : Update(h, i, c)
      PROVE  Typed'
  BY <1>2, DeleteTyped, UpdateTyped
<1>3. ASSUME NEW h \in Handlers,
             Save(h) \/ Insert(h) \/ Snapshot(h) \/ Stop(h) \/ Apply(h) \/ Undo(h) \/ Rewrite(h) \/ Drop(h)
      PROVE  Typed'
  BY <1>3, SaveTyped, InsertTyped, SnapshotTyped, StopTyped, ApplyTyped, UndoTyped, RewriteTyped,
     DropTyped
<1>4. ASSUME UNCHANGED vars PROVE Typed'
  BY <1>4 DEF vars, Typed, TypeOK, TasksFit
<1> QED BY <1>1, <1>2, <1>3, <1>4, RefreshTyped, RestartTyped, BootTyped DEF Next

\* The invariant behind the types.
LEMMA TypedAlways == Spec => []Typed
  BY InitTyped, StepTyped, PTL DEF Spec

\* A task holds the lock of a port only while it still has to reconcile it, and
\* it rests only with ports left (reconcile_http_listener and its callers).
THEOREM TypeCorrect == Spec => []TypeOK
  BY TypedAlways, PTL DEF Typed

-----------------------------------------------------------------------------
(* The rows.                                                               *)

\* The history of contested rules holds what was written, and the rules that
\* a new writer finds in writing.
LEMMA ContestAdds ==
  ASSUME Typed, NEW I, Contest(I)
  PROVE  /\ contested \subseteq contested'
         /\ \A i \in I \ contested' : /\ ~Refreshes(i)
                                      /\ \A g \in Handlers : ~Writes(g, i)
  BY DEF Contest, Written, WrittenBy, Writes, Refreshes

\* A new request is the only writer of its rule, or contests it.
LEMMA BeginRows ==
  ASSUME Typed, Rows, NEW h \in Handlers, NEW t \in Tasks, Begin(h, t),
         t.pc \in {"save", "erase"}, UNCHANGED <<db, refresh>>,
         contested \subseteq contested' \cup {t.id}, t.id \notin contested' => ~Written(t.id),
         t.pc = "save" => contested \subseteq contested',
         \A i \in Ids : i # t.id => rules'[i] = rules[i],
         t.pc = "save" => rules' = rules,
         t.pc = "erase" => rules'[t.id] = Absent
  PROVE  Rows'
<1>1. /\ \A i \in Ids \ contested' : i # t.id => i \notin contested
      /\ t.id \in Ids
      /\ t.id \notin contested' => ~Refreshes(t.id) /\ \A g \in Handlers : ~Writes(g, t.id)
  BY DEF Tasks, Written, WrittenBy, Writes, Refreshes
<1>2. /\ task'[h] = t /\ \A g \in Handlers \ {h} : task'[g] = task[g]
      /\ task[h].pc = "idle"
  BY DEF Begin, Typed, TypeOK, Idle
<1>3. \A i \in Ids : Refreshes(i)' = Refreshes(i)
  BY DEF Refreshes
<1>4. \A i \in Ids, g \in Handlers : Writes(g, i)' <=> IF g = h THEN i = t.id ELSE Writes(g, i)
  BY <1>2 DEF Writes
<1>5. WritersAreAlone'
  BY <1>1, <1>3, <1>4 DEF Rows, WritersAreAlone
<1>6. WritersAreOnTheirWay'
  <2>1. ASSUME NEW i \in Ids \ contested', NEW g \in Handlers, Writes(g, i)'
        PROVE  /\ task'[g].pc \in {"save", "must", "undo"} => db'[i] = rules'[i]
               /\ task'[g].pc = "insert" => db'[i] = task'[g].new
               /\ task'[g].pc = "redo" => rules'[i] = task'[g].old
               /\ task'[g].pc = "erase" => rules'[i] = Absent
    <3>1. CASE g = h
      <4>1. i = t.id /\ task'[g] = t /\ ~Written(i)
        BY <1>1, <1>2, <1>4, <2>1, <3>1
      <4>2. t.pc = "save" => db[i] = rules[i]
        BY <1>1, <2>1, <4>1 DEF Rows, StoredAsRulesSay
      <4> QED BY <4>1, <4>2
    <3>2. CASE g # h
      <4>1. Writes(g, i) /\ i # t.id /\ i \notin contested /\ task'[g] = task[g]
        BY <1>1, <1>2, <1>4, <2>1, <3>2
      <4> QED BY <1>1, <2>1, <4>1 DEF Rows, WritersAreOnTheirWay
    <3> QED BY <3>1, <3>2
  <2>2. ASSUME NEW i \in Ids \ contested', Refreshes(i)'
        PROVE  refresh'.row = rules'[i] /\ db'[i] = rules'[i]
    <3>1. Refreshes(i) /\ i # t.id /\ i \notin contested
      BY <1>1, <1>3, <2>2
    <3> QED BY <1>1, <2>2, <3>1 DEF Rows, WritersAreOnTheirWay
  <2> QED BY <2>1, <2>2 DEF WritersAreOnTheirWay
<1>7. StoredAsRulesSay'
  <2>1. ASSUME NEW i \in Ids \ contested', ~Written(i)'
        PROVE  db'[i] = rules'[i]
    <3>1. i # t.id
      BY <1>2, <2>1 DEF Written, WrittenBy
    <3>2. ~Written(i)
      BY <1>2, <2>1, <3>1 DEF Written, WrittenBy
    <3> QED BY <1>1, <2>1, <3>1, <3>2 DEF Rows, StoredAsRulesSay
  <2> QED BY <2>1 DEF StoredAsRulesSay
<1> QED BY <1>5, <1>6, <1>7 DEF Rows

\* A step of the writer of a rule changes that rule alone, and leaves row and
\* memory as the task that it leaves expects them.
LEMMA TaskStepRows ==
  ASSUME Typed, Rows, NEW h \in Handlers, NEW t \in Tasks, task' = [task EXCEPT ![h] = t],
         UNCHANGED refresh, NEW i \in Ids, i = task[h].id,
         contested \subseteq contested' \cup {i},
         i \in contested \ contested' => Writes(h, i) /\ ~WrittenBy(Handlers \ {h}, i),
         t.pc \in {"idle", "rest"} \/ (Writes(h, i) /\ t.id = i),
         \A j \in Ids : j # i \/ ~Writes(h, i) => db'[j] = db[j] /\ rules'[j] = rules[j],
         i \notin contested' /\ Writes(h, i) =>
           /\ t.pc \in {"save", "must", "undo", "rest", "idle"} => db'[i] = rules'[i]
           /\ t.pc = "insert" => db'[i] = t.new
           /\ t.pc = "redo" => rules'[i] = t.old
           /\ t.pc = "erase" => rules'[i] = Absent
  PROVE  Rows'
<1>1. task'[h] = t /\ \A g \in Handlers \ {h} : task'[g] = task[g]
  BY DEF Typed, TypeOK
<1>2. \A j \in Ids : Refreshes(j)' = Refreshes(j)
  BY DEF Refreshes
<1>3. /\ \A j \in Ids, g \in Handlers : Writes(g, j)' => Writes(g, j)
      /\ \A j \in Ids, g \in Handlers : g # h \/ j # i => Writes(g, j)' = Writes(g, j)
      /\ \A j \in Ids : Writes(h, j)' \/ Writes(h, j) => j = i
  BY <1>1 DEF Writes
<1>0. \A j \in Ids \ contested' : j \in contested =>
        /\ j = i /\ Writes(h, i) /\ ~Refreshes(i)
        /\ \A g \in Handlers \ {h} : ~Writes(g, i)
  BY DEF WrittenBy, Writes, Refreshes
<1>4. WritersAreAlone'
  <2> SUFFICES ASSUME NEW j \in Ids \ contested', NEW g \in Handlers, NEW k \in Handlers,
                      Writes(g, j)'
               PROVE  ~Refreshes(j)' /\ (Writes(k, j)' => g = k)
    BY DEF WritersAreAlone
  <2>1. CASE j \in contested
    BY <1>0, <1>2, <1>3, <2>1
  <2>2. CASE j \notin contested
    BY <1>2, <1>3, <2>2 DEF Rows, WritersAreAlone
  <2> QED BY <2>1, <2>2
<1>5. ASSUME NEW j \in Ids \ contested', NEW g \in Handlers, g # h, Writes(g, j)
      PROVE  j \notin contested /\ db'[j] = db[j] /\ rules'[j] = rules[j]
  BY <1>0, <1>5 DEF Rows, WritersAreAlone
<1>6. ASSUME NEW j \in Ids \ contested', Refreshes(j)
      PROVE  j \notin contested /\ db'[j] = db[j] /\ rules'[j] = rules[j]
  BY <1>0, <1>6 DEF Rows, WritersAreAlone
<1>7. WritersAreOnTheirWay'
  <2>1. ASSUME NEW j \in Ids \ contested', NEW g \in Handlers, Writes(g, j)'
        PROVE  /\ task'[g].pc \in {"save", "must", "undo"} => db'[j] = rules'[j]
               /\ task'[g].pc = "insert" => db'[j] = task'[g].new
               /\ task'[g].pc = "redo" => rules'[j] = task'[g].old
               /\ task'[g].pc = "erase" => rules'[j] = Absent
    <3>1. CASE g = h
      BY <1>1, <1>3, <2>1, <3>1
    <3>2. CASE g # h
      BY <1>1, <1>3, <1>5, <2>1, <3>2 DEF Rows, WritersAreOnTheirWay
    <3> QED BY <3>1, <3>2
  <2>2. ASSUME NEW j \in Ids \ contested', Refreshes(j)'
        PROVE  refresh'.row = rules'[j] /\ db'[j] = rules'[j]
    BY <1>2, <1>6, <2>2 DEF Rows, WritersAreOnTheirWay
  <2> QED BY <2>1, <2>2 DEF WritersAreOnTheirWay
<1>8. StoredAsRulesSay'
  <2>1. ASSUME NEW j \in Ids \ contested', ~Written(j)'
        PROVE  db'[j] = rules'[j]
    <3>1. /\ ~Refreshes(j) /\ \A g \in Handlers : ~Writes(g, j)'
      BY <1>2, <2>1 DEF Written, WrittenBy, Writes, Refreshes
    <3>2. CASE Writes(h, j)
      <4>1. j = i /\ t.pc \in {"idle", "rest"}
        BY <1>1, <1>3, <3>1, <3>2 DEF Writes
      <4> QED BY <2>1, <3>2, <4>1
    <3>3. CASE ~Writes(h, j)
      <4>1. ~Written(j) /\ j \notin contested
        BY <1>0, <1>3, <2>1, <3>1, <3>3 DEF Written, WrittenBy, Writes, Refreshes
      <4>2. db[j] = rules[j]
        BY <2>1, <4>1 DEF Rows, StoredAsRulesSay
      <4> QED BY <3>3, <4>2
    <3> QED BY <3>2, <3>3
  <2> QED BY <2>1 DEF StoredAsRulesSay
<1> QED BY <1>4, <1>7, <1>8 DEF Rows

\* The steps of a request, each as one step of a writer.
LEMMA SaveRows ==
  ASSUME Typed, Rows, NEW h \in Handlers, Save(h)
  PROVE  Rows'
<1> DEFINE i == task[h].id
<1>1. /\ i \in Ids /\ task[h] \in Tasks /\ task[h].pc = "save" /\ Writes(h, i)
      /\ UNCHANGED <<rules, refresh>>
  BY TaskFits DEF Save, Writes
<1>2. i \notin contested => db[i] = rules[i]
  BY <1>1 DEF Rows, WritersAreOnTheirWay
<1>3. CASE task' = [task EXCEPT ![h] = Idle] /\ UNCHANGED <<db, contested>>
  BY <1>1, <1>2, <1>3, IdleFits, TaskStepRows DEF Idle
<1>4. CASE /\ task' = [task EXCEPT ![h].pc = "insert"] /\ SetRow(i, task[h].new)
           /\ contested' = IF WrittenBy(Handlers \ {h}, i) THEN contested ELSE contested \ {i}
  <2> DEFINE t == [task[h] EXCEPT !.pc = "insert"]
  <2>1. t \in Tasks /\ t.pc = "insert" /\ t.id = i /\ t.new = task[h].new
    BY <1>1 DEF Tasks
  <2>2. db'[i] = t.new /\ \A j \in Ids \ {i} : db'[j] = db[j]
    BY <1>1, <1>4, <2>1 DEF SetRow, Typed, TypeOK
  <2>3. task' = [task EXCEPT ![h] = t]
    BY <1>4
  <2>4. /\ contested \subseteq contested' \cup {i}
        /\ i \in contested \ contested' => ~WrittenBy(Handlers \ {h}, i)
    BY <1>4
  <2> HIDE DEF t
  <2> QED BY <1>1, <2>1, <2>2, <2>3, <2>4, TaskStepRows
<1> QED BY <1>3, <1>4 DEF Save

LEMMA InsertRows ==
  ASSUME Typed, Rows, NEW h \in Handlers, Insert(h)
  PROVE  Rows'
<1> DEFINE i == task[h].id
           t == [task[h] EXCEPT !.left = Followed(task[h])]
           u == IF t.op # "gateway" /\ t.new.kind = "http" THEN [t EXCEPT !.pc = "must"] ELSE Rest(t)
<1>1. /\ i \in Ids /\ task[h] \in Tasks /\ task[h].pc = "insert" /\ Writes(h, i)
      /\ UNCHANGED <<db, refresh, contested>>
      /\ SetRule(t.id, t.new, t.left) /\ task' = [task EXCEPT ![h] = u]
  BY TaskFits DEF Insert, Writes
<1>2. u \in Tasks /\ t.id = i /\ t.new = task[h].new /\ t \in Tasks
  BY <1>1, InsertedFits
<1>3. u.pc \in {"idle", "rest"} \/ (u.pc = "must" /\ u.id = i)
  BY <1>1, <1>2, InsertedFits DEF Tasks
<1>4. rules'[i] = task[h].new /\ \A j \in Ids \ {i} : rules'[j] = rules[j]
  BY <1>1, <1>2 DEF SetRule, Typed, TypeOK
<1>5. i \notin contested => db[i] = task[h].new
  BY <1>1 DEF Rows, WritersAreOnTheirWay
<1> HIDE DEF u, t
<1> QED BY <1>1, <1>2, <1>3, <1>4, <1>5, TaskStepRows

LEMMA SnapshotRows ==
  ASSUME Typed, Rows, NEW h \in Handlers, Snapshot(h)
  PROVE  Rows'
<1>1. /\ task[h] \in Tasks /\ task[h].id \in Ids /\ task[h].pc \in {"must", "rest"}
      /\ UNCHANGED <<db, rules, refresh, contested>>
  BY TaskFits DEF Snapshot
<1>2. PICK p \in PortsOf(task[h]) : task' = [task EXCEPT ![h].held = p, ![h].snap = Wanted(p)]
  BY DEF Snapshot
<1> DEFINE t == [task[h] EXCEPT !.held = p, !.snap = Wanted(p)]
<1>3. task' = [task EXCEPT ![h] = t]
  BY <1>2
<1>4. t.pc = task[h].pc /\ t.id = task[h].id /\ t \in Tasks
  <2>1. p \in Ports
    BY <1>1, TaskFits DEF PortsOf, Shape
  <2> QED BY <1>1, <2>1, WantedIsTable DEF Tasks, Typed, TypeOK
<1>5. task[h].pc = "must" => Writes(h, task[h].id)
  BY DEF Writes
<1>6. task[h].id \notin contested /\ Writes(h, task[h].id) => db[task[h].id] = rules[task[h].id]
  BY <1>1 DEF Rows, WritersAreOnTheirWay, Writes
<1> HIDE DEF t
<1> QED BY <1>1, <1>3, <1>4, <1>5, <1>6, TaskStepRows

LEMMA ApplyRows ==
  ASSUME Typed, Rows, NEW h \in Handlers, Apply(h)
  PROVE  Rows'
<1> DEFINE i == task[h].id
<1>1. /\ task[h] \in Tasks /\ i \in Ids /\ Shape(task[h]) /\ task[h].held # NoPort
      /\ task[h].pc \in {"must", "rest"} /\ UNCHANGED <<db, rules, refresh, contested>>
  BY TaskFits DEF Apply, Shape
<1>2. task[h].pc = "must" => Writes(h, i)
  BY DEF Writes
<1>3. i \notin contested /\ Writes(h, i) => db[i] = rules[i]
  BY <1>1 DEF Rows, WritersAreOnTheirWay, Writes
<1>4. \/ /\ task' = [task EXCEPT ![h] = TakenBack(task[h])]
         /\ task[h].pc = "must"
      \/ task' = [task EXCEPT ![h] = Rest(Reconciled(task[h]))]
  BY <1>1, ReconciledFits DEF Apply, Reconciled, TakenBack
<1>5. CASE task[h].pc = "must" /\ task' = [task EXCEPT ![h] = TakenBack(task[h])]
  BY <1>1, <1>2, <1>3, <1>5, TakenBackFits, TaskStepRows
<1>6. CASE task' = [task EXCEPT ![h] = Rest(Reconciled(task[h]))]
  BY <1>1, <1>3, <1>6, ReconciledFits, TaskStepRows
<1> QED BY <1>4, <1>5, <1>6

LEMMA UndoRows ==
  ASSUME Typed, Rows, NEW h \in Handlers, Undo(h)
  PROVE  Rows'
<1> DEFINE i == task[h].id
           t == [task[h] EXCEPT !.pc = "redo"]
<1>1. /\ i \in Ids /\ task[h] \in Tasks /\ task[h].pc = "undo" /\ Writes(h, i)
      /\ UNCHANGED <<db, refresh, contested>>
  BY TaskFits DEF Undo, Writes
<1>2. rules'[i] = task[h].old /\ \A j \in Ids \ {i} : rules'[j] = rules[j]
  BY <1>1 DEF Undo, SetRule, Typed, TypeOK
<1>3. t \in Tasks /\ t.pc = "redo" /\ t.id = i /\ t.old = task[h].old
  BY <1>1 DEF Tasks
<1>4. task' = [task EXCEPT ![h] = t]
  BY DEF Undo
<1> HIDE DEF t
<1> QED BY <1>1, <1>2, <1>3, <1>4, TaskStepRows

LEMMA RewriteRows ==
  ASSUME Typed, Rows, NEW h \in Handlers, Rewrite(h)
  PROVE  Rows'
<1> DEFINE i == task[h].id
           c == IF task[h].pc = "redo" THEN task[h].old ELSE Absent
           t == Rest(task[h])
<1>1. /\ i \in Ids /\ task[h] \in Tasks /\ Shape(task[h]) /\ task[h].pc \in {"redo", "erase"}
      /\ UNCHANGED <<rules, refresh>> /\ task' = [task EXCEPT ![h] = t] /\ Writes(h, i)
  BY TaskFits DEF Rewrite, Writes
<1>2. t \in Tasks /\ t.pc \in {"idle", "rest"}
  <2>1. /\ task[h].held = NoPort /\ (task[h].op = "update" => task[h].old # Absent)
        /\ (task[h].op = "create" => task[h].old = Absent)
    BY <1>1 DEF Shape
  <2> QED BY <1>1, <2>1, RestFits
<1>3. /\ contested \subseteq contested'
      /\ \A j \in Ids \ {i} : db'[j] = db[j]
      /\ i \notin contested' => db'[i] = c
  BY <1>1 DEF Rewrite, SetRow, Typed, TypeOK
<1>4. i \notin contested => rules[i] = c
  BY <1>1 DEF Rows, WritersAreOnTheirWay
<1> HIDE DEF t, c
<1> QED BY <1>1, <1>2, <1>3, <1>4, TaskStepRows

\* Nothing is written while a listener stops, and the rule of a request that
\* is dropped between its row and its memory is contested.
LEMMA StopRows ==
  ASSUME Rows, NEW h \in Handlers, Stop(h)
  PROVE  Rows'
  BY DEF Stop, Rows, WritersAreAlone, WritersAreOnTheirWay, StoredAsRulesSay, Written, WrittenBy,
     Writes, Refreshes

LEMMA DropRows ==
  ASSUME Typed, Rows, NEW h \in Handlers, Drop(h)
  PROVE  Rows'
<1> DEFINE i == task[h].id
<1>1. /\ task[h] \in Tasks /\ i \in Ids /\ UNCHANGED <<db, rules, refresh>>
      /\ task' = [task EXCEPT ![h] = Idle] /\ contested \subseteq contested'
      /\ task[h].pc \in {"insert", "redo", "erase"} => i \in contested'
  BY TaskFits DEF Drop
<1>2. i \notin contested' /\ Writes(h, i) => db'[i] = rules'[i]
  <2> SUFFICES ASSUME i \notin contested', Writes(h, i) PROVE db[i] = rules[i]
    BY <1>1
  <2>1. task[h].pc \in {"save", "must", "undo"}
    BY <1>1 DEF Writes, Tasks
  <2> QED BY <1>1, <2>1 DEF Rows, WritersAreOnTheirWay
<1> QED BY <1>1, <1>2, IdleFits, TaskStepRows DEF Idle

\* The requests, each as a new writer.
LEMMA CreateRows ==
  ASSUME Typed, Rows, NEW h \in Handlers, NEW c \in Contents, Create(h, c)
  PROVE  Rows'
<1> DEFINE t == [Idle EXCEPT !.pc = "save", !.op = "create", !.id = made', !.new = c]
<1>1. Begin(h, t) /\ UNCHANGED <<db, rules, refresh>> /\ Contest({t.id})
  BY DEF Create, Idle
<1>2. t \in Tasks /\ t.pc = "save"
  <2>1. made' \in Ids /\ c \in Stored
    BY Consts DEF Create, Typed, TypeOK, Ids, Gateway, Stored
  <2> QED BY <2>1, EmptyTable DEF Idle, Tasks
<1> HIDE DEF t
<1> QED BY <1>1, <1>2, BeginRows DEF Contest

LEMMA UpdateRows ==
  ASSUME Typed, Rows, NEW h \in Handlers, NEW i \in Ids, NEW c \in Contents, Update(h, i, c)
  PROVE  Rows'
<1> DEFINE t == [Idle EXCEPT !.pc = "save", !.op = "update", !.id = i, !.old = rules[i], !.new = c]
<1>1. Begin(h, t) /\ UNCHANGED <<db, rules, refresh>> /\ Contest({t.id})
  BY DEF Update, Idle
<1>2. t \in Tasks /\ t.pc = "save"
  BY EmptyTable DEF Idle, Tasks, Stored, Typed, TypeOK
<1> HIDE DEF t
<1> QED BY <1>1, <1>2, BeginRows DEF Contest

LEMMA DeleteRows ==
  ASSUME Typed, Rows, NEW h \in Handlers, NEW i \in Ids, Delete(h, i)
  PROVE  Rows'
<1> DEFINE ports == {p \in Ports : OnPort(rules[i], p)}
           t == [Idle EXCEPT !.pc = "erase", !.op = "delete", !.id = i, !.old = rules[i], !.left = ports]
<1>1. Begin(h, t) /\ SetRule(i, Absent, ports) /\ UNCHANGED <<db, refresh>>
  BY DEF Delete
<1>2. t \in Tasks /\ t.pc = "erase" /\ t.id = i
  BY EmptyTable DEF Idle, Tasks, Typed, TypeOK
<1>3. rules'[i] = Absent /\ \A j \in Ids \ {i} : rules'[j] = rules[j]
  BY <1>1 DEF SetRule, Typed, TypeOK
<1>4. contested \subseteq contested' \cup {i} /\ (i \notin contested' => ~Written(i))
  BY DEF Delete
<1> HIDE DEF t, ports
<1> QED BY <1>1, <1>2, <1>3, <1>4, BeginRows

LEMMA PutGatewayRows ==
  ASSUME Typed, Rows, NEW h \in Handlers, NEW c \in Contents, PutGateway(h, c)
  PROVE  Rows'
<1> DEFINE t == [Idle EXCEPT !.pc = "save", !.op = "gateway", !.id = Gateway, !.new = c]
<1>1. Begin(h, t) /\ UNCHANGED <<db, rules, refresh>> /\ Contest({t.id})
  BY DEF PutGateway, Idle
<1>2. t \in Tasks /\ t.pc = "save"
  BY Consts, EmptyTable DEF Idle, Tasks, Stored
<1> HIDE DEF t
<1> QED BY <1>1, <1>2, BeginRows DEF Contest

\* The refresh writes the row that the memory holds, unless the rule is contested.
LEMMA RefreshRows ==
  ASSUME Typed, Rows, RefreshBegin \/ RefreshSave \/ \E i \in Ids : RefreshRead(i)
  PROVE  Rows'
<1>1. UNCHANGED <<rules, task>> /\ \A g \in Handlers, i \in Ids : Writes(g, i)' = Writes(g, i)
  BY DEF RefreshBegin, RefreshRead, RefreshSave, Writes
<1>2. CASE RefreshBegin
  <2>1. /\ UNCHANGED <<db, contested>>
        /\ refresh'.id = refresh.id /\ refresh'.row = refresh.row
    BY <1>2 DEF RefreshBegin, Typed, TypeOK
  <2> QED BY <1>1, <2>1 DEF Rows, WritersAreAlone, WritersAreOnTheirWay, StoredAsRulesSay,
        Written, WrittenBy, Writes, Refreshes
<1>3. CASE RefreshSave
  <2>1. /\ refresh.row # Absent /\ refresh'.row = Absent /\ UNCHANGED contested
        /\ SetRow(refresh.id, refresh.row) \/ UNCHANGED db
    BY <1>3 DEF RefreshSave, Typed, TypeOK
  <2>2. \A i \in Ids \ contested : db'[i] = db[i]
    BY <2>1 DEF SetRow, Typed, TypeOK, Rows, WritersAreOnTheirWay, Refreshes
  <2>3. \A i \in Ids : ~Refreshes(i)'
    BY <2>1 DEF Refreshes
  <2>4. \A i \in Ids \ contested : ~Written(i)' => db'[i] = rules'[i]
    <3> SUFFICES ASSUME NEW i \in Ids \ contested, ~Written(i)' PROVE db'[i] = rules'[i]
      OBVIOUS
    <3>1. CASE Refreshes(i)
      BY <1>1, <2>2, <3>1 DEF Rows, WritersAreOnTheirWay
    <3>2. CASE ~Refreshes(i)
      <4>1. ~Written(i)
        BY <1>1, <3>2 DEF Written, WrittenBy, Refreshes
      <4> QED BY <1>1, <2>2, <4>1 DEF Rows, StoredAsRulesSay
    <3> QED BY <3>1, <3>2
  <2>5. WritersAreAlone' /\ WritersAreOnTheirWay'
    BY <1>1, <2>1, <2>2, <2>3 DEF Rows, WritersAreAlone, WritersAreOnTheirWay
  <2> QED BY <2>1, <2>4, <2>5 DEF Rows, StoredAsRulesSay
<1>4. ASSUME NEW i \in Ids, RefreshRead(i)
      PROVE  Rows'
  <2>1. /\ refresh.row = Absent /\ refresh'.id = i /\ refresh'.row = rules[i]
        /\ Contest({i}) /\ UNCHANGED db
    BY <1>4 DEF RefreshRead
  <2>2. /\ contested \subseteq contested'
        /\ i \notin contested' => ~Refreshes(i) /\ \A g \in Handlers : ~Writes(g, i)
    BY <2>1, ContestAdds
  <2>3. \A j \in Ids : Refreshes(j)' => j = i
    BY <2>1 DEF Refreshes
  <2>4. \A j \in Ids : ~Refreshes(j)
    BY <2>1 DEF Refreshes
  <2>5. i \notin contested' => db[i] = rules[i]
    <3> SUFFICES ASSUME i \notin contested' PROVE db[i] = rules[i]
      OBVIOUS
    <3>1. ~Written(i)
      BY <2>2 DEF Written, WrittenBy, Writes, Refreshes
    <3> QED BY <2>2, <3>1 DEF Rows, StoredAsRulesSay
  <2>6. WritersAreAlone'
    BY <1>1, <2>2, <2>3 DEF Rows, WritersAreAlone
  <2>7. WritersAreOnTheirWay'
    BY <1>1, <2>1, <2>2, <2>3, <2>5 DEF Rows, WritersAreOnTheirWay
  <2>8. StoredAsRulesSay'
    <3> SUFFICES ASSUME NEW j \in Ids \ contested', ~Written(j)' PROVE db'[j] = rules'[j]
      BY DEF StoredAsRulesSay
    <3>1. ~Written(j)
      BY <1>1, <2>4 DEF Written, WrittenBy, Refreshes
    <3> QED BY <1>1, <2>1, <2>2, <3>1 DEF Rows, StoredAsRulesSay
  <2> QED BY <2>6, <2>7, <2>8 DEF Rows
<1> QED BY <1>2, <1>3, <1>4

LEMMA RestartRows ==
  ASSUME Restart
  PROVE  Rows'
<1>1. \A g \in Handlers, i \in Ids : ~Writes(g, i)'
  BY DEF Restart, Writes, Idle
<1>2. \A i \in Ids : ~Refreshes(i)'
  BY DEF Restart, Refreshes
<1>3. \A i \in Ids \ contested' : db'[i] = rules'[i]
  BY DEF Restart
<1> QED BY <1>1, <1>2, <1>3 DEF Rows, WritersAreAlone, WritersAreOnTheirWay, StoredAsRulesSay

\* The start writes memory and row of a rule alike, or contests it.
LEMMA BootRows ==
  ASSUME Typed, Rows, NEW p \in Ports, Boot(p)
  PROVE  Rows'
<1>1. PICK V : \E lost \in SUBSET V :
        /\ rules' = [i \in Ids |-> IF i \in V THEN Off(rules[i]) ELSE rules[i]]
        /\ db' = [i \in Ids |-> IF i \in V \ lost THEN Off(rules[i]) ELSE db[i]]
        /\ contested' = contested \cup lost \cup {i \in V : Written(i)}
  BY DEF Boot
<1>2. UNCHANGED <<task, refresh>> /\ contested \subseteq contested'
  BY <1>1 DEF Boot
<1>3. /\ \A g \in Handlers, i \in Ids : Writes(g, i)' = Writes(g, i)
      /\ \A i \in Ids : Refreshes(i)' = Refreshes(i) /\ Written(i)' = Written(i)
  BY <1>2 DEF Writes, Refreshes, Written, WrittenBy
<1>4. \A i \in Ids \ contested' : i \in V => ~Written(i)
  BY <1>1
<1>5. \A i \in Ids \ contested' : /\ i \notin V => db'[i] = db[i] /\ rules'[i] = rules[i]
                                  /\ i \in V => db'[i] = rules'[i]
  BY <1>1
<1>6. WritersAreAlone'
  BY <1>2, <1>3 DEF Rows, WritersAreAlone
<1>7. StoredAsRulesSay'
  BY <1>2, <1>3, <1>5 DEF Rows, StoredAsRulesSay
<1>8. \A i \in Ids \ contested' : Refreshes(i) \/ (\E g \in Handlers : Writes(g, i)) => i \notin V
  BY <1>4 DEF Written, WrittenBy, Writes, Refreshes
<1>9. WritersAreOnTheirWay'
  BY <1>2, <1>3, <1>5, <1>8 DEF Rows, WritersAreOnTheirWay
<1> QED BY <1>6, <1>7, <1>9 DEF Rows

LEMMA InitRows == Init => Rows
<1> SUFFICES ASSUME Init PROVE Rows
  OBVIOUS
<1>1. \A g \in Handlers, i \in Ids : ~Writes(g, i)
  BY DEF Init, Writes, Idle
<1>2. \A i \in Ids : ~Refreshes(i)
  BY DEF Init, Refreshes
<1>3. db = rules
  BY DEF Init
<1> QED BY <1>1, <1>2, <1>3 DEF Rows, WritersAreAlone, WritersAreOnTheirWay, StoredAsRulesSay

LEMMA StepRows == Typed /\ Rows /\ [Next]_vars => Rows'
<1> SUFFICES ASSUME Typed, Rows, [Next]_vars PROVE Rows'
  OBVIOUS
<1>1. ASSUME NEW h \in Handlers, NEW c \in Contents, Create(h, c) \/ PutGateway(h, c)
      PROVE  Rows'
  BY <1>1, CreateRows, PutGatewayRows
<1>2. ASSUME NEW h \in Handlers, NEW i \in Ids, Delete(h, i) \/ \E c \in Contents : Update(h, i, c)
      PROVE  Rows'
  BY <1>2, DeleteRows, UpdateRows
<1>3. ASSUME NEW h \in Handlers,
             Save(h) \/ Insert(h) \/ Snapshot(h) \/ Stop(h) \/ Apply(h) \/ Undo(h) \/ Rewrite(h) \/ Drop(h)
      PROVE  Rows'
  BY <1>3, SaveRows, InsertRows, SnapshotRows, StopRows, ApplyRows, UndoRows, RewriteRows, DropRows
<1>4. ASSUME UNCHANGED vars PROVE Rows'
  BY <1>4 DEF vars, Rows, WritersAreAlone, WritersAreOnTheirWay, StoredAsRulesSay, Written,
     WrittenBy, Writes, Refreshes
<1> QED BY <1>1, <1>2, <1>3, <1>4, RefreshRows, RestartRows, BootRows DEF Next

\* The row of a rule that nobody writes says what the memory says, unless two
\* tasks wrote it at once, a later write than the first failed or was dropped,
\* or the rules were not loaded, and no request wrote the rule alone since
\* (save_rule, delete_rule and the rollbacks of the requests).
THEOREM RowsAreKept == Spec => []StoredAsRulesSay
<1>1. Init => Typed /\ Rows
  BY InitTyped, InitRows
<1>2. Typed /\ Rows /\ [Next]_vars => Typed' /\ Rows'
  BY StepTyped, StepRows
<1> QED BY <1>1, <1>2, PTL DEF Spec, Rows

-----------------------------------------------------------------------------
(* The listeners.                                                          *)

\* A step of a task that holds no lock, follows or misses every port it
\* followed, and follows the ports of which it changes the rules.
LEMMA TaskStepServed ==
  ASSUME Typed, Served, NEW h \in Handlers, NEW t \in Tasks, task' = [task EXCEPT ![h] = t],
         t.held = NoPort, task[h].left \subseteq t.left \cup missed',
         UNCHANGED <<listeners, booting>>, missed \subseteq missed',
         \A p \in Ports : booting[p] = "no",
         \A p \in Ports \ missed' : p \in t.left \/ Wanted(p)' = Wanted(p)
  PROVE  Served'
<1>1. task'[h] = t /\ \A g \in Handlers \ {h} : task'[g] = task[g]
  BY DEF Typed, TypeOK
<1>2. BootIsAlone'
  BY DEF BootIsAlone
<1>3. LocksExclude'
  BY <1>1 DEF Served, LocksExclude
<1>4. SnapsAreCurrent'
  <2> SUFFICES ASSUME NEW g \in Handlers, NEW p \in Ports \ missed', task'[g].held = p,
                      \A k \in Handlers \ {g} : p \notin task'[k].left
               PROVE  task'[g].snap = Wanted(p)'
    BY DEF SnapsAreCurrent
  <2>1. g # h /\ task'[g] = task[g]
    BY <1>1, NoPortAssumption
  <2>2. p \notin t.left /\ \A k \in Handlers \ {g} : p \notin task[k].left
    BY <1>1, <2>1
  <2> QED BY <2>1, <2>2 DEF Served, SnapsAreCurrent
<1>5. ServedAsRulesSay'
  <2> SUFFICES ASSUME NEW p \in Ports \ missed', \A k \in Handlers : p \notin task'[k].left
               PROVE  listeners'[p] = Wanted(p)'
    BY DEF ServedAsRulesSay, AtRest
  <2>1. p \notin t.left /\ \A k \in Handlers : p \notin task[k].left
    BY <1>1
  <2>2. AtRest(p)
    BY <2>1 DEF AtRest
  <2> QED BY <2>1, <2>2 DEF Served, ServedAsRulesSay
<1> QED BY <1>2, <1>3, <1>4, <1>5 DEF Served

\* The start is over while a request is handled.
LEMMA Started ==
  ASSUME Served, NEW h \in Handlers, task[h].pc # "idle"
  PROVE  \A p \in Ports : booting[p] = "no"
  BY DEF Served, BootIsAlone, Idle

\* What a port has to serve depends on the rules alone.
LEMMA WantedKept ==
  ASSUME rules' = rules
  PROVE  \A p : Wanted(p)' = Wanted(p)
  BY DEF Wanted

\* A new request holds no lock.
LEMMA BeginServed ==
  ASSUME Typed, Served, NEW h \in Handlers, NEW t \in Tasks, Begin(h, t), t.held = NoPort,
         UNCHANGED <<listeners, booting>>, missed \subseteq missed',
         \A p \in Ports \ missed' : p \in t.left \/ Wanted(p)' = Wanted(p)
  PROVE  Served'
<1>1. /\ task[h].left = {} /\ task' = [task EXCEPT ![h] = t]
      /\ \A p \in Ports : booting[p] = "no"
  BY DEF Begin, Idle
<1> QED BY <1>1, TaskStepServed

\* The requests, each as a new task that follows what it changes.
LEMMA CreateServed ==
  ASSUME Typed, Served, NEW h \in Handlers, NEW c \in Contents, Create(h, c)
  PROVE  Served'
<1> DEFINE t == [Idle EXCEPT !.pc = "save", !.op = "create", !.id = made', !.new = c]
<1>1. Begin(h, t) /\ UNCHANGED <<rules, listeners, booting, missed>>
  BY DEF Create
<1>2. t \in Tasks /\ t.held = NoPort
  <2>1. made' \in Ids /\ c \in Stored
    BY Consts DEF Create, Typed, TypeOK, Ids, Gateway, Stored
  <2> QED BY <2>1, EmptyTable DEF Idle, Tasks
<1> HIDE DEF t
<1> QED BY <1>1, <1>2, BeginServed, WantedKept

LEMMA UpdateServed ==
  ASSUME Typed, Served, NEW h \in Handlers, NEW i \in Ids, NEW c \in Contents, Update(h, i, c)
  PROVE  Served'
<1> DEFINE t == [Idle EXCEPT !.pc = "save", !.op = "update", !.id = i, !.old = rules[i], !.new = c]
<1>1. Begin(h, t) /\ UNCHANGED <<rules, listeners, booting, missed>>
  BY DEF Update
<1>2. t \in Tasks /\ t.held = NoPort
  BY EmptyTable DEF Idle, Tasks, Stored, Typed, TypeOK
<1> HIDE DEF t
<1> QED BY <1>1, <1>2, BeginServed, WantedKept

LEMMA PutGatewayServed ==
  ASSUME Typed, Served, NEW h \in Handlers, NEW c \in Contents, PutGateway(h, c)
  PROVE  Served'
<1> DEFINE t == [Idle EXCEPT !.pc = "save", !.op = "gateway", !.id = Gateway, !.new = c]
<1>1. Begin(h, t) /\ UNCHANGED <<rules, listeners, booting, missed>>
  BY DEF PutGateway
<1>2. t \in Tasks /\ t.held = NoPort
  BY Consts, EmptyTable DEF Idle, Tasks, Stored
<1> HIDE DEF t
<1> QED BY <1>1, <1>2, BeginServed, WantedKept

LEMMA DeleteServed ==
  ASSUME Typed, Served, NEW h \in Handlers, NEW i \in Ids, Delete(h, i)
  PROVE  Served'
<1> DEFINE ports == {p \in Ports : OnPort(rules[i], p)}
           t == [Idle EXCEPT !.pc = "erase", !.op = "delete", !.id = i, !.old = rules[i], !.left = ports]
<1>1. Begin(h, t) /\ SetRule(i, Absent, ports) /\ UNCHANGED <<listeners, booting>>
  BY DEF Delete
<1>2. t \in Tasks /\ t.held = NoPort /\ t.left = ports
  BY EmptyTable DEF Idle, Tasks, Typed, TypeOK
<1> HIDE DEF t, ports
<1>3. missed \subseteq missed' /\ \A p \in Ports \ missed' : p \in ports \/ Wanted(p)' = Wanted(p)
  BY <1>1, SetRuleChanges DEF Typed, TypeOK
<1> QED BY <1>1, <1>2, <1>3, BeginServed

\* The steps of a request that hold no lock.
LEMMA SaveServed ==
  ASSUME Typed, Served, NEW h \in Handlers, Save(h)
  PROVE  Served'
<1>1. /\ task[h] \in Tasks /\ task[h].pc = "save" /\ task[h].left = {} /\ task[h].held = NoPort
      /\ UNCHANGED <<rules, listeners, booting, missed>>
  BY TaskFits DEF Save, Shape
<1>2. \A p \in Ports : booting[p] = "no" /\ Wanted(p)' = Wanted(p)
  BY <1>1, Started, WantedKept
<1>3. CASE task' = [task EXCEPT ![h] = Idle]
  BY <1>1, <1>2, <1>3, IdleFits, TaskStepServed DEF Idle
<1>4. CASE task' = [task EXCEPT ![h].pc = "insert"]
  <2> DEFINE t == [task[h] EXCEPT !.pc = "insert"]
  <2>1. t \in Tasks /\ t.left = {} /\ t.held = NoPort /\ task' = [task EXCEPT ![h] = t]
    BY <1>1, <1>4 DEF Tasks
  <2> HIDE DEF t
  <2> QED BY <1>1, <1>2, <2>1, TaskStepServed
<1> QED BY <1>3, <1>4 DEF Save

LEMMA InsertServed ==
  ASSUME Typed, Served, NEW h \in Handlers, Insert(h)
  PROVE  Served'
<1> DEFINE t == [task[h] EXCEPT !.left = Followed(task[h])]
           u == IF t.op # "gateway" /\ t.new.kind = "http" THEN [t EXCEPT !.pc = "must"] ELSE Rest(t)
<1>1. /\ task[h].pc = "insert" /\ UNCHANGED <<listeners, booting>>
      /\ SetRule(t.id, t.new, t.left) /\ task' = [task EXCEPT ![h] = u]
  BY DEF Insert
<1>2. /\ task[h].left = {} /\ t \in Tasks /\ t.id \in Ids /\ t.new \in Stored \cup {Absent}
      /\ u \in Tasks /\ t.held = NoPort
  BY <1>1, InsertedFits, TaskFits DEF Shape
<1>3. u.held = NoPort /\ u.left = t.left
  BY <1>1, <1>2, InsertedFits DEF Tasks
<1> HIDE DEF t, u
<1>4. missed \subseteq missed' /\ \A p \in Ports \ missed' : p \in t.left \/ Wanted(p)' = Wanted(p)
  BY <1>1, <1>2, SetRuleChanges DEF Typed, TypeOK
<1> QED BY <1>1, <1>2, <1>3, <1>4, Started, TaskStepServed

LEMMA UndoServed ==
  ASSUME Typed, Served, NEW h \in Handlers, Undo(h)
  PROVE  Served'
<1> DEFINE t == [task[h] EXCEPT !.pc = "redo"]
<1>1. /\ task[h].pc = "undo" /\ UNCHANGED <<listeners, booting>>
      /\ SetRule(task[h].id, task[h].old, task[h].left) /\ task' = [task EXCEPT ![h] = t]
  BY DEF Undo
<1>2. t \in Tasks /\ t.held = NoPort /\ t.left = task[h].left
  BY <1>1, TaskFits DEF Tasks, Shape
<1>3. missed \subseteq missed' /\ \A p \in Ports \ missed' : p \in task[h].left \/ Wanted(p)' = Wanted(p)
  BY <1>1, TaskFits, SetRuleChanges DEF Typed, TypeOK
<1> HIDE DEF t
<1> QED BY <1>1, <1>2, <1>3, Started, TaskStepServed

LEMMA RewriteServed ==
  ASSUME Typed, Served, NEW h \in Handlers, Rewrite(h)
  PROVE  Served'
<1>1. /\ task[h] \in Tasks /\ Shape(task[h]) /\ task[h].pc \in {"redo", "erase"}
      /\ UNCHANGED <<rules, listeners, booting, missed>>
      /\ task' = [task EXCEPT ![h] = Rest(task[h])]
  BY TaskFits DEF Rewrite
<1>2. /\ task[h].held = NoPort /\ (task[h].op = "update" => task[h].old # Absent)
      /\ (task[h].op = "create" => task[h].old = Absent)
  BY <1>1 DEF Shape
<1>3. Rest(task[h]) \in Tasks /\ Rest(task[h]).left = task[h].left /\ Rest(task[h]).held = NoPort
  BY <1>1, <1>2, RestFits
<1>4. \A p \in Ports : booting[p] = "no" /\ Wanted(p)' = Wanted(p)
  BY <1>1, Started, WantedKept
<1> QED BY <1>1, <1>3, <1>4, TaskStepServed

\* The lock is free, and the copy is of the rules as they are.
LEMMA SnapshotServed ==
  ASSUME Typed, Served, NEW h \in Handlers, Snapshot(h)
  PROVE  Served'
<1>1. /\ task[h] \in Tasks /\ Shape(task[h]) /\ task[h].pc \in {"must", "rest"}
      /\ UNCHANGED <<rules, listeners, booting>>
  BY TaskFits DEF Snapshot
<1>2. PICK p \in PortsOf(task[h]) :
        /\ \A g \in Handlers : task[g].held # p
        /\ task' = [task EXCEPT ![h].held = p, ![h].snap = Wanted(p)]
        /\ missed' = missed \ {p}
  BY DEF Snapshot
<1>3. p \in task[h].left
  BY <1>1 DEF PortsOf, Shape
<1>4. /\ \A g \in Handlers \ {h} : task'[g] = task[g]
      /\ task'[h].held = p /\ task'[h].snap = Wanted(p) /\ task'[h].left = task[h].left
  BY <1>1, <1>2 DEF Typed, TypeOK, Tasks
<1>5. missed' = missed \ {p} /\ \A g \in Handlers \ {h} : task'[g].held # p
  BY <1>2, <1>4
<1>6. /\ \A q \in Ports : booting[q] = "no" /\ Wanted(q)' = Wanted(q)
      /\ p \in Ports
  BY <1>1, <1>3, Started, WantedKept, TaskFits
<1>7. BootIsAlone'
  BY <1>1, <1>6 DEF BootIsAlone
<1>8. LocksExclude'
  BY <1>4, <1>5 DEF Served, LocksExclude
<1>9. SnapsAreCurrent'
  <2> SUFFICES ASSUME NEW g \in Handlers, NEW q \in Ports \ missed', task'[g].held = q,
                      \A k \in Handlers \ {g} : q \notin task'[k].left
               PROVE  task'[g].snap = Wanted(q)'
    BY DEF SnapsAreCurrent
  <2>1. CASE g = h
    BY <1>4, <1>6, <2>1
  <2>2. CASE g # h
    <3>1. task[g].held = q /\ q # p /\ q \notin missed
      BY <1>4, <1>5, <2>2
    <3>2. \A k \in Handlers \ {g} : q \notin task[k].left
      BY <1>4
    <3>3. task[g].snap = Wanted(q)
      BY <3>1, <3>2 DEF Served, SnapsAreCurrent
    <3> QED BY <1>4, <1>6, <2>2, <3>3
  <2> QED BY <2>1, <2>2
<1>10. ServedAsRulesSay'
  <2> SUFFICES ASSUME NEW q \in Ports \ missed', \A k \in Handlers : q \notin task'[k].left
               PROVE  listeners'[q] = Wanted(q)'
    BY DEF ServedAsRulesSay, AtRest
  <2>1. \A k \in Handlers : q \notin task[k].left
    BY <1>4
  <2>2. q # p /\ q \notin missed /\ AtRest(q)
    BY <1>2, <1>3, <1>6, <2>1 DEF AtRest
  <2>3. listeners[q] = Wanted(q)
    BY <2>2 DEF Served, ServedAsRulesSay
  <2> QED BY <1>1, <1>6, <2>3
<1> QED BY <1>7, <1>8, <1>9, <1>10 DEF Served

\* A port that nobody else follows gets the rules as they are; a request that
\* is taken back follows its ports again.
LEMMA ApplyServed ==
  ASSUME Typed, Served, NEW h \in Handlers, Apply(h)
  PROVE  Served'
<1> DEFINE q == task[h].held
<1>1. /\ task[h] \in Tasks /\ Shape(task[h]) /\ q # NoPort /\ q \in task[h].left /\ q \in Ports
      /\ task[h].pc \in {"must", "rest"} /\ UNCHANGED <<rules, booting>>
  BY TaskFits DEF Apply, Shape
<1>2. PICK r \in Results(q, task[h].snap) :
        /\ listeners' = [listeners EXCEPT ![q] = r.table]
        /\ missed' = missed \cup IF r.err = "none" THEN {} ELSE {q}
        /\ task' = [task EXCEPT ![h] = IF r.err # "none" /\ Reconciled(task[h]).pc = "must"
                                       THEN TakenBack(task[h]) ELSE Rest(Reconciled(task[h]))]
  BY DEF Apply, Reconciled, TakenBack
<1>3. r.err = "none" => r.table = task[h].snap
  BY <1>1, TaskFits, ResultsAreTables DEF Typed, TypeOK
<1>4. /\ \A g \in Handlers \ {h} : task'[g] = task[g]
      /\ task'[h].held = NoPort /\ task[h].left \ {q} \subseteq task'[h].left
  <2>1. CASE r.err # "none" /\ task[h].pc = "must"
    <3>1. task' = [task EXCEPT ![h] = TakenBack(task[h])]
      BY <1>1, <1>2, <2>1, ReconciledFits
    <3> QED BY <1>1, <2>1, <3>1, TakenBackFits DEF Typed, TypeOK
  <2>2. CASE ~(r.err # "none" /\ task[h].pc = "must")
    <3>1. task' = [task EXCEPT ![h] = Rest(Reconciled(task[h]))]
      BY <1>1, <1>2, <2>2, ReconciledFits
    <3> QED BY <1>1, <3>1, ReconciledFits DEF Typed, TypeOK
  <2> QED BY <2>1, <2>2
<1>5. \A p \in Ports : booting[p] = "no" /\ Wanted(p)' = Wanted(p)
  BY <1>1, Started, WantedKept
<1>6. BootIsAlone'
  BY <1>1, <1>5 DEF BootIsAlone
<1>7. LocksExclude'
  BY <1>4 DEF Served, LocksExclude
<1>8. SnapsAreCurrent'
  <2> SUFFICES ASSUME NEW g \in Handlers, NEW p \in Ports \ missed', task'[g].held = p,
                      \A k \in Handlers \ {g} : p \notin task'[k].left
               PROVE  task'[g].snap = Wanted(p)'
    BY DEF SnapsAreCurrent
  <2>1. g # h /\ task[g] = task'[g] /\ p \notin missed
    BY <1>2, <1>4, NoPortAssumption
  <2>2. p # q
    BY <1>1, <2>1 DEF Served, LocksExclude
  <2>3. \A k \in Handlers \ {g} : p \notin task[k].left
    BY <1>4, <2>1, <2>2
  <2>4. task[g].snap = Wanted(p)
    BY <2>1, <2>3 DEF Served, SnapsAreCurrent
  <2> QED BY <1>5, <2>1, <2>4
<1>9. ServedAsRulesSay'
  <2> SUFFICES ASSUME NEW p \in Ports \ missed', \A k \in Handlers : p \notin task'[k].left
               PROVE  listeners'[p] = Wanted(p)'
    BY DEF ServedAsRulesSay, AtRest
  <2>1. p \notin missed /\ \A k \in Handlers \ {h} : p \notin task[k].left
    BY <1>2, <1>4
  <2>2. CASE p = q
    <3>1. r.err = "none"
      BY <1>2, <2>2
    <3>2. task[h].snap = Wanted(p)
      BY <2>1, <2>2 DEF Served, SnapsAreCurrent
    <3> QED BY <1>2, <1>3, <1>5, <2>2, <3>1, <3>2 DEF Typed, TypeOK
  <2>3. CASE p # q
    <3>1. AtRest(p)
      BY <1>4, <1>5, <2>1, <2>3 DEF AtRest
    <3>2. listeners[p] = Wanted(p)
      BY <2>1, <3>1 DEF Served, ServedAsRulesSay
    <3> QED BY <1>2, <1>5, <2>3, <3>2 DEF Typed, TypeOK
  <2> QED BY <2>2, <2>3
<1> QED BY <1>6, <1>7, <1>8, <1>9 DEF Served

\* A port of which the listener stops is still followed.
LEMMA StopServed ==
  ASSUME Typed, Served, NEW h \in Handlers, Stop(h)
  PROVE  Served'
<1> DEFINE q == task[h].held
<1>1. /\ q \in task[h].left /\ q \in Ports /\ UNCHANGED <<rules, task, booting, missed>>
      /\ \A p \in Ports : p # q => listeners'[p] = listeners[p]
  BY TaskFits DEF Stop, Shape, Typed, TypeOK
<1>2. \A p : Wanted(p)' = Wanted(p)
  BY <1>1, WantedKept
<1>3. \A p \in Ports : AtRest(p)' => AtRest(p) /\ p # q
  BY <1>1 DEF AtRest
<1> QED BY <1>1, <1>2, <1>3 DEF Served, BootIsAlone, LocksExclude, SnapsAreCurrent, ServedAsRulesSay

\* A request that is dropped misses the ports that it followed.
LEMMA DropServed ==
  ASSUME Typed, Served, NEW h \in Handlers, Drop(h)
  PROVE  Served'
<1>1. /\ task' = [task EXCEPT ![h] = Idle] /\ UNCHANGED <<rules, listeners, booting>>
      /\ missed' = missed \cup task[h].left
      /\ task[h].pc # "idle"
  BY TaskFits DEF Drop, Shape
<1>2. \A p \in Ports : booting[p] = "no" /\ Wanted(p)' = Wanted(p)
  BY <1>1, Started, WantedKept
<1> QED BY <1>1, <1>2, IdleFits, TaskStepServed DEF Idle

\* The refresh of the certificates' states changes rows only.
LEMMA RefreshServed ==
  ASSUME Served, UNCHANGED <<rules, listeners, task, booting, missed>>
  PROVE  Served'
<1>1. \A p : Wanted(p)' = Wanted(p)
  BY WantedKept
<1> QED BY <1>1 DEF Served, BootIsAlone, LocksExclude, SnapsAreCurrent, ServedAsRulesSay, AtRest

\* A start has no listener, and a port without rules needs none.
LEMMA NothingIsServed ==
  ASSUME NEW p, \A i \in Ids : ~OnPort(rules[i], p)
  PROVE  Wanted(p) = Empty
<1> DEFINE S == {j \in Ids : OnPort(rules[j], p) /\ rules[j].on}
<1>1. S = {}
  OBVIOUS
<1>2. [i \in S |-> rules[i]] = [i \in {} |-> Absent]
  BY <1>1
<1> QED BY <1>2 DEF Wanted, Empty

LEMMA RestartServed ==
  ASSUME Typed, Restart
  PROVE  Served'
<1>1. \A g \in Handlers : task'[g] = Idle
  BY DEF Restart
<1>2. BootIsAlone'
  BY <1>1 DEF BootIsAlone
<1>3. \A g \in Handlers : task'[g].held = NoPort
  BY <1>1 DEF Idle
<1>4. LocksExclude' /\ SnapsAreCurrent'
  BY <1>3, NoPortAssumption DEF LocksExclude, SnapsAreCurrent
<1>5. ServedAsRulesSay'
  <2> SUFFICES ASSUME NEW p \in Ports, booting'[p] = "no" PROVE listeners'[p] = Wanted(p)'
    BY DEF ServedAsRulesSay, AtRest
  <2>1. \A i \in Ids : ~OnPort(rules'[i], p)
    BY DEF Restart
  <2>2. {i \in Ids : OnPort(rules'[i], p) /\ rules'[i].on} = {}
    BY <2>1
  <2>3. Wanted(p)' = Empty
    BY <2>2 DEF Wanted, Empty
  <2> QED BY <2>3 DEF Restart
<1> QED BY <1>2, <1>4, <1>5 DEF Served

\* The start leaves a port once it serves its rules or its error is final, and
\* switches off rules of that port only.
LEMMA BootServed ==
  ASSUME Typed, Served, NEW p \in Ports, Boot(p)
  PROVE  Served'
<1>1. /\ \A g \in Handlers : task[g] = Idle
      /\ \A g \in Handlers : task[g].held = NoPort
      /\ UNCHANGED task
  BY DEF Boot, Served, BootIsAlone, Idle
<1>2. BootIsAlone' /\ LocksExclude' /\ SnapsAreCurrent'
  BY <1>1, NoPortAssumption DEF BootIsAlone, LocksExclude, SnapsAreCurrent
<1>3. PICK r \in Results(p, Wanted(p)) :
        LET retry == r.err # "none" /\ booting[p] = "first"
            victims == IF retry THEN Victims(p, r.err) ELSE {}
        IN /\ listeners' = [listeners EXCEPT ![p] = r.table]
           /\ rules' = [i \in Ids |-> IF i \in victims THEN Off(rules[i]) ELSE rules[i]]
           /\ booting' = [booting EXCEPT ![p] = IF retry THEN "again" ELSE "no"]
           /\ missed' = missed \cup IF r.err = "none" \/ retry THEN {} ELSE {p}
  BY DEF Boot
<1>4. PICK V :
        /\ V = IF r.err # "none" /\ booting[p] = "first" THEN Victims(p, r.err) ELSE {}
        /\ listeners' = [listeners EXCEPT ![p] = r.table]
        /\ rules' = [i \in Ids |-> IF i \in V THEN Off(rules[i]) ELSE rules[i]]
        /\ booting' = [booting EXCEPT ![p] =
             IF r.err # "none" /\ booting[p] = "first" THEN "again" ELSE "no"]
        /\ missed' = missed \cup
             IF r.err = "none" \/ (r.err # "none" /\ booting[p] = "first") THEN {} ELSE {p}
  BY <1>3
<1>5. \A i \in V : i \in Ids /\ OnPort(rules[i], p) /\ Off(rules[i]).port = p
  <2> SUFFICES ASSUME NEW i \in V PROVE i \in Ids /\ OnPort(rules[i], p) /\ Off(rules[i]).port = p
    OBVIOUS
  <2>1. i \in Ids /\ OnPort(rules[i], p) /\ rules[i] \in Stored
    BY <1>4, VictimsAreOn DEF Typed, TypeOK
  <2> QED BY <2>1, StoredFields DEF OnPort
<1>6. ServedAsRulesSay'
  <2> SUFFICES ASSUME NEW q \in Ports \ missed', booting'[q] = "no"
               PROVE  listeners'[q] = Wanted(q)'
    BY DEF ServedAsRulesSay, AtRest
  <2>1. CASE q = p
    <3>1. ~(r.err # "none" /\ booting[p] = "first")
      BY <1>4, <2>1 DEF Typed, TypeOK
    <3>2. r.err = "none" /\ V = {}
      BY <1>4, <2>1, <3>1
    <3>3. rules' = rules
      BY <1>4, <3>2 DEF Typed, TypeOK
    <3>4. r.table = Wanted(p)
      BY <3>2, WantedIsTable, ResultsAreTables DEF Typed, TypeOK
    <3> QED BY <1>4, <2>1, <3>3, <3>4, WantedKept DEF Typed, TypeOK
  <2>2. CASE q # p
    <3>1. AtRest(q) /\ q \notin missed
      BY <1>1, <1>4, <2>2 DEF AtRest, Idle, Typed, TypeOK
    <3>2. listeners[q] = Wanted(q)
      BY <3>1 DEF Served, ServedAsRulesSay
    <3>3. \A i \in Ids : /\ OnPort(rules'[i], q) = OnPort(rules[i], q)
                         /\ OnPort(rules[i], q) => rules'[i] = rules[i]
      BY <1>4, <1>5, <2>2 DEF OnPort
    <3>4. Wanted(q)' = Wanted(q)
      BY <3>3 DEF Wanted
    <3> QED BY <1>4, <2>2, <3>2, <3>4 DEF Typed, TypeOK
  <2> QED BY <2>1, <2>2
<1> QED BY <1>2, <1>6 DEF Served

LEMMA InitServed == Init => Served
<1> SUFFICES ASSUME Init PROVE Served
  OBVIOUS
<1>1. \A g \in Handlers : task[g] = Idle /\ task[g].held = NoPort
  BY DEF Init, Idle
<1>2. BootIsAlone /\ LocksExclude /\ SnapsAreCurrent
  BY <1>1, NoPortAssumption DEF BootIsAlone, LocksExclude, SnapsAreCurrent
<1>3. \A p \in Ports : listeners[p] = Wanted(p)
  BY NothingIsServed DEF Init, OnPort
<1> QED BY <1>2, <1>3 DEF Served, ServedAsRulesSay

LEMMA StepServed == Typed /\ Served /\ [Next]_vars => Served'
<1> SUFFICES ASSUME Typed, Served, [Next]_vars PROVE Served'
  OBVIOUS
<1>1. ASSUME NEW h \in Handlers, NEW c \in Contents, Create(h, c) \/ PutGateway(h, c)
      PROVE  Served'
  BY <1>1, CreateServed, PutGatewayServed
<1>2. ASSUME NEW h \in Handlers, NEW i \in Ids, Delete(h, i) \/ \E c \in Contents : Update(h, i, c)
      PROVE  Served'
  BY <1>2, DeleteServed, UpdateServed
<1>3. ASSUME NEW h \in Handlers,
             Save(h) \/ Insert(h) \/ Snapshot(h) \/ Stop(h) \/ Apply(h) \/ Undo(h) \/ Rewrite(h) \/ Drop(h)
      PROVE  Served'
  BY <1>3, SaveServed, InsertServed, SnapshotServed, StopServed, ApplyServed, UndoServed,
     RewriteServed, DropServed
<1>4. ASSUME UNCHANGED vars \/ RefreshBegin \/ RefreshSave \/ \E i \in Ids : RefreshRead(i)
      PROVE  Served'
  BY <1>4, RefreshServed DEF vars, RefreshBegin, RefreshRead, RefreshSave
<1> QED BY <1>1, <1>2, <1>3, <1>4, RestartServed, BootServed DEF Next

\* A port that nobody is going to reconcile serves its rules as they are in
\* memory, unless its last reconciliation failed or was dropped, or a rule was
\* changed without one to follow (reconcile_http_listener and its callers).
THEOREM PortsAreServed == Spec => []ServedAsRulesSay
<1>1. Init => Typed /\ Served
  BY InitTyped, InitServed
<1>2. Typed /\ Served /\ [Next]_vars => Typed' /\ Served'
  BY StepTyped, StepServed
<1> QED BY <1>1, <1>2, PTL DEF Spec, Served
=============================================================================
