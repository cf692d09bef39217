----------------------------- MODULE ProxyRules -----------------------------
(***************************************************************************)
(* The rules of the reverse proxy and the HTTP listeners they share: the   *)
(* rows of the database, the rules in memory, and for each port the        *)
(* listener with the table of rules it was last given.  Requests of the    *)
(* management API change the rows, then the memory, then reconcile the     *)
(* listeners, each step after an await; they run at the same time as each  *)
(* other and as the refresh of the certificates' states.  A request is     *)
(* dropped between any two steps when its caller disconnects, and the      *)
(* server may restart there.                                               *)
(*                                                                         *)
(* A rule has one domain.  Routes, backends and the certificates' states   *)
(* do not matter here; certificates do, as a listener with TLS needs them. *)
(***************************************************************************)
EXTENDS Naturals, FiniteSets

CONSTANTS
  Ports,      \* listen addresses
  Contents,   \* contents that a request may give a rule
  Handlers,   \* requests that are handled at one time
  MaxRules,   \* rules created by POST; a higher id is younger
  MaxAsked,   \* requests in all
  MaxFaults,  \* restarts, failed writes of a row, failed binds, dropped requests
  Absent,     \* no rule
  NoPort      \* no port

Content == [kind : {"http", "llm", "other"}, port : Ports, domain : STRING,
            tls : BOOLEAN, on : BOOLEAN]

ASSUME BoundsAssumption == {MaxRules, MaxAsked, MaxFaults} \subseteq Nat
ASSUME NoPortAssumption == NoPort \notin Ports

Off(c) == [c EXCEPT !.on = FALSE]

\* What a rule may be: as a request wrote it, or switched off at a start.
Stored == Contents \cup {Off(c) : c \in Contents}

ASSUME ContentsAssumption == Contents \subseteq Content /\ Absent \notin Stored

VARIABLES
  certs,       \* the server has a certificate manager
  db,          \* rows of proxy_rules
  rules,       \* ReverseProxyState::rules
  listeners,   \* shared_listeners: the table of each port, empty without one
  task,        \* task[h]: the request that h handles
  refresh,     \* the reactor to certificate events: what it will save
  booting,     \* booting[p]: how often the start will still reconcile p
  made,        \* rules created so far
  asked,       \* requests so far
  faults,      \* faults so far
  missed,      \* history: ports behind their rules, by failure, omission or a dropped request
  contested    \* history: rules whose row two writers or a fault may have left behind

setup == <<certs, made, asked>>
vars == <<certs, db, rules, listeners, task, refresh, booting, made, asked, faults, missed, contested>>

Gateway == 0                  \* __llm_gateway__
Ids == Gateway..MaxRules

Tables == UNION {[S -> Stored] : S \in SUBSET Ids}
Empty == [i \in {} |-> Absent]

Idle == [pc |-> "idle", op |-> "none", id |-> Gateway, old |-> Absent, new |-> Absent,
         left |-> {}, held |-> NoPort, snap |-> Empty]

Tasks ==
  [pc : {"idle", "save", "insert", "must", "rest", "undo", "redo", "erase"},
   op : {"none", "create", "update", "delete", "gateway"}, id : Ids,
   old : Stored \cup {Absent}, new : Stored \cup {Absent},
   left : SUBSET Ports, held : Ports \cup {NoPort}, snap : Tables]

\* Every variable has its type; a task holds the lock of a port only to
\* reconcile it, and ends when there is none left (ReverseProxyState, the
\* handlers' locals).
TypeOK ==
  /\ certs \in BOOLEAN
  /\ db \in [Ids -> Stored \cup {Absent}] /\ rules \in [Ids -> Stored \cup {Absent}]
  /\ listeners \in [Ports -> Tables]
  /\ task \in [Handlers -> Tasks]
  /\ \A h \in Handlers :
       /\ task[h].held \in task[h].left \cup {NoPort}
       /\ task[h].pc = "rest" => task[h].left # {}
  /\ refresh \in [todo : SUBSET Ids, id : Ids, row : Stored \cup {Absent}]
  /\ booting \in [Ports -> {"no", "first", "again"}]
  /\ missed \subseteq Ports /\ contested \subseteq Ids
  /\ made \in 0..MaxRules /\ asked \in 0..MaxAsked /\ faults \in 0..MaxFaults

Init ==
  /\ certs \in BOOLEAN
  /\ db = [i \in Ids |-> Absent] /\ rules = db
  /\ listeners = [p \in Ports |-> Empty]
  /\ task = [h \in Handlers |-> Idle]
  /\ refresh = [todo |-> {}, id |-> Gateway, row |-> Absent]
  /\ booting = [p \in Ports |-> "no"] /\ missed = {} /\ contested = {}
  /\ made = 0 /\ asked = 0 /\ faults = 0

-----------------------------------------------------------------------------
(* What a listener serves.                                                 *)

OnPort(c, p) == c # Absent /\ c.kind \in {"http", "llm"} /\ c.port = p

\* The rules that a listener of port p has to serve.
Wanted(p) == [i \in {j \in Ids : OnPort(rules[j], p) /\ rules[j].on} |-> rules[i]]

Tls(table) == \E i \in DOMAIN table : table[i].tls

\* Which error is met first depends on the order of a hash map.
Conflicts(table) ==
  {e \in {"tls", "domain"} : \E i, j \in DOMAIN table :
     /\ i # j
     /\ IF e = "tls" THEN table[i].tls # table[j].tls
        ELSE table[i].domain = table[j].domain /\ table[i].tls = table[j].tls}

CanFail == faults < MaxFaults

\* Port p has a listener that the rules of a snapshot have no use for.
Outdated(p, snap) ==
  /\ listeners[p] # Empty
  /\ snap = Empty \/ (Conflicts(snap) = {} /\ Tls(listeners[p]) # Tls(snap))

\* What reconciling port p with the rules of a snapshot may come to, once an
\* outdated listener is stopped: any other gets the new table.
Results(p, snap) ==
  LET done(e, t) == [err |-> e, table |-> t]
  IN IF snap = Empty THEN {done("none", Empty)}
     ELSE IF Conflicts(snap) # {} THEN {done(e, listeners[p]) : e \in Conflicts(snap)}
     ELSE IF listeners[p] # Empty THEN {done("none", snap)}
     ELSE IF Tls(snap) /\ ~certs THEN {done("certs", Empty)}
     ELSE {done("none", snap)} \cup (IF CanFail THEN {done("bind", Empty)} ELSE {})

Fault(failed) ==
  IF failed THEN CanFail /\ faults' = faults + 1 ELSE UNCHANGED faults

-----------------------------------------------------------------------------
(* The steps that requests share.                                          *)

\* The ports whose tables a rule with this content changes.
ServedOn(c) == {p \in Ports : OnPort(c, p) /\ c.on}

\* Rule i gets content c; the task will reconcile the followed ports.
SetRule(i, c, followed) ==
  /\ rules' = [rules EXCEPT ![i] = c]
  /\ missed' = missed \cup
       IF rules[i] = c THEN {} ELSE (ServedOn(rules[i]) \cup ServedOn(c)) \ followed

SetRow(i, c) == db' = [db EXCEPT ![i] = c]

\* One of H, or the refresh, is between the first and the last of its writes
\* of rule i.
WrittenBy(H, i) ==
  \/ \E h \in H : task[h].id = i /\ task[h].pc \notin {"idle", "rest"}
  \/ refresh.id = i /\ refresh.row # Absent

Written(i) == WrittenBy(Handlers, i)

Contest(I) == contested' = contested \cup {i \in I : Written(i)}

Begin(h, t) ==
  /\ \A p \in Ports : booting[p] = "no"
  /\ asked < MaxAsked /\ asked' = asked + 1 /\ UNCHANGED certs
  /\ task[h] = Idle
  /\ task' = [task EXCEPT ![h] = t]

\* What is left is to reconcile ports, and to log it when that fails.
Rest(t) == IF t.left = {} THEN Idle ELSE [t EXCEPT !.pc = "rest"]

\* The row is written before the memory.  Both are as before when that
\* fails; a task that writes the rule alone makes them agree again.
Save(h) ==
  /\ task[h].pc = "save"
  /\ \E failed \in BOOLEAN :
       /\ Fault(failed)
       /\ IF failed
          THEN /\ task' = [task EXCEPT ![h] = Idle]
               /\ UNCHANGED <<db, contested>>
          ELSE /\ task' = [task EXCEPT ![h].pc = "insert"]
               /\ SetRow(task[h].id, task[h].new)
               /\ contested' = IF WrittenBy(Handlers \ {h}, task[h].id) THEN contested
                               ELSE contested \ {task[h].id}
  /\ UNCHANGED <<rules, listeners, refresh, booting, setup, missed>>

\* The ports that a request reconciles after the change of the rule.
Followed(t) ==
  IF t.op = "gateway" THEN {t.new.port}
  ELSE (IF t.new.kind = "http" THEN {t.new.port} ELSE {})
       \cup (IF t.old # Absent /\ t.old.kind = "http" THEN {t.old.port} \ {t.new.port} ELSE {})

Insert(h) ==
  /\ task[h].pc = "insert"
  /\ LET t == [task[h] EXCEPT !.left = Followed(task[h])]
     IN /\ SetRule(t.id, t.new, t.left)
        /\ task' = [task EXCEPT ![h] = IF t.op # "gateway" /\ t.new.kind = "http"
                                       THEN [t EXCEPT !.pc = "must"] ELSE Rest(t)]
  /\ UNCHANGED <<db, listeners, refresh, booting, setup, faults, contested>>

-----------------------------------------------------------------------------
(* reconcile_http_listener, under the lock of its port.                    *)

PortsOf(t) == IF t.pc = "must" THEN {t.new.port} ELSE t.left

\* Seeded fault: no lock.
BugSnapshot(h) ==
  /\ task[h].pc \in {"must", "rest"} /\ task[h].held = NoPort
  /\ \E p \in PortsOf(task[h]) :
       /\ task' = [task EXCEPT ![h].held = p, ![h].snap = Wanted(p)]
       /\ missed' = missed \ {p}
  /\ UNCHANGED <<db, rules, listeners, refresh, booting, setup, faults, contested>>

\* The lock is taken, then the rules of the port are copied.
Snapshot(h) ==
  /\ task[h].pc \in {"must", "rest"} /\ task[h].held = NoPort
  /\ \E p \in PortsOf(task[h]) :
       /\ \A g \in Handlers : task[g].held # p
       /\ task' = [task EXCEPT ![h].held = p, ![h].snap = Wanted(p)]
       /\ missed' = missed \ {p}
  /\ UNCHANGED <<db, rules, listeners, refresh, booting, setup, faults, contested>>

\* A listener that is of no use any more is taken out and waited for first.
Stop(h) ==
  /\ task[h].held # NoPort
  /\ Outdated(task[h].held, task[h].snap)
  /\ listeners' = [listeners EXCEPT ![task[h].held] = Empty]
  /\ UNCHANGED <<db, rules, task, refresh, booting, setup, faults, missed, contested>>

\* Seeded fault: the lock outlives the call.
BugApply(h) ==
  /\ task[h].held # NoPort /\ ~Outdated(task[h].held, task[h].snap)
  /\ \E r \in Results(task[h].held, task[h].snap) :
       /\ listeners' = [listeners EXCEPT ![task[h].held] = r.table]
       /\ task' = [task EXCEPT ![h].left = @ \ {task[h].held}, ![h].pc = "rest"]
       /\ missed' = missed \cup IF r.err = "none" THEN {} ELSE {task[h].held}
       /\ Fault(r.err = "bind")
  /\ UNCHANGED <<db, rules, refresh, booting, setup, contested>>

\* An error on the rule's own port takes the request back; an update then
\* reconciles both its ports again.
Apply(h) ==
  /\ task[h].held # NoPort /\ ~Outdated(task[h].held, task[h].snap)
  /\ \E r \in Results(task[h].held, task[h].snap) :
       LET t == [task[h] EXCEPT !.held = NoPort, !.snap = Empty, !.left = @ \ {task[h].held}]
       IN /\ listeners' = [listeners EXCEPT ![task[h].held] = r.table]
          /\ Fault(r.err = "bind")
          /\ missed' = missed \cup IF r.err = "none" THEN {} ELSE {task[h].held}
          /\ task' = [task EXCEPT ![h] =
               IF r.err # "none" /\ t.pc = "must"
               THEN [t EXCEPT !.pc = "undo",
                              !.left = IF t.op = "update" THEN {t.old.port, t.new.port} ELSE {}]
               ELSE Rest(t)]
  /\ UNCHANGED <<db, rules, refresh, booting, setup, contested>>

\* The memory is put back first.
Undo(h) ==
  /\ task[h].pc = "undo"
  /\ SetRule(task[h].id, task[h].old, task[h].left)
  /\ task' = [task EXCEPT ![h].pc = "redo"]
  /\ UNCHANGED <<db, listeners, refresh, booting, setup, faults, contested>>

\* Seeded fault: an update that is taken back leaves its row.
BugRewrite(h) ==
  /\ task[h].pc \in {"redo", "erase"}
  /\ IF task[h].op = "update" THEN UNCHANGED db ELSE SetRow(task[h].id, Absent)
  /\ task' = [task EXCEPT ![h] = Rest(@)]
  /\ UNCHANGED <<rules, listeners, refresh, booting, setup, faults, missed, contested>>

\* Then the row, of which a failure is ignored; DELETE removes its own here.
Rewrite(h) ==
  /\ task[h].pc \in {"redo", "erase"}
  /\ \E failed \in BOOLEAN :
       /\ Fault(failed)
       /\ IF failed THEN UNCHANGED db
          ELSE SetRow(task[h].id, IF task[h].pc = "redo" THEN task[h].old ELSE Absent)
       /\ contested' = contested \cup IF failed THEN {task[h].id} ELSE {}
  /\ task' = [task EXCEPT ![h] = Rest(@)]
  /\ UNCHANGED <<rules, listeners, refresh, booting, setup, missed>>

-----------------------------------------------------------------------------
(* Requests.                                                               *)

\* The caller disconnects and the handler is dropped where it waits: its
\* changes stay, and nobody makes the rest of them.
Drop(h) ==
  /\ task[h] # Idle
  /\ Fault(TRUE)
  /\ task' = [task EXCEPT ![h] = Idle]
  /\ missed' = missed \cup task[h].left
  /\ contested' = contested \cup
       IF task[h].pc \in {"insert", "redo", "erase"} THEN {task[h].id} ELSE {}
  /\ UNCHANGED <<db, rules, listeners, refresh, booting, setup>>

Create(h, c) ==
  /\ made < MaxRules
  /\ made' = made + 1
  /\ Begin(h, [Idle EXCEPT !.pc = "save", !.op = "create", !.id = made', !.new = c])
  /\ Contest({made'})
  /\ UNCHANGED <<db, rules, listeners, refresh, booting, faults, missed>>

Update(h, i, c) ==
  /\ rules[i] # Absent
  /\ Begin(h, [Idle EXCEPT !.pc = "save", !.op = "update", !.id = i, !.old = rules[i], !.new = c])
  /\ Contest({i})
  /\ UNCHANGED <<db, rules, listeners, refresh, booting, made, faults, missed>>

\* Memory first; with the row gone the two agree, unless somebody writes too.
Delete(h, i) ==
  /\ rules[i] # Absent
  /\ LET ports == {p \in Ports : OnPort(rules[i], p)}
     IN /\ Begin(h, [Idle EXCEPT !.pc = "erase", !.op = "delete", !.id = i,
                                 !.old = rules[i], !.left = ports])
        /\ SetRule(i, Absent, ports)
  /\ contested' = IF Written(i) THEN contested \cup {i} ELSE contested \ {i}
  /\ UNCHANGED <<db, listeners, refresh, booting, made, faults>>

PutGateway(h, c) ==
  /\ c.kind = "llm"
  /\ Begin(h, [Idle EXCEPT !.pc = "save", !.op = "gateway", !.id = Gateway, !.new = c])
  /\ Contest({Gateway})
  /\ UNCHANGED <<db, rules, listeners, refresh, booting, made, faults, missed>>

-----------------------------------------------------------------------------
(* refresh_all_cert_status, one run at a time: it writes rules as they are *)
(* in memory, with another state of their certificate.                     *)

RefreshBegin ==
  /\ certs /\ refresh.todo = {} /\ refresh.row = Absent
  /\ \E S \in SUBSET {i \in Ids : rules[i] # Absent /\ rules[i].tls} :
       S # {} /\ refresh' = [refresh EXCEPT !.todo = S]
  /\ UNCHANGED <<db, rules, listeners, task, booting, setup, faults, missed, contested>>

RefreshRead(i) ==
  /\ i \in refresh.todo /\ refresh.row = Absent
  /\ refresh' = [todo |-> refresh.todo \ {i}, id |-> i, row |-> rules[i]]
  /\ Contest({i})
  /\ UNCHANGED <<db, rules, listeners, task, booting, setup, faults, missed>>

RefreshSave ==
  /\ refresh.row # Absent
  /\ \E failed \in BOOLEAN :
       /\ Fault(failed)
       /\ IF failed THEN UNCHANGED db ELSE SetRow(refresh.id, refresh.row)
  /\ refresh' = [refresh EXCEPT !.id = Gateway, !.row = Absent]
  /\ UNCHANGED <<rules, listeners, task, booting, setup, missed, contested>>

-----------------------------------------------------------------------------
(* The server stops at any point and starts again, without a rule in       *)
(* memory when they cannot be loaded.                                      *)

Restart ==
  /\ Fault(TRUE)
  /\ rules' \in {db, [i \in Ids |-> Absent]}
  /\ listeners' = [p \in Ports |-> Empty]
  /\ task' = [h \in Handlers |-> Idle]
  /\ refresh' = [todo |-> {}, id |-> Gateway, row |-> Absent]
  /\ booting' = [p \in Ports |-> IF \E i \in Ids : OnPort(rules'[i], p) THEN "first" ELSE "no"]
  /\ missed' = {} /\ contested' = {i \in Ids : rules'[i] # db[i]}
  /\ UNCHANGED <<db, made, asked>> /\ certs' \in BOOLEAN

\* disable_conflicting_rules_on_port: only rules of type http.
Victims(p, err) ==
  LET onPort == {i \in DOMAIN Wanted(p) : rules[i].kind = "http"}
      secure == {i \in onPort : rules[i].tls}
      oldest(i) == \A j \in onPort : i <= j
      keepTls == \/ Cardinality(secure) > Cardinality(onPort \ secure)
                 \/ /\ Cardinality(secure) = Cardinality(onPort \ secure)
                    /\ \E i \in secure : oldest(i)
  IN CASE err = "domain" -> {i \in onPort : \E j \in onPort : j < i /\ rules[j].domain = rules[i].domain}
       [] err = "tls" -> IF keepTls THEN onPort \ secure ELSE secure
       [] err = "certs" -> secure
       [] OTHER -> {}

\* After an error some rules are switched off, in the database as far as
\* their rows can be written, and the port is reconciled once more.
Boot(p) ==
  /\ booting[p] # "no"
  /\ \E r \in Results(p, Wanted(p)) :
       LET retry == r.err # "none" /\ booting[p] = "first"
           victims == IF retry THEN Victims(p, r.err) ELSE {}
           off(f, I) == [i \in Ids |-> IF i \in I THEN Off(rules[i]) ELSE f[i]]
       IN \E lost \in SUBSET victims :
          /\ listeners' = [listeners EXCEPT ![p] = r.table]
          /\ rules' = off(rules, victims) /\ db' = off(db, victims \ lost)
          /\ booting' = [booting EXCEPT ![p] = IF retry THEN "again" ELSE "no"]
          /\ missed' = missed \cup IF r.err = "none" \/ retry THEN {} ELSE {p}
          /\ contested' = contested \cup lost \cup {i \in victims : Written(i)}
          /\ Fault(r.err = "bind" \/ lost # {})
  /\ UNCHANGED <<task, refresh, setup>>

-----------------------------------------------------------------------------
Next ==
  \/ \E h \in Handlers :
       \/ \E c \in Contents : Create(h, c) \/ PutGateway(h, c)
       \/ \E i \in Ids : Delete(h, i) \/ \E c \in Contents : Update(h, i, c)
       \/ Save(h) \/ Insert(h) \/ Snapshot(h) \/ Stop(h) \/ Apply(h) \/ Undo(h) \/ Rewrite(h)
       \/ Drop(h)
  \/ RefreshBegin \/ RefreshSave \/ \E i \in Ids : RefreshRead(i)
  \/ Restart
  \/ \E p \in Ports : Boot(p)

Spec == Init /\ [][Next]_vars

-----------------------------------------------------------------------------
(* Properties.                                                             *)

\* Nobody is going to reconcile port p.
AtRest(p) == booting[p] = "no" /\ \A h \in Handlers : p \notin task[h].left

\* A port that nobody is going to reconcile serves its rules as they are in
\* memory, whatever requests, rollbacks and restarts came in between, unless
\* its last reconciliation failed or was dropped, or a rule was changed
\* without one to follow (reconcile_http_listener).
ServedAsRulesSay ==
  \A p \in Ports \ missed : AtRest(p) => listeners[p] = Wanted(p)

\* The row of a rule that nobody is writing says what the memory says, also
\* after a rollback, unless two tasks wrote it at once, a later write than the
\* first failed or was dropped, or the rules were not loaded; the next request
\* that writes the rule alone ends that (save_rule, delete_rule).
StoredAsRulesSay ==
  \A i \in Ids \ contested : ~Written(i) => db[i] = rules[i]
=============================================================================
