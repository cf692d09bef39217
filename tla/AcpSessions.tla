---------------------------- MODULE AcpSessions ----------------------------
(***************************************************************************)
(* One agent session of the ACP bridge (crates/agent/src/acp_bridge): the  *)
(* entry of the session table, the pipeline of ensure_session that spawns  *)
(* an agent process on the client, the queue of prompts and its copy in    *)
(* the database, turns and their end, cancellation with its grace period,  *)
(* and everything that removes the entry or ends the process.              *)
(*                                                                         *)
(* The table is one mutex: an action is what happens under it between two  *)
(* awaits.  Everything here is keyed by the session's id alone, so a task  *)
(* that began with one entry may go on with its successor.  The model      *)
(* numbers the attempts to spawn; the code does not, and no guard reads    *)
(* the number a task began with.  It only feeds the history "stale".       *)
(* Left out: frames to the browser, stored output, configuration options,  *)
(* approvals, the LLM proxy, and the matching of spawn answers.            *)
(***************************************************************************)
EXTENDS Integers, Sequences

CONSTANTS
  MaxMessages,  \* bound: user messages, each from a browser tab of its own
  MaxPending,   \* MAX_PENDING_PROMPTS (20)
  RowOutcomes,  \* outcomes of an INSERT that the instance looks at
  MaxSpawns,    \* bound: attempts to spawn
  MaxFaults     \* bound: cancels, ends of the session and crashes together

ASSUME BoundAssumption ==
  /\ {MaxMessages, MaxPending, MaxSpawns} \subseteq Nat \ {0} /\ MaxFaults \in Nat
  /\ RowOutcomes \subseteq BOOLEAN

Messages == 1..MaxMessages     \* in the order of their arrival
Spawns == 1..MaxSpawns

VARIABLES
  entry,      \* the SpawnedAgent of the session; spawn 0: there is none
  rows,       \* agent_pending_prompts, in the order of rowid
  step,       \* step[m]: how far the handling of message m is
  at,         \* at[m]: attempt that m made, then the entry it waits for
  drains,     \* prompts taken from the queue and not sent yet
  turns,      \* requests without a terminal callback yet
  fallbacks,  \* tasks that wait for the end of a cancelled turn
  stage,      \* stage[n]: how far attempt n to spawn is
  snap,       \* snap[n]: rows that attempt n has read
  pump,       \* pump[n]: entry whose duplex the connection of n holds
  procs,      \* procs[n]: the process of attempt n on the client
  table,      \* SpawnManager::processes of the client, for this session
  exits,      \* AgentSpawnExit on their way, by process
  ender,      \* kill, reaper or disconnect between two of its steps
  left,       \* faults that may still come
  sent,       \* history: how often m was sent to an agent
  stale       \* history: a task has acted on the successor of its entry

vars == <<entry, rows, step, at, drains, turns, fallbacks, stage, snap, pump,
          procs, table, exits, ender, left, sent, stale>>

-----------------------------------------------------------------------------
(* The entry.                                                              *)

\* A new entry of attempt n; Blank(0, <<>>) stands for no entry.
Blank(n, queue) ==
  [spawn |-> n, io |-> n # 0, conn |-> 0, ready |-> FALSE, exited |-> FALSE,
   busy |-> FALSE, gen |-> 0, cancelled |-> {}, queue |-> queue]

Present == entry.spawn # 0
Alive == Present /\ ~entry.exited

\* Bytes pass between the process and the duplex of entry p.
PumpOpen(p) == Alive /\ entry.spawn = p

\* A task that began with entry n acts on the entry there is.
Mark(n) == stale' = (stale \/ (Present /\ entry.spawn # n))

RemoveEntry == entry' = Blank(0, <<>>)

\* What s has at the positions in I, in its order.
Pick(s, I) ==
  LET part[i \in 0..Len(s)] ==
        IF i = 0 THEN <<>>
        ELSE IF i \in I THEN Append(part[i - 1], s[i])
        ELSE part[i - 1]
  IN part[Len(s)]

Without(m) == Pick(rows, {i \in DOMAIN rows : rows[i] # m})

SpendFault == left > 0 /\ left' = left - 1

\* The client is told to kill the process of the session.
TellTable ==
  /\ procs' = [n \in Spawns |->
                 IF n = table /\ procs[n] = "alive" THEN "told" ELSE procs[n]]
  /\ table' = 0

-----------------------------------------------------------------------------
Init ==
  /\ entry = Blank(0, <<>>)
  /\ rows = <<>>
  /\ step = [m \in Messages |-> "new"]
  /\ at = [m \in Messages |-> 0]
  /\ drains = {} /\ turns = {} /\ fallbacks = {}
  /\ stage = [n \in Spawns |-> "none"]
  /\ snap = [n \in Spawns |-> <<>>]
  /\ pump = [n \in Spawns |-> 0]
  /\ procs = [n \in Spawns |-> "none"]
  /\ table = 0
  /\ exits = {}
  /\ ender = [kind |-> "idle", at |-> 0]
  /\ left = MaxFaults
  /\ sent = [m \in Messages |-> 0]
  /\ stale = FALSE

-----------------------------------------------------------------------------
(* ensure_session: the pipeline of attempt n.                              *)

spawning == <<stage, snap, pump>>
client == <<procs, table, exits>>
prompts == <<drains, turns, fallbacks, sent>>

\* A browser tab connects or sends a message: an entry with a live process
\* is used, one whose process has exited is replaced and leaves its queue.
Ensure(m) ==
  /\ step[m] = "new" /\ \A k \in 1..m-1 : step[k] # "new"
  /\ step' = [step EXCEPT ![m] = "ensured"]
  /\ \/ /\ Alive
        /\ UNCHANGED <<entry, at, stage>>
     \/ /\ ~Alive
        /\ \E n \in Spawns :
             /\ stage[n] = "none" /\ \A k \in 1..n-1 : stage[k] # "none"
             /\ stage' = [stage EXCEPT ![n] = "placed"]
             /\ at' = [at EXCEPT ![m] = n]
             /\ entry' = Blank(n, entry.queue)
  /\ UNCHANGED <<rows, snap, pump, client, prompts, ender, left, stale>>

ListRows(n) ==
  /\ stage[n] = "placed"
  /\ snap' = [snap EXCEPT ![n] = rows]
  /\ stage' = [stage EXCEPT ![n] = "listed"]
  /\ UNCHANGED <<entry, rows, step, at, pump, client, prompts, ender, left,
                 stale>>

\* The stored queue wins; of the one in memory only what has no row is kept.
Restore(n) ==
  /\ stage[n] = "listed"
  /\ stage' = [stage EXCEPT ![n] = "restored"]
  /\ snap' = [snap EXCEPT ![n] = <<>>]
  /\ IF snap[n] # <<>> /\ Present
     THEN /\ entry' = [entry EXCEPT !.queue =
                         [i \in DOMAIN snap[n] |-> [msg |-> snap[n][i], row |-> TRUE]]
                         \o Pick(@, {i \in DOMAIN @ : ~@[i].row})]
          /\ Mark(n)
     ELSE UNCHANGED <<entry, stale>>
  /\ UNCHANGED <<rows, step, at, pump, client, prompts, ender, left>>

\* The agent's process is asked for.
AskSpawn(n) ==
  /\ stage[n] = "restored"
  /\ stage' = [stage EXCEPT ![n] = "asked"]
  /\ procs' = [procs EXCEPT ![n] = "asked"]
  /\ UNCHANGED <<entry, rows, step, at, snap, pump, table, exits, prompts, ender,
                 left, stale>>

\* The client starts it; the entry of a process before it is dropped, and
\* with it the handle that keeps that process alive.
StartProcess(n) ==
  /\ procs[n] = "asked"
  /\ procs' = [k \in Spawns |->
                 IF k = n THEN "alive"
                 ELSE IF k = table /\ procs[k] = "alive" THEN "told"
                 ELSE procs[k]]
  /\ table' = n
  /\ UNCHANGED <<entry, rows, step, at, spawning, exits, prompts, ender, left,
                 stale>>

\* acp_handshake takes the duplex out of the entry there is.
Connect(n) ==
  /\ stage[n] = "asked" /\ procs[n] \notin {"none", "asked"}
  /\ Mark(n)
  /\ IF Present /\ entry.io
     THEN /\ entry' = [entry EXCEPT !.io = FALSE]
          /\ pump' = [pump EXCEPT ![n] = entry.spawn]
          /\ stage' = [stage EXCEPT ![n] = "shaking"]
     ELSE /\ RemoveEntry
          /\ stage' = [stage EXCEPT ![n] = "failed"]
          /\ UNCHANGED pump
  /\ UNCHANGED <<rows, step, at, snap, client, prompts, ender, left>>

\* The agent has answered initialize and session/new or session/resume.
Shake(n) ==
  /\ stage[n] = "shaking"
  /\ PumpOpen(pump[n]) /\ procs[n] = "alive"
  /\ stage' = [stage EXCEPT ![n] = "shaken"]
  /\ UNCHANGED <<entry, rows, step, at, snap, pump, client, prompts, ender, left,
                 stale>>

\* The connection is written to the entry, if there is one.
WriteConnection(n) ==
  /\ stage[n] = "shaken"
  /\ stage' = [stage EXCEPT ![n] = "inject"]
  /\ entry' = IF Present THEN [entry EXCEPT !.conn = n] ELSE entry
  /\ Mark(n)
  /\ UNCHANGED <<rows, step, at, snap, pump, client, prompts, ender, left>>

\* The configuration is injected: wait_ready may go on.
MakeReady(n) ==
  /\ stage[n] = "inject"
  /\ stage' = [stage EXCEPT ![n] = "done"]
  /\ entry' = IF Present THEN [entry EXCEPT !.ready = TRUE] ELSE entry
  /\ Mark(n)
  /\ UNCHANGED <<rows, step, at, snap, pump, client, prompts, ender, left>>

\* A step of the pipeline fails or times out: the entry is removed, the
\* process is left alone.
FailSpawn(n) ==
  /\ stage[n] \in {"restored", "asked", "shaking"}
  /\ stage' = [stage EXCEPT ![n] = "failed"]
  /\ RemoveEntry
  /\ Mark(n)
  /\ UNCHANGED <<rows, step, at, snap, pump, client, prompts, ender, left>>

-----------------------------------------------------------------------------
(* The client's process.                                                   *)

\* It ends by itself or is killed.
Die(n) ==
  /\ procs[n] \in {"alive", "told"}
  /\ procs' = [procs EXCEPT ![n] = "dead"]
  /\ exits' = exits \cup {n}
  /\ UNCHANGED <<entry, rows, step, at, spawning, table, prompts, ender, left,
                 stale>>

\* handle_spawn_exit: the message names the session, not the process.
HandleExit(n) ==
  /\ n \in exits
  /\ exits' = exits \ {n}
  /\ entry' = IF Present THEN [entry EXCEPT !.exited = TRUE] ELSE entry
  /\ Mark(n)
  /\ UNCHANGED <<rows, step, at, spawning, procs, table, prompts, ender, left>>

-----------------------------------------------------------------------------
(* A user message: wait_ready, submit_prompt, prompt_inner.                *)

\* The handling of m goes on, or is over.  The tab hears of an error.
StepTo(m, to) ==
  /\ step' = [step EXCEPT ![m] = to]
  /\ at' = IF to = "over" THEN [at EXCEPT ![m] = 0] ELSE at

\* wait_ready looks at the entry there is, which need not be the one that
\* ensure_session has left.
Subscribe(m) ==
  /\ step[m] = "ensured"
  /\ at[m] # 0 => stage[at[m]] \in {"done", "failed"}
  /\ IF ~Present \/ (at[m] # 0 /\ stage[at[m]] = "failed")
     THEN StepTo(m, "over")
     ELSE /\ step' = [step EXCEPT ![m] = IF entry.ready THEN "go" ELSE "wait"]
          /\ at' = [at EXCEPT ![m] = entry.spawn]
  /\ UNCHANGED <<entry, rows, spawning, client, prompts, ender, left, stale>>

WaitReady(m) ==
  /\ step[m] = "wait"
  /\ StepTo(m, IF entry.spawn = at[m] /\ entry.ready THEN "go" ELSE "over")
  /\ UNCHANGED <<entry, rows, spawning, client, prompts, ender, left, stale>>

\* First critical section of submit_prompt: run now, queue or refuse.
Submit(m) ==
  /\ step[m] = "go"
  /\ StepTo(m, IF ~Alive \/ (entry.busy /\ Len(entry.queue) >= MaxPending)
               THEN "over"
               ELSE IF ~entry.busy /\ entry.queue = <<>> THEN "run" ELSE "insert")
  /\ Mark(at[m])
  /\ UNCHANGED <<entry, rows, spawning, client, prompts, ender, left>>

\* prompt_inner passes its checks for a direct or a drained prompt.
MayPrompt(drained) ==
  Alive /\ (drained \/ ~entry.busy) /\ entry.conn # 0

\* The request is registered, unless its connection has closed meanwhile.
Registered == PumpOpen(pump[entry.conn])

\* The turn begins: x is sent on the connection of the entry.
BeginTurn(x) ==
  IF Registered
  THEN /\ entry' = [entry EXCEPT !.busy = TRUE, !.gen = @ + 1]
       /\ turns' = turns \cup
            {[msg |-> x, conn |-> entry.conn, gen |-> entry.gen + 1,
              at |-> entry.spawn, answered |-> FALSE]}
       /\ sent' = [sent EXCEPT ![x] = @ + 1]
  ELSE /\ entry' = [entry EXCEPT !.busy = FALSE, !.gen = @ + 1]
       /\ UNCHANGED <<turns, sent>>

\* Idle: prompt.
Run(m) ==
  /\ step[m] = "run"
  /\ IF MayPrompt(FALSE)
     THEN BeginTurn(m)
     ELSE UNCHANGED <<entry, turns, sent>>
  /\ StepTo(m, "over")
  /\ Mark(at[m])
  /\ UNCHANGED <<rows, drains, fallbacks, spawning, client, ender, left>>

\* Busy: the row is written before the prompt enters the queue.
Insert(m) ==
  /\ step[m] = "insert"
  /\ \E ok \in RowOutcomes :
       /\ rows' = IF ok THEN Append(rows, m) ELSE rows
       /\ step' = [step EXCEPT ![m] = IF ok THEN "stored" ELSE "unstored"]
  /\ UNCHANGED <<entry, at, spawning, client, prompts, ender, left, stale>>

\* A prompt leaves the queue for the task of message "by", or (0) for the one
\* that the callback of the turn before spawns.
Taken(item, by) ==
  [msg |-> item.msg, row |-> item.row, at |-> entry.spawn, by |-> by,
   deleted |-> FALSE]

\* A bug: the second section takes for granted that the turn still runs.
BugPush(m) ==
  /\ step[m] \in {"stored", "unstored"} /\ Present
  /\ StepTo(m, "over")
  /\ entry' = [entry EXCEPT !.queue =
                 Append(@, [msg |-> m, row |-> step[m] = "stored"])]
  /\ Mark(at[m])
  /\ UNCHANGED <<rows, prompts, spawning, client, ender, left>>

\* Second critical section: the turn may have ended meanwhile, then the
\* first of the queue is run at once.
Push(m) ==
  /\ step[m] \in {"stored", "unstored"}
  /\ LET queue == Append(entry.queue, [msg |-> m, row |-> step[m] = "stored"])
     IN \/ /\ ~Present
           /\ rows' = Without(m)
           /\ UNCHANGED <<entry, drains>>
        \/ /\ Present
           /\ IF entry.busy
              THEN /\ entry' = [entry EXCEPT !.queue = queue]
                   /\ UNCHANGED drains
              ELSE /\ entry' = [entry EXCEPT !.queue = Tail(queue), !.busy = TRUE]
                   /\ drains' = drains \cup {Taken(Head(queue), m)}
           /\ UNCHANGED rows
  /\ StepTo(m, "over")
  /\ Mark(at[m])
  /\ UNCHANGED <<turns, fallbacks, sent, spawning, client, ender, left>>

\* A bug: the row stays.
BugDeleteRow(d) ==
  /\ ~d.deleted
  /\ drains' = (drains \ {d}) \cup {[d EXCEPT !.deleted = TRUE]}
  /\ Mark(d.at)
  /\ UNCHANGED <<entry, rows, step, at, turns, fallbacks, sent, spawning, client,
                 ender, left>>

\* A bug: all rows of the session go with it.
BugDeleteRows(d) ==
  /\ ~d.deleted
  /\ rows' = <<>>
  /\ drains' = (drains \ {d}) \cup {[d EXCEPT !.deleted = TRUE]}
  /\ Mark(d.at)
  /\ UNCHANGED <<entry, step, at, turns, fallbacks, sent, spawning, client, ender,
                 left>>

\* The row of a prompt that was taken is deleted before the prompt is sent.
DeleteRow(d) ==
  /\ ~d.deleted
  /\ rows' = IF d.row THEN Without(d.msg) ELSE rows
  /\ drains' = (drains \ {d}) \cup {[d EXCEPT !.deleted = TRUE]}
  /\ Mark(d.at)
  /\ UNCHANGED <<entry, step, at, turns, fallbacks, sent, spawning, client, ender,
                 left>>

\* prompt_inner for it.  An error goes to the tab that runs it; from the
\* callback of the turn before it goes to the log.
Dispatch(d) ==
  /\ d.deleted
  /\ drains' = drains \ {d}
  /\ IF MayPrompt(TRUE) THEN BeginTurn(d.msg) ELSE UNCHANGED <<entry, turns, sent>>
  /\ Mark(d.at)
  /\ UNCHANGED <<rows, step, at, fallbacks, spawning, client, ender, left>>

-----------------------------------------------------------------------------
(* The end of a turn.                                                      *)

\* The agent answers, or the connection closes: the callback starts and
\* stores the output it has.
EndTurn(t) ==
  /\ ~t.answered
  /\ IF PumpOpen(pump[t.conn]) THEN procs[t.conn] \in {"alive", "told"} ELSE TRUE
  /\ turns' = (turns \ {t}) \cup {[t EXCEPT !.answered = TRUE]}
  /\ UNCHANGED <<entry, rows, step, at, drains, fallbacks, sent, spawning, client,
                 ender, left, stale>>

\* A bug: busy is not set again for the prompt that is taken.
BugFinishTurn(t) ==
  LET next == Alive /\ entry.queue # <<>>
  IN /\ t.answered
     /\ turns' = turns \ {t}
     /\ IF Present
        THEN /\ entry' = [entry EXCEPT
                  !.busy = FALSE, !.cancelled = @ \ {t.gen},
                  !.queue = IF next THEN Tail(@) ELSE @]
             /\ fallbacks' = {f \in fallbacks :
                                ~(f.state = "armed" /\ f.at = entry.spawn)}
             /\ drains' = IF next
                          THEN drains \cup {Taken(Head(entry.queue), 0)}
                          ELSE drains
        ELSE UNCHANGED <<entry, fallbacks, drains>>
     /\ Mark(t.at)
     /\ UNCHANGED <<rows, step, at, sent, spawning, client, ender, left>>

\* The callback's critical section: the turn is over, tasks that wait for
\* it are woken, and the next of the queue is taken if the process lives.
FinishTurn(t) ==
  LET next == Alive /\ entry.queue # <<>>
  IN /\ t.answered
     /\ turns' = turns \ {t}
     /\ IF Present
        THEN /\ entry' = [entry EXCEPT
                  !.busy = next, !.cancelled = @ \ {t.gen},
                  !.queue = IF next THEN Tail(@) ELSE @]
             /\ fallbacks' = {f \in fallbacks :
                                ~(f.state = "armed" /\ f.at = entry.spawn)}
             /\ drains' = IF next
                          THEN drains \cup {Taken(Head(entry.queue), 0)}
                          ELSE drains
        ELSE UNCHANGED <<entry, fallbacks, drains>>
     /\ Mark(t.at)
     /\ UNCHANGED <<rows, step, at, sent, spawning, client, ender, left>>

-----------------------------------------------------------------------------
(* cancel and its fallback.                                                *)

\* A bug: the generation of the turn to come is recorded.
BugCancel ==
  /\ SpendFault
  /\ entry.busy
  /\ entry' = [entry EXCEPT !.cancelled = @ \cup {entry.gen + 1}]
  /\ fallbacks' = fallbacks \cup
       {[at |-> entry.spawn, gen |-> entry.gen + 1, state |-> "new"]}
  /\ UNCHANGED <<rows, step, at, drains, turns, sent, spawning, client, ender,
                 stale>>

\* The user, or the watchdog of the turn: what runs is the generation of
\* the entry.
Cancel ==
  /\ SpendFault
  /\ entry.busy
  /\ entry' = [entry EXCEPT !.cancelled = @ \cup {entry.gen}]
  /\ fallbacks' = fallbacks \cup
       {[at |-> entry.spawn, gen |-> entry.gen, state |-> "new"]}
  /\ UNCHANGED <<rows, step, at, drains, turns, sent, spawning, client, ender,
                 stale>>

\* A bug: a permit that the end of an earlier turn has left wakes it at once.
BugArm(f) ==
  /\ f.state = "new"
  /\ fallbacks' = (fallbacks \ {f}) \cup
       (IF entry.gen > 1 THEN {} ELSE {[f EXCEPT !.state = "armed"]})
  /\ UNCHANGED <<entry, rows, step, at, drains, turns, sent, spawning, client,
                 ender, left, stale>>

\* The task is polled: from now on a notification wakes it.
Arm(f) ==
  /\ f.state = "new"
  /\ fallbacks' = (fallbacks \ {f}) \cup {[f EXCEPT !.state = "armed"]}
  /\ UNCHANGED <<entry, rows, step, at, drains, turns, sent, spawning, client,
                 ender, left, stale>>

\* The grace period is over.
GraceOver(f) ==
  /\ f.state = "armed"
  /\ IF entry.busy /\ f.gen \in entry.cancelled
     THEN /\ entry' = [entry EXCEPT !.busy = FALSE, !.cancelled = @ \ {f.gen}]
          /\ fallbacks' = (fallbacks \ {f}) \cup {[f EXCEPT !.state = "kill"]}
     ELSE /\ fallbacks' = fallbacks \ {f}
          /\ UNCHANGED entry
  /\ Mark(f.at)
  /\ UNCHANGED <<rows, step, at, drains, turns, sent, spawning, client, ender,
                 left>>

KillCancelled(f) ==
  /\ f.state = "kill"
  /\ fallbacks' = fallbacks \ {f}
  /\ TellTable
  /\ Mark(f.at)
  /\ UNCHANGED <<entry, rows, step, at, drains, turns, sent, spawning, exits,
                 ender, left>>

-----------------------------------------------------------------------------
(* What ends the session: kill, the idle reaper, a lost client, a restart. *)

Ending(kind, n) == ender' = [kind |-> kind, at |-> n]

\* The session is archived or deleted: first the process, then the entry.
KillProcess ==
  /\ ender.kind = "idle" /\ Present /\ SpendFault
  /\ TellTable
  /\ Ending("kill", entry.spawn)
  /\ UNCHANGED <<entry, rows, step, at, spawning, exits, prompts, stale>>

\* The client's control connection is lost, its processes go with it.
Disconnect ==
  /\ ender.kind = "idle" /\ Present /\ SpendFault
  /\ procs' = [n \in Spawns |->
                 IF procs[n] \in {"none", "asked"} THEN "none" ELSE "dead"]
  /\ table' = 0 /\ exits' = {}
  /\ Ending("drop", entry.spawn)
  /\ UNCHANGED <<entry, rows, step, at, spawning, prompts, stale>>

\* The last step of both, after the output is stored.
DropEntry ==
  /\ ender.kind \in {"kill", "drop"}
  /\ RemoveEntry
  /\ Mark(ender.at)
  /\ Ending("idle", 0)
  /\ UNCHANGED <<rows, step, at, spawning, client, prompts, left>>

\* The reaper removes an entry that was idle when it looked, then tells the
\* client.
Reap ==
  /\ ender.kind = "idle" /\ Present /\ SpendFault
  /\ RemoveEntry
  /\ Ending("reap", entry.spawn)
  /\ UNCHANGED <<rows, step, at, spawning, client, prompts, stale>>

ReapProcess ==
  /\ ender.kind = "reap"
  /\ TellTable
  /\ Mark(ender.at)
  /\ Ending("idle", 0)
  /\ UNCHANGED <<entry, rows, step, at, spawning, exits, prompts, left>>

\* The server restarts: the rows are all that is left.
Crash ==
  /\ SpendFault
  /\ RemoveEntry
  /\ drains' = {} /\ turns' = {} /\ fallbacks' = {} /\ exits' = {}
  /\ stage' = [n \in Spawns |-> IF stage[n] = "none" THEN "none" ELSE "failed"]
  /\ procs' = [n \in Spawns |->
                 IF procs[n] \in {"none", "asked"} THEN "none" ELSE "dead"]
  /\ snap' = [n \in Spawns |-> <<>>]
  /\ table' = 0
  /\ Ending("idle", 0)
  /\ step' = [m \in Messages |->
                IF step[m] = "new" THEN "new" ELSE "over"]
  /\ at' = [m \in Messages |-> 0]
  /\ UNCHANGED <<rows, pump, sent, stale>>

-----------------------------------------------------------------------------
Next ==
  \/ \E m \in Messages : \/ Ensure(m)
                         \/ Subscribe(m) \/ WaitReady(m) \/ Submit(m) \/ Run(m)
                         \/ Insert(m) \/ Push(m)
  \/ \E n \in Spawns :
       \/ ListRows(n) \/ Restore(n) \/ AskSpawn(n) \/ StartProcess(n)
       \/ Connect(n) \/ Shake(n) \/ WriteConnection(n) \/ MakeReady(n)
       \/ FailSpawn(n) \/ Die(n) \/ HandleExit(n)
  \/ \E d \in drains : DeleteRow(d) \/ Dispatch(d)
  \/ \E t \in turns : EndTurn(t) \/ FinishTurn(t)
  \/ Cancel
  \/ \E f \in fallbacks : Arm(f) \/ GraceOver(f) \/ KillCancelled(f)
  \/ KillProcess \/ Disconnect \/ DropEntry \/ Reap \/ ReapProcess \/ Crash

\* What goes on by itself: callbacks and tasks are polled, the grace period
\* elapses, an exit is handled, a process that is told dies, and a connection
\* that has closed ends its turns.  An agent need not answer, a user need not
\* act and no fault need come.  All of it is bounded, so weak fairness of the
\* disjunction is that of each step.
Runtime ==
  \/ \E d \in drains : DeleteRow(d) \/ Dispatch(d)
  \/ \E t \in turns : (~PumpOpen(pump[t.conn]) /\ EndTurn(t)) \/ FinishTurn(t)
  \/ \E f \in fallbacks : Arm(f) \/ GraceOver(f) \/ KillCancelled(f)
  \/ \E n \in Spawns : (procs[n] = "told" /\ Die(n)) \/ HandleExit(n)
  \/ DropEntry \/ ReapProcess

Spec == Init /\ [][Next]_vars /\ WF_vars(Runtime)

-----------------------------------------------------------------------------
(* Properties.                                                             *)

Items == [msg : Messages, row : BOOLEAN]
Tasks == 0..MaxSpawns
Entries ==
  [spawn : Tasks, io : BOOLEAN, conn : Tasks, ready : BOOLEAN, exited : BOOLEAN,
   busy : BOOLEAN, gen : Nat, cancelled : SUBSET Nat, queue : Seq(Items)]
Drains ==
  [msg : Messages, row : BOOLEAN, at : Spawns, by : 0..MaxMessages, deleted : BOOLEAN]
Turns == [msg : Messages, conn : Spawns, gen : Nat, at : Spawns, answered : BOOLEAN]
Fallbacks == [at : Spawns, gen : Nat, state : {"new", "armed", "kill"}]

\* Every variable has its type (SpawnedAgent and the tables of the bridge and
\* of the client).
TypeOK ==
  /\ entry \in Entries
  /\ entry.cancelled \subseteq 0..entry.gen
  /\ rows \in Seq(Messages)
  /\ step \in [Messages -> {"new", "ensured", "wait", "go", "run", "insert",
                           "stored", "unstored", "over"}]
  /\ at \in [Messages -> Tasks]
  /\ drains \subseteq Drains /\ turns \subseteq Turns /\ fallbacks \subseteq Fallbacks
  /\ stage \in [Spawns -> {"none", "placed", "listed", "restored", "asked",
                          "shaking", "shaken", "inject", "done", "failed"}]
  /\ snap \in [Spawns -> Seq(Messages)]
  /\ pump \in [Spawns -> Tasks]
  /\ procs \in [Spawns -> {"none", "asked", "alive", "told", "dead"}]
  /\ table \in Tasks /\ exits \subseteq Spawns
  /\ ender \in [kind : {"idle", "kill", "drop", "reap"}, at : Tasks]
  /\ left \in 0..MaxFaults
  /\ sent \in [Messages -> Nat] /\ stale \in BOOLEAN

\* Somebody has decided to kill the process of attempt n, or it is gone.
Doomed(n) ==
  procs[n] \in {"told", "dead"} \/ \E f \in fallbacks : f.state = "kill"

\* The busy flag, given up and set again in one critical section by whoever
\* takes a prompt from the queue, keeps a second request off a connection
\* that has not answered the first.  Only a process about to be killed gets
\* one.
OneTurnAtATime ==
  \A s, t \in turns :
    s # t /\ s.conn = t.conn /\ ~stale => Doomed(s.conn)

\* A message is sent to an agent once at most, whatever is cancelled, killed
\* or restarted: its row is gone before it is sent.  What a task of an entry
\* does to the entry's successor (stale) is exempt, such as a push of a message
\* whose row the successor has restored already.
AtMostOnce == ~stale => \A m \in Messages : sent[m] <= 1

\* A restart loses no prompt that waits: what the queue takes for stored is
\* in the table.
QueuedIsStored ==
  ~stale => \A i \in DOMAIN entry.queue :
              entry.queue[i].row => \E j \in DOMAIN rows : rows[j] = entry.queue[i].msg

\* A busy entry is busy with something, and once a turn has run on an entry
\* its queue is never left to itself: a turn runs or a prompt is on its way
\* that will take the next, or the process is about to end and its successor
\* inherits the queue.  Otherwise what waits would wait for ever.
QueueMovesOn ==
  LET working == \/ \E t \in turns : t.conn = entry.conn
                 \/ \E d \in drains : d.at = entry.spawn
  IN ~stale /\ Alive =>
       /\ entry.busy => working
       /\ entry.gen > 0 /\ entry.queue # <<>> => working \/ Doomed(entry.spawn)

\* A turn that was cancelled ends, though the agent ignores the notification:
\* its grace period is not cut short by anything but its own end, and the kill
\* reaches the process it runs on, whose exit closes its connection.
CancelEndsTurn ==
  \A m \in Messages :
    (\E t \in turns, f \in fallbacks : t.msg = m /\ f.at = t.at /\ f.gen = t.gen)
      ~> (stale \/ ~\E t \in turns : t.msg = m)
=============================================================================
