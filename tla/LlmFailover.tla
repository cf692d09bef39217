----------------------------- MODULE LlmFailover -----------------------------
(***************************************************************************)
(* The LLM gateway's routing state and the requests that use it:           *)
(*   crates/llm/src/breaker.rs      ModelBreakers, one breaker per model   *)
(*   crates/llm/src/down.rs         KnownFailures, a negative cache        *)
(*   crates/llm/src/route_cache.rs  RouteCache, the cached configuration   *)
(*   crates/llm/src/upstream.rs     execute_with_failover                  *)
(*   crates/server/src/mgmt/api/llm.rs  llm_invalidate, reset_group_breaker*)
(*                                                                         *)
(* A request slot serves one request after another.  Between two awaits a  *)
(* request walks over the candidates it must skip, so the walk up to the   *)
(* next upstream call is one step.  The in-place retry of a malformed      *)
(* response is part of the call.  Time is counted in ticks; an age stops   *)
(* growing once no comparison of the code can tell it from a larger one.   *)
(***************************************************************************)
EXTENDS Integers, Sequences

CONSTANTS
  Models,      \* model ids, the breakers' keys
  Providers,   \* provider ids
  Provider,    \* Provider[m]: the provider of model m
  Chains,      \* candidate chains, sequences of models in priority order
  Slots,       \* concurrent requests
  None,        \* no slot, no snapshot
  Threshold,   \* FAILURE_THRESHOLD (5)
  Base,        \* BASE_COOLDOWN_SECS (30), in ticks
  MaxCool,     \* MAX_COOLDOWN_SECS (600)
  Grace,       \* STALE_PROBE_GRACE (300)
  Ttl,         \* KNOWN_FAILURE_TTL (300)
  MaxEdits     \* bound: edits of the configuration

ASSUME ProviderAssumption == Provider \in [Models -> Providers]
ASSUME ChainsAssumption ==
  \A ch \in Chains :
    /\ ch \in Seq(Models) /\ ch # <<>>
    /\ \A i, j \in 1..Len(ch) : ch[i] = ch[j] => i = j
ASSUME SlotsAssumption == None \notin Slots
ASSUME ThresholdAssumption == Threshold \in Nat \ {0}
ASSUME CooldownAssumption == Base \in Nat \ {0} /\ MaxCool \in Nat /\ Base <= MaxCool
ASSUME AgesAssumption == Grace \in Nat /\ Ttl \in Nat /\ MaxEdits \in Nat

VARIABLES
  br,          \* br[m]: the breaker of m
  known,       \* known[k]: age of the failure recorded for provider or model k
  db,          \* version of the configuration in the database
  cache,       \* version of the cached snapshot
  dirty,       \* the cache's generations differ: the next reader loads
  admin,       \* where the management handler is
  req          \* req[s]: the slot's request

vars == <<br, known, db, cache, dirty, admin, req>>
routeVars == <<db, cache, dirty, admin>>

Keys == Providers \cup Models
Versions == 0..MaxEdits

\* Failures beyond the threshold and ages beyond every comparison are equal.
MaxAge(b) == b.cool + Grace + 1
Breakers == [fails : 0..Threshold, cool : {0} \cup Base..MaxCool,
             age : 0..(MaxCool + Grace + 1), probe : BOOLEAN]
Closed == [fails |-> 0, cool |-> 0, age |-> 0, probe |-> FALSE]
IsOpen(m) == br[m].cool # 0

Idle == [pc |-> "idle"]
Requests ==
  {Idle}
    \cup [pc : {"load"}, read : Versions]
    \cup [pc : {"call"}, chain : Chains, at : Nat \ {0}]

\* The cache's write lock is held by the request that loads.
Locked == \E s \in Slots : req[s].pc = "load"
Calling(s, m) == req[s].pc = "call" /\ req[s].chain[req[s].at] = m

TypeOK ==
  /\ br \in [Models -> Breakers]
  /\ \A m \in Models : br[m].age <= MaxAge(br[m])
  /\ known \in [Keys -> 0..Ttl]
  /\ db \in Versions
  /\ cache \in Versions \cup {None}
  /\ dirty \in BOOLEAN
  /\ admin \in {"idle", "invalidate", "clear", "dropped"}
  /\ req \in [Slots -> Requests]
  /\ \A s \in Slots : req[s].pc = "call" => req[s].at <= Len(req[s].chain)

Init ==
  /\ br = [m \in Models |-> Closed]
  /\ known = [k \in Keys |-> Ttl]
  /\ db = 0 /\ cache = None /\ dirty = TRUE
  /\ admin = "idle"
  /\ req = [s \in Slots |-> Idle]

-----------------------------------------------------------------------------
(* ModelBreakers and KnownFailures.                                        *)

\* Seeded fault: without the recycling of stale probes.
BugAllow(m) ==
  \/ br[m].cool = 0
  \/ br[m].age >= br[m].cool /\ ~br[m].probe

\* allow: closed; or cooled down, and no probe is out, or a stale one.
Allow(m) ==
  \/ br[m].cool = 0
  \/ br[m].age >= br[m].cool /\ (br[m].probe => br[m].age > br[m].cool + Grace)

\* allow takes the probe; taking a stale one starts its window anew.
Taken(b) ==
  IF b.cool = 0 THEN b
  ELSE [b EXCEPT !.probe = TRUE, !.age = IF b.probe THEN b.cool ELSE @]

\* Seeded fault: the probe's flag is left set.
BugSucceeded(b) == [Closed EXCEPT !.probe = b.probe]

\* record_success, and reset.
Succeeded(b) == Closed

Doubled(n) == IF 2 * n > MaxCool THEN MaxCool ELSE 2 * n

\* Seeded fault: a failed probe restarts the cooldown without its cap.
BugFailed(b) ==
  IF b.probe THEN [b EXCEPT !.cool = 2 * @, !.age = 0, !.probe = FALSE]
  ELSE LET n == IF b.fails = Threshold THEN Threshold ELSE b.fails + 1 IN
       IF n = Threshold /\ b.cool = 0
       THEN [b EXCEPT !.fails = n, !.cool = Base, !.age = 0]
       ELSE [b EXCEPT !.fails = n]

\* Seeded fault: a failure during the cooldown opens the breaker once more.
BugFailedWhileOpen(b) ==
  IF b.probe THEN [b EXCEPT !.cool = Doubled(@), !.age = 0, !.probe = FALSE]
  ELSE LET n == IF b.fails = Threshold THEN Threshold ELSE b.fails + 1 IN
       IF n = Threshold
       THEN [b EXCEPT !.fails = n, !.cool = Base, !.age = 0]
       ELSE [b EXCEPT !.fails = n]

\* record_failure.
Failed(b) ==
  IF b.probe THEN [b EXCEPT !.cool = Doubled(@), !.age = 0, !.probe = FALSE]
  ELSE LET n == IF b.fails = Threshold THEN Threshold ELSE b.fails + 1 IN
       IF n = Threshold /\ b.cool = 0
       THEN [b EXCEPT !.fails = n, !.cool = Base, !.age = 0]
       ELSE [b EXCEPT !.fails = n]

\* A failure is known of the provider or of the model.
KnownDead(m) == known[m] < Ttl \/ known[Provider[m]] < Ttl

-----------------------------------------------------------------------------
(* execute_with_failover.                                                  *)

\* The candidates from i on that are neither known to fail nor refused.
Admissible(ch, i, dead) ==
  {j \in i..Len(ch) : ch[j] \notin dead /\ ~KnownDead(ch[j]) /\ Allow(ch[j])}

\* Call the first admissible candidate, or end without one.
Walk(s, ch, i, dead, b) ==
  LET js == Admissible(ch, i, dead) IN
  \/ js = {} /\ req' = [req EXCEPT ![s] = Idle] /\ br' = b
  \/ \E j \in js :
       /\ \A l \in js : j <= l
       /\ req' = [req EXCEPT ![s] = [pc |-> "call", chain |-> ch, at |-> j]]
       /\ br' = [b EXCEPT ![ch[j]] = Taken(@)]

\* The loop's `continue`, after the call of candidate at.
TryNext(s, dead, b) == Walk(s, req[s].chain, req[s].at + 1, dead, b)
Return(s) == req' = [req EXCEPT ![s] = Idle]

\* A request finds a current snapshot, resolves its model or group, and walks.
Start(s, ch) ==
  /\ req[s] = Idle /\ ~Locked /\ ~dirty /\ cache # None
  /\ Walk(s, ch, 1, {}, br)
  /\ UNCHANGED <<known, routeVars>>

\* A usable response, or a 4xx that other candidates would give as well.
Answered(s, m) ==
  /\ Calling(s, m)
  /\ br' = [br EXCEPT ![m] = Succeeded(@)]
  /\ Return(s)
  /\ UNCHANGED <<known, routeVars>>

\* Connection error, timeout, 5xx, 429, or a malformed response twice.
Faulted(s, m) ==
  /\ Calling(s, m)
  /\ TryNext(s, {}, [br EXCEPT ![m] = Failed(@)])
  /\ UNCHANGED <<known, routeVars>>

\* 401 or 403 (of the provider), 404 (of the model): remembered, not counted.
Refused(s, m) ==
  /\ Calling(s, m)
  /\ \E k \in {m, Provider[m]} :
       /\ known' = [known EXCEPT ![k] = 0]
       /\ TryNext(s, {n \in Models : k \in {n, Provider[n]}}, br)
  /\ UNCHANGED routeVars

\* The caller goes away and the future is dropped: nothing is recorded.
Dropped(s, m) ==
  /\ Calling(s, m)
  /\ Return(s)
  /\ UNCHANGED <<br, known, routeVars>>

-----------------------------------------------------------------------------
(* RouteCache::snapshot, slow path, and the management handlers.           *)

\* The load's queries count as one, at its start.
StartLoad(s) ==
  /\ req[s] = Idle /\ ~Locked /\ dirty
  /\ req' = [req EXCEPT ![s] = [pc |-> "load", read |-> db]]
  /\ UNCHANGED <<br, known, routeVars>>

\* The loading request goes on with its snapshot; a database error yields, and
\* caches, an empty one, which routes nothing.
LoadDone(s, ch) ==
  /\ req[s].pc = "load"
  /\ \/ cache' = req[s].read /\ Walk(s, ch, 1, {}, br)
     \/ cache' = None /\ Return(s) /\ UNCHANGED br
  /\ dirty' = FALSE
  /\ UNCHANGED <<known, db, admin>>

LoadDropped(s) ==
  /\ req[s].pc = "load"
  /\ Return(s)
  /\ UNCHANGED <<br, known, routeVars>>

\* No handler runs; "dropped": the last one went away before its invalidate.
Free == admin \in {"idle", "dropped"}

\* A provider, model or group is written.
Edit ==
  /\ Free /\ db < MaxEdits
  /\ db' = db + 1
  /\ admin' = "invalidate"
  /\ UNCHANGED <<br, known, cache, dirty, req>>

\* reset_group_breaker.
ResetGroup(ch) ==
  /\ Free
  /\ br' = [m \in Models |-> IF \E i \in 1..Len(ch) : ch[i] = m THEN Succeeded(br[m]) ELSE br[m]]
  /\ admin' = "invalidate"
  /\ UNCHANGED <<known, db, cache, dirty, req>>

\* Seeded fault: the generation is an atomic beside the lock.
BugInvalidate ==
  /\ admin = "invalidate"
  /\ dirty' = TRUE
  /\ admin' = "clear"
  /\ UNCHANGED <<br, known, db, cache, req>>

\* RouteCache::invalidate waits for the write lock.
Invalidate ==
  /\ admin = "invalidate" /\ ~Locked
  /\ dirty' = TRUE
  /\ admin' = "clear"
  /\ UNCHANGED <<br, known, db, cache, req>>

\* The administrator goes away while the handler waits for the lock, or for
\* the answer of a write that the database then makes.
AdminDropped ==
  /\ admin = "invalidate"
  /\ admin' = "dropped"
  /\ UNCHANGED <<br, known, db, cache, dirty, req>>

ClearAll ==
  /\ admin = "clear"
  /\ known' = [k \in Keys |-> Ttl]
  /\ admin' = "idle"
  /\ UNCHANGED <<br, db, cache, dirty, req>>

Tick ==
  /\ br' = [m \in Models |->
              IF IsOpen(m) /\ br[m].age < MaxAge(br[m]) THEN [br[m] EXCEPT !.age = @ + 1]
              ELSE br[m]]
  /\ known' = [k \in Keys |-> IF known[k] < Ttl THEN known[k] + 1 ELSE Ttl]
  /\ UNCHANGED <<routeVars, req>>

-----------------------------------------------------------------------------
Serve(s, ch) == Start(s, ch) \/ LoadDone(s, ch)
Outcome(s) == \E m \in Models : Answered(s, m) \/ Faulted(s, m) \/ Refused(s, m) \/ Dropped(s, m)

Next ==
  \/ \E s \in Slots :
       \/ \E ch \in Chains : Serve(s, ch)
       \/ Outcome(s) \/ StartLoad(s) \/ LoadDropped(s)
  \/ Edit \/ Invalidate \/ AdminDropped \/ ClearAll \/ Tick
  \/ \E ch \in Chains : ResetGroup(ch)

\* Time passes, a call ends (at the latest by the read timeout), and
\* requests for every chain keep arriving, not all of them dropped in a load.
Fairness ==
  /\ WF_vars(Tick)
  /\ WF_vars(\E s \in Slots : StartLoad(s))
  /\ \A s \in Slots : WF_vars(Outcome(s))
  /\ \A ch \in Chains : SF_vars(\E s \in Slots : Serve(s, ch))

Spec == Init /\ [][Next]_vars /\ Fairness

-----------------------------------------------------------------------------
(* Properties.                                                             *)

\* The flag of a probe is only set in an open breaker that has cooled down: a
\* closed breaker never takes a first failure for a failed probe.
ProbeIsDue == \A m \in Models : br[m].probe => IsOpen(m) /\ br[m].age >= br[m].cool

\* The cooldown only changes by opening, by doubling after a probe, and by
\* closing; while it lasts, failures of older requests do not restart it.
CooldownStep(b, c) ==
  \/ c.cool = 0
  \/ b.cool = 0 /\ c.cool = Base
  \/ b.probe /\ c.cool = Doubled(b.cool)
  \/ c.cool = b.cool /\ (c.age >= b.age \/ c.probe)

CooldownSteps == [][\A m \in Models : CooldownStep(br[m], br'[m])]_vars

\* When no edit is being published, a snapshot that counts as current is that
\* of the database: no load that races with an edit survives its invalidate.
FreshSnapshot ==
  ~dirty /\ admin \notin {"invalidate", "dropped"} => cache \in {db, None}

\* A probe whose request was dropped does not block its model for ever, unless
\* the model is known to fail or the snapshot could not be read.
OrphanProbeIsReclaimed ==
  \A m \in Models :
    (br[m].probe /\ \A s \in Slots : ~Calling(s, m))
      ~> (~IsOpen(m) \/ KnownDead(m) \/ cache = None \/ \E s \in Slots : Calling(s, m))
=============================================================================
