-------------------------- MODULE LlmFailoverProofs --------------------------
(***************************************************************************)
(* The safety properties of LlmFailover for any models, providers, chains  *)
(* and requests, any threshold, and any length of the cooldowns.  The      *)
(* breaker's arithmetic needs ProbeIsDue to keep its types: a failed probe *)
(* doubles a cooldown that must not be zero.                               *)
(***************************************************************************)
EXTENDS LlmFailover, TLAPS

\* What a load has read is what the database holds, unless an edit's
\* invalidation is to come, or never comes.
LoadIsCurrent ==
  \A s \in Slots :
    req[s].pc = "load" /\ admin \notin {"invalidate", "dropped"} => req[s].read = db

IInv == TypeOK /\ ProbeIsDue /\ FreshSnapshot /\ LoadIsCurrent

-----------------------------------------------------------------------------
(* One breaker.                                                            *)

Sound(b) ==
  /\ b \in Breakers
  /\ b.age <= MaxAge(b)
  /\ b.probe => b.cool # 0 /\ b.age >= b.cool

Consts == /\ Threshold \in Nat \ {0}
          /\ Base \in Nat \ {0} /\ MaxCool \in Nat /\ Base <= MaxCool
          /\ Grace \in Nat /\ Ttl \in Nat /\ MaxEdits \in Nat

LEMMA ConstsHold == Consts
  BY ThresholdAssumption, CooldownAssumption, AgesAssumption DEF Consts

LEMMA DoubledInRange ==
  ASSUME NEW n \in Base..MaxCool
  PROVE  Doubled(n) \in Base..MaxCool
  BY ConstsHold DEF Doubled, Consts

LEMMA SucceededSound ==
  ASSUME NEW b
  PROVE  Sound(Succeeded(b)) /\ CooldownStep(b, Succeeded(b))
  BY ConstsHold DEF Succeeded, Closed, Sound, Breakers, MaxAge, CooldownStep, Consts

\* A failure opens a closed breaker, doubles the cooldown of a probed one, and
\* leaves any other open breaker as it is.
LEMMA FailedSound ==
  ASSUME NEW b, Sound(b)
  PROVE  Sound(Failed(b)) /\ CooldownStep(b, Failed(b))
<1>1. /\ b = [fails |-> b.fails, cool |-> b.cool, age |-> b.age, probe |-> b.probe]
      /\ b.fails \in 0..Threshold /\ b.cool \in {0} \cup Base..MaxCool
      /\ b.age \in 0..(MaxCool + Grace + 1) /\ b.probe \in BOOLEAN
  BY DEF Sound, Breakers
<1>2. CASE b.probe
  <2>1. Failed(b) = [fails |-> b.fails, cool |-> Doubled(b.cool), age |-> 0, probe |-> FALSE]
    BY <1>1, <1>2 DEF Failed
  <2>2. Doubled(b.cool) \in Base..MaxCool
    BY <1>1, <1>2, DoubledInRange DEF Sound
  <2> QED BY <1>1, <1>2, <2>1, <2>2, ConstsHold DEF Sound, Breakers, MaxAge, CooldownStep, Consts
<1>3. CASE ~b.probe
  <2> DEFINE n == IF b.fails = Threshold THEN Threshold ELSE b.fails + 1
  <2>1. n \in 0..Threshold
    BY <1>1, ConstsHold DEF Consts
  <2>2. CASE n = Threshold /\ b.cool = 0
    <3>1. Failed(b) = [b EXCEPT !.fails = n, !.cool = Base, !.age = 0]
      BY <1>3, <2>2 DEF Failed
    <3>2. Failed(b) = [fails |-> n, cool |-> Base, age |-> 0, probe |-> FALSE]
      BY <1>3, <3>1 DEF Sound, Breakers
    <3> QED BY <2>1, <2>2, <3>2, ConstsHold DEF Sound, Breakers, MaxAge, CooldownStep, Consts
  <2>3. CASE ~(n = Threshold /\ b.cool = 0)
    <3>1. Failed(b) = [b EXCEPT !.fails = n]
      BY <1>3, <2>3 DEF Failed
    <3>2. Failed(b) = [fails |-> n, cool |-> b.cool, age |-> b.age, probe |-> FALSE]
      BY <1>3, <3>1 DEF Sound, Breakers
    <3> QED BY <1>1, <1>3, <2>1, <2>3, <3>2, ConstsHold DEF Sound, Breakers, MaxAge, CooldownStep, Consts
  <2> QED BY <2>2, <2>3
<1> QED BY <1>1, <1>2, <1>3

\* Only a breaker that is closed or has cooled down gives its probe away.
LEMMA TakenSound ==
  ASSUME NEW b, Sound(b), b.cool = 0 \/ b.age >= b.cool
  PROVE  Sound(Taken(b)) /\ CooldownStep(b, Taken(b))
<1>1. CASE b.cool = 0
  BY <1>1 DEF Taken, CooldownStep, Sound, Breakers
<1>2. CASE b.cool # 0
  <2> DEFINE a == IF b.probe THEN b.cool ELSE b.age
  <2>1. Taken(b) = [b EXCEPT !.probe = TRUE, !.age = a]
    BY <1>2 DEF Taken
  <2>2. Taken(b) = [fails |-> b.fails, cool |-> b.cool, age |-> a, probe |-> TRUE]
    BY <2>1 DEF Sound, Breakers
  <2> QED BY <1>2, <2>2, ConstsHold DEF Sound, Breakers, MaxAge, CooldownStep, Consts
<1> QED BY <1>1, <1>2

-----------------------------------------------------------------------------
(* The walk over the candidates.                                           *)

\* The other requests are as they were, and s is idle or calls a candidate.
OneMoves(s) ==
  /\ req' \in [Slots -> Requests]
  /\ \A t \in Slots \ {s} : req'[t] = req[t]
  /\ req'[s].pc # "load"
  /\ req'[s].pc = "call" => req'[s].at <= Len(req'[s].chain)

\* Every breaker is sound after the step, and made a step it may make.
BreakersMove ==
  /\ br' \in [Models -> Breakers]
  /\ \A m \in Models : Sound(br'[m]) /\ CooldownStep(br[m], br'[m])

LEMMA CallShape ==
  ASSUME TypeOK, NEW s \in Slots, req[s].pc = "call"
  PROVE  /\ req[s].chain \in Chains
         /\ req[s].at \in 1..Len(req[s].chain)
         /\ req[s].chain \in Seq(Models)
<1>1. req[s] \in Requests /\ req[s].at <= Len(req[s].chain)
  BY DEF TypeOK
<1>2. req[s] \in [pc : {"call"}, chain : Chains, at : Nat \ {0}]
  BY <1>1 DEF Requests, Idle
<1> QED BY <1>1, <1>2, ChainsAssumption

\* Walk from breakers b, which differ from br only at models that the walk
\* does not come to.
LEMMA WalkMoves ==
  ASSUME TypeOK, ProbeIsDue, NEW s \in Slots, NEW ch \in Chains,
         NEW i \in Nat \ {0}, NEW dead, NEW b \in [Models -> Breakers],
         \A m \in Models : Sound(b[m]) /\ CooldownStep(br[m], b[m]),
         \A j \in i..Len(ch) : b[ch[j]] = br[ch[j]],
         Walk(s, ch, i, dead, b)
  PROVE  OneMoves(s) /\ BreakersMove
<1> DEFINE js == Admissible(ch, i, dead)
<1>1. CASE js = {}
  <2>1. req' = [req EXCEPT ![s] = Idle] /\ br' = b
    BY <1>1 DEF Walk
  <2> QED BY <2>1 DEF OneMoves, BreakersMove, TypeOK, Requests, Idle
<1>2. CASE js # {}
  <2>1. PICK j \in js :
               /\ req' = [req EXCEPT ![s] = [pc |-> "call", chain |-> ch, at |-> j]]
               /\ br' = [b EXCEPT ![ch[j]] = Taken(@)]
    BY <1>2 DEF Walk
  <2>2. j \in i..Len(ch) /\ Allow(ch[j])
    BY DEF Admissible
  <2>3. ch[j] \in Models /\ j \in Nat \ {0} /\ j <= Len(ch)
    BY <2>2, ChainsAssumption
  <2>4. Sound(Taken(b[ch[j]])) /\ CooldownStep(br[ch[j]], Taken(b[ch[j]]))
    BY <2>2, <2>3, TakenSound DEF Allow
  <2>5. OneMoves(s)
    BY <2>1, <2>3 DEF OneMoves, TypeOK, Requests
  <2>6. BreakersMove
    BY <2>1, <2>3, <2>4 DEF BreakersMove, Sound
  <2> QED BY <2>5, <2>6
<1> QED BY <1>1, <1>2

\* Sound breakers, said of the state: what TypeOK and ProbeIsDue say of br.
LEMMA SoundNow ==
  ASSUME TypeOK, ProbeIsDue
  PROVE  \A m \in Models : Sound(br[m]) /\ CooldownStep(br[m], br[m])
<1> SUFFICES ASSUME NEW m \in Models PROVE Sound(br[m]) /\ CooldownStep(br[m], br[m])
  OBVIOUS
<1>1. Sound(br[m])
  BY DEF TypeOK, ProbeIsDue, Sound, IsOpen
<1>2. br[m].age \in 0..(MaxCool + Grace + 1)
  BY <1>1 DEF Sound, Breakers
<1>3. CooldownStep(br[m], br[m])
  BY <1>2, ConstsHold DEF CooldownStep, Consts
<1> QED BY <1>1, <1>3

\* Every outcome of a call moves one request and keeps the breakers sound.
LEMMA OutcomeMoves ==
  ASSUME TypeOK, ProbeIsDue, NEW s \in Slots, Outcome(s)
  PROVE  OneMoves(s) /\ BreakersMove /\ UNCHANGED routeVars /\ known' \in [Keys -> 0..Ttl]
<1>1. PICK m \in Models : Answered(s, m) \/ Faulted(s, m) \/ Refused(s, m) \/ Dropped(s, m)
  BY DEF Outcome
<1> DEFINE ch == req[s].chain
           i == req[s].at
<1>2. /\ req[s].pc = "call" /\ ch[i] = m
      /\ ch \in Chains /\ i \in 1..Len(ch) /\ ch \in Seq(Models)
  BY <1>1, CallShape DEF Answered, Faulted, Refused, Dropped, Calling
<1>3. Return(s) => OneMoves(s)
  BY DEF Return, OneMoves, TypeOK, Requests, Idle
<1>4. CASE Answered(s, m)
  <2>1. BreakersMove
    BY <1>4, SoundNow, SucceededSound DEF Answered, BreakersMove, TypeOK, Sound
  <2> QED BY <1>3, <1>4, <2>1 DEF Answered, TypeOK
<1>5. CASE Faulted(s, m)
  <2> DEFINE b == [br EXCEPT ![m] = Failed(@)]
  <2>1. Walk(s, ch, i + 1, {}, b)
    BY <1>5 DEF Faulted, TryNext
  <2>2. Sound(Failed(br[m])) /\ CooldownStep(br[m], Failed(br[m]))
    BY SoundNow, FailedSound
  <2>3. \A n \in Models : Sound(b[n]) /\ CooldownStep(br[n], b[n])
    BY <2>2, SoundNow DEF TypeOK
  <2>4. b \in [Models -> Breakers]
    BY <2>2 DEF TypeOK, Sound
  <2>5. \A j \in (i + 1)..Len(ch) : b[ch[j]] = br[ch[j]]
    <3> SUFFICES ASSUME NEW j \in (i + 1)..Len(ch) PROVE b[ch[j]] = br[ch[j]]
      OBVIOUS
    <3>1. j \in 1..Len(ch) /\ j # i /\ ch[j] \in Models
      BY <1>2
    <3>2. ch[j] # m
      BY <1>2, <3>1, ChainsAssumption
    <3> QED BY <3>1, <3>2 DEF TypeOK
  <2>6. i + 1 \in Nat \ {0}
    BY <1>2
  <2>7. OneMoves(s) /\ BreakersMove
    <3> HIDE DEF b, i, ch
    <3> QED BY <1>2, <2>1, <2>3, <2>4, <2>5, <2>6, WalkMoves
  <2> QED BY <1>5, <2>7 DEF Faulted, TypeOK
<1>6. CASE Refused(s, m)
  <2>1. PICK k \in {m, Provider[m]} :
           /\ known' = [known EXCEPT ![k] = 0]
           /\ Walk(s, ch, i + 1, {n \in Models : k \in {n, Provider[n]}}, br)
    BY <1>6 DEF Refused, TryNext
  <2>2. i + 1 \in Nat \ {0}
    BY <1>2
  <2>3. OneMoves(s) /\ BreakersMove
    <3> HIDE DEF i, ch
    <3> QED BY <1>2, <2>1, <2>2, SoundNow, WalkMoves DEF TypeOK
  <2>4. known' \in [Keys -> 0..Ttl]
    <3>1. known \in [Keys -> 0..Ttl] /\ 0 \in 0..Ttl
      BY ConstsHold DEF TypeOK, Consts
    <3>2. known' = [known EXCEPT ![k] = 0]
      BY <2>1
    <3> QED BY <3>1, <3>2
  <2> QED BY <1>6, <2>3, <2>4 DEF Refused
<1>7. CASE Dropped(s, m)
  BY <1>3, <1>7, SoundNow DEF Dropped, BreakersMove, TypeOK
<1> QED BY <1>1, <1>4, <1>5, <1>6, <1>7

\* So does a request that starts, with the cached snapshot or after its load.
LEMMA ServeMoves ==
  ASSUME TypeOK, ProbeIsDue, NEW s \in Slots, NEW ch \in Chains, Serve(s, ch)
  PROVE  OneMoves(s) /\ BreakersMove /\ UNCHANGED <<known, db, admin>>
<1>1. Walk(s, ch, 1, {}, br) => OneMoves(s) /\ BreakersMove
  BY SoundNow, WalkMoves DEF TypeOK
<1>2. Return(s) /\ UNCHANGED br => OneMoves(s) /\ BreakersMove
  BY SoundNow DEF Return, OneMoves, BreakersMove, TypeOK, Requests, Idle
<1> QED BY <1>1, <1>2 DEF Serve, Start, LoadDone, routeVars

-----------------------------------------------------------------------------
(* Every step.                                                             *)

\* No step of the system, whatever the order of the outcomes, makes a breaker
\* unsound or moves it in a way that CooldownSteps forbids.
LEMMA NextMovesBreakers ==
  ASSUME TypeOK, ProbeIsDue, [Next]_vars
  PROVE  BreakersMove
<1>1. CASE UNCHANGED br
  BY <1>1, SoundNow DEF BreakersMove, TypeOK
<1>2. ASSUME NEW s \in Slots, NEW ch \in Chains, Serve(s, ch) PROVE BreakersMove
  BY <1>2, ServeMoves
<1>3. ASSUME NEW s \in Slots, Outcome(s) PROVE BreakersMove
  BY <1>3, OutcomeMoves
<1>4. ASSUME NEW ch \in Chains, ResetGroup(ch) PROVE BreakersMove
  BY <1>4, SoundNow, SucceededSound DEF ResetGroup, BreakersMove, Sound
<1>5. CASE Tick
  <2> SUFFICES ASSUME NEW m \in Models
               PROVE  Sound(br'[m]) /\ CooldownStep(br[m], br'[m])
    BY <1>5 DEF Tick, BreakersMove, Sound
  <2>1. Sound(br[m]) /\ CooldownStep(br[m], br[m])
    BY SoundNow
  <2>2. CASE IsOpen(m) /\ br[m].age < MaxAge(br[m])
    <3>1. br'[m] = [br[m] EXCEPT !.age = @ + 1]
      BY <1>5, <2>2 DEF Tick
    <3>2. br'[m] = [fails |-> br[m].fails, cool |-> br[m].cool,
                    age |-> br[m].age + 1, probe |-> br[m].probe]
      BY <2>1, <3>1 DEF Sound, Breakers
    <3> QED BY <2>1, <2>2, <3>2, ConstsHold DEF Sound, CooldownStep, Breakers, MaxAge, Consts
  <2>3. CASE ~(IsOpen(m) /\ br[m].age < MaxAge(br[m]))
    BY <1>5, <2>1, <2>3 DEF Tick
  <2> QED BY <2>2, <2>3
<1> QED
  BY <1>1, <1>2, <1>3, <1>4, <1>5
     DEF Next, vars, StartLoad, LoadDropped, Edit, Invalidate, AdminDropped, ClearAll

LEMMA BreakersMoveType ==
  ASSUME BreakersMove
  PROVE  /\ br' \in [Models -> Breakers]
         /\ \A m \in Models : br'[m].age <= MaxAge(br'[m])
         /\ ProbeIsDue'
  BY DEF BreakersMove, Sound, ProbeIsDue, IsOpen

\* One request moves: the types of req, and no load appears.
LEMMA OneMovesType ==
  ASSUME TypeOK, NEW s \in Slots, OneMoves(s)
  PROVE  /\ req' \in [Slots -> Requests]
         /\ \A t \in Slots : req'[t].pc = "call" => req'[t].at <= Len(req'[t].chain)
         /\ \A t \in Slots : req'[t].pc = "load" => req[t].pc = "load" /\ req'[t].read = req[t].read
  BY DEF OneMoves, TypeOK

\* What a step does to the configuration, its cache and the loads.
RouteType ==
  /\ known \in [Keys -> 0..Ttl]
  /\ db \in Versions
  /\ cache \in Versions \cup {None}
  /\ dirty \in BOOLEAN
  /\ admin \in {"idle", "invalidate", "clear", "dropped"}
  /\ req \in [Slots -> Requests]
  /\ \A s \in Slots : req[s].pc = "call" => req[s].at <= Len(req[s].chain)

LEMMA NextMovesRoutes ==
  ASSUME IInv, [Next]_vars
  PROVE  RouteType' /\ FreshSnapshot' /\ LoadIsCurrent'
<1> USE DEF IInv
<1>1. RouteType /\ FreshSnapshot /\ LoadIsCurrent
  BY DEF TypeOK, RouteType
<1>2. ASSUME NEW s \in Slots, Outcome(s)
      PROVE  RouteType' /\ FreshSnapshot' /\ LoadIsCurrent'
  BY <1>1, <1>2, OutcomeMoves, OneMovesType
     DEF RouteType, FreshSnapshot, LoadIsCurrent, routeVars
<1>3. ASSUME NEW s \in Slots, NEW ch \in Chains, Serve(s, ch)
      PROVE  RouteType' /\ FreshSnapshot' /\ LoadIsCurrent'
  <2>1. OneMoves(s) /\ UNCHANGED <<known, db, admin>>
    BY <1>3, ServeMoves
  <2>2. CASE Start(s, ch)
    BY <1>1, <2>1, <2>2, OneMovesType
       DEF Start, RouteType, FreshSnapshot, LoadIsCurrent, routeVars
  <2>3. CASE LoadDone(s, ch)
    <3>1. req[s].pc = "load" /\ dirty' = FALSE /\ cache' \in {req[s].read, None}
      BY <2>3 DEF LoadDone
    <3>2. req[s].read \in Versions
      BY <1>1, <3>1 DEF RouteType, Requests, Idle
    <3> QED BY <1>1, <2>1, <3>1, <3>2, OneMovesType
            DEF RouteType, FreshSnapshot, LoadIsCurrent
  <2> QED BY <1>3, <2>2, <2>3 DEF Serve
<1>4. ASSUME NEW s \in Slots, StartLoad(s)
      PROVE  RouteType' /\ FreshSnapshot' /\ LoadIsCurrent'
  <2>1. req' = [req EXCEPT ![s] = [pc |-> "load", read |-> db]]
    BY <1>4 DEF StartLoad
  <2>2. [pc |-> "load", read |-> db] \in Requests
    BY <1>1 DEF RouteType, Requests
  <2>3. UNCHANGED routeVars /\ UNCHANGED known
    BY <1>4 DEF StartLoad
  <2> QED BY <1>1, <2>1, <2>2, <2>3 DEF RouteType, FreshSnapshot, LoadIsCurrent, routeVars
<1>5. ASSUME NEW s \in Slots, LoadDropped(s)
      PROVE  RouteType' /\ FreshSnapshot' /\ LoadIsCurrent'
  <2>1. OneMoves(s)
    BY <1>5 DEF LoadDropped, Return, OneMoves, TypeOK, Requests, Idle
  <2> QED BY <1>1, <1>5, <2>1, OneMovesType
          DEF LoadDropped, RouteType, FreshSnapshot, LoadIsCurrent, routeVars
<1>6. CASE Edit
  BY <1>1, <1>6, ConstsHold
     DEF Edit, RouteType, FreshSnapshot, LoadIsCurrent, Versions, Consts
<1>7. ASSUME NEW ch \in Chains, ResetGroup(ch)
      PROVE  RouteType' /\ FreshSnapshot' /\ LoadIsCurrent'
  BY <1>1, <1>7 DEF ResetGroup, RouteType, FreshSnapshot, LoadIsCurrent
<1>8. CASE Invalidate
  BY <1>1, <1>8 DEF Invalidate, Locked, RouteType, FreshSnapshot, LoadIsCurrent
<1>9. CASE AdminDropped
  BY <1>1, <1>9 DEF AdminDropped, RouteType, FreshSnapshot, LoadIsCurrent
<1>10. CASE ClearAll
  <2>1. Ttl \in 0..Ttl
    BY ConstsHold DEF Consts
  <2> QED BY <1>1, <1>10, <2>1 DEF ClearAll, RouteType, FreshSnapshot, LoadIsCurrent
<1>11. CASE Tick
  <2>1. known' \in [Keys -> 0..Ttl]
    BY <1>1, <1>11, ConstsHold DEF Tick, RouteType, Consts
  <2> QED BY <1>1, <1>11, <2>1 DEF Tick, RouteType, FreshSnapshot, LoadIsCurrent, routeVars
<1>12. CASE UNCHANGED vars
  BY <1>1, <1>12 DEF vars, RouteType, FreshSnapshot, LoadIsCurrent
<1> QED
  BY <1>2, <1>3, <1>4, <1>5, <1>6, <1>7, <1>8, <1>9, <1>10, <1>11, <1>12 DEF Next

-----------------------------------------------------------------------------
(* The theorems.                                                           *)

LEMMA InitInv == Init => IInv
  BY ConstsHold
     DEF Init, IInv, TypeOK, ProbeIsDue, FreshSnapshot, LoadIsCurrent, Closed, Breakers,
         MaxAge, Idle, Requests, Versions, IsOpen, Consts

LEMMA NextInv == IInv /\ [Next]_vars => IInv'
<1> SUFFICES ASSUME IInv, [Next]_vars PROVE IInv'
  OBVIOUS
<1>1. BreakersMove
  BY NextMovesBreakers DEF IInv
<1>2. /\ br' \in [Models -> Breakers]
      /\ \A m \in Models : br'[m].age <= MaxAge(br'[m])
      /\ ProbeIsDue'
  BY <1>1, BreakersMoveType
<1>3. RouteType' /\ FreshSnapshot' /\ LoadIsCurrent'
  BY NextMovesRoutes
<1> QED BY <1>2, <1>3 DEF IInv, TypeOK, RouteType

\* The invariant of the gateway's routing state, which the theorems below use.
LEMMA Invariance == Spec => []IInv
  BY InitInv, NextInv, PTL DEF Spec

\* Every variable keeps its type; cooldowns stay between BASE_COOLDOWN_SECS and
\* MAX_COOLDOWN_SECS, however often a probe fails.
THEOREM TypeCorrect == Spec => []TypeOK
<1>1. IInv => TypeOK
  BY DEF IInv
<1> QED BY <1>1, Invariance, PTL

\* The flag of a probe is only set in an open breaker that has cooled down,
\* whatever the order in which requests start, fail, succeed and vanish.
THEOREM ProbesAreDue == Spec => []ProbeIsDue
<1>1. IInv => ProbeIsDue
  BY DEF IInv
<1> QED BY <1>1, Invariance, PTL

\* A snapshot that counts as current is the database's, unless an edit has not
\* yet been, or never is, followed by its invalidation.
THEOREM SnapshotsAreFresh == Spec => []FreshSnapshot
<1>1. IInv => FreshSnapshot
  BY DEF IInv
<1> QED BY <1>1, Invariance, PTL

\* A cooldown only changes by opening, by doubling after a probe, and by
\* closing; nothing else restarts it.
THEOREM CooldownsStep == Spec => CooldownSteps
<1>1. IInv /\ [Next]_vars => [\A m \in Models : CooldownStep(br[m], br'[m])]_vars
  BY NextMovesBreakers DEF IInv, BreakersMove
<1> QED BY <1>1, Invariance, PTL DEF Spec, CooldownSteps
=============================================================================
