------------------------ MODULE ClientRegistryProofs ------------------------
(***************************************************************************)
(* The safety properties of ClientRegistry, for any set of names, any set  *)
(* of connections and any number of kicks.  Type correctness is proved     *)
(* first; the other invariants are inductive together (IInv), because the  *)
(* notices and sessions of a connection are governed by whether it is      *)
(* registered and by where its handler is.                                 *)
(***************************************************************************)
EXTENDS ClientRegistry, TLAPS

IInv ==
  /\ EntryHasHandler
  /\ NoticeAfterRemoval
  /\ NoOrphanSession
  /\ FreshIsClean

\* What a handler's step does to the program counters.
LEMMA GotoType ==
  ASSUME TypeOK, NEW c \in Conns, NEW from, NEW to \in HandlerPcs, Goto(c, from, to)
  PROVE  /\ hpc[c] = from
         /\ hpc'[c] = to
         /\ hpc' \in [Conns -> HandlerPcs]
         /\ \A d \in Conns \ {c} : hpc'[d] = hpc[d]
  BY DEF TypeOK, Goto

\* Taking an entry out keeps the types.
LEMMA RemoveEntryType ==
  ASSUME TypeOK, NEW n \in Names, RemoveEntry(n)
  PROVE  /\ entries' \in [Names -> Conns \cup {NoConn}]
         /\ notice' \in [Conns -> {"none", "sent", "read"}]
         /\ silent' \in SUBSET Conns
  BY DEF TypeOK, RemoveEntry

\* Every variable keeps its type: the state of the registry, of the handlers
\* and of the notices is always one of those the code knows.
THEOREM TypeCorrect == Spec => []TypeOK
<1>1. Init => TypeOK
  BY MaxKicksAssumption DEF Init, TypeOK, HandlerPcs
<1>2. TypeOK /\ [Next]_vars => TypeOK'
  <2> SUFFICES ASSUME TypeOK, [Next]_vars PROVE TypeOK'
    OBVIOUS
  <2>1. ASSUME NEW c \in Conns, Accept(c) PROVE TypeOK'
    BY <2>1, GotoType DEF Accept, TypeOK, HandlerPcs
  <2>2. ASSUME NEW c \in Conns, RegisterStep(c) PROVE TypeOK'
    <3>1. cname[c] \in Names
      BY DEF TypeOK
    <3>2. CASE Authenticate(c)
      BY <3>2, GotoType DEF Authenticate, TypeOK, HandlerPcs
    <3>3. CASE KickOld(c)
      BY <3>1, <3>3, GotoType, RemoveEntryType DEF KickOld, TypeOK, HandlerPcs
    <3>4. CASE Persist(c)
      BY <3>4, GotoType DEF Persist, TypeOK, HandlerPcs
    <3>5. CASE Insert(c)
      BY <3>1, <3>5, GotoType DEF Insert, TypeOK, HandlerPcs
    <3>6. CASE Respond(c)
      BY <3>6, GotoType DEF Respond, TypeOK, HandlerPcs
    <3> QED BY <2>2, <3>2, <3>3, <3>4, <3>5, <3>6 DEF RegisterStep
  <2>3. ASSUME NEW c \in Conns, Eof(c) PROVE TypeOK'
    BY <2>3, GotoType DEF Eof, TypeOK, HandlerPcs
  <2>4. ASSUME NEW c \in Conns, CleanUpStep(c) PROVE TypeOK'
    <3>1. cname[c] \in Names
      BY DEF TypeOK
    <3>2. CASE DropAcp(c)
      BY <3>2, GotoType DEF DropAcp, TypeOK, HandlerPcs
    <3>3. CASE CleanUp(c)
      BY <3>1, <3>3, GotoType, RemoveEntryType DEF CleanUp, TypeOK, HandlerPcs
    <3> QED BY <2>4, <3>2, <3>3 DEF CleanUpStep
  <2>5. ASSUME NEW c \in Conns, OpenAcp(c) \/ AcpReady(c) \/ AcpFailed(c)
        PROVE  TypeOK'
    BY <2>5 DEF OpenAcp, AcpReady, AcpFailed, TypeOK
  <2>6. ASSUME NEW c \in Conns,
               ClientDisconnect(c) \/ ConnClosed(c) \/ ClientLeave(c) \/ ClientVanish(c)
        PROVE  TypeOK'
    BY <2>6 DEF ClientDisconnect, ConnClosed, ClientLeave, ClientVanish, TypeOK
  <2>7. ASSUME NEW n \in Names, AdminKick(n) PROVE TypeOK'
    BY <2>7, RemoveEntryType DEF AdminKick, TypeOK
  <2>8. CASE UNCHANGED vars
    BY <2>8 DEF vars, TypeOK
  <2> QED BY <2>1, <2>2, <2>3, <2>4, <2>5, <2>6, <2>7, <2>8 DEF Next
<1> QED BY <1>1, <1>2, PTL DEF Spec

-----------------------------------------------------------------------------
\* The initial states satisfy the inductive invariant.
LEMMA IInvInit == Init => IInv
  BY NoConnAssumption
  DEF Init, IInv, EntryHasHandler, NoticeAfterRemoval, NoOrphanSession,
      FreshIsClean, Registered

\* A step of one handler that touches neither the registry nor the notices and
\* sessions, and does not go back before the insert or into the clean-up,
\* keeps the invariant.
LEMMA IInvGoto ==
  ASSUME TypeOK, TypeOK', IInv, NEW c \in Conns, NEW from \in HandlerPcs,
         NEW to \in HandlerPcs,
         Goto(c, from, to), UNCHANGED <<entries, cname, notice, acp>>,
         to \in {"disconnect", "done", "rejected"} => from \in {"auth", "persist"},
         from \in {"respond", "serve", "dropAcp", "disconnect", "aborted"} =>
           to \in {"serve", "dropAcp", "aborted"},
         to \in {"free", "auth", "kick", "persist", "insert", "rejected"} =>
           from \in {"free", "auth", "kick", "persist"}
  PROVE  IInv'
<1>1. EntryHasHandler'
  BY DEF TypeOK, IInv, EntryHasHandler, Goto
<1>2. NoticeAfterRemoval'
  BY DEF TypeOK, IInv, NoticeAfterRemoval, Registered
<1>3. NoOrphanSession'
  BY DEF TypeOK, IInv, NoOrphanSession, FreshIsClean, Goto
<1>4. FreshIsClean'
  BY DEF TypeOK, IInv, FreshIsClean, Goto
<1> QED BY <1>1, <1>2, <1>3, <1>4 DEF IInv

\* Taking out an entry: whoever is sent the Disconnect is registered no more,
\* and it had inserted its entry before.
LEMMA IInvRemove ==
  ASSUME TypeOK, IInv, NEW n \in Names, RemoveEntry(n), UNCHANGED cname
  PROVE  /\ NoticeAfterRemoval'
         /\ \A m \in Names : \A d \in Conns :
              entries'[m] = d => m # n /\ entries[m] = d
         /\ \A d \in Conns :
              hpc[d] \in {"free", "auth", "kick", "persist", "insert", "rejected"} =>
                notice'[d] = "none"
<1>1. \A m \in Names : \A d \in Conns :
        entries'[m] = d => m # n /\ entries[m] = d
  BY NoConnAssumption DEF TypeOK, RemoveEntry
<1>2. \A d \in Conns : entries[n] = d => cname[d] = n
  BY DEF IInv, EntryHasHandler
<1>3. NoticeAfterRemoval'
  BY <1>1, <1>2 DEF TypeOK, IInv, NoticeAfterRemoval, Registered, RemoveEntry
<1>4. \A d \in Conns :
        hpc[d] \in {"free", "auth", "kick", "persist", "insert", "rejected"} =>
          notice'[d] = "none"
  BY DEF TypeOK, IInv, EntryHasHandler, FreshIsClean, RemoveEntry
<1> QED BY <1>1, <1>3, <1>4

\* Every step keeps the inductive invariant.
LEMMA IInvNext ==
  ASSUME TypeOK, TypeOK', IInv, [Next]_vars
  PROVE  IInv'
<1>1. ASSUME NEW c \in Conns, Accept(c) PROVE IInv'
  BY <1>1, IInvGoto DEF Accept, HandlerPcs
<1>2. ASSUME NEW c \in Conns, RegisterStep(c) PROVE IInv'
  <2>1. CASE Authenticate(c)
    BY <2>1, IInvGoto DEF Authenticate, HandlerPcs
  <2>2. CASE KickOld(c)
    <3>1. cname[c] \in Names /\ RemoveEntry(cname[c]) /\ UNCHANGED cname
      BY <2>2 DEF KickOld, TypeOK
    <3>2. hpc[c] = "kick" /\ hpc'[c] = "persist"
          /\ \A d \in Conns \ {c} : hpc'[d] = hpc[d]
      BY <2>2 DEF KickOld, Goto, TypeOK
    <3>3. EntryHasHandler'
      BY <2>2, <3>1, <3>2, IInvRemove DEF KickOld, IInv, EntryHasHandler
    <3>4. NoOrphanSession'
      BY <2>2, <3>2 DEF KickOld, IInv, NoOrphanSession
    <3>5. FreshIsClean'
      BY <2>2, <3>1, <3>2, IInvRemove DEF KickOld, IInv, FreshIsClean
    <3> QED BY <3>1, <3>3, <3>4, <3>5, IInvRemove DEF IInv
  <2>3. CASE Persist(c)
    BY <2>3, IInvGoto DEF Persist, HandlerPcs
  <2>4. CASE Insert(c)
    <3>1. /\ cname[c] \in Names
          /\ entries'[cname[c]] = c
          /\ \A m \in Names \ {cname[c]} : entries'[m] = entries[m]
      BY <2>4 DEF Insert, TypeOK
    <3>2. hpc[c] = "insert" /\ hpc'[c] = "respond"
          /\ \A d \in Conns \ {c} : hpc'[d] = hpc[d]
      BY <2>4 DEF Insert, Goto, TypeOK
    <3>3. EntryHasHandler'
      BY <2>4, <3>1, <3>2 DEF Insert, IInv, EntryHasHandler
    <3>4. NoticeAfterRemoval'
      BY <2>4, <3>1, <3>2
      DEF Insert, TypeOK, IInv, NoticeAfterRemoval, FreshIsClean, Registered
    <3>5. NoOrphanSession' /\ FreshIsClean'
      BY <2>4, <3>2 DEF Insert, IInv, NoOrphanSession, FreshIsClean
    <3> QED BY <3>3, <3>4, <3>5 DEF IInv
  <2>5. CASE Respond(c)
    BY <2>5, IInvGoto DEF Respond, HandlerPcs
  <2> QED BY <1>2, <2>1, <2>2, <2>3, <2>4, <2>5 DEF RegisterStep
<1>3. ASSUME NEW c \in Conns, Eof(c) PROVE IInv'
  BY <1>3, IInvGoto DEF Eof, HandlerPcs
<1>4. ASSUME NEW c \in Conns, DropAcp(c) PROVE IInv'
  <2>1. hpc[c] = "dropAcp" /\ hpc'[c] = "disconnect"
        /\ \A d \in Conns \ {c} : hpc'[d] = hpc[d]
    BY <1>4 DEF DropAcp, Goto, TypeOK
  <2>2. acp'[c] = "none" /\ \A d \in Conns : acp'[d] \in {"none", acp[d]}
    BY <1>4 DEF DropAcp, TypeOK
  <2>3. EntryHasHandler' /\ NoticeAfterRemoval'
    BY <1>4, <2>1
    DEF DropAcp, IInv, EntryHasHandler, NoticeAfterRemoval, Registered
  <2>4. NoOrphanSession' /\ FreshIsClean'
    BY <1>4, <2>1, <2>2 DEF DropAcp, IInv, NoOrphanSession, FreshIsClean
  <2> QED BY <2>3, <2>4 DEF IInv
<1>5. ASSUME NEW c \in Conns, CleanUp(c) PROVE IInv'
  <2>1. cname[c] \in Names /\ RemoveEntry(cname[c]) /\ UNCHANGED cname
    BY <1>5 DEF CleanUp, TypeOK
  <2>2. hpc[c] = "disconnect" /\ hpc'[c] = "done"
        /\ \A d \in Conns \ {c} : hpc'[d] = hpc[d]
    BY <1>5 DEF CleanUp, Goto, TypeOK
  <2>3. EntryHasHandler'
    BY <1>5, <2>1, <2>2, IInvRemove DEF CleanUp, IInv, EntryHasHandler
  <2>4. NoOrphanSession'
    BY <1>5, <2>2 DEF CleanUp, IInv, NoOrphanSession
  <2>5. FreshIsClean'
    BY <1>5, <2>1, <2>2, IInvRemove DEF CleanUp, IInv, FreshIsClean
  <2> QED BY <2>1, <2>3, <2>4, <2>5, IInvRemove DEF IInv
<1>6. ASSUME NEW c \in Conns, OpenAcp(c) \/ AcpReady(c) \/ AcpFailed(c)
      PROVE  IInv'
  <2>1. EntryHasHandler' /\ NoticeAfterRemoval'
    BY <1>6
    DEF OpenAcp, AcpReady, AcpFailed, IInv, EntryHasHandler,
        NoticeAfterRemoval, Registered
  <2>2. OpenAcp(c) => hpc[c] \in {"respond", "serve", "dropAcp", "disconnect", "aborted"}
    BY DEF OpenAcp, Registered, IInv, EntryHasHandler, TypeOK
  <2>3. NoOrphanSession'
    BY <1>6 DEF OpenAcp, AcpReady, AcpFailed, TypeOK, IInv, NoOrphanSession
  <2>4. FreshIsClean'
    BY <1>6, <2>2 DEF OpenAcp, AcpReady, AcpFailed, TypeOK, IInv, FreshIsClean
  <2> QED BY <2>1, <2>3, <2>4 DEF IInv
<1>7. ASSUME NEW c \in Conns, ClientDisconnect(c) PROVE IInv'
  BY <1>7
  DEF ClientDisconnect, TypeOK, IInv, EntryHasHandler, NoticeAfterRemoval,
      NoOrphanSession, FreshIsClean, Registered
<1>8. ASSUME NEW c \in Conns, ConnClosed(c) \/ ClientLeave(c) \/ ClientVanish(c)
      PROVE  IInv'
  BY <1>8
  DEF ConnClosed, ClientLeave, ClientVanish, IInv, EntryHasHandler, NoticeAfterRemoval,
      NoOrphanSession, FreshIsClean, Registered
<1>9. ASSUME NEW n \in Names, AdminKick(n) PROVE IInv'
  <2>1. RemoveEntry(n) /\ UNCHANGED <<hpc, cname, acp>>
    BY <1>9 DEF AdminKick
  <2> QED
    BY <2>1, IInvRemove
    DEF IInv, EntryHasHandler, NoOrphanSession, FreshIsClean
<1>10. CASE UNCHANGED vars
  BY <1>10
  DEF vars, IInv, EntryHasHandler, NoticeAfterRemoval, NoOrphanSession,
      FreshIsClean, Registered
<1> QED
  BY <1>1, <1>2, <1>3, <1>4, <1>5, <1>6, <1>7, <1>8, <1>9, <1>10
  DEF Next, CleanUpStep

\* The inductive invariant holds throughout.
LEMMA IInvHolds == Spec => []IInv
<1>1. TypeOK /\ TypeOK' /\ IInv /\ [Next]_vars => IInv'
  BY IInvNext
<1> QED BY IInvInit, TypeCorrect, <1>1, PTL DEF Spec

\* register(), disconnect() and the clean-up never leave an entry behind whose
\* handler has finished its clean-up, for any number of overlapping clients.
THEOREM EntriesAreServed == Spec => []EntryHasHandler
<1>1. IInv => EntryHasHandler
  BY DEF IInv
<1> QED BY IInvHolds, <1>1, PTL

\* A Disconnect is only ever on its way to a client whose entry is out of the
\* registry: nothing new is opened over a connection that is told to go.
THEOREM NoticesFollowRemoval == Spec => []NoticeAfterRemoval
<1>1. IInv => NoticeAfterRemoval
  BY DEF IInv
<1> QED BY IInvHolds, <1>1, PTL

\* No agent session survives the clean-up of its connection, however its spawn
\* interleaves with the end of the reader loop.
THEOREM NoSessionIsOrphaned == Spec => []NoOrphanSession
<1>1. IInv => NoOrphanSession
  BY DEF IInv
<1> QED BY IInvHolds, <1>1, PTL
=============================================================================
