------------------------- MODULE AcpSessionsProofs -------------------------
(***************************************************************************)
(* Theorems about AcpSessions: types, one turn at a time, every message    *)
(* sent once at most, the stored queue and the waiting one agree, and no   *)
(* queue is left to itself, for any number of messages, attempts and       *)
(* faults.                                                                 *)
(***************************************************************************)
EXTENDS AcpSessions, SequenceTheorems, WellFoundedInduction, NaturalsInduction, TLAPS

-----------------------------------------------------------------------------
(* The inductive invariant.  As long as no task has acted on a successor   *)
(* of its entry, what was there before an attempt to spawn is dead to its  *)
(* entry for ever: a turn or a prompt under way counts only at the entry   *)
(* of the attempt it began with.                                           *)

\* Without an entry there is nothing.
Absent == ~Present => entry = Blank(0, <<>>)

\* The table of the client, and how far a process is whose pipeline goes on.
Processes ==
  /\ \A n \in Spawns : procs[n] = "alive" => table = n
  /\ \A n \in Spawns : stage[n] \in {"shaking", "shaken", "inject", "done"} =>
       procs[n] \in {"alive", "told", "dead"}

\* Only an attempt that is done has work, on its own entry and connection.
EntryIsDone ==
  entry.ready \/ entry.busy \/ entry.gen > 0 =>
    entry.spawn \in Spawns /\ stage[entry.spawn] = "done"
OwnConn ==
  \A n \in Spawns :
    /\ entry.spawn = n /\ stage[n] \in {"inject", "done"} => entry.conn = n
    /\ stage[n] \in {"shaking", "shaken", "inject", "done"} => pump[n] = n
MessageIsDone ==
  \A m \in Messages :
    step[m] \in {"go", "run", "insert", "stored", "unstored"} =>
      at[m] \in Spawns /\ stage[at[m]] = "done"
WorkIsDone ==
  /\ \A d \in drains : stage[d.at] = "done"
  /\ \A t \in turns : stage[t.at] = "done" /\ t.conn = t.at
Lineage == EntryIsDone /\ OwnConn /\ MessageIsDone /\ WorkIsDone

\* The process of attempt n is gone, or its end is decided.
DoomedAt(n) ==
  procs[n] \in {"told", "dead"} \/ \E f \in fallbacks : f.state = "kill" /\ f.at = n

\* busy is a lock: a turn or a prompt under way holds it, one at a time.
OneHolder(n) ==
  /\ \A s, t \in turns : s.at = n /\ t.at = n => s = t
  /\ \A d, e \in drains : d.at = n /\ e.at = n => d = e
  /\ \A t \in turns, d \in drains : ~(t.at = n /\ d.at = n)
  /\ entry.spawn = n /\ ~entry.busy =>
       (\A t \in turns : t.at # n) /\ (\A d \in drains : d.at # n)
Lock == \A n \in Spawns : DoomedAt(n) \/ OneHolder(n)

\* Somebody works for the entry.
Working == (\E t \in turns : t.at = entry.spawn) \/ (\E d \in drains : d.at = entry.spawn)
Moves ==
  /\ Alive /\ entry.busy => Working
  /\ Alive /\ entry.gen > 0 /\ entry.queue # <<>> => Working \/ DoomedAt(entry.spawn)

\* Where a message is: in the table, in the queue, or on its way out of it.
InRows(m) == \E j \in DOMAIN rows : rows[j] = m
InQueue(m) == \E i \in DOMAIN entry.queue : entry.queue[i].msg = m
Drained(m) == \E d \in drains : d.at = entry.spawn /\ d.msg = m

\* No sequence names a message twice.
Once(s) == \A i, j \in DOMAIN s : s[i] = s[j] => i = j
OnceInQueue(q) == \A i, j \in DOMAIN q : q[i].msg = q[j].msg => i = j

\* A message that has not come to the queue is nowhere else, and one whose
\* row was just written not in the queue of its own entry.
Steps ==
  \A m \in Messages :
    /\ step[m] \notin {"stored", "over"} =>
         ~InRows(m) /\ ~InQueue(m) /\ ~Drained(m) /\ sent[m] = 0
    /\ step[m] = "stored" /\ at[m] = entry.spawn =>
         InRows(m) /\ ~InQueue(m) /\ ~Drained(m) /\ sent[m] = 0

Rows ==
  /\ Once(rows)
  /\ \A j \in DOMAIN rows : sent[rows[j]] = 0
  /\ \A n \in Spawns : stage[n] = "listed" /\ entry.spawn = n =>
       Once(snap[n]) /\ \A k \in DOMAIN snap[n] : InRows(snap[n][k])

Queue ==
  /\ OnceInQueue(entry.queue)
  /\ \A i \in DOMAIN entry.queue :
       /\ sent[entry.queue[i].msg] = 0
       /\ entry.queue[i].row <=> InRows(entry.queue[i].msg)
       /\ ~Drained(entry.queue[i].msg)

UnderWay ==
  /\ \A d, e \in drains :
       d.at = entry.spawn /\ e.at = entry.spawn /\ d.msg = e.msg => d = e
  /\ \A d \in drains : d.at = entry.spawn =>
       /\ sent[d.msg] = 0
       /\ IF d.deleted THEN ~InRows(d.msg) ELSE d.row <=> InRows(d.msg)

SentOnce == \A m \in Messages : sent[m] <= 1
Copies == Steps /\ Rows /\ Queue /\ UnderWay /\ SentOnce

IInv ==
  /\ TypeOK /\ Absent /\ Processes
  /\ ~stale => Lineage /\ Lock /\ Moves /\ Copies

-----------------------------------------------------------------------------
(* What is picked from a sequence.                                         *)

\* A set of numbers that is not empty has a least one.
LEMMA Least ==
  ASSUME NEW T \in SUBSET Nat, T # {}
  PROVE  \E x \in T : \A y \in T : x <= y
<1>1. IsWellFoundedOn(OpToRel(<, Nat), Nat)
  BY NatLessThanWellFounded
<1>2. PICK x \in T : \A y \in T : ~ (<<y, x>> \in OpToRel(<, Nat))
  BY <1>1, WFMin
<1>3. \A y \in T : ~(y < x)
  BY <1>2 DEF OpToRel
<1> QED BY <1>3

\* Induction, for a set.
LEMMA Induct ==
  ASSUME NEW T \in SUBSET Nat, 0 \in T, \A n \in T : n + 1 \in T
  PROVE  T = Nat
<1> SUFFICES ASSUME Nat \ T # {} PROVE FALSE
  OBVIOUS
<1>1. PICK x \in Nat \ T : \A y \in Nat \ T : x <= y
  BY Least
<1>2. x - 1 \in T
  BY <1>1
<1> QED BY <1>1, <1>2

\* f[i] is what is picked from the first i elements of s, up to k.
Parts(s, I, k) ==
  {f \in [0..k -> Seq(Range(s))] :
     /\ f[0] = <<>>
     /\ \A i \in 1..k :
          f[i] = IF i \in I THEN Append(f[i - 1], s[i]) ELSE f[i - 1]}

\* There is such a function.
LEMMA PartsExist ==
  ASSUME NEW S, NEW s \in Seq(S), NEW I, NEW k \in 0..Len(s)
  PROVE  Parts(s, I, k) # {}
<1> DEFINE T == {n \in Nat : n <= Len(s) => Parts(s, I, n) # {}}
<1>0. Len(s) \in Nat /\ \A i \in 1..Len(s) : s[i] \in Range(s)
  BY DEF Range
<1>1. 0 \in T
  <2>1. <<>> \in Seq(Range(s))
    OBVIOUS
  <2>2. [i \in 0..0 |-> <<>>] \in Parts(s, I, 0)
    BY <2>1 DEF Parts
  <2> QED BY <2>2
<1>2. ASSUME NEW n \in T PROVE n + 1 \in T
  <2> SUFFICES ASSUME n + 1 <= Len(s) PROVE Parts(s, I, n + 1) # {}
    OBVIOUS
  <2>1. PICK f : f \in Parts(s, I, n)
    BY <1>0
  <2>2. f \in [0..n -> Seq(Range(s))]
    BY <2>1 DEF Parts
  <2> DEFINE next == IF n + 1 \in I THEN Append(f[n], s[n + 1]) ELSE f[n]
             g == [i \in 0 .. n + 1 |-> IF i = n + 1 THEN next ELSE f[i]]
  <2>3. next \in Seq(Range(s))
    BY <1>0, <2>2
  <2> HIDE DEF next
  <2>4. g \in [0 .. n + 1 -> Seq(Range(s))]
    BY <2>2, <2>3
  <2>5. g[0] = <<>> /\ g[n + 1] = next /\ \A i \in 0..n : g[i] = f[i]
    BY <2>1 DEF Parts
  <2>6. ASSUME NEW i \in 1 .. n + 1
        PROVE  g[i] = IF i \in I THEN Append(g[i - 1], s[i]) ELSE g[i - 1]
    <3>1. CASE i = n + 1
      BY <2>5, <3>1 DEF next
    <3>2. CASE i # n + 1
      <4>1. i \in 1..n /\ i \in 0..n /\ i - 1 \in 0..n
        BY <3>2
      <4>2. f[i] = IF i \in I THEN Append(f[i - 1], s[i]) ELSE f[i - 1]
        BY <2>1, <4>1 DEF Parts
      <4> QED BY <2>5, <4>1, <4>2
    <3> QED BY <3>1, <3>2
  <2> HIDE DEF g
  <2>7. g \in Parts(s, I, n + 1)
    BY <2>4, <2>5, <2>6 DEF Parts
  <2> QED BY <2>7
<1>3. T = Nat
  <2> HIDE DEF T
  <2>1. T \in SUBSET Nat
    BY DEF T
  <2> QED BY <1>1, <1>2, <2>1, Induct
<1> QED BY <1>0, <1>3

\* What is picked is the last of these.
LEMMA PickIsAPart ==
  ASSUME NEW S, NEW s \in Seq(S), NEW I
  PROVE  \E f \in Parts(s, I, Len(s)) : Pick(s, I) = f[Len(s)]
<1> DEFINE Next1(f, i) ==
             IF i = 0 THEN <<>>
             ELSE IF i \in I THEN Append(f[i - 1], s[i]) ELSE f[i - 1]
           IsPart(f) == f = [i \in 0..Len(s) |-> Next1(f, i)]
           part == CHOOSE f : IsPart(f)
<1>1. PICK f : f \in Parts(s, I, Len(s))
  <2>1. Len(s) \in 0..Len(s)
    OBVIOUS
  <2> QED BY <2>1, PartsExist
<1>2. IsPart(f)
  <2>1. f \in [0..Len(s) -> Seq(Range(s))]
    BY <1>1 DEF Parts
  <2>2. ASSUME NEW i \in 0..Len(s) PROVE f[i] = Next1(f, i)
    <3>1. CASE i = 0
      BY <1>1, <3>1 DEF Parts
    <3>2. CASE i # 0
      <4>1. i \in 1..Len(s)
        BY <3>2
      <4> QED BY <1>1, <3>2, <4>1 DEF Parts
    <3> QED BY <3>1, <3>2
  <2> QED BY <2>1, <2>2
<1>3. IsPart(part)
  <2> HIDE DEF IsPart
  <2> QED BY <1>2
<1>4. part \in Parts(s, I, Len(s))
  <2>0. Len(s) \in Nat
    OBVIOUS
  <2>1. \A i \in 0..Len(s) : part[i] = Next1(part, i)
    BY <1>3
  <2> DEFINE T == {i \in Nat : i <= Len(s) => part[i] = f[i]}
  <2>2. 0 \in T
    <3>1. 0 \in 0..Len(s)
      BY <2>0
    <3>2. part[0] = Next1(part, 0)
      BY <2>1, <3>1
    <3>3. f[0] = <<>>
      BY <1>1 DEF Parts
    <3> HIDE DEF part
    <3> QED BY <3>2, <3>3
  <2>3. ASSUME NEW i \in T PROVE i + 1 \in T
    <3> SUFFICES ASSUME i + 1 <= Len(s) PROVE part[i + 1] = f[i + 1]
      OBVIOUS
    <3>1. i + 1 \in 1..Len(s) /\ i + 1 \in 0..Len(s) /\ (i + 1) - 1 = i /\ i + 1 # 0
      BY <2>0
    <3>2. part[i] = f[i]
      BY <2>0
    <3>3. f[i + 1] = IF i + 1 \in I THEN Append(f[i], s[i + 1]) ELSE f[i]
      BY <1>1, <3>1 DEF Parts
    <3>4. part[i + 1] = Next1(part, i + 1)
      BY <2>1, <3>1
    <3> HIDE DEF part
    <3> QED BY <3>1, <3>2, <3>3, <3>4
  <2>4. T = Nat
    <3> HIDE DEF T
    <3>1. T \in SUBSET Nat
      BY DEF T
    <3> QED BY <2>2, <2>3, <3>1, Induct
  <2>5. \A i \in 0..Len(s) : part[i] = f[i]
    BY <2>0, <2>4
  <2>6. part = [i \in 0..Len(s) |-> Next1(part, i)]
    BY <1>3
  <2>7. f = [i \in 0..Len(s) |-> f[i]]
    BY <1>1 DEF Parts
  <2>8. part = [i \in 0..Len(s) |-> part[i]]
    BY <2>1, <2>6
  <2> HIDE DEF part
  <2>9. part = f
    BY <2>5, <2>7, <2>8
  <2> QED BY <1>1, <2>9
<1>5. Pick(s, I) = part[Len(s)]
  BY DEF Pick
<1> QED BY <1>4, <1>5

\* g says where in s the elements of r are: r is what s has at I, in order.
Places(r, s, I, k) ==
  {g \in [1..Len(r) -> {j \in 1..k : j \in I}] :
     /\ \A a \in 1..Len(r) : r[a] = s[g[a]]
     /\ \A a, b \in 1..Len(r) : a < b => g[a] < g[b]
     /\ \A j \in 1..k : j \in I => \E a \in 1..Len(r) : g[a] = j}

LEMMA PartHasPlaces ==
  ASSUME NEW S, NEW s \in Seq(S), NEW I, NEW k \in 0..Len(s), NEW f \in Parts(s, I, k)
  PROVE  f[k] \in Seq(S) /\ Places(f[k], s, I, k) # {}
<1> DEFINE T == {i \in Nat : i <= k => f[i] \in Seq(S) /\ Places(f[i], s, I, i) # {}}
<1>0. k \in Nat /\ Len(s) \in Nat /\ \A i \in 1..Len(s) : s[i] \in S
  OBVIOUS
<1>1. 0 \in T
  <2>1. f[0] = <<>> /\ <<>> \in Seq(S) /\ Len(<<>>) = 0
    BY DEF Parts
  <2>2. [a \in 1..0 |-> 0] \in Places(<<>>, s, I, 0)
    BY DEF Places
  <2> QED BY <2>1, <2>2
<1>2. ASSUME NEW i \in T PROVE i + 1 \in T
  <2> SUFFICES ASSUME i + 1 <= k
               PROVE  f[i + 1] \in Seq(S) /\ Places(f[i + 1], s, I, i + 1) # {}
    OBVIOUS
  <2>1. i + 1 \in 1..k /\ (i + 1) - 1 = i /\ i + 1 \in 1..Len(s)
    BY <1>0
  <2>2. f[i + 1] = IF i + 1 \in I THEN Append(f[i], s[i + 1]) ELSE f[i]
    BY <2>1 DEF Parts
  <2>3. f[i] \in Seq(S) /\ Places(f[i], s, I, i) # {}
    BY <1>0
  <2>4. PICK g : g \in Places(f[i], s, I, i)
    BY <2>3
  <2> DEFINE r == f[i]
             x == s[i + 1]
  <2>5. /\ r \in Seq(S) /\ x \in S
        /\ g \in [1..Len(r) -> {j \in 1..i : j \in I}]
        /\ \A a \in 1..Len(r) : r[a] = s[g[a]]
        /\ \A a, b \in 1..Len(r) : a < b => g[a] < g[b]
        /\ \A j \in 1..i : j \in I => \E a \in 1..Len(r) : g[a] = j
    BY <1>0, <2>1, <2>3, <2>4 DEF Places
  <2> HIDE DEF r
  <2>6. CASE i + 1 \in I
    <3> DEFINE q == Append(r, x)
               h == [a \in 1..Len(q) |-> IF a = Len(q) THEN i + 1 ELSE g[a]]
    <3>1. /\ q \in Seq(S) /\ Len(q) = Len(r) + 1 /\ Len(r) \in Nat
          /\ \A a \in 1..Len(r) : q[a] = r[a]
          /\ q[Len(r) + 1] = x
      BY <2>5
    <3> HIDE DEF x, q
    <3>2. h \in [1..Len(q) -> {j \in 1 .. i + 1 : j \in I}]
      BY <2>5, <2>6, <3>1
    <3>3. h[Len(r) + 1] = i + 1 /\ \A a \in 1..Len(r) : h[a] = g[a]
      BY <3>1
    <3> HIDE DEF h
    <3>4. \A a \in 1..Len(q) : q[a] = s[h[a]]
      BY <2>5, <3>1, <3>3 DEF x
    <3>5. \A a, b \in 1..Len(q) : a < b => h[a] < h[b]
      BY <2>5, <3>1, <3>3
    <3>6. ASSUME NEW j \in 1 .. i + 1, j \in I PROVE \E a \in 1..Len(q) : h[a] = j
      <4>1. CASE j = i + 1
        BY <3>1, <3>3, <4>1
      <4>2. CASE j # i + 1
        <5>1. PICK a \in 1..Len(r) : g[a] = j
          BY <2>5, <3>6, <4>2
        <5> QED BY <3>1, <3>3, <5>1
      <4> QED BY <4>1, <4>2
    <3>7. h \in Places(q, s, I, i + 1)
      BY <3>2, <3>4, <3>5, <3>6 DEF Places
    <3>8. f[i + 1] = q
      BY <2>2, <2>6 DEF q, r, x
    <3> QED BY <3>1, <3>7, <3>8
  <2>7. CASE i + 1 \notin I
    <3>1. g \in [1..Len(r) -> {j \in 1 .. i + 1 : j \in I}]
      BY <2>5
    <3>2. \A j \in 1 .. i + 1 : j \in I => j \in 1..i
      BY <2>7
    <3>3. g \in Places(r, s, I, i + 1)
      BY <2>5, <3>1, <3>2 DEF Places
    <3>4. f[i + 1] = r
      BY <2>2, <2>7 DEF r
    <3> QED BY <2>5, <3>3, <3>4
  <2> QED BY <2>6, <2>7
<1>3. T = Nat
  <2> HIDE DEF T
  <2>1. T \in SUBSET Nat
    BY DEF T
  <2> QED BY <1>1, <1>2, <2>1, Induct
<1> QED BY <1>0, <1>3

\* Pick returns what s has at the positions in I, each once and in order.
LEMMA Picked ==
  ASSUME NEW S, NEW s \in Seq(S), NEW I
  PROVE  Pick(s, I) \in Seq(S) /\ Places(Pick(s, I), s, I, Len(s)) # {}
<1>1. PICK f \in Parts(s, I, Len(s)) : Pick(s, I) = f[Len(s)]
  BY PickIsAPart
<1>2. Len(s) \in 0..Len(s)
  OBVIOUS
<1> QED BY <1>1, <1>2, PartHasPlaces

\* Deleting a row deletes that row.
LEMMA WithoutIs ==
  ASSUME NEW m, rows \in Seq(Messages)
  PROVE  /\ Without(m) \in Seq(Messages)
         /\ Once(rows) => Once(Without(m))
         /\ \A x : (\E j \in DOMAIN Without(m) : Without(m)[j] = x) <=> InRows(x) /\ x # m
<1> DEFINE I == {i \in DOMAIN rows : rows[i] # m}
           W == Pick(rows, I)
<1>1. W \in Seq(Messages) /\ Places(W, rows, I, Len(rows)) # {}
  BY Picked
<1>2. PICK g : g \in Places(W, rows, I, Len(rows))
  BY <1>1
<1> HIDE DEF W
<1>3. DOMAIN rows = 1..Len(rows) /\ DOMAIN W = 1..Len(W) /\ Len(W) \in Nat
  BY <1>1
<1>4. /\ \A a \in DOMAIN W : g[a] \in DOMAIN rows /\ rows[g[a]] # m /\ W[a] = rows[g[a]]
      /\ \A j \in DOMAIN rows : rows[j] # m => \E a \in DOMAIN W : g[a] = j
  BY <1>2, <1>3 DEF Places
<1>5. \A a, b \in DOMAIN W : g[a] = g[b] => a = b
  <2> SUFFICES ASSUME NEW a \in DOMAIN W, NEW b \in DOMAIN W, g[a] = g[b], a # b
               PROVE  FALSE
    OBVIOUS
  <2>1. a < b \/ b < a
    BY <1>3
  <2>2. g[a] < g[b] \/ g[b] < g[a]
    BY <1>2, <1>3, <2>1 DEF Places
  <2>3. g[a] \in Int
    BY <1>3, <1>4
  <2> QED BY <2>2, <2>3
<1>6. Once(rows) => Once(W)
  BY <1>4, <1>5 DEF Once
<1>7. ASSUME NEW x PROVE (\E j \in DOMAIN W : W[j] = x) <=> InRows(x) /\ x # m
  BY <1>4 DEF InRows
<1>8. Without(m) = W
  BY DEF Without, W
<1> QED BY <1>1, <1>6, <1>7, <1>8

\* Of the queue in memory only what has no row is kept.
Kept == Pick(entry.queue, {i \in DOMAIN entry.queue : ~entry.queue[i].row})

LEMMA KeptIs ==
  ASSUME entry.queue \in Seq(Items)
  PROVE  /\ Kept \in Seq(Items)
         /\ \A a \in DOMAIN Kept :
              ~Kept[a].row /\ \E i \in DOMAIN entry.queue : Kept[a] = entry.queue[i]
         /\ OnceInQueue(entry.queue) => OnceInQueue(Kept)
<1> DEFINE I == {i \in DOMAIN entry.queue : ~entry.queue[i].row}
           q == entry.queue
<1>1. Kept \in Seq(Items) /\ Places(Kept, q, I, Len(q)) # {}
  BY Picked DEF Kept
<1>2. PICK g : g \in Places(Kept, q, I, Len(q))
  BY <1>1
<1>3. DOMAIN q = 1..Len(q) /\ DOMAIN Kept = 1..Len(Kept) /\ Len(Kept) \in Nat
  BY <1>1
<1>4. \A a \in DOMAIN Kept : g[a] \in DOMAIN q /\ ~q[g[a]].row /\ Kept[a] = q[g[a]]
  BY <1>2, <1>3 DEF Places
<1>5. \A a, b \in DOMAIN Kept : g[a] = g[b] => a = b
  <2> SUFFICES ASSUME NEW a \in DOMAIN Kept, NEW b \in DOMAIN Kept, g[a] = g[b], a # b
               PROVE  FALSE
    OBVIOUS
  <2>1. a < b \/ b < a
    BY <1>3
  <2>2. g[a] < g[b] \/ g[b] < g[a]
    BY <1>2, <1>3, <2>1 DEF Places
  <2>3. g[a] \in Int
    BY <1>3, <1>4
  <2> QED BY <2>2, <2>3
<1>6. OnceInQueue(q) => OnceInQueue(Kept)
  BY <1>4, <1>5 DEF OnceInQueue
<1> QED BY <1>1, <1>4, <1>6

-----------------------------------------------------------------------------
(* Types.                                                                  *)

LEMMA Sizes ==
  /\ MaxMessages \in Nat \ {0} /\ MaxSpawns \in Nat \ {0} /\ MaxFaults \in Nat
  /\ 0 \in Tasks /\ Spawns \subseteq Tasks /\ 0 \notin Spawns
  /\ Messages \subseteq 0..MaxMessages
BY BoundAssumption DEF Tasks, Spawns, Messages

\* A new entry is one.
LEMMA BlankIs ==
  ASSUME NEW n \in Tasks, NEW q \in Seq(Items)
  PROVE  Blank(n, q) \in Entries /\ Blank(n, q).cancelled = {} /\ Blank(n, q).gen = 0
BY Sizes DEF Blank, Entries

LEMMA InitIsTyped == Init => TypeOK
<1> SUFFICES ASSUME Init PROVE TypeOK
  OBVIOUS
<1>1. entry \in Entries /\ entry.cancelled \subseteq 0..entry.gen
  <2>1. <<>> \in Seq(Items)
    OBVIOUS
  <2> QED BY <2>1, Sizes, BlankIs, Zenon DEF Init
<1>2. stale \in BOOLEAN
  BY Zenon DEF Init
<1> QED BY Sizes, <1>1, <1>2 DEF Init, TypeOK

\* The ways in which an entry changes.
LEMMA ChangedEntry ==
  ASSUME NEW e \in Entries, NEW q \in Seq(Items), NEW b \in BOOLEAN, NEW k \in Nat,
         NEW c \in SUBSET Nat
  PROVE  /\ [e EXCEPT !.queue = q] \in Entries
         /\ [e EXCEPT !.io = b] \in Entries
         /\ [e EXCEPT !.queue = q, !.busy = b] \in Entries
         /\ [e EXCEPT !.busy = b, !.gen = k] \in Entries
         /\ [e EXCEPT !.busy = b, !.cancelled = c] \in Entries
         /\ [e EXCEPT !.busy = b, !.cancelled = c, !.queue = q] \in Entries
         /\ [e EXCEPT !.cancelled = c] \in Entries
BY DEF Entries

LEMMA MarkIsTyped ==
  ASSUME stale \in BOOLEAN, NEW n, Mark(n)
  PROVE  stale' \in BOOLEAN
BY Zenon DEF Mark

LEMMA TakenIsTyped ==
  ASSUME entry \in Entries, Present, NEW q \in Seq(Items), q # <<>>, NEW by \in 0..MaxMessages
  PROVE  Taken(Head(q), by) \in Drains /\ Tail(q) \in Seq(Items)
<1>1. Head(q) \in Items /\ Tail(q) \in Seq(Items)
  OBVIOUS
<1>2. entry.spawn \in Spawns
  BY Sizes DEF Entries, Tasks, Spawns, Present
<1> QED BY <1>1, <1>2 DEF Taken, Drains, Items

\* A prompt whose row is deleted is the same prompt.
LEMMA DeletedIs ==
  ASSUME NEW d \in Drains
  PROVE  LET e == [d EXCEPT !.deleted = TRUE]
         IN e \in Drains /\ e.msg = d.msg /\ e.at = d.at /\ e.row = d.row /\ e.deleted
BY DEF Drains

LEMMA BeginTurnIsTyped ==
  ASSUME TypeOK, Present, entry.conn \in Spawns, NEW x \in Messages, BeginTurn(x)
  PROVE  /\ entry' \in Entries /\ entry'.cancelled \subseteq 0..entry'.gen
         /\ turns' \subseteq Turns /\ sent' \in [Messages -> Nat]
<1>1. entry \in Entries /\ entry.gen \in Nat /\ entry.gen + 1 \in Nat
  BY DEF TypeOK, Entries
<1>2. entry.spawn \in Spawns
  BY <1>1, Sizes DEF Entries, Tasks, Spawns, Present
<1>3. /\ [entry EXCEPT !.busy = TRUE, !.gen = entry.gen + 1] \in Entries
      /\ [entry EXCEPT !.busy = FALSE, !.gen = entry.gen + 1] \in Entries
  <2>1. TRUE \in BOOLEAN /\ FALSE \in BOOLEAN /\ <<>> \in Seq(Items) /\ {} \in SUBSET Nat
    OBVIOUS
  <2> QED BY <1>1, <2>1, ChangedEntry, Zenon
<1>4. entry.cancelled \subseteq 0 .. entry.gen + 1
  <2>1. entry.cancelled \subseteq 0 .. entry.gen
    BY DEF TypeOK
  <2> QED BY <1>1, <2>1
<1>5. CASE Registered
  <2>1. entry' \in Entries
    BY <1>3, <1>5 DEF BeginTurn
  <2>2. entry'.cancelled = entry.cancelled /\ entry'.gen = entry.gen + 1
    BY <1>1, <1>5 DEF BeginTurn, Entries
  <2>3. [msg |-> x, conn |-> entry.conn, gen |-> entry.gen + 1,
         at |-> entry.spawn, answered |-> FALSE] \in Turns
    BY <1>1, <1>2 DEF Turns
  <2>4. turns' \subseteq Turns
    <3>1. turns \subseteq Turns
      BY DEF TypeOK
    <3> QED BY <1>5, <2>3, <3>1 DEF BeginTurn
  <2>5. sent' \in [Messages -> Nat]
    <3>1. sent \in [Messages -> Nat]
      BY DEF TypeOK
    <3> QED BY <1>5, <3>1 DEF BeginTurn
  <2> QED BY <1>4, <2>1, <2>2, <2>4, <2>5
<1>6. CASE ~Registered
  <2>1. entry' \in Entries
    BY <1>3, <1>6 DEF BeginTurn
  <2>2. entry'.cancelled = entry.cancelled /\ entry'.gen = entry.gen + 1
    BY <1>1, <1>6 DEF BeginTurn, Entries
  <2>3. turns' \subseteq Turns /\ sent' \in [Messages -> Nat]
    BY <1>6 DEF BeginTurn, TypeOK, Turns
  <2> QED BY <1>4, <2>1, <2>2, <2>3
<1> QED BY <1>5, <1>6

LEMMA StepIsTyped == TypeOK /\ Absent /\ [Next]_vars => TypeOK'
<1> SUFFICES ASSUME TypeOK, Absent, [Next]_vars PROVE TypeOK'
  OBVIOUS
<1> USE Sizes
<1>0. entry \in Entries /\ entry.queue \in Seq(Items) /\ entry.gen \in Nat /\ <<>> \in Seq(Items)
  BY DEF TypeOK, Entries
<1>1. ASSUME NEW m \in Messages, Ensure(m) PROVE TypeOK'
  <2>1. CASE Alive
    BY <1>1, <2>1 DEF Ensure, TypeOK, client, prompts
  <2>2. CASE ~Alive
    <3>1. PICK n \in Spawns : /\ stage' = [stage EXCEPT ![n] = "placed"]
                              /\ at' = [at EXCEPT ![m] = n]
                              /\ entry' = Blank(n, entry.queue)
      BY <1>1, <2>2 DEF Ensure
    <3>2. entry' \in Entries /\ entry'.cancelled = {} /\ n \in Tasks
      BY <1>0, <3>1, BlankIs
    <3> QED BY <1>1, <3>1, <3>2 DEF Ensure, TypeOK, client, prompts
  <2> QED BY <2>1, <2>2
<1>2. ASSUME NEW m \in Messages, Subscribe(m) PROVE TypeOK'
  <2>1. entry.spawn \in Tasks
    BY <1>0 DEF Entries
  <2>2. /\ step' \in [Messages -> {"new", "ensured", "wait", "go", "run", "insert",
                                  "stored", "unstored", "over"}]
        /\ at' \in [Messages -> Tasks]
    <3>1. /\ step \in [Messages -> {"new", "ensured", "wait", "go", "run", "insert",
                                    "stored", "unstored", "over"}]
          /\ at \in [Messages -> Tasks]
      BY DEF TypeOK
    <3>2. CASE ~Present \/ (at[m] # 0 /\ stage[at[m]] = "failed")
      BY <1>2, <3>1, <3>2 DEF Subscribe, StepTo
    <3>3. CASE ~(~Present \/ (at[m] # 0 /\ stage[at[m]] = "failed"))
      BY <1>2, <2>1, <3>1, <3>3 DEF Subscribe
    <3> QED BY <3>2, <3>3
  <2>3. UNCHANGED <<entry, rows, spawning, client, prompts, ender, left, stale>>
    BY <1>2 DEF Subscribe
  <2> QED BY <2>2, <2>3 DEF TypeOK, spawning, client, prompts
<1>3. ASSUME NEW m \in Messages, WaitReady(m) PROVE TypeOK'
  BY <1>3 DEF WaitReady, TypeOK, Entries, Items, spawning, client, prompts, StepTo
<1>4. ASSUME NEW m \in Messages, Submit(m) PROVE TypeOK'
  BY <1>4 DEF Submit, TypeOK, Entries, Items, spawning, client, prompts, StepTo, Mark
<1>5. ASSUME NEW m \in Messages, Run(m) PROVE TypeOK'
  <2>1. CASE MayPrompt(FALSE)
    <3>1. Present /\ entry.conn \in Spawns /\ BeginTurn(m)
      BY <1>5, <1>0, <2>1 DEF Run, MayPrompt, Alive, Entries, Tasks, Spawns
    <3>2. /\ entry' \in Entries /\ entry'.cancelled \subseteq 0..entry'.gen
          /\ turns' \subseteq Turns /\ sent' \in [Messages -> Nat]
      BY <3>1, BeginTurnIsTyped
    <3>3. stale' \in BOOLEAN
      BY <1>5, MarkIsTyped DEF Run, TypeOK
    <3> QED BY <1>5, <3>2, <3>3 DEF Run, TypeOK, StepTo, spawning, client
  <2>2. CASE ~MayPrompt(FALSE)
    BY <1>5, <2>2 DEF Run, TypeOK, StepTo, Mark, spawning, client
  <2> QED BY <2>1, <2>2
<1>6. ASSUME NEW m \in Messages, Insert(m) PROVE TypeOK'
  BY <1>6 DEF Insert, TypeOK, Entries, Items, spawning, client, prompts
<1>7. ASSUME NEW m \in Messages, Push(m) PROVE TypeOK'
  <2> DEFINE item == [msg |-> m, row |-> step[m] = "stored"]
             queue == Append(entry.queue, item)
  <2>1. stale' \in BOOLEAN
    BY <1>7, MarkIsTyped DEF Push, TypeOK
  <2>2. step' \in [Messages -> {"new", "ensured", "wait", "go", "run", "insert",
                                  "stored", "unstored", "over"}]
        /\ at' \in [Messages -> Tasks]
    BY <1>7 DEF Push, StepTo, TypeOK
  <2>3. item \in Items
    BY DEF Items
  <2>4. queue \in Seq(Items) /\ queue # <<>>
    BY <1>0, <2>3
  <2>5. UNCHANGED <<turns, fallbacks, sent, spawning, client, ender, left>>
    BY <1>7 DEF Push
  <2> HIDE DEF item
  <2>6. CASE ~Present
    <3>1. rows' \in Seq(Messages) /\ UNCHANGED <<entry, drains>>
      BY <1>7, <2>6, WithoutIs DEF Push, TypeOK
    <3> QED BY <2>1, <2>2, <2>5, <3>1 DEF TypeOK, spawning, client
  <2>7. CASE Present /\ entry.busy
    <3>1. UNCHANGED <<rows, drains>> /\ entry' = [entry EXCEPT !.queue = queue]
      BY <1>7, <2>7 DEF Push, item
    <3> HIDE DEF queue
    <3>2. entry' \in Entries /\ entry'.cancelled = entry.cancelled /\ entry'.gen = entry.gen
      BY <1>0, <2>4, <3>1 DEF Entries
    <3> QED BY <2>1, <2>2, <2>5, <3>1, <3>2 DEF TypeOK, spawning, client
  <2>8. CASE Present /\ ~entry.busy
    <3>1. /\ UNCHANGED rows
          /\ entry' = [entry EXCEPT !.queue = Tail(queue), !.busy = TRUE]
          /\ drains' = drains \cup {Taken(Head(queue), m)}
      BY <1>7, <2>8 DEF Push, item
    <3> HIDE DEF queue
    <3>2. Tail(queue) \in Seq(Items) /\ Taken(Head(queue), m) \in Drains
      BY <1>0, <2>4, <2>8, TakenIsTyped
    <3>3. entry' \in Entries /\ entry'.cancelled = entry.cancelled /\ entry'.gen = entry.gen
      BY <1>0, <3>1, <3>2 DEF Entries
    <3> QED BY <2>1, <2>2, <2>5, <3>1, <3>2, <3>3 DEF TypeOK, spawning, client
  <2> QED BY <2>6, <2>7, <2>8
<1>8. ASSUME NEW n \in Spawns, ListRows(n) PROVE TypeOK'
  BY <1>8 DEF ListRows, TypeOK, Entries, Items, spawning, client, prompts
<1>9. ASSUME NEW n \in Spawns, Restore(n) PROVE TypeOK'
  <2>1. CASE snap[n] # <<>> /\ Present
    <3> DEFINE q == [i \in DOMAIN snap[n] |-> [msg |-> snap[n][i], row |-> TRUE]]
    <3>1. q \in Seq(Items) /\ Kept \in Seq(Items)
      <4>1. snap[n] \in Seq(Messages) /\ Len(snap[n]) \in Nat /\ DOMAIN snap[n] = 1..Len(snap[n])
        BY DEF TypeOK
      <4>2. \A i \in DOMAIN snap[n] : [msg |-> snap[n][i], row |-> TRUE] \in Items
        BY <4>1 DEF Items
      <4> QED BY <4>1, <4>2, <1>0, KeptIs
    <3>2. entry' = [entry EXCEPT !.queue = q \o Kept]
      BY <1>9, <2>1 DEF Restore, Kept
    <3> HIDE DEF q
    <3>3. q \o Kept \in Seq(Items)
      BY <3>1
    <3>4. entry' \in Entries /\ entry'.cancelled = entry.cancelled /\ entry'.gen = entry.gen
      BY <1>0, <3>2, <3>3 DEF Entries
    <3>5. stale' \in BOOLEAN
      BY <1>9, <2>1, MarkIsTyped DEF Restore, TypeOK
    <3>6. /\ stage' = [stage EXCEPT ![n] = "restored"] /\ snap' = [snap EXCEPT ![n] = <<>>]
          /\ UNCHANGED <<rows, step, at, pump, client, prompts, ender, left>>
      BY <1>9 DEF Restore
    <3>7. <<>> \in Seq(Messages)
      OBVIOUS
    <3> QED BY <3>4, <3>5, <3>6, <3>7 DEF TypeOK, client, prompts
  <2>2. CASE ~(snap[n] # <<>> /\ Present)
    <3>1. <<>> \in Seq(Messages)
      OBVIOUS
    <3> QED BY <1>9, <2>2, <3>1 DEF Restore, TypeOK, client, prompts
  <2> QED BY <2>1, <2>2
<1>10. ASSUME NEW n \in Spawns, AskSpawn(n) PROVE TypeOK'
  BY <1>10 DEF AskSpawn, TypeOK, Entries, Items, spawning, client, prompts
<1>11. ASSUME NEW n \in Spawns, StartProcess(n) PROVE TypeOK'
  BY <1>11 DEF StartProcess, TypeOK, Entries, Items, spawning, client, prompts
<1>12. ASSUME NEW n \in Spawns, Connect(n) PROVE TypeOK'
  <2>1. stale' \in BOOLEAN
    BY <1>12, MarkIsTyped DEF Connect, TypeOK
  <2>2. entry' \in Entries /\ entry'.cancelled \subseteq 0..entry'.gen
    <3>1. CASE Present /\ entry.io
      <4>1. entry' = [entry EXCEPT !.io = FALSE]
        BY <1>12, <3>1 DEF Connect
      <4>2. entry.cancelled \subseteq 0..entry.gen
        BY DEF TypeOK
      <4> QED BY <1>0, <4>1, <4>2 DEF Entries
    <3>2. CASE ~(Present /\ entry.io)
      BY <1>12, <1>0, <3>2, BlankIs DEF Connect, RemoveEntry
    <3> QED BY <3>1, <3>2
  <2> QED BY <1>12, <1>0, <2>1, <2>2 DEF Connect, TypeOK, Entries, client, prompts
<1>13. ASSUME NEW n \in Spawns, Shake(n) PROVE TypeOK'
  BY <1>13 DEF Shake, TypeOK, Entries, Items, spawning, client, prompts
<1>14. ASSUME NEW n \in Spawns, WriteConnection(n) PROVE TypeOK'
  BY <1>14 DEF WriteConnection, TypeOK, Entries, Items, spawning, client, prompts, Mark
<1>15. ASSUME NEW n \in Spawns, MakeReady(n) PROVE TypeOK'
  BY <1>15 DEF MakeReady, TypeOK, Entries, Items, spawning, client, prompts, Mark
<1>16. ASSUME NEW n \in Spawns, FailSpawn(n) PROVE TypeOK'
  <2>1. entry' \in Entries /\ entry'.cancelled \subseteq 0..entry'.gen
    BY <1>0, <1>16, BlankIs DEF FailSpawn, RemoveEntry
  <2> QED BY <1>0, <1>16, <2>1 DEF FailSpawn, TypeOK, Entries, spawning, client, prompts, Mark
<1>17. ASSUME NEW n \in Spawns, Die(n) PROVE TypeOK'
  BY <1>17 DEF Die, TypeOK, Entries, Items, spawning, client, prompts
<1>18. ASSUME NEW n \in Spawns, HandleExit(n) PROVE TypeOK'
  BY <1>18 DEF HandleExit, TypeOK, Entries, Items, spawning, client, prompts, Mark
<1>19. ASSUME NEW d \in drains, DeleteRow(d) PROVE TypeOK'
  <2>1. [d EXCEPT !.deleted = TRUE] \in Drains
    <3>1. d \in Drains
      BY DEF TypeOK
    <3> QED BY <3>1, DeletedIs
  <2>2. rows' \in Seq(Messages)
    BY <1>19, WithoutIs DEF DeleteRow, TypeOK
  <2> QED BY <1>19, <2>1, <2>2 DEF DeleteRow, TypeOK, spawning, client, Mark
<1>20. ASSUME NEW d \in drains, Dispatch(d) PROVE TypeOK'
  <2>0. d \in Drains
    BY DEF TypeOK
  <2>1. CASE MayPrompt(TRUE)
    <3>1. Present /\ entry.conn \in Spawns /\ BeginTurn(d.msg) /\ d.msg \in Messages
      BY <1>20, <1>0, <2>0, <2>1 DEF Dispatch, MayPrompt, Alive, Entries, Tasks, Spawns, Drains
    <3>2. /\ entry' \in Entries /\ entry'.cancelled \subseteq 0..entry'.gen
          /\ turns' \subseteq Turns /\ sent' \in [Messages -> Nat]
      BY <3>1, BeginTurnIsTyped
    <3>3. stale' \in BOOLEAN
      BY <1>20, MarkIsTyped DEF Dispatch, TypeOK
    <3> QED BY <1>20, <3>2, <3>3 DEF Dispatch, TypeOK, spawning, client
  <2>2. CASE ~MayPrompt(TRUE)
    BY <1>20, <2>2 DEF Dispatch, TypeOK, Mark, spawning, client
  <2> QED BY <2>1, <2>2
<1>21. ASSUME NEW t \in turns, EndTurn(t) PROVE TypeOK'
  <2>0. t \in Turns
    BY DEF TypeOK
  <2>1. [t EXCEPT !.answered = TRUE] \in Turns
    BY ONLY <2>0 DEF Turns
  <2> QED BY <1>21, <2>1 DEF EndTurn, TypeOK, spawning, client
<1>22. ASSUME NEW t \in turns, FinishTurn(t) PROVE TypeOK'
  <2>0. t \in Turns /\ t.gen \in Nat /\ entry.cancelled \in SUBSET Nat
    BY <1>0 DEF TypeOK, Turns, Entries
  <2>1. stale' \in BOOLEAN
    BY <1>22, MarkIsTyped DEF FinishTurn, TypeOK
  <2>2. turns' \subseteq Turns /\ fallbacks' \subseteq Fallbacks
    BY <1>22 DEF FinishTurn, TypeOK
  <2>3. UNCHANGED <<rows, step, at, sent, spawning, client, ender, left>>
    BY <1>22 DEF FinishTurn
  <2> DEFINE next == Alive /\ entry.queue # <<>>
             c == entry.cancelled \ {t.gen}
             q == IF next THEN Tail(entry.queue) ELSE entry.queue
  <2>4. CASE ~Present
    <3>1. UNCHANGED <<entry, drains>>
      BY <1>22, <2>4 DEF FinishTurn
    <3> QED BY <2>1, <2>2, <2>3, <3>1 DEF TypeOK, spawning, client
  <2>5. CASE Present
    <3>1. /\ entry' = [entry EXCEPT !.busy = next, !.cancelled = c, !.queue = q]
          /\ drains' = IF next THEN drains \cup {Taken(Head(entry.queue), 0)} ELSE drains
      BY <1>22, <2>5 DEF FinishTurn
    <3>2. next \in BOOLEAN /\ c \in SUBSET Nat
      BY <2>0 DEF Alive, Present
    <3>3. q \in Seq(Items)
      BY <1>0
    <3>4. drains' \subseteq Drains
      <4>1. drains \subseteq Drains
        BY DEF TypeOK
      <4>2. CASE next
        <5>1. Taken(Head(entry.queue), 0) \in Drains
          <6>1. 0 \in 0..MaxMessages
            OBVIOUS
          <6> QED BY <1>0, <2>5, <4>2, <6>1, TakenIsTyped
        <5> QED BY <3>1, <4>1, <4>2, <5>1
      <4>3. CASE ~next
        BY <3>1, <4>1, <4>3
      <4> QED BY <4>2, <4>3
    <3> HIDE DEF next, q, c
    <3>5. entry' \in Entries /\ entry'.cancelled = c /\ entry'.gen = entry.gen
      BY <1>0, <3>1, <3>2, <3>3 DEF Entries
    <3>6. entry'.cancelled \subseteq 0..entry'.gen
      BY <3>5 DEF TypeOK, c
    <3> QED BY <2>1, <2>2, <2>3, <3>4, <3>5, <3>6 DEF TypeOK, spawning, client
  <2> QED BY <2>4, <2>5
<1>23. ASSUME NEW f \in fallbacks, Arm(f) PROVE TypeOK'
  <2>1. [f EXCEPT !.state = "armed"] \in Fallbacks
    BY DEF TypeOK, Fallbacks
  <2> QED BY <1>23, <2>1 DEF Arm, TypeOK, spawning, client
<1>24. ASSUME NEW f \in fallbacks, GraceOver(f) PROVE TypeOK'
  <2>0. f \in Fallbacks /\ f.gen \in Nat /\ entry.cancelled \in SUBSET Nat
    BY <1>0 DEF TypeOK, Fallbacks, Entries
  <2>1. stale' \in BOOLEAN
    BY <1>24, MarkIsTyped DEF GraceOver, TypeOK
  <2>2. fallbacks' \subseteq Fallbacks
    <3>1. [f EXCEPT !.state = "kill"] \in Fallbacks
      BY <2>0 DEF Fallbacks
    <3>2. fallbacks \subseteq Fallbacks
      BY DEF TypeOK
    <3> QED BY <1>24, <3>1, <3>2 DEF GraceOver
  <2>3. entry' \in Entries /\ entry'.cancelled \subseteq 0..entry'.gen
    <3> DEFINE c == entry.cancelled \ {f.gen}
    <3>1. CASE entry.busy /\ f.gen \in entry.cancelled
      <4>1. entry' = [entry EXCEPT !.busy = FALSE, !.cancelled = c]
        BY <1>24, <3>1 DEF GraceOver
      <4>2. c \in SUBSET Nat
        BY <2>0
      <4> HIDE DEF c
      <4>3. entry' \in Entries /\ entry'.cancelled = c /\ entry'.gen = entry.gen
        BY <1>0, <4>1, <4>2 DEF Entries
      <4> QED BY <4>3 DEF TypeOK, c
    <3>2. CASE ~(entry.busy /\ f.gen \in entry.cancelled)
      BY <1>24, <3>2 DEF GraceOver, TypeOK
    <3> QED BY <3>1, <3>2
  <2> QED BY <1>24, <2>1, <2>2, <2>3 DEF GraceOver, TypeOK, spawning, client
<1>25. ASSUME NEW f \in fallbacks, KillCancelled(f) PROVE TypeOK'
  BY <1>25 DEF KillCancelled, TypeOK, Entries, Items, spawning, client, prompts, Mark, TellTable
<1>26. ASSUME Cancel PROVE TypeOK'
  <2>1. entry' = [entry EXCEPT !.cancelled = @ \cup {entry.gen}]
    BY <1>26 DEF Cancel
  <2>2. entry' \in Entries /\ entry'.gen = entry.gen
        /\ entry'.cancelled = entry.cancelled \cup {entry.gen}
    BY <1>0, <2>1 DEF Entries
  <2>3. entry'.cancelled \subseteq 0..entry'.gen
    BY <1>0, <2>2 DEF TypeOK
  <2>4. [at |-> entry.spawn, gen |-> entry.gen, state |-> "new"] \in Fallbacks
    <3>1. entry.spawn \in Spawns
      BY <1>26, <1>0 DEF Cancel, Absent, Blank, Entries, Tasks, Spawns, Present
    <3> QED BY <1>0, <3>1 DEF Fallbacks
  <2>5. fallbacks' \subseteq Fallbacks
    BY <1>26, <2>4 DEF Cancel, TypeOK
  <2> QED BY <1>26, <2>2, <2>3, <2>5 DEF Cancel, TypeOK, spawning, client, SpendFault
<1>27. ASSUME KillProcess PROVE TypeOK'
  BY <1>27 DEF KillProcess, TypeOK, Entries, Items, spawning, client, prompts, SpendFault, TellTable, Ending
<1>28. ASSUME Disconnect PROVE TypeOK'
  BY <1>28 DEF Disconnect, TypeOK, Entries, Items, spawning, client, prompts, SpendFault, Ending
<1>29. ASSUME DropEntry PROVE TypeOK'
  <2>1. entry' \in Entries /\ entry'.cancelled \subseteq 0..entry'.gen
    BY <1>0, <1>29, BlankIs DEF DropEntry, RemoveEntry
  <2> QED BY <1>0, <1>29, <2>1 DEF DropEntry, TypeOK, Entries, spawning, client, prompts, Mark, Ending
<1>30. ASSUME Reap PROVE TypeOK'
  <2>1. entry' \in Entries /\ entry'.cancelled \subseteq 0..entry'.gen
    BY <1>0, <1>30, BlankIs DEF Reap, RemoveEntry
  <2> QED BY <1>0, <1>30, <2>1 DEF Reap, TypeOK, Entries, spawning, client, prompts, SpendFault, Ending
<1>31. ASSUME ReapProcess PROVE TypeOK'
  BY <1>31 DEF ReapProcess, TypeOK, Entries, Items, spawning, client, prompts, TellTable, Mark, Ending
<1>32. ASSUME Crash PROVE TypeOK'
  <2>1. entry' \in Entries /\ entry'.cancelled \subseteq 0..entry'.gen
    BY <1>0, <1>32, BlankIs DEF Crash, RemoveEntry
  <2> QED BY <1>0, <1>32, <2>1 DEF Crash, TypeOK, Entries, spawning, client, prompts, SpendFault, Ending
<1>33. CASE UNCHANGED vars
  BY <1>33 DEF TypeOK, vars
<1> QED BY <1>1, <1>2, <1>3, <1>4, <1>5, <1>6, <1>7, <1>8, <1>9, <1>10, <1>11, <1>12, <1>13, <1>14, <1>15, <1>16, <1>17, <1>18, <1>19, <1>20, <1>21, <1>22, <1>23, <1>24, <1>25, <1>26, <1>27, <1>28, <1>29, <1>30, <1>31, <1>32, <1>33 DEF Next

-----------------------------------------------------------------------------
(* Without an entry there is nothing.                                      *)

LEMMA StepKeepsAbsent ==
  ASSUME TypeOK, Absent, [Next]_vars
  PROVE  Absent'
<1> USE Sizes DEF Absent, Present
<1>0. entry \in Entries
  BY DEF TypeOK
<1>1. entry.spawn # 0 /\ entry'.spawn = entry.spawn => Absent'
  OBVIOUS
<1>2. UNCHANGED entry \/ entry' = Blank(0, <<>>) => Absent'
  OBVIOUS
<1>3. ASSUME NEW m \in Messages, Ensure(m) PROVE Absent'
  BY <1>2, <1>3 DEF Ensure, Blank, Spawns
<1>4. ASSUME NEW x, Present, BeginTurn(x) PROVE Absent'
  BY <1>0, <1>1, <1>4 DEF BeginTurn, Entries
<1>5. ASSUME NEW m \in Messages, Run(m) PROVE Absent'
  BY <1>2, <1>4, <1>5 DEF Run, MayPrompt, Alive
<1>6. ASSUME NEW m \in Messages, Push(m) PROVE Absent'
  BY <1>0, <1>1, <1>2, <1>6 DEF Push, Entries
<1>7. ASSUME NEW n \in Spawns, Restore(n) PROVE Absent'
  BY <1>0, <1>1, <1>2, <1>7 DEF Restore, Entries
<1>8. ASSUME NEW n \in Spawns, Connect(n) PROVE Absent'
  BY <1>0, <1>1, <1>2, <1>8 DEF Connect, RemoveEntry, Entries
<1>9. ASSUME NEW n \in Spawns, WriteConnection(n) \/ MakeReady(n) \/ HandleExit(n)
      PROVE  Absent'
  BY <1>0, <1>1, <1>2, <1>9 DEF WriteConnection, MakeReady, HandleExit, Entries
<1>10. ASSUME NEW d \in drains, Dispatch(d) PROVE Absent'
  BY <1>2, <1>4, <1>10 DEF Dispatch, MayPrompt, Alive
<1>11. ASSUME NEW t \in turns, FinishTurn(t) PROVE Absent'
  BY <1>0, <1>1, <1>2, <1>11 DEF FinishTurn, Entries
<1>12. ASSUME NEW f \in fallbacks, GraceOver(f) PROVE Absent'
  <2>1. entry.busy => entry.spawn # 0
    BY DEF Blank
  <2> QED BY <1>0, <1>1, <1>2, <1>12, <2>1 DEF GraceOver, Entries
<1>13. ASSUME Cancel PROVE Absent'
  <2>1. entry.busy => entry.spawn # 0
    BY DEF Blank
  <2> QED BY <1>0, <1>1, <1>13, <2>1 DEF Cancel, Entries
<1>14. ASSUME NEW n \in Spawns, FailSpawn(n) PROVE Absent'
  BY <1>2, <1>14 DEF FailSpawn, RemoveEntry
<1>15. ASSUME DropEntry \/ Reap \/ Crash PROVE Absent'
  BY <1>2, <1>15 DEF DropEntry, Reap, Crash, RemoveEntry
<1>16. ASSUME NEW m \in Messages, Subscribe(m) \/ WaitReady(m) \/ Submit(m) \/ Insert(m)
       PROVE  Absent'
  BY <1>2, <1>16 DEF Subscribe, WaitReady, Submit, Insert
<1>17. ASSUME NEW n \in Spawns,
              ListRows(n) \/ AskSpawn(n) \/ StartProcess(n) \/ Shake(n) \/ Die(n)
       PROVE  Absent'
  BY <1>2, <1>17 DEF ListRows, AskSpawn, StartProcess, Shake, Die
<1>18. ASSUME NEW d \in drains, DeleteRow(d) PROVE Absent'
  BY <1>2, <1>18 DEF DeleteRow
<1>19. ASSUME NEW t \in turns, EndTurn(t) PROVE Absent'
  BY <1>2, <1>19 DEF EndTurn
<1>20. ASSUME NEW f \in fallbacks, Arm(f) \/ KillCancelled(f) PROVE Absent'
  BY <1>2, <1>20 DEF Arm, KillCancelled
<1>21. ASSUME KillProcess \/ Disconnect \/ ReapProcess PROVE Absent'
  BY <1>2, <1>21 DEF KillProcess, Disconnect, ReapProcess
<1>22. CASE UNCHANGED vars
  BY <1>2, <1>22 DEF vars
<1> QED
  BY <1>3, <1>5, <1>6, <1>7, <1>8, <1>9, <1>10, <1>11, <1>12, <1>13, <1>14, <1>15,
     <1>16, <1>17, <1>18, <1>19, <1>20, <1>21, <1>22 DEF Next

\* TypeCorrect: every variable always has its type.
THEOREM TypeCorrect == Spec => []TypeOK
<1>1. Init => TypeOK /\ Absent
  BY InitIsTyped DEF Init, Absent
<1>2. TypeOK /\ Absent /\ [Next]_vars => (TypeOK /\ Absent)'
  BY StepIsTyped, StepKeepsAbsent
<1> QED BY <1>1, <1>2, PTL DEF Spec

-----------------------------------------------------------------------------
(* What a step never does.                                                 *)

\* The history of staleness is never forgotten.
LEMMA StaleStays ==
  ASSUME TypeOK, [Next]_vars, ~stale'
  PROVE  ~stale
<1>0. stale \in BOOLEAN
  BY DEF TypeOK
<1>1. ASSUME NEW n, Mark(n) PROVE ~stale
  BY <1>0, <1>1, Zenon DEF Mark
<1>2. CASE UNCHANGED stale
  BY <1>2, Zenon
<1>3. ASSUME NEW m \in Messages,
             Ensure(m) \/ Subscribe(m) \/ WaitReady(m) \/ Insert(m)
      PROVE  ~stale
  BY <1>2, <1>3, Zenon DEF Ensure, Subscribe, WaitReady, Insert
<1>4. ASSUME NEW m \in Messages, Submit(m) \/ Run(m) \/ Push(m) PROVE ~stale
  BY <1>1, <1>4, Zenon DEF Submit, Run, Push
<1>5. ASSUME NEW n \in Spawns,
             ListRows(n) \/ AskSpawn(n) \/ StartProcess(n) \/ Shake(n) \/ Die(n)
      PROVE  ~stale
  BY <1>2, <1>5, Zenon DEF ListRows, AskSpawn, StartProcess, Shake, Die
<1>6. ASSUME NEW n \in Spawns,
             Connect(n) \/ WriteConnection(n) \/ MakeReady(n) \/ FailSpawn(n) \/ HandleExit(n)
      PROVE  ~stale
  BY <1>1, <1>6, Zenon DEF Connect, WriteConnection, MakeReady, FailSpawn, HandleExit
<1>7. ASSUME NEW n \in Spawns, Restore(n) PROVE ~stale
  <2>1. CASE snap[n] # <<>> /\ Present
    BY <1>1, <1>7, <2>1, Zenon DEF Restore
  <2>2. CASE ~(snap[n] # <<>> /\ Present)
    BY <1>2, <1>7, <2>2, Zenon DEF Restore
  <2> QED BY <2>1, <2>2
<1>8. ASSUME NEW d \in drains, DeleteRow(d) \/ Dispatch(d) PROVE ~stale
  BY <1>1, <1>8, Zenon DEF DeleteRow, Dispatch
<1>9. ASSUME NEW t \in turns, EndTurn(t) \/ FinishTurn(t) PROVE ~stale
  BY <1>1, <1>2, <1>9, Zenon DEF EndTurn, FinishTurn
<1>10. ASSUME NEW f \in fallbacks, Arm(f) \/ GraceOver(f) \/ KillCancelled(f) PROVE ~stale
  BY <1>1, <1>2, <1>10, Zenon DEF Arm, GraceOver, KillCancelled
<1>11. ASSUME Cancel \/ KillProcess \/ Disconnect \/ Reap \/ Crash PROVE ~stale
  BY <1>2, <1>11, Zenon DEF Cancel, KillProcess, Disconnect, Reap, Crash
<1>12. ASSUME DropEntry \/ ReapProcess PROVE ~stale
  BY <1>1, <1>12, Zenon DEF DropEntry, ReapProcess
<1>13. CASE UNCHANGED vars
  BY <1>2, <1>13, Zenon DEF vars
<1> QED
  BY <1>3, <1>4, <1>5, <1>6, <1>7, <1>8, <1>9, <1>10, <1>11, <1>12, <1>13 DEF Next

\* Only a crash of the server undoes an attempt that was done.
LEMMA DoneStays ==
  ASSUME TypeOK, [Next]_vars, NEW n \in Spawns, stage[n] = "done"
  PROVE  stage'[n] = "done" \/ Crash
<1>0. stage \in [Spawns -> {"none", "placed", "listed", "restored", "asked",
                          "shaking", "shaken", "inject", "done", "failed"}]
  BY DEF TypeOK
<1>1. UNCHANGED stage => stage'[n] = "done"
  OBVIOUS
<1>2. ASSUME NEW k \in Spawns, NEW to, stage[k] # "done", stage' = [stage EXCEPT ![k] = to]
      PROVE  stage'[n] = "done"
  BY <1>0, <1>2
<1>3. ASSUME NEW m \in Messages, Ensure(m) PROVE stage'[n] = "done"
  <2>1. CASE UNCHANGED stage
    BY <1>1, <2>1
  <2>2. CASE ~UNCHANGED stage
    <3>1. PICK k \in Spawns : stage[k] = "none" /\ stage' = [stage EXCEPT ![k] = "placed"]
      BY <1>3, <2>2, Zenon DEF Ensure
    <3>2. stage[k] # "done"
      BY <3>1
    <3> QED BY <1>2, <3>1, <3>2
  <2> QED BY <2>1, <2>2
<1>4. ASSUME NEW k \in Spawns, ListRows(k) \/ Restore(k) \/ AskSpawn(k) \/ Shake(k)
      PROVE  stage'[n] = "done"
  BY <1>0, <1>4 DEF ListRows, Restore, AskSpawn, Shake
<1>5. ASSUME NEW k \in Spawns,
             Connect(k) \/ WriteConnection(k) \/ MakeReady(k) \/ FailSpawn(k)
      PROVE  stage'[n] = "done"
  BY <1>0, <1>5 DEF Connect, WriteConnection, MakeReady, FailSpawn
<1>6. ASSUME NEW k \in Spawns, StartProcess(k) \/ Die(k) \/ HandleExit(k)
      PROVE  stage'[n] = "done"
  BY <1>1, <1>6 DEF StartProcess, Die, HandleExit, spawning
<1>7. ASSUME NEW m \in Messages,
             Subscribe(m) \/ WaitReady(m) \/ Submit(m) \/ Run(m) \/ Insert(m) \/ Push(m)
      PROVE  stage'[n] = "done"
  BY <1>1, <1>7 DEF Subscribe, WaitReady, Submit, Run, Insert, Push, spawning
<1>8. ASSUME NEW d \in drains, DeleteRow(d) \/ Dispatch(d) PROVE stage'[n] = "done"
  BY <1>1, <1>8 DEF DeleteRow, Dispatch, spawning
<1>9. ASSUME NEW t \in turns, EndTurn(t) \/ FinishTurn(t) PROVE stage'[n] = "done"
  BY <1>1, <1>9 DEF EndTurn, FinishTurn, spawning
<1>10. ASSUME NEW f \in fallbacks, Arm(f) \/ GraceOver(f) \/ KillCancelled(f)
       PROVE  stage'[n] = "done"
  BY <1>1, <1>10 DEF Arm, GraceOver, KillCancelled, spawning
<1>11. ASSUME Cancel \/ KillProcess \/ Disconnect \/ Reap \/ DropEntry \/ ReapProcess
       PROVE  stage'[n] = "done"
  BY <1>1, <1>11 DEF Cancel, KillProcess, Disconnect, Reap, DropEntry, ReapProcess, spawning
<1>12. CASE UNCHANGED vars
  BY <1>1, <1>12 DEF vars
<1> QED
  BY <1>3, <1>4, <1>5, <1>6, <1>7, <1>8, <1>9, <1>10, <1>11, <1>12 DEF Next

\* The client's table names the process that lives, and a pipeline that has
\* reached a process has one.
LEMMA StepKeepsProcesses ==
  ASSUME TypeOK, Processes, [Next]_vars
  PROVE  Processes'
<1> USE Sizes
<1>0. /\ stage \in [Spawns -> {"none", "placed", "listed", "restored", "asked",
                              "shaking", "shaken", "inject", "done", "failed"}]
      /\ procs \in [Spawns -> {"none", "asked", "alive", "told", "dead"}]
      /\ table \in Tasks
  BY DEF TypeOK
<1> DEFINE Linked == {"shaking", "shaken", "inject", "done"}
           Started == {"alive", "told", "dead"}
<1>1. ASSUME UNCHANGED <<procs, table>>,
             \A n \in Spawns : stage'[n] \in Linked => procs[n] \in Started
      PROVE  Processes'
  BY <1>1 DEF Processes
<1>2. ASSUME UNCHANGED stage,
             \A n \in Spawns : procs'[n] = "alive" => table' = n,
             \A n \in Spawns : procs[n] \in Started => procs'[n] \in Started
      PROVE  Processes'
  BY <1>2 DEF Processes
<1>3. UNCHANGED <<stage, procs, table>> => Processes'
  BY <1>1 DEF Processes
<1>4. TellTable /\ UNCHANGED stage => Processes'
  BY <1>0, <1>2 DEF TellTable, Processes
<1>5. ASSUME NEW m \in Messages, Ensure(m) PROVE Processes'
  <2>1. UNCHANGED <<procs, table>>
    BY <1>5 DEF Ensure, client
  <2>2. CASE UNCHANGED stage
    BY <1>3, <2>1, <2>2
  <2>3. CASE ~UNCHANGED stage
    <3>1. PICK k \in Spawns : stage' = [stage EXCEPT ![k] = "placed"]
      BY <1>5, <2>3, Zenon DEF Ensure
    <3>2. \A n \in Spawns : stage'[n] \in Linked => stage[n] \in Linked
      BY <1>0, <3>1
    <3> QED BY <1>1, <2>1, <3>2 DEF Processes
  <2> QED BY <2>2, <2>3
<1>6. ASSUME NEW k \in Spawns,
             ListRows(k) \/ Restore(k) \/ Shake(k) \/ WriteConnection(k)
               \/ MakeReady(k) \/ FailSpawn(k) \/ Connect(k)
      PROVE  Processes'
  <2>1. UNCHANGED <<procs, table>>
    BY <1>6 DEF ListRows, Restore, Shake, WriteConnection, MakeReady, FailSpawn, Connect, client
  <2>2. \A n \in Spawns : stage'[n] \in Linked => procs[n] \in Started
    BY <1>0, <1>6 DEF Processes, ListRows, Restore, Shake, WriteConnection, MakeReady,
                      FailSpawn, Connect
  <2> QED BY <1>1, <2>1, <2>2
<1>7. ASSUME NEW k \in Spawns, AskSpawn(k) PROVE Processes'
  <2>1. /\ stage[k] = "restored" /\ stage' = [stage EXCEPT ![k] = "asked"]
        /\ procs' = [procs EXCEPT ![k] = "asked"] /\ UNCHANGED table
    BY <1>7 DEF AskSpawn
  <2>2. \A n \in Spawns : procs'[n] = "alive" => table' = n
    BY <1>0, <2>1 DEF Processes
  <2>3. \A n \in Spawns : stage'[n] \in Linked => procs'[n] \in Started
    BY <1>0, <2>1 DEF Processes
  <2> QED BY <2>2, <2>3 DEF Processes
<1>8. ASSUME NEW k \in Spawns, StartProcess(k) PROVE Processes'
  BY <1>0, <1>2, <1>8 DEF StartProcess, Processes, spawning
<1>9. ASSUME NEW k \in Spawns, Die(k) PROVE Processes'
  BY <1>0, <1>2, <1>9 DEF Die, Processes, spawning
<1>10. ASSUME NEW k \in Spawns, HandleExit(k) PROVE Processes'
  BY <1>3, <1>10 DEF HandleExit, spawning
<1>11. ASSUME NEW m \in Messages,
             Subscribe(m) \/ WaitReady(m) \/ Submit(m) \/ Run(m) \/ Insert(m) \/ Push(m)
      PROVE  Processes'
  BY <1>3, <1>11 DEF Subscribe, WaitReady, Submit, Run, Insert, Push, spawning, client
<1>12. ASSUME NEW d \in drains, DeleteRow(d) \/ Dispatch(d) PROVE Processes'
  BY <1>3, <1>12 DEF DeleteRow, Dispatch, spawning, client
<1>13. ASSUME NEW t \in turns, EndTurn(t) \/ FinishTurn(t) PROVE Processes'
  BY <1>3, <1>13 DEF EndTurn, FinishTurn, spawning, client
<1>14. ASSUME NEW f \in fallbacks, Arm(f) \/ GraceOver(f) PROVE Processes'
  BY <1>3, <1>14 DEF Arm, GraceOver, spawning, client
<1>15. ASSUME NEW f \in fallbacks, KillCancelled(f) PROVE Processes'
  BY <1>4, <1>15 DEF KillCancelled, spawning
<1>16. ASSUME Cancel \/ Reap \/ DropEntry PROVE Processes'
  BY <1>3, <1>16 DEF Cancel, Reap, DropEntry, spawning, client
<1>17. ASSUME KillProcess \/ ReapProcess PROVE Processes'
  BY <1>4, <1>17 DEF KillProcess, ReapProcess, spawning
<1>18. ASSUME Disconnect PROVE Processes'
  BY <1>0, <1>2, <1>18 DEF Disconnect, spawning
<1>19. ASSUME Crash PROVE Processes'
  BY <1>0, <1>19 DEF Crash, Processes
<1>20. CASE UNCHANGED vars
  BY <1>3, <1>20 DEF vars
<1> QED
  BY <1>5, <1>6, <1>7, <1>8, <1>9, <1>10, <1>11, <1>12, <1>13, <1>14, <1>15,
     <1>16, <1>17, <1>18, <1>19, <1>20 DEF Next

-----------------------------------------------------------------------------
(* What the steps that send, queue and take a prompt do to their own entry.*)

\* Every field that no prompt changes stays.
SameEntry ==
  /\ entry'.spawn = entry.spawn /\ entry'.conn = entry.conn
  /\ entry'.ready = entry.ready /\ entry'.exited = entry.exited

\* The live entry starts the turn of message x.
Begins(x) ==
  /\ Alive /\ entry.spawn \in Spawns /\ stage[entry.spawn] = "done"
  /\ SameEntry /\ entry'.queue = entry.queue
  /\ entry'.busy /\ entry'.gen = entry.gen + 1
  /\ \E u \in Turns : /\ turns' = turns \cup {u}
                      /\ u.msg = x /\ u.at = entry.spawn /\ u.conn = entry.spawn
  /\ sent' = [sent EXCEPT ![x] = @ + 1]

LEMMA BeginTurnBegins ==
  ASSUME TypeOK, Lineage, Alive, NEW n \in Spawns, entry.spawn = n, stage[n] = "done",
         NEW x \in Messages, BeginTurn(x)
  PROVE  Begins(x)
<1>1. entry \in Entries /\ entry.gen + 1 \in Nat
  BY DEF TypeOK, Entries
<1>2. entry.conn = n /\ pump[n] = n
  BY DEF Lineage, OwnConn
<1>3. Registered
  BY <1>2 DEF Registered, PumpOpen
<1> DEFINE u == [msg |-> x, conn |-> entry.conn, gen |-> entry.gen + 1,
                 at |-> entry.spawn, answered |-> FALSE]
<1>4. /\ entry' = [entry EXCEPT !.busy = TRUE, !.gen = @ + 1]
      /\ turns' = turns \cup {u} /\ sent' = [sent EXCEPT ![x] = @ + 1]
  BY <1>3 DEF BeginTurn
<1>5. /\ SameEntry /\ entry'.queue = entry.queue
      /\ entry'.busy /\ entry'.gen = entry.gen + 1
  BY <1>1, <1>4 DEF Entries, SameEntry
<1>6. u \in Turns /\ u.msg = x /\ u.at = n /\ u.conn = n
  BY <1>1, <1>2 DEF Turns
<1> QED BY <1>4, <1>5, <1>6 DEF Begins

LEMMA RunDoes ==
  ASSUME TypeOK, Lineage, NEW m \in Messages, Run(m), ~stale'
  PROVE  \/ UNCHANGED <<entry, turns, sent>>
         \/ Begins(m) /\ ~entry.busy /\ entry.spawn = at[m]
<1>1. CASE ~MayPrompt(FALSE)
  BY <1>1 DEF Run
<1>2. CASE MayPrompt(FALSE)
  <2>1. Alive /\ Present /\ ~entry.busy /\ BeginTurn(m)
    BY <1>2 DEF Run, MayPrompt, Alive
  <2>2. entry.spawn = at[m]
    BY <2>1, Zenon DEF Run, Mark
  <2>3. at[m] \in Spawns /\ stage[at[m]] = "done"
    BY DEF Run, Lineage, MessageIsDone
  <2> QED BY <2>1, <2>2, <2>3, BeginTurnBegins
<1> QED BY <1>1, <1>2

LEMMA DispatchDoes ==
  ASSUME TypeOK, Lineage, NEW d \in drains, Dispatch(d), ~stale'
  PROVE  \/ UNCHANGED <<entry, turns, sent>> /\ (Alive => d.at = entry.spawn /\ entry.conn = 0)
         \/ Begins(d.msg) /\ entry.spawn = d.at
<1>1. CASE ~MayPrompt(TRUE)
  <2>1. Alive => entry.conn = 0
    BY <1>1 DEF MayPrompt
  <2>2. Alive => d.at = entry.spawn
    BY Zenon DEF Dispatch, Mark, Alive
  <2> QED BY <1>1, <2>1, <2>2 DEF Dispatch
<1>2. CASE MayPrompt(TRUE)
  <2>1. Alive /\ Present /\ BeginTurn(d.msg)
    BY <1>2 DEF Dispatch, MayPrompt, Alive
  <2>2. entry.spawn = d.at
    BY <2>1, Zenon DEF Dispatch, Mark
  <2>3. d.at \in Spawns /\ d.msg \in Messages /\ stage[d.at] = "done"
    BY DEF TypeOK, Drains, Lineage, WorkIsDone
  <2> QED BY <2>1, <2>2, <2>3, BeginTurnBegins
<1> QED BY <1>1, <1>2

\* What a prompt is in the queue.
Item(m) == [msg |-> m, row |-> step[m] = "stored"]

LEMMA PushDoes ==
  ASSUME TypeOK, NEW m \in Messages, Push(m), ~stale'
  PROVE  LET queue == Append(entry.queue, Item(m))
         IN \/ ~Present /\ rows' = Without(m) /\ UNCHANGED <<entry, drains>>
            \/ /\ Present /\ entry.spawn = at[m] /\ UNCHANGED rows
               /\ SameEntry /\ entry'.gen = entry.gen /\ entry'.busy
               /\ \/ entry.busy /\ entry'.queue = queue /\ UNCHANGED drains
                  \/ /\ ~entry.busy /\ entry'.queue = Tail(queue)
                     /\ drains' = drains \cup {Taken(Head(queue), m)}
<1> DEFINE queue == Append(entry.queue, Item(m))
<1>1. entry \in Entries
  BY DEF TypeOK
<1>2. CASE ~Present
  BY <1>2 DEF Push
<1>3. CASE Present
  <2>1. entry.spawn = at[m]
    BY <1>3, Zenon DEF Push, Mark
  <2>2. CASE entry.busy
    <3>1. entry' = [entry EXCEPT !.queue = queue] /\ UNCHANGED <<rows, drains>>
      BY <1>3, <2>2 DEF Push, Item
    <3> HIDE DEF queue
    <3>2. SameEntry /\ entry'.gen = entry.gen /\ entry'.busy /\ entry'.queue = queue
      BY <1>1, <2>2, <3>1 DEF Entries, SameEntry
    <3> QED BY <1>3, <2>1, <2>2, <3>1, <3>2 DEF queue
  <2>3. CASE ~entry.busy
    <3>1. /\ entry' = [entry EXCEPT !.queue = Tail(queue), !.busy = TRUE] /\ UNCHANGED rows
          /\ drains' = drains \cup {Taken(Head(queue), m)}
      BY <1>3, <2>3 DEF Push, Item
    <3> HIDE DEF queue
    <3>2. SameEntry /\ entry'.gen = entry.gen /\ entry'.busy /\ entry'.queue = Tail(queue)
      BY <1>1, <3>1 DEF Entries, SameEntry
    <3> QED BY <1>3, <2>1, <2>3, <3>1, <3>2 DEF queue
  <2> QED BY <2>2, <2>3
<1> QED BY <1>2, <1>3

LEMMA FinishTurnDoes ==
  ASSUME TypeOK, NEW t \in turns, FinishTurn(t), ~stale'
  PROVE  /\ turns' = turns \ {t}
         /\ \A f \in fallbacks : f.state = "kill" => f \in fallbacks'
         /\ \/ ~Present /\ UNCHANGED <<entry, drains>>
            \/ /\ Present /\ entry.spawn = t.at
               /\ SameEntry /\ entry'.gen = entry.gen
               /\ \/ /\ Alive /\ entry.queue # <<>> /\ entry'.busy
                     /\ entry'.queue = Tail(entry.queue)
                     /\ drains' = drains \cup {Taken(Head(entry.queue), 0)}
                  \/ /\ ~(Alive /\ entry.queue # <<>>) /\ ~entry'.busy
                     /\ entry'.queue = entry.queue /\ UNCHANGED drains
<1>1. entry \in Entries
  BY DEF TypeOK
<1>2. turns' = turns \ {t}
  BY DEF FinishTurn
<1>3. \A f \in fallbacks : f.state = "kill" => f \in fallbacks'
  BY DEF FinishTurn
<1>4. CASE ~Present
  BY <1>2, <1>3, <1>4 DEF FinishTurn
<1>5. CASE Present
  <2>1. entry.spawn = t.at
    BY <1>5, Zenon DEF FinishTurn, Mark
  <2> DEFINE next == Alive /\ entry.queue # <<>>
  <2>2. CASE next
    <3>1. /\ entry' = [entry EXCEPT !.busy = next, !.cancelled = @ \ {t.gen},
                                   !.queue = Tail(@)]
          /\ drains' = drains \cup {Taken(Head(entry.queue), 0)}
      BY <1>5, <2>2 DEF FinishTurn
    <3>2. /\ SameEntry /\ entry'.gen = entry.gen /\ entry'.busy
          /\ entry'.queue = Tail(entry.queue)
      BY <1>1, <2>2, <3>1 DEF Entries, SameEntry
    <3> QED BY <1>2, <1>3, <1>5, <2>1, <2>2, <3>1, <3>2
  <2>3. CASE ~next
    <3>1. /\ entry' = [entry EXCEPT !.busy = next, !.cancelled = @ \ {t.gen}, !.queue = @]
          /\ UNCHANGED drains
      BY <1>5, <2>3 DEF FinishTurn
    <3>2. /\ SameEntry /\ entry'.gen = entry.gen /\ ~entry'.busy
          /\ entry'.queue = entry.queue
      BY <1>1, <2>3, <3>1 DEF Entries, SameEntry
    <3> QED BY <1>2, <1>3, <1>5, <2>1, <2>3, <3>1, <3>2
  <2> QED BY <2>2, <2>3
<1> QED BY <1>4, <1>5

-----------------------------------------------------------------------------
(* Work belongs to attempts that are done.                                 *)

Good == TypeOK /\ Absent /\ Processes /\ Lineage

\* Types that the next lemmas look at.
LEMMA Shapes ==
  ASSUME TypeOK
  PROVE  /\ entry \in Entries /\ entry.queue \in Seq(Items) /\ entry.gen \in Nat
         /\ stage \in [Spawns -> {"none", "placed", "listed", "restored", "asked",
                                 "shaking", "shaken", "inject", "done", "failed"}]
         /\ pump \in [Spawns -> Tasks] /\ at \in [Messages -> Tasks]
         /\ step \in [Messages -> {"new", "ensured", "wait", "go", "run", "insert",
                                  "stored", "unstored", "over"}]
         /\ procs \in [Spawns -> {"none", "asked", "alive", "told", "dead"}]
         /\ drains \subseteq Drains /\ turns \subseteq Turns
         /\ rows \in Seq(Messages) /\ snap \in [Spawns -> Seq(Messages)]
         /\ sent \in [Messages -> Nat]
BY DEF TypeOK, Entries

LEMMA EntryStaysDone ==
  ASSUME Good, [Next]_vars, ~stale'
  PROVE  EntryIsDone'
<1> USE Sizes DEF EntryIsDone
<1>0. entry \in Entries /\ EntryIsDone
  BY DEF Good, TypeOK, Lineage
<1>1. entry' = Blank(0, <<>>) => EntryIsDone'
  BY DEF Blank
<1>2. ASSUME entry'.spawn \in Spawns, stage[entry'.spawn] = "done", ~Crash PROVE EntryIsDone'
  BY <1>2, DoneStays DEF Good
<1>3. ASSUME ~Crash, entry'.ready => entry.ready, entry'.busy => entry.busy,
             entry'.gen = entry.gen, entry'.spawn = entry.spawn
      PROVE  EntryIsDone'
  BY <1>0, <1>2, <1>3
<1>4. ASSUME ~Crash, UNCHANGED entry PROVE EntryIsDone'
  BY <1>3, <1>4
<1>5. CASE Crash
  BY <1>1, <1>5 DEF Crash, RemoveEntry
<1> SUFFICES ASSUME ~Crash PROVE EntryIsDone'
  BY <1>5
<1>6. ASSUME NEW m \in Messages, Ensure(m) PROVE EntryIsDone'
  BY <1>4, <1>6 DEF Ensure, Blank
<1>7. ASSUME NEW m \in Messages, Run(m) PROVE EntryIsDone'
  BY <1>2, <1>4, <1>7, RunDoes DEF Good, Begins, SameEntry
<1>8. ASSUME NEW m \in Messages, Push(m) PROVE EntryIsDone'
  <2>1. at[m] \in Spawns /\ stage[at[m]] = "done"
    BY <1>8 DEF Push, Good, Lineage, MessageIsDone
  <2>2. UNCHANGED entry \/ entry'.spawn = at[m]
    BY <1>8, PushDoes DEF Good, SameEntry
  <2> QED BY <1>2, <1>4, <2>1, <2>2
<1>9. ASSUME NEW d \in drains, Dispatch(d) PROVE EntryIsDone'
  BY <1>2, <1>4, <1>9, DispatchDoes DEF Good, Begins, SameEntry
<1>10. ASSUME NEW t \in turns, FinishTurn(t) PROVE EntryIsDone'
  <2>1. t.at \in Spawns /\ stage[t.at] = "done"
    BY DEF Good, Lineage, WorkIsDone, TypeOK, Turns
  <2>2. UNCHANGED entry \/ entry'.spawn = t.at
    BY <1>10, FinishTurnDoes DEF Good, SameEntry
  <2> QED BY <1>2, <1>4, <2>1, <2>2
<1>11. ASSUME NEW n \in Spawns, Restore(n) PROVE EntryIsDone'
  BY <1>0, <1>3, <1>4, <1>11 DEF Restore, Entries
<1>12. ASSUME NEW n \in Spawns, Connect(n) PROVE EntryIsDone'
  BY <1>0, <1>1, <1>3, <1>12 DEF Connect, RemoveEntry, Entries
<1>13. ASSUME NEW n \in Spawns, WriteConnection(n) \/ HandleExit(n) PROVE EntryIsDone'
  BY <1>0, <1>3, <1>4, <1>13 DEF WriteConnection, HandleExit, Entries
<1>14. ASSUME NEW n \in Spawns, MakeReady(n) PROVE EntryIsDone'
  <2>1. CASE ~Present
    BY <1>4, <1>14, <2>1 DEF MakeReady
  <2>2. CASE Present
    <3>1. entry.spawn = n
      BY <1>14, <2>2, Zenon DEF MakeReady, Mark
    <3>2. entry'.spawn = n /\ stage'[n] = "done"
      BY <1>0, <1>14, <2>2, <3>1, Shapes DEF Good, MakeReady, Entries
    <3> QED BY <3>2
  <2> QED BY <2>1, <2>2
<1>15. ASSUME NEW f \in fallbacks, GraceOver(f) PROVE EntryIsDone'
  BY <1>0, <1>3, <1>4, <1>15 DEF GraceOver, Entries
<1>16. ASSUME Cancel PROVE EntryIsDone'
  BY <1>0, <1>3, <1>16 DEF Cancel, Entries
<1>17. ASSUME NEW n \in Spawns, FailSpawn(n) PROVE EntryIsDone'
  BY <1>1, <1>17 DEF FailSpawn, RemoveEntry
<1>18. ASSUME DropEntry \/ Reap PROVE EntryIsDone'
  BY <1>1, <1>18 DEF DropEntry, Reap, RemoveEntry
<1>19. ASSUME NEW m \in Messages, Subscribe(m) \/ WaitReady(m) \/ Submit(m) \/ Insert(m)
       PROVE  EntryIsDone'
  BY <1>4, <1>19 DEF Subscribe, WaitReady, Submit, Insert
<1>20. ASSUME NEW n \in Spawns,
              ListRows(n) \/ AskSpawn(n) \/ StartProcess(n) \/ Shake(n) \/ Die(n)
       PROVE  EntryIsDone'
  BY <1>4, <1>20 DEF ListRows, AskSpawn, StartProcess, Shake, Die
<1>21. ASSUME NEW d \in drains, DeleteRow(d) PROVE EntryIsDone'
  BY <1>4, <1>21 DEF DeleteRow
<1>22. ASSUME NEW t \in turns, EndTurn(t) PROVE EntryIsDone'
  BY <1>4, <1>22 DEF EndTurn
<1>23. ASSUME NEW f \in fallbacks, Arm(f) \/ KillCancelled(f) PROVE EntryIsDone'
  BY <1>4, <1>23 DEF Arm, KillCancelled
<1>24. ASSUME KillProcess \/ Disconnect \/ ReapProcess PROVE EntryIsDone'
  BY <1>4, <1>24 DEF KillProcess, Disconnect, ReapProcess
<1>25. CASE UNCHANGED vars
  BY <1>4, <1>25 DEF vars
<1> QED
  BY <1>6, <1>7, <1>8, <1>9, <1>10, <1>11, <1>12, <1>13, <1>14, <1>15, <1>16, <1>17,
     <1>18, <1>19, <1>20, <1>21, <1>22, <1>23, <1>24, <1>25 DEF Next

LEMMA ConnStaysOwn ==
  ASSUME Good, [Next]_vars, ~stale'
  PROVE  OwnConn'
<1> USE Sizes DEF OwnConn
<1> DEFINE Linked == {"shaking", "shaken", "inject", "done"}
           Far == {"inject", "done"}
<1>0. /\ entry \in Entries /\ OwnConn
      /\ stage \in [Spawns -> {"none", "placed", "listed", "restored", "asked",
                              "shaking", "shaken", "inject", "done", "failed"}]
      /\ pump \in [Spawns -> Tasks]
  BY Shapes DEF Good, Lineage
<1>1. ASSUME \A n \in Spawns : stage'[n] \in Linked => stage[n] \in Linked,
             \A n \in Spawns : stage'[n] \in Far => stage[n] \in Far,
             entry'.spawn = 0 \/ (entry'.spawn = entry.spawn /\ entry'.conn = entry.conn),
             UNCHANGED pump
      PROVE  OwnConn'
  BY <1>0, <1>1
<1>2. ASSUME UNCHANGED <<stage, pump>>,
             UNCHANGED entry \/ entry'.spawn = 0
               \/ (entry'.spawn = entry.spawn /\ entry'.conn = entry.conn)
      PROVE  OwnConn'
  BY <1>1, <1>2
<1>3. CASE Crash
  BY <1>0, <1>1, <1>3 DEF Crash, RemoveEntry, Blank
<1>4. ASSUME NEW m \in Messages, Ensure(m) PROVE OwnConn'
  <2>1. CASE UNCHANGED <<entry, stage>>
    BY <1>2, <1>4, <2>1 DEF Ensure
  <2>2. CASE ~UNCHANGED <<entry, stage>>
    <3>1. PICK k \in Spawns : /\ stage[k] = "none" /\ stage' = [stage EXCEPT ![k] = "placed"]
                              /\ entry' = Blank(k, entry.queue)
      BY <1>4, <2>2, Zenon DEF Ensure
    <3>2. UNCHANGED pump
      BY <1>4 DEF Ensure
    <3> QED BY <1>0, <3>1, <3>2 DEF Blank
  <2> QED BY <2>1, <2>2
<1>5. ASSUME NEW m \in Messages, Run(m) PROVE OwnConn'
  BY <1>2, <1>5, RunDoes DEF Good, Begins, SameEntry, Run, spawning
<1>6. ASSUME NEW m \in Messages, Push(m) PROVE OwnConn'
  BY <1>2, <1>6, PushDoes DEF Good, SameEntry, Push, spawning
<1>7. ASSUME NEW d \in drains, Dispatch(d) PROVE OwnConn'
  BY <1>2, <1>7, DispatchDoes DEF Good, Begins, SameEntry, Dispatch, spawning
<1>8. ASSUME NEW t \in turns, FinishTurn(t) PROVE OwnConn'
  BY <1>2, <1>8, FinishTurnDoes DEF Good, SameEntry, FinishTurn, spawning
<1>9. ASSUME NEW k \in Spawns, Restore(k) PROVE OwnConn'
  <2>1. entry'.spawn = entry.spawn /\ entry'.conn = entry.conn
    BY <1>0, <1>9 DEF Restore, Entries
  <2> QED BY <1>0, <1>1, <1>9, <2>1 DEF Restore
<1>10. ASSUME NEW k \in Spawns, Connect(k) PROVE OwnConn'
  <2>1. CASE Present /\ entry.io
    <3>1. entry.spawn = k
      BY <1>10, <2>1, Zenon DEF Connect, Mark
    <3>2. /\ entry' = [entry EXCEPT !.io = FALSE] /\ pump' = [pump EXCEPT ![k] = entry.spawn]
          /\ stage' = [stage EXCEPT ![k] = "shaking"]
      BY <1>10, <2>1 DEF Connect
    <3>3. entry'.spawn = entry.spawn /\ entry'.conn = entry.conn
      BY <1>0, <3>2 DEF Entries
    <3> QED BY <1>0, <3>1, <3>2, <3>3
  <2>2. CASE ~(Present /\ entry.io)
    BY <1>0, <1>1, <1>10, <2>2 DEF Connect, RemoveEntry, Blank
  <2> QED BY <2>1, <2>2
<1>11. ASSUME NEW k \in Spawns, WriteConnection(k) PROVE OwnConn'
  <2>1. stage[k] = "shaken" /\ stage' = [stage EXCEPT ![k] = "inject"] /\ UNCHANGED pump
    BY <1>11 DEF WriteConnection
  <2>2. CASE Present
    <3>1. entry.spawn = k
      BY <1>11, <2>2, Zenon DEF WriteConnection, Mark
    <3>2. entry'.spawn = k /\ entry'.conn = k
      BY <1>0, <1>11, <2>2, <3>1 DEF WriteConnection, Entries
    <3> QED BY <1>0, <2>1, <3>2
  <2>3. CASE ~Present
    <3>1. entry'.spawn = 0
      BY <1>11, <2>3 DEF WriteConnection, Present
    <3> QED BY <1>0, <2>1, <3>1
  <2> QED BY <2>2, <2>3
<1>12. ASSUME NEW k \in Spawns, MakeReady(k) PROVE OwnConn'
  <2>1. entry'.spawn = entry.spawn /\ entry'.conn = entry.conn
    BY <1>0, <1>12 DEF MakeReady, Entries
  <2> QED BY <1>0, <1>1, <1>12, <2>1 DEF MakeReady
<1>13. ASSUME NEW k \in Spawns, FailSpawn(k) PROVE OwnConn'
  BY <1>0, <1>1, <1>13 DEF FailSpawn, RemoveEntry, Blank
<1>14. ASSUME NEW k \in Spawns, ListRows(k) \/ AskSpawn(k) \/ Shake(k) PROVE OwnConn'
  BY <1>0, <1>1, <1>14 DEF ListRows, AskSpawn, Shake
<1>15. ASSUME NEW k \in Spawns, HandleExit(k) PROVE OwnConn'
  BY <1>0, <1>2, <1>15 DEF HandleExit, Entries, spawning
<1>16. ASSUME NEW k \in Spawns, StartProcess(k) \/ Die(k) PROVE OwnConn'
  BY <1>2, <1>16 DEF StartProcess, Die, spawning
<1>17. ASSUME NEW f \in fallbacks, GraceOver(f) PROVE OwnConn'
  BY <1>0, <1>2, <1>17 DEF GraceOver, Entries, spawning
<1>18. ASSUME Cancel PROVE OwnConn'
  BY <1>0, <1>2, <1>18 DEF Cancel, Entries, spawning
<1>19. ASSUME DropEntry \/ Reap PROVE OwnConn'
  BY <1>2, <1>19 DEF DropEntry, Reap, RemoveEntry, Blank, spawning
<1>20. ASSUME NEW m \in Messages, Subscribe(m) \/ WaitReady(m) \/ Submit(m) \/ Insert(m)
       PROVE  OwnConn'
  BY <1>2, <1>20 DEF Subscribe, WaitReady, Submit, Insert, spawning
<1>21. ASSUME NEW d \in drains, DeleteRow(d) PROVE OwnConn'
  BY <1>2, <1>21 DEF DeleteRow, spawning
<1>22. ASSUME NEW t \in turns, EndTurn(t) PROVE OwnConn'
  BY <1>2, <1>22 DEF EndTurn, spawning
<1>23. ASSUME NEW f \in fallbacks, Arm(f) \/ KillCancelled(f) PROVE OwnConn'
  BY <1>2, <1>23 DEF Arm, KillCancelled, spawning
<1>24. ASSUME KillProcess \/ Disconnect \/ ReapProcess PROVE OwnConn'
  BY <1>2, <1>24 DEF KillProcess, Disconnect, ReapProcess, spawning
<1>25. CASE UNCHANGED vars
  BY <1>2, <1>25 DEF vars
<1> QED
  BY <1>3, <1>4, <1>5, <1>6, <1>7, <1>8, <1>9, <1>10, <1>11, <1>12, <1>13, <1>14, <1>15,
     <1>16, <1>17, <1>18, <1>19, <1>20, <1>21, <1>22, <1>23, <1>24, <1>25 DEF Next

LEMMA MessageStaysDone ==
  ASSUME Good, [Next]_vars, ~stale'
  PROVE  MessageIsDone'
<1> USE Sizes DEF MessageIsDone
<1> DEFINE Handled == {"go", "run", "insert", "stored", "unstored"}
<1>0. /\ MessageIsDone /\ EntryIsDone /\ at \in [Messages -> Tasks]
      /\ step \in [Messages -> {"new", "ensured", "wait", "go", "run", "insert",
                               "stored", "unstored", "over"}]
  BY Shapes DEF Good, Lineage
<1>1. CASE Crash
  <2>1. \A m \in Messages : step'[m] \in {"new", "over"}
    BY <1>1 DEF Crash
  <2> QED BY <2>1
<1> SUFFICES ASSUME ~Crash PROVE MessageIsDone'
  BY <1>1
<1>2. \A n \in Spawns : stage[n] = "done" => stage'[n] = "done"
  BY DoneStays DEF Good
<1>3. ASSUME \A m \in Messages :
               step'[m] \in Handled => step[m] \in Handled /\ at'[m] = at[m]
      PROVE  MessageIsDone'
  BY <1>0, <1>2, <1>3
<1>4. ASSUME UNCHANGED <<step, at>> PROVE MessageIsDone'
  BY <1>3, <1>4
<1>5. ASSUME NEW m \in Messages, Ensure(m) PROVE MessageIsDone'
  <2>1. step[m] = "new" /\ step' = [step EXCEPT ![m] = "ensured"]
    BY <1>5 DEF Ensure
  <2>2. \A k \in Messages : k # m => at'[k] = at[k]
    BY <1>0, <1>5 DEF Ensure
  <2> QED BY <1>0, <1>3, <2>1, <2>2
<1>6. ASSUME NEW m \in Messages, Subscribe(m) PROVE MessageIsDone'
  <2>1. CASE StepTo(m, "over")
    BY <1>0, <1>3, <2>1 DEF StepTo
  <2>2. CASE ~StepTo(m, "over")
    <3>1. /\ step' = [step EXCEPT ![m] = IF entry.ready THEN "go" ELSE "wait"]
          /\ at' = [at EXCEPT ![m] = entry.spawn]
      BY <1>6, <2>2 DEF Subscribe
    <3>2. entry.ready => entry.spawn \in Spawns /\ stage[entry.spawn] = "done"
      BY <1>0 DEF EntryIsDone
    <3>3. \A k \in Messages : k # m => step'[k] = step[k] /\ at'[k] = at[k]
      BY <1>0, <3>1
    <3>4. step'[m] \in Handled => entry.ready /\ at'[m] = entry.spawn
      BY <1>0, <3>1
    <3> QED BY <1>0, <1>2, <3>2, <3>3, <3>4
  <2> QED BY <2>1, <2>2
<1>7. ASSUME NEW m \in Messages, WaitReady(m) PROVE MessageIsDone'
  <2>1. CASE ~(entry.spawn = at[m] /\ entry.ready)
    <3>1. StepTo(m, "over")
      BY <1>7, <2>1 DEF WaitReady
    <3> QED BY <1>0, <1>3, <3>1 DEF StepTo
  <2>2. CASE entry.spawn = at[m] /\ entry.ready
    <3>1. step' = [step EXCEPT ![m] = "go"] /\ UNCHANGED at
      BY <1>7, <2>2 DEF WaitReady, StepTo
    <3>2. at[m] \in Spawns /\ stage[at[m]] = "done"
      BY <1>0, <2>2 DEF EntryIsDone
    <3> QED BY <1>0, <1>2, <3>1, <3>2
  <2> QED BY <2>1, <2>2
<1>8. ASSUME NEW m \in Messages, Submit(m) \/ Run(m) \/ Insert(m) \/ Push(m)
      PROVE  MessageIsDone'
  <2>1. step[m] \in Handled
    BY <1>8 DEF Submit, Run, Insert, Push
  <2>2. \A k \in Messages : k # m => step'[k] = step[k] /\ at'[k] = at[k]
    BY <1>0, <1>8 DEF Submit, Run, Insert, Push, StepTo
  <2>3. step'[m] \in Handled => at'[m] = at[m]
    BY <1>0, <1>8 DEF Submit, Run, Insert, Push, StepTo
  <2> QED BY <1>0, <1>3, <2>1, <2>2, <2>3
<1>9. ASSUME NEW n \in Spawns,
             ListRows(n) \/ Restore(n) \/ AskSpawn(n) \/ StartProcess(n) \/ Shake(n) \/ Die(n)
      PROVE  MessageIsDone'
  BY <1>4, <1>9 DEF ListRows, Restore, AskSpawn, StartProcess, Shake, Die
<1>10. ASSUME NEW n \in Spawns,
             Connect(n) \/ WriteConnection(n) \/ MakeReady(n) \/ FailSpawn(n) \/ HandleExit(n)
      PROVE  MessageIsDone'
  BY <1>4, <1>10 DEF Connect, WriteConnection, MakeReady, FailSpawn, HandleExit
<1>11. ASSUME NEW d \in drains, DeleteRow(d) \/ Dispatch(d) PROVE MessageIsDone'
  BY <1>4, <1>11 DEF DeleteRow, Dispatch
<1>12. ASSUME NEW t \in turns, EndTurn(t) \/ FinishTurn(t) PROVE MessageIsDone'
  BY <1>4, <1>12 DEF EndTurn, FinishTurn
<1>13. ASSUME NEW f \in fallbacks, Arm(f) \/ GraceOver(f) \/ KillCancelled(f)
      PROVE  MessageIsDone'
  BY <1>4, <1>13 DEF Arm, GraceOver, KillCancelled
<1>14. ASSUME Cancel \/ KillProcess \/ Disconnect \/ Reap \/ DropEntry \/ ReapProcess
      PROVE  MessageIsDone'
  BY <1>4, <1>14 DEF Cancel, KillProcess, Disconnect, Reap, DropEntry, ReapProcess
<1>15. CASE UNCHANGED vars
  BY <1>4, <1>15 DEF vars
<1> QED
  BY <1>5, <1>6, <1>7, <1>8, <1>9, <1>10, <1>11, <1>12, <1>13, <1>14, <1>15 DEF Next

LEMMA WorkStaysDone ==
  ASSUME Good, [Next]_vars, ~stale'
  PROVE  WorkIsDone'
<1> USE Sizes DEF WorkIsDone
<1>0. /\ WorkIsDone /\ MessageIsDone /\ entry \in Entries
      /\ drains \subseteq Drains /\ turns \subseteq Turns
  BY Shapes DEF Good, Lineage
<1>1. CASE Crash
  BY <1>1 DEF Crash
<1> SUFFICES ASSUME ~Crash PROVE WorkIsDone'
  BY <1>1
<1>2. \A n \in Spawns : stage[n] = "done" => stage'[n] = "done"
  BY DoneStays DEF Good
<1>3. /\ \A d \in drains : d.at \in Spawns
      /\ \A t \in turns : t.at \in Spawns
  BY <1>0 DEF Drains, Turns
<1>4. ASSUME \A d \in drains' : d \in drains \/ d.at = entry.spawn,
             \A t \in turns' : t \in turns \/ (t.at = entry.spawn /\ t.conn = entry.spawn),
             entry.spawn \in Spawns, stage[entry.spawn] = "done"
      PROVE  WorkIsDone'
  BY <1>0, <1>2, <1>3, <1>4
<1>5. ASSUME UNCHANGED <<drains, turns>> PROVE WorkIsDone'
  BY <1>0, <1>2, <1>3, <1>5
<1>6. ASSUME NEW m \in Messages, Run(m) PROVE WorkIsDone'
  <2>1. UNCHANGED drains
    BY <1>6 DEF Run
  <2> QED BY <1>4, <1>5, <1>6, <2>1, RunDoes DEF Good, Begins
<1>7. ASSUME NEW m \in Messages, Push(m) PROVE WorkIsDone'
  <2>1. UNCHANGED turns /\ at[m] \in Spawns /\ stage[at[m]] = "done"
    BY <1>0, <1>7 DEF Push, MessageIsDone
  <2>2. \A x : Taken(x, m).at = entry.spawn
    BY DEF Taken
  <2>3. UNCHANGED drains \/ (entry.spawn = at[m] /\ \E x : drains' = drains \cup {Taken(x, m)})
    BY <1>7, PushDoes DEF Good
  <2> QED BY <1>4, <1>5, <2>1, <2>2, <2>3
<1>8. ASSUME NEW d \in drains, DeleteRow(d) PROVE WorkIsDone'
  <2>1. [d EXCEPT !.deleted = TRUE].at = d.at
    BY <1>0, DeletedIs
  <2>2. drains' = (drains \ {d}) \cup {[d EXCEPT !.deleted = TRUE]} /\ UNCHANGED turns
    BY <1>8 DEF DeleteRow
  <2> QED BY <1>0, <1>2, <1>3, <2>1, <2>2
<1>9. ASSUME NEW d \in drains, Dispatch(d) PROVE WorkIsDone'
  <2>1. drains' \subseteq drains
    BY <1>9 DEF Dispatch
  <2>2. CASE UNCHANGED turns
    BY <1>0, <1>2, <1>3, <2>1, <2>2
  <2>3. CASE Begins(d.msg)
    BY <1>4, <2>1, <2>3 DEF Begins
  <2> QED BY <1>9, <2>2, <2>3, DispatchDoes DEF Good
<1>10. ASSUME NEW t \in turns, EndTurn(t) PROVE WorkIsDone'
  <2>1. turns' = (turns \ {t}) \cup {[t EXCEPT !.answered = TRUE]} /\ UNCHANGED drains
    BY <1>10 DEF EndTurn
  <2>2. [t EXCEPT !.answered = TRUE].at = t.at /\ [t EXCEPT !.answered = TRUE].conn = t.conn
    BY <1>0 DEF Turns
  <2> QED BY <1>0, <1>2, <1>3, <2>1, <2>2
<1>11. ASSUME NEW t \in turns, FinishTurn(t) PROVE WorkIsDone'
  <2>1. t.at \in Spawns /\ stage[t.at] = "done"
    BY <1>0, <1>3
  <2>2. \A x : Taken(x, 0).at = entry.spawn
    BY DEF Taken
  <2>3. /\ turns' \subseteq turns
        /\ UNCHANGED drains
              \/ (entry.spawn = t.at /\ \E x : drains' = drains \cup {Taken(x, 0)})
    BY <1>11, FinishTurnDoes DEF Good
  <2>4. CASE UNCHANGED drains
    BY <1>0, <1>2, <1>3, <2>3, <2>4
  <2>5. CASE ~UNCHANGED drains
    BY <1>4, <2>1, <2>2, <2>3, <2>5
  <2> QED BY <2>4, <2>5
<1>12. ASSUME NEW m \in Messages,
              Ensure(m) \/ Subscribe(m) \/ WaitReady(m) \/ Submit(m) \/ Insert(m)
       PROVE  WorkIsDone'
  BY <1>5, <1>12 DEF Ensure, Subscribe, WaitReady, Submit, Insert, prompts
<1>13. ASSUME NEW n \in Spawns,
              ListRows(n) \/ Restore(n) \/ AskSpawn(n) \/ StartProcess(n) \/ Shake(n) \/ Die(n)
       PROVE  WorkIsDone'
  BY <1>5, <1>13 DEF ListRows, Restore, AskSpawn, StartProcess, Shake, Die, prompts
<1>14. ASSUME NEW n \in Spawns,
              Connect(n) \/ WriteConnection(n) \/ MakeReady(n) \/ FailSpawn(n) \/ HandleExit(n)
       PROVE  WorkIsDone'
  BY <1>5, <1>14 DEF Connect, WriteConnection, MakeReady, FailSpawn, HandleExit, prompts
<1>15. ASSUME NEW f \in fallbacks, Arm(f) \/ GraceOver(f) \/ KillCancelled(f)
       PROVE  WorkIsDone'
  BY <1>5, <1>15 DEF Arm, GraceOver, KillCancelled
<1>16. ASSUME Cancel \/ KillProcess \/ Disconnect \/ Reap \/ DropEntry \/ ReapProcess
       PROVE  WorkIsDone'
  BY <1>5, <1>16 DEF Cancel, KillProcess, Disconnect, Reap, DropEntry, ReapProcess, prompts
<1>17. CASE UNCHANGED vars
  BY <1>5, <1>17 DEF vars
<1> QED
  BY <1>6, <1>7, <1>8, <1>9, <1>10, <1>11, <1>12, <1>13, <1>14, <1>15, <1>16, <1>17
     DEF Next

LEMMA StepKeepsGood ==
  ASSUME Good, [Next]_vars, ~stale'
  PROVE  Good'
BY StepIsTyped, StepKeepsAbsent, StepKeepsProcesses, EntryStaysDone, ConnStaysOwn,
   MessageStaysDone, WorkStaysDone DEF Good, Lineage

-----------------------------------------------------------------------------
(* The busy flag.                                                          *)

\* The end of a process that is decided comes.
LEMMA DoomStays ==
  ASSUME Good, [Next]_vars, NEW n \in Spawns, stage[n] = "done", DoomedAt(n)
  PROVE  DoomedAt(n)'
<1> USE Sizes
<1> DEFINE Ended == {"told", "dead"}
<1>0. /\ procs \in [Spawns -> {"none", "asked", "alive", "told", "dead"}]
      /\ procs[n] \in {"alive", "told", "dead"} /\ (procs[n] = "alive" => table = n)
      /\ fallbacks \subseteq Fallbacks
  BY Shapes DEF Good, Processes, TypeOK
<1>1. ASSUME procs[n] \in Ended => procs'[n] \in Ended,
             \A f \in fallbacks : f.state = "kill" => f \in fallbacks'
      PROVE  DoomedAt(n)'
  BY <1>1 DEF DoomedAt
<1>2. UNCHANGED <<procs, fallbacks>> => DoomedAt(n)'
  BY DEF DoomedAt
<1>3. procs'[n] \in Ended => DoomedAt(n)'
  BY DEF DoomedAt
<1>4. TellTable => procs'[n] \in Ended
  BY <1>0 DEF TellTable
<1>5. ASSUME NEW k \in Spawns, AskSpawn(k) PROVE DoomedAt(n)'
  <2>1. procs'[n] = procs[n] /\ UNCHANGED fallbacks
    BY <1>0, <1>5 DEF AskSpawn, prompts
  <2> QED BY <1>1, <2>1
<1>6. ASSUME NEW k \in Spawns, StartProcess(k) PROVE DoomedAt(n)'
  <2>1. (procs[n] \in Ended => procs'[n] = procs[n]) /\ UNCHANGED fallbacks
    BY <1>0, <1>6 DEF StartProcess, prompts
  <2> QED BY <1>1, <2>1
<1>7. ASSUME NEW k \in Spawns, Die(k) PROVE DoomedAt(n)'
  <2>1. (procs[n] \in Ended => procs'[n] \in Ended) /\ UNCHANGED fallbacks
    BY <1>0, <1>7 DEF Die, prompts
  <2> QED BY <1>1, <2>1
<1>8. ASSUME NEW f \in fallbacks, KillCancelled(f) PROVE DoomedAt(n)'
  BY <1>3, <1>4, <1>8 DEF KillCancelled
<1>9. ASSUME KillProcess \/ ReapProcess PROVE DoomedAt(n)'
  BY <1>3, <1>4, <1>9 DEF KillProcess, ReapProcess
<1>10. ASSUME Disconnect \/ Crash PROVE DoomedAt(n)'
  BY <1>0, <1>3, <1>10 DEF Disconnect, Crash
<1>11. ASSUME NEW t \in turns, FinishTurn(t) PROVE DoomedAt(n)'
  BY <1>1, <1>11 DEF FinishTurn, client
<1>12. ASSUME Cancel PROVE DoomedAt(n)'
  BY <1>1, <1>12 DEF Cancel, client
<1>13. ASSUME NEW f \in fallbacks, Arm(f) \/ GraceOver(f) PROVE DoomedAt(n)'
  BY <1>1, <1>13 DEF Arm, GraceOver, client
<1>14. ASSUME NEW m \in Messages,
             Ensure(m) \/ Subscribe(m) \/ WaitReady(m) \/ Submit(m) \/ Run(m)
               \/ Insert(m) \/ Push(m)
      PROVE  DoomedAt(n)'
  BY <1>2, <1>14 DEF Ensure, Subscribe, WaitReady, Submit, Run, Insert, Push, client, prompts
<1>15. ASSUME NEW k \in Spawns,
             ListRows(k) \/ Restore(k) \/ Connect(k) \/ Shake(k) \/ WriteConnection(k)
               \/ MakeReady(k) \/ FailSpawn(k) \/ HandleExit(k)
      PROVE  DoomedAt(n)'
  BY <1>2, <1>15 DEF ListRows, Restore, Connect, Shake, WriteConnection, MakeReady,
                     FailSpawn, HandleExit, client, prompts
<1>16. ASSUME NEW d \in drains, DeleteRow(d) \/ Dispatch(d) PROVE DoomedAt(n)'
  BY <1>2, <1>16 DEF DeleteRow, Dispatch, client
<1>17. ASSUME NEW t \in turns, EndTurn(t) PROVE DoomedAt(n)'
  BY <1>2, <1>17 DEF EndTurn, client
<1>18. ASSUME DropEntry \/ Reap PROVE DoomedAt(n)'
  BY <1>2, <1>18 DEF DropEntry, Reap, client, prompts
<1>19. CASE UNCHANGED vars
  BY <1>2, <1>19 DEF vars
<1> QED
  BY <1>5, <1>6, <1>7, <1>8, <1>9, <1>10, <1>11, <1>12, <1>13, <1>14, <1>15, <1>16,
     <1>17, <1>18, <1>19 DEF Next

\* An attempt that is not done has no work.
LEMMA NoWork ==
  ASSUME TypeOK, WorkIsDone, EntryIsDone, NEW n \in Spawns, stage[n] # "done"
  PROVE  OneHolder(n) /\ (\A t \in turns : t.at # n) /\ (\A d \in drains : d.at # n)
BY DEF WorkIsDone, OneHolder

LEMMA StepKeepsLock ==
  ASSUME Good, Lock, [Next]_vars, ~stale'
  PROVE  Lock'
<1> USE Sizes
<1> SUFFICES ASSUME NEW n \in Spawns, ~DoomedAt(n)' PROVE OneHolder(n)'
  BY DEF Lock
<1>0. /\ entry \in Entries /\ drains \subseteq Drains /\ turns \subseteq Turns /\ n # 0
  BY Shapes DEF Good
<1>1. OneHolder(n)
  <2>1. CASE stage[n] = "done"
    BY <2>1, DoomStays DEF Lock
  <2>2. CASE stage[n] # "done"
    BY <2>2, NoWork DEF Good, Lineage
  <2> QED BY <2>1, <2>2
<1>2. ASSUME UNCHANGED <<turns, drains>>,
             entry'.spawn = 0 \/ (entry'.spawn = entry.spawn /\ entry'.busy = entry.busy)
      PROVE  OneHolder(n)'
  BY <1>0, <1>1, <1>2 DEF OneHolder
<1>3. UNCHANGED <<turns, drains, entry>> => OneHolder(n)'
  BY <1>2
<1>4. ASSUME NEW m \in Messages, Ensure(m) PROVE OneHolder(n)'
  <2>1. CASE UNCHANGED entry
    BY <1>3, <1>4, <2>1 DEF Ensure, prompts
  <2>2. CASE ~UNCHANGED entry
    <3>1. PICK k \in Spawns : stage[k] = "none" /\ entry' = Blank(k, entry.queue)
      BY <1>4, <2>2, Zenon DEF Ensure
    <3>2. (\A t \in turns : t.at # k) /\ (\A d \in drains : d.at # k)
      BY <3>1, NoWork DEF Good, Lineage
    <3>3. entry'.spawn = k /\ UNCHANGED <<turns, drains>>
      BY <1>4, <3>1 DEF Blank, Ensure, prompts
    <3> QED BY <1>1, <3>2, <3>3 DEF OneHolder
  <2> QED BY <2>1, <2>2
<1>5. ASSUME NEW m \in Messages, Run(m) PROVE OneHolder(n)'
  <2>1. UNCHANGED drains
    BY <1>5 DEF Run
  <2>2. CASE UNCHANGED <<entry, turns>>
    BY <1>3, <2>1, <2>2
  <2>3. CASE Begins(m) /\ ~entry.busy
    <3>1. PICK u \in Turns : turns' = turns \cup {u} /\ u.at = entry.spawn
      BY <2>3 DEF Begins
    <3>2. entry'.spawn = entry.spawn /\ entry'.busy
      BY <2>3 DEF Begins, SameEntry
    <3> QED BY <1>1, <2>1, <2>3, <3>1, <3>2 DEF OneHolder
  <2> QED BY <1>5, <2>2, <2>3, RunDoes DEF Good
<1>6. ASSUME NEW m \in Messages, Push(m) PROVE OneHolder(n)'
  <2>1. UNCHANGED turns
    BY <1>6 DEF Push
  <2>2. CASE UNCHANGED drains /\ (UNCHANGED entry \/ (entry'.spawn = entry.spawn /\ entry'.busy))
    BY <1>1, <2>1, <2>2 DEF OneHolder
  <2>3. ASSUME NEW x, drains' = drains \cup {Taken(x, m)}, ~entry.busy, entry'.busy,
               entry'.spawn = entry.spawn
        PROVE  OneHolder(n)'
    <3>1. Taken(x, m).at = entry.spawn
      BY DEF Taken
    <3> QED BY <1>1, <2>1, <2>3, <3>1 DEF OneHolder
  <2> QED BY <1>6, <2>2, <2>3, PushDoes DEF Good, SameEntry
<1>7. ASSUME NEW d \in drains, DeleteRow(d) PROVE OneHolder(n)'
  <2>1. [d EXCEPT !.deleted = TRUE].at = d.at
    BY <1>0, DeletedIs
  <2>2. drains' = (drains \ {d}) \cup {[d EXCEPT !.deleted = TRUE]} /\ UNCHANGED <<turns, entry>>
    BY <1>7 DEF DeleteRow
  <2> HIDE <1>0
  <2> QED BY <1>1, <2>1, <2>2 DEF OneHolder
<1>8. ASSUME NEW d \in drains, Dispatch(d) PROVE OneHolder(n)'
  <2>1. drains' = drains \ {d}
    BY <1>8 DEF Dispatch
  <2>2. CASE UNCHANGED <<entry, turns>>
    BY <1>1, <2>1, <2>2 DEF OneHolder
  <2>3. CASE Begins(d.msg) /\ entry.spawn = d.at
    <3>1. PICK u \in Turns : turns' = turns \cup {u} /\ u.at = entry.spawn
      BY <2>3 DEF Begins
    <3>2. entry'.spawn = entry.spawn /\ entry'.busy
      BY <2>3 DEF Begins, SameEntry
    <3> QED BY <1>1, <2>1, <2>3, <3>1, <3>2 DEF OneHolder
  <2> QED BY <1>8, <2>2, <2>3, DispatchDoes DEF Good
<1>9. ASSUME NEW t \in turns, EndTurn(t) PROVE OneHolder(n)'
  <2>1. turns' = (turns \ {t}) \cup {[t EXCEPT !.answered = TRUE]} /\ UNCHANGED <<drains, entry>>
    BY <1>9 DEF EndTurn
  <2>2. [t EXCEPT !.answered = TRUE].at = t.at
    BY <1>0 DEF Turns
  <2> QED BY <1>1, <2>1, <2>2 DEF OneHolder
<1>10. ASSUME NEW t \in turns, FinishTurn(t) PROVE OneHolder(n)'
  <2>1. turns' = turns \ {t}
    BY <1>10, FinishTurnDoes DEF Good
  <2>2. CASE UNCHANGED <<entry, drains>>
    BY <1>1, <2>1, <2>2 DEF OneHolder
  <2>3. CASE entry.spawn = t.at /\ entry'.spawn = entry.spawn /\ UNCHANGED drains
    BY <1>1, <2>1, <2>3 DEF OneHolder
  <2>4. ASSUME NEW x, drains' = drains \cup {Taken(x, 0)}, entry.spawn = t.at, entry'.busy,
               entry'.spawn = entry.spawn
        PROVE  OneHolder(n)'
    <3>1. Taken(x, 0).at = entry.spawn
      BY DEF Taken
    <3> QED BY <1>1, <2>1, <2>4, <3>1 DEF OneHolder
  <2> QED BY <1>10, <2>2, <2>3, <2>4, FinishTurnDoes DEF Good, SameEntry
<1>11. ASSUME NEW f \in fallbacks, GraceOver(f) PROVE OneHolder(n)'
  <2>1. CASE UNCHANGED entry
    BY <1>3, <1>11, <2>1 DEF GraceOver
  <2>2. CASE ~UNCHANGED entry
    <3>1. /\ entry.busy /\ entry' = [entry EXCEPT !.busy = FALSE, !.cancelled = @ \ {f.gen}]
          /\ fallbacks' = (fallbacks \ {f}) \cup {[f EXCEPT !.state = "kill"]}
          /\ UNCHANGED <<turns, drains>>
      BY <1>11, <2>2 DEF GraceOver
    <3>2. Present
      BY <3>1 DEF Good, Absent, Blank
    <3>3. entry.spawn = f.at
      BY <1>11, <3>2, Zenon DEF GraceOver, Mark
    <3>4. [f EXCEPT !.state = "kill"].state = "kill" /\ [f EXCEPT !.state = "kill"].at = f.at
      BY DEF Good, TypeOK, Fallbacks
    <3>5. entry.spawn # n
      BY <3>1, <3>3, <3>4 DEF DoomedAt
    <3>6. entry'.spawn = entry.spawn
      BY <1>0, <3>1 DEF Entries
    <3> QED BY <1>1, <3>1, <3>5, <3>6 DEF OneHolder
  <2> QED BY <2>1, <2>2
<1>12. ASSUME Crash PROVE OneHolder(n)'
  BY <1>0, <1>12 DEF Crash, OneHolder, RemoveEntry, Blank
<1>13. ASSUME NEW k \in Spawns, Restore(k) PROVE OneHolder(n)'
  BY <1>0, <1>2, <1>13 DEF Restore, prompts, Entries
<1>14. ASSUME NEW k \in Spawns, Connect(k) PROVE OneHolder(n)'
  BY <1>0, <1>2, <1>14 DEF Connect, prompts, RemoveEntry, Blank, Entries
<1>15. ASSUME NEW k \in Spawns, WriteConnection(k) \/ MakeReady(k) \/ HandleExit(k)
       PROVE  OneHolder(n)'
  BY <1>0, <1>2, <1>15 DEF WriteConnection, MakeReady, HandleExit, prompts, Entries
<1>16. ASSUME NEW k \in Spawns, FailSpawn(k) PROVE OneHolder(n)'
  BY <1>2, <1>16 DEF FailSpawn, prompts, RemoveEntry, Blank
<1>17. ASSUME DropEntry \/ Reap PROVE OneHolder(n)'
  BY <1>2, <1>17 DEF DropEntry, Reap, prompts, RemoveEntry, Blank
<1>18. ASSUME Cancel PROVE OneHolder(n)'
  BY <1>0, <1>2, <1>18 DEF Cancel, Entries
<1>19. ASSUME NEW m \in Messages, Subscribe(m) \/ WaitReady(m) \/ Submit(m) \/ Insert(m)
       PROVE  OneHolder(n)'
  BY <1>3, <1>19 DEF Subscribe, WaitReady, Submit, Insert, prompts
<1>20. ASSUME NEW k \in Spawns,
              ListRows(k) \/ AskSpawn(k) \/ StartProcess(k) \/ Shake(k) \/ Die(k)
       PROVE  OneHolder(n)'
  BY <1>3, <1>20 DEF ListRows, AskSpawn, StartProcess, Shake, Die, prompts
<1>21. ASSUME NEW f \in fallbacks, Arm(f) \/ KillCancelled(f) PROVE OneHolder(n)'
  BY <1>3, <1>21 DEF Arm, KillCancelled
<1>22. ASSUME KillProcess \/ Disconnect \/ ReapProcess PROVE OneHolder(n)'
  BY <1>3, <1>22 DEF KillProcess, Disconnect, ReapProcess, prompts
<1>23. CASE UNCHANGED vars
  BY <1>3, <1>23 DEF vars
<1> QED
  BY <1>4, <1>5, <1>6, <1>7, <1>8, <1>9, <1>10, <1>11, <1>12, <1>13, <1>14, <1>15, <1>16,
     <1>17, <1>18, <1>19, <1>20, <1>21, <1>22, <1>23 DEF Next

-----------------------------------------------------------------------------
(* A queue is not left to itself.                                          *)

LEMMA StepKeepsMoves ==
  ASSUME Good, Moves, [Next]_vars, ~stale'
  PROVE  Moves'
<1> USE Sizes
<1>0. /\ entry \in Entries /\ drains \subseteq Drains /\ turns \subseteq Turns
      /\ EntryIsDone /\ OwnConn /\ WorkIsDone
  BY Shapes DEF Good, Lineage
<1>1. ~Alive' => Moves'
  BY DEF Moves
<1>2. Working' => Moves'
  BY DEF Moves
<1>3. ~entry'.busy /\ entry'.gen = 0 => Moves'
  BY DEF Moves
<1>4. ASSUME entry'.spawn = entry.spawn, Alive' => Alive, entry'.busy => entry.busy,
             entry'.gen = entry.gen, entry'.queue = entry.queue, Working => Working'
      PROVE  Moves'
  <2>1. Alive' /\ entry'.busy => Working'
    BY <1>4 DEF Moves
  <2>2. ASSUME entry.gen > 0, DoomedAt(entry.spawn) PROVE DoomedAt(entry.spawn)'
    <3>1. entry.spawn \in Spawns /\ stage[entry.spawn] = "done"
      BY <1>0, <2>2 DEF EntryIsDone
    <3> DEFINE n == entry.spawn
    <3>2. DoomedAt(n)
      BY <2>2
    <3> HIDE DEF n
    <3>3. procs'[n] \in {"told", "dead"} \/ \E f \in fallbacks' : f.state = "kill" /\ f.at = n
      BY <3>1, <3>2, DoomStays DEF DoomedAt, n
    <3> QED BY <1>4, <3>3 DEF DoomedAt, n
  <2> QED BY <1>4, <2>1, <2>2 DEF Moves
<1>5. UNCHANGED <<entry, turns, drains>> => Moves'
  BY <1>4 DEF Alive, Present, Working
<1>6. ASSUME NEW m \in Messages, Ensure(m) PROVE Moves'
  BY <1>3, <1>5, <1>6 DEF Ensure, prompts, Blank
<1>7. ASSUME NEW x, Begins(x) PROVE Moves'
  BY <1>2, <1>7 DEF Begins, SameEntry, Working
<1>8. ASSUME NEW m \in Messages, Run(m) PROVE Moves'
  BY <1>5, <1>7, <1>8, RunDoes DEF Good, Run
<1>9. ASSUME NEW m \in Messages, Push(m) PROVE Moves'
  <2>1. UNCHANGED turns
    BY <1>9 DEF Push
  <2>2. CASE UNCHANGED <<entry, drains>>
    BY <1>5, <2>1, <2>2
  <2>3. CASE entry.busy /\ SameEntry /\ UNCHANGED drains
    <3>1. Alive' => Alive
      BY <2>3 DEF SameEntry, Alive, Present
    <3>2. Alive => Working
      BY <2>3 DEF Moves
    <3>3. Working => Working'
      BY <2>1, <2>3 DEF Working, SameEntry
    <3> QED BY <1>1, <1>2, <3>1, <3>2, <3>3
  <2>4. ASSUME NEW x, drains' = drains \cup {Taken(x, m)}, SameEntry PROVE Moves'
    <3>1. Taken(x, m).at = entry'.spawn
      BY <2>4 DEF Taken, SameEntry
    <3> QED BY <1>2, <2>4, <3>1 DEF Working
  <2> QED BY <1>9, <2>2, <2>3, <2>4, PushDoes DEF Good
<1>10. ASSUME NEW d \in drains, DeleteRow(d) PROVE Moves'
  <2>1. [d EXCEPT !.deleted = TRUE].at = d.at
    BY <1>0, DeletedIs
  <2>2. drains' = (drains \ {d}) \cup {[d EXCEPT !.deleted = TRUE]} /\ UNCHANGED <<turns, entry>>
    BY <1>10 DEF DeleteRow
  <2>3. Working => Working'
    BY <2>1, <2>2 DEF Working
  <2> QED BY <1>4, <2>2, <2>3 DEF Alive, Present
<1>11. ASSUME NEW d \in drains, Dispatch(d) PROVE Moves'
  <2>1. CASE UNCHANGED entry /\ (Alive => d.at = entry.spawn /\ entry.conn = 0)
    <3>1. d.at \in Spawns /\ stage[d.at] = "done"
      BY <1>0 DEF WorkIsDone, Drains
    <3>2. d.at = entry.spawn => entry.conn = d.at /\ d.at # 0
      BY <1>0, <3>1 DEF OwnConn
    <3>3. ~Alive'
      BY <2>1, <3>2 DEF Alive, Present
    <3> QED BY <1>1, <3>3
  <2> QED BY <1>7, <1>11, <2>1, DispatchDoes DEF Good
<1>12. ASSUME NEW t \in turns, EndTurn(t) PROVE Moves'
  <2>1. turns' = (turns \ {t}) \cup {[t EXCEPT !.answered = TRUE]} /\ UNCHANGED <<drains, entry>>
    BY <1>12 DEF EndTurn
  <2>2. [t EXCEPT !.answered = TRUE].at = t.at
    BY <1>0 DEF Turns
  <2>3. Working => Working'
    BY <2>1, <2>2 DEF Working
  <2> QED BY <1>4, <2>1, <2>3 DEF Alive, Present
<1>13. ASSUME NEW t \in turns, FinishTurn(t) PROVE Moves'
  <2>1. CASE ~Present /\ UNCHANGED entry
    BY <1>1, <2>1 DEF Alive, Present
  <2>2. ASSUME NEW x, drains' = drains \cup {Taken(x, 0)}, SameEntry PROVE Moves'
    <3>1. Taken(x, 0).at = entry'.spawn
      BY <2>2 DEF Taken, SameEntry
    <3> QED BY <1>2, <2>2, <3>1 DEF Working
  <2>3. CASE SameEntry /\ ~(Alive /\ entry.queue # <<>>) /\ ~entry'.busy /\ entry'.queue = entry.queue
    BY <2>3 DEF SameEntry, Moves, Alive, Present
  <2> QED BY <1>13, <2>1, <2>2, <2>3, FinishTurnDoes DEF Good
<1>14. ASSUME NEW f \in fallbacks, GraceOver(f) PROVE Moves'
  <2>1. CASE UNCHANGED entry
    BY <1>5, <1>14, <2>1 DEF GraceOver
  <2>2. CASE ~UNCHANGED entry
    <3>1. /\ entry.busy /\ entry' = [entry EXCEPT !.busy = FALSE, !.cancelled = @ \ {f.gen}]
          /\ fallbacks' = (fallbacks \ {f}) \cup {[f EXCEPT !.state = "kill"]}
      BY <1>14, <2>2 DEF GraceOver
    <3>2. Present
      BY <3>1 DEF Good, Absent, Blank
    <3>3. entry.spawn = f.at
      BY <1>14, <3>2, Zenon DEF GraceOver, Mark
    <3>4. [f EXCEPT !.state = "kill"].state = "kill" /\ [f EXCEPT !.state = "kill"].at = f.at
      BY DEF Good, TypeOK, Fallbacks
    <3>5. entry'.spawn = entry.spawn /\ ~entry'.busy
      BY <1>0, <3>1 DEF Entries
    <3> QED BY <3>1, <3>3, <3>4, <3>5 DEF Moves, DoomedAt
  <2> QED BY <2>1, <2>2
<1>15. ASSUME NEW n \in Spawns, Restore(n) PROVE Moves'
  <2>1. CASE UNCHANGED entry
    BY <1>5, <1>15, <2>1 DEF Restore, prompts
  <2>2. CASE ~UNCHANGED entry
    <3>1. Present /\ Mark(n) /\ stage[n] = "listed"
      BY <1>15, <2>2, Zenon DEF Restore
    <3>2. entry.spawn = n
      BY <3>1, Zenon DEF Mark
    <3>3. ~entry.busy /\ ~(entry.gen > 0)
      BY <1>0, <3>1, <3>2 DEF EntryIsDone
    <3>4. entry'.busy = entry.busy /\ entry'.gen = entry.gen
      BY <1>0, <1>15 DEF Restore, Entries
    <3>5. entry.gen \in Nat
      BY <1>0 DEF Entries
    <3> QED BY <1>3, <3>3, <3>4, <3>5
  <2> QED BY <2>1, <2>2
<1>16. entry' = Blank(0, <<>>) => Moves'
  BY <1>3 DEF Blank
<1>17. ASSUME NEW n \in Spawns, Connect(n) \/ WriteConnection(n) \/ MakeReady(n) PROVE Moves'
  <2>1. UNCHANGED <<turns, drains>>
    BY <1>17 DEF Connect, WriteConnection, MakeReady, prompts
  <2>2. \/ entry' = Blank(0, <<>>)
        \/ /\ entry'.spawn = entry.spawn /\ entry'.exited = entry.exited
           /\ entry'.busy = entry.busy /\ entry'.gen = entry.gen
           /\ entry'.queue = entry.queue
    BY <1>0, <1>17 DEF Connect, WriteConnection, MakeReady, RemoveEntry, Entries
  <2> QED BY <1>4, <1>16, <2>1, <2>2 DEF Alive, Present, Working
<1>18. ASSUME NEW n \in Spawns, HandleExit(n) PROVE Moves'
  <2>1. ~Alive'
    BY <1>0, <1>18 DEF HandleExit, Alive, Present, Entries
  <2> QED BY <1>1, <2>1
<1>19. ASSUME NEW n \in Spawns, FailSpawn(n) PROVE Moves'
  BY <1>16, <1>19 DEF FailSpawn, RemoveEntry
<1>20. ASSUME DropEntry \/ Reap \/ Crash PROVE Moves'
  BY <1>16, <1>20 DEF DropEntry, Reap, Crash, RemoveEntry
<1>21. ASSUME Cancel PROVE Moves'
  <2>1. /\ entry'.spawn = entry.spawn /\ entry'.exited = entry.exited
        /\ entry'.busy = entry.busy /\ entry'.gen = entry.gen
        /\ entry'.queue = entry.queue /\ UNCHANGED <<turns, drains>>
    BY <1>0, <1>21 DEF Cancel, Entries
  <2> QED BY <1>4, <2>1 DEF Alive, Present, Working
<1>22. ASSUME NEW m \in Messages, Subscribe(m) \/ WaitReady(m) \/ Submit(m) \/ Insert(m)
       PROVE  Moves'
  BY <1>5, <1>22 DEF Subscribe, WaitReady, Submit, Insert, prompts
<1>23. ASSUME NEW n \in Spawns,
              ListRows(n) \/ AskSpawn(n) \/ StartProcess(n) \/ Shake(n) \/ Die(n)
       PROVE  Moves'
  BY <1>5, <1>23 DEF ListRows, AskSpawn, StartProcess, Shake, Die, prompts
<1>24. ASSUME NEW f \in fallbacks, Arm(f) \/ KillCancelled(f) PROVE Moves'
  BY <1>5, <1>24 DEF Arm, KillCancelled
<1>25. ASSUME KillProcess \/ Disconnect \/ ReapProcess PROVE Moves'
  BY <1>5, <1>25 DEF KillProcess, Disconnect, ReapProcess, prompts
<1>26. CASE UNCHANGED vars
  BY <1>5, <1>26 DEF vars
<1> QED
  BY <1>6, <1>8, <1>9, <1>10, <1>11, <1>12, <1>13, <1>14, <1>15, <1>17, <1>18, <1>19,
     <1>20, <1>21, <1>22, <1>23, <1>24, <1>25, <1>26 DEF Next

-----------------------------------------------------------------------------
(* A message is in one place.                                              *)

\* The handling of m has not come to the queue, or has just written its row
\* for its own entry.
Coming(m) == step[m] \notin {"stored", "over"} \/ (step[m] = "stored" /\ at[m] = entry.spawn)

\* No step of the handling of a message but the ones below puts it anywhere.
StepsGoOn ==
  \A m \in Messages :
    /\ step'[m] \notin {"stored", "over"} => step[m] \notin {"stored", "over"}
    /\ step'[m] = "stored" => step[m] = "stored" /\ at'[m] = at[m]

\* What an attempt has listed is what it had, or what the table has.
SnapsGoOn ==
  \A n \in Spawns :
    stage'[n] = "listed" => (stage[n] = "listed" /\ snap'[n] = snap[n]) \/ snap'[n] = rows

\* Steps that move no message.
LEMMA CopiesStay ==
  ASSUME Good, Copies, drains' \subseteq drains, UNCHANGED <<rows, sent>>,
         StepsGoOn, SnapsGoOn,
         \/ entry'.spawn = 0 /\ entry'.queue = <<>>
         \/ /\ entry'.spawn = entry.spawn \/ (entry'.spawn \in Spawns /\ stage[entry'.spawn] = "none")
            /\ entry'.queue = entry.queue
  PROVE  Copies'
<1> USE Sizes
<1>0. /\ rows \in Seq(Messages) /\ drains \subseteq Drains /\ MessageIsDone /\ WorkIsDone
      /\ Steps /\ Rows /\ Queue /\ UnderWay /\ SentOnce
  BY Shapes DEF Good, Copies, Lineage
<1>1. \A m : InRows(m)' <=> InRows(m)
  BY DEF InRows
<1>2. \A m : InQueue(m)' => InQueue(m)
  BY DEF InQueue
<1>3. \A d \in drains' : d.at = entry'.spawn => d.at = entry.spawn
  <2>1. \A d \in drains : d.at # 0 /\ stage[d.at] # "none"
    BY <1>0 DEF Drains, WorkIsDone
  <2> QED BY <2>1
<1>4. \A m : Drained(m)' => Drained(m)
  BY <1>3 DEF Drained
<1>5. \A m \in Messages : step'[m] = "stored" /\ at'[m] = entry'.spawn =>
        step[m] = "stored" /\ at[m] = entry.spawn
  <2>1. \A m \in Messages : step[m] = "stored" => at[m] # 0 /\ stage[at[m]] # "none"
    BY <1>0 DEF MessageIsDone
  <2> QED BY <2>1 DEF StepsGoOn
<1>6. Steps'
  BY <1>0, <1>1, <1>2, <1>4, <1>5 DEF Steps, StepsGoOn
<1>7. Rows'
  <2>1. Once(rows)' /\ \A j \in DOMAIN rows' : sent'[rows'[j]] = 0
    BY <1>0 DEF Rows, Once
  <2>2. ASSUME NEW n \in Spawns, stage'[n] = "listed", entry'.spawn = n
        PROVE  Once(snap[n])' /\ \A k \in DOMAIN snap'[n] : InRows(snap[n][k])'
    <3>1. CASE snap'[n] = rows
      BY <1>0, <3>1 DEF Rows, Once, InRows
    <3>2. CASE stage[n] = "listed" /\ snap'[n] = snap[n]
      <4>1. entry.spawn = n
        BY <2>2, <3>2
      <4>2. Once(snap[n]) /\ \A k \in DOMAIN snap[n] : InRows(snap[n][k])
        BY <1>0, <3>2, <4>1 DEF Rows
      <4> QED BY <1>1, <3>2, <4>2 DEF Once, InRows
    <3> QED BY <2>2, <3>1, <3>2 DEF SnapsGoOn
  <2> QED BY <2>1, <2>2 DEF Rows
<1>8. Queue'
  BY <1>0, <1>1, <1>4 DEF Queue, OnceInQueue
<1>9. UnderWay'
  BY <1>0, <1>1, <1>3 DEF UnderWay
<1> QED BY <1>0, <1>6, <1>7, <1>8, <1>9 DEF Copies, SentOnce

\* The turn of message x begins: nothing has x any more.
LEMMA BeginKeepsCopies ==
  ASSUME Good, Copies, NEW x \in Messages, Begins(x), UNCHANGED <<rows, snap, stage>>,
         drains' \subseteq drains,
         ~InRows(x), ~InQueue(x), sent[x] = 0, ~Coming(x) \/ step'[x] = "over",
         \A d \in drains' : d.at = entry.spawn => d.msg # x,
         \A m \in Messages :
           (step'[m] = step[m] /\ at'[m] = at[m]) \/ step'[m] = "over"
  PROVE  Copies'
<1>0. /\ rows \in Seq(Messages) /\ drains \subseteq Drains /\ sent \in [Messages -> Nat]
      /\ entry.queue \in Seq(Items)
      /\ Steps /\ Rows /\ Queue /\ UnderWay /\ SentOnce
  BY Shapes DEF Good, Copies
<1>1. /\ entry'.spawn = entry.spawn /\ entry'.queue = entry.queue
      /\ sent'[x] = 1 /\ \A m \in Messages : m # x => sent'[m] = sent[m]
  BY <1>0 DEF Begins, SameEntry
<1>2. \A m : InRows(m)' <=> InRows(m)
  BY DEF InRows
<1>3. \A m : InQueue(m)' <=> InQueue(m)
  BY <1>1 DEF InQueue
<1>4. \A m : Drained(m)' => Drained(m) /\ m # x
  BY <1>1 DEF Drained
<1>5. \A i \in DOMAIN entry.queue : entry.queue[i].msg \in Messages /\ entry.queue[i].msg # x
  <2>1. \A i \in DOMAIN entry.queue : entry.queue[i] \in Items
    BY <1>0
  <2> QED BY <2>1 DEF InQueue, Items
<1>6. \A j \in DOMAIN rows : rows[j] \in Messages /\ rows[j] # x
  BY <1>0 DEF InRows
<1>7. \A d \in drains : d.msg \in Messages
  BY <1>0 DEF Drains
<1>8. Steps'
  <2> SUFFICES ASSUME NEW m \in Messages,
                      step'[m] \notin {"stored", "over"}
                        \/ (step'[m] = "stored" /\ at'[m] = entry'.spawn)
               PROVE  /\ step'[m] \notin {"stored", "over"} =>
                           ~InRows(m)' /\ ~InQueue(m)' /\ ~Drained(m)' /\ sent'[m] = 0
                      /\ step'[m] = "stored" /\ at'[m] = entry'.spawn =>
                           InRows(m)' /\ ~InQueue(m)' /\ ~Drained(m)' /\ sent'[m] = 0
    BY DEF Steps
  <2>1. step'[m] = step[m] /\ at'[m] = at[m]
    OBVIOUS
  <2>2. m # x
    BY <1>1, <2>1 DEF Coming
  <2> QED BY <1>0, <1>1, <1>2, <1>3, <1>4, <2>1, <2>2 DEF Steps
<1>9. Rows'
  BY <1>0, <1>1, <1>2, <1>6 DEF Rows, Once
<1>10. Queue'
  BY <1>0, <1>1, <1>2, <1>4, <1>5 DEF Queue, OnceInQueue
<1>11. UnderWay'
  <2>1. \A d \in drains' : d.at = entry'.spawn =>
          d \in drains /\ d.at = entry.spawn /\ sent'[d.msg] = sent[d.msg]
    BY <1>1, <1>7
  <2> QED BY <1>0, <1>2, <2>1 DEF UnderWay
<1>12. SentOnce'
  BY <1>0, <1>1 DEF SentOnce
<1> QED BY <1>8, <1>9, <1>10, <1>11, <1>12 DEF Copies

LEMMA RunKeepsCopies ==
  ASSUME Good, Copies, NEW m \in Messages, Run(m), ~stale'
  PROVE  Copies'
<1>0. /\ step \in [Messages -> {"new", "ensured", "wait", "go", "run", "insert",
                               "stored", "unstored", "over"}]
      /\ at \in [Messages -> Tasks]
  BY Shapes DEF Good
<1>1. /\ step[m] = "run" /\ step' = [step EXCEPT ![m] = "over"]
      /\ at' = [at EXCEPT ![m] = 0] /\ UNCHANGED <<rows, drains, stage, snap>>
  BY DEF Run, StepTo, spawning
<1>2. CASE UNCHANGED <<entry, sent>>
  <2>1. StepsGoOn
    BY <1>0, <1>1 DEF StepsGoOn
  <2>2. SnapsGoOn
    BY <1>1 DEF SnapsGoOn
  <2> QED BY <1>1, <1>2, <2>1, <2>2, CopiesStay
<1>3. CASE Begins(m)
  <2>1. ~InRows(m) /\ ~InQueue(m) /\ ~Drained(m) /\ sent[m] = 0
    BY <1>1 DEF Copies, Steps
  <2>2. \A k \in Messages : (step'[k] = step[k] /\ at'[k] = at[k]) \/ step'[k] = "over"
    BY <1>0, <1>1
  <2>3. step'[m] = "over"
    BY <1>0, <1>1
  <2>4. \A d \in drains' : d.at = entry.spawn => d.msg # m
    BY <1>1, <2>1 DEF Drained
  <2> QED BY <1>1, <1>3, <2>1, <2>2, <2>3, <2>4, BeginKeepsCopies
<1> QED BY <1>2, <1>3, RunDoes DEF Good

LEMMA DispatchKeepsCopies ==
  ASSUME Good, Copies, NEW d \in drains, Dispatch(d), ~stale'
  PROVE  Copies'
<1>0. drains \subseteq Drains /\ d.msg \in Messages
  BY Shapes DEF Good, Drains
<1>1. d.deleted /\ drains' = drains \ {d} /\ UNCHANGED <<rows, step, at, stage, snap>>
  BY DEF Dispatch, spawning
<1>2. CASE UNCHANGED <<entry, sent>>
  <2>1. StepsGoOn /\ SnapsGoOn
    BY <1>1 DEF StepsGoOn, SnapsGoOn
  <2> QED BY <1>1, <1>2, <2>1, CopiesStay
<1>3. CASE Begins(d.msg) /\ entry.spawn = d.at
  <2>1. ~InRows(d.msg) /\ sent[d.msg] = 0 /\ Drained(d.msg)
    BY <1>1, <1>3 DEF Copies, UnderWay, Drained
  <2>2. ~InQueue(d.msg)
    BY <2>1 DEF Copies, Queue, InQueue
  <2>3. ~Coming(d.msg)
    BY <1>0, <2>1 DEF Coming, Copies, Steps
  <2>4. \A e \in drains' : e.at = entry.spawn => e.msg # d.msg
    BY <1>1, <1>3 DEF Copies, UnderWay
  <2> QED BY <1>0, <1>1, <1>3, <2>1, <2>2, <2>3, <2>4, BeginKeepsCopies
<1> QED BY <1>2, <1>3, DispatchDoes DEF Good

\* A row is written.
LEMMA InsertKeepsCopies ==
  ASSUME Good, Copies, NEW m \in Messages, Insert(m)
  PROVE  Copies'
<1>0. /\ step \in [Messages -> {"new", "ensured", "wait", "go", "run", "insert",
                               "stored", "unstored", "over"}]
      /\ rows \in Seq(Messages) /\ Steps /\ Rows /\ Queue /\ UnderWay /\ SentOnce
  BY Shapes DEF Good, Copies
<1>1. PICK ok \in RowOutcomes :
        /\ rows' = IF ok THEN Append(rows, m) ELSE rows
        /\ step' = [step EXCEPT ![m] = IF ok THEN "stored" ELSE "unstored"]
  BY DEF Insert
<1>2. step[m] = "insert" /\ UNCHANGED <<entry, at, drains, sent, stage, snap>>
  BY DEF Insert, spawning, prompts
<1>3. CASE ~ok
  <2>1. StepsGoOn
    BY <1>0, <1>1, <1>2, <1>3 DEF StepsGoOn
  <2>2. SnapsGoOn
    BY <1>2 DEF SnapsGoOn
  <2> QED BY <1>1, <1>2, <1>3, <2>1, <2>2, CopiesStay
<1>4. CASE ok
  <2>1. ~InRows(m) /\ ~InQueue(m) /\ ~Drained(m) /\ sent[m] = 0
    BY <1>0, <1>2 DEF Steps
  <2>2. rows' = Append(rows, m) /\ step' = [step EXCEPT ![m] = "stored"]
    BY <1>1, <1>4
  <2>3. /\ Len(rows) \in Nat /\ DOMAIN rows = 1..Len(rows)
        /\ DOMAIN rows' = 1 .. Len(rows) + 1 /\ rows'[Len(rows) + 1] = m
        /\ \A j \in 1..Len(rows) : rows'[j] = rows[j]
    BY <1>0, <2>2
  <2>4. \A x : InRows(x)' <=> InRows(x) \/ x = m
    BY <2>3 DEF InRows
  <2>5. \A x : (InQueue(x)' <=> InQueue(x)) /\ (Drained(x)' <=> Drained(x))
    BY <1>2 DEF InQueue, Drained
  <2>6. Steps'
    BY <1>0, <1>2, <2>1, <2>2, <2>4, <2>5 DEF Steps
  <2>7. Rows'
    <3>1. \A j \in 1..Len(rows) : rows[j] # m
      BY <2>1, <2>3 DEF InRows
    <3>2. Once(rows)'
      BY <1>0, <2>3, <3>1 DEF Once, Rows
    <3>3. \A j \in DOMAIN rows' : sent'[rows'[j]] = 0
      BY <1>0, <1>2, <2>1, <2>3 DEF Rows
    <3> QED BY <1>0, <1>2, <2>4, <3>2, <3>3 DEF Rows, Once
  <2>8. Queue'
    BY <1>0, <1>2, <2>1, <2>4, <2>5 DEF Queue, InQueue
  <2>9. UnderWay'
    BY <1>0, <1>2, <2>1, <2>4 DEF UnderWay, Drained
  <2> QED BY <1>0, <1>2, <2>6, <2>7, <2>8, <2>9 DEF Copies, SentOnce
<1> QED BY <1>3, <1>4

\* Without an entry, rows may go.
LEMMA AbsentKeepsCopies ==
  ASSUME Good, Copies, ~Present, UNCHANGED <<entry, sent, stage, snap>>, StepsGoOn,
         \A d \in drains' : d.at # 0,
         UNCHANGED rows \/ \E x : rows' = Without(x)
  PROVE  Copies'
<1> USE Sizes
<1>0. /\ rows \in Seq(Messages) /\ MessageIsDone
      /\ Steps /\ Rows /\ Queue /\ UnderWay /\ SentOnce
      /\ entry.spawn = 0 /\ entry.queue = <<>>
  BY Shapes DEF Good, Copies, Lineage, Absent, Blank, Present
<1>1. Once(rows') /\ \A y : InRows(y)' => InRows(y)
  <2>1. CASE UNCHANGED rows
    BY <1>0, <2>1 DEF Rows, Once, InRows
  <2>2. ASSUME NEW x, rows' = Without(x) PROVE Once(rows') /\ \A y : InRows(y)' => InRows(y)
    <3>1. Once(Without(x)) /\ \A y : (\E j \in DOMAIN Without(x) : Without(x)[j] = y) => InRows(y)
      BY <1>0, WithoutIs DEF Rows
    <3> QED BY <2>2, <3>1 DEF InRows
  <2> QED BY <2>1, <2>2
<1>2. \A y : ~InQueue(y)' /\ ~Drained(y)'
  BY <1>0 DEF InQueue, Drained
<1>3. \A m \in Messages : step'[m] = "stored" => at'[m] # 0
  BY <1>0 DEF MessageIsDone, StepsGoOn
<1>4. Steps'
  BY <1>0, <1>1, <1>2, <1>3 DEF Steps, StepsGoOn
<1>5. Rows'
  <2>1. ASSUME NEW j \in DOMAIN rows' PROVE sent'[rows'[j]] = 0
    <3>1. InRows(rows'[j])
      BY <1>1 DEF InRows
    <3> QED BY <1>0, <3>1 DEF InRows, Rows
  <2> QED BY <1>0, <1>1, <2>1 DEF Rows, Once
<1>6. Queue' /\ UnderWay' /\ SentOnce'
  BY <1>0 DEF Queue, OnceInQueue, UnderWay, SentOnce
<1> QED BY <1>4, <1>5, <1>6 DEF Copies

\* The row of a prompt that was taken is deleted.
LEMMA DeleteRowKeepsCopies ==
  ASSUME Good, Copies, NEW d \in drains, DeleteRow(d), ~stale'
  PROVE  Copies'
<1> USE Sizes
<1> DEFINE e == [d EXCEPT !.deleted = TRUE]
<1>0. /\ rows \in Seq(Messages) /\ drains \subseteq Drains /\ MessageIsDone /\ WorkIsDone
      /\ Steps /\ Rows /\ Queue /\ UnderWay /\ SentOnce
  BY Shapes DEF Good, Copies, Lineage
<1>1. ~d.deleted /\ drains' = (drains \ {d}) \cup {e}
      /\ rows' = (IF d.row THEN Without(d.msg) ELSE rows)
      /\ UNCHANGED <<entry, step, at, sent, stage, snap>>
  BY DEF DeleteRow, spawning
<1>2. e \in Drains /\ e.msg = d.msg /\ e.at = d.at /\ e.deleted
  BY <1>0, DeletedIs
<1> HIDE DEF e
<1>3. StepsGoOn
  BY <1>1 DEF StepsGoOn
<1>4. CASE ~Present
  <2>1. \A x \in drains' : x.at # 0
    BY <1>0, <1>1, <1>2 DEF Drains
  <2> QED BY <1>1, <1>3, <1>4, <2>1, AbsentKeepsCopies
<1>5. CASE Present
  <2>1. d.at = entry.spawn
    BY <1>5, Zenon DEF DeleteRow, Mark
  <2>2. Drained(d.msg) /\ (d.row <=> InRows(d.msg))
    BY <1>0, <1>1, <2>1 DEF Drained, UnderWay
  <2>3. Once(rows') /\ \A y : InRows(y)' <=> InRows(y) /\ y # d.msg
    <3>1. CASE d.row
      <4>1. /\ Once(Without(d.msg))
            /\ \A y : (\E j \in DOMAIN Without(d.msg) : Without(d.msg)[j] = y)
                        <=> InRows(y) /\ y # d.msg
        BY <1>0, WithoutIs DEF Rows
      <4> QED BY <1>1, <3>1, <4>1 DEF InRows
    <3>2. CASE ~d.row
      BY <1>0, <1>1, <2>2, <3>2 DEF Rows, Once, InRows
    <3> QED BY <3>1, <3>2
  <2>4. \A y : (InQueue(y)' <=> InQueue(y)) /\ (Drained(y)' <=> Drained(y))
    BY <1>1, <1>2 DEF InQueue, Drained
  <2>5. Steps'
    BY <1>0, <1>1, <2>2, <2>3, <2>4 DEF Steps
  <2>6. Rows'
    <3>1. ASSUME NEW j \in DOMAIN rows' PROVE sent'[rows'[j]] = 0
      <4>1. InRows(rows'[j])
        BY <2>3 DEF InRows
      <4> QED BY <1>0, <1>1, <4>1 DEF InRows, Rows
    <3>2. stage[entry.spawn] = "done"
      BY <1>0, <2>1 DEF WorkIsDone
    <3> QED BY <1>1, <2>3, <3>1, <3>2 DEF Rows, Once
  <2>7. Queue'
    BY <1>0, <1>1, <2>2, <2>3, <2>4 DEF Queue, OnceInQueue
  <2>8. UnderWay'
    <3>1. \A x \in drains' : x = e \/ (x \in drains /\ x # d)
      BY <1>1
    <3>2. \A x \in drains : x.at = entry.spawn /\ x.msg = d.msg => x = d
      BY <1>0, <2>1 DEF UnderWay
    <3>3. ASSUME NEW x \in drains', x.at = entry'.spawn
          PROVE  /\ sent'[x.msg] = 0
                 /\ IF x.deleted THEN ~InRows(x.msg)' ELSE x.row <=> InRows(x.msg)'
      <4>1. CASE x = e
        BY <1>0, <1>1, <1>2, <2>1, <2>3, <4>1 DEF UnderWay
      <4>2. CASE x \in drains /\ x # d
        <5>1. x.at = entry.spawn /\ x.msg # d.msg
          BY <1>1, <3>2, <3>3, <4>2
        <5> QED BY <1>0, <1>1, <2>3, <4>2, <5>1 DEF UnderWay
      <4> QED BY <3>1, <4>1, <4>2
    <3>4. ASSUME NEW x \in drains', NEW y \in drains', x.at = entry'.spawn,
                 y.at = entry'.spawn, x.msg = y.msg
          PROVE  x = y
      BY <1>0, <1>1, <1>2, <3>1, <3>2, <3>4 DEF UnderWay
    <3> QED BY <3>3, <3>4 DEF UnderWay
  <2> QED BY <1>0, <1>1, <2>5, <2>6, <2>7, <2>8 DEF Copies, SentOnce
<1> QED BY <1>4, <1>5

\* Its handling goes on so after the step.
StillComing(m) ==
  \/ step'[m] \notin {"stored", "over"}
  \/ step'[m] = "stored" /\ at'[m] = entry'.spawn

\* A queue that agrees with the rows, of which nothing is elsewhere.
Fits(q) ==
  /\ q \in Seq(Items) /\ OnceInQueue(q)
  /\ \A i \in DOMAIN q :
       /\ sent[q[i].msg] = 0
       /\ q[i].row <=> InRows(q[i].msg)
       /\ ~Drained(q[i].msg)
       /\ ~StillComing(q[i].msg)

\* Such a queue takes the place of the one before.
LEMMA QueueKeepsCopies ==
  ASSUME Good, Copies, NEW q, Fits(q), UNCHANGED <<rows, drains, sent>>,
         StepsGoOn, SnapsGoOn, entry'.spawn = entry.spawn, entry'.queue = q
  PROVE  Copies'
<1>0. Steps /\ Rows /\ UnderWay /\ SentOnce
  BY DEF Copies
<1>1. \A y : (InRows(y)' <=> InRows(y)) /\ (Drained(y)' <=> Drained(y))
  BY DEF InRows, Drained
<1>2. \A y : StillComing(y) => ~InQueue(y)'
  BY DEF InQueue, Fits
<1>3. Steps'
  BY <1>0, <1>1, <1>2 DEF Steps, StepsGoOn, StillComing
<1>4. Rows'
  <2>1. ASSUME NEW n \in Spawns, stage'[n] = "listed", entry'.spawn = n
        PROVE  Once(snap'[n]) /\ \A k \in DOMAIN snap'[n] : InRows(snap'[n][k])
    <3>1. CASE snap'[n] = rows
      BY <1>0, <3>1 DEF Rows, Once, InRows
    <3>2. CASE stage[n] = "listed" /\ snap'[n] = snap[n]
      BY <1>0, <2>1, <3>2 DEF Rows, Once
    <3> QED BY <2>1, <3>1, <3>2 DEF SnapsGoOn
  <2>2. \A y : InRows(y) => InRows(y)'
    BY <1>1
  <2> QED BY <1>0, <2>1, <2>2 DEF Rows, Once, InRows
<1>5. Queue'
  BY <1>1 DEF Queue, OnceInQueue, Fits
<1>6. UnderWay' /\ SentOnce'
  BY <1>0, <1>1 DEF UnderWay, SentOnce
<1> QED BY <1>3, <1>4, <1>5, <1>6 DEF Copies

\* Its first prompt is taken.
LEMMA TakeKeepsCopies ==
  ASSUME Good, Copies, Present, NEW q, Fits(q), q # <<>>, NEW by \in 0..MaxMessages,
         drains' = drains \cup {Taken(Head(q), by)},
         UNCHANGED <<rows, sent, stage, snap>>,
         StepsGoOn, entry'.spawn = entry.spawn, entry'.queue = Tail(q)
  PROVE  Copies'
<1> DEFINE h == Head(q)
           d == Taken(h, by)
<1>0. /\ Steps /\ Rows /\ UnderWay /\ SentOnce
      /\ q \in Seq(Items) /\ OnceInQueue(q)
  BY DEF Copies, Fits
<1>1. /\ h = q[1] /\ 1 \in DOMAIN q
      /\ \A i \in DOMAIN Tail(q) : i + 1 \in DOMAIN q /\ i + 1 # 1 /\ Tail(q)[i] = q[i + 1]
      /\ \A i, j \in DOMAIN Tail(q) : i + 1 = j + 1 => i = j
  BY <1>0
<1>2. /\ sent[h.msg] = 0 /\ (h.row <=> InRows(h.msg)) /\ ~Drained(h.msg) /\ ~StillComing(h.msg)
  BY <1>1 DEF Fits
<1>3. d.msg = h.msg /\ d.row = h.row /\ d.at = entry.spawn /\ d.deleted = FALSE
  BY DEF Taken
<1>4. ASSUME NEW i \in DOMAIN Tail(q)
      PROVE  Tail(q)[i].msg # h.msg /\ sent[Tail(q)[i].msg] = 0
             /\ (Tail(q)[i].row <=> InRows(Tail(q)[i].msg))
             /\ ~Drained(Tail(q)[i].msg) /\ ~StillComing(Tail(q)[i].msg)
  BY <1>0, <1>1 DEF Fits, OnceInQueue
<1>5. OnceInQueue(Tail(q))
  BY <1>0, <1>1 DEF OnceInQueue
<1> HIDE DEF d, h
<1>6. drains' = drains \cup {d}
  BY DEF d, h
<1>7. \A y : (InRows(y)' <=> InRows(y)) /\ (Drained(y)' <=> Drained(y) \/ y = h.msg)
  BY <1>3, <1>6 DEF InRows, Drained
<1>8. \A y : StillComing(y) => ~InQueue(y)'
  BY <1>4 DEF InQueue
<1>9. Steps'
  BY <1>0, <1>2, <1>7, <1>8 DEF Steps, StepsGoOn, StillComing
<1>10. Rows'
  BY <1>0, <1>7 DEF Rows, Once
<1>11. Queue'
  BY <1>4, <1>5, <1>7 DEF Queue, OnceInQueue
<1>12. UnderWay'
  <2>1. \A x \in drains : x.at = entry.spawn => x.msg # d.msg
    BY <1>2, <1>3 DEF Drained
  <2> QED BY <1>0, <1>2, <1>3, <1>6, <1>7, <2>1 DEF UnderWay
<1>13. SentOnce'
  BY <1>0 DEF SentOnce
<1> QED BY <1>9, <1>10, <1>11, <1>12, <1>13 DEF Copies

\* The prompt of message m enters the queue, or leaves it at once.
LEMMA PushKeepsCopies ==
  ASSUME Good, Copies, NEW m \in Messages, Push(m), ~stale'
  PROVE  Copies'
<1> USE Sizes
<1> DEFINE q == Append(entry.queue, Item(m))
<1>0. /\ step \in [Messages -> {"new", "ensured", "wait", "go", "run", "insert",
                               "stored", "unstored", "over"}]
      /\ at \in [Messages -> Tasks] /\ entry.queue \in Seq(Items) /\ drains \subseteq Drains
      /\ Steps /\ Queue
  BY Shapes DEF Good, Copies
<1>1. /\ step[m] \in {"stored", "unstored"} /\ step' = [step EXCEPT ![m] = "over"]
      /\ at' = [at EXCEPT ![m] = 0] /\ UNCHANGED <<sent, stage, snap>>
  BY DEF Push, StepTo, spawning
<1>2. StepsGoOn /\ SnapsGoOn /\ step'[m] = "over"
      /\ \A k \in Messages : k # m => step'[k] = step[k] /\ at'[k] = at[k]
  BY <1>0, <1>1 DEF StepsGoOn, SnapsGoOn
<1>3. CASE ~Present /\ rows' = Without(m) /\ UNCHANGED <<entry, drains>>
  <2>1. \A d \in drains' : d.at # 0
    BY <1>0, <1>3 DEF Drains
  <2> QED BY <1>1, <1>2, <1>3, <2>1, AbsentKeepsCopies
<1>4. ASSUME Present, entry.spawn = at[m], SameEntry PROVE Fits(q)
  <2>1. ~InQueue(m) /\ ~Drained(m) /\ sent[m] = 0 /\ (step[m] = "stored" <=> InRows(m))
    BY <1>0, <1>1, <1>4 DEF Steps
  <2>2. Item(m) \in Items /\ Item(m).msg = m /\ (Item(m).row <=> step[m] = "stored")
    BY DEF Item, Items
  <2>3. /\ q \in Seq(Items) /\ DOMAIN entry.queue = 1..Len(entry.queue)
        /\ Len(entry.queue) \in Nat
        /\ DOMAIN q = 1 .. Len(entry.queue) + 1 /\ q[Len(entry.queue) + 1] = Item(m)
        /\ \A i \in 1..Len(entry.queue) : q[i] = entry.queue[i]
    BY <1>0, <2>2
  <2> HIDE DEF q
  <2>4. \A i \in DOMAIN q : q[i] = Item(m) \/ i \in DOMAIN entry.queue
    BY <2>3
  <2>5. \A i \in DOMAIN entry.queue : entry.queue[i].msg \in Messages /\ entry.queue[i].msg # m
    <3>1. \A i \in DOMAIN entry.queue : entry.queue[i] \in Items
      BY <1>0
    <3> QED BY <2>1, <3>1 DEF InQueue, Items
  <2>6. OnceInQueue(q)
    <3>1. OnceInQueue(entry.queue)
      BY <1>0 DEF Queue
    <3> SUFFICES ASSUME NEW i \in DOMAIN q, NEW j \in DOMAIN q, q[i].msg = q[j].msg
                 PROVE  i = j
      BY DEF OnceInQueue
    <3>2. CASE i \in DOMAIN entry.queue /\ j \in DOMAIN entry.queue
      BY <2>3, <3>1, <3>2 DEF OnceInQueue
    <3>3. CASE i \in DOMAIN entry.queue /\ j \notin DOMAIN entry.queue
      <4>1. j = Len(entry.queue) + 1
        BY <2>3, <3>3
      <4>2. q[j].msg = m /\ q[i].msg # m
        BY <2>2, <2>3, <2>5, <3>3, <4>1
      <4> QED BY <4>2
    <3>4. CASE i \notin DOMAIN entry.queue /\ j \in DOMAIN entry.queue
      <4>1. i = Len(entry.queue) + 1
        BY <2>3, <3>4
      <4>2. q[i].msg = m /\ q[j].msg # m
        BY <2>2, <2>3, <2>5, <3>4, <4>1
      <4> QED BY <4>2
    <3>5. CASE i \notin DOMAIN entry.queue /\ j \notin DOMAIN entry.queue
      BY <2>3, <3>5
    <3> QED BY <3>2, <3>3, <3>4, <3>5
  <2>7. ASSUME NEW i \in DOMAIN entry.queue
        PROVE  /\ sent[q[i].msg] = 0 /\ (q[i].row <=> InRows(q[i].msg))
               /\ ~Drained(q[i].msg) /\ ~StillComing(q[i].msg)
    <3> DEFINE x == entry.queue[i].msg
    <3>1. x \in Messages /\ x # m /\ q[i] = entry.queue[i] /\ InQueue(x)
      BY <2>3, <2>5 DEF InQueue
    <3>2. ~StillComing(x)
      BY <1>0, <1>2, <1>4, <3>1 DEF StillComing, Steps, SameEntry
    <3> QED BY <1>0, <3>1, <3>2 DEF Queue
  <2>8. ~StillComing(m)
    BY <1>2 DEF StillComing
  <2> QED BY <2>1, <2>2, <2>3, <2>4, <2>6, <2>7, <2>8 DEF Fits
<1>5. CASE Present /\ entry.spawn = at[m] /\ UNCHANGED rows /\ SameEntry
           /\ entry'.queue = q /\ UNCHANGED drains
  <2>1. Fits(q)
    BY <1>4, <1>5
  <2> HIDE DEF q
  <2> QED BY <1>1, <1>2, <1>5, <2>1, QueueKeepsCopies DEF SameEntry
<1>6. CASE Present /\ entry.spawn = at[m] /\ UNCHANGED rows /\ SameEntry
           /\ entry'.queue = Tail(q) /\ drains' = drains \cup {Taken(Head(q), m)}
  <2>1. Fits(q)
    BY <1>4, <1>6
  <2>2. q # <<>> /\ m \in 0..MaxMessages
    BY <1>0
  <2> HIDE DEF q
  <2> QED BY <1>1, <1>2, <1>6, <2>1, <2>2, TakeKeepsCopies DEF SameEntry
<1> QED BY <1>3, <1>5, <1>6, PushDoes DEF Good

\* The end of a turn takes the first of the queue.
LEMMA FinishTurnKeepsCopies ==
  ASSUME Good, Copies, NEW t \in turns, FinishTurn(t), ~stale'
  PROVE  Copies'
<1> USE Sizes
<1>0. /\ entry.queue \in Seq(Items) /\ Steps /\ Queue
  BY Shapes DEF Good, Copies
<1>1. UNCHANGED <<rows, step, at, sent, stage, snap>>
  BY DEF FinishTurn, spawning
<1>2. StepsGoOn /\ SnapsGoOn
  BY <1>1 DEF StepsGoOn, SnapsGoOn
<1>3. CASE UNCHANGED drains /\ entry'.spawn = entry.spawn /\ entry'.queue = entry.queue
  BY <1>1, <1>2, <1>3, CopiesStay
<1>4. CASE /\ Present /\ SameEntry /\ entry.queue # <<>> /\ entry'.queue = Tail(entry.queue)
           /\ drains' = drains \cup {Taken(Head(entry.queue), 0)}
  <2>1. \A i \in DOMAIN entry.queue : entry.queue[i].msg \in Messages
    <3>1. \A i \in DOMAIN entry.queue : entry.queue[i] \in Items
      BY <1>0
    <3> QED BY <3>1 DEF Items
  <2>2. \A i \in DOMAIN entry.queue : ~StillComing(entry.queue[i].msg)
    BY <1>0, <1>1, <1>4, <2>1 DEF StillComing, Steps, InQueue, SameEntry
  <2>3. Fits(entry.queue)
    BY <1>0, <2>2 DEF Fits, Queue
  <2> QED BY <1>1, <1>2, <1>4, <2>3, TakeKeepsCopies DEF SameEntry
<1> QED BY <1>3, <1>4, FinishTurnDoes DEF Good, SameEntry

\* The stored queue comes back to an attempt that has no work yet.
LEMMA RestoreKeepsCopies ==
  ASSUME Good, Copies, NEW n \in Spawns, Restore(n), ~stale'
  PROVE  Copies'
<1> USE Sizes
<1>0. /\ entry \in Entries /\ entry.queue \in Seq(Items) /\ snap \in [Spawns -> Seq(Messages)]
      /\ stage \in [Spawns -> {"none", "placed", "listed", "restored", "asked",
                              "shaking", "shaken", "inject", "done", "failed"}]
      /\ MessageIsDone /\ WorkIsDone /\ Steps /\ Rows /\ Queue
  BY Shapes DEF Good, Copies, Lineage
<1>1. /\ stage[n] = "listed" /\ stage' = [stage EXCEPT ![n] = "restored"]
      /\ snap' = [snap EXCEPT ![n] = <<>>] /\ UNCHANGED <<rows, step, at, drains, sent>>
  BY DEF Restore, prompts
<1>2. StepsGoOn /\ SnapsGoOn
  BY <1>0, <1>1 DEF StepsGoOn, SnapsGoOn
<1>3. CASE UNCHANGED entry
  BY <1>1, <1>2, <1>3, CopiesStay
<1>4. CASE ~UNCHANGED entry
  <2> DEFINE stored == [i \in DOMAIN snap[n] |-> [msg |-> snap[n][i], row |-> TRUE]]
             q == stored \o Kept
  <2>1. Present /\ Mark(n) /\ entry' = [entry EXCEPT !.queue = q]
    BY <1>4 DEF Restore, Kept
  <2>2. entry.spawn = n
    BY <2>1, Zenon DEF Mark
  <2>3. Once(snap[n]) /\ \A k \in DOMAIN snap[n] : InRows(snap[n][k])
    BY <1>0, <1>1, <2>2 DEF Rows
  <2>4. /\ stored \in Seq(Items) /\ DOMAIN stored = DOMAIN snap[n]
        /\ \A i \in DOMAIN stored : stored[i].msg = snap[n][i] /\ stored[i].row
    <3>1. snap[n] \in Seq(Messages)
      BY <1>0
    <3>2. \A i \in DOMAIN snap[n] : [msg |-> snap[n][i], row |-> TRUE] \in Items
      BY <3>1 DEF Items
    <3>3. \A i \in DOMAIN snap[n] : stored[i] = [msg |-> snap[n][i], row |-> TRUE]
      OBVIOUS
    <3>4. DOMAIN stored = 1..Len(snap[n]) /\ Len(snap[n]) \in Nat /\ DOMAIN snap[n] = DOMAIN stored
      BY <3>1
    <3> HIDE DEF stored
    <3>5. stored \in [1..Len(snap[n]) -> Items]
      <4>1. \A i \in 1..Len(snap[n]) : stored[i] \in Items
        BY <3>2, <3>3, <3>4
      <4>2. stored = [i \in DOMAIN stored |-> stored[i]]
        BY DEF stored
      <4> QED BY <3>4, <4>1, <4>2
    <3>6. stored \in Seq(Items)
      BY <3>4, <3>5
    <3>7. \A i \in DOMAIN stored : stored[i].msg = snap[n][i] /\ stored[i].row
      <4> SUFFICES ASSUME NEW i \in DOMAIN stored
                   PROVE  stored[i].msg = snap[n][i] /\ stored[i].row
        OBVIOUS
      <4>1. stored[i] = [msg |-> snap[n][i], row |-> TRUE]
        BY <3>3, <3>4
      <4> QED BY <4>1
    <3> QED BY <3>4, <3>6, <3>7
  <2>5. /\ Kept \in Seq(Items) /\ OnceInQueue(Kept)
        /\ \A a \in DOMAIN Kept :
             ~Kept[a].row /\ \E i \in DOMAIN entry.queue : Kept[a] = entry.queue[i]
    BY <1>0, KeptIs DEF Queue
  <2> HIDE DEF stored
  <2>6. /\ q \in Seq(Items)
        /\ \A i \in DOMAIN q :
             \/ i \in DOMAIN stored /\ q[i] = stored[i]
             \/ i - Len(stored) \in DOMAIN Kept /\ q[i] = Kept[i - Len(stored)]
    BY <2>4, <2>5
  <2>7. \A i \in DOMAIN stored :
          stored[i].msg \in Messages /\ InRows(stored[i].msg) /\ sent[stored[i].msg] = 0
    <3>1. \A i \in DOMAIN stored : stored[i] \in Items
      BY <2>4
    <3> QED BY <1>0, <2>3, <2>4, <3>1 DEF Items, Rows, InRows
  <2>8. \A i \in DOMAIN Kept :
          Kept[i].msg \in Messages /\ InQueue(Kept[i].msg) /\ ~InRows(Kept[i].msg)
          /\ sent[Kept[i].msg] = 0
    <3>1. \A i \in DOMAIN Kept : Kept[i] \in Items
      BY <2>5
    <3> QED BY <1>0, <2>5, <3>1 DEF Items, Queue, InQueue
  <2>9. OnceInQueue(stored)
    BY <2>3, <2>4 DEF OnceInQueue, Once
  <2>10. DOMAIN q \subseteq Int /\ Len(stored) \in Nat
    BY <2>4, <2>6
  <2> HIDE DEF q
  <2>11. OnceInQueue(q)
    <3> SUFFICES ASSUME NEW i \in DOMAIN q, NEW j \in DOMAIN q, q[i].msg = q[j].msg
                 PROVE  i = j
      BY DEF OnceInQueue
    <3>1. CASE i \in DOMAIN stored /\ q[i] = stored[i] /\ j \in DOMAIN stored /\ q[j] = stored[j]
      BY <2>9, <3>1 DEF OnceInQueue
    <3>2. CASE /\ i - Len(stored) \in DOMAIN Kept /\ q[i] = Kept[i - Len(stored)]
               /\ j - Len(stored) \in DOMAIN Kept /\ q[j] = Kept[j - Len(stored)]
      <4>1. i - Len(stored) = j - Len(stored)
        BY <2>5, <3>2 DEF OnceInQueue
      <4> QED BY <2>10, <4>1
    <3> QED BY <2>6, <2>7, <2>8, <3>1, <3>2
  <2>12. \A m \in Messages : ~Drained(m) /\ (StillComing(m) => step[m] \notin {"stored", "over"})
    <3>1. \A d \in drains : d.at # n
      BY <1>0, <1>1 DEF WorkIsDone
    <3>2. \A m \in Messages : step[m] = "stored" => at[m] # n
      BY <1>0, <1>1 DEF MessageIsDone
    <3>3. entry'.spawn = n
      BY <1>0, <2>1, <2>2 DEF Entries
    <3> QED BY <1>1, <2>2, <3>1, <3>2, <3>3 DEF Drained, StillComing
  <2>13. Fits(q)
    <3> SUFFICES ASSUME NEW i \in DOMAIN q
                 PROVE  /\ sent[q[i].msg] = 0 /\ (q[i].row <=> InRows(q[i].msg))
                        /\ ~Drained(q[i].msg) /\ ~StillComing(q[i].msg)
      BY <2>6, <2>11 DEF Fits
    <3>1. CASE i \in DOMAIN stored /\ q[i] = stored[i]
      BY <1>0, <2>4, <2>7, <2>12, <3>1 DEF Steps
    <3>2. CASE i - Len(stored) \in DOMAIN Kept /\ q[i] = Kept[i - Len(stored)]
      BY <1>0, <2>5, <2>8, <2>12, <3>2 DEF Steps
    <3> QED BY <2>6, <3>1, <3>2
  <2>14. entry'.spawn = entry.spawn /\ entry'.queue = q
    BY <1>0, <2>1 DEF Entries
  <2> QED BY <1>1, <1>2, <2>13, <2>14, QueueKeepsCopies
<1> QED BY <1>3, <1>4

LEMMA StepKeepsCopies ==
  ASSUME Good, Copies, [Next]_vars, ~stale'
  PROVE  Copies'
<1> USE Sizes
<1> DEFINE SameQueue == entry'.spawn = entry.spawn /\ entry'.queue = entry.queue
           Gone == entry'.spawn = 0 /\ entry'.queue = <<>>
<1>0. /\ entry \in Entries
      /\ stage \in [Spawns -> {"none", "placed", "listed", "restored", "asked",
                              "shaking", "shaken", "inject", "done", "failed"}]
      /\ step \in [Messages -> {"new", "ensured", "wait", "go", "run", "insert",
                               "stored", "unstored", "over"}]
      /\ at \in [Messages -> Tasks] /\ snap \in [Spawns -> Seq(Messages)]
  BY Shapes DEF Good
<1>1. ASSUME UNCHANGED <<rows, step, at, drains, sent, stage, snap>>, SameQueue \/ Gone
      PROVE  Copies'
  <2>1. StepsGoOn /\ SnapsGoOn
    BY <1>1 DEF StepsGoOn, SnapsGoOn
  <2> QED BY <1>1, <2>1, CopiesStay
<1>2. ASSUME NEW n \in Spawns, NEW x, stage' = [stage EXCEPT ![n] = x], x # "listed",
             UNCHANGED <<rows, step, at, drains, sent, snap>>, SameQueue \/ Gone
      PROVE  Copies'
  <2>1. StepsGoOn
    BY <1>2 DEF StepsGoOn
  <2>2. SnapsGoOn
    BY <1>0, <1>2 DEF SnapsGoOn
  <2> QED BY <1>2, <2>1, <2>2, CopiesStay
<1>3. ASSUME NEW m \in Messages, Ensure(m) PROVE Copies'
  <2>1. /\ step[m] = "new" /\ step' = [step EXCEPT ![m] = "ensured"]
        /\ UNCHANGED <<rows, drains, sent, snap>>
    BY <1>3 DEF Ensure, prompts
  <2>2. StepsGoOn
    BY <1>0, <1>3, <2>1 DEF StepsGoOn, Ensure
  <2>3. CASE UNCHANGED <<entry, at, stage>>
    <3>1. SnapsGoOn
      BY <2>1, <2>3 DEF SnapsGoOn
    <3> QED BY <2>1, <2>2, <2>3, <3>1, CopiesStay
  <2>4. ASSUME NEW n \in Spawns, stage[n] = "none", stage' = [stage EXCEPT ![n] = "placed"],
               entry' = Blank(n, entry.queue)
        PROVE  Copies'
    <3>1. SnapsGoOn
      BY <1>0, <2>1, <2>4 DEF SnapsGoOn
    <3>2. entry'.spawn = n /\ entry'.queue = entry.queue
      BY <2>4 DEF Blank
    <3> QED BY <2>1, <2>2, <2>4, <3>1, <3>2, CopiesStay
  <2> QED BY <1>3, <2>3, <2>4 DEF Ensure
<1>4. ASSUME NEW m \in Messages, Subscribe(m) \/ WaitReady(m) \/ Submit(m) PROVE Copies'
  <2>1. UNCHANGED <<rows, drains, sent, entry, stage, snap>>
    BY <1>4 DEF Subscribe, WaitReady, Submit, prompts, spawning
  <2>2. \/ step[m] \in {"ensured", "wait", "go"}
    BY <1>4 DEF Subscribe, WaitReady, Submit
  <2>3. /\ \A k \in Messages : k # m => step'[k] = step[k] /\ at'[k] = at[k]
        /\ step'[m] # "stored"
    BY <1>0, <1>4 DEF Subscribe, WaitReady, Submit, StepTo
  <2>4. StepsGoOn /\ SnapsGoOn
    BY <2>1, <2>2, <2>3 DEF StepsGoOn, SnapsGoOn
  <2> QED BY <2>1, <2>4, CopiesStay
<1>5. ASSUME NEW n \in Spawns, ListRows(n) PROVE Copies'
  <2>1. /\ snap' = [snap EXCEPT ![n] = rows] /\ stage' = [stage EXCEPT ![n] = "listed"]
        /\ UNCHANGED <<entry, rows, step, at, drains, sent>>
    BY <1>5 DEF ListRows, prompts
  <2>2. StepsGoOn
    BY <2>1 DEF StepsGoOn
  <2>3. SnapsGoOn
    BY <1>0, <2>1 DEF SnapsGoOn
  <2> QED BY <2>1, <2>2, <2>3, CopiesStay
<1>6. ASSUME NEW n \in Spawns, AskSpawn(n) \/ Shake(n) PROVE Copies'
  <2>1. UNCHANGED <<entry, rows, step, at, drains, sent, snap>>
    BY <1>6 DEF AskSpawn, Shake, prompts
  <2>2. \/ stage' = [stage EXCEPT ![n] = "asked"]
        \/ stage' = [stage EXCEPT ![n] = "shaken"]
    BY <1>6 DEF AskSpawn, Shake
  <2>3. SameQueue
    BY <2>1
  <2> HIDE DEF SameQueue
  <2> QED BY <1>2, <2>1, <2>2, <2>3
<1>7. ASSUME NEW n \in Spawns, Connect(n) \/ WriteConnection(n) \/ MakeReady(n) \/ FailSpawn(n)
      PROVE  Copies'
  <2>1. UNCHANGED <<rows, step, at, drains, sent, snap>>
    BY <1>7 DEF Connect, WriteConnection, MakeReady, FailSpawn, prompts
  <2>2. \/ stage' = [stage EXCEPT ![n] = "shaking"]
        \/ stage' = [stage EXCEPT ![n] = "failed"]
        \/ stage' = [stage EXCEPT ![n] = "inject"]
        \/ stage' = [stage EXCEPT ![n] = "done"]
    BY <1>7 DEF Connect, WriteConnection, MakeReady, FailSpawn
  <2>3. SameQueue \/ Gone
    BY <1>0, <1>7 DEF Connect, WriteConnection, MakeReady, FailSpawn, RemoveEntry, Blank, Entries
  <2> HIDE DEF SameQueue, Gone
  <2> QED BY <1>2, <2>1, <2>2, <2>3
<1>8. ASSUME NEW n \in Spawns, StartProcess(n) \/ Die(n) PROVE Copies'
  BY <1>1, <1>8 DEF StartProcess, Die, prompts, spawning
<1>9. ASSUME NEW n \in Spawns, HandleExit(n) PROVE Copies'
  <2>1. SameQueue
    BY <1>0, <1>9 DEF HandleExit, Entries
  <2> QED BY <1>1, <1>9, <2>1 DEF HandleExit, prompts, spawning
<1>10. ASSUME NEW t \in turns, EndTurn(t) PROVE Copies'
  BY <1>1, <1>10 DEF EndTurn, spawning
<1>11. ASSUME Cancel PROVE Copies'
  <2>1. SameQueue
    BY <1>0, <1>11 DEF Cancel, Entries
  <2> QED BY <1>1, <1>11, <2>1 DEF Cancel, spawning
<1>12. ASSUME NEW f \in fallbacks, Arm(f) \/ GraceOver(f) \/ KillCancelled(f) PROVE Copies'
  <2>1. SameQueue
    BY <1>0, <1>12 DEF Arm, GraceOver, KillCancelled, Entries
  <2> QED BY <1>1, <1>12, <2>1 DEF Arm, GraceOver, KillCancelled, spawning
<1>13. ASSUME KillProcess \/ Disconnect \/ ReapProcess PROVE Copies'
  BY <1>1, <1>13 DEF KillProcess, Disconnect, ReapProcess, prompts, spawning
<1>14. ASSUME DropEntry \/ Reap PROVE Copies'
  <2>1. Gone
    BY <1>14 DEF DropEntry, Reap, RemoveEntry, Blank
  <2> QED BY <1>1, <1>14, <2>1 DEF DropEntry, Reap, prompts, spawning
<1>15. ASSUME Crash PROVE Copies'
  <2>1. Gone /\ drains' = {} /\ UNCHANGED <<rows, sent>>
    BY <1>15 DEF Crash, RemoveEntry, Blank
  <2>2. StepsGoOn
    BY <1>0, <1>15 DEF Crash, StepsGoOn
  <2>3. SnapsGoOn
    BY <1>0, <1>15 DEF Crash, SnapsGoOn
  <2> QED BY <2>1, <2>2, <2>3, CopiesStay
<1>16. CASE UNCHANGED vars
  BY <1>1, <1>16 DEF vars
<1>17. ASSUME NEW m \in Messages, Run(m) \/ Insert(m) \/ Push(m) PROVE Copies'
  BY <1>17, RunKeepsCopies, InsertKeepsCopies, PushKeepsCopies
<1>18. ASSUME NEW n \in Spawns, Restore(n) PROVE Copies'
  BY <1>18, RestoreKeepsCopies
<1>19. ASSUME NEW d \in drains, DeleteRow(d) \/ Dispatch(d) PROVE Copies'
  BY <1>19, DeleteRowKeepsCopies, DispatchKeepsCopies
<1>20. ASSUME NEW t \in turns, FinishTurn(t) PROVE Copies'
  BY <1>20, FinishTurnKeepsCopies
<1> QED
  BY <1>3, <1>4, <1>5, <1>6, <1>7, <1>8, <1>9, <1>10, <1>11, <1>12, <1>13, <1>14, <1>15,
     <1>16, <1>17, <1>18, <1>19, <1>20 DEF Next

-----------------------------------------------------------------------------
(* The theorems.                                                           *)

LEMMA InitIsGood == Init => IInv
<1> SUFFICES ASSUME Init PROVE IInv
  OBVIOUS
<1> USE Sizes
<1>1. TypeOK
  BY InitIsTyped
<1>2. /\ entry = Blank(0, <<>>) /\ entry.spawn = 0 /\ ~entry.ready /\ ~entry.busy
      /\ entry.gen = 0 /\ entry.queue = <<>>
  BY DEF Init, Blank
<1>3. Absent /\ ~Alive
  BY <1>2 DEF Absent, Alive, Present
<1>4. Processes
  BY DEF Init, Processes
<1>5. Lineage
  BY <1>2 DEF Init, Lineage, EntryIsDone, OwnConn, MessageIsDone, WorkIsDone
<1>6. Lock
  BY <1>2 DEF Init, Lock, OneHolder
<1>7. Moves
  BY <1>3 DEF Moves
<1>8. rows = <<>> /\ drains = {} /\ \A m \in Messages : step[m] = "new" /\ sent[m] = 0
  BY DEF Init
<1>9. \A m : ~InRows(m) /\ ~InQueue(m) /\ ~Drained(m)
  BY <1>2, <1>8 DEF InRows, InQueue, Drained
<1>10. Copies
  <2>1. \A n \in Spawns : stage[n] = "none"
    BY DEF Init
  <2> QED BY <1>2, <1>8, <1>9, <2>1
          DEF Copies, Steps, Rows, Queue, UnderWay, SentOnce, Once, OnceInQueue
<1> QED BY <1>1, <1>3, <1>4, <1>5, <1>6, <1>7, <1>10 DEF IInv

LEMMA StepKeepsIInv == IInv /\ [Next]_vars => IInv'
<1> SUFFICES ASSUME IInv, [Next]_vars PROVE IInv'
  OBVIOUS
<1>1. TypeOK /\ Absent /\ Processes
  BY DEF IInv
<1>2. TypeOK' /\ Absent' /\ Processes'
  BY <1>1, StepIsTyped, StepKeepsAbsent, StepKeepsProcesses
<1>3. ASSUME ~stale' PROVE (Lineage /\ Lock /\ Moves /\ Copies)'
  <2>1. ~stale
    BY <1>1, <1>3, StaleStays
  <2>2. Good /\ Lock /\ Moves /\ Copies
    BY <1>1, <2>1 DEF IInv, Good
  <2>3. Good'
    BY <1>3, <2>2, StepKeepsGood
  <2> QED BY <1>3, <2>2, <2>3, StepKeepsLock, StepKeepsMoves, StepKeepsCopies DEF Good
<1> QED BY <1>2, <1>3, Zenon DEF IInv

LEMMA AlwaysIInv == Spec => []IInv
BY InitIsGood, StepKeepsIInv, PTL DEF Spec

\* A second request never goes to a connection that has not answered the
\* first, unless the end of its process is decided: busy is given up and set
\* again in the critical section that takes a prompt from the queue, and no
\* other step that begins a turn finds it clear (prompt_inner, submit_prompt,
\* the callback of a turn, and the fallback of a cancelled one).
THEOREM OneTurn == Spec => []OneTurnAtATime
<1>1. IInv => OneTurnAtATime
  <2> SUFFICES ASSUME IInv, ~stale, NEW s \in turns, NEW t \in turns, s # t, s.conn = t.conn
               PROVE  Doomed(s.conn)
    BY Zenon DEF OneTurnAtATime
  <2>1. s.at \in Spawns /\ s.at = s.conn /\ t.at = t.conn
    BY DEF IInv, Lineage, WorkIsDone, TypeOK, Turns
  <2>2. ~OneHolder(s.at)
    BY <2>1 DEF OneHolder
  <2>3. DoomedAt(s.at)
    BY <2>1, <2>2 DEF IInv, Lock
  <2> QED BY <2>1, <2>3 DEF DoomedAt, Doomed
<1> QED BY <1>1, AlwaysIInv, PTL

\* No message is sent to an agent twice, whatever is cancelled, killed,
\* restarted or restored in between: while it waits it is in one place, and
\* the row that a restart would bring back is gone before it is sent
\* (submit_prompt, the callback of a turn, restore_prompt_queue).
THEOREM SentOnceAtMost == Spec => []AtMostOnce
<1>1. IInv => AtMostOnce
  BY Zenon DEF IInv, Copies, SentOnce, AtMostOnce
<1> QED BY <1>1, AlwaysIInv, PTL

\* What the queue takes for stored is in the table, so a restart loses no
\* prompt that waits (insert before push, delete after take).
THEOREM QueueIsStored == Spec => []QueuedIsStored
<1>1. IInv => QueuedIsStored
  <2> SUFFICES ASSUME IInv, ~stale, NEW i \in DOMAIN entry.queue, entry.queue[i].row
               PROVE  \E j \in DOMAIN rows : rows[j] = entry.queue[i].msg
    BY Zenon DEF QueuedIsStored
  <2> QED BY DEF IInv, Copies, Queue, InRows
<1> QED BY <1>1, AlwaysIInv, PTL

\* A busy entry has a turn or a prompt on its way, and a queue on which a
\* turn has run is left only to a process whose end is decided: every step
\* that clears busy either takes the next prompt or has decided to kill
\* (the callback of a turn and the fallback of a cancelled one).
THEOREM QueueMoves == Spec => []QueueMovesOn
<1>1. IInv => QueueMovesOn
  <2> SUFFICES ASSUME IInv, ~stale, Alive PROVE
         LET working == \/ \E t \in turns : t.conn = entry.conn
                        \/ \E d \in drains : d.at = entry.spawn
         IN /\ entry.busy => working
            /\ entry.gen > 0 /\ entry.queue # <<>> => working \/ Doomed(entry.spawn)
    BY Zenon DEF QueueMovesOn
  <2>1. Moves /\ Lineage /\ turns \subseteq Turns
    BY DEF IInv, TypeOK
  <2>2. ASSUME NEW t \in turns, t.at = entry.spawn PROVE t.conn = entry.conn
    <3>1. t.at \in Spawns /\ stage[t.at] = "done" /\ t.conn = t.at
      BY <2>1 DEF Lineage, WorkIsDone, Turns
    <3> QED BY <2>1, <2>2, <3>1 DEF Lineage, OwnConn
  <2>3. Working => (\E t \in turns : t.conn = entry.conn) \/ (\E d \in drains : d.at = entry.spawn)
    BY <2>2 DEF Working
  <2>4. DoomedAt(entry.spawn) => Doomed(entry.spawn)
    BY DEF DoomedAt, Doomed
  <2> QED BY <2>1, <2>3, <2>4 DEF Moves
<1> QED BY <1>1, AlwaysIInv, PTL

=============================================================================
