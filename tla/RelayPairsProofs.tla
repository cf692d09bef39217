-------------------------- MODULE RelayPairsProofs --------------------------
(***************************************************************************)
(* Theorems about RelayPairs: types, that every socket has one owner and   *)
(* the count of pairs is right, and that pairs carry what their ends write *)
(* in order and without gaps, for any connections, uuids and bounds.       *)
(***************************************************************************)
EXTENDS RelayPairs, SequenceTheorems, FiniteSetTheorems, TLAPS

-----------------------------------------------------------------------------
(* Sequences of numbers, and what moves between them.                      *)

\* Numbers(m, n) is the numbers from m + 1 to n.
LEMMA NumbersAre ==
  ASSUME NEW m \in Nat, NEW n \in Nat, m <= n
  PROVE  /\ Numbers(m, n) \in Seq(Nat)
         /\ Len(Numbers(m, n)) = n - m
         /\ \A i \in 1 .. n - m : Numbers(m, n)[i] = m + i
<1>1. n - m \in Nat
  OBVIOUS
<1>2. Numbers(m, n) \in [1 .. n - m -> Nat]
  BY <1>1 DEF Numbers
<1> QED BY <1>1, <1>2 DEF Numbers

LEMMA NoNumbers ==
  ASSUME NEW m \in Nat
  PROVE  Numbers(m, m) = <<>>
<1>1. Numbers(m, m) \in Seq(Nat) /\ Len(Numbers(m, m)) = 0
  BY NumbersAre
<1> QED BY <1>1, EmptySeq

\* From nothing, they are the numbers themselves.
LEMMA FirstNumbers ==
  ASSUME NEW k \in Nat
  PROVE  /\ Numbers(0, k) \in Seq(Nat) /\ Len(Numbers(0, k)) = k
         /\ \A i \in 1 .. k : Numbers(0, k)[i] = i
<1>1. k - 0 = k /\ \A i \in 1 .. k : 0 + i = i
  OBVIOUS
<1>2. Numbers(0, k) = [i \in 1 .. k |-> 0 + i]
  BY <1>1 DEF Numbers
<1>3. Numbers(0, k) \in [1 .. k -> Nat]
  BY <1>2
<1> QED BY <1>1, <1>2, <1>3

\* The length and the items of what is put together.
LEMMA Whole ==
  ASSUME NEW s \in Seq(Nat), NEW t \in Seq(Nat)
  PROVE  /\ s \o t \in Seq(Nat) /\ Len(s \o t) = Len(s) + Len(t)
         /\ \A i \in 1 .. Len(s) + Len(t) :
              (s \o t)[i] = IF i <= Len(s) THEN s[i] ELSE t[i - Len(s)]
OBVIOUS

\* The numbers up to m, then those up to n.
LEMMA NumbersGoOn ==
  ASSUME NEW m \in Nat, NEW n \in Nat, m <= n
  PROVE  Numbers(0, m) \o Numbers(m, n) = Numbers(0, n)
<1> DEFINE s == Numbers(0, m)
           t == Numbers(m, n)
           u == Numbers(0, n)
<1>1. s \in Seq(Nat) /\ Len(s) = m /\ \A i \in 1 .. m : s[i] = i
  BY FirstNumbers
<1>2. t \in Seq(Nat) /\ Len(t) = n - m /\ \A i \in 1 .. n - m : t[i] = m + i
  BY NumbersAre
<1>3. u \in Seq(Nat) /\ Len(u) = n /\ \A i \in 1 .. n : u[i] = i
  BY FirstNumbers
<1> HIDE DEF s, t, u
<1>4. /\ s \o t \in Seq(Nat) /\ Len(s \o t) = Len(s) + Len(t)
      /\ \A i \in 1 .. Len(s) + Len(t) :
           (s \o t)[i] = IF i <= Len(s) THEN s[i] ELSE t[i - Len(s)]
  BY <1>1, <1>2, Whole, Zenon
<1>5. Len(s) + Len(t) = n
  BY <1>1, <1>2
<1>6. \A i \in 1 .. n : (s \o t)[i] = u[i]
  <2> SUFFICES ASSUME NEW i \in 1 .. n PROVE (s \o t)[i] = u[i]
    OBVIOUS
  <2>1. (s \o t)[i] = IF i <= m THEN s[i] ELSE t[i - m]
    BY <1>1, <1>4, <1>5, Zenon
  <2>2. CASE i <= m
    <3>1. i \in 1 .. m
      BY <2>2
    <3> QED BY <2>1, <2>2, <3>1, <1>1, <1>3, Zenon
  <2>3. CASE ~(i <= m)
    <3>1. i - m \in 1 .. n - m /\ m + (i - m) = i
      BY <2>3
    <3> QED BY <2>1, <2>3, <3>1, <1>2, <1>3, Zenon
  <2> QED BY <2>2, <2>3
<1>7. Len(s \o t) = Len(u) /\ Len(s \o t) = n
  BY <1>3, <1>4, <1>5
<1>8. s \o t = u
  BY <1>3, <1>4, <1>6, <1>7, SeqEqual, Zenon
<1> QED BY <1>8 DEF s, t, u

\* A head and what follows it.
LEMMA HeadAndTail ==
  ASSUME NEW c \in Seq(Nat), c # <<>>
  PROVE  /\ Head(c) \in Nat /\ Tail(c) \in Seq(Nat) /\ <<Head(c)>> \in Seq(Nat)
         /\ Len(Tail(c)) <= Len(c)
         /\ Len(c) = 1 => Tail(c) = <<>>
         /\ c = <<Head(c)>> \o Tail(c)
<1>1. Len(c) \in Nat \ {0} /\ Head(c) \in Nat /\ Head(c) = c[1]
  OBVIOUS
<1>2. /\ Tail(c) \in Seq(Nat) /\ Len(Tail(c)) = Len(c) - 1
      /\ \A i \in 1 .. Len(c) - 1 : Tail(c)[i] = c[i + 1]
  OBVIOUS
<1>3. <<Head(c)>> \in Seq(Nat) /\ Len(<<Head(c)>>) = 1 /\ <<Head(c)>>[1] = Head(c)
  BY <1>1
<1>4. Len(c) = 1 => Tail(c) = <<>>
  <2> SUFFICES ASSUME Len(c) = 1 PROVE Tail(c) = <<>>
    OBVIOUS
  <2>1. Len(Tail(c)) = 0 /\ 0 \notin Nat \ {0}
    BY <1>2
  <2> QED BY <2>1, <1>2, EmptySeq, Zenon
<1> DEFINE w == <<Head(c)>> \o Tail(c)
<1>5. w \in Seq(Nat) /\ Len(w) = Len(c)
  BY <1>1, <1>2, <1>3
<1>6. \A i \in 1 .. Len(w) : w[i] = c[i]
  BY <1>1, <1>2, <1>3, <1>5
<1>7. c = w
  BY <1>5, <1>6, SeqEqual, Zenon
<1>8. Len(Tail(c)) <= Len(c)
  BY <1>1, <1>2
<1> QED BY <1>1, <1>2, <1>3, <1>4, <1>7, <1>8

LEMMA AppendIs ==
  ASSUME NEW t \in Seq(Nat), NEW h \in Nat
  PROVE  /\ Append(t, h) \in Seq(Nat) /\ Len(Append(t, h)) = Len(t) + 1
         /\ Append(t, h) = t \o <<h>>
OBVIOUS

LEMMA Regroup ==
  ASSUME NEW s \in Seq(Nat), NEW t \in Seq(Nat), NEW u \in Seq(Nat)
  PROVE  (s \o t) \o u = s \o (t \o u)
OBVIOUS

\* Putting the head of c behind t keeps their types.
LEMMA PutTypes ==
  ASSUME NEW t \in Seq(Nat), NEW c \in Seq(Nat), c # <<>>
  PROVE  /\ Append(t, Head(c)) \in Seq(Nat) /\ Tail(c) \in Seq(Nat)
         /\ Len(Append(t, Head(c))) = Len(t) + 1
         /\ Len(c) = 1 => Tail(c) = <<>>
BY HeadAndTail, AppendIs, Zenon

\* And it leaves the whole as it is.
LEMMA PutKeeps ==
  ASSUME NEW g \in Seq(Nat), NEW t \in Seq(Nat), NEW c \in Seq(Nat), c # <<>>
  PROVE  (g \o Append(t, Head(c))) \o Tail(c) = (g \o t) \o c
<1>1. /\ Head(c) \in Nat /\ Tail(c) \in Seq(Nat) /\ <<Head(c)>> \in Seq(Nat)
      /\ c = <<Head(c)>> \o Tail(c)
  BY HeadAndTail
<1>2. Append(t, Head(c)) = t \o <<Head(c)>>
  BY <1>1, AppendIs, Zenon
<1>3. g \o t \in Seq(Nat)
  BY Whole, Zenon
<1>4. (g \o t) \o <<Head(c)>> = g \o (t \o <<Head(c)>>)
  BY <1>1, Regroup, Zenon
<1>5. ((g \o t) \o <<Head(c)>>) \o Tail(c) = (g \o t) \o (<<Head(c)>> \o Tail(c))
  BY <1>1, <1>3, Regroup, Zenon
<1> QED BY <1>1, <1>2, <1>4, <1>5, Zenon

\* So does moving the head of t behind g.
LEMMA ReadKeeps ==
  ASSUME NEW g \in Seq(Nat), NEW t \in Seq(Nat), t # <<>>
  PROVE  /\ Append(g, Head(t)) \in Seq(Nat) /\ Tail(t) \in Seq(Nat)
         /\ Len(Tail(t)) <= Len(t)
         /\ Append(g, Head(t)) \o Tail(t) = g \o t
<1>1. /\ Head(t) \in Nat /\ Tail(t) \in Seq(Nat) /\ <<Head(t)>> \in Seq(Nat)
      /\ t = <<Head(t)>> \o Tail(t) /\ Len(Tail(t)) <= Len(t)
  BY HeadAndTail
<1>2. /\ Append(g, Head(t)) = g \o <<Head(t)>> /\ Append(g, Head(t)) \in Seq(Nat)
  BY <1>1, AppendIs, Zenon
<1>3. (g \o <<Head(t)>>) \o Tail(t) = g \o (<<Head(t)>> \o Tail(t))
  BY <1>1, Regroup, Zenon
<1>4. Append(g, Head(t)) \o Tail(t) = g \o t
  BY <1>1, <1>2, <1>3, Zenon
<1> QED BY <1>1, <1>2, <1>4, Zenon

-----------------------------------------------------------------------------
(* The table: who waits, and who is paired with whom.                      *)

Asked ==
  \A c \in Conns :
    task[c] \in {"looks", "inserts", "sleeps"} \cup Paired => uuid[c] \in Uuids

\* Who waits has inserted itself, under the uuid that it asked for.
Placed ==
  \A u \in Uuids : \A c \in Conns :
    pending[u] = c => task[c] \in {"sleeps", "done"} /\ uuid[c] = u

\* Who was paired as the first waits no more, and has one partner.
Matched ==
  \A c \in Conns :
    task[c] \in Paired =>
      /\ first[c] \in Conns
      /\ task[first[c]] \in {"sleeps", "done"} /\ uuid[first[c]] = uuid[c]
      /\ \A u \in Uuids : pending[u] # first[c]
      /\ \A e \in Conns : task[e] \in Paired /\ first[e] = first[c] => e = c

Pairs == {c \in Conns : task[c] \in Paired}

Counted == active = Cardinality(Pairs)

Table == Asked /\ Placed /\ Matched

TaskTypes ==
  /\ task \in [Conns -> States]
  /\ uuid \in [Conns -> Uuids \cup {none}]
  /\ pending \in [Uuids -> Conns \cup {none}]
  /\ first \in [Conns -> Conns \cup {none}]

\* Steps that leave task, uuid, pending and first alone.
LEMMA TableRests ==
  ASSUME Table, UNCHANGED <<task, uuid, pending, first>>
  PROVE  Table' /\ Pairs' = Pairs
BY DEF Table, Asked, Placed, Matched, Pairs

\* A task that goes on within its pair.
LEMMA TableMoves ==
  ASSUME TaskTypes, Table, NEW c \in Conns, NEW t \in Paired, task[c] \in Paired,
         task' = [task EXCEPT ![c] = t], UNCHANGED <<uuid, pending, first>>
  PROVE  Table' /\ Pairs' = Pairs
<1>1. \A d \in Conns : task'[d] = IF d = c THEN t ELSE task[d]
  BY DEF TaskTypes
<1>2. Asked'
  BY <1>1 DEF Table, Asked, Paired
<1>3. Placed'
  BY <1>1 DEF Table, Placed, Paired
<1>4. Matched'
  BY <1>1 DEF Table, Matched, Paired
<1>5. Pairs' = Pairs
  BY <1>1 DEF Pairs
<1> QED BY <1>2, <1>3, <1>4, <1>5 DEF Table

\* A task that ends, paired or not.
LEMMA TableEnds ==
  ASSUME TaskTypes, Table, NEW c \in Conns, task[c] # "none",
         task' = [task EXCEPT ![c] = "done"], UNCHANGED <<uuid, pending, first>>
  PROVE  Table' /\ Pairs' = Pairs \ {c}
<1>1. \A d \in Conns : task'[d] = IF d = c THEN "done" ELSE task[d]
  BY DEF TaskTypes
<1>2. Asked'
  BY <1>1 DEF Table, Asked, Paired
<1>3. Placed'
  BY <1>1 DEF Table, Placed, Paired
<1>4. Matched'
  BY <1>1 DEF Table, Matched, Paired
<1>5. Pairs' = Pairs \ {c}
  BY <1>1 DEF Pairs, Paired
<1> QED BY <1>2, <1>3, <1>4, <1>5 DEF Table

\* A connection that is accepted, or says what it is for.
LEMMA TableBegins ==
  ASSUME TaskTypes, Table, NEW c \in Conns,
         \/ /\ task[c] = "none" /\ task' = [task EXCEPT ![c] = "shakes"]
            /\ UNCHANGED uuid
         \/ /\ task[c] = "shakes" /\ task' = [task EXCEPT ![c] = "looks"]
            /\ \E u \in Uuids : uuid' = [uuid EXCEPT ![c] = u],
         UNCHANGED <<pending, first>>
  PROVE  Table' /\ Pairs' = Pairs
<1>1. /\ task[c] \in {"none", "shakes"} /\ task'[c] \in {"shakes", "looks"}
      /\ task'[c] = "looks" => uuid'[c] \in Uuids
      /\ \A d \in Conns \ {c} : task'[d] = task[d] /\ uuid'[d] = uuid[d]
  BY DEF TaskTypes
<1>2. Asked'
  BY <1>1 DEF Table, Asked, Paired
<1>3. Placed'
  BY <1>1 DEF Table, Placed, Paired
<1>4. Matched'
  BY <1>1 DEF Table, Matched, Paired
<1>5. Pairs' = Pairs
  BY <1>1 DEF Pairs, Paired
<1> QED BY <1>2, <1>3, <1>4, <1>5 DEF Table

\* The first critical section.
LEMMA TableLookup ==
  ASSUME TaskTypes, Table, NEW c \in Conns, Lookup(c)
  PROVE  /\ Table'
         /\ pending[uuid[c]] = none => Pairs' = Pairs /\ active' = active
         /\ pending[uuid[c]] # none => Pairs' = Pairs \cup {c} /\ active' = active + 1
<1>1. task[c] = "looks" /\ uuid[c] \in Uuids
  BY DEF Lookup, Table, Asked
<1>2. CASE pending[uuid[c]] = none
  <2>1. /\ \A d \in Conns : task'[d] = IF d = c THEN "inserts" ELSE task[d]
        /\ UNCHANGED <<uuid, pending, first, active>>
    BY <1>2 DEF Lookup, TaskTypes
  <2>2. Asked'
    BY <1>1, <2>1 DEF Table, Asked, Paired
  <2>3. Placed'
    BY <1>1, <2>1 DEF Table, Placed, Paired
  <2>4. Matched'
    BY <1>1, <2>1 DEF Table, Matched, Paired
  <2>5. Pairs' = Pairs
    BY <1>1, <2>1 DEF Pairs, Paired
  <2> QED BY <1>2, <2>1, <2>2, <2>3, <2>4, <2>5 DEF Table
<1>3. CASE pending[uuid[c]] # none
  <2> DEFINE w == pending[uuid[c]]
  <2>1. w \in Conns /\ w # c /\ task[w] \in {"sleeps", "done"} /\ uuid[w] = uuid[c]
    BY <1>1, <1>3 DEF Table, Placed, TaskTypes
  <2>2. /\ \A d \in Conns : task'[d] = IF d = c THEN "greets" ELSE task[d]
        /\ \A d \in Conns : first'[d] = IF d = c THEN w ELSE first[d]
        /\ \A u \in Uuids : pending'[u] = IF u = uuid[c] THEN none ELSE pending[u]
        /\ uuid' = uuid /\ active' = active + 1
    BY <1>1, <1>3 DEF Lookup, TaskTypes
  <2> HIDE DEF w
  <2>3. \A u \in Uuids : pending'[u] # w
    BY <2>1, <2>2, ConnsAssumption DEF Table, Placed, w
  <2>4. \A e \in Conns : task[e] \in Paired => first[e] # w
    BY <1>1 DEF Table, Matched, w
  <2>5. Asked'
    BY <1>1, <2>2 DEF Table, Asked, Paired
  <2>6. Placed'
    BY <1>1, <2>2, ConnsAssumption DEF Table, Placed, Paired
  <2>7. Matched'
    <3> SUFFICES ASSUME NEW d \in Conns, task'[d] \in Paired
                 PROVE  /\ first'[d] \in Conns
                        /\ task'[first'[d]] \in {"sleeps", "done"}
                        /\ uuid'[first'[d]] = uuid'[d]
                        /\ \A u \in Uuids : pending'[u] # first'[d]
                        /\ \A e \in Conns :
                             task'[e] \in Paired /\ first'[e] = first'[d] => e = d
      BY Zenon DEF Matched
    <3>1. CASE d = c
      BY <3>1, <2>1, <2>2, <2>3, <2>4
    <3>2. CASE d # c
      <4>1. /\ task[d] \in Paired /\ first'[d] = first[d] /\ first[d] \in Conns
            /\ task[first[d]] \in {"sleeps", "done"} /\ uuid[first[d]] = uuid[d]
            /\ \A u \in Uuids : pending[u] # first[d]
            /\ \A e \in Conns : task[e] \in Paired /\ first[e] = first[d] => e = d
        BY <3>2, <2>2 DEF Table, Matched
      <4>2. first[d] # c /\ first[d] # w
        BY <4>1, <1>1, <2>4
      <4>3. \A u \in Uuids : pending'[u] # first[d]
        BY <4>1, <2>2, ConnsAssumption
      <4>4. ASSUME NEW e \in Conns, task'[e] \in Paired, first'[e] = first[d]
            PROVE  e = d
        BY <4>1, <4>2, <4>4, <2>2
      <4> QED BY <4>1, <4>2, <4>3, <4>4, <2>2
    <3> QED BY <3>1, <3>2
  <2>8. Pairs' = Pairs \cup {c}
    BY <2>2 DEF Pairs, Paired
  <2> QED BY <1>3, <2>2, <2>5, <2>6, <2>7, <2>8 DEF Table
<1> QED BY <1>2, <1>3

\* The second one.
LEMMA TableInsert ==
  ASSUME TaskTypes, Table, NEW c \in Conns, Insert(c)
  PROVE  Table' /\ Pairs' = Pairs
<1>1. task[c] = "inserts" /\ uuid[c] \in Uuids
  BY DEF Insert, Table, Asked
<1>2. /\ \A d \in Conns : task'[d] = IF d = c THEN "sleeps" ELSE task[d]
      /\ \A u \in Uuids : pending'[u] = IF u = uuid[c] THEN c ELSE pending[u]
      /\ UNCHANGED <<uuid, first>>
  BY DEF Insert, TaskTypes
<1>3. Asked'
  BY <1>1, <1>2 DEF Table, Asked, Paired
<1>4. Placed'
  BY <1>1, <1>2 DEF Table, Placed, Paired
<1>5. Matched'
  BY <1>1, <1>2 DEF Table, Matched, Paired
<1>6. Pairs' = Pairs
  BY <1>1, <1>2 DEF Pairs, Paired
<1> QED BY <1>3, <1>4, <1>5, <1>6 DEF Table

\* A timer, and the end of the server, take connections out of the table.
LEMMA TableExpire ==
  ASSUME TaskTypes, Table, NEW c \in Conns, Expire(c)
  PROVE  Table' /\ Pairs' = Pairs
<1>1. /\ task[c] = "sleeps"
      /\ \A d \in Conns : task'[d] = IF d = c THEN "done" ELSE task[d]
      /\ \A u \in Uuids : pending'[u] \in {pending[u], none}
      /\ UNCHANGED <<uuid, first>>
  BY DEF Expire, TaskTypes
<1>2. Asked'
  BY <1>1 DEF Table, Asked, Paired
<1>3. Placed'
  BY <1>1, ConnsAssumption DEF Table, Placed, Paired
<1>4. Matched'
  BY <1>1, ConnsAssumption DEF Table, Matched, Paired
<1>5. Pairs' = Pairs
  BY <1>1 DEF Pairs, Paired
<1> QED BY <1>2, <1>3, <1>4, <1>5 DEF Table

LEMMA TableEnded ==
  ASSUME TaskTypes, Table, Ended
  PROVE  Table' /\ Pairs' = Pairs
<1>1. /\ \A u \in Uuids : pending'[u] = none
      /\ UNCHANGED <<task, uuid, first>>
  BY DEF Ended
<1> QED BY <1>1, ConnsAssumption DEF Table, Asked, Placed, Matched, Pairs

-----------------------------------------------------------------------------
(* Types.                                                                  *)

Typed == TypeOK /\ Table /\ Counted

LEMMA TaskTyped == TypeOK => TaskTypes
BY DEF TypeOK, TaskTypes

LEMMA PairsAreFinite ==
  ASSUME NEW S, S = Pairs
  PROVE  IsFiniteSet(S) /\ Cardinality(S) \in Nat
<1>1. IsFiniteSet(Pairs)
  <2>1. Pairs \in SUBSET Conns
    BY DEF Pairs
  <2> QED BY <2>1, FS_Subset, ConnsAssumption
<1> QED BY <1>1, FS_CardinalityType

\* The types of the numbers and sequences of one connection.
LEMMA DataTypes ==
  ASSUME TypeOK, NEW c \in Conns
  PROVE  /\ wrote[c] \in Nat /\ taken[c] \in Nat /\ left[c] \in Nat
         /\ left[c] <= taken[c] /\ taken[c] <= wrote[c] /\ wrote[c] <= Items[c]
         /\ carried[c] \in Seq(Nat) /\ got[c] \in Seq(Nat) /\ toward[c] \in Seq(Nat)
         /\ Len(toward[c]) \in Nat /\ Len(toward[c]) <= Room
         /\ Items[c] \in Nat /\ Room \in Nat
BY BoundsAssumption DEF TypeOK

LEMMA TypeInit == Init => Typed
<1> SUFFICES ASSUME Init PROVE Typed
  OBVIOUS
<1>1. <<>> \in Seq(Nat) /\ Len(<<>>) = 0
  BY EmptySeq
<1>2. Pairs = {}
  BY DEF Pairs, Init, Paired
<1>3. Cardinality(Pairs) = 0
  BY <1>2, FS_EmptySet
<1>4. TypeOK
  BY <1>1, BoundsAssumption DEF Init, TypeOK, States
<1>5. Table
  BY ConnsAssumption DEF Init, Table, Asked, Placed, Matched, Paired
<1> QED BY <1>3, <1>4, <1>5 DEF Typed, Counted, Init

\* Steps that change no data.
LEMMA DataRests ==
  ASSUME TypeOK, UNCHANGED data, TaskTypes', serving' \in {"runs", "aborts", "ended"},
         quiet' \subseteq Conns, active' \in Nat
  PROVE  TypeOK'
BY DEF TypeOK, TaskTypes, data

\* The end of a pair.
LEMMA TypeEnd ==
  ASSUME Typed, NEW c \in Conns, task[c] \in Paired, End(c),
         UNCHANGED <<serving, uuid, pending, first, wrote, gone, left, taken, toward, got>>
  PROVE  Typed'
<1>1. Table' /\ Pairs' = Pairs \ {c}
  <2>1. task[c] # "none"
    BY DEF Paired
  <2> QED BY <2>1, TaskTyped, TableEnds DEF Typed, End
<1>2. c \in Pairs
  BY DEF Pairs
<1>3. Cardinality(Pairs) \in Nat /\ Cardinality(Pairs') = Cardinality(Pairs) - 1
      /\ Cardinality(Pairs') \in Nat
  <2>1. IsFiniteSet(Pairs) /\ Cardinality(Pairs) \in Nat
    BY PairsAreFinite
  <2>2. IsFiniteSet(Pairs \ {c}) /\ Cardinality(Pairs \ {c}) = Cardinality(Pairs) - 1
    BY <2>1, <1>2, FS_RemoveElement
  <2>3. Cardinality(Pairs \ {c}) \in Nat
    BY <2>2, FS_CardinalityType
  <2> QED BY <1>1, <2>1, <2>2, <2>3
<1>4. Counted' /\ active' \in Nat
  BY <1>3 DEF Typed, Counted, End
<1>5. <<>> \in Seq(Nat)
  BY EmptySeq
<1>6. carried' \in [Conns -> Seq(Nat)]
  BY <1>5 DEF Typed, TypeOK, End
<1>7. task' \in [Conns -> States]
  BY DEF Typed, TypeOK, End, States
<1>8. TypeOK'
  BY <1>4, <1>6, <1>7 DEF Typed, TypeOK, End
<1> QED BY <1>1, <1>4, <1>8 DEF Typed

\* The steps of handle_connection.
LEMMA TypeBegin ==
  ASSUME Typed, NEW c \in Conns,
         \/ Accept(c) \/ \E u \in Uuids : Handshake(c, u)
         \/ Refuse(c) \/ Lookup(c) \/ Insert(c) \/ Expire(c)
  PROVE  Typed'
<1> USE DEF Typed
<1>0. TaskTypes
  BY TaskTyped
<1>1. CASE Accept(c)
  <2>1. Table' /\ Pairs' = Pairs
    BY <1>0, <1>1, TableBegins DEF Accept
  <2>2. TaskTypes'
    BY <1>0, <1>1 DEF Accept, TaskTypes, States
  <2>3. TypeOK'
    BY <1>1, <2>2, DataRests DEF Accept, TypeOK
  <2> QED BY <1>1, <2>1, <2>3 DEF Counted, Accept
<1>2. ASSUME NEW u \in Uuids, Handshake(c, u)
      PROVE  Typed'
  <2>1. Table' /\ Pairs' = Pairs
    BY <1>0, <1>2, TableBegins DEF Handshake
  <2>2. task' \in [Conns -> States] /\ uuid' \in [Conns -> Uuids \cup {none}]
    BY <1>2 DEF Handshake, TypeOK, States
  <2>3. PICK n \in 0 .. wrote[c] : /\ left' = [left EXCEPT ![c] = n]
                                   /\ taken' = [taken EXCEPT ![c] = n]
    BY <1>2 DEF Handshake
  <2>4. wrote[c] \in Nat /\ n \in Nat /\ n <= wrote[c]
    BY DataTypes
  <2>5. /\ left' \in [Conns -> Nat] /\ taken' \in [Conns -> Nat]
        /\ \A d \in Conns : left'[d] <= taken'[d] /\ taken'[d] <= wrote[d]
    BY <2>3, <2>4 DEF TypeOK
  <2>6. TypeOK'
    BY <1>2, <2>2, <2>5 DEF Handshake, TypeOK
  <2> QED BY <1>2, <2>1, <2>6 DEF Counted, Handshake
<1>3. CASE Refuse(c)
  <2>1. Table' /\ Pairs' = Pairs \ {c}
    BY <1>0, <1>3, TableEnds DEF Refuse
  <2>2. c \notin Pairs
    BY <1>3 DEF Pairs, Paired, Refuse
  <2>3. TaskTypes'
    BY <1>0, <1>3 DEF Refuse, TaskTypes, States
  <2>4. TypeOK'
    BY <1>3, <2>3, DataRests DEF Refuse, TypeOK
  <2>5. Pairs' = Pairs
    BY <2>1, <2>2
  <2> QED BY <1>3, <2>1, <2>4, <2>5 DEF Counted, Refuse
<1>4. CASE Lookup(c)
  <2>1. /\ Table'
        /\ pending[uuid[c]] = none => Pairs' = Pairs /\ active' = active
        /\ pending[uuid[c]] # none => Pairs' = Pairs \cup {c} /\ active' = active + 1
    BY <1>0, <1>4, TableLookup
  <2>2. uuid[c] \in Uuids /\ c \notin Pairs
    BY <1>4 DEF Lookup, Table, Asked, Pairs, Paired
  <2>3. TaskTypes'
    <3>1. pending[uuid[c]] \in Conns \cup {none}
      BY <2>2 DEF TypeOK
    <3> QED BY <1>0, <1>4, <3>1 DEF Lookup, TaskTypes, States, Paired
  <2>4. IsFiniteSet(Pairs) /\ Cardinality(Pairs) \in Nat
    BY PairsAreFinite
  <2>5. Cardinality(Pairs \cup {c}) = Cardinality(Pairs) + 1
    BY <2>2, <2>4, FS_AddElement
  <2>6. Counted' /\ active' \in Nat
    BY <2>1, <2>4, <2>5 DEF Counted
  <2>7. TypeOK'
    BY <1>4, <2>3, <2>6, DataRests DEF Lookup, TypeOK
  <2> QED BY <2>1, <2>6, <2>7
<1>5. CASE Insert(c)
  <2>1. Table' /\ Pairs' = Pairs
    BY <1>0, <1>5, TableInsert
  <2>2. TaskTypes'
    BY <1>0, <1>5 DEF Insert, TaskTypes, States
  <2>3. TypeOK'
    BY <1>5, <2>2, DataRests DEF Insert, TypeOK
  <2> QED BY <1>5, <2>1, <2>3 DEF Counted, Insert
<1>6. CASE Expire(c)
  <2>1. Table' /\ Pairs' = Pairs
    BY <1>0, <1>6, TableExpire
  <2>2. TaskTypes'
    BY <1>0, <1>6 DEF Expire, TaskTypes, States
  <2>3. TypeOK'
    BY <1>6, <2>2, DataRests DEF Expire, TypeOK
  <2> QED BY <1>6, <2>1, <2>3 DEF Counted, Expire
<1> QED BY <1>1, <1>2, <1>3, <1>4, <1>5, <1>6

\* The steps of pair and pump that go on.
LEMMA TypeGoesOn ==
  ASSUME Typed, NEW c \in Conns, task[c] \in Paired,
         UNCHANGED <<serving, uuid, pending, first, active, wrote, gone, got>>,
         NEW t \in Paired, task' = [task EXCEPT ![c] = t],
         quiet' \subseteq Conns,
         left' \in [Conns -> Nat], taken' \in [Conns -> Nat],
         \A d \in Conns : left'[d] <= taken'[d] /\ taken'[d] <= wrote[d],
         carried' \in [Conns -> Seq(Nat)], toward' \in [Conns -> Seq(Nat)],
         \A d \in Conns : Len(toward'[d]) <= Room
  PROVE  Typed'
<1>1. Table' /\ Pairs' = Pairs
  BY TaskTyped, TableMoves DEF Typed
<1>2. task' \in [Conns -> States]
  BY DEF Typed, TypeOK, States
<1>3. TypeOK'
  BY <1>2 DEF Typed, TypeOK
<1> QED BY <1>1, <1>3 DEF Typed, Counted

LEMMA FirstIsThere ==
  ASSUME Table, NEW c \in Conns, task[c] \in Paired
  PROVE  first[c] \in Conns /\ first[c] # c /\ task[first[c]] \notin Paired
BY DEF Table, Matched, Paired

\* A left-over that is taken up.
LEMMA LeftGoes ==
  ASSUME TypeOK, NEW e \in Conns, left' = left \/ left' = [left EXCEPT ![e] = 0]
  PROVE  left' \in [Conns -> Nat] /\ \A d \in Conns : left'[d] <= taken[d]
<1>1. left \in [Conns -> Nat]
  BY DEF TypeOK
<1>2. \A d \in Conns : left'[d] = left[d] \/ left'[d] = 0
  BY <1>1
<1>3. ASSUME NEW d \in Conns PROVE left'[d] <= taken[d]
  <2>1. left[d] \in Nat /\ taken[d] \in Nat /\ left[d] <= taken[d]
    BY DataTypes
  <2> QED BY <1>2, <2>1
<1> QED BY <1>1, <1>3

LEMMA TypePair ==
  ASSUME Typed, NEW c \in Conns,
         \/ Greet(c) \/ Answer(c) \/ Put(c)
         \/ Take(c, "carries1") \/ Take(c, "carries2")
  PROVE  Typed'
<1>0. TypeOK /\ Table
  BY DEF Typed
<1>1. task[c] \in Paired
  BY DEF Greet, Answer, Put, Take, Writes, Paired
<1>2. first[c] \in Conns /\ first[c] # c
  BY <1>0, <1>1, FirstIsThere
<1>3. task' = task => task' = [task EXCEPT ![c] = task[c]]
  BY <1>0 DEF TypeOK
<1>4. \A n \in Nat : Numbers(0, n) \in Seq(Nat)
  BY FirstNumbers
<1>5. CASE Greet(c)
  <2>1. task' = [task EXCEPT ![c] = task[c]] \/ task' = [task EXCEPT ![c] = "answers"]
    BY <1>3, <1>5 DEF Greet
  <2>2. carried' \in [Conns -> Seq(Nat)]
    <3>1. left[first[c]] \in Nat
      BY <1>0, <1>2, DataTypes
    <3> QED BY <1>0, <1>4, <1>5, <3>1 DEF Greet, TypeOK
  <2>3. left' \in [Conns -> Nat] /\ \A d \in Conns : left'[d] <= taken[d]
    <3>1. left' = left \/ left' = [left EXCEPT ![first[c]] = 0]
      BY <1>5 DEF Greet
    <3> QED BY <1>0, <1>2, <3>1, LeftGoes
  <2>4. "answers" \in Paired
    BY DEF Paired
  <2> QED BY <2>1, <2>2, <2>3, <2>4, <1>0, <1>1, <1>5, TypeGoesOn DEF Greet, TypeOK
<1>6. CASE Answer(c)
  <2>1. task' = [task EXCEPT ![c] = task[c]] \/ task' = [task EXCEPT ![c] = "pumps"]
    BY <1>3, <1>6 DEF Answer
  <2>2. carried' \in [Conns -> Seq(Nat)]
    <3>1. left[c] \in Nat
      BY <1>0, DataTypes
    <3> QED BY <1>0, <1>4, <1>6, <3>1 DEF Answer, TypeOK
  <2>3. left' \in [Conns -> Nat] /\ \A d \in Conns : left'[d] <= taken[d]
    <3>1. left' = left \/ left' = [left EXCEPT ![c] = 0]
      BY <1>6 DEF Answer
    <3> QED BY <1>0, <3>1, LeftGoes
  <2>4. "pumps" \in Paired
    BY DEF Paired
  <2> QED BY <2>1, <2>2, <2>3, <2>4, <1>0, <1>1, <1>6, TypeGoesOn DEF Answer, TypeOK
<1>7. ASSUME NEW side \in {"carries1", "carries2"}, Take(c, side)
      PROVE  Typed'
  <2> DEFINE from == IF side = "carries1" THEN first[c] ELSE c
  <2>1. from \in Conns
    BY <1>2
  <2>2. PICK n \in taken[from] + 1 .. wrote[from] :
          /\ carried' = [carried EXCEPT ![c] = Numbers(taken[from], n)]
          /\ taken' = [taken EXCEPT ![from] = n]
    BY <1>7 DEF Take
  <2> HIDE DEF from
  <2>3. /\ taken[from] \in Nat /\ n \in Nat /\ taken[from] <= n /\ n <= wrote[from]
        /\ left[from] \in Nat /\ left[from] <= n
    <3>1. /\ wrote[from] \in Nat /\ taken[from] \in Nat /\ left[from] \in Nat
          /\ left[from] <= taken[from]
      BY <1>0, <2>1, DataTypes
    <3> QED BY <3>1, <2>2
  <2>4. carried' \in [Conns -> Seq(Nat)]
    <3>1. Numbers(taken[from], n) \in Seq(Nat)
      BY <2>3, NumbersAre
    <3> QED BY <1>0, <2>2, <3>1 DEF TypeOK
  <2>5. taken' \in [Conns -> Nat]
        /\ \A d \in Conns : left[d] <= taken'[d] /\ taken'[d] <= wrote[d]
    BY <1>0, <2>1, <2>2, <2>3 DEF TypeOK
  <2>6. side \in Paired /\ task' = [task EXCEPT ![c] = side]
    BY <1>7 DEF Take, Paired
  <2> QED BY <2>4, <2>5, <2>6, <1>0, <1>1, <1>7, TypeGoesOn DEF Take, TypeOK
<1>8. CASE Put(c)
  <2> DEFINE d == Target(c)
  <2>1. d \in Conns
    BY <1>2 DEF Target
  <2>2. /\ Len(toward[d]) < Room /\ carried[c] # <<>>
        /\ toward' = [toward EXCEPT ![d] = Append(@, Head(carried[c]))]
        /\ carried' = [carried EXCEPT ![c] = Tail(@)]
        /\ \/ task' = [task EXCEPT ![c] = "pumps"] /\ quiet' = quiet \ {c}
           \/ UNCHANGED <<task, quiet>>
    BY <1>8 DEF Put, Writes
  <2> HIDE DEF d
  <2>3. /\ carried[c] \in Seq(Nat) /\ toward[d] \in Seq(Nat) /\ Len(toward[d]) \in Nat
        /\ Room \in Nat
    BY <1>0, <2>1, DataTypes
  <2>4. /\ Append(toward[d], Head(carried[c])) \in Seq(Nat) /\ Tail(carried[c]) \in Seq(Nat)
        /\ Len(Append(toward[d], Head(carried[c]))) = Len(toward[d]) + 1
    BY <2>2, <2>3, PutTypes
  <2>5. /\ carried' \in [Conns -> Seq(Nat)] /\ toward' \in [Conns -> Seq(Nat)]
        /\ \A e \in Conns : Len(toward'[e]) <= Room
    <3>1. Len(toward[d]) + 1 <= Room
      BY <2>2, <2>3
    <3>2. carried' \in [Conns -> Seq(Nat)] /\ toward' \in [Conns -> Seq(Nat)]
      BY <1>0, <2>1, <2>2, <2>4 DEF TypeOK
    <3>3. \A e \in Conns : toward'[e] = IF e = d THEN Append(toward[d], Head(carried[c]))
                                                 ELSE toward[e]
      BY <1>0, <2>1, <2>2 DEF TypeOK
    <3> QED BY <1>0, <2>4, <3>1, <3>2, <3>3 DEF TypeOK
  <2>6. /\ \/ task' = [task EXCEPT ![c] = "pumps"]
           \/ task' = [task EXCEPT ![c] = task[c]]
        /\ quiet' \subseteq Conns /\ "pumps" \in Paired
    BY <1>0, <1>3, <2>2 DEF TypeOK, Paired
  <2> QED BY <2>5, <2>6, <1>0, <1>1, <1>8, TypeGoesOn DEF Put, TypeOK
<1> QED BY <1>5, <1>6, <1>7, <1>8

\* The other steps.
LEMMA TypeOther ==
  ASSUME Typed,
         \/ \E c \in Conns : \/ PutFails(c) \/ Eof(c) \/ IdleTick(c) \/ Abort(c)
                             \/ FallQuiet(c) \/ Write(c) \/ Read(c) \/ Leave(c)
         \/ Stop \/ Ended \/ UNCHANGED vars
  PROVE  Typed'
<1>0. TypeOK /\ Table /\ Counted /\ TaskTypes
  BY TaskTyped DEF Typed
<1>1. ASSUME NEW c \in Conns, PutFails(c) \/ Eof(c) \/ IdleTick(c)
      PROVE  Typed'
  <2>1. task[c] \in Paired
    BY <1>1 DEF PutFails, Eof, IdleTick, Writes, Paired
  <2> QED BY <1>1, <2>1, TypeEnd DEF PutFails, Eof, IdleTick
<1>2. ASSUME NEW c \in Conns, Abort(c) PROVE Typed'
  <2>1. CASE task[c] \in Paired
    BY <1>2, <2>1, TypeEnd DEF Abort
  <2>2. CASE task[c] \notin Paired
    <3>1. /\ task[c] # "none" /\ task' = [task EXCEPT ![c] = "done"]
          /\ UNCHANGED <<active, quiet, carried, serving, uuid, pending, first,
                         wrote, gone, left, taken, toward, got>>
      BY <1>2, <2>2 DEF Abort
    <3>2. Table' /\ Pairs' = Pairs \ {c}
      BY <1>0, <3>1, TableEnds
    <3>3. Pairs' = Pairs
      BY <2>2, <3>2 DEF Pairs
    <3>4. task' \in [Conns -> States]
      BY <1>0, <3>1 DEF TypeOK, States
    <3>5. TypeOK'
      BY <1>0, <3>1, <3>4 DEF TypeOK
    <3> QED BY <1>0, <3>1, <3>2, <3>3, <3>5 DEF Typed, Counted
  <2> QED BY <2>1, <2>2
<1>3. ASSUME NEW c \in Conns, FallQuiet(c) PROVE Typed'
  <2>1. Table' /\ Pairs' = Pairs
    BY <1>0, <1>3, TableRests DEF FallQuiet
  <2>2. TypeOK'
    BY <1>0, <1>3 DEF FallQuiet, TypeOK, data
  <2> QED BY <1>0, <1>3, <2>1, <2>2 DEF Typed, Counted, FallQuiet
<1>4. ASSUME NEW c \in Conns, Write(c) PROVE Typed'
  <2>1. Table' /\ Pairs' = Pairs /\ Counted'
    BY <1>0, <1>4, TableRests DEF Write, table, Counted
  <2>2. /\ wrote' = [wrote EXCEPT ![c] = wrote[c] + 1] /\ wrote[c] < Items[c]
        /\ UNCHANGED <<left, taken>>
    BY <1>4 DEF Write
  <2>3. wrote[c] \in Nat /\ Items[c] \in Nat /\ taken[c] \in Nat /\ taken[c] <= wrote[c]
    BY <1>0, DataTypes
  <2>4. wrote' \in [Conns -> Nat]
        /\ \A d \in Conns : taken[d] <= wrote'[d] /\ wrote'[d] <= Items[d]
    <3>1. wrote[c] + 1 \in Nat /\ taken[c] <= wrote[c] + 1 /\ wrote[c] + 1 <= Items[c]
      BY <2>2, <2>3
    <3>2. wrote' \in [Conns -> Nat]
      BY <1>0, <2>2, <3>1 DEF TypeOK
    <3>3. \A d \in Conns : wrote'[d] = IF d = c THEN wrote[c] + 1 ELSE wrote[d]
      BY <1>0, <2>2 DEF TypeOK
    <3> QED BY <1>0, <3>1, <3>2, <3>3, DataTypes
  <2>5. TypeOK'
    BY <1>0, <1>4, <2>4 DEF Write, TypeOK, table
  <2> QED BY <2>1, <2>5 DEF Typed
<1>5. ASSUME NEW c \in Conns, Read(c) PROVE Typed'
  <2>1. Table' /\ Pairs' = Pairs /\ Counted'
    BY <1>0, <1>5, TableRests DEF Read, table, Counted
  <2>2. /\ toward[c] # <<>>
        /\ got' = [got EXCEPT ![c] = Append(got[c], Head(toward[c]))]
        /\ toward' = [toward EXCEPT ![c] = Tail(toward[c])]
    BY <1>5 DEF Read
  <2>3. /\ got[c] \in Seq(Nat) /\ toward[c] \in Seq(Nat) /\ Len(toward[c]) \in Nat
        /\ Room \in Nat /\ Len(toward[c]) <= Room
    BY <1>0, DataTypes
  <2>4. /\ Append(got[c], Head(toward[c])) \in Seq(Nat) /\ Tail(toward[c]) \in Seq(Nat)
        /\ Len(Tail(toward[c])) <= Len(toward[c])
    BY <2>2, <2>3, ReadKeeps
  <2>5. Len(Tail(toward[c])) \in Nat
    BY <2>4, LenProperties
  <2>6. Len(Tail(toward[c])) <= Room
    BY <2>3, <2>4, <2>5
  <2>7. /\ got' \in [Conns -> Seq(Nat)] /\ toward' \in [Conns -> Seq(Nat)]
        /\ \A d \in Conns : toward'[d] = IF d = c THEN Tail(toward[c]) ELSE toward[d]
    BY <1>0, <2>2, <2>4 DEF TypeOK
  <2>8. TypeOK'
    BY <1>0, <1>5, <2>6, <2>7 DEF Read, TypeOK, table
  <2> QED BY <2>1, <2>8 DEF Typed
<1>6. ASSUME NEW c \in Conns, Leave(c) PROVE Typed'
  <2>1. Table' /\ Pairs' = Pairs /\ Counted'
    BY <1>0, <1>6, TableRests DEF Leave, table, Counted
  <2>2. TypeOK'
    BY <1>0, <1>6 DEF Leave, TypeOK, table
  <2> QED BY <2>1, <2>2 DEF Typed
<1>7. CASE Stop
  <2>1. Table' /\ Pairs' = Pairs
    BY <1>0, <1>7, TableRests DEF Stop
  <2>2. TypeOK'
    BY <1>0, <1>7 DEF Stop, TypeOK, data
  <2> QED BY <1>0, <1>7, <2>1, <2>2 DEF Typed, Counted, Stop
<1>8. CASE Ended
  <2>1. Table' /\ Pairs' = Pairs
    BY <1>0, <1>8, TableEnded
  <2>2. TypeOK'
    BY <1>0, <1>8 DEF Ended, TypeOK, data
  <2> QED BY <1>0, <1>8, <2>1, <2>2 DEF Typed, Counted, Ended
<1>9. CASE UNCHANGED vars
  <2>1. Table' /\ Pairs' = Pairs
    BY <1>0, <1>9, TableRests DEF vars, table
  <2>2. TypeOK'
    BY <1>0, <1>9 DEF vars, table, data, TypeOK
  <2> QED BY <1>0, <1>9, <2>1, <2>2 DEF Typed, Counted, vars, table
<1> QED BY <1>1, <1>2, <1>3, <1>4, <1>5, <1>6, <1>7, <1>8, <1>9

LEMMA TypeNext == Typed /\ [Next]_vars => Typed'
BY TypeBegin, TypePair, TypeOther DEF Next, TaskStep

\* The relay's state keeps its types (the table of waiting connections, the
\* tasks, sockets and counters).
THEOREM TypeCorrect == Spec => []TypeOK
<1>1. Typed => TypeOK
  BY DEF Typed
<1> QED BY <1>1, TypeInit, TypeNext, PTL DEF Spec

\* Every socket has one owner, who holds it for the uuid it was made for, and
\* active_pairs counts the pairs, however tasks interleave and pairs end.
THEOREM PairsStayExact == Spec => []PairsAreExact
<1>1. Typed => PairsAreExact
  <2> SUFFICES ASSUME Typed PROVE PairsAreExact
    OBVIOUS
  <2>1. active = Cardinality({c \in Conns : task[c] \in Paired})
    BY DEF Typed, Counted, Pairs
  <2>2. ASSUME NEW c \in Conns, NEW d \in Conns, task[d] \in Paired, c \in Couple(d)
        PROVE  /\ uuid[c] = uuid[d] /\ first[d] # d
               /\ \A u \in Uuids : pending[u] # c
               /\ \A e \in Conns \ {d} : task[e] \in Paired => c \notin Couple(e)
    <3>1. c = d \/ c = first[d]
      BY <2>2 DEF Couple
    <3>2. /\ task[first[d]] \in {"sleeps", "done"} /\ uuid[first[d]] = uuid[d]
          /\ \A u \in Uuids : pending[u] # first[d]
      BY <2>2 DEF Typed, Table, Matched
    <3>3. \A u \in Uuids : pending[u] # d
      BY <2>2 DEF Typed, Table, Placed, Paired
    <3>4. first[d] # d /\ task[first[d]] \notin Paired
      BY <2>2, <3>2 DEF Paired
    <3>5. ASSUME NEW e \in Conns \ {d}, task[e] \in Paired PROVE c \notin Couple(e)
      <4>1. task[first[e]] \in {"sleeps", "done"} /\ first[e] # first[d]
        BY <2>2, <3>5 DEF Typed, Table, Matched
      <4> QED BY <2>2, <3>1, <3>4, <3>5, <4>1 DEF Couple, Paired
    <3> QED BY <3>1, <3>2, <3>3, <3>4, <3>5
  <2> QED BY <2>1, <2>2 DEF PairsAreExact
<1> QED BY <1>1, TypeInit, TypeNext, PTL DEF Spec

-----------------------------------------------------------------------------
(* What pairs carry.  Relayed speaks of living pairs; that it holds when a *)
(* pair begins rests on what is true of connections that have none yet.    *)

\* Nothing of c was forwarded and nothing has reached it.
Unread(c) == got[c] = <<>> /\ toward[c] = <<>> /\ taken[c] = left[c]

Fresh ==
  /\ \A c \in Conns : task[c] \in {"none", "shakes", "looks", "inserts"} => Unread(c)
  /\ \A u \in Uuids : \A c \in Conns : pending[u] = c => Unread(c)

\* Left-overs are taken up as a whole.
LeftIs == \A c \in Conns : left[c] \in {0, taken[c]}

Idle == \A c \in Conns : task[c] \notin Paired \ {"pumps"} => carried[c] = <<>>

\* What task c writes to its first or second connection.
ToFirst(c) == IF task[c] \in {"answers", "carries2"} THEN carried[c] ELSE <<>>
ToSecond(c) == IF task[c] \in {"greets", "carries1"} THEN carried[c] ELSE <<>>

Flow(c) ==
  LET f == first[c]
  IN /\ (got[c] \o toward[c]) \o ToSecond(c) = Numbers(0, taken[f] - left[f])
     /\ (got[f] \o toward[f]) \o ToFirst(c) = Numbers(0, taken[c] - left[c])
     /\ left[f] > 0 => task[c] = "greets"
     /\ left[c] > 0 => task[c] \in {"greets", "answers"}

Flows == \A c \in Conns : task[c] \in Paired => Flow(c)

DataInv == Fresh /\ LeftIs /\ Idle /\ Flows

\* A pair that a step does not concern.
LEMMA FlowStays ==
  ASSUME NEW d \in Conns, Flow(d), task'[d] = task[d], first'[d] = first[d],
         carried'[d] = carried[d],
         \A e \in {d, first[d]} : /\ got'[e] = got[e] /\ toward'[e] = toward[e]
                                  /\ taken'[e] = taken[e] /\ left'[e] = left[e]
  PROVE  Flow(d)'
BY DEF Flow, ToFirst, ToSecond

\* A pair that another task is not concerned with.
LEMMA OthersAreElsewhere ==
  ASSUME Table, NEW c \in Conns, task[c] \in Paired,
         NEW d \in Conns, task[d] \in Paired, d # c
  PROVE  {d, first[d]} \cap {c, first[c]} = {}
<1>1. first[d] # first[c] /\ task[first[d]] \notin Paired /\ task[first[c]] \notin Paired
  BY DEF Table, Matched, Paired
<1> QED BY <1>1

\* Who waits or has no partner yet is in no pair.
LEMMA SingleIsElsewhere ==
  ASSUME Table, NEW c \in Conns,
         \/ task[c] \in {"none", "shakes", "looks", "inserts"}
         \/ \E u \in Uuids : pending[u] = c,
         NEW d \in Conns, task[d] \in Paired
  PROVE  c \notin {d, first[d]}
BY DEF Table, Matched, Placed, Paired

LEMMA EmptyEnd ==
  ASSUME NEW s \in Seq(Nat)
  PROVE  s \o <<>> = s
OBVIOUS

\* Numbers that go on where s ends.
LEMMA TakeKeeps ==
  ASSUME NEW s \in Seq(Nat), NEW m \in Nat, NEW n \in Nat, m <= n,
         s \o <<>> = Numbers(0, m)
  PROVE  s \o Numbers(m, n) = Numbers(0, n)
BY EmptyEnd, NumbersGoOn, Zenon

LEMMA DataInit == Init => DataInv
BY BoundsAssumption DEF Init, DataInv, Fresh, Unread, LeftIs, Idle, Flows, Paired

\* Steps that leave what pairs carry alone, and begin no pair.
LEMMA DataStays ==
  ASSUME Typed, DataInv, UNCHANGED <<first, left, taken, carried, toward, got>>,
         \A d \in Conns :
           \/ task'[d] = task[d]
           \/ /\ task[d] \notin Paired /\ task'[d] \notin Paired
              /\ task'[d] \in {"none", "shakes", "looks", "inserts"} =>
                   task[d] \in {"none", "shakes", "looks", "inserts"},
         \A u \in Uuids : \/ pending'[u] \in {pending[u], none}
                          \/ task[pending'[u]] = "inserts"
  PROVE  DataInv'
<1>1. Fresh'
  BY ConnsAssumption DEF DataInv, Fresh, Unread
<1>2. LeftIs' /\ Idle'
  BY DEF DataInv, LeftIs, Idle
<1>3. Flows'
  <2> SUFFICES ASSUME NEW d \in Conns, task'[d] \in Paired PROVE Flow(d)'
    BY DEF Flows
  <2>1. task'[d] = task[d] /\ Flow(d)
    BY DEF DataInv, Flows
  <2> QED BY <2>1, FlowStays
<1> QED BY <1>1, <1>2, <1>3 DEF DataInv

\* A pair that ends takes what it carries with it.
LEMMA DataEnd ==
  ASSUME Typed, DataInv, NEW c \in Conns, task[c] \in Paired, End(c),
         UNCHANGED <<pending, first, left, taken, toward, got>>
  PROVE  DataInv'
<1>1. \A d \in Conns : /\ task'[d] = IF d = c THEN "done" ELSE task[d]
                       /\ carried'[d] = IF d = c THEN <<>> ELSE carried[d]
  BY DEF Typed, TypeOK, End
<1>2. Fresh'
  BY <1>1 DEF DataInv, Fresh, Unread
<1>3. LeftIs' /\ Idle'
  BY <1>1 DEF DataInv, LeftIs, Idle
<1>4. Flows'
  <2> SUFFICES ASSUME NEW d \in Conns, task'[d] \in Paired PROVE Flow(d)'
    BY DEF Flows
  <2>1. d # c
    BY <1>1 DEF Paired
  <2>2. task'[d] = task[d] /\ carried'[d] = carried[d] /\ Flow(d)
    BY <1>1, <2>1 DEF DataInv, Flows
  <2> QED BY <2>2, FlowStays
<1> QED BY <1>2, <1>3, <1>4 DEF DataInv

LEMMA DataHandshake ==
  ASSUME Typed, DataInv, NEW c \in Conns, NEW u \in Uuids, Handshake(c, u)
  PROVE  DataInv'
<1>1. PICK n \in 0 .. wrote[c] : /\ left' = [left EXCEPT ![c] = n]
                                 /\ taken' = [taken EXCEPT ![c] = n]
  BY DEF Handshake
<1>2. /\ task[c] = "shakes"
      /\ \A d \in Conns : /\ task'[d] = IF d = c THEN "looks" ELSE task[d]
                          /\ left'[d] = IF d = c THEN n ELSE left[d]
                          /\ taken'[d] = IF d = c THEN n ELSE taken[d]
      /\ UNCHANGED <<pending, first, carried, toward, got>>
  BY <1>1 DEF Handshake, Typed, TypeOK
<1>3. Fresh'
  BY <1>2 DEF DataInv, Fresh, Unread
<1>4. LeftIs' /\ Idle'
  BY <1>2 DEF DataInv, LeftIs, Idle, Paired
<1>5. Flows'
  <2> SUFFICES ASSUME NEW d \in Conns, task'[d] \in Paired PROVE Flow(d)'
    BY DEF Flows
  <2>1. d # c /\ task'[d] = task[d] /\ Flow(d)
    BY <1>2 DEF DataInv, Flows, Paired
  <2>2. c \notin {d, first[d]} /\ first[d] \in Conns
    BY <1>2, <2>1, SingleIsElsewhere, FirstIsThere DEF Typed
  <2> QED BY <1>2, <2>1, <2>2, FlowStays
<1> QED BY <1>3, <1>4, <1>5 DEF DataInv

\* A new pair has carried nothing.
LEMMA DataLookup ==
  ASSUME Typed, DataInv, NEW c \in Conns, Lookup(c)
  PROVE  DataInv'
<1>1. task[c] = "looks" /\ uuid[c] \in Uuids /\ UNCHANGED <<left, taken, carried, toward, got>>
  BY DEF Lookup, Typed, Table, Asked, data
<1>2. CASE pending[uuid[c]] = none
  <2>1. /\ \A d \in Conns : task'[d] = IF d = c THEN "inserts" ELSE task[d]
        /\ UNCHANGED <<pending, first>>
    BY <1>2 DEF Lookup, Typed, TypeOK
  <2> QED BY <1>1, <2>1, DataStays DEF Paired
<1>3. CASE pending[uuid[c]] # none
  <2> DEFINE w == pending[uuid[c]]
  <2>1. w \in Conns /\ w # c
    <3>1. w \in Conns
      BY <1>1, <1>3, TaskTyped DEF Typed, TaskTypes
    <3>2. task[w] \in {"sleeps", "done"}
      BY <1>1, <3>1 DEF Typed, Table, Placed
    <3> QED BY <1>1, <3>1, <3>2
  <2>2. /\ \A d \in Conns : task'[d] = IF d = c THEN "greets" ELSE task[d]
        /\ \A d \in Conns : first'[d] = IF d = c THEN w ELSE first[d]
        /\ \A u \in Uuids : pending'[u] \in {none, pending[u]}
    BY <1>1, <1>3 DEF Lookup, Typed, TypeOK
  <2>3. Unread(w) /\ Unread(c) /\ carried[c] = <<>>
    BY <1>1, <2>1 DEF DataInv, Fresh, Idle, Paired
  <2> HIDE DEF w
  <2>4. Fresh'
    BY <1>1, <2>2, ConnsAssumption DEF DataInv, Fresh, Unread
  <2>5. LeftIs' /\ Idle'
    BY <1>1, <2>2, <2>3 DEF DataInv, LeftIs, Idle
  <2>6. Flow(c)'
    <3>1. /\ task'[c] = "greets" /\ first'[c] = w
          /\ \A e \in {c, w} : got'[e] = <<>> /\ toward'[e] = <<>> /\ taken'[e] = left'[e]
          /\ carried'[c] = <<>>
      BY <1>1, <2>1, <2>2, <2>3 DEF Unread
    <3>2. /\ taken'[w] - left'[w] = 0 /\ taken'[c] - left'[c] = 0
      BY <1>1, <2>1, <2>3, DataTypes DEF Typed, Unread
    <3>3. Numbers(0, 0) = <<>> /\ (<<>> \o <<>>) \o <<>> = <<>>
      BY NoNumbers
    <3> QED BY <3>1, <3>2, <3>3 DEF Flow, ToFirst, ToSecond
  <2>7. Flows'
    <3> SUFFICES ASSUME NEW d \in Conns, task'[d] \in Paired, d # c PROVE Flow(d)'
      BY <2>6 DEF Flows
    <3>1. task'[d] = task[d] /\ first'[d] = first[d] /\ Flow(d)
      BY <2>2 DEF DataInv, Flows
    <3> QED BY <1>1, <3>1, FlowStays
  <2> QED BY <2>4, <2>5, <2>7 DEF DataInv
<1> QED BY <1>2, <1>3

\* A step of a living pair: Flow has to be shown of this pair only.
LEMMA DataGoesOn ==
  ASSUME Typed, DataInv, NEW c \in Conns, task[c] \in Paired, Typed',
         UNCHANGED <<pending, first, got>>,
         NEW t \in Paired, task' = [task EXCEPT ![c] = t],
         t = "pumps" => carried'[c] = <<>>,
         \A d \in Conns \ {c} : carried'[d] = carried[d],
         \A e \in Conns \ {c, first[c]} :
           toward'[e] = toward[e] /\ taken'[e] = taken[e] /\ left'[e] = left[e],
         \A e \in Conns : left'[e] \in {0, taken'[e]},
         Flow(c)'
  PROVE  DataInv'
<1>1. \A d \in Conns : task'[d] = IF d = c THEN t ELSE task[d]
  BY DEF Typed, TypeOK
<1>2. /\ first[c] \in Conns /\ task[first[c]] \in {"sleeps", "done"}
      /\ \A u \in Uuids : pending[u] # first[c] /\ pending[u] # c
  BY DEF Typed, Table, Matched, Placed, Paired
<1>3. Fresh'
  BY <1>1, <1>2 DEF DataInv, Fresh, Unread, Paired
<1>4. LeftIs'
  BY DEF LeftIs
<1>5. Idle'
  BY <1>1 DEF DataInv, Idle
<1>6. Flows'
  <2> SUFFICES ASSUME NEW d \in Conns, task'[d] \in Paired, d # c PROVE Flow(d)'
    BY DEF Flows
  <2>1. task'[d] = task[d] /\ carried'[d] = carried[d] /\ first'[d] = first[d] /\ Flow(d)
    BY <1>1 DEF DataInv, Flows
  <2>2. {d, first[d]} \cap {c, first[c]} = {} /\ first[d] \in Conns
    BY <2>1, OthersAreElsewhere, FirstIsThere DEF Typed
  <2> QED BY <2>1, <2>2, FlowStays
<1> QED BY <1>3, <1>4, <1>5, <1>6 DEF DataInv

\* What is known of a pair.
LEMMA PairFacts ==
  ASSUME Typed, DataInv, NEW c \in Conns, task[c] \in Paired
  PROVE  /\ first[c] \in Conns /\ first[c] # c /\ Flow(c)
         /\ \A e \in {c, first[c]} :
              /\ taken[e] \in Nat /\ left[e] \in Nat /\ left[e] \in {0, taken[e]}
              /\ got[e] \in Seq(Nat) /\ toward[e] \in Seq(Nat) /\ carried[e] \in Seq(Nat)
              /\ got[e] \o toward[e] \in Seq(Nat)
<1>1. first[c] \in Conns /\ first[c] # c /\ Flow(c)
  BY FirstIsThere DEF Typed, DataInv, Flows
<1>2. ASSUME NEW e \in {c, first[c]}
      PROVE  /\ taken[e] \in Nat /\ left[e] \in Nat /\ left[e] \in {0, taken[e]}
             /\ got[e] \in Seq(Nat) /\ toward[e] \in Seq(Nat) /\ carried[e] \in Seq(Nat)
             /\ got[e] \o toward[e] \in Seq(Nat)
  <2>1. e \in Conns
    BY <1>1
  <2>2. /\ taken[e] \in Nat /\ left[e] \in Nat /\ left[e] \in {0, taken[e]}
        /\ got[e] \in Seq(Nat) /\ toward[e] \in Seq(Nat) /\ carried[e] \in Seq(Nat)
    BY <2>1, DataTypes DEF Typed, DataInv, LeftIs
  <2> QED BY <2>2, Whole
<1> QED BY <1>1, <1>2

LEMMA DataGreet ==
  ASSUME Typed, DataInv, NEW c \in Conns, Greet(c), Typed'
  PROVE  DataInv'
<1> DEFINE f == first[c]
<1>1. task[c] = "greets" /\ task[c] \in Paired /\ carried[c] = <<>>
      /\ UNCHANGED <<pending, first, taken, toward, got>>
  BY DEF Greet, Paired
<1>2. f \in Conns /\ f # c /\ Flow(c)
  BY <1>1, PairFacts
<1>3. /\ taken[f] \in Nat /\ left[f] \in Nat /\ left[f] \in {0, taken[f]}
      /\ got[c] \o toward[c] \in Seq(Nat) /\ got[f] \o toward[f] \in Seq(Nat)
  BY <1>1, PairFacts
<1>4. /\ (got[c] \o toward[c]) \o <<>> = Numbers(0, taken[f] - left[f])
      /\ (got[f] \o toward[f]) \o <<>> = Numbers(0, taken[c] - left[c])
      /\ left[c] > 0 => task[c] \in {"greets", "answers"}
  BY <1>1, <1>2 DEF Flow, ToFirst, ToSecond
<1> HIDE DEF f
<1>5. CASE left[f] > 0
  <2>1. /\ \A d \in Conns : carried'[d] = IF d = c THEN Numbers(0, left[f]) ELSE carried[d]
        /\ \A d \in Conns : left'[d] = IF d = f THEN 0 ELSE left[d]
        /\ task' = task
    BY <1>2, <1>5 DEF Greet, Typed, TypeOK, f
  <2>2. task' = [task EXCEPT ![c] = "greets"]
    BY <1>1, <2>1 DEF Typed, TypeOK
  <2>3. taken[f] - left[f] = 0 /\ taken[f] - 0 = left[f] /\ 0 <= left[f]
    BY <1>3, <1>5
  <2>4. (got[c] \o toward[c]) \o Numbers(0, left[f]) = Numbers(0, left[f])
    BY <1>3, <1>4, <2>3, TakeKeeps, 0 \in Nat
  <2>5. Flow(c)'
    BY <1>1, <1>2, <1>4, <2>1, <2>3, <2>4 DEF Flow, ToFirst, ToSecond, f
  <2>6. \A e \in Conns : left'[e] \in {0, taken'[e]}
    BY <1>1, <2>1 DEF DataInv, LeftIs
  <2>7. "greets" \in Paired
    BY DEF Paired
  <2> QED BY <1>1, <2>1, <2>2, <2>5, <2>6, <2>7, DataGoesOn DEF f
<1>6. CASE ~(left[f] > 0)
  <2>1. task' = [task EXCEPT ![c] = "answers"] /\ UNCHANGED <<carried, left>>
    BY <1>6 DEF Greet, f
  <2>2. task'[c] = "answers"
    BY <2>1 DEF Typed, TypeOK
  <2>3. Flow(c)'
    BY <1>1, <1>2, <1>4, <1>6, <2>1, <2>2 DEF Flow, ToFirst, ToSecond, f
  <2>4. \A e \in Conns : left'[e] \in {0, taken'[e]}
    BY <1>1, <2>1 DEF DataInv, LeftIs
  <2>5. "answers" \in Paired
    BY DEF Paired
  <2> QED BY <1>1, <2>1, <2>3, <2>4, <2>5, DataGoesOn
<1> QED BY <1>5, <1>6

LEMMA DataAnswer ==
  ASSUME Typed, DataInv, NEW c \in Conns, Answer(c), Typed'
  PROVE  DataInv'
<1> DEFINE f == first[c]
<1>1. task[c] = "answers" /\ task[c] \in Paired /\ carried[c] = <<>>
      /\ UNCHANGED <<pending, first, taken, toward, got>>
  BY DEF Answer, Paired
<1>2. f \in Conns /\ f # c /\ Flow(c)
  BY <1>1, PairFacts
<1>3. /\ taken[c] \in Nat /\ left[c] \in Nat /\ left[c] \in {0, taken[c]}
      /\ got[c] \o toward[c] \in Seq(Nat) /\ got[f] \o toward[f] \in Seq(Nat)
  BY <1>1, PairFacts
<1>4. /\ (got[c] \o toward[c]) \o <<>> = Numbers(0, taken[f] - left[f])
      /\ (got[f] \o toward[f]) \o <<>> = Numbers(0, taken[c] - left[c])
      /\ ~(left[f] > 0)
  BY <1>1, <1>2 DEF Flow, ToFirst, ToSecond
<1> HIDE DEF f
<1>5. CASE left[c] > 0
  <2>1. /\ \A d \in Conns : carried'[d] = IF d = c THEN Numbers(0, left[c]) ELSE carried[d]
        /\ \A d \in Conns : left'[d] = IF d = c THEN 0 ELSE left[d]
        /\ task' = task
    BY <1>2, <1>5 DEF Answer, Typed, TypeOK
  <2>2. task' = [task EXCEPT ![c] = "answers"]
    BY <1>1, <2>1 DEF Typed, TypeOK
  <2>3. taken[c] - left[c] = 0 /\ taken[c] - 0 = left[c] /\ 0 <= left[c]
    BY <1>3, <1>5
  <2>4. (got[f] \o toward[f]) \o Numbers(0, left[c]) = Numbers(0, left[c])
    BY <1>3, <1>4, <2>3, TakeKeeps, 0 \in Nat
  <2>5. Flow(c)'
    BY <1>1, <1>2, <1>4, <2>1, <2>3, <2>4 DEF Flow, ToFirst, ToSecond, f
  <2>6. \A e \in Conns : left'[e] \in {0, taken'[e]}
    BY <1>1, <2>1 DEF DataInv, LeftIs
  <2>7. "answers" \in Paired
    BY DEF Paired
  <2> QED BY <1>1, <2>1, <2>2, <2>5, <2>6, <2>7, DataGoesOn
<1>6. CASE ~(left[c] > 0)
  <2>1. task' = [task EXCEPT ![c] = "pumps"] /\ UNCHANGED <<carried, left>>
    BY <1>6 DEF Answer
  <2>2. task'[c] = "pumps"
    BY <2>1 DEF Typed, TypeOK
  <2>3. Flow(c)'
    BY <1>1, <1>2, <1>4, <1>6, <2>1, <2>2 DEF Flow, ToFirst, ToSecond, f
  <2>4. \A e \in Conns : left'[e] \in {0, taken'[e]}
    BY <1>1, <2>1 DEF DataInv, LeftIs
  <2>5. "pumps" \in Paired
    BY DEF Paired
  <2> QED BY <1>1, <2>1, <2>3, <2>4, <2>5, DataGoesOn
<1> QED BY <1>5, <1>6

LEMMA DataTake ==
  ASSUME Typed, DataInv, NEW c \in Conns, NEW side \in {"carries1", "carries2"},
         Take(c, side), Typed'
  PROVE  DataInv'
<1> DEFINE f == first[c]
           from == IF side = "carries1" THEN f ELSE c
           to == IF side = "carries1" THEN c ELSE f
<1>1. task[c] = "pumps" /\ task[c] \in Paired
      /\ UNCHANGED <<pending, first, left, toward, got>>
      /\ task' = [task EXCEPT ![c] = side] /\ side \in Paired
  BY DEF Take, Paired
<1>2. f \in Conns /\ f # c /\ Flow(c) /\ from \in {c, f} /\ to \in {c, f}
  BY <1>1, PairFacts
<1>3. PICK n \in taken[from] + 1 .. wrote[from] :
        /\ carried' = [carried EXCEPT ![c] = Numbers(taken[from], n)]
        /\ taken' = [taken EXCEPT ![from] = n]
  BY DEF Take
<1> HIDE DEF from, to
<1>4. /\ taken[from] \in Nat /\ n \in Nat /\ taken[from] <= n
      /\ got[to] \o toward[to] \in Seq(Nat)
      /\ \A e \in {c, f} : taken[e] \in Nat /\ left[e] \in Nat
  <2>1. from \in Conns
    BY <1>2
  <2>2. taken[from] \in Nat /\ wrote[from] \in Nat
    BY <2>1, DataTypes DEF Typed
  <2> QED BY <2>2, <1>1, <1>2, PairFacts
<1>5. /\ \A e \in {c, f} : left[e] = 0 /\ taken[e] - left[e] = taken[e]
      /\ (got[c] \o toward[c]) \o <<>> = Numbers(0, taken[f])
      /\ (got[f] \o toward[f]) \o <<>> = Numbers(0, taken[c])
  <2>1. left[c] = 0 /\ left[f] = 0
    BY <1>1, <1>2, <1>4 DEF Flow
  <2>2. taken[c] - left[c] = taken[c] /\ taken[f] - left[f] = taken[f]
    BY <2>1, <1>4
  <2> QED BY <1>1, <1>2, <2>1, <2>2 DEF Flow, ToFirst, ToSecond
<1>6. (got[to] \o toward[to]) \o Numbers(taken[from], n) = Numbers(0, n)
  <2>1. (got[to] \o toward[to]) \o <<>> = Numbers(0, taken[from])
    BY <1>5 DEF to, from
  <2> QED BY <1>4, <2>1, TakeKeeps
<1>7. /\ task'[c] = side
      /\ \A d \in Conns : carried'[d] = IF d = c THEN Numbers(taken[from], n) ELSE carried[d]
      /\ \A d \in Conns : taken'[d] = IF d = from THEN n ELSE taken[d]
  BY <1>1, <1>3 DEF Typed, TypeOK
<1>8. Flow(c)'
  <2>1. n - 0 = n /\ taken'[c] - left'[c] = taken'[c] /\ taken'[f] - left'[f] = taken'[f]
        /\ ~(left'[c] > 0) /\ ~(left'[f] > 0) /\ f' = f
    BY <1>1, <1>2, <1>4, <1>5, <1>7
  <2>2. CASE side = "carries1"
    BY <2>1, <2>2, <1>1, <1>2, <1>5, <1>6, <1>7 DEF Flow, ToFirst, ToSecond, from, to
  <2>3. CASE side = "carries2"
    BY <2>1, <2>3, <1>1, <1>2, <1>5, <1>6, <1>7 DEF Flow, ToFirst, ToSecond, from, to
  <2> QED BY <2>2, <2>3
<1>9. \A e \in Conns : left'[e] \in {0, taken'[e]}
  BY <1>1, <1>2, <1>5, <1>7 DEF DataInv, LeftIs
<1> QED BY <1>1, <1>2, <1>7, <1>8, <1>9, DataGoesOn DEF from

LEMMA DataPut ==
  ASSUME Typed, DataInv, NEW c \in Conns, Put(c), Typed'
  PROVE  DataInv'
<1> DEFINE f == first[c]
           d == Target(c)
           t == task'[c]
<1>1. task[c] \in Paired \ {"pumps"} /\ carried[c] # <<>>
      /\ UNCHANGED <<pending, first, taken, left, got>>
  BY DEF Put, Writes
<1>2. f \in Conns /\ f # c /\ Flow(c) /\ d \in {c, f}
  BY <1>1, PairFacts DEF Target
<1>3. /\ d = IF task[c] \in {"greets", "carries1"} THEN c ELSE f
      /\ \A e \in Conns : toward'[e] = IF e = d THEN Append(toward[d], Head(carried[c]))
                                                 ELSE toward[e]
      /\ \A e \in Conns : carried'[e] = IF e = c THEN Tail(carried[c]) ELSE carried[e]
      /\ \/ /\ Len(carried[c]) = 1 /\ task[c] \in {"carries1", "carries2"}
            /\ task' = [task EXCEPT ![c] = "pumps"]
         \/ task' = task
  BY <1>2 DEF Put, Target, Typed, TypeOK
<1> HIDE DEF d
<1>4. /\ Len(carried[c]) = 1 => Tail(carried[c]) = <<>>
      /\ (got[d] \o Append(toward[d], Head(carried[c]))) \o Tail(carried[c])
         = (got[d] \o toward[d]) \o carried[c]
  <2>1. got[d] \in Seq(Nat) /\ toward[d] \in Seq(Nat) /\ carried[c] \in Seq(Nat)
    BY <1>1, <1>2, PairFacts
  <2>2. carried[c] # <<>>
    BY <1>1
  <2>3. Len(carried[c]) = 1 => Tail(carried[c]) = <<>>
    BY <2>1, <2>2, HeadAndTail
  <2>4. (got[d] \o Append(toward[d], Head(carried[c]))) \o Tail(carried[c])
        = (got[d] \o toward[d]) \o carried[c]
    BY <2>1, <2>2, PutKeeps, Zenon
  <2> QED BY <2>3, <2>4
<1>5. /\ t \in {"pumps", task[c]} /\ t \in Paired /\ task' = [task EXCEPT ![c] = t]
      /\ t # task[c] => carried'[c] = <<>> /\ task[c] \in {"carries1", "carries2"}
      /\ t = "pumps" => carried'[c] = <<>>
  BY <1>1, <1>3, <1>4 DEF Typed, TypeOK, Paired
<1> HIDE DEF t
<1>6. Flow(c)'
  <2>1. /\ left[f] > 0 => task[c] = "greets"
        /\ left[c] > 0 => task[c] \in {"greets", "answers"}
    BY <1>2 DEF Flow
  <2>2. /\ left'[f] > 0 => t = "greets"
        /\ left'[c] > 0 => t \in {"greets", "answers"}
    BY <1>1, <1>5, <2>1
  <2>3. task'[c] = t /\ first'[c] = f
    BY <1>1 DEF t
  <2>4. CASE task[c] \in {"greets", "carries1"}
    <3>1. /\ d = c /\ ToSecond(c) = carried[c] /\ ToFirst(c) = <<>>
          /\ (got[c] \o toward[c]) \o carried[c] = Numbers(0, taken[f] - left[f])
          /\ (got[f] \o toward[f]) \o <<>> = Numbers(0, taken[c] - left[c])
      BY <1>2, <1>3, <2>4 DEF Flow, ToFirst, ToSecond
    <3>2. ToFirst(c)' = <<>> /\ ToSecond(c)' = carried'[c] /\ carried'[c] = Tail(carried[c])
      BY <1>3, <1>5, <2>3, <2>4 DEF ToFirst, ToSecond
    <3>3. toward'[c] = Append(toward[c], Head(carried[c])) /\ toward'[f] = toward[f]
      BY <1>2, <1>3, <3>1
    <3>4. /\ (got'[c] \o toward'[c]) \o ToSecond(c)' = Numbers(0, taken'[f] - left'[f])
          /\ (got'[f] \o toward'[f]) \o ToFirst(c)' = Numbers(0, taken'[c] - left'[c])
      BY <1>1, <1>4, <3>1, <3>2, <3>3
    <3> QED BY <2>2, <2>3, <3>4 DEF Flow
  <2>5. CASE task[c] \in {"answers", "carries2"}
    <3>1. /\ d = f /\ ToFirst(c) = carried[c] /\ ToSecond(c) = <<>>
          /\ (got[f] \o toward[f]) \o carried[c] = Numbers(0, taken[c] - left[c])
          /\ (got[c] \o toward[c]) \o <<>> = Numbers(0, taken[f] - left[f])
      BY <1>2, <1>3, <2>5 DEF Flow, ToFirst, ToSecond
    <3>2. ToSecond(c)' = <<>> /\ ToFirst(c)' = carried'[c] /\ carried'[c] = Tail(carried[c])
      BY <1>3, <1>5, <2>3, <2>5 DEF ToFirst, ToSecond
    <3>3. toward'[f] = Append(toward[f], Head(carried[c])) /\ toward'[c] = toward[c]
      BY <1>2, <1>3, <3>1
    <3>4. /\ (got'[f] \o toward'[f]) \o ToFirst(c)' = Numbers(0, taken'[c] - left'[c])
          /\ (got'[c] \o toward'[c]) \o ToSecond(c)' = Numbers(0, taken'[f] - left'[f])
      BY <1>1, <1>4, <3>1, <3>2, <3>3
    <3> QED BY <2>2, <2>3, <3>4 DEF Flow
  <2> QED BY <1>1, <2>4, <2>5 DEF Paired
<1>7. \A e \in Conns : left'[e] \in {0, taken'[e]}
  BY <1>1 DEF DataInv, LeftIs
<1>8. /\ \A e \in Conns \ {c} : carried'[e] = carried[e]
      /\ \A e \in Conns \ {c, first[c]} :
           toward'[e] = toward[e] /\ taken'[e] = taken[e] /\ left'[e] = left[e]
  BY <1>1, <1>2, <1>3
<1> QED BY <1>1, <1>5, <1>6, <1>7, <1>8, DataGoesOn

\* What a client reads was on the way to it.
LEMMA DataRead ==
  ASSUME Typed, DataInv, NEW c \in Conns, Read(c)
  PROVE  DataInv'
<1>1. /\ toward[c] # <<>>
      /\ \A d \in Conns : got'[d] = IF d = c THEN Append(got[c], Head(toward[c])) ELSE got[d]
      /\ \A d \in Conns : toward'[d] = IF d = c THEN Tail(toward[c]) ELSE toward[d]
      /\ UNCHANGED <<task, pending, first, left, taken, carried>>
  BY DEF Read, Typed, TypeOK, table
<1>2. \A d \in Conns : got'[d] \o toward'[d] = got[d] \o toward[d]
  <2>1. got[c] \in Seq(Nat) /\ toward[c] \in Seq(Nat)
    BY DataTypes DEF Typed
  <2>2. Append(got[c], Head(toward[c])) \o Tail(toward[c]) = got[c] \o toward[c]
    BY <1>1, <2>1, ReadKeeps
  <2> QED BY <1>1, <2>2
<1>3. ~Unread(c)
  BY <1>1 DEF Unread
<1>4. Fresh'
  BY <1>1, <1>3 DEF DataInv, Fresh, Unread
<1>5. LeftIs' /\ Idle'
  BY <1>1 DEF DataInv, LeftIs, Idle
<1>6. Flows'
  <2> SUFFICES ASSUME NEW d \in Conns, task'[d] \in Paired PROVE Flow(d)'
    BY DEF Flows
  <2>1. Flow(d) /\ first[d] \in Conns
    BY <1>1, FirstIsThere DEF DataInv, Flows, Typed
  <2>2. ToFirst(d)' = ToFirst(d) /\ ToSecond(d)' = ToSecond(d)
    BY <1>1 DEF ToFirst, ToSecond
  <2>3. /\ got'[d] \o toward'[d] = got[d] \o toward[d]
        /\ got'[first[d]] \o toward'[first[d]] = got[first[d]] \o toward[first[d]]
    BY <1>2, <2>1
  <2> QED BY <1>1, <2>1, <2>2, <2>3 DEF Flow
<1> QED BY <1>4, <1>5, <1>6 DEF DataInv

LEMMA DataNext ==
  ASSUME Typed, DataInv, [Next]_vars
  PROVE  DataInv'
<1>0. Typed'
  BY TypeNext
<1>1. ASSUME NEW c \in Conns, PutFails(c) \/ Eof(c) \/ IdleTick(c)
      PROVE  DataInv'
  <2>1. task[c] \in Paired
    BY <1>1 DEF PutFails, Eof, IdleTick, Writes, Paired
  <2> QED BY <1>1, <2>1, DataEnd DEF PutFails, Eof, IdleTick
<1>2. ASSUME NEW c \in Conns, Abort(c) PROVE DataInv'
  <2>1. CASE task[c] \in Paired
    BY <1>2, <2>1, DataEnd DEF Abort
  <2>2. CASE task[c] \notin Paired
    <3>1. /\ \A d \in Conns : task'[d] = IF d = c THEN "done" ELSE task[d]
          /\ UNCHANGED <<first, left, taken, carried, toward, got, pending>>
      BY <1>2, <2>2 DEF Abort, Typed, TypeOK
    <3> QED BY <2>2, <3>1, DataStays DEF Paired
  <2> QED BY <2>1, <2>2
<1>3. ASSUME NEW c \in Conns, Accept(c) \/ Refuse(c) PROVE DataInv'
  <2>1. /\ task[c] \in {"none", "shakes"}
        /\ \/ task' = [task EXCEPT ![c] = "shakes"]
           \/ task' = [task EXCEPT ![c] = "done"] /\ task[c] = "shakes"
        /\ UNCHANGED <<first, left, taken, carried, toward, got, pending>>
    BY <1>3 DEF Accept, Refuse, data
  <2>2. \A d \in Conns : task'[d] = task[d] \/ (d = c /\ task'[d] \in {"shakes", "done"})
    BY <2>1, TaskTyped DEF Typed, TaskTypes
  <2> QED BY <2>1, <2>2, DataStays DEF Paired
<1>4. ASSUME NEW c \in Conns, Insert(c) PROVE DataInv'
  <2>1. /\ task[c] = "inserts"
        /\ \A d \in Conns : task'[d] = IF d = c THEN "sleeps" ELSE task[d]
        /\ \A u \in Uuids : pending'[u] \in {c, pending[u]}
        /\ UNCHANGED <<first, left, taken, carried, toward, got>>
    BY <1>4 DEF Insert, Typed, TypeOK, data
  <2> QED BY <2>1, DataStays DEF Paired
<1>5. ASSUME NEW c \in Conns, Expire(c) PROVE DataInv'
  <2>1. /\ task[c] = "sleeps"
        /\ \A d \in Conns : task'[d] = IF d = c THEN "done" ELSE task[d]
        /\ \A u \in Uuids : pending'[u] \in {none, pending[u]}
        /\ UNCHANGED <<first, left, taken, carried, toward, got>>
    BY <1>5 DEF Expire, Typed, TypeOK, data
  <2> QED BY <2>1, DataStays DEF Paired
<1>6. ASSUME Ended PROVE DataInv'
  <2>1. /\ \A u \in Uuids : pending'[u] \in {none, pending[u]}
        /\ UNCHANGED <<task, first, left, taken, carried, toward, got>>
    BY <1>6 DEF Ended, data
  <2> QED BY <2>1, DataStays
<1>7. ASSUME \/ \E c \in Conns : FallQuiet(c) \/ Write(c) \/ Leave(c)
             \/ Stop \/ UNCHANGED vars
      PROVE  DataInv'
  <2>1. UNCHANGED <<task, first, left, taken, carried, toward, got, pending>>
    BY <1>7 DEF FallQuiet, Write, Leave, Stop, vars, table, data
  <2> QED BY <2>1, DataStays
<1> QED BY <1>0, <1>1, <1>2, <1>3, <1>4, <1>5, <1>6, <1>7, DataHandshake, DataLookup,
           DataGreet, DataAnswer, DataTake, DataPut, DataRead DEF Next, TaskStep

\* What reaches a client of a living pair is what its partner wrote after its
\* handshake, in order, without gaps and with nothing lost that was read.
THEOREM PairsRelay == Spec => []Relayed
<1>1. Typed /\ DataInv => Relayed
  <2> SUFFICES ASSUME Typed, DataInv, NEW c \in Conns, task[c] \in Paired,
                      NEW d \in Couple(c)
               PROVE  LET from == CHOOSE e \in Couple(c) : e # d
                          now == IF Writes(c) /\ Target(c) = d THEN carried[c] ELSE <<>>
                      IN got[d] \o toward[d] \o now = Numbers(0, taken[from] - left[from])
    BY DEF Relayed
  <2> DEFINE f == first[c]
             from == CHOOSE e \in Couple(c) : e # d
             now == IF Writes(c) /\ Target(c) = d THEN carried[c] ELSE <<>>
  <2>1. f # c /\ Flow(c) /\ d \in {c, f}
    BY PairFacts DEF Couple
  <2>2. from = IF d = c THEN f ELSE c
    BY <2>1 DEF Couple
  <2>3. task[c] = "pumps" => carried[c] = <<>>
    BY DEF DataInv, Idle
  <2>4. now = IF d = c THEN ToSecond(c) ELSE ToFirst(c)
    BY <2>1, <2>3 DEF Writes, Target, ToFirst, ToSecond, Paired
  <2> HIDE DEF from, now
  <2>5. got[d] \o toward[d] \o now = Numbers(0, taken[from] - left[from])
    BY <2>1, <2>2, <2>4 DEF Flow
  <2> QED BY <2>5 DEF from, now
<1>2. Init => Typed /\ DataInv
  BY TypeInit, DataInit
<1>3. Typed /\ DataInv /\ [Next]_vars => Typed' /\ DataInv'
  BY TypeNext, DataNext
<1> QED BY <1>1, <1>2, <1>3, PTL DEF Spec
=============================================================================
