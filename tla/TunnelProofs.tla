---------------------------- MODULE TunnelProofs ----------------------------
(***************************************************************************)
(* Each direction of a tunnel implements Pipe, for any tunnels, capacities *)
(* and numbers of messages.  What has been read, what waits at the reader  *)
(* and what is queued are the numbers from 1 on without a gap, as far as   *)
(* the reader is still served; while the connection is up they reach what  *)
(* has been written, and before a Close they do so in any case.            *)
(***************************************************************************)
EXTENDS Tunnel, TLAPS

-----------------------------------------------------------------------------
(* A queue that carries the data of several tunnels.                       *)

DataOf(m, c) == m.type = "data" /\ m.cid = c
Carries(m, c, n) == m.type = "data" /\ m.cid = c /\ m.n = n
Is(m, t, c) == m.type = t /\ m.cid = c
Queued(q, t, c) == \E i \in 1..Len(q) : Is(q[i], t, c)
Single(q, t, c) == \A i, j \in 1..Len(q) : Is(q[i], t, c) /\ Is(q[j], t, c) => i = j
Below(q, c, w) == \A i \in 1..Len(q) : DataOf(q[i], c) => q[i].n <= w

\* The first i messages reach number w, when k have been taken out before.
Reaches(q, i, c, k, w) == w = k \/ \E j \in 1..i : Carries(q[j], c, w)

\* Item i follows what was taken out, or another item before it.
InLine(q, i, c, k, w) ==
  /\ k < q[i].n /\ q[i].n <= w
  /\ q[i].n = k + 1 \/ \E j \in 1..i-1 : Carries(q[j], c, q[i].n - 1)
  /\ \A j \in 1..i-1 : DataOf(q[j], c) => q[j].n < q[i].n

\* Message i, a Close, has all data before it.
IsLast(q, i, c, k, w) ==
  /\ Reaches(q, i - 1, c, k, w)
  /\ \A j \in i+1..Len(q) : ~DataOf(q[j], c)

Line(q, c, k, w) ==
  /\ \A i \in 1..Len(q) : DataOf(q[i], c) => InLine(q, i, c, k, w)
  /\ \A i \in 1..Len(q) : Is(q[i], "close", c) => IsLast(q, i, c, k, w)

\* What a reader relies on: nothing is missing, and nothing was lost before the
\* connection is.
Served(q, s, c, k, w) ==
  /\ Line(q, c, k, w)
  /\ s = "up" => Reaches(q, Len(q), c, k, w)

LEMMA TailFacts ==
  ASSUME NEW q \in Seq(Msgs), q # <<>>
  PROVE  /\ Tail(q) \in Seq(Msgs) /\ Head(q) \in Msgs /\ Head(q) = q[1]
         /\ Len(q) \in Nat /\ Len(q) > 0 /\ Len(Tail(q)) = Len(q) - 1
         /\ \A i \in 1..Len(q) - 1 : Tail(q)[i] = q[i + 1]
  OBVIOUS

LEMMA AppendFacts ==
  ASSUME NEW q \in Seq(Msgs), NEW m \in Msgs
  PROVE  /\ Append(q, m) \in Seq(Msgs)
         /\ Len(q) \in Nat /\ Len(Append(q, m)) = Len(q) + 1
         /\ \A i \in 1..Len(q) : Append(q, m)[i] = q[i]
         /\ Append(q, m)[Len(q) + 1] = m
  OBVIOUS

LEMMA PrefixFacts ==
  ASSUME NEW q \in Seq(Msgs), NEW n \in 0..Len(q)
  PROVE  /\ SubSeq(q, 1, n) \in Seq(Msgs)
         /\ Len(q) \in Nat /\ Len(SubSeq(q, 1, n)) = n
         /\ \A i \in 1..n : SubSeq(q, 1, n)[i] = q[i]
  OBVIOUS

LEMMA DataFacts ==
  ASSUME NEW q \in Seq(Msgs), NEW i \in 1..Len(q), q[i].type = "data"
  PROVE  q[i].cid \in Cids /\ q[i].n \in Ns
<1>1. q[i] \in Msgs
  OBVIOUS
<1> QED BY <1>1 DEF Msgs

\* The head is taken out: the data of others, or no data.
LEMMA LineSkips ==
  ASSUME NEW q \in Seq(Msgs), NEW c, NEW k \in Nat, NEW w \in Nat,
         q # <<>>, ~DataOf(Head(q), c), Line(q, c, k, w)
  PROVE  /\ Line(Tail(q), c, k, w)
         /\ Reaches(q, Len(q), c, k, w) => Reaches(Tail(q), Len(Tail(q)), c, k, w)
<1> DEFINE t == Tail(q)
<1>1. /\ Len(q) \in Nat /\ Len(t) = Len(q) - 1 /\ ~DataOf(q[1], c)
      /\ \A i \in 1..Len(q) - 1 : t[i] = q[i + 1]
  BY TailFacts
<1> HIDE DEF t
<1>2. ASSUME NEW i \in 1..Len(t) + 1, NEW n, \E j \in 1..(i+1)-1 : Carries(q[j], c, n)
      PROVE  \E j \in 1..i-1 : Carries(t[j], c, n)
  <2>1. PICK j \in 1..(i+1)-1 : Carries(q[j], c, n)
    BY <1>2
  <2>2. j # 1
    BY <1>1, <2>1 DEF Carries, DataOf
  <2>3. j - 1 \in 1..i-1 /\ t[j - 1] = q[j]
    BY <1>1, <2>2
  <2> QED BY <2>1, <2>3
<1>3. ASSUME NEW i \in 1..Len(t), DataOf(t[i], c)
      PROVE  InLine(t, i, c, k, w)
  <2>1. i + 1 \in 1..Len(q) /\ t[i] = q[i + 1] /\ InLine(q, i + 1, c, k, w)
    BY <1>1, <1>3 DEF Line
  <2>2. ASSUME NEW j \in 1..i-1, DataOf(t[j], c)
        PROVE  t[j].n < t[i].n
    <3>1. j + 1 \in 1..(i+1)-1 /\ t[j] = q[j + 1]
      BY <1>1
    <3> QED BY <2>1, <2>2, <3>1 DEF InLine
  <2>3. i \in 1..Len(t) + 1
    BY <1>1
  <2> QED BY <1>2, <2>1, <2>2, <2>3 DEF InLine
<1>4. ASSUME NEW i \in 1..Len(t), Is(t[i], "close", c)
      PROVE  IsLast(t, i, c, k, w)
  <2>1. i + 1 \in 1..Len(q) /\ t[i] = q[i + 1] /\ IsLast(q, i + 1, c, k, w)
    BY <1>1, <1>4 DEF Line
  <2>2. Reaches(t, i - 1, c, k, w)
    <3>1. i \in 1..Len(t) + 1
      BY <1>1
    <3> QED BY <1>2, <2>1, <3>1 DEF IsLast, Reaches
  <2>3. ASSUME NEW j \in i+1..Len(t)
        PROVE  ~DataOf(t[j], c)
    <3>1. j + 1 \in (i+1)+1..Len(q) /\ t[j] = q[j + 1]
      BY <1>1
    <3> QED BY <2>1, <3>1 DEF IsLast
  <2> QED BY <2>2, <2>3 DEF IsLast
<1>5. Reaches(q, Len(q), c, k, w) => Reaches(t, Len(t), c, k, w)
  <2>1. Len(t) + 1 \in 1..Len(t) + 1 /\ Len(q) = ((Len(t) + 1) + 1) - 1
        /\ Len(t) = (Len(t) + 1) - 1
    BY <1>1
  <2> QED BY <1>2, <2>1 DEF Reaches
<1> QED BY <1>3, <1>4, <1>5 DEF Line, t

\* The head is taken out and is the next number.
LEMMA LineTakes ==
  ASSUME NEW q \in Seq(Msgs), NEW c, NEW k \in Nat, NEW w \in Nat,
         q # <<>>, DataOf(Head(q), c), Line(q, c, k, w)
  PROVE  /\ Head(q).n = k + 1 /\ k + 1 <= w
         /\ Line(Tail(q), c, k + 1, w)
         /\ Reaches(q, Len(q), c, k, w) => Reaches(Tail(q), Len(Tail(q)), c, k + 1, w)
<1> DEFINE t == Tail(q)
<1>1. /\ Len(q) \in Nat /\ Len(q) > 0 /\ Len(t) = Len(q) - 1 /\ Head(q) = q[1]
      /\ \A i \in 1..Len(q) - 1 : t[i] = q[i + 1]
  BY TailFacts
<1>2. 1 \in 1..Len(q) /\ InLine(q, 1, c, k, w)
  BY <1>1 DEF Line
<1>3. q[1].n = k + 1 /\ k + 1 <= w /\ Carries(q[1], c, k + 1)
  BY <1>1, <1>2 DEF InLine, Carries, DataOf
<1> HIDE DEF t
<1>4. ASSUME NEW i \in 1..Len(t) + 1, NEW n, n # k + 1,
             \E j \in 1..(i+1)-1 : Carries(q[j], c, n)
      PROVE  \E j \in 1..i-1 : Carries(t[j], c, n)
  <2>1. PICK j \in 1..(i+1)-1 : Carries(q[j], c, n)
    BY <1>4
  <2>2. j # 1
    BY <1>3, <1>4, <2>1 DEF Carries
  <2>3. j - 1 \in 1..i-1 /\ t[j - 1] = q[j]
    BY <1>1, <2>2
  <2> QED BY <2>1, <2>3
<1>5. ASSUME NEW i \in 1..Len(t), DataOf(t[i], c)
      PROVE  InLine(t, i, c, k + 1, w)
  <2>1. i + 1 \in 1..Len(q) /\ t[i] = q[i + 1] /\ InLine(q, i + 1, c, k, w)
    BY <1>1, <1>5 DEF Line
  <2>2. t[i].n \in Nat
    BY <1>5, <2>1, DataFacts DEF DataOf, Ns
  <2>3. k + 1 < t[i].n /\ t[i].n <= w
    <3>1. 1 \in 1..(i+1)-1 /\ DataOf(q[1], c)
      BY <1>1
    <3> QED BY <1>3, <2>1, <2>2, <3>1 DEF InLine
  <2>4. t[i].n = (k + 1) + 1 \/ \E j \in 1..i-1 : Carries(t[j], c, t[i].n - 1)
    <3>1. CASE t[i].n - 1 = k + 1
      BY <2>2, <3>1
    <3>2. CASE t[i].n - 1 # k + 1
      <4>1. \E j \in 1..(i+1)-1 : Carries(q[j], c, t[i].n - 1)
        BY <2>1, <2>2, <2>3 DEF InLine
      <4>2. i \in 1..Len(t) + 1
        BY <1>1
      <4> QED BY <1>4, <3>2, <4>1, <4>2
    <3> QED BY <3>1, <3>2
  <2>5. ASSUME NEW j \in 1..i-1, DataOf(t[j], c)
        PROVE  t[j].n < t[i].n
    <3>1. j + 1 \in 1..(i+1)-1 /\ t[j] = q[j + 1]
      BY <1>1
    <3> QED BY <2>1, <2>5, <3>1 DEF InLine
  <2> QED BY <2>3, <2>4, <2>5 DEF InLine
<1>6. ASSUME NEW i \in 1..Len(t), Is(t[i], "close", c)
      PROVE  IsLast(t, i, c, k + 1, w)
  <2>1. i + 1 \in 1..Len(q) /\ t[i] = q[i + 1] /\ IsLast(q, i + 1, c, k, w)
    BY <1>1, <1>6 DEF Line
  <2>2. Reaches(t, i - 1, c, k + 1, w)
    <3>1. w # k
      BY <1>3
    <3>2. \E j \in 1..(i+1)-1 : Carries(q[j], c, w)
      BY <2>1, <3>1 DEF IsLast, Reaches
    <3>3. i \in 1..Len(t) + 1
      BY <1>1
    <3> QED BY <1>4, <3>2, <3>3 DEF Reaches
  <2>3. ASSUME NEW j \in i+1..Len(t)
        PROVE  ~DataOf(t[j], c)
    <3>1. j + 1 \in (i+1)+1..Len(q) /\ t[j] = q[j + 1]
      BY <1>1
    <3> QED BY <2>1, <3>1 DEF IsLast
  <2> QED BY <2>2, <2>3 DEF IsLast
<1>7. Reaches(q, Len(q), c, k, w) => Reaches(t, Len(t), c, k + 1, w)
  <2>1. Len(t) + 1 \in 1..Len(t) + 1 /\ Len(q) = ((Len(t) + 1) + 1) - 1
        /\ Len(t) = (Len(t) + 1) - 1
    BY <1>1
  <2>2. w # k
    BY <1>3
  <2> QED BY <1>4, <2>1, <2>2 DEF Reaches
<1> QED BY <1>1, <1>3, <1>5, <1>6, <1>7 DEF Line, t

\* A message is queued that is no data of c; its Close waits for all data.
LEMMA LineGrows ==
  ASSUME NEW q \in Seq(Msgs), NEW m \in Msgs, NEW c, NEW k \in Nat, NEW w \in Nat,
         ~DataOf(m, c), Line(q, c, k, w),
         Is(m, "close", c) => Reaches(q, Len(q), c, k, w)
  PROVE  /\ Line(Append(q, m), c, k, w)
         /\ Reaches(q, Len(q), c, k, w) =>
              Reaches(Append(q, m), Len(Append(q, m)), c, k, w)
<1> DEFINE a == Append(q, m)
<1>1. /\ Len(q) \in Nat /\ Len(a) = Len(q) + 1 /\ a[Len(q) + 1] = m
      /\ \A i \in 1..Len(q) : a[i] = q[i]
  BY AppendFacts
<1> HIDE DEF a
<1>2. ASSUME NEW i \in 1..Len(a), DataOf(a[i], c)
      PROVE  InLine(a, i, c, k, w)
  <2>1. i \in 1..Len(q) /\ InLine(q, i, c, k, w)
    BY <1>1, <1>2 DEF Line
  <2> QED BY <1>1, <2>1 DEF InLine
<1>3. ASSUME NEW i \in 1..Len(a), Is(a[i], "close", c)
      PROVE  IsLast(a, i, c, k, w)
  <2>1. CASE i \in 1..Len(q)
    <3>1. IsLast(q, i, c, k, w)
      BY <1>1, <1>3, <2>1 DEF Line
    <3> QED BY <1>1, <2>1, <3>1 DEF IsLast, Reaches
  <2>2. CASE i = Len(q) + 1
    BY <1>1, <1>3, <2>2 DEF IsLast, Reaches
  <2> QED BY <1>1, <2>1, <2>2
<1>4. Reaches(q, Len(q), c, k, w) => Reaches(a, Len(a), c, k, w)
  BY <1>1 DEF Reaches
<1> QED BY <1>2, <1>3, <1>4 DEF Line, a

\* The next number is queued, and no Close is there.
LEMMA LineExtends ==
  ASSUME NEW q \in Seq(Msgs), NEW m \in Msgs, NEW c, NEW k \in Nat, NEW w \in Nat,
         Carries(m, c, w + 1), Line(q, c, k, w), k <= w,
         ~Queued(q, "close", c), Reaches(q, Len(q), c, k, w)
  PROVE  /\ Line(Append(q, m), c, k, w + 1)
         /\ Reaches(Append(q, m), Len(Append(q, m)), c, k, w + 1)
<1> DEFINE a == Append(q, m)
<1>1. /\ Len(q) \in Nat /\ Len(a) = Len(q) + 1 /\ a[Len(q) + 1] = m
      /\ \A i \in 1..Len(q) : a[i] = q[i]
  BY AppendFacts
<1> HIDE DEF a
<1>2. ASSUME NEW i \in 1..Len(a), DataOf(a[i], c)
      PROVE  InLine(a, i, c, k, w + 1)
  <2>1. CASE i \in 1..Len(q)
    <3>1. InLine(q, i, c, k, w) /\ q[i].n \in Nat
      BY <1>1, <1>2, <2>1, DataFacts DEF Line, DataOf, Ns
    <3> QED BY <1>1, <2>1, <3>1 DEF InLine
  <2>2. CASE i = Len(q) + 1
    <3>1. \A j \in 1..i-1 : a[j] = q[j] /\ j \in 1..Len(q)
      BY <1>1, <2>2
    <3>2. a[i].n = w + 1
      BY <1>1, <2>2 DEF Carries
    <3>3. a[i].n = k + 1 \/ \E j \in 1..i-1 : Carries(a[j], c, a[i].n - 1)
      BY <1>1, <2>2, <3>1, <3>2 DEF Reaches
    <3>4. ASSUME NEW j \in 1..i-1, DataOf(a[j], c)
          PROVE  a[j].n < a[i].n
      <4>1. InLine(q, j, c, k, w) /\ q[j].n \in Nat
        BY <3>1, <3>4, DataFacts DEF Line, DataOf, Ns
      <4> QED BY <3>1, <3>2, <4>1 DEF InLine
    <3> QED BY <3>2, <3>3, <3>4 DEF InLine
  <2> QED BY <1>1, <2>1, <2>2
<1>3. ASSUME NEW i \in 1..Len(a)
      PROVE  ~Is(a[i], "close", c)
  BY <1>1 DEF Queued, Is, Carries
<1>4. Reaches(a, Len(a), c, k, w + 1)
  BY <1>1 DEF Reaches
<1> QED BY <1>2, <1>3, <1>4 DEF Line, a

\* What is queued last is lost.
LEMMA LineCut ==
  ASSUME NEW q \in Seq(Msgs), NEW n \in 0..Len(q), NEW c, NEW k \in Nat,
         NEW w \in Nat, Line(q, c, k, w)
  PROVE  Line(SubSeq(q, 1, n), c, k, w)
<1> DEFINE a == SubSeq(q, 1, n)
<1>1. /\ Len(q) \in Nat /\ Len(a) = n /\ n \in Nat /\ n <= Len(q)
      /\ \A i \in 1..n : a[i] = q[i]
  BY PrefixFacts
<1> HIDE DEF a
<1>2. ASSUME NEW i \in 1..Len(a), DataOf(a[i], c)
      PROVE  InLine(a, i, c, k, w)
  <2>1. InLine(q, i, c, k, w)
    BY <1>1, <1>2 DEF Line
  <2> QED BY <1>1, <2>1 DEF InLine
<1>3. ASSUME NEW i \in 1..Len(a), Is(a[i], "close", c)
      PROVE  IsLast(a, i, c, k, w)
  <2>1. IsLast(q, i, c, k, w)
    BY <1>1, <1>3 DEF Line
  <2> QED BY <1>1, <2>1 DEF IsLast, Reaches
<1> QED BY <1>2, <1>3 DEF Line, a

-----------------------------------------------------------------------------
(* What is queued, when a message is taken, sent or lost.                  *)

LEMMA TakenKeeps ==
  ASSUME NEW q \in Seq(Msgs), q # <<>>
  PROVE  \A t, c :
           /\ Queued(Tail(q), t, c) => Queued(q, t, c)
           /\ Is(Head(q), t, c) => Queued(q, t, c)
           /\ Single(q, t, c) =>
                /\ Single(Tail(q), t, c)
                /\ Is(Head(q), t, c) => ~Queued(Tail(q), t, c)
           /\ \A w : Below(q, c, w) =>
                /\ Below(Tail(q), c, w)
                /\ DataOf(Head(q), c) => Head(q).n <= w
<1>1. /\ Len(q) \in Nat \ {0} /\ Len(Tail(q)) = Len(q) - 1 /\ Head(q) = q[1]
      /\ \A i \in 1..Len(q) - 1 : Tail(q)[i] = q[i + 1]
  BY TailFacts
<1>2. /\ 1 \in 1..Len(q)
      /\ \A i \in 1..Len(Tail(q)) :
           i + 1 \in 1..Len(q) /\ i + 1 # 1 /\ i \in Nat /\ Tail(q)[i] = q[i + 1]
  BY <1>1
<1>3. Head(q) = q[1]
  BY TailFacts
<1> QED BY <1>2, <1>3 DEF Queued, Single, Below

LEMMA SentKeeps ==
  ASSUME NEW q \in Seq(Msgs), NEW m \in Msgs
  PROVE  \A t, c :
           /\ Queued(Append(q, m), t, c) <=> Queued(q, t, c) \/ Is(m, t, c)
           /\ (Single(q, t, c) /\ (Is(m, t, c) => ~Queued(q, t, c)))
                => Single(Append(q, m), t, c)
           /\ \A w : (Below(q, c, w) /\ (DataOf(m, c) => m.n <= w))
                     => Below(Append(q, m), c, w)
<1>1. /\ Len(q) \in Nat /\ Len(Append(q, m)) = Len(q) + 1
      /\ \A i \in 1..Len(q) : Append(q, m)[i] = q[i]
      /\ Append(q, m)[Len(q) + 1] = m
  BY AppendFacts
<1>2. /\ \A i \in 1..Len(Append(q, m)) : i \in 1..Len(q) \/ i = Len(q) + 1
      /\ \A i \in 1..Len(q) : i \in 1..Len(Append(q, m))
      /\ Len(q) + 1 \in 1..Len(Append(q, m))
  BY <1>1
<1>3. /\ \A i \in 1..Len(q) : Append(q, m)[i] = q[i]
      /\ Append(q, m)[Len(q) + 1] = m
  BY <1>1
<1> QED BY <1>2, <1>3 DEF Queued, Single, Below

LEMMA LostKeeps ==
  ASSUME NEW q \in Seq(Msgs), NEW n \in 0..Len(q)
  PROVE  \A t, c :
           /\ Queued(SubSeq(q, 1, n), t, c) => Queued(q, t, c)
           /\ Single(q, t, c) => Single(SubSeq(q, 1, n), t, c)
           /\ \A w : Below(q, c, w) => Below(SubSeq(q, 1, n), c, w)
<1>1. /\ Len(SubSeq(q, 1, n)) = n /\ \A i \in 1..n : SubSeq(q, 1, n)[i] = q[i]
      /\ \A i \in 1..n : i \in 1..Len(q)
  BY PrefixFacts
<1> QED BY <1>1 DEF Queued, Single, Below

-----------------------------------------------------------------------------
(* What becomes of queue q, over a connection in state s.                  *)

\* r is q after a message without data was sent, or was not taken.
Sends(q, r, s, t, c) ==
  \A d \in Cids :
    /\ \A u : Queued(r, u, d) => Queued(q, u, d) \/ (u = t /\ d = c)
    /\ \A u : (Single(q, u, d) /\ (u = t /\ d = c => ~Queued(q, u, d))) => Single(r, u, d)
    /\ \A w : Below(q, d, w) => Below(r, d, w)
    /\ \A k, w \in Nat : Served(q, s, d, k, w) => Served(r, s, d, k, w)

\* r is q after data n + 1 of tunnel c were sent.
SendsData(q, r, c, n) ==
  /\ \A d \in Cids :
       /\ \A u : u # "data" /\ Queued(r, u, d) => Queued(q, u, d)
       /\ \A u : u # "data" /\ Single(q, u, d) => Single(r, u, d)
       /\ d # c => \A w : Below(q, d, w) => Below(r, d, w)
       /\ d # c => \A k, w \in Nat : Served(q, "up", d, k, w) => Served(r, "up", d, k, w)
  /\ Below(q, c, n) => Below(r, c, n + 1)
  /\ \A k \in Nat : k <= n /\ ~Queued(q, "close", c) /\ Served(q, "up", c, k, n)
                   => Served(r, "up", c, k, n + 1)

\* r is q after its head, a message t of tunnel c, was taken.
Takes(q, r, s, t, c) ==
  /\ Queued(q, t, c)
  /\ Single(q, t, c) => ~Queued(r, t, c)
  /\ \A d \in Cids :
       /\ \A u : Queued(r, u, d) => Queued(q, u, d)
       /\ \A u : Single(q, u, d) => Single(r, u, d)
       /\ \A w : Below(q, d, w) => Below(r, d, w)
       /\ t # "data" \/ d # c =>
            \A k, w \in Nat : Served(q, s, d, k, w) => Served(r, s, d, k, w)
  /\ t = "data" => \A w : Below(q, c, w) => Head(q).n <= w
  /\ t = "data" => \A k, w \in Nat : Served(q, s, c, k, w) =>
       Head(q).n = k + 1 /\ k + 1 <= w /\ Served(r, s, c, k + 1, w)
  /\ t = "close" => \A k, w \in Nat : Served(q, s, c, k, w) => w = k

\* r is q after its tail was lost.
Loses(q, r, s) ==
  \A d \in Cids :
    /\ \A u : Queued(r, u, d) => Queued(q, u, d)
    /\ \A u : Single(q, u, d) => Single(r, u, d)
    /\ \A w : Below(q, d, w) => Below(r, d, w)
    /\ \A k, w \in Nat : Served(q, s, d, k, w) => Served(r, "lost", d, k, w)

LEMMA MsgTypes ==
  ASSUME NEW c \in Cids
  PROVE  /\ Msg("open", c) \in Msgs /\ Msg("ok", c) \in Msgs
         /\ Msg("fail", c) \in Msgs /\ Msg("close", c) \in Msgs
         /\ \A n \in Ns : Data(c, n) \in Msgs
  BY DEF Msg, Msgs, Data

\* A message without data is sent, or the connection does not take it.
LEMMA MsgSent ==
  ASSUME NEW q \in Seq(Msgs), NEW r, NEW s, NEW c \in Cids,
         NEW t \in {"open", "ok", "fail", "close"},
         r = q \/ (s = "up" /\ r = Append(q, Msg(t, c)))
  PROVE  Sends(q, r, s, t, c)
<1> DEFINE m == Msg(t, c)
<1>1. m \in Msgs /\ \A u, d : /\ Is(m, u, d) => u = t /\ d = c
                             /\ ~DataOf(m, d)
  BY MsgTypes DEF Msg, Is, DataOf
<1>2. CASE r = q
  BY <1>2 DEF Sends
<1>3. CASE s = "up" /\ r = Append(q, m)
  <2> HIDE DEF m
  <2>1. ASSUME NEW d \in Cids, NEW k \in Nat, NEW w \in Nat, Served(q, s, d, k, w)
        PROVE  Served(r, s, d, k, w)
    BY <1>1, <1>3, <2>1, LineGrows DEF Served
  <2> QED BY <1>1, <1>3, <2>1, SentKeeps DEF Sends
<1> QED BY <1>2, <1>3

\* The next data of tunnel c are sent.
LEMMA DataSent ==
  ASSUME NEW q \in Seq(Msgs), NEW r, NEW c \in Cids, NEW n \in Nat, n + 1 \in Ns,
         r = Append(q, Data(c, n + 1))
  PROVE  SendsData(q, r, c, n)
<1> DEFINE m == Data(c, n + 1)
<1>1. m \in Msgs /\ Carries(m, c, n + 1) /\ m.n = n + 1
      /\ \A u, d : /\ Is(m, u, d) => u = "data" /\ d = c
                   /\ DataOf(m, d) => d = c
  BY MsgTypes DEF Data, Is, DataOf, Carries
<1>2. r = Append(q, m)
  OBVIOUS
<1> HIDE DEF m
<1>3. ASSUME NEW d \in Cids, d # c, NEW k \in Nat, NEW w \in Nat, Served(q, "up", d, k, w)
      PROVE  Served(r, "up", d, k, w)
  <2>1. ~DataOf(m, d) /\ ~Is(m, "close", d)
    BY <1>1, <1>3
  <2>2. m \in Msgs
    BY <1>1
  <2>3. Line(q, d, k, w) /\ Reaches(q, Len(q), d, k, w)
    BY <1>3 DEF Served
  <2> QED BY <1>2, <2>1, <2>2, <2>3, LineGrows DEF Served
<1>4. ASSUME NEW k \in Nat, k <= n, ~Queued(q, "close", c), Served(q, "up", c, k, n)
      PROVE  Served(r, "up", c, k, n + 1)
  BY <1>1, <1>2, <1>4, LineExtends DEF Served
<1>5. Below(q, c, n) => Below(q, c, n + 1)
  <2>1. ASSUME NEW i \in 1..Len(q), DataOf(q[i], c)
        PROVE  q[i].n \in Nat
    BY <2>1, DataFacts DEF DataOf, Ns
  <2> QED BY <2>1 DEF Below
<1>6. Below(q, c, n) => Below(r, c, n + 1)
  BY <1>1, <1>2, <1>5, SentKeeps
<1> QED BY <1>1, <1>2, <1>3, <1>4, <1>6, SentKeeps DEF SendsData

\* The head, a message t of tunnel c, is taken.
LEMMA HeadTaken ==
  ASSUME NEW q \in Seq(Msgs), NEW r, NEW s, NEW t, NEW c, q # <<>>,
         Head(q).type = t, Head(q).cid = c, r = Tail(q)
  PROVE  Takes(q, r, s, t, c)
<1>1. Is(Head(q), t, c) /\ \A d : DataOf(Head(q), d) <=> t = "data" /\ d = c
  BY DEF Is, DataOf
<1>2. ASSUME NEW d, NEW k \in Nat, NEW w \in Nat, t # "data" \/ d # c,
             Served(q, s, d, k, w)
      PROVE  Served(r, s, d, k, w)
  BY <1>1, <1>2, LineSkips DEF Served
<1>3. ASSUME NEW k \in Nat, NEW w \in Nat, t = "data", Served(q, s, c, k, w)
      PROVE  Head(q).n = k + 1 /\ k + 1 <= w /\ Served(r, s, c, k + 1, w)
  BY <1>1, <1>3, LineTakes DEF Served
<1>4. ASSUME NEW k \in Nat, NEW w \in Nat, t = "close", Served(q, s, c, k, w)
      PROVE  w = k
  <2>1. 1 \in 1..Len(q) /\ Head(q) = q[1]
    BY TailFacts
  <2>2. Reaches(q, 1 - 1, c, k, w)
    BY <1>1, <1>4, <2>1 DEF Served, Line, IsLast
  <2> QED BY <2>2 DEF Reaches
<1> QED BY <1>1, <1>2, <1>3, <1>4, TakenKeeps DEF Takes

\* The connection is lost, with the tail.
LEMMA TailLost ==
  ASSUME NEW q \in Seq(Msgs), NEW r, NEW s, NEW n \in 0..Len(q), r = SubSeq(q, 1, n)
  PROVE  Loses(q, r, s)
<1>1. ASSUME NEW d, NEW k \in Nat, NEW w \in Nat, Served(q, s, d, k, w)
      PROVE  Served(r, "lost", d, k, w)
  BY <1>1, LineCut DEF Served
<1> QED BY <1>1, LostKeeps DEF Loses

\* A queue without messages of tunnel c.
LEMMA NothingQueued ==
  ASSUME NEW q \in Seq(Msgs), NEW s, NEW c, Below(q, c, 0), ~Queued(q, "close", c)
  PROVE  Served(q, s, c, 0, 0)
<1>1. ASSUME NEW i \in 1..Len(q)
      PROVE  ~DataOf(q[i], c)
  <2>1. DataOf(q[i], c) => q[i].n \in Nat /\ q[i].n > 0 /\ q[i].n <= 0
    BY DataFacts, MaxDataAssumption DEF DataOf, Ns, Below
  <2> QED BY <2>1
<1>2. ASSUME NEW i \in 1..Len(q)
      PROVE  ~Is(q[i], "close", c)
  BY DEF Queued
<1> QED BY <1>1, <1>2 DEF Served, Line, Reaches

-----------------------------------------------------------------------------
(* The invariant.                                                          *)

Started == {"wait", "open", "shut", "gone", "failed"}
Opened == {"open", "shut", "gone"}
Unanswered == {"none", "dial", "sendOk", "sendFail"}
Counts(s) == \A i \in 1..Len(s) : s[i] = i

\* The client has got as many data of a tunnel.
Got(c) == Len(local[c]) + Len(buf[c])
\* The stream has got, or is about to get from the reader loop, as many.
InHand(c) == IF srv # Idle /\ srv[1] = c THEN 1 ELSE 0
Taken(c) == Len(rcvd[c]) + Len(inq[c]) + InHand(c)

\* A tunnel is opened once, by the message that its server has sent, and each
\* end is where the messages of the other say that it is.
OpenedOnce(c) ==
  /\ sp[c] \notin Started => task[c] = "none"
  /\ sp[c] = "send" => c \in active
  /\ sp[c] = "idle" => c \notin active /\ inq[c] = <<>> /\ rcvd[c] = <<>>
  /\ Queued(down, "open", c) =>
       task[c] = "none" /\ sp[c] \in Started /\ Single(down, "open", c)
  /\ result[c] = "ok" \/ Queued(up, "ok", c) => task[c] \notin Unanswered
  /\ sp[c] \in Opened => result[c] = "ok"
  /\ c \in closers => sp[c] = "gone"
  /\ sent[c] > 0 => sp[c] \in Opened
  /\ Queued(down, "close", c) => sp[c] \in {"shut", "gone"}
  /\ Below(down, c, sent[c])
  /\ task[c] \in Unanswered \cup {"activate"} => lsent[c] = 0
  /\ Queued(up, "close", c) => task[c] \in {"remove", "done"} /\ conn[c] # "pending"
  /\ Below(up, c, lsent[c])

\* The client's table: what a tunnel may hold in each of its states.
TableKept(c) ==
  /\ task[c] = "none" => conn[c] = "none" /\ local[c] = <<>> /\ leof[c] = "no"
  /\ conn[c] = "none" /\ task[c] # "none" => leof[c] # "no"
  /\ conn[c] = "pending" =>
       leof[c] = "no" /\ local[c] = <<>> /\ task[c] \notin {"relay", "sendClose"}
  /\ conn[c] # "pending" => buf[c] = <<>>
  /\ Counts(local[c]) /\ Counts(buf[c])
  /\ Got(c) <= sent[c]

\* Data on the way to the client.
DownInLine(c) == leof[c] = "no" => Served(down, ctl, c, Got(c), sent[c])

\* A tunnel that has failed at the client will not send a Close.
Dead(c) ==
  /\ task[c] \notin {"none", "relay", "sendClose"}
  /\ task[c] \in {"dial", "sendOk", "activate"} => conn[c] # "pending"
  /\ ~Queued(up, "close", c)
Forgotten(c) ==
  c \notin active \cup closed /\ sp[c] \in {"wait", "open", "shut"} /\ ctl # "gone"
FailedIsDead(c) ==
  Queued(up, "fail", c) \/ rdr = <<c, "overflow">> \/ Forgotten(c) => Dead(c)

\* Data on the way to the stream.
UpInLine(c) ==
  c \in active /\ HasReceiver(c) => Served(up, ctl, c, Taken(c), lsent[c])

\* The stream: what it has read, what it may read, and its end.
StreamKept(c) ==
  /\ Counts(rcvd[c])
  /\ HasReceiver(c) =>
       /\ \A i \in 1..Len(inq[c]) : inq[c][i] = Len(rcvd[c]) + i
       /\ srv # Idle /\ srv[1] = c => srv[2] = Taken(c)
       /\ Taken(c) <= lsent[c]
  /\ c \in closed =>
       /\ c \notin active /\ task[c] \in {"remove", "done"}
       /\ HasReceiver(c) => Len(rcvd[c]) + Len(inq[c]) = lsent[c]
  /\ eof[c] # "no" => inq[c] = <<>> /\ c \notin active /\ sp[c] \in Opened

\* The reader loop delivers to a tunnel that is there, and is done in the end.
LoopKept ==
  /\ srv # Idle => srv[1] \in active
  /\ ctl = "gone" => up = <<>>

Kept(c) ==
  /\ OpenedOnce(c) /\ TableKept(c) /\ DownInLine(c) /\ FailedIsDead(c)
  /\ UpInLine(c) /\ StreamKept(c)

TunnelInv == TypeOK /\ LoopKept /\ \A c \in Cids : Kept(c)

-----------------------------------------------------------------------------
(* Types.                                                                  *)

\* What the queues are after a message has been sent or taken.
LEMMA SendTypes ==
  ASSUME TypeOK, NEW m \in Msgs
  PROVE  /\ AwaitDown(m) => down' \in Seq(Msgs) /\ Len(down') <= Cap
         /\ SendDown(m) => down' \in Seq(Msgs) /\ Len(down') <= Cap
         /\ AwaitUp(m) => up' \in Seq(Msgs) /\ Len(up') <= Cap
         /\ SendUp(m) => up' \in Seq(Msgs) /\ Len(up') <= Cap
<1>1. /\ down \in Seq(Msgs) /\ Len(down) <= Cap /\ up \in Seq(Msgs) /\ Len(up) <= Cap
  BY DEF TypeOK
<1>2. SendDown(m) => down' \in Seq(Msgs) /\ Len(down') <= Cap
  BY <1>1, AppendFacts, CapAssumption DEF SendDown
<1>3. SendUp(m) => up' \in Seq(Msgs) /\ Len(up') <= Cap
  BY <1>1, AppendFacts, CapAssumption DEF SendUp
<1> QED BY <1>1, <1>2, <1>3 DEF AwaitDown, AwaitUp

LEMMA RecvTypes ==
  ASSUME TypeOK, NEW t, NEW c
  PROVE  /\ ServerRecv(t, c) =>
              /\ up' \in Seq(Msgs) /\ Len(up') <= Cap /\ c \in Cids
              /\ t = "data" => Head(up).n \in Ns
         /\ ClientRecv(t, c) =>
              /\ down' \in Seq(Msgs) /\ Len(down') <= Cap /\ c \in Cids
              /\ t = "data" => Head(down).n \in Ns
<1>1. /\ down \in Seq(Msgs) /\ Len(down) <= Cap /\ up \in Seq(Msgs) /\ Len(up) <= Cap
  BY DEF TypeOK
<1>2. ASSUME NEW m \in Msgs
      PROVE  m.cid \in Cids /\ (m.type = "data" => m.n \in Ns)
  BY DEF Msgs
<1>3. ASSUME ServerRecv(t, c)
      PROVE  /\ up' \in Seq(Msgs) /\ Len(up') <= Cap /\ c \in Cids
             /\ t = "data" => Head(up).n \in Ns
  BY <1>1, <1>2, <1>3, TailFacts, CapAssumption DEF ServerRecv
<1>4. ASSUME ClientRecv(t, c)
      PROVE  /\ down' \in Seq(Msgs) /\ Len(down') <= Cap /\ c \in Cids
             /\ t = "data" => Head(down).n \in Ns
  BY <1>1, <1>2, <1>4, TailFacts, CapAssumption DEF ClientRecv
<1> QED BY <1>3, <1>4

LEMMA EndTypes ==
  ASSUME TypeOK, NEW cs, NEW how \in Ends, EndLocal(cs, how)
  PROVE  leof' \in [Cids -> Ends]
  BY DEF TypeOK, EndLocal

\* Sequences of numbers by tunnel.
LEMMA SeqTypes ==
  ASSUME NEW f \in [Cids -> Seq(Ns)], NEW c \in Cids
  PROVE  /\ f[c] \in Seq(Ns) /\ Len(<<>>) = 0 /\ <<>> \in Seq(Ns)
         /\ \A n \in Ns : Append(f[c], n) \in Seq(Ns) /\ Len(Append(f[c], n)) = Len(f[c]) + 1
         /\ f[c] # <<>> => /\ Tail(f[c]) \in Seq(Ns) /\ Head(f[c]) \in Ns
                          /\ Len(Tail(f[c])) = Len(f[c]) - 1
         /\ Len(f[c]) \in Nat
         /\ \A s \in Seq(Ns) : [f EXCEPT ![c] = s] \in [Cids -> Seq(Ns)]
  OBVIOUS

LEMMA TypeStep == TypeOK /\ [Next]_vars => TypeOK'
<1> SUFFICES ASSUME TypeOK, [Next]_vars
             PROVE  TypeOK'
  OBVIOUS
<1> USE DEF Ends, serverVars, netVars, clientVars
<1>1. ASSUME NEW c \in Cids, OpenStart(c)
      PROVE  TypeOK'
  BY <1>1 DEF TypeOK, Sps, Tasks, Steps, OpenStart
<1>2. ASSUME NEW c \in Cids, OpenSend(c)
      PROVE  TypeOK'
  <2>1. down' \in Seq(Msgs) /\ Len(down') <= Cap
    BY <1>2, SendTypes, MsgTypes DEF OpenSend
  <2>2. sp' \in [Cids -> Sps]
    BY <1>2 DEF TypeOK, Sps, OpenSend
  <2> QED BY <1>2, <2>1, <2>2 DEF TypeOK, OpenSend
<1>3. ASSUME NEW c \in Cids, OpenOk(c)
      PROVE  TypeOK'
  BY <1>3 DEF TypeOK, Sps, Tasks, Steps, OpenOk
<1>4. ASSUME NEW c \in Cids, OpenFailed(c)
      PROVE  TypeOK'
  BY <1>4 DEF TypeOK, Sps, Tasks, Steps, OpenFailed
<1>5. ASSUME NEW c \in Cids, OpenCancelled(c)
      PROVE  TypeOK'
  <2>1. inq' \in [Cids -> Seq(Ns)] /\ \A d \in Cids : Len(inq'[d]) <= InCap
    BY <1>5, SeqTypes, InCapAssumption DEF TypeOK, OpenCancelled
  <2> QED BY <1>5, <2>1 DEF TypeOK, Sps, Tasks, Steps, OpenCancelled
<1>6. ASSUME NEW c \in Cids, StreamWrite(c)
      PROVE  TypeOK'
  <2>1. sent' \in [Cids -> 0..MaxData] /\ sent[c] + 1 \in Ns
    BY <1>6, MaxDataAssumption DEF TypeOK, StreamWrite, Ns
  <2> QED BY <1>6, <2>1, SendTypes, MsgTypes DEF TypeOK, Sps, Tasks, Steps, StreamWrite
<1>7. ASSUME NEW c \in Cids, StreamRead(c)
      PROVE  TypeOK'
  <2>1. inq' \in [Cids -> Seq(Ns)] /\ \A d \in Cids : Len(inq'[d]) <= InCap
    BY <1>7, SeqTypes, InCapAssumption DEF TypeOK, StreamRead
  <2>2. rcvd' \in [Cids -> Seq(Ns)]
    BY <1>7, SeqTypes DEF TypeOK, StreamRead
  <2> QED BY <1>7, <2>1, <2>2 DEF TypeOK, Sps, Tasks, Steps, StreamRead
<1>8. ASSUME NEW c \in Cids, StreamEof(c)
      PROVE  TypeOK'
  BY <1>8 DEF TypeOK, Sps, Tasks, Steps, StreamEof
<1>9. ASSUME NEW c \in Cids, StreamShutdown(c)
      PROVE  TypeOK'
  BY <1>9, SendTypes, MsgTypes DEF TypeOK, Sps, Tasks, Steps, StreamShutdown
<1>10. ASSUME NEW c \in Cids, StreamDrop(c)
      PROVE  TypeOK'
  <2>1. inq' \in [Cids -> Seq(Ns)] /\ \A d \in Cids : Len(inq'[d]) <= InCap
    BY <1>10, SeqTypes, InCapAssumption DEF TypeOK, StreamDrop
  <2> QED BY <1>10, <2>1 DEF TypeOK, Sps, Tasks, Steps, StreamDrop
<1>11. ASSUME NEW c \in Cids, DropClose(c)
      PROVE  TypeOK'
  BY <1>11, SendTypes, MsgTypes DEF TypeOK, Sps, Tasks, Steps, DropClose
<1>12. ASSUME NEW c \in Cids, Dial(c)
      PROVE  TypeOK'
  <2>1. \E s \in Tasks : task' = [task EXCEPT ![c] = s]
    <3>1. "sendOk" \in Tasks /\ "sendFail" \in Tasks
      BY DEF Tasks
    <3> QED BY <1>12, <3>1 DEF Dial, TaskGoto
  <2>2. task' \in [Cids -> Tasks]
    BY <2>1 DEF TypeOK
  <2> QED BY <1>12, <2>2 DEF TypeOK, Dial
<1>13. ASSUME NEW c \in Cids, SendOk(c)
      PROVE  TypeOK'
  BY <1>13, SendTypes, MsgTypes DEF TypeOK, Sps, Tasks, Steps, SendOk, TaskGoto
<1>14. ASSUME NEW c \in Cids, Activate(c)
      PROVE  TypeOK'
  <2>1. CASE conn[c] = "pending"
    <3>1. PICK k \in 0..Len(buf[c]) :
            /\ local' = [local EXCEPT ![c] = local[c] \o SubSeq(buf[c], 1, k)]
            /\ EndLocal(IF k < Len(buf[c]) THEN {c} ELSE {}, "cut")
      BY <1>14, <2>1 DEF Activate
    <3>2. local[c] \o SubSeq(buf[c], 1, k) \in Seq(Ns)
      BY SeqTypes DEF TypeOK
    <3>3. local' \in [Cids -> Seq(Ns)] /\ leof' \in [Cids -> Ends]
      BY <3>1, <3>2, SeqTypes, EndTypes DEF TypeOK
    <3>4. buf' = [buf EXCEPT ![c] = <<>>]
      BY <1>14, <2>1 DEF Activate
    <3>5. buf' \in [Cids -> Seq(Ns)] /\ \A d \in Cids : Len(buf'[d]) <= BufCap
      BY <3>4, SeqTypes, BufCapAssumption DEF TypeOK
    <3>6. conn' \in [Cids -> {"none", "pending", "active"}] /\ task' \in [Cids -> Tasks]
      BY <1>14, <2>1 DEF TypeOK, Tasks, Activate, TaskGoto
    <3>7. UNCHANGED <<aborted, handles, rdr, lsent, netVars, serverVars>>
      BY <1>14 DEF Activate
    <3> QED BY <3>3, <3>5, <3>6, <3>7 DEF TypeOK
  <2>2. CASE conn[c] # "pending"
    BY <1>14, <2>2 DEF TypeOK, Sps, Tasks, Steps, Activate, TaskGoto
  <2> QED BY <2>1, <2>2
<1>15. ASSUME NEW c \in Cids, SendClose(c)
      PROVE  TypeOK'
  BY <1>15, SendTypes, MsgTypes DEF TypeOK, Sps, Tasks, Steps, SendClose, TaskGoto
<1>16. ASSUME NEW c \in Cids, SendFail(c)
      PROVE  TypeOK'
  BY <1>16, SendTypes, MsgTypes DEF TypeOK, Sps, Tasks, Steps, SendFail, TaskGoto
<1>17. ASSUME NEW c \in Cids, Remove(c)
      PROVE  TypeOK'
  <2>1. buf' \in [Cids -> Seq(Ns)] /\ \A d \in Cids : Len(buf'[d]) <= BufCap
    BY <1>17, SeqTypes, BufCapAssumption DEF TypeOK, Remove
  <2> QED BY <1>17, <2>1, EndTypes DEF TypeOK, Sps, Tasks, Steps, Remove, TaskGoto
<1>18. ASSUME NEW c \in Cids, TaskDies(c)
      PROVE  TypeOK'
  BY <1>18 DEF TypeOK, Sps, Tasks, Steps, TaskDies
<1>19. ASSUME NEW c \in Cids, RelayData(c)
      PROVE  TypeOK'
  <2>1. lsent' \in [Cids -> 0..MaxData] /\ lsent[c] + 1 \in Ns
    BY <1>19, MaxDataAssumption DEF TypeOK, RelayData, Ns
  <2> QED BY <1>19, <2>1, SendTypes, MsgTypes DEF TypeOK, Sps, Tasks, Steps, RelayData
<1>20. ASSUME NEW c \in Cids, RelayEnd(c)
      PROVE  TypeOK'
  BY <1>20 DEF TypeOK, Sps, Tasks, Steps, RelayEnd, TaskGoto
<1>21. ASSUME NEW c \in Cids, LocalFails(c)
      PROVE  TypeOK'
  BY <1>21, EndTypes DEF TypeOK, Sps, Tasks, Steps, LocalFails
<1>22. ASSUME NEW c \in Cids, RecvResult(c)
      PROVE  TypeOK'
  <2>1. PICK t \in {"ok", "fail"} :
          /\ ServerRecv(t, c) /\ slot' = slot \ {c}
          /\ result' = IF c \in active \cap slot /\ sp[c] = "wait"
                       THEN [result EXCEPT ![c] = t] ELSE result
          /\ active' = IF t = "fail" THEN active \ {c} ELSE active
    BY <1>22 DEF RecvResult
  <2>2. up' \in Seq(Msgs) /\ Len(up') <= Cap
    BY <2>1, RecvTypes
  <2>3. result' \in [Cids -> {"none", "ok", "fail"}]
    BY <2>1 DEF TypeOK
  <2>4. active' \in SUBSET Cids /\ slot' \in SUBSET Cids
    BY <2>1 DEF TypeOK
  <2> QED BY <1>22, <2>2, <2>3, <2>4 DEF TypeOK, Sps, Tasks, Steps, RecvResult
<1>23. ASSUME NEW c \in Cids, RecvUpData(c)
      PROVE  TypeOK'
  BY <1>23, RecvTypes DEF TypeOK, Sps, Tasks, Steps, RecvUpData
<1>24. ASSUME NEW c \in Cids, RecvUpClose(c)
      PROVE  TypeOK'
  <2>1. up' \in Seq(Msgs) /\ Len(up') <= Cap
    BY <1>24, RecvTypes DEF RecvUpClose
  <2>2. /\ active' \in SUBSET Cids /\ slot' \in SUBSET Cids /\ closed' \in SUBSET Cids
    BY <1>24 DEF TypeOK, RecvUpClose
  <2> QED BY <1>24, <2>1, <2>2 DEF TypeOK, RecvUpClose
<1>25. ASSUME NEW c \in Cids, RecvOpen(c)
      PROVE  TypeOK'
  BY <1>25, RecvTypes DEF TypeOK, Sps, Tasks, Steps, RecvOpen
<1>26. ASSUME NEW c \in Cids, RegisterCheck(c)
      PROVE  TypeOK'
  BY <1>26 DEF TypeOK, Sps, Tasks, Steps, RegisterCheck
<1>27. ASSUME NEW c \in Cids, RegisterInsert(c)
      PROVE  TypeOK'
  BY <1>27 DEF TypeOK, Sps, Tasks, Steps, RegisterInsert
<1>28. ASSUME NEW c \in Cids, RecvPending(c)
      PROVE  TypeOK'
  <2>1. buf \in [Cids -> Seq(Ns)] /\ \A d \in Cids : Len(buf[d]) <= BufCap
    BY DEF TypeOK
  <2>2. /\ Head(down).n \in Ns /\ Len(buf[c]) < BufCap
        /\ buf' = [buf EXCEPT ![c] = Append(buf[c], Head(down).n)]
    BY <1>28, RecvTypes DEF RecvPending
  <2>3. buf' \in [Cids -> Seq(Ns)] /\ \A d \in Cids : Len(buf'[d]) <= BufCap
    BY <2>1, <2>2, SeqTypes, BufCapAssumption
  <2> QED BY <1>28, <2>3, RecvTypes DEF TypeOK, Sps, Tasks, Steps, RecvPending
<1>29. ASSUME NEW c \in Cids, RecvOverflow(c)
      PROVE  TypeOK'
  <2>1. buf' \in [Cids -> Seq(Ns)] /\ \A d \in Cids : Len(buf'[d]) <= BufCap
    BY <1>29, SeqTypes, BufCapAssumption DEF TypeOK, RecvOverflow
  <2> QED BY <1>29, <2>1, RecvTypes, EndTypes
         DEF TypeOK, Sps, Tasks, Steps, RecvOverflow, AbortTasks
<1>30. ASSUME NEW c \in Cids, SendOverflow(c)
      PROVE  TypeOK'
  BY <1>30, SendTypes, MsgTypes DEF TypeOK, Sps, Tasks, Steps, SendOverflow
<1>31. ASSUME NEW c \in Cids, RecvActive(c)
      PROVE  TypeOK'
  <2>1. local' \in [Cids -> Seq(Ns)]
    BY <1>31, SeqTypes, RecvTypes DEF TypeOK, RecvActive
  <2> QED BY <1>31, <2>1, RecvTypes DEF TypeOK, Sps, Tasks, Steps, RecvActive
<1>32. ASSUME NEW c \in Cids, RecvDownClose(c)
      PROVE  TypeOK'
  <2>1. buf' \in [Cids -> Seq(Ns)] /\ \A d \in Cids : Len(buf'[d]) <= BufCap
    BY <1>32, SeqTypes, BufCapAssumption DEF TypeOK, RecvDownClose
  <2> QED BY <1>32, <2>1, RecvTypes, EndTypes
         DEF TypeOK, Sps, Tasks, Steps, RecvDownClose, AbortTasks
<1>33. ASSUME DeliverUp
      PROVE  TypeOK'
  <2>1. srv[1] \in Cids /\ srv[2] \in Ns
    BY <1>33 DEF TypeOK, DeliverUp, Idle
  <2>2. inq \in [Cids -> Seq(Ns)] /\ \A d \in Cids : Len(inq[d]) <= InCap
    BY DEF TypeOK
  <2>3. CASE HasReceiver(srv[1])
    <3>1. /\ Len(inq[srv[1]]) < InCap
          /\ inq' = [inq EXCEPT ![srv[1]] = Append(inq[srv[1]], srv[2])]
      BY <1>33, <2>3 DEF DeliverUp
    <3>2. inq' \in [Cids -> Seq(Ns)] /\ \A d \in Cids : Len(inq'[d]) <= InCap
      BY <2>1, <2>2, <3>1, SeqTypes, InCapAssumption
    <3> QED BY <1>33, <3>2 DEF TypeOK, Sps, Tasks, Steps, DeliverUp
  <2>4. CASE ~HasReceiver(srv[1])
    BY <1>33, <2>4 DEF TypeOK, Sps, Tasks, Steps, DeliverUp
  <2> QED BY <2>3, <2>4
<1>34. ASSUME EntryDropped
      PROVE  TypeOK'
  BY <1>34 DEF TypeOK, Sps, Tasks, Steps, EntryDropped
<1>35. ASSUME ClientShutdown
      PROVE  TypeOK'
  <2>1. buf' \in [Cids -> Seq(Ns)] /\ \A d \in Cids : Len(buf'[d]) <= BufCap
    BY <1>35, SeqTypes, BufCapAssumption DEF TypeOK, ClientShutdown
  <2> QED BY <1>35, <2>1, EndTypes DEF TypeOK, Sps, Tasks, Steps, ClientShutdown, AbortTasks
<1>36. ASSUME ConnectionLost
      PROVE  TypeOK'
  <2>1. down' \in Seq(Msgs) /\ Len(down') <= Cap
    BY <1>36, PrefixFacts, CapAssumption DEF TypeOK, ConnectionLost
  <2>2. up' \in Seq(Msgs) /\ Len(up') <= Cap
    BY <1>36, PrefixFacts, CapAssumption DEF TypeOK, ConnectionLost
  <2> QED BY <1>36, <2>1, <2>2 DEF TypeOK, Sps, Tasks, Steps, ConnectionLost
<1>37. ASSUME UNCHANGED vars
      PROVE  TypeOK'
  BY <1>37 DEF TypeOK, vars
<1> QED
  BY <1>1, <1>2, <1>3, <1>4, <1>5, <1>6, <1>7, <1>8, <1>9, <1>10, <1>11,
     <1>12, <1>13, <1>14, <1>15, <1>16, <1>17, <1>18, <1>19, <1>20, <1>21,
     <1>22, <1>23, <1>24, <1>25, <1>26, <1>27, <1>28, <1>29, <1>30, <1>31,
     <1>32, <1>33, <1>34, <1>35, <1>36, <1>37
  DEF Next, Opening, ServerReader, ClientReader, Task

LEMMA TypeInit == Init => TypeOK
  BY CapAssumption, InCapAssumption, BufCapAssumption, MaxDataAssumption
  DEF Init, TypeOK, Sps, Tasks, Steps, Ends

\* Every variable of the two ends and of the connection keeps its type, and no
\* queue or buffer grows past its capacity, whatever the capacities are.
THEOREM TypeCorrect == Spec => []TypeOK
  BY TypeInit, TypeStep, PTL DEF Spec

-----------------------------------------------------------------------------
(* Queues.                                                                 *)

LEMMA QueueSteps ==
  ASSUME TypeOK, NEW c \in Cids
  PROVE  /\ OpenSend(c) => Sends(down, down', ctl, "open", c)
         /\ StreamShutdown(c) \/ DropClose(c) => Sends(down, down', ctl, "close", c)
         /\ StreamWrite(c) => SendsData(down, down', c, sent[c])
         /\ SendOk(c) => Sends(up, up', ctl, "ok", c)
         /\ SendFail(c) \/ SendOverflow(c) => Sends(up, up', ctl, "fail", c)
         /\ SendClose(c) => Sends(up, up', ctl, "close", c)
         /\ RelayData(c) => SendsData(up, up', c, lsent[c])
         /\ \A t : ClientRecv(t, c) => Takes(down, down', ctl, t, c)
         /\ \A t : ServerRecv(t, c) => Takes(up, up', ctl, t, c)
<1>1. down \in Seq(Msgs) /\ up \in Seq(Msgs)
  BY DEF TypeOK
<1>2. ASSUME NEW t \in {"open", "ok", "fail", "close"}
      PROVE  /\ AwaitDown(Msg(t, c)) => Sends(down, down', ctl, t, c)
             /\ AwaitUp(Msg(t, c)) => Sends(up, up', ctl, t, c)
  BY <1>1, MsgSent DEF AwaitDown, AwaitUp, SendDown, SendUp
<1>3. StreamShutdown(c) => Sends(down, down', ctl, "close", c)
  BY <1>1, MsgSent DEF StreamShutdown, SendDown
<1>4. StreamWrite(c) => SendsData(down, down', c, sent[c])
  <2>1. ASSUME StreamWrite(c)
        PROVE  sent[c] \in Nat /\ sent[c] + 1 \in Ns
    BY <2>1, MaxDataAssumption DEF TypeOK, StreamWrite, Ns
  <2> QED BY <1>1, <2>1, DataSent DEF StreamWrite, SendDown
<1>5. RelayData(c) => SendsData(up, up', c, lsent[c])
  <2>1. ASSUME RelayData(c)
        PROVE  lsent[c] \in Nat /\ lsent[c] + 1 \in Ns
    BY <2>1, MaxDataAssumption DEF TypeOK, RelayData, Ns
  <2> QED BY <1>1, <2>1, DataSent DEF RelayData, SendUp
<1>6. /\ \A t : ClientRecv(t, c) => Takes(down, down', ctl, t, c)
      /\ \A t : ServerRecv(t, c) => Takes(up, up', ctl, t, c)
  BY <1>1, HeadTaken DEF ClientRecv, ServerRecv
<1> QED
  BY <1>2, <1>3, <1>4, <1>5, <1>6
  DEF OpenSend, DropClose, SendOk, SendFail, SendOverflow, SendClose

LEMMA QueueLoss ==
  ASSUME TypeOK, ConnectionLost
  PROVE  Loses(down, down', ctl) /\ Loses(up, up', ctl)
  BY TailLost DEF TypeOK, ConnectionLost

-----------------------------------------------------------------------------
(* The parts of the invariant, one lemma each.                             *)

LEMMA OpenedStep ==
  ASSUME TunnelInv, [Next]_vars, NEW d \in Cids
  PROVE  OpenedOnce(d)'
<1> USE DEF serverVars, netVars, clientVars, Started, Opened, Unanswered
<1>a. /\ TypeOK /\ OpenedOnce(d) /\ TableKept(d) /\ FailedIsDead(d)
      /\ StreamKept(d)
  BY DEF TunnelInv, Kept
<1>b. /\ sp \in [Cids -> Sps] /\ result \in [Cids -> {"none", "ok", "fail"}]
      /\ inq \in [Cids -> Seq(Ns)] /\ rcvd \in [Cids -> Seq(Ns)]
      /\ sent \in [Cids -> 0..MaxData] /\ lsent \in [Cids -> 0..MaxData]
      /\ conn \in [Cids -> {"none", "pending", "active"}] /\ task \in [Cids -> Tasks]
  BY DEF TunnelInv, TypeOK
<1>1. ASSUME NEW c \in Cids, OpenStart(c)
      PROVE  OpenedOnce(d)'
  BY <1>1, <1>a, <1>b DEF OpenedOnce, OpenStart
<1>2. ASSUME NEW c \in Cids, OpenSend(c)
      PROVE  OpenedOnce(d)'
  <2>1. PICK to \in {"wait", "failed"} : sp' = [sp EXCEPT ![c] = to]
    BY <1>2 DEF OpenSend
  <2>2. sp[c] = "send" /\ Sends(down, down', ctl, "open", c)
    BY <1>2, QueueSteps, <1>a DEF OpenSend
  <2>3. UNCHANGED <<active, slot, result, inq, rcvd, eof, sent, closers, closed, srv,
                    ctl, up, clientVars>>
    BY <1>2 DEF OpenSend
  <2>4. ~Queued(down, "open", d) => Single(down, "open", d)
    BY DEF Queued, Single
  <2> QED BY <2>1, <2>2, <2>3, <2>4, <1>a, <1>b DEF OpenedOnce, Sends
<1>3. ASSUME NEW c \in Cids, OpenOk(c)
      PROVE  OpenedOnce(d)'
  BY <1>3, <1>a, <1>b DEF OpenedOnce, OpenOk
<1>4. ASSUME NEW c \in Cids, OpenFailed(c)
      PROVE  OpenedOnce(d)'
  BY <1>4, <1>a, <1>b DEF OpenedOnce, OpenFailed
<1>5. ASSUME NEW c \in Cids, OpenCancelled(c)
      PROVE  OpenedOnce(d)'
  BY <1>5, <1>a, <1>b DEF OpenedOnce, OpenCancelled
<1>6. ASSUME NEW c \in Cids, StreamWrite(c)
      PROVE  OpenedOnce(d)'
  BY <1>6, <1>a, <1>b, QueueSteps DEF OpenedOnce, StreamWrite, SendsData
<1>7. ASSUME NEW c \in Cids, StreamRead(c)
      PROVE  OpenedOnce(d)'
  BY <1>7, <1>a, <1>b DEF OpenedOnce, StreamRead
<1>8. ASSUME NEW c \in Cids, StreamEof(c)
      PROVE  OpenedOnce(d)'
  BY <1>8, <1>a, <1>b DEF OpenedOnce, StreamEof
<1>9. ASSUME NEW c \in Cids, StreamShutdown(c)
      PROVE  OpenedOnce(d)'
  BY <1>9, <1>a, <1>b, QueueSteps DEF OpenedOnce, StreamShutdown, Sends
<1>10. ASSUME NEW c \in Cids, StreamDrop(c)
      PROVE  OpenedOnce(d)'
  BY <1>10, <1>a, <1>b DEF OpenedOnce, StreamDrop
<1>11. ASSUME NEW c \in Cids, DropClose(c)
      PROVE  OpenedOnce(d)'
  BY <1>11, <1>a, <1>b, QueueSteps DEF OpenedOnce, DropClose, Sends
<1>12. ASSUME NEW c \in Cids, Dial(c)
      PROVE  OpenedOnce(d)'
  BY <1>12, <1>a, <1>b DEF OpenedOnce, Dial, TaskGoto
<1>13. ASSUME NEW c \in Cids, SendOk(c)
      PROVE  OpenedOnce(d)'
  BY <1>13, <1>a, <1>b, QueueSteps DEF OpenedOnce, SendOk, TaskGoto, Sends
<1>14. ASSUME NEW c \in Cids, Activate(c)
      PROVE  OpenedOnce(d)'
  BY <1>14, <1>a, <1>b DEF OpenedOnce, Activate, TaskGoto
<1>15. ASSUME NEW c \in Cids, SendClose(c)
      PROVE  OpenedOnce(d)'
  BY <1>15, <1>a, <1>b, QueueSteps DEF OpenedOnce, TableKept, SendClose, TaskGoto, Sends
<1>16. ASSUME NEW c \in Cids, SendFail(c)
      PROVE  OpenedOnce(d)'
  BY <1>16, <1>a, <1>b, QueueSteps DEF OpenedOnce, SendFail, TaskGoto, Sends
<1>17. ASSUME NEW c \in Cids, Remove(c)
      PROVE  OpenedOnce(d)'
  BY <1>17, <1>a, <1>b DEF OpenedOnce, Remove, TaskGoto
<1>18. ASSUME NEW c \in Cids, TaskDies(c)
      PROVE  OpenedOnce(d)'
  BY <1>18, <1>a, <1>b DEF OpenedOnce, TaskDies
<1>19. ASSUME NEW c \in Cids, RelayData(c)
      PROVE  OpenedOnce(d)'
  BY <1>19, <1>a, <1>b, QueueSteps DEF OpenedOnce, RelayData, SendsData
<1>20. ASSUME NEW c \in Cids, RelayEnd(c)
      PROVE  OpenedOnce(d)'
  BY <1>20, <1>a, <1>b DEF OpenedOnce, RelayEnd, TaskGoto
<1>21. ASSUME NEW c \in Cids, LocalFails(c)
      PROVE  OpenedOnce(d)'
  BY <1>21, <1>a, <1>b DEF OpenedOnce, LocalFails
<1>22. ASSUME NEW c \in Cids, RecvResult(c)
      PROVE  OpenedOnce(d)'
  <2>1. PICK t \in {"ok", "fail"} :
          /\ ServerRecv(t, c)
          /\ result' = IF c \in active \cap slot /\ sp[c] = "wait"
                       THEN [result EXCEPT ![c] = t] ELSE result
          /\ active' = IF t = "fail" THEN active \ {c} ELSE active
    BY <1>22 DEF RecvResult
  <2>2. Takes(up, up', ctl, t, c)
    BY <2>1, <1>a, QueueSteps
  <2>3. UNCHANGED <<sp, inq, rcvd, eof, sent, closers, closed, srv, ctl, down, clientVars>>
    BY <1>22 DEF RecvResult
  <2> QED BY <2>1, <2>2, <2>3, <1>a, <1>b DEF OpenedOnce, FailedIsDead, Dead, Takes
<1>23. ASSUME NEW c \in Cids, RecvUpData(c)
      PROVE  OpenedOnce(d)'
  BY <1>23, <1>a, <1>b, QueueSteps DEF OpenedOnce, RecvUpData, Takes
<1>24. ASSUME NEW c \in Cids, RecvUpClose(c)
      PROVE  OpenedOnce(d)'
  BY <1>24, <1>a, <1>b, QueueSteps DEF OpenedOnce, RecvUpClose, Takes
<1>25. ASSUME NEW c \in Cids, RecvOpen(c)
      PROVE  OpenedOnce(d)'
  BY <1>25, <1>a, <1>b, QueueSteps DEF OpenedOnce, RecvOpen, Takes
<1>26. ASSUME NEW c \in Cids, RegisterCheck(c)
      PROVE  OpenedOnce(d)'
  BY <1>26, <1>a, <1>b DEF OpenedOnce, RegisterCheck
<1>27. ASSUME NEW c \in Cids, RegisterInsert(c)
      PROVE  OpenedOnce(d)'
  BY <1>27, <1>a, <1>b DEF OpenedOnce, RegisterInsert
<1>28. ASSUME NEW c \in Cids, RecvPending(c)
      PROVE  OpenedOnce(d)'
  BY <1>28, <1>a, <1>b, QueueSteps DEF OpenedOnce, RecvPending, Takes
<1>29. ASSUME NEW c \in Cids, RecvOverflow(c)
      PROVE  OpenedOnce(d)'
  BY <1>29, <1>a, <1>b, QueueSteps DEF OpenedOnce, RecvOverflow, Takes
<1>30. ASSUME NEW c \in Cids, SendOverflow(c)
      PROVE  OpenedOnce(d)'
  BY <1>30, <1>a, <1>b, QueueSteps DEF OpenedOnce, SendOverflow, Sends
<1>31. ASSUME NEW c \in Cids, RecvActive(c)
      PROVE  OpenedOnce(d)'
  BY <1>31, <1>a, <1>b, QueueSteps DEF OpenedOnce, RecvActive, Takes
<1>32. ASSUME NEW c \in Cids, RecvDownClose(c)
      PROVE  OpenedOnce(d)'
  BY <1>32, <1>a, <1>b, QueueSteps DEF OpenedOnce, RecvDownClose, Takes
<1>33. ASSUME DeliverUp
      PROVE  OpenedOnce(d)'
  <2>1. \A e \in Cids : sp[e] \notin Started \cup {"send"} => inq'[e] = inq[e]
    BY <1>33, <1>b DEF DeliverUp, HasReceiver
  <2> QED BY <1>33, <2>1, <1>a, <1>b DEF OpenedOnce, DeliverUp
<1>34. ASSUME EntryDropped
      PROVE  OpenedOnce(d)'
  BY <1>34, <1>a, <1>b DEF OpenedOnce, EntryDropped
<1>35. ASSUME ClientShutdown
      PROVE  OpenedOnce(d)'
  BY <1>35, <1>a, <1>b DEF OpenedOnce, ClientShutdown
<1>36. ASSUME ConnectionLost
      PROVE  OpenedOnce(d)'
  BY <1>36, <1>a, <1>b, QueueLoss DEF OpenedOnce, ConnectionLost, Loses
<1>37. ASSUME UNCHANGED vars
      PROVE  OpenedOnce(d)'
  BY <1>37, <1>a DEF OpenedOnce, vars
<1> QED
  BY <1>1, <1>2, <1>3, <1>4, <1>5, <1>6, <1>7, <1>8, <1>9, <1>10, <1>11,
     <1>12, <1>13, <1>14, <1>15, <1>16, <1>17, <1>18, <1>19, <1>20, <1>21,
     <1>22, <1>23, <1>24, <1>25, <1>26, <1>27, <1>28, <1>29, <1>30, <1>31,
     <1>32, <1>33, <1>34, <1>35, <1>36, <1>37
  DEF Next, Opening, ServerReader, ClientReader, Task


\* What is counted, of the beginning.
LEMMA PrefixCounts ==
  ASSUME NEW s \in Seq(Ns), Counts(s), NEW k \in 0..Len(s)
  PROVE  /\ <<>> \o SubSeq(s, 1, k) = SubSeq(s, 1, k)
         /\ Counts(SubSeq(s, 1, k)) /\ Len(SubSeq(s, 1, k)) = k
         /\ Len(s) \in Nat /\ k \in Nat /\ k <= Len(s)
<1>1. SubSeq(s, 1, k) \in Seq(Ns) /\ Len(SubSeq(s, 1, k)) = k
      /\ \A i \in 1..k : SubSeq(s, 1, k)[i] = s[i]
  OBVIOUS
<1>2. Counts(SubSeq(s, 1, k))
  BY <1>1 DEF Counts
<1> QED BY <1>1, <1>2

LEMMA TableStep ==
  ASSUME TunnelInv, [Next]_vars, NEW d \in Cids
  PROVE  TableKept(d)'
<1> USE DEF serverVars, netVars, clientVars
<1>a. TypeOK /\ OpenedOnce(d) /\ TableKept(d) /\ DownInLine(d)
  BY DEF TunnelInv, Kept
<1>b. /\ local \in [Cids -> Seq(Ns)] /\ buf \in [Cids -> Seq(Ns)]
      /\ sent \in [Cids -> 0..MaxData] /\ leof \in [Cids -> Ends]
      /\ conn \in [Cids -> {"none", "pending", "active"}] /\ task \in [Cids -> Tasks]
  BY DEF TunnelInv, TypeOK
<1>c. Len(local[d]) \in Nat /\ Len(buf[d]) \in Nat /\ sent[d] \in Nat /\ Len(<<>>) = 0
  BY <1>b
<1>d. Counts(<<>>)
  BY DEF Counts
<1>1. ASSUME NEW c \in Cids,
             OpenStart(c) \/ OpenSend(c) \/ OpenOk(c)
             \/ OpenFailed(c) \/ OpenCancelled(c) \/ StreamRead(c)
             \/ StreamEof(c) \/ StreamShutdown(c) \/ StreamDrop(c)
             \/ DropClose(c)
      PROVE  TableKept(d)'
  BY <1>1, <1>a
  DEF TableKept, Got, OpenStart, OpenSend, OpenOk, OpenFailed, OpenCancelled, StreamRead,
      StreamEof, StreamShutdown, StreamDrop, DropClose
<1>2. ASSUME NEW c \in Cids,
             RecvResult(c) \/ RecvUpData(c) \/ RecvUpClose(c)
             \/ RegisterCheck(c) \/ RegisterInsert(c)
             \/ SendOverflow(c) \/ RelayData(c)
      PROVE  TableKept(d)'
  BY <1>2, <1>a
  DEF TableKept, Got, RecvResult, RecvUpData, RecvUpClose, RegisterCheck, RegisterInsert,
      SendOverflow, RelayData
<1>3. ASSUME DeliverUp \/ EntryDropped \/ ConnectionLost
      PROVE  TableKept(d)'
  BY <1>3, <1>a DEF TableKept, Got, DeliverUp, EntryDropped, ConnectionLost
<1>4. ASSUME NEW c \in Cids, StreamWrite(c)
      PROVE  TableKept(d)'
  BY <1>4, <1>a, <1>b, <1>c DEF TableKept, Got, StreamWrite
<1>5. ASSUME NEW c \in Cids,
             Dial(c) \/ SendOk(c) \/ RelayEnd(c) \/ SendClose(c)
             \/ SendFail(c) \/ TaskDies(c)
      PROVE  TableKept(d)'
  BY <1>5, <1>a, <1>b
  DEF TableKept, Got, Dial, SendOk, RelayEnd, SendClose, SendFail, TaskDies, TaskGoto
<1>6. ASSUME NEW c \in Cids, Activate(c)
      PROVE  TableKept(d)'
  <2>1. CASE conn[c] = "pending"
    <3>1. PICK k \in 0..Len(buf[c]) :
            /\ local' = [local EXCEPT ![c] = local[c] \o SubSeq(buf[c], 1, k)]
            /\ EndLocal(IF k < Len(buf[c]) THEN {c} ELSE {}, "cut")
      BY <1>6, <2>1 DEF Activate
    <3>2. c = d => /\ local'[d] = SubSeq(buf[d], 1, k)
                  /\ Counts(local'[d]) /\ Len(local'[d]) <= Len(buf[d])
      BY <3>1, <2>1, <1>a, <1>b, PrefixCounts DEF TableKept
    <3>3. c # d => local'[d] = local[d] /\ leof'[d] = leof[d]
      BY <3>1, <1>b DEF EndLocal
    <3>4. /\ task[c] = "activate" /\ task' = [task EXCEPT ![c] = "relay"]
          /\ conn' = [conn EXCEPT ![c] = "active"] /\ buf' = [buf EXCEPT ![c] = <<>>]
          /\ sent' = sent
      BY <1>6, <2>1 DEF Activate, TaskGoto
    <3>5. Len(local'[d]) \in Nat
      BY <3>2, <3>3, <1>b, <1>c
    <3>6. CASE c = d
      BY <3>2, <3>4, <3>5, <3>6, <1>a, <1>b, <1>c, <1>d DEF TableKept, Got
    <3>7. CASE c # d
      BY <3>3, <3>4, <3>7, <1>a, <1>b DEF TableKept, Got
    <3> QED BY <3>6, <3>7
  <2>2. CASE conn[c] # "pending"
    BY <1>6, <2>2, <1>a, <1>b DEF TableKept, Got, Activate, TaskGoto
  <2> QED BY <2>1, <2>2
<1>7. ASSUME NEW c \in Cids, Remove(c)
      PROVE  TableKept(d)'
  BY <1>7, <1>a, <1>b, <1>c, <1>d DEF TableKept, Got, Remove, TaskGoto, EndLocal
<1>8. ASSUME NEW c \in Cids, LocalFails(c)
      PROVE  TableKept(d)'
  BY <1>8, <1>a, <1>b, <1>c, <1>d DEF TableKept, Got, LocalFails, EndLocal
<1>9. ASSUME NEW c \in Cids, RecvOverflow(c)
      PROVE  TableKept(d)'
  BY <1>9, <1>a, <1>b, <1>c, <1>d DEF TableKept, Got, RecvOverflow, EndLocal
<1>10. ASSUME ClientShutdown
      PROVE  TableKept(d)'
  BY <1>10, <1>a, <1>b, <1>c, <1>d DEF TableKept, Got, ClientShutdown, EndLocal
<1>11. ASSUME NEW c \in Cids, RecvOpen(c)
      PROVE  TableKept(d)'
  BY <1>11, <1>a, <1>b, <1>c, QueueSteps DEF TableKept, OpenedOnce, Got, RecvOpen, Takes
<1>12. ASSUME NEW c \in Cids, RecvDownClose(c)
      PROVE  TableKept(d)'
  <2>1. Queued(down, "close", c)
    BY <1>12, <1>a, QueueSteps DEF RecvDownClose, Takes
  <2>2. c = d => task[d] # "none"
    BY <2>1, <1>a DEF OpenedOnce, Started, Opened, Unanswered
  <2> QED
    BY <1>12, <2>2, <1>a, <1>b, <1>c, <1>d DEF TableKept, Got, RecvDownClose, EndLocal
<1>13. ASSUME NEW c \in Cids, RecvPending(c)
      PROVE  TableKept(d)'
  <2>1. /\ buf' = [buf EXCEPT ![c] = Append(buf[c], Head(down).n)] /\ conn[c] = "pending"
        /\ UNCHANGED <<conn, task, local, leof, sent>>
    BY <1>13 DEF RecvPending
  <2>2. CASE c # d
    BY <2>1, <2>2, <1>a, <1>b DEF TableKept, Got
  <2>3. CASE c = d
    <3>1. Head(down).n = Got(d) + 1 /\ Got(d) + 1 <= sent[d] /\ Head(down).n \in Ns
      <4>1. ClientRecv("data", c)
        BY <1>13 DEF RecvPending
      <4>2. Head(down).n \in Ns
        BY <4>1, <1>a, RecvTypes
      <4>3. Takes(down, down', ctl, "data", c)
        BY <4>1, <1>a, QueueSteps
      <4>4. leof[d] = "no"
        BY <2>1, <2>3, <1>a DEF TableKept
      <4>5. Served(down, ctl, c, Got(c), sent[c])
        BY <4>4, <2>3, <1>a DEF DownInLine
      <4>6. Got(d) \in Nat /\ sent[d] \in Nat
        BY <1>b, <1>c DEF Got
      <4> QED BY <2>3, <4>2, <4>3, <4>5, <4>6 DEF Takes
    <3>2. local[d] = <<>> /\ Got(d) = Len(buf[d]) /\ Counts(buf[d])
      BY <2>1, <2>3, <1>a, <1>b, <1>c DEF TableKept, Got
    <3>3. buf'[d] = Append(buf[d], Len(buf[d]) + 1)
      BY <2>1, <2>3, <3>1, <3>2, <1>b
    <3>4. Counts(buf'[d]) /\ Len(buf'[d]) = Len(buf[d]) + 1
      <4>1. buf[d] \in Seq(Ns) /\ Len(buf[d]) + 1 \in Ns
        BY <3>1, <3>2, <1>b
      <4> QED BY <3>2, <3>3, <4>1 DEF Counts
    <3>5. Got(d)' <= sent[d]
      BY <2>1, <3>1, <3>2, <3>4, <1>b, <1>c DEF Got
    <3> QED BY <2>1, <2>3, <3>2, <3>4, <3>5, <1>a DEF TableKept
  <2> QED BY <2>2, <2>3
<1>14. ASSUME NEW c \in Cids, RecvActive(c)
      PROVE  TableKept(d)'
  BY <1>14, <1>a, <1>b, <1>c, QueueSteps
  DEF TableKept, OpenedOnce, Got, Counts, RecvActive, DownInLine, Takes
<1>15. ASSUME UNCHANGED vars
      PROVE  TableKept(d)'
  BY <1>15, <1>a DEF TableKept, Got, vars
<1> QED
  BY <1>1, <1>2, <1>3, <1>4, <1>5, <1>6, <1>7, <1>8, <1>9, <1>10, <1>11,
     <1>12, <1>13, <1>14, <1>15
  DEF Next, Opening, ServerReader, ClientReader, Task

LEMMA DownStep ==
  ASSUME TunnelInv, [Next]_vars, NEW d \in Cids
  PROVE  DownInLine(d)'
<1> USE DEF serverVars, netVars, clientVars
<1>a. TypeOK /\ OpenedOnce(d) /\ TableKept(d) /\ DownInLine(d)
  BY DEF TunnelInv, Kept
<1>b. /\ local \in [Cids -> Seq(Ns)] /\ buf \in [Cids -> Seq(Ns)]
      /\ sent \in [Cids -> 0..MaxData] /\ leof \in [Cids -> Ends]
  BY DEF TunnelInv, TypeOK
<1>c. /\ Len(local[d]) \in Nat /\ Len(buf[d]) \in Nat /\ sent[d] \in Nat /\ Len(<<>>) = 0
      /\ Got(d) \in Nat
  BY <1>b DEF Got
<1>1. ASSUME NEW c \in Cids,
             OpenStart(c) \/ OpenOk(c) \/ OpenFailed(c)
             \/ OpenCancelled(c) \/ StreamRead(c) \/ StreamEof(c)
             \/ StreamDrop(c)
      PROVE  DownInLine(d)'
  BY <1>1, <1>a
  DEF DownInLine, Got, OpenStart, OpenOk, OpenFailed, OpenCancelled, StreamRead,
      StreamEof, StreamDrop
<1>2. ASSUME NEW c \in Cids,
             RecvResult(c) \/ RecvUpData(c) \/ RecvUpClose(c)
             \/ RegisterCheck(c) \/ RegisterInsert(c)
             \/ SendOverflow(c) \/ RelayData(c)
      PROVE  DownInLine(d)'
  BY <1>2, <1>a
  DEF DownInLine, Got, RecvResult, RecvUpData, RecvUpClose, RegisterCheck, RegisterInsert,
      SendOverflow, RelayData
<1>3. ASSUME NEW c \in Cids,
             Dial(c) \/ SendOk(c) \/ RelayEnd(c) \/ SendClose(c)
             \/ SendFail(c) \/ TaskDies(c)
      PROVE  DownInLine(d)'
  BY <1>3, <1>a DEF DownInLine, Got, Dial, SendOk, RelayEnd, SendClose, SendFail, TaskDies
<1>4. ASSUME DeliverUp
      PROVE  DownInLine(d)'
  BY <1>4, <1>a DEF DownInLine, Got, DeliverUp
<1>5. ASSUME EntryDropped
      PROVE  DownInLine(d)'
  BY <1>5, <1>a DEF DownInLine, Served, Got, EntryDropped
<1>6. ASSUME ConnectionLost
      PROVE  DownInLine(d)'
  BY <1>6, <1>a, <1>c, QueueLoss DEF DownInLine, Loses, Got, ConnectionLost
<1>7. ASSUME NEW c \in Cids, OpenSend(c) \/ StreamShutdown(c) \/ DropClose(c)
      PROVE  DownInLine(d)'
  BY <1>7, <1>a, <1>c, QueueSteps DEF DownInLine, Sends, Got, OpenSend, StreamShutdown, DropClose
<1>8. ASSUME NEW c \in Cids, StreamWrite(c)
      PROVE  DownInLine(d)'
  <2>1. ~Queued(down, "close", d) \/ c # d
    BY <1>8, <1>a DEF OpenedOnce, StreamWrite
  <2>2. ctl = "up" /\ sent' = [sent EXCEPT ![c] = sent[c] + 1] /\ SendsData(down, down', c, sent[c])
    BY <1>8, <1>a, QueueSteps DEF StreamWrite, SendDown
  <2> QED
    BY <1>8, <2>1, <2>2, <1>a, <1>b, <1>c DEF DownInLine, TableKept, SendsData, Got, StreamWrite
<1>9. ASSUME NEW c \in Cids, Activate(c)
      PROVE  DownInLine(d)'
  <2>1. CASE conn[c] = "pending"
    <3>1. PICK k \in 0..Len(buf[c]) :
            /\ local' = [local EXCEPT ![c] = local[c] \o SubSeq(buf[c], 1, k)]
            /\ EndLocal(IF k < Len(buf[c]) THEN {c} ELSE {}, "cut")
      BY <1>9, <2>1 DEF Activate
    <3>2. /\ buf' = [buf EXCEPT ![c] = <<>>]
          /\ UNCHANGED <<down, ctl, sent>>
      BY <1>9, <2>1 DEF Activate
    <3>3. CASE c = d
      <4>1. local'[d] = SubSeq(buf[d], 1, k) /\ Len(local'[d]) = k /\ local[d] = <<>>
        BY <3>1, <3>3, <2>1, <1>a, <1>b, PrefixCounts DEF TableKept
      <4>2. leof'[d] = "no" => leof[d] = "no" /\ k = Len(buf[d])
        BY <3>1, <3>3, <1>b, <1>c DEF EndLocal
      <4>3. leof'[d] = "no" => Got(d)' = Got(d)
        BY <3>2, <3>3, <4>1, <4>2, <1>b, <1>c DEF Got
      <4> QED BY <3>2, <4>2, <4>3, <1>a DEF DownInLine
    <3>4. CASE c # d
      BY <3>1, <3>2, <3>4, <1>a, <1>b DEF DownInLine, Got, EndLocal
    <3> QED BY <3>3, <3>4
  <2>2. CASE conn[c] # "pending"
    <3>1. UNCHANGED <<local, leof, buf, down, ctl, sent>>
      BY <1>9, <2>2 DEF Activate
    <3> QED BY <3>1, <1>a DEF DownInLine, Got
  <2> QED BY <2>1, <2>2
<1>10. ASSUME NEW c \in Cids, Remove(c)
      PROVE  DownInLine(d)'
  BY <1>10, <1>a, <1>b, <1>c DEF DownInLine, TableKept, Got, Remove, EndLocal
<1>11. ASSUME NEW c \in Cids, LocalFails(c)
      PROVE  DownInLine(d)'
  BY <1>11, <1>a, <1>b, <1>c DEF DownInLine, TableKept, Got, LocalFails, EndLocal
<1>12. ASSUME ClientShutdown
      PROVE  DownInLine(d)'
  BY <1>12, <1>a, <1>b, <1>c DEF DownInLine, TableKept, Got, ClientShutdown, EndLocal
<1>13. ASSUME NEW c \in Cids, RecvOpen(c)
      PROVE  DownInLine(d)'
  <2>1. Takes(down, down', ctl, "open", c)
    BY <1>13, <1>a, QueueSteps DEF RecvOpen
  <2>2. UNCHANGED <<local, leof, buf, ctl, sent>>
    BY <1>13 DEF RecvOpen
  <2> QED BY <2>1, <2>2, <1>a, <1>c DEF DownInLine, Got, Takes
<1>14. ASSUME NEW c \in Cids, RecvDownClose(c)
      PROVE  DownInLine(d)'
  BY <1>14, <1>a, <1>b, <1>c, QueueSteps DEF DownInLine, Got, RecvDownClose, EndLocal, Takes
<1>15. ASSUME NEW c \in Cids, RecvOverflow(c)
      PROVE  DownInLine(d)'
  BY <1>15, <1>a, <1>b, <1>c, QueueSteps DEF DownInLine, Got, RecvOverflow, EndLocal, Takes
<1>16. ASSUME NEW c \in Cids, RecvPending(c)
      PROVE  DownInLine(d)'
  BY <1>16, <1>a, <1>b, <1>c, QueueSteps DEF DownInLine, TableKept, Got, RecvPending, Takes
<1>17. ASSUME NEW c \in Cids, RecvActive(c)
      PROVE  DownInLine(d)'
  <2>1. Takes(down, down', ctl, "data", c)
    BY <1>17, <1>a, QueueSteps DEF RecvActive
  <2>2. /\ local' = IF conn[c] = "active" /\ leof[c] = "no"
                    THEN [local EXCEPT ![c] = Append(local[c], Head(down).n)] ELSE local
        /\ UNCHANGED <<leof, buf, ctl, sent>> /\ conn[c] # "pending"
        /\ Head(down).n \in Ns
    BY <1>17, <1>a, RecvTypes DEF RecvActive
  <2>3. CASE c # d
    BY <2>1, <2>2, <2>3, <1>a, <1>b, <1>c DEF DownInLine, Got, Takes
  <2>4. CASE c = d /\ leof[d] = "no"
    <3>1. task[d] # "none"
      <4>1. Head(down).n <= sent[d] /\ Head(down).n > 0 /\ Head(down).n \in Nat
        BY <2>1, <2>2, <2>4, <1>a, MaxDataAssumption DEF OpenedOnce, Takes, Ns
      <4> QED BY <4>1, <1>a, <1>c DEF OpenedOnce, Started, Opened, Unanswered
    <3>2. conn[d] = "active"
      BY <2>2, <2>4, <3>1, <1>a DEF TableKept, TypeOK
    <3>3. Got(d)' = Got(d) + 1
      BY <2>2, <2>4, <3>2, <1>b, <1>c, SeqTypes DEF Got
    <3> QED BY <2>1, <2>2, <2>4, <3>3, <1>a, <1>c DEF DownInLine, Takes
  <2>5. CASE leof[d] # "no"
    BY <2>2, <2>5 DEF DownInLine
  <2> QED BY <2>3, <2>4, <2>5
<1>18. ASSUME UNCHANGED vars
      PROVE  DownInLine(d)'
  BY <1>18, <1>a DEF DownInLine, Got, vars
<1> QED
  BY <1>1, <1>2, <1>3, <1>4, <1>5, <1>6, <1>7, <1>8, <1>9, <1>10, <1>11,
     <1>12, <1>13, <1>14, <1>15, <1>16, <1>17, <1>18
  DEF Next, Opening, ServerReader, ClientReader, Task

LEMMA FailedStep ==
  ASSUME TunnelInv, [Next]_vars, NEW d \in Cids
  PROVE  FailedIsDead(d)'
<1> USE DEF serverVars, netVars, clientVars, Dead, Forgotten
<1>a. /\ TypeOK /\ OpenedOnce(d) /\ TableKept(d) /\ FailedIsDead(d)
      /\ ctl = "gone" => up = <<>>
  BY DEF TunnelInv, Kept, LoopKept
<1>b. /\ sp \in [Cids -> Sps] /\ task \in [Cids -> Tasks]
      /\ conn \in [Cids -> {"none", "pending", "active"}]
  BY DEF TunnelInv, TypeOK
<1>c. Idle # <<d, "overflow">> /\ \A c : <<c, "insert">> # <<d, "overflow">>
  BY DEF Idle
<1>1. ASSUME NEW c \in Cids,
             StreamWrite(c) \/ StreamRead(c) \/ StreamEof(c)
             \/ DropClose(c) \/ RegisterInsert(c) \/ RecvPending(c)
             \/ RecvActive(c) \/ LocalFails(c)
      PROVE  FailedIsDead(d)'
  BY <1>1, <1>a, <1>c
  DEF FailedIsDead, StreamWrite, StreamRead, StreamEof, DropClose, RegisterInsert,
      RecvPending, RecvActive, LocalFails, ClientRecv
<1>2. ASSUME DeliverUp
      PROVE  FailedIsDead(d)'
  BY <1>2, <1>a DEF FailedIsDead, DeliverUp
<1>3. ASSUME NEW c \in Cids,
             OpenStart(c) \/ OpenOk(c) \/ OpenFailed(c)
             \/ OpenCancelled(c) \/ StreamShutdown(c)
             \/ StreamDrop(c)
      PROVE  FailedIsDead(d)'
  BY <1>3, <1>a, <1>b
  DEF FailedIsDead, OpenStart, OpenOk, OpenFailed, OpenCancelled, StreamShutdown, StreamDrop
<1>4. ASSUME NEW c \in Cids, OpenSend(c)
      PROVE  FailedIsDead(d)'
  BY <1>4, <1>a, <1>b DEF FailedIsDead, OpenedOnce, OpenSend
<1>5. ASSUME EntryDropped
      PROVE  FailedIsDead(d)'
  BY <1>5, <1>a DEF FailedIsDead, EntryDropped
<1>6. ASSUME ClientShutdown
      PROVE  FailedIsDead(d)'
  BY <1>6, <1>a DEF FailedIsDead, ClientShutdown
<1>7. ASSUME ConnectionLost
      PROVE  FailedIsDead(d)'
  BY <1>7, <1>a, QueueLoss DEF FailedIsDead, ConnectionLost, Loses
<1>8. ASSUME NEW c \in Cids, RecvResult(c)
      PROVE  FailedIsDead(d)'
  <2>1. PICK t \in {"ok", "fail"} :
          /\ ServerRecv(t, c)
          /\ active' = IF t = "fail" THEN active \ {c} ELSE active
    BY <1>8 DEF RecvResult
  <2>2. Takes(up, up', ctl, t, c)
    BY <2>1, <1>a, QueueSteps
  <2>3. UNCHANGED <<sp, closed, ctl, clientVars>>
    BY <1>8 DEF RecvResult
  <2> QED BY <2>1, <2>2, <2>3, <1>a DEF FailedIsDead, Takes
<1>9. ASSUME NEW c \in Cids, RecvUpData(c) \/ RecvUpClose(c)
      PROVE  FailedIsDead(d)'
  BY <1>9, <1>a, QueueSteps DEF FailedIsDead, RecvUpData, RecvUpClose, Takes
<1>10. ASSUME NEW c \in Cids, RegisterCheck(c)
      PROVE  FailedIsDead(d)'
  BY <1>10, <1>a, <1>c DEF FailedIsDead, RegisterCheck
<1>11. ASSUME NEW c \in Cids, RecvOpen(c)
      PROVE  FailedIsDead(d)'
  BY <1>11, <1>a, <1>b, QueueSteps DEF FailedIsDead, OpenedOnce, RecvOpen, Takes
<1>12. ASSUME NEW c \in Cids, RecvOverflow(c)
      PROVE  FailedIsDead(d)'
  BY <1>12, <1>a, <1>b DEF FailedIsDead, OpenedOnce, TableKept, RecvOverflow
<1>13. ASSUME NEW c \in Cids, RecvDownClose(c)
      PROVE  FailedIsDead(d)'
  BY <1>13, <1>a, <1>b DEF FailedIsDead, RecvDownClose
<1>14. ASSUME NEW c \in Cids, SendOk(c)
      PROVE  FailedIsDead(d)'
  BY <1>14, <1>a, <1>b, QueueSteps DEF FailedIsDead, OpenedOnce, SendOk, TaskGoto, Sends
<1>15. ASSUME NEW c \in Cids, SendFail(c)
      PROVE  FailedIsDead(d)'
  BY <1>15, <1>a, <1>b, QueueSteps DEF FailedIsDead, OpenedOnce, SendFail, TaskGoto, Sends
<1>16. ASSUME NEW c \in Cids, SendClose(c)
      PROVE  FailedIsDead(d)'
  BY <1>16, <1>a, <1>b, QueueSteps DEF FailedIsDead, OpenedOnce, SendClose, TaskGoto, Sends
<1>17. ASSUME NEW c \in Cids, SendOverflow(c)
      PROVE  FailedIsDead(d)'
  BY <1>17, <1>a, <1>b, <1>c, QueueSteps DEF FailedIsDead, SendOverflow, Sends
<1>18. ASSUME NEW c \in Cids, RelayData(c)
      PROVE  FailedIsDead(d)'
  BY <1>18, <1>a, <1>b, QueueSteps DEF FailedIsDead, RelayData, SendsData
<1>19. ASSUME NEW c \in Cids, Dial(c) \/ RelayEnd(c) \/ Remove(c) \/ TaskDies(c)
      PROVE  FailedIsDead(d)'
  BY <1>19, <1>a, <1>b DEF FailedIsDead, Dial, RelayEnd, Remove, TaskDies, TaskGoto
<1>20. ASSUME NEW c \in Cids, Activate(c)
      PROVE  FailedIsDead(d)'
  BY <1>20, <1>a, <1>b DEF FailedIsDead, Activate, TaskGoto
<1>21. ASSUME UNCHANGED vars
      PROVE  FailedIsDead(d)'
  BY <1>21, <1>a DEF FailedIsDead, vars
<1> QED
  BY <1>1, <1>2, <1>3, <1>4, <1>5, <1>6, <1>7, <1>8, <1>9, <1>10, <1>11,
     <1>12, <1>13, <1>14, <1>15, <1>16, <1>17, <1>18, <1>19, <1>20, <1>21
  DEF Next, Opening, ServerReader, ClientReader, Task

LEMMA LoopStep ==
  ASSUME TunnelInv, [Next]_vars
  PROVE  LoopKept'
<1> USE DEF serverVars, netVars, clientVars
<1>a. TypeOK /\ LoopKept
  BY DEF TunnelInv
<1>1. ASSUME NEW c \in Cids,
             OpenStart(c) \/ OpenSend(c) \/ OpenOk(c)
             \/ OpenFailed(c) \/ OpenCancelled(c) \/ StreamWrite(c)
             \/ StreamRead(c) \/ StreamEof(c) \/ StreamShutdown(c)
             \/ StreamDrop(c) \/ DropClose(c)
      PROVE  LoopKept'
  BY <1>1, <1>a
  DEF LoopKept, Unlocked, OpenStart, OpenSend, OpenOk, OpenFailed, OpenCancelled, StreamWrite,
      StreamRead, StreamEof, StreamShutdown, StreamDrop, DropClose
<1>2. ASSUME NEW c \in Cids,
             RecvOpen(c) \/ RegisterCheck(c) \/ RegisterInsert(c)
             \/ RecvPending(c) \/ RecvOverflow(c) \/ RecvActive(c)
             \/ RecvDownClose(c)
      PROVE  LoopKept'
  BY <1>2, <1>a
  DEF LoopKept, RecvOpen, RegisterCheck, RegisterInsert, RecvPending, RecvOverflow,
      RecvActive, RecvDownClose
<1>3. ASSUME NEW c \in Cids,
             Dial(c) \/ Activate(c) \/ RelayEnd(c) \/ Remove(c)
             \/ TaskDies(c) \/ LocalFails(c)
      PROVE  LoopKept'
  BY <1>3, <1>a DEF LoopKept, Dial, Activate, RelayEnd, Remove, TaskDies, LocalFails
<1>4. ASSUME NEW c \in Cids,
             SendOk(c) \/ SendClose(c) \/ SendFail(c)
             \/ SendOverflow(c) \/ RelayData(c)
      PROVE  LoopKept'
  BY <1>4, <1>a
  DEF LoopKept, SendOk, SendClose, SendFail, SendOverflow, RelayData, AwaitUp, SendUp
<1>5. ASSUME NEW c \in Cids, RecvResult(c) \/ RecvUpData(c) \/ RecvUpClose(c)
      PROVE  LoopKept'
  BY <1>5, <1>a DEF LoopKept, RecvResult, RecvUpData, RecvUpClose, ServerRecv
<1>6. ASSUME
             DeliverUp \/ EntryDropped \/ ClientShutdown
             \/ ConnectionLost
      PROVE  LoopKept'
  BY <1>6, <1>a DEF LoopKept, DeliverUp, EntryDropped, ClientShutdown, ConnectionLost
<1>7. ASSUME UNCHANGED vars
      PROVE  LoopKept'
  BY <1>7, <1>a DEF LoopKept, vars
<1> QED
  BY <1>1, <1>2, <1>3, <1>4, <1>5, <1>6, <1>7
  DEF Next, Opening, ServerReader, ClientReader, Task

LEMMA UpStep ==
  ASSUME TunnelInv, [Next]_vars, NEW d \in Cids
  PROVE  UpInLine(d)'
<1> USE DEF serverVars, netVars, clientVars, HasReceiver
<1>a. TypeOK /\ LoopKept /\ OpenedOnce(d) /\ TableKept(d) /\ UpInLine(d) /\ StreamKept(d)
  BY DEF TunnelInv, Kept
<1>b. /\ sp \in [Cids -> Sps] /\ inq \in [Cids -> Seq(Ns)] /\ rcvd \in [Cids -> Seq(Ns)]
      /\ lsent \in [Cids -> 0..MaxData]
  BY DEF TunnelInv, TypeOK
<1>c. /\ Len(inq[d]) \in Nat /\ Len(rcvd[d]) \in Nat /\ lsent[d] \in Nat /\ Taken(d) \in Nat
      /\ InHand(d) \in Nat /\ Len(<<>>) = 0
  BY <1>b DEF Taken, InHand
<1>d. inq' \in [Cids -> Seq(Ns)] /\ rcvd' \in [Cids -> Seq(Ns)]
  BY TypeStep DEF TunnelInv, TypeOK
<1>1. ASSUME NEW c \in Cids,
             RegisterCheck(c) \/ RegisterInsert(c) \/ RecvOpen(c)
             \/ RecvPending(c) \/ RecvOverflow(c) \/ RecvActive(c)
             \/ RecvDownClose(c)
      PROVE  UpInLine(d)'
  BY <1>1, <1>a
  DEF UpInLine, Taken, InHand, RegisterCheck, RegisterInsert, RecvOpen, RecvPending, RecvOverflow,
      RecvActive, RecvDownClose
<1>2. ASSUME NEW c \in Cids,
             Dial(c) \/ Activate(c) \/ RelayEnd(c) \/ Remove(c)
             \/ TaskDies(c) \/ LocalFails(c)
      PROVE  UpInLine(d)'
  BY <1>2, <1>a DEF UpInLine, Taken, InHand, Dial, Activate, RelayEnd, Remove, TaskDies, LocalFails
<1>3. ASSUME NEW c \in Cids,
             OpenOk(c) \/ StreamEof(c) \/ StreamWrite(c)
             \/ StreamShutdown(c) \/ DropClose(c)
      PROVE  UpInLine(d)'
  BY <1>3, <1>a, <1>b
  DEF UpInLine, Taken, InHand, OpenOk, StreamEof, StreamWrite, StreamShutdown, DropClose
<1>4. ASSUME NEW c \in Cids, OpenFailed(c) \/ OpenCancelled(c) \/ StreamDrop(c)
      PROVE  UpInLine(d)'
  BY <1>4, <1>a, <1>b DEF UpInLine, Taken, InHand, OpenFailed, OpenCancelled, StreamDrop
<1>5. ASSUME NEW c \in Cids, OpenSend(c)
      PROVE  UpInLine(d)'
  BY <1>5, <1>a, <1>b DEF UpInLine, Taken, InHand, OpenSend
<1>6. ASSUME NEW c \in Cids, OpenStart(c)
      PROVE  UpInLine(d)'
  <2>1. CASE c = d
    <3>1. inq[d] = <<>> /\ rcvd[d] = <<>> /\ srv = Idle /\ task[d] = "none" /\ lsent[d] = 0
      BY <1>6, <2>1, <1>a DEF OpenStart, OpenedOnce, Started, Unanswered, Unlocked
    <3>2. Below(up, d, 0) /\ ~Queued(up, "close", d)
      BY <3>1, <1>a DEF OpenedOnce
    <3>3. Served(up, ctl, d, 0, 0)
      BY <3>2, <1>a, NothingQueued DEF TypeOK
    <3> QED BY <1>6, <3>1, <3>3, <1>c DEF UpInLine, Taken, InHand, OpenStart
  <2>2. CASE c # d
    BY <1>6, <2>2, <1>a, <1>b DEF UpInLine, Taken, InHand, OpenStart
  <2> QED BY <2>1, <2>2
<1>7. ASSUME NEW c \in Cids, StreamRead(c)
      PROVE  UpInLine(d)'
  <2>1. c = d => /\ Len(rcvd'[d]) = Len(rcvd[d]) + 1 /\ Len(inq'[d]) = Len(inq[d]) - 1
    BY <1>7, <1>b, SeqTypes DEF StreamRead
  <2>2. UNCHANGED <<active, srv, up, ctl, lsent, sp>>
        /\ (c # d => rcvd'[d] = rcvd[d] /\ inq'[d] = inq[d])
    BY <1>7, <1>b DEF StreamRead
  <2>3. InHand(d)' = InHand(d)
    BY <2>2 DEF InHand
  <2>4. Taken(d)' = Taken(d)
    <3>1. CASE c = d
      <4>1. Len(rcvd'[d]) = Len(rcvd[d]) + 1 /\ Len(inq'[d]) = Len(inq[d]) - 1
        BY <2>1, <3>1
      <4>2. Len(rcvd'[d]) + Len(inq'[d]) = Len(rcvd[d]) + Len(inq[d])
        BY <4>1, <1>b, <1>c, <1>d
      <4> QED BY <4>2, <2>3, <1>b, <1>c, <1>d DEF Taken
    <3>2. CASE c # d
      BY <2>2, <2>3, <3>2 DEF Taken
    <3> QED BY <3>1, <3>2
  <2> QED BY <2>2, <2>4, <1>a DEF UpInLine
<1>8. ASSUME NEW c \in Cids, RecvResult(c)
      PROVE  UpInLine(d)'
  <2>1. PICK t \in {"ok", "fail"} :
          /\ ServerRecv(t, c)
          /\ active' = IF t = "fail" THEN active \ {c} ELSE active
    BY <1>8 DEF RecvResult
  <2>2. Takes(up, up', ctl, t, c)
    BY <2>1, <1>a, QueueSteps
  <2>3. UNCHANGED <<sp, srv, inq, rcvd, ctl, lsent>>
    BY <1>8 DEF RecvResult
  <2> QED BY <2>1, <2>2, <2>3, <1>a, <1>c DEF UpInLine, Taken, InHand, Takes
<1>9. ASSUME NEW c \in Cids, RecvUpClose(c)
      PROVE  UpInLine(d)'
  <2>1. Takes(up, up', ctl, "close", c) /\ active' = active \ {c}
    BY <1>9, <1>a, QueueSteps DEF RecvUpClose
  <2>2. UNCHANGED <<sp, srv, inq, rcvd, ctl, lsent>>
    BY <1>9 DEF RecvUpClose
  <2> QED BY <2>1, <2>2, <1>a, <1>c DEF UpInLine, Taken, InHand, Takes
<1>10. ASSUME NEW c \in Cids, RecvUpData(c)
      PROVE  UpInLine(d)'
  <2>1. Takes(up, up', ctl, "data", c)
    BY <1>10, <1>a, QueueSteps DEF RecvUpData
  <2>2. /\ srv = Idle /\ srv' = IF c \in active THEN <<c, Head(up).n>> ELSE Idle
        /\ UNCHANGED <<sp, active, inq, rcvd, ctl, lsent>>
    BY <1>10 DEF RecvUpData, ServerRecv
  <2>3. CASE d = c /\ c \in active
    <3>1. srv' # Idle /\ srv'[1] = d
      BY <2>2, <2>3 DEF Idle
    <3>2. Taken(d)' = Taken(d) + 1
      BY <2>2, <3>1, <1>c DEF Taken, InHand
    <3> QED BY <2>1, <2>2, <2>3, <3>2, <1>a, <1>c DEF UpInLine, Takes
  <2>4. CASE d = c /\ c \notin active
    BY <2>2, <2>4 DEF UpInLine
  <2>5. CASE d # c
    <3>1. InHand(d) = 0 /\ InHand(d)' = 0
      BY <2>2, <2>5 DEF InHand
    <3>2. Taken(d)' = Taken(d)
      BY <2>2, <3>1, <1>c DEF Taken
    <3> QED BY <2>1, <2>2, <2>5, <3>2, <1>a, <1>c DEF UpInLine, Takes
  <2> QED BY <2>3, <2>4, <2>5
<1>11. ASSUME DeliverUp
      PROVE  UpInLine(d)'
  <2>1. CASE HasReceiver(d) /\ srv[1] = d
    <3>1. inq' = [inq EXCEPT ![d] = Append(inq[d], srv[2])] /\ srv # Idle /\ srv' = Idle
          /\ srv[2] \in Ns /\ UNCHANGED <<active, sp, rcvd, up, ctl, lsent>>
      BY <1>11, <2>1, <1>a DEF DeliverUp, TypeOK
    <3>2. Len(inq'[d]) = Len(inq[d]) + 1
      BY <3>1, <1>b, SeqTypes
    <3>3. InHand(d) = 1 /\ InHand(d)' = 0
      BY <2>1, <3>1 DEF InHand
    <3>4. Taken(d)' = Taken(d)
      BY <3>1, <3>2, <3>3, <1>b, <1>c, <1>d DEF Taken
    <3> QED BY <3>1, <3>4, <1>a DEF UpInLine
  <2>2. CASE srv[1] # d
    <3>1. inq'[d] = inq[d] /\ srv' = Idle /\ UNCHANGED <<active, sp, rcvd, up, ctl, lsent>>
      BY <1>11, <2>2, <1>b DEF DeliverUp
    <3> QED BY <2>2, <3>1, <1>a DEF UpInLine, Taken, InHand
  <2>3. CASE ~HasReceiver(d)
    BY <1>11, <2>3 DEF UpInLine, DeliverUp
  <2> QED BY <2>1, <2>2, <2>3
<1>12. ASSUME EntryDropped
      PROVE  UpInLine(d)'
  BY <1>12 DEF UpInLine, EntryDropped
<1>13. ASSUME ClientShutdown
      PROVE  UpInLine(d)'
  BY <1>13, <1>a DEF UpInLine, Taken, InHand, ClientShutdown
<1>14. ASSUME ConnectionLost
      PROVE  UpInLine(d)'
  BY <1>14, <1>a, <1>c, QueueLoss DEF UpInLine, Loses, Taken, InHand, ConnectionLost
<1>15. ASSUME NEW c \in Cids,
             SendOk(c) \/ SendFail(c) \/ SendClose(c)
             \/ SendOverflow(c)
      PROVE  UpInLine(d)'
  <2>1. \E t : Sends(up, up', ctl, t, c)
    BY <1>15, <1>a, QueueSteps
  <2>2. UNCHANGED <<active, sp, rcvd, inq, srv, ctl, lsent>>
    BY <1>15 DEF SendOk, SendFail, SendClose, SendOverflow
  <2> QED BY <2>1, <2>2, <1>a, <1>c DEF UpInLine, Sends, Taken, InHand
<1>16. ASSUME NEW c \in Cids, RelayData(c)
      PROVE  UpInLine(d)'
  <2>1. c = d => ~Queued(up, "close", d)
    BY <1>16, <1>a DEF OpenedOnce, RelayData
  <2>2. /\ ctl = "up" /\ lsent' = [lsent EXCEPT ![c] = lsent[c] + 1]
        /\ SendsData(up, up', c, lsent[c]) /\ UNCHANGED <<active, sp, rcvd, inq, srv, ctl>>
    BY <1>16, <1>a, QueueSteps DEF RelayData, SendUp
  <2>3. Taken(d)' = Taken(d)
    BY <2>2 DEF Taken, InHand
  <2> QED BY <2>1, <2>2, <2>3, <1>a, <1>b, <1>c DEF UpInLine, StreamKept, SendsData
<1>17. ASSUME UNCHANGED vars
      PROVE  UpInLine(d)'
  BY <1>17, <1>a DEF UpInLine, Taken, InHand, vars
<1> QED
  BY <1>1, <1>2, <1>3, <1>4, <1>5, <1>6, <1>7, <1>8, <1>9, <1>10, <1>11,
     <1>12, <1>13, <1>14, <1>15, <1>16, <1>17
  DEF Next, Opening, ServerReader, ClientReader, Task

\* The stream reads one more, and the reader loop delivers one more.
LEMMA ReadMoves ==
  ASSUME NEW r \in Seq(Ns), NEW q \in Seq(Ns), q # <<>>, Counts(r),
         \A i \in 1..Len(q) : q[i] = Len(r) + i
  PROVE  /\ Len(Append(r, Head(q))) = Len(r) + 1 /\ Len(Tail(q)) = Len(q) - 1
         /\ Counts(Append(r, Head(q)))
         /\ \A i \in 1..Len(Tail(q)) : Tail(q)[i] = Len(Append(r, Head(q))) + i
<1>1. /\ Len(q) \in Nat /\ Len(q) > 0 /\ Len(r) \in Nat /\ Head(q) = q[1]
      /\ Head(q) \in Ns /\ Len(Tail(q)) = Len(q) - 1
      /\ \A i \in 1..Len(q) - 1 : Tail(q)[i] = q[i + 1]
  OBVIOUS
<1>2. Head(q) = Len(r) + 1
  BY <1>1
<1>3. /\ Len(Append(r, Head(q))) = Len(r) + 1
      /\ \A i \in 1..Len(r) : Append(r, Head(q))[i] = r[i]
      /\ Append(r, Head(q))[Len(r) + 1] = Head(q)
  BY <1>1
<1>4. Counts(Append(r, Head(q)))
  BY <1>1, <1>2, <1>3 DEF Counts
<1>5. ASSUME NEW i \in 1..Len(Tail(q))
      PROVE  Tail(q)[i] = (Len(r) + 1) + i
  BY <1>1
<1> QED BY <1>1, <1>3, <1>4, <1>5

LEMMA InqMoves ==
  ASSUME NEW q \in Seq(Ns), NEW n \in Ns, NEW k \in Nat, n = k + Len(q) + 1,
         \A i \in 1..Len(q) : q[i] = k + i
  PROVE  /\ Len(Append(q, n)) = Len(q) + 1
         /\ \A i \in 1..Len(Append(q, n)) : Append(q, n)[i] = k + i
<1>1. /\ Len(q) \in Nat /\ Len(Append(q, n)) = Len(q) + 1
      /\ \A i \in 1..Len(q) : Append(q, n)[i] = q[i]
      /\ Append(q, n)[Len(q) + 1] = n
  OBVIOUS
<1>2. ASSUME NEW i \in 1..Len(q) + 1
      PROVE  Append(q, n)[i] = k + i
  <2>1. CASE i = Len(q) + 1
    BY <1>1, <2>1
  <2>2. CASE i # Len(q) + 1
    BY <1>1, <2>2
  <2> QED BY <2>1, <2>2
<1> QED BY <1>1, <1>2

LEMMA StreamStep ==
  ASSUME TunnelInv, [Next]_vars, NEW d \in Cids
  PROVE  StreamKept(d)'
<1> USE DEF serverVars, netVars, clientVars, HasReceiver, Opened
<1>a. /\ TypeOK /\ LoopKept /\ OpenedOnce(d) /\ TableKept(d) /\ FailedIsDead(d)
      /\ UpInLine(d) /\ StreamKept(d)
  BY DEF TunnelInv, Kept
<1>b. /\ sp \in [Cids -> Sps] /\ inq \in [Cids -> Seq(Ns)] /\ rcvd \in [Cids -> Seq(Ns)]
      /\ lsent \in [Cids -> 0..MaxData] /\ eof \in [Cids -> Ends] /\ task \in [Cids -> Tasks]
  BY DEF TunnelInv, TypeOK
<1>c. /\ Len(inq[d]) \in Nat /\ Len(rcvd[d]) \in Nat /\ lsent[d] \in Nat /\ Taken(d) \in Nat
      /\ InHand(d) \in Nat /\ Len(<<>>) = 0
  BY <1>b DEF Taken, InHand
<1>d. inq' \in [Cids -> Seq(Ns)] /\ rcvd' \in [Cids -> Seq(Ns)]
  BY TypeStep DEF TunnelInv, TypeOK
<1>1. ASSUME NEW c \in Cids,
             RegisterCheck(c) \/ RegisterInsert(c) \/ RecvPending(c)
             \/ RecvOverflow(c) \/ RecvActive(c) \/ RecvDownClose(c)
             \/ LocalFails(c) \/ SendOverflow(c)
      PROVE  StreamKept(d)'
  BY <1>1, <1>a
  DEF StreamKept, Taken, InHand, RegisterCheck, RegisterInsert, RecvPending, RecvOverflow,
      RecvActive, RecvDownClose, LocalFails, SendOverflow
<1>2. ASSUME ClientShutdown \/ ConnectionLost
      PROVE  StreamKept(d)'
  BY <1>2, <1>a DEF StreamKept, Taken, InHand, ClientShutdown, ConnectionLost
<1>3. ASSUME EntryDropped
      PROVE  StreamKept(d)'
  BY <1>3, <1>a DEF StreamKept, Taken, InHand, EntryDropped
<1>4. ASSUME NEW c \in Cids, StreamWrite(c) \/ DropClose(c)
      PROVE  StreamKept(d)'
  BY <1>4, <1>a DEF StreamKept, Taken, InHand, StreamWrite, DropClose
<1>5. ASSUME NEW c \in Cids, OpenOk(c)
      PROVE  StreamKept(d)'
  <2>1. HasReceiver(d)' => HasReceiver(d)
    BY <1>5, <1>b DEF OpenOk
  <2>2. sp[d] \in Opened => sp'[d] \in Opened
    BY <1>5, <1>b DEF OpenOk
  <2>3. UNCHANGED <<rcvd, inq, srv, lsent, closed, active, task, eof>>
    BY <1>5 DEF OpenOk
  <2> QED BY <2>1, <2>2, <2>3, <1>a DEF StreamKept, Taken, InHand
<1>6. ASSUME NEW c \in Cids, StreamShutdown(c)
      PROVE  StreamKept(d)'
  <2>1. HasReceiver(d)' => HasReceiver(d)
    BY <1>6, <1>b DEF StreamShutdown
  <2>2. sp[d] \in Opened => sp'[d] \in Opened
    BY <1>6, <1>b DEF StreamShutdown
  <2>3. UNCHANGED <<rcvd, inq, srv, lsent, closed, active, task, eof>>
    BY <1>6 DEF StreamShutdown
  <2> QED BY <2>1, <2>2, <2>3, <1>a DEF StreamKept, Taken, InHand
<1>7. ASSUME NEW c \in Cids, OpenSend(c)
      PROVE  StreamKept(d)'
  <2>1. HasReceiver(d)' => HasReceiver(d)
    BY <1>7, <1>b DEF OpenSend
  <2>2. sp[d] \in Opened => sp'[d] \in Opened
    BY <1>7, <1>b DEF OpenSend
  <2>3. UNCHANGED <<rcvd, inq, srv, lsent, closed, active, task, eof>>
    BY <1>7 DEF OpenSend
  <2> QED BY <2>1, <2>2, <2>3, <1>a DEF StreamKept, Taken, InHand
<1>8. ASSUME NEW c \in Cids, OpenStart(c)
      PROVE  StreamKept(d)'
  <2>1. /\ sp[c] = "idle" /\ srv = Idle /\ sp' = [sp EXCEPT ![c] = "send"]
        /\ active' = active \cup {c} /\ UNCHANGED <<rcvd, inq, srv, lsent, closed, task, eof>>
    BY <1>8 DEF OpenStart, Unlocked
  <2>2. CASE c # d
    BY <2>1, <2>2, <1>a, <1>b DEF StreamKept, Taken, InHand
  <2>3. CASE c = d
    <3>1. inq[d] = <<>> /\ rcvd[d] = <<>> /\ task[d] = "none"
      BY <2>1, <2>3, <1>a DEF OpenedOnce, Started
    <3>2. d \notin closed /\ eof[d] = "no"
      BY <2>1, <2>3, <3>1, <1>a DEF StreamKept, TypeOK, Ends
    <3>3. Taken(d)' = 0
      BY <2>1, <3>1, <1>c DEF Taken, InHand
    <3> QED BY <2>1, <3>1, <3>2, <3>3, <1>a, <1>c DEF StreamKept
  <2> QED BY <2>2, <2>3
<1>9. ASSUME NEW c \in Cids, OpenFailed(c)
      PROVE  StreamKept(d)'
  BY <1>9, <1>a, <1>b DEF StreamKept, Taken, InHand, OpenFailed
<1>10. ASSUME NEW c \in Cids, OpenCancelled(c)
      PROVE  StreamKept(d)'
  BY <1>10, <1>a, <1>b DEF StreamKept, Taken, InHand, OpenCancelled
<1>11. ASSUME NEW c \in Cids, StreamDrop(c)
      PROVE  StreamKept(d)'
  BY <1>11, <1>a, <1>b DEF StreamKept, Taken, InHand, StreamDrop
<1>12. ASSUME NEW c \in Cids, StreamEof(c)
      PROVE  StreamKept(d)'
  BY <1>12, <1>a, <1>b DEF StreamKept, Taken, InHand, StreamEof
<1>13. ASSUME NEW c \in Cids, RecvResult(c)
      PROVE  StreamKept(d)'
  <2>1. UNCHANGED <<sp, rcvd, inq, srv, lsent, closed, task, eof>>
        /\ active' \subseteq active
    BY <1>13 DEF RecvResult
  <2> QED BY <2>1, <1>a DEF StreamKept, Taken, InHand
<1>14. ASSUME NEW c \in Cids,
             Dial(c) \/ SendOk(c) \/ SendClose(c) \/ SendFail(c)
             \/ Remove(c) \/ TaskDies(c) \/ RelayEnd(c)
             \/ Activate(c)
      PROVE  StreamKept(d)'
  <2>1. task[d] \in {"remove", "done"} => task'[d] \in {"remove", "done"}
    BY <1>14, <1>b DEF Dial, SendOk, SendClose, SendFail, Remove, TaskDies, RelayEnd, Activate, TaskGoto
  <2>2. UNCHANGED <<sp, rcvd, inq, srv, lsent, closed, active, eof>>
    BY <1>14 DEF Dial, SendOk, SendClose, SendFail, Remove, TaskDies, RelayEnd, Activate
  <2> QED BY <2>1, <2>2, <1>a DEF StreamKept, Taken, InHand
<1>15. ASSUME NEW c \in Cids, RecvOpen(c)
      PROVE  StreamKept(d)'
  <2>1. task[d] \in {"remove", "done"} => task'[d] = task[d]
    BY <1>15, <1>a, <1>b, QueueSteps DEF RecvOpen, OpenedOnce, Takes
  <2>2. UNCHANGED <<sp, rcvd, inq, srv, lsent, closed, active, eof>>
    BY <1>15 DEF RecvOpen
  <2> QED BY <2>1, <2>2, <1>a DEF StreamKept, Taken, InHand
<1>16. ASSUME NEW c \in Cids, RelayData(c)
      PROVE  StreamKept(d)'
  <2>1. /\ lsent[d] <= lsent'[d] /\ (c = d => d \notin closed) /\ lsent'[d] \in Nat
        /\ c # d => lsent'[d] = lsent[d]
    BY <1>16, <1>a, <1>b, <1>c DEF RelayData, StreamKept
  <2>2. UNCHANGED <<sp, rcvd, inq, srv, task, closed, active, eof>>
    BY <1>16 DEF RelayData
  <2>3. Taken(d)' = Taken(d)
    BY <2>2 DEF Taken, InHand
  <2>4. HasReceiver(d) => Taken(d) <= lsent'[d]
    BY <2>1, <1>a, <1>c DEF StreamKept
  <2> QED BY <2>1, <2>2, <2>3, <2>4, <1>a DEF StreamKept
<1>17. ASSUME NEW c \in Cids, StreamRead(c)
      PROVE  StreamKept(d)'
  <2>1. UNCHANGED <<active, srv, lsent, sp, closed, task, eof>>
        /\ (c # d => rcvd'[d] = rcvd[d] /\ inq'[d] = inq[d])
    BY <1>17, <1>b DEF StreamRead
  <2>2. CASE c # d
    BY <2>1, <2>2, <1>a DEF StreamKept, Taken, InHand
  <2>3. CASE c = d
    <3>1. /\ rcvd'[d] = Append(rcvd[d], Head(inq[d])) /\ inq'[d] = Tail(inq[d])
          /\ inq[d] # <<>> /\ HasReceiver(d)
      BY <1>17, <2>3, <1>b DEF StreamRead
    <3>2. \A i \in 1..Len(inq[d]) : inq[d][i] = Len(rcvd[d]) + i
      BY <3>1, <1>a DEF StreamKept
    <3>3. /\ Len(rcvd'[d]) = Len(rcvd[d]) + 1 /\ Len(inq'[d]) = Len(inq[d]) - 1
          /\ Counts(rcvd'[d])
          /\ \A i \in 1..Len(inq'[d]) : inq'[d][i] = Len(rcvd'[d]) + i
      <4>1. Counts(rcvd[d]) /\ rcvd[d] \in Seq(Ns) /\ inq[d] \in Seq(Ns)
        BY <1>a, <1>b DEF StreamKept
      <4> DEFINE r == rcvd[d]
                 q == inq[d]
      <4>2. /\ r \in Seq(Ns) /\ q \in Seq(Ns) /\ q # <<>> /\ Counts(r)
            /\ \A i \in 1..Len(q) : q[i] = Len(r) + i
        BY <3>1, <3>2, <4>1
      <4>3. rcvd'[d] = Append(r, Head(q)) /\ inq'[d] = Tail(q)
        BY <3>1
      <4> HIDE DEF r, q
      <4>4. /\ Len(Append(r, Head(q))) = Len(r) + 1 /\ Len(Tail(q)) = Len(q) - 1
            /\ Counts(Append(r, Head(q)))
            /\ \A i \in 1..Len(Tail(q)) : Tail(q)[i] = Len(Append(r, Head(q))) + i
        BY <4>2, ReadMoves
      <4> QED BY <4>3, <4>4 DEF r, q
    <3>4. Len(rcvd'[d]) + Len(inq'[d]) = Len(rcvd[d]) + Len(inq[d])
      BY <3>3, <1>b, <1>c, <1>d
    <3>5. Taken(d)' = Taken(d)
      BY <2>1, <3>4, <1>b, <1>c, <1>d DEF Taken, InHand
    <3>6. eof'[d] = "no"
      BY <2>1, <3>1, <1>a, <1>b DEF StreamKept, Ends
    <3> QED BY <2>1, <3>3, <3>4, <3>5, <3>6, <1>a DEF StreamKept
  <2> QED BY <2>2, <2>3
<1>18. ASSUME NEW c \in Cids, RecvUpData(c)
      PROVE  StreamKept(d)'
  <2>1. Takes(up, up', ctl, "data", c)
    BY <1>18, <1>a, QueueSteps DEF RecvUpData
  <2>2. /\ srv = Idle /\ srv' = IF c \in active THEN <<c, Head(up).n>> ELSE Idle
        /\ UNCHANGED <<sp, rcvd, inq, lsent, closed, active, task, eof>>
    BY <1>18 DEF RecvUpData, ServerRecv
  <2>3. CASE d = c /\ c \in active /\ HasReceiver(d)
    <3>1. srv' # Idle /\ srv'[1] = d /\ srv'[2] = Head(up).n
      BY <2>2, <2>3 DEF Idle
    <3>2. Taken(d)' = Taken(d) + 1
      BY <2>2, <3>1, <1>c DEF Taken, InHand
    <3>3. Head(up).n = Taken(d) + 1 /\ Taken(d) + 1 <= lsent[d]
      BY <2>1, <2>3, <1>a, <1>c DEF UpInLine, Takes
    <3> QED BY <2>2, <3>1, <3>2, <3>3, <1>a DEF StreamKept
  <2>4. CASE ~HasReceiver(d)
    BY <2>2, <2>4, <1>a DEF StreamKept
  <2>5. CASE d # c \/ c \notin active
    <3>1. InHand(d) = 0 /\ InHand(d)' = 0 /\ ~(srv' # Idle /\ srv'[1] = d)
      BY <2>2, <2>5 DEF InHand
    <3>2. Taken(d)' = Taken(d)
      BY <2>2, <3>1 DEF Taken
    <3> QED BY <2>2, <3>1, <3>2, <1>a DEF StreamKept
  <2> QED BY <2>3, <2>4, <2>5
<1>19. ASSUME NEW c \in Cids, RecvUpClose(c)
      PROVE  StreamKept(d)'
  <2>1. Takes(up, up', ctl, "close", c) /\ up # <<>> /\ srv = Idle
    BY <1>19, <1>a, QueueSteps DEF RecvUpClose, ServerRecv
  <2>2. /\ active' = active \ {c} /\ closed' = closed \cup {c}
        /\ UNCHANGED <<sp, rcvd, inq, srv, lsent, task, eof>>
    BY <1>19 DEF RecvUpClose
  <2>3. Taken(d)' = Taken(d)
    BY <2>2 DEF Taken, InHand
  <2>4. CASE c # d
    BY <2>2, <2>3, <2>4, <1>a DEF StreamKept
  <2>5. CASE c = d
    <3>1. Queued(up, "close", d) /\ task[d] \in {"remove", "done"}
      BY <2>1, <2>5, <1>a DEF Takes, OpenedOnce
    <3>2. HasReceiver(d) => d \in active \cup closed
      BY <2>1, <3>1, <1>a DEF OpenedOnce, FailedIsDead, Forgotten, Dead, LoopKept
    <3>3. HasReceiver(d) => Len(rcvd[d]) + Len(inq[d]) = lsent[d]
      <4>1. ASSUME HasReceiver(d), d \in active
            PROVE  lsent[d] = Taken(d)
        BY <2>1, <2>5, <4>1, <1>a, <1>c DEF UpInLine, Takes
      <4>2. Taken(d) = Len(rcvd[d]) + Len(inq[d])
        BY <2>1, <1>b, <1>c DEF Taken, InHand
      <4> QED BY <3>2, <4>1, <4>2, <1>a DEF StreamKept
    <3> QED BY <2>2, <2>3, <2>5, <3>1, <3>3, <1>a DEF StreamKept
  <2> QED BY <2>4, <2>5
<1>20. ASSUME DeliverUp
      PROVE  StreamKept(d)'
  <2>1. /\ srv # Idle /\ srv' = Idle
        /\ UNCHANGED <<sp, rcvd, active, closed, lsent, task, eof>>
    BY <1>20 DEF DeliverUp
  <2>2. CASE HasReceiver(d) /\ srv[1] = d
    <3>1. inq' = [inq EXCEPT ![d] = Append(inq[d], srv[2])] /\ srv[2] \in Ns
      BY <1>20, <2>2, <1>a DEF DeliverUp, TypeOK
    <3>2. srv[2] = Taken(d) /\ InHand(d) = 1 /\ InHand(d)' = 0 /\ d \in active
      BY <2>1, <2>2, <1>a DEF StreamKept, InHand, LoopKept
    <3>3. inq'[d] = Append(inq[d], srv[2])
      BY <3>1, <1>b
    <3>4. srv[2] = Len(rcvd[d]) + Len(inq[d]) + 1
      BY <3>2, <1>b, <1>c DEF Taken
    <3>5. /\ Len(inq'[d]) = Len(inq[d]) + 1
          /\ \A i \in 1..Len(inq'[d]) : inq'[d][i] = Len(rcvd[d]) + i
      <4>1. /\ inq[d] \in Seq(Ns)
            /\ \A i \in 1..Len(inq[d]) : inq[d][i] = Len(rcvd[d]) + i
        BY <2>2, <1>a, <1>b DEF StreamKept
      <4>2. srv[2] \in Ns /\ Len(rcvd[d]) \in Nat
        BY <3>1, <1>c
      <4> DEFINE q == inq[d]
                 n == srv[2]
                 k == Len(rcvd[d])
      <4>3. /\ q \in Seq(Ns) /\ n \in Ns /\ k \in Nat /\ n = k + Len(q) + 1
            /\ \A i \in 1..Len(q) : q[i] = k + i
        BY <3>4, <4>1, <4>2
      <4>4. inq'[d] = Append(q, n)
        BY <3>3
      <4> HIDE DEF q, n, k
      <4>5. /\ Len(Append(q, n)) = Len(q) + 1
            /\ \A i \in 1..Len(Append(q, n)) : Append(q, n)[i] = k + i
        BY <4>3, InqMoves
      <4> QED BY <4>4, <4>5 DEF q, n, k
    <3>6. Taken(d)' = Taken(d)
      BY <2>1, <3>2, <3>5, <1>b, <1>c, <1>d DEF Taken
    <3> QED BY <2>1, <3>2, <3>5, <3>6, <1>a DEF StreamKept
  <2>3. CASE srv[1] # d
    <3>1. inq'[d] = inq[d] /\ Taken(d)' = Taken(d)
      BY <1>20, <2>1, <2>3, <1>b DEF DeliverUp, Taken, InHand
    <3> QED BY <2>1, <3>1, <1>a DEF StreamKept
  <2>4. CASE ~HasReceiver(d)
    <3>1. inq'[d] = inq[d]
      BY <1>20, <2>4, <1>b DEF DeliverUp
    <3> QED BY <2>1, <2>4, <3>1, <1>a DEF StreamKept
  <2> QED BY <2>2, <2>3, <2>4
<1>21. ASSUME UNCHANGED vars
      PROVE  StreamKept(d)'
  BY <1>21, <1>a DEF StreamKept, Taken, InHand, vars
<1> QED
  BY <1>1, <1>2, <1>3, <1>4, <1>5, <1>6, <1>7, <1>8, <1>9, <1>10, <1>11,
     <1>12, <1>13, <1>14, <1>15, <1>16, <1>17, <1>18, <1>19, <1>20, <1>21
  DEF Next, Opening, ServerReader, ClientReader, Task

LEMMA TunnelInit == Init => TunnelInv
<1> SUFFICES ASSUME Init
             PROVE  TunnelInv
  OBVIOUS
<1>1. TypeOK
  BY TypeInit
<1>2. ASSUME NEW c \in Cids
      PROVE  Kept(c)
  <2>1. Len(<<>>) = 0
    OBVIOUS
  <2>2. \A t, w : ~Queued(<<>>, t, c) /\ Below(<<>>, c, w) /\ Counts(<<>>)
    BY <2>1 DEF Queued, Below, Counts
  <2>3. Taken(c) = 0 /\ Got(c) = 0
    BY <2>1 DEF Init, Taken, InHand, Got
  <2>4. OpenedOnce(c)
    BY <2>2 DEF Init, OpenedOnce, Started, Opened, Unanswered
  <2>5. TableKept(c)
    BY <2>2, <2>3 DEF Init, TableKept
  <2>6. Served(<<>>, "up", c, 0, 0)
    <3>1. <<>> \in Seq(Msgs)
      OBVIOUS
    <3> QED BY <2>2, <3>1, NothingQueued
  <2>7. FailedIsDead(c)
    BY <2>2 DEF Init, FailedIsDead, Forgotten, Idle
  <2>8. StreamKept(c)
    BY <2>1, <2>2, <2>3 DEF Init, StreamKept, HasReceiver
  <2>9. DownInLine(c) /\ UpInLine(c)
    BY <2>3, <2>6 DEF Init, DownInLine, UpInLine
  <2> QED BY <2>4, <2>5, <2>7, <2>8, <2>9 DEF Kept
<1>3. LoopKept
  BY DEF Init, LoopKept
<1> QED BY <1>1, <1>2, <1>3 DEF TunnelInv

LEMMA TunnelStep == TunnelInv /\ [Next]_vars => TunnelInv'
<1> SUFFICES ASSUME TunnelInv, [Next]_vars
             PROVE  TunnelInv'
  OBVIOUS
<1>1. TypeOK'
  BY TypeStep DEF TunnelInv
<1>2. ASSUME NEW c \in Cids
      PROVE  Kept(c)'
  BY OpenedStep, TableStep, DownStep, FailedStep, UpStep, StreamStep DEF Kept
<1> QED BY <1>1, <1>2, LoopStep DEF TunnelInv

LEMMA TunnelKept == Spec => []TunnelInv
  BY TunnelInit, TunnelStep, PTL DEF Spec

-----------------------------------------------------------------------------
(* Each direction is a pipe.                                               *)

ServiceMoves(c) == ToService(c)!Next \/ UNCHANGED ToService(c)!pipeVars
StreamMoves(c) == ToStream(c)!Next \/ UNCHANGED ToStream(c)!pipeVars

\* One more is read, when all that is read is counted.
LEMMA ReadOne ==
  ASSUME NEW s \in Seq(Ns), Counts(s), NEW w \in Nat, Len(s) + 1 <= w
  PROVE  \E k \in Len(s) + 1 .. w : Append(s, Len(s) + 1) = [i \in 1..k |-> i]
<1> DEFINE n == Len(s) + 1
<1>1. /\ Append(s, n) = [i \in 1..Len(s) + 1 |-> IF i = Len(s) + 1 THEN n ELSE s[i]]
      /\ Len(s) \in Nat
  OBVIOUS
<1>2. \A i \in 1..n : (IF i = Len(s) + 1 THEN n ELSE s[i]) = i
  BY <1>1 DEF Counts
<1>3. Append(s, n) = [i \in 1..n |-> i]
  BY <1>1, <1>2
<1>4. n \in Len(s) + 1 .. w
  BY <1>1
<1> QED BY <1>3, <1>4

\* The beginning of what is buffered is read.
LEMMA ReadFirst ==
  ASSUME NEW s \in Seq(Ns), Counts(s), NEW k \in 1..Len(s), NEW w \in Nat, Len(s) <= w
  PROVE  \E n \in 1..w : SubSeq(s, 1, k) = [i \in 1..n |-> i]
<1>1. SubSeq(s, 1, k) = [i \in 1..k |-> s[i]] /\ Len(s) \in Nat
  OBVIOUS
<1>2. \A i \in 1..k : s[i] = i
  BY <1>1 DEF Counts
<1>3. SubSeq(s, 1, k) = [i \in 1..k |-> i] /\ k \in 1..w
  BY <1>1, <1>2
<1> QED BY <1>3

LEMMA ServiceStep ==
  ASSUME TunnelInv, [Next]_vars, NEW d \in Cids
  PROVE  ServiceMoves(d)
<1> USE DEF serverVars, netVars, clientVars, ServiceMoves, ToService!pipeVars
<1>a. TypeOK /\ OpenedOnce(d) /\ TableKept(d) /\ DownInLine(d)
  BY DEF TunnelInv, Kept
<1>b. /\ sp \in [Cids -> Sps] /\ local \in [Cids -> Seq(Ns)] /\ buf \in [Cids -> Seq(Ns)]
      /\ sent \in [Cids -> 0..MaxData] /\ leof \in [Cids -> Ends]
      /\ conn \in [Cids -> {"none", "pending", "active"}]
  BY DEF TunnelInv, TypeOK
<1>c. /\ Len(local[d]) \in Nat /\ Len(buf[d]) \in Nat /\ sent[d] \in Nat /\ Len(<<>>) = 0
      /\ Got(d) \in Nat
  BY <1>b DEF Got
<1>1. ASSUME NEW c \in Cids,
             OpenStart(c) \/ OpenSend(c) \/ OpenOk(c)
             \/ OpenFailed(c) \/ OpenCancelled(c)
      PROVE  ServiceMoves(d)
  <2>1. sp[d] \notin {"shut", "gone"} => sp'[d] \notin {"shut", "gone"}
    BY <1>1, <1>b DEF OpenStart, OpenSend, OpenOk, OpenFailed, OpenCancelled
  <2>2. sp[d] \in {"shut", "gone"} => sp'[d] = sp[d]
    BY <1>1, <1>b DEF OpenStart, OpenSend, OpenOk, OpenFailed, OpenCancelled
  <2>3. UNCHANGED <<sent, local, leof>>
    BY <1>1 DEF OpenStart, OpenSend, OpenOk, OpenFailed, OpenCancelled
  <2> QED BY <2>1, <2>2, <2>3
<1>2. ASSUME NEW c \in Cids,
             StreamRead(c) \/ StreamEof(c) \/ DropClose(c)
             \/ RecvResult(c) \/ RecvUpData(c) \/ RecvUpClose(c)
      PROVE  ServiceMoves(d)
  BY <1>2 DEF StreamRead, StreamEof, DropClose, RecvResult, RecvUpData, RecvUpClose
<1>3. ASSUME DeliverUp \/ EntryDropped \/ ConnectionLost
      PROVE  ServiceMoves(d)
  BY <1>3 DEF DeliverUp, EntryDropped, ConnectionLost
<1>4. ASSUME NEW c \in Cids,
             RecvOpen(c) \/ RegisterCheck(c) \/ RegisterInsert(c)
             \/ RecvPending(c) \/ SendOverflow(c)
      PROVE  ServiceMoves(d)
  BY <1>4 DEF RecvOpen, RegisterCheck, RegisterInsert, RecvPending, SendOverflow
<1>5. ASSUME NEW c \in Cids,
             Dial(c) \/ SendOk(c) \/ SendClose(c) \/ SendFail(c)
             \/ TaskDies(c) \/ RelayData(c) \/ RelayEnd(c)
      PROVE  ServiceMoves(d)
  BY <1>5 DEF Dial, SendOk, SendClose, SendFail, TaskDies, RelayData, RelayEnd
<1>6. ASSUME NEW c \in Cids, StreamShutdown(c) \/ StreamDrop(c)
      PROVE  ServiceMoves(d)
  BY <1>6, <1>b DEF StreamShutdown, StreamDrop, ToService!Next, ToService!Close
<1>7. ASSUME NEW c \in Cids, StreamWrite(c)
      PROVE  ServiceMoves(d)
  BY <1>7, <1>b, <1>c DEF StreamWrite, ToService!Next, ToService!Write
<1>8. ASSUME NEW c \in Cids, Remove(c) \/ RecvOverflow(c) \/ LocalFails(c)
      PROVE  ServiceMoves(d)
  BY <1>8, <1>b
  DEF Remove, RecvOverflow, LocalFails, EndLocal, ToService!Next, ToService!Cut
<1>9. ASSUME ClientShutdown
      PROVE  ServiceMoves(d)
  BY <1>9, <1>b DEF ClientShutdown, EndLocal, ToService!Next, ToService!Cut
<1>10. ASSUME NEW c \in Cids, RecvActive(c)
      PROVE  ServiceMoves(d)
  <2>1. CASE c # d \/ leof[d] # "no" \/ conn[d] # "active"
    BY <1>10, <2>1, <1>b DEF RecvActive
  <2>2. CASE c = d /\ leof[d] = "no" /\ conn[d] = "active"
    <3>1. Head(down).n = Len(local[d]) + 1 /\ Len(local[d]) + 1 <= sent[d]
      <4>1. Head(down).n = Got(d) + 1 /\ Got(d) + 1 <= sent[d]
        BY <1>10, <2>2, <1>a, <1>c, QueueSteps DEF RecvActive, DownInLine, Takes
      <4>2. Got(d) = Len(local[d])
        BY <2>2, <1>a, <1>b, <1>c DEF Got, TableKept
      <4> QED BY <4>1, <4>2
    <3>2. /\ local' = [local EXCEPT ![d] = Append(local[d], Head(down).n)]
          /\ UNCHANGED <<sent, sp, leof>>
      BY <1>10, <2>2 DEF RecvActive
    <3>3. local'[d] = Append(local[d], Len(local[d]) + 1)
      BY <3>1, <3>2, <1>b
    <3>4. \E n \in Len(local[d]) + 1 .. sent[d] : local'[d] = [i \in 1..n |-> i]
      <4>1. /\ local[d] \in Seq(Ns) /\ Counts(local[d]) /\ sent[d] \in Nat
            /\ Len(local[d]) + 1 <= sent[d]
        BY <3>1, <1>a, <1>b, <1>c DEF TableKept
      <4> QED BY <3>3, <4>1, ReadOne
    <3> QED BY <2>2, <3>2, <3>4 DEF ToService!Next, ToService!Read, ToService!More
  <2> QED BY <2>1, <2>2, <1>b
<1>11. ASSUME NEW c \in Cids, RecvDownClose(c)
      PROVE  ServiceMoves(d)
  <2>1. /\ UNCHANGED <<sent, sp, local>> /\ Takes(down, down', ctl, "close", c)
        /\ EndLocal({c}, IF conn[c] = "active" THEN "clean" ELSE "cut")
    BY <1>11, <1>a, QueueSteps DEF RecvDownClose
  <2>2. CASE c # d \/ leof[d] # "no"
    BY <2>1, <2>2, <1>b DEF EndLocal
  <2>3. CASE c = d /\ leof[d] = "no" /\ conn[d] = "active"
    <3>1. sp[d] \in {"shut", "gone"} /\ leof'[d] = "clean"
      BY <2>1, <2>3, <1>a, <1>b DEF Takes, OpenedOnce, EndLocal
    <3>2. Len(local[d]) = sent[d]
      <4>1. sent[d] = Got(d)
        BY <2>1, <2>3, <1>a, <1>c DEF Takes, DownInLine
      <4> QED BY <2>3, <4>1, <1>a, <1>b, <1>c DEF Got, TableKept
    <3> QED BY <2>1, <2>3, <3>1, <3>2 DEF ToService!Next, ToService!CleanEof
  <2>4. CASE c = d /\ leof[d] = "no" /\ conn[d] # "active"
    BY <2>1, <2>4, <1>b DEF EndLocal, ToService!Next, ToService!Cut
  <2> QED BY <2>2, <2>3, <2>4
<1>12. ASSUME NEW c \in Cids, Activate(c)
      PROVE  ServiceMoves(d)
  <2>1. CASE conn[c] = "pending"
    <3>1. PICK k \in 0..Len(buf[c]) :
            /\ local' = [local EXCEPT ![c] = local[c] \o SubSeq(buf[c], 1, k)]
            /\ EndLocal(IF k < Len(buf[c]) THEN {c} ELSE {}, "cut")
      BY <1>12, <2>1 DEF Activate
    <3>2. UNCHANGED <<sent, sp>>
      BY <1>12 DEF Activate
    <3>3. CASE c # d
      BY <3>1, <3>2, <3>3, <1>b DEF EndLocal
    <3>4. CASE c = d
      <4>1. /\ local[d] = <<>> /\ leof[d] = "no" /\ Len(buf[d]) <= sent[d]
            /\ Counts(buf[d]) /\ buf[d] \in Seq(Ns) /\ k \in 0..Len(buf[d])
        BY <2>1, <3>4, <1>a, <1>b, <1>c DEF TableKept, Got
      <4>2. local'[d] = SubSeq(buf[d], 1, k)
        BY <3>1, <3>4, <4>1, <1>b, PrefixCounts
      <4>3. leof'[d] = IF k < Len(buf[d]) THEN "cut" ELSE "no"
        BY <3>1, <3>4, <4>1, <1>b DEF EndLocal
      <4>4. k = 0 => local'[d] = local[d]
        BY <4>1, <4>2
      <4>5. k > 0 => \E n \in Len(local[d]) + 1 .. sent[d] : local'[d] = [i \in 1..n |-> i]
        <5>1. ASSUME k > 0
              PROVE  \E n \in 1 .. sent[d] : SubSeq(buf[d], 1, k) = [i \in 1..n |-> i]
          <6> DEFINE s == buf[d]
          <6>1. /\ k \in 1..Len(s) /\ s \in Seq(Ns) /\ Counts(s)
                /\ sent[d] \in Nat /\ Len(s) <= sent[d]
            BY <4>1, <5>1, <1>c
          <6> HIDE DEF s
          <6>2. \E n \in 1 .. sent[d] : SubSeq(s, 1, k) = [i \in 1..n |-> i]
            BY <6>1, ReadFirst
          <6> QED BY <6>2 DEF s
        <5>2. Len(local[d]) + 1 = 1
          BY <4>1, <1>c
        <5> QED BY <4>2, <5>1, <5>2
      <4>6. CASE k = 0
        BY <3>2, <4>1, <4>3, <4>4, <4>6 DEF ToService!Next, ToService!Cut
      <4>7. CASE k > 0
        BY <3>2, <4>1, <4>3, <4>5, <4>7
        DEF ToService!Next, ToService!Cut, ToService!Read, ToService!More
      <4> QED BY <4>1, <4>6, <4>7
    <3> QED BY <3>3, <3>4
  <2>2. CASE conn[c] # "pending"
    BY <1>12, <2>2 DEF Activate
  <2> QED BY <2>1, <2>2
<1>13. ASSUME UNCHANGED vars
      PROVE  ServiceMoves(d)
  BY <1>13 DEF vars
<1> QED
  BY <1>1, <1>2, <1>3, <1>4, <1>5, <1>6, <1>7, <1>8, <1>9, <1>10, <1>11,
     <1>12, <1>13
  DEF Next, Opening, ServerReader, ClientReader, Task

LEMMA ReaderStep ==
  ASSUME TunnelInv, [Next]_vars, NEW d \in Cids
  PROVE  StreamMoves(d)
<1> USE DEF serverVars, netVars, clientVars, StreamMoves, ToStream!pipeVars
<1>a. TypeOK /\ OpenedOnce(d) /\ StreamKept(d)
  BY DEF TunnelInv, Kept
<1>b. /\ task \in [Cids -> Tasks] /\ inq \in [Cids -> Seq(Ns)] /\ rcvd \in [Cids -> Seq(Ns)]
      /\ lsent \in [Cids -> 0..MaxData] /\ eof \in [Cids -> Ends]
  BY DEF TunnelInv, TypeOK
<1>c. /\ Len(rcvd[d]) \in Nat /\ Len(inq[d]) \in Nat /\ lsent[d] \in Nat /\ Len(<<>>) = 0
      /\ InHand(d) \in Nat
  BY <1>b DEF InHand
<1>1. ASSUME NEW c \in Cids,
             OpenStart(c) \/ OpenSend(c) \/ OpenOk(c)
             \/ OpenFailed(c) \/ OpenCancelled(c) \/ StreamWrite(c)
             \/ StreamShutdown(c) \/ StreamDrop(c) \/ DropClose(c)
      PROVE  StreamMoves(d)
  BY <1>1
  DEF OpenStart, OpenSend, OpenOk, OpenFailed, OpenCancelled, StreamWrite, StreamShutdown,
      StreamDrop, DropClose
<1>2. ASSUME NEW c \in Cids,
             RecvResult(c) \/ RecvUpData(c) \/ RecvUpClose(c)
             \/ RegisterCheck(c) \/ RegisterInsert(c)
             \/ RecvPending(c) \/ RecvOverflow(c) \/ SendOverflow(c)
             \/ RecvActive(c) \/ RecvDownClose(c) \/ LocalFails(c)
      PROVE  StreamMoves(d)
  BY <1>2
  DEF RecvResult, RecvUpData, RecvUpClose, RegisterCheck, RegisterInsert, RecvPending,
      RecvOverflow, SendOverflow, RecvActive, RecvDownClose, LocalFails
<1>3. ASSUME
             DeliverUp \/ EntryDropped \/ ClientShutdown
             \/ ConnectionLost
      PROVE  StreamMoves(d)
  BY <1>3 DEF DeliverUp, EntryDropped, ClientShutdown, ConnectionLost
<1>4. ASSUME NEW c \in Cids, RecvOpen(c)
      PROVE  StreamMoves(d)
  BY <1>4, <1>a, <1>b, QueueSteps DEF RecvOpen, OpenedOnce, Takes
<1>5. ASSUME NEW c \in Cids,
             Dial(c) \/ SendOk(c) \/ Activate(c) \/ RelayEnd(c)
             \/ SendClose(c) \/ SendFail(c) \/ Remove(c)
             \/ TaskDies(c)
      PROVE  StreamMoves(d)
  <2>1. \/ task'[d] \in {"sendClose", "remove", "done"}
        \/ task[d] \notin {"sendClose", "remove", "done"}
    BY <1>5, <1>b
    DEF Dial, SendOk, Activate, RelayEnd, SendClose, SendFail, Remove, TaskDies, TaskGoto
  <2>2. UNCHANGED <<lsent, rcvd, eof>>
    BY <1>5 DEF Dial, SendOk, Activate, RelayEnd, SendClose, SendFail, Remove, TaskDies
  <2> QED BY <2>1, <2>2 DEF ToStream!Next, ToStream!Close
<1>6. ASSUME NEW c \in Cids, RelayData(c)
      PROVE  StreamMoves(d)
  BY <1>6, <1>b, <1>c DEF RelayData, ToStream!Next, ToStream!Write
<1>7. ASSUME NEW c \in Cids, StreamRead(c)
      PROVE  StreamMoves(d)
  <2>1. UNCHANGED <<lsent, task, eof>> /\ (c # d => rcvd'[d] = rcvd[d])
    BY <1>7, <1>b DEF StreamRead
  <2>2. CASE c = d
    <3>1. /\ rcvd'[d] = Append(rcvd[d], Head(inq[d])) /\ inq[d] # <<>> /\ HasReceiver(d)
      BY <1>7, <2>2, <1>b DEF StreamRead, HasReceiver
    <3>2. Len(inq[d]) > 0
      BY <3>1, <1>b
    <3>3. Head(inq[d]) = Len(rcvd[d]) + 1
      BY <3>1, <3>2, <1>a, <1>b, <1>c DEF StreamKept
    <3>4. Len(rcvd[d]) + 1 <= lsent[d]
      BY <3>1, <3>2, <1>a, <1>b, <1>c DEF StreamKept, Taken
    <3>5. eof[d] = "no"
      BY <3>1, <1>a DEF StreamKept
    <3>6. \E n \in Len(rcvd[d]) + 1 .. lsent[d] : rcvd'[d] = [i \in 1..n |-> i]
      <4>1. /\ rcvd[d] \in Seq(Ns) /\ Counts(rcvd[d]) /\ lsent[d] \in Nat
            /\ rcvd'[d] = Append(rcvd[d], Len(rcvd[d]) + 1)
        BY <3>1, <3>3, <1>a, <1>b, <1>c DEF StreamKept
      <4> QED BY <3>4, <4>1, ReadOne
    <3> QED BY <2>1, <3>5, <3>6 DEF ToStream!Next, ToStream!Read, ToStream!More
  <2> QED BY <2>1, <2>2
<1>8. ASSUME NEW c \in Cids, StreamEof(c)
      PROVE  StreamMoves(d)
  <2>1. /\ UNCHANGED <<lsent, task, rcvd>> /\ inq[c] = <<>> /\ eof[c] = "no" /\ HasReceiver(c)
        /\ eof' = [eof EXCEPT ![c] = IF c \in closed THEN "clean" ELSE "cut"]
    BY <1>8 DEF StreamEof, HasReceiver
  <2>2. CASE c # d
    BY <2>1, <2>2, <1>b
  <2>3. CASE c = d /\ d \in closed
    <3>1. Len(rcvd[d]) = lsent[d] /\ task[d] \in {"remove", "done"}
      BY <2>1, <2>3, <1>a, <1>b, <1>c DEF StreamKept
    <3> QED BY <2>1, <2>3, <3>1, <1>b DEF ToStream!Next, ToStream!CleanEof
  <2>4. CASE c = d /\ d \notin closed
    BY <2>1, <2>4, <1>b DEF ToStream!Next, ToStream!Cut
  <2> QED BY <2>2, <2>3, <2>4
<1>9. ASSUME UNCHANGED vars
      PROVE  StreamMoves(d)
  BY <1>9 DEF vars
<1> QED
  BY <1>1, <1>2, <1>3, <1>4, <1>5, <1>6, <1>7, <1>8, <1>9
  DEF Next, Opening, ServerReader, ClientReader, Task

\* Each direction of each tunnel is a byte stream: what is read is what was
\* written, in order and without gaps, at the client's service as at the stream,
\* and a clean end of file comes after all of it; for any number of tunnels over
\* one connection and whatever the capacities are.
THEOREM TunnelsImplementPipes == Spec => TunnelsArePipes
<1>1. Init => \A c \in Cids : ToService(c)!Init /\ ToStream(c)!Init
  <2>1. ASSUME Init, NEW c \in Cids
        PROVE  /\ sp[c] \notin {"shut", "gone"} /\ task[c] \notin {"sendClose", "remove", "done"}
               /\ sent[c] = 0 /\ lsent[c] = 0 /\ local[c] = <<>> /\ rcvd[c] = <<>>
               /\ leof[c] = "no" /\ eof[c] = "no"
    BY <2>1 DEF Init
  <2>2. ASSUME Init, NEW c \in Cids
        PROVE  /\ (sp[c] \in {"shut", "gone"}) = FALSE
               /\ (task[c] \in {"sendClose", "remove", "done"}) = FALSE
    BY <2>1, <2>2
  <2> QED BY <2>1, <2>2, Zenon DEF ToService!Init, ToStream!Init
<1>2. TunnelInv /\ [Next]_vars
        => [\A c \in Cids :
              /\ ToService(c)!Next \/ UNCHANGED ToService(c)!pipeVars
              /\ ToStream(c)!Next \/ UNCHANGED ToStream(c)!pipeVars]_vars
  BY ServiceStep, ReaderStep DEF ServiceMoves, StreamMoves
<1> QED BY <1>1, <1>2, TunnelKept, PTL DEF Spec, TunnelsArePipes

=============================================================================
