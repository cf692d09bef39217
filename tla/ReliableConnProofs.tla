------------------------- MODULE ReliableConnProofs -------------------------
(***************************************************************************)
(* The receiver's buffers stay within the window, each direction of the    *)
(* stream implements Pipe, and what the sender no longer keeps has been    *)
(* received as long as one end writes nothing, whatever the network loses, *)
(* repeats and reorders, for any windows and limits.                       *)
(***************************************************************************)
EXTENDS ReliableConn, FunctionTheorems, FiniteSetTheorems, WellFoundedInduction, NaturalsInduction, TLAPS

-----------------------------------------------------------------------------
(* Numbers.                                                                *)

\* A set of numbers that is not empty has a least one.
LEMMA Least ==
  ASSUME NEW T \in SUBSET Nat, T # {}
  PROVE  \E x \in T : \A y \in T : x <= y
<1>1. IsWellFoundedOn(OpToRel(<, Nat), Nat)
  BY NatLessThanWellFounded
<1>2. PICK x \in T : \A y \in T : ~ (<<y, x>> \in OpToRel(<, Nat))
  BY <1>1, WFMin
<1>3. \A y \in T : ~(y < x)
  BY <1>2 DEF OpToRel
<1> QED BY <1>3

LEMMA Quotient ==
  ASSUME NEW x \in Int, NEW d \in Nat \ {0}
  PROVE  x % d \in 0..d-1 /\ x \div d \in Int /\ x = d * (x \div d) + (x % d)
OBVIOUS

LEMMA Multiples ==
  ASSUME NEW q \in Int, NEW k \in Int, NEW d \in Nat \ {0}, q > k
  PROVE  d * q >= d * k + d
OBVIOUS

LEMMA Distributes ==
  ASSUME NEW d \in Int, NEW j \in Int, NEW k \in Int
  PROVE  d * (j + k) = d * j + d * k
OBVIOUS

LEMMA Remainder ==
  ASSUME NEW q \in Int, NEW d \in Nat \ {0}, NEW r \in 0..d-1
  PROVE  (d * q + r) % d = r
<1> DEFINE x == d * q + r
<1>1. x \in Int /\ x = d * q + r
  OBVIOUS
<1> HIDE DEF x
<1>2. x % d \in 0..d-1 /\ x \div d \in Int /\ x = d * (x \div d) + (x % d)
  BY <1>1, Quotient
<1>3. ~(x \div d > q)
  <2>1. ASSUME x \div d > q PROVE d * (x \div d) >= d * q + d
    BY <1>2, <2>1, Multiples
  <2> QED BY <1>1, <1>2, <2>1
<1>4. ~(q > x \div d)
  <2>1. ASSUME q > x \div d PROVE d * q >= d * (x \div d) + d
    BY <1>2, <2>1, Multiples
  <2> QED BY <1>1, <1>2, <2>1
<1>5. x \div d = q
  <2> DEFINE w == x \div d
  <2>1. w \in Int /\ q \in Int /\ ~(w > q) /\ ~(q > w)
    BY <1>2, <1>3, <1>4
  <2> HIDE DEF w
  <2>2. w = q
    BY <2>1
  <2> QED BY <2>2 DEF w
<1>6. x % d = r
  BY <1>1, <1>2, <1>5
<1> QED BY <1>6 DEF x

\* The number of segment k, if numbers did not wrap.
Num(k) == Plus(FirstSeq, k)

LEMMA Space ==
  /\ SeqSpace \in Nat /\ SeqSpace >= 4 /\ SeqSpace = 2 * (SeqSpace \div 2)
  /\ SeqSpace \div 2 \in Nat /\ FirstSeq \in Seqs /\ RecvWindow \in Nat \ {0}
  /\ 4 * RecvWindow <= SeqSpace /\ MaxPayload \in Nat \ {0}
BY SeqAssumption, WindowAssumption DEF Seqs

LEMMA PlusIs ==
  ASSUME NEW a \in Int, NEW n \in Int
  PROVE  Plus(a, n) \in Seqs
BY Space, Quotient DEF Plus, Seqs

\* Adding to a number is adding to what it stands for.
LEMMA PlusPlus ==
  ASSUME NEW a \in Int, NEW n \in Int, NEW m \in Int
  PROVE  Plus(Plus(a, n), m) = Plus(a, n + m)
<1> USE Space
<1> DEFINE S == SeqSpace
           x == a + n
           y == x % S
           z == y + m
<1>0. x \in Int /\ S \in Nat \ {0}
  OBVIOUS
<1> HIDE DEF x
<1>1. y \in 0..S-1 /\ x \div S \in Int /\ x = S * (x \div S) + y
  BY <1>0, Quotient
<1> HIDE DEF y
<1>z. z \in Int
  BY <1>0, <1>1
<1> HIDE DEF z
<1>2. z % S \in 0..S-1 /\ z \div S \in Int /\ z = S * (z \div S) + (z % S)
  BY <1>0, <1>z, Quotient
<1>3. x + m = S * (x \div S + z \div S) + (z % S)
  <2>1. S * (x \div S + z \div S) = S * (x \div S) + S * (z \div S)
    <3>1. x \div S \in Int /\ z \div S \in Int /\ S \in Int
      BY <1>0, <1>1, <1>2
    <3> QED BY ONLY <3>1, Distributes
  <2>2. z = y + m
    BY DEF z
  <2>3. S * (x \div S) \in Int /\ S * (z \div S) \in Int /\ y \in Int /\ z % S \in Int
    BY <1>0, <1>1, <1>2
  <2> DEFINE u == S * (x \div S)
             v == S * (z \div S)
             w == S * (x \div S + z \div S)
             r == z % S
  <2>4. x = u + y /\ z = v + r /\ w = u + v /\ u \in Int /\ v \in Int /\ r \in Int
    BY <1>1, <1>2, <2>1, <2>3
  <2> HIDE DEF u, v, w, r
  <2>5. x + m = w + r
    BY <1>0, <2>2, <2>3, <2>4
  <2> QED BY <2>5 DEF w, r
<1>4. (x + m) % S = z % S
  <2>1. x \div S + z \div S \in Int /\ z % S \in 0..S-1
    BY <1>1, <1>2
  <2> DEFINE w == x \div S + z \div S
             r == z % S
  <2>2. (S * w + r) % S = r
    <3>1. w \in Int /\ r \in 0..S-1
      BY <2>1
    <3> HIDE DEF w, r
    <3> QED BY <1>0, <3>1, Remainder
  <2> QED BY <1>3, <2>2
<1>5. x + m = a + (n + m)
  BY DEF x
<1> QED BY <1>4, <1>5 DEF Plus, x, y, z

\* Numbers that are not far from each other are the same for the same segment.
LEMMA PlusOnce ==
  ASSUME NEW a \in Int, NEW j \in Int, NEW k \in Int, j - k < SeqSpace, k - j < SeqSpace,
         Plus(a, j) = Plus(a, k)
  PROVE  j = k
<1> USE Space
<1> DEFINE S == SeqSpace
           x == a + j
           y == a + k
<1>1. x \in Int /\ y \in Int /\ x - y = j - k
  OBVIOUS
<1>2. x % S = y % S
  BY DEF Plus
<1> HIDE DEF x, y
<1>3. x % S \in 0..S-1 /\ x \div S \in Int /\ x = S * (x \div S) + (x % S)
  BY <1>1, Quotient
<1>4. y \div S \in Int /\ y = S * (y \div S) + (y % S)
  BY <1>1, Quotient
<1>5. ~(x \div S > y \div S)
  <2>1. ASSUME x \div S > y \div S PROVE S * (x \div S) >= S * (y \div S) + S
    <3>1. x \div S \in Int /\ y \div S \in Int /\ S \in Nat \ {0}
      BY <1>3, <1>4
    <3> QED BY ONLY <3>1, <2>1, Multiples
  <2> QED BY <1>1, <1>2, <1>3, <1>4, <2>1
<1>6. ~(y \div S > x \div S)
  <2>1. ASSUME y \div S > x \div S PROVE S * (y \div S) >= S * (x \div S) + S
    <3>1. y \div S \in Int /\ x \div S \in Int /\ S \in Nat \ {0}
      BY <1>3, <1>4
    <3> QED BY ONLY <3>1, <2>1, Multiples
  <2> QED BY <1>1, <1>2, <1>3, <1>4, <2>1
<1>7. x \div S = y \div S
  <2> DEFINE v == x \div S
             w == y \div S
  <2>1. v \in Int /\ w \in Int /\ ~(v > w) /\ ~(w > v)
    BY <1>3, <1>4, <1>5, <1>6
  <2> HIDE DEF v, w
  <2>2. v = w
    BY <2>1
  <2> QED BY <2>2 DEF v, w
<1> QED BY <1>1, <1>2, <1>3, <1>4, <1>7

LEMMA NumOnce ==
  ASSUME NEW j \in Int, NEW k \in Int, j - k < SeqSpace, k - j < SeqSpace, Num(j) = Num(k)
  PROVE  j = k
BY Space, PlusOnce DEF Num, Seqs

\* Within half the space, a number is after another as its segment is.
LEMMA NumAfter ==
  ASSUME NEW j \in Int, NEW k \in Int, 0 < k - j, k - j < SeqSpace \div 2
  PROVE  SeqAfter(Num(k), Num(j))
<1> USE Space
<1> DEFINE S == SeqSpace
           x == FirstSeq + k
           y == FirstSeq + j
           q == x \div S - y \div S
<1>1. x \in Int /\ y \in Int /\ x - y = k - j
  BY DEF Seqs
<1> HIDE DEF x, y
<1>2. x % S \in 0..S-1 /\ x \div S \in Int /\ x = S * (x \div S) + (x % S)
  BY <1>1, Quotient
<1>3. y % S \in 0..S-1 /\ y \div S \in Int /\ y = S * (y \div S) + (y % S)
  BY <1>1, Quotient
<1>4. q \in Int /\ S * (-q) = S * (y \div S) - S * (x \div S)
  BY <1>2, <1>3
<1> HIDE DEF q
<1>5. (x % S) - (y % S) = S * (-q) + (k - j)
  BY <1>1, <1>2, <1>3, <1>4
<1>6. k - j \in 0..S-1 /\ -q \in Int
  BY <1>4
<1>7. (S * (-q) + (k - j)) % S = k - j
  BY ONLY <1>6, Remainder, Space
<1>8. (Num(k) - Num(j)) % S = k - j
  BY <1>5, <1>7 DEF Num, Plus, x, y
<1> QED BY <1>8 DEF SeqAfter

\* ... and is not after one that comes later or is the same.
LEMMA NumNotAfter ==
  ASSUME NEW j \in Int, NEW k \in Int, 0 <= j - k, j - k <= SeqSpace \div 2
  PROVE  ~SeqAfter(Num(k), Num(j))
<1> USE Space
<1> DEFINE S == SeqSpace
           x == FirstSeq + k
           y == FirstSeq + j
           q == x \div S - y \div S
<1>1. x \in Int /\ y \in Int /\ x - y = k - j
  BY DEF Seqs
<1> HIDE DEF x, y
<1>2. x % S \in 0..S-1 /\ x \div S \in Int /\ x = S * (x \div S) + (x % S)
  BY <1>1, Quotient
<1>3. y % S \in 0..S-1 /\ y \div S \in Int /\ y = S * (y \div S) + (y % S)
  BY <1>1, Quotient
<1>4. q \in Int /\ S * (-q) = S * (y \div S) - S * (x \div S)
  BY <1>2, <1>3
<1> HIDE DEF q
<1>5. (x % S) - (y % S) = S * (-q) + (k - j)
  BY <1>1, <1>2, <1>3, <1>4
<1>6. CASE j = k
  <2>1. Num(k) = Num(j) /\ Num(k) \in Int
    <3>1. Num(k) \in Seqs
      BY PlusIs DEF Num, Seqs
    <3> QED BY <1>6, <3>1 DEF Seqs
  <2>2. (Num(k) - Num(j)) % SeqSpace = 0
    BY <2>1
  <2> QED BY <2>2 DEF SeqAfter
<1>7. CASE j > k
  <2> DEFINE r == S + (k - j)
             m == -q - 1
  <2>1. r \in 0..S-1 /\ m \in Int /\ r >= S \div 2
    BY <1>4, <1>7
  <2>2. S * (-q) + (k - j) = S * m + r
    <3>1. S * m = S * (-q) + S * (-1)
      <4>1. S \in Int /\ -q \in Int /\ -1 \in Int /\ m = -q + (-1)
        BY <1>4
      <4> HIDE DEF m, q
      <4> QED BY ONLY <4>1, Distributes
    <3>2. S * (-1) = -S
      OBVIOUS
    <3> DEFINE u == S * (-q)
    <3>3. u \in Int
      BY <1>4
    <3> HIDE DEF u, m
    <3>4. S * m = u - S
      BY <3>1, <3>2, <3>3 DEF u
    <3>5. u + (k - j) = (u - S) + r
      BY <3>3
    <3> QED BY <3>4, <3>5 DEF u
  <2> HIDE DEF r, m
  <2>3. (S * m + r) % S = r
    BY ONLY <2>1, Remainder, Space
  <2>4. (Num(k) - Num(j)) % S = r
    BY <1>5, <2>2, <2>3 DEF Num, Plus, x, y
  <2> QED BY <2>1, <2>4 DEF SeqAfter
<1> QED BY <1>6, <1>7

\* seq_after (reliable.rs:95) orders the numbers of any two segments that are
\* less than half the space apart as the segments themselves, around the wrap.
THEOREM SeqAfterOrders ==
  ASSUME NEW j \in Int, NEW k \in Int,
         k - j < SeqSpace \div 2, j - k < SeqSpace \div 2
  PROVE  SeqAfter(Num(k), Num(j)) <=> j < k
<1>1. SeqSpace \div 2 \in Nat
  BY Space
<1>2. CASE j < k
  <2>1. 0 < k - j
    BY <1>2
  <2> QED BY <1>2, <2>1, NumAfter
<1>3. CASE ~(j < k)
  <2>1. 0 <= j - k /\ j - k <= SeqSpace \div 2
    BY <1>1, <1>3
  <2> QED BY <1>3, <2>1, NumNotAfter
<1> QED BY <1>2, <1>3

LEMMA SequenceIs ==
  ASSUME NEW T, NEW n \in Nat, NEW s \in [1..n -> T]
  PROVE  s \in Seq(T) /\ Len(s) = n
OBVIOUS

-----------------------------------------------------------------------------
(* Sizes.                                                                  *)

\* Pieces that are finitely many sequences have a size.
LEMMA BytesIsNat ==
  ASSUME NEW T, NEW pieces \in Seq(Seq(T))
  PROVE  Bytes(pieces) \in Nat
<1> DEFINE D == DOMAIN pieces
           G == {{i} \X DOMAIN pieces[i] : i \in D}
<1>1. D = 1..Len(pieces) /\ Len(pieces) \in Nat
  OBVIOUS
<1>2. IsFiniteSet(D)
  BY <1>1, FS_Interval
<1>3. IsFiniteSet(G)
  <2> DEFINE h == [i \in D |-> {i} \X DOMAIN pieces[i]]
  <2>1. h \in Surjection(D, G)
    BY DEF Surjection
  <2> QED BY <1>2, <2>1, FS_Surjection
<1>4. ASSUME NEW S \in G PROVE IsFiniteSet(S)
  <2>1. PICK i \in D : S = {i} \X DOMAIN pieces[i]
    OBVIOUS
  <2>2. pieces[i] \in Seq(T)
    BY <1>1
  <2>3. DOMAIN pieces[i] = 1..Len(pieces[i]) /\ Len(pieces[i]) \in Nat
    BY <2>2
  <2>4. IsFiniteSet(DOMAIN pieces[i])
    BY <2>3, FS_Interval
  <2>5. IsFiniteSet({i})
    BY FS_Singleton
  <2> QED BY <2>1, <2>4, <2>5, FS_Product
<1>5. IsFiniteSet(UNION G)
  BY <1>3, <1>4, FS_UNION
<1> QED BY <1>5, FS_CardinalityType DEF Bytes

LEMMA SumLenIsNat ==
  ASSUME NEW segs \in Seq(Kept)
  PROVE  SumLen(segs) \in Nat
<1> DEFINE pieces == [i \in DOMAIN segs |-> segs[i].data]
<1>1. pieces \in Seq(Seq(Nat))
  <2>1. ASSUME NEW i \in 1..Len(segs) PROVE segs[i].data \in Seq(Nat)
    <3>1. segs[i] \in Kept
      OBVIOUS
    <3> QED BY <3>1 DEF Kept
  <2> QED BY <2>1
<1> QED BY <1>1, BytesIsNat DEF SumLen

-----------------------------------------------------------------------------
(* Types.                                                                  *)

LEMMA PeerIs ==
  /\ Peer("connect") = "accept" /\ Peer("accept") = "connect"
  /\ \A p \in Ends : Peer(p) \in Ends /\ Peer(p) # p /\ Peer(Peer(p)) = p
<1>1. ASSUME NEW p \in Ends PROVE Peer(p) \in Ends /\ Peer(p) # p
  <2>1. \E q \in Ends : q # p
    BY DEF Ends
  <2> QED BY <2>1 DEF Peer
<1>2. "connect" \in Ends /\ "accept" \in Ends /\ \A p \in Ends : p = "connect" \/ p = "accept"
  BY DEF Ends
<1>3. Peer("connect") = "accept" /\ Peer("accept") = "connect"
  BY <1>1, <1>2
<1> QED BY <1>1, <1>2, <1>3

LEMMA Limits ==
  /\ DupAcks \in Nat \ {0} /\ SendLimit \in Nat \ {0}
  /\ MaxRetransmits \in Nat /\ MaxFaults \in Nat
  /\ MinCwnd \in Nat \ {0} /\ MaxBytes \in [Ends -> Nat]
BY LimitAssumption, WindowAssumption

\* A connection whose fields are typed, whose receive buffers are within the
\* window and whose retransmissions are within their limit until it is fatal.
Sound(c) ==
  /\ c \in Conns
  /\ IsFiniteSet(c.recvOoo)
  /\ Len(c.recvDeliver) + Cardinality(c.recvOoo) <= RecvWindow
  /\ ~c.fatal => c.timeouts <= MaxRetransmits

\* The same receive buffers, and the same count of retransmissions.
SameRecv(c, d) ==
  /\ d.recvNext = c.recvNext /\ d.recvOoo = c.recvOoo
  /\ d.recvDeliver = c.recvDeliver /\ d.peerFin = c.peerFin
  /\ d.peerFinSeq = c.peerFinSeq /\ d.writeShut = c.writeShut
SameLife(c, d) == d.timeouts = c.timeouts /\ d.fatal = c.fatal
SameSend(c, d) ==
  /\ d.sendNext = c.sendNext /\ d.sendBase = c.sendBase /\ d.unacked = c.unacked
  /\ d.sendBuf = c.sendBuf /\ d.finSent = c.finSent /\ d.appEof = c.appEof

LEMMA StillSound ==
  ASSUME NEW c, Sound(c), NEW d \in Conns, SameRecv(c, d), SameLife(c, d)
  PROVE  Sound(d)
BY DEF Sound, SameRecv, SameLife

LEMMA WindowIs ==
  ASSUME NEW c, Sound(c)
  PROVE  Window(c) \in 0..RecvWindow
<1>1. Cardinality(c.recvOoo) \in Nat
  BY FS_CardinalityType DEF Sound
<1>2. Len(c.recvDeliver) \in Nat
  BY DEF Sound, Conns
<1> DEFINE n == Len(c.recvDeliver) + Cardinality(c.recvOoo)
<1>3. n \in Nat
  BY <1>1, <1>2
<1> HIDE DEF n
<1>4. RecvWindow - Min2(RecvWindow, n) \in 0..RecvWindow
  BY <1>3, Space DEF Min2
<1> QED BY <1>4 DEF Window, n

LEMMA EmitIs ==
  ASSUME NEW c \in Conns, NEW d \in Outgoing
  PROVE  /\ Emit(c, d) \in Conns
         /\ SameRecv(c, Emit(c, d)) /\ SameLife(c, Emit(c, d)) /\ SameSend(c, Emit(c, d))
         /\ Emit(c, d).out = c.out \cup {d}
<1>1. c.out \cup {d} \in SUBSET Outgoing
  BY DEF Conns
<1>2. Emit(c, d) = [c EXCEPT !.out = c.out \cup {d}]
  BY DEF Emit
<1> HIDE DEF Emit
<1> QED BY <1>1, <1>2 DEF Conns, SameRecv, SameLife, SameSend

LEMMA AckNowIs ==
  ASSUME NEW c \in Conns
  PROVE  /\ AckNow(c) \in Conns
         /\ SameRecv(c, AckNow(c)) /\ SameLife(c, AckNow(c)) /\ SameSend(c, AckNow(c))
         /\ AckNow(c).out = c.out
BY DEF AckNow, Conns, SameRecv, SameLife, SameSend

-----------------------------------------------------------------------------
(* What a round does to the sender.                                        *)

\* Pump, with the n bytes and the segments they are cut into named.
Count(n) == (n + MaxPayload - 1) \div MaxPayload
Cut(c, n) ==
  [i \in 1..Count(n) |->
    [seq |-> Plus(c.sendNext, i - 1), flags |-> {"ACK"},
     data |-> SubSeq(c.sendBuf, (i - 1) * MaxPayload + 1, Min2(i * MaxPayload, n))]]
Sent(p, c, n) ==
  {Segment(p, Cut(c, n)[i].seq, c.sendBase, {"ACK"}, Window(c), Cut(c, n)[i].data) :
     i \in 1..Count(n)}
Pumped(p, c, n) ==
  [c EXCEPT !.sendBuf = SubSeq(@, n + 1, Len(@)), !.sendNext = Plus(@, Count(n)),
            !.unacked = @ \o Cut(c, n), !.ackPending = FALSE, !.ackDelayed = FALSE,
            !.out = @ \cup Sent(p, c, n)]

LEMMA Min2Is ==
  ASSUME NEW a \in Nat, NEW b \in Nat
  PROVE  Min2(a, b) \in Nat /\ Min2(a, b) <= a /\ Min2(a, b) <= b
BY DEF Min2

LEMMA PumpIs ==
  ASSUME NEW p \in Ends, NEW c \in Conns, NEW cwnd \in MinCwnd .. RecvWindow * MaxPayload
  PROVE  \/ Pump(p, c, cwnd) = c
         \/ /\ ~c.finSent
            /\ \E n \in 1..Len(c.sendBuf) : Pump(p, c, cwnd) = Pumped(p, c, n)
<1> USE Space, Limits
<1> DEFINE w == c.peerWindow * MaxPayload
           limit == Min2(cwnd, w)
           avail == limit - Min2(limit, SumLen(c.unacked))
           n == Min2(Len(c.sendBuf), avail)
<1>1. w \in Nat /\ cwnd \in Nat
  <2>1. c.peerWindow \in Nat
    BY DEF Conns
  <2>2. RecvWindow * MaxPayload \in Int
    OBVIOUS
  <2> QED BY <2>1, <2>2
<1>2. SumLen(c.unacked) \in Nat /\ Len(c.sendBuf) \in Nat
  BY SumLenIsNat DEF Conns
<1>3. limit \in Nat
  BY <1>1, Min2Is
<1>4. avail \in Nat
  <2> HIDE DEF limit
  <2>1. Min2(limit, SumLen(c.unacked)) \in Nat /\ Min2(limit, SumLen(c.unacked)) <= limit
    BY <1>2, <1>3, Min2Is
  <2> QED BY <1>3, <2>1
<1>5. n \in 0..Len(c.sendBuf)
  <2> HIDE DEF avail
  <2>1. Min2(Len(c.sendBuf), avail) \in Nat /\ Min2(Len(c.sendBuf), avail) <= Len(c.sendBuf)
    BY <1>2, <1>4, Min2Is
  <2> QED BY <2>1
<1>6. CASE c.finSent \/ n = 0
  BY <1>6 DEF Pump
<1>7. CASE ~(c.finSent \/ n = 0)
  <2>1. Pump(p, c, cwnd) = Pumped(p, c, n)
    BY <1>7, Zenon DEF Pump, Pumped, Cut, Sent, Count
  <2>2. n \in 1..Len(c.sendBuf)
    BY <1>5, <1>7
  <2> QED BY <1>7, <2>1, <2>2, Zenon
<1> QED BY <1>6, <1>7

LEMMA CountIs ==
  ASSUME NEW n \in Nat \ {0}
  PROVE  /\ Count(n) \in Nat \ {0}
         /\ (Count(n) - 1) * MaxPayload < n /\ n <= Count(n) * MaxPayload
         /\ Count(n) <= n
         /\ Count(n) <= n
<1> USE Space
<1> DEFINE x == n + MaxPayload - 1
<1>1. x \in Int /\ MaxPayload \in Nat \ {0}
  OBVIOUS
<1> HIDE DEF x
<1> DEFINE q == x \div MaxPayload
           r == x % MaxPayload
<1>2. r \in 0..MaxPayload-1 /\ q \in Int /\ x = MaxPayload * q + r
  BY <1>1, Quotient
<1> HIDE DEF q, r
<1>3. x = n + MaxPayload - 1 /\ Count(n) = q
  BY DEF x, q, Count
<1>4. q > 0
  <2>1. ASSUME ~(q > 0) PROVE FALSE
    <3>1. 0 >= q
      BY <1>2, <2>1
    <3>2. MaxPayload * 0 >= MaxPayload * q
      BY <1>1, <1>2, <3>1
    <3> QED BY <1>1, <1>2, <1>3, <3>2
  <2> QED BY <2>1
<1>5. (q - 1) * MaxPayload = MaxPayload * q - MaxPayload /\ q * MaxPayload = MaxPayload * q
  BY <1>1, <1>2
<1>6. MaxPayload * q \in Int
  BY <1>1, <1>2
<1> DEFINE y == MaxPayload * q
<1> HIDE DEF y
<1>7. x = y + r /\ y \in Int /\ (q - 1) * MaxPayload = y - MaxPayload /\ q * MaxPayload = y
  BY <1>2, <1>5, <1>6 DEF y
<1>8. y - MaxPayload < n /\ n <= y
  BY <1>1, <1>2, <1>3, <1>7
<1>9. (q - 1) * MaxPayload >= q - 1
  BY <1>1, <1>2, <1>4
<1> QED BY <1>2, <1>3, <1>4, <1>7, <1>8, <1>9

LEMMA CutIs ==
  ASSUME NEW c \in Conns, NEW n \in 1..Len(c.sendBuf)
  PROVE  /\ Cut(c, n) \in Seq(Kept) /\ Len(Cut(c, n)) = Count(n)
         /\ \A i \in 1..Count(n) :
              /\ 0 <= (i - 1) * MaxPayload /\ (i - 1) * MaxPayload < Min2(i * MaxPayload, n)
              /\ Min2(i * MaxPayload, n) <= n
              /\ Cut(c, n)[i].seq = Plus(c.sendNext, i - 1)
              /\ Cut(c, n)[i].flags = {"ACK"}
              /\ Cut(c, n)[i].data =
                   SubSeq(c.sendBuf, (i - 1) * MaxPayload + 1, Min2(i * MaxPayload, n))
              /\ Cut(c, n)[i].data \in Seq(Nat)
<1> USE Space
<1>0. Len(c.sendBuf) \in Nat /\ n \in Nat \ {0} /\ c.sendBuf \in Seq(Nat) /\ c.sendNext \in Int
  BY DEF Conns, Seqs
<1>1. /\ Count(n) \in Nat \ {0} /\ (Count(n) - 1) * MaxPayload < n
      /\ n <= Count(n) * MaxPayload
  BY <1>0, CountIs
<1>2. ASSUME NEW i \in 1..Count(n)
      PROVE  /\ 0 <= (i - 1) * MaxPayload /\ (i - 1) * MaxPayload < Min2(i * MaxPayload, n)
             /\ Min2(i * MaxPayload, n) <= n /\ Min2(i * MaxPayload, n) \in Nat
             /\ (i - 1) * MaxPayload \in Nat
  <2>1. i \in Nat \ {0} /\ i - 1 <= Count(n) - 1
    BY <1>1
  <2>2. (i - 1) * MaxPayload <= (Count(n) - 1) * MaxPayload /\ 0 <= (i - 1) * MaxPayload
    BY <1>1, <2>1
  <2>3. i * MaxPayload = (i - 1) * MaxPayload + MaxPayload /\ (i - 1) * MaxPayload \in Int
    BY <2>1
  <2>4. (Count(n) - 1) * MaxPayload \in Int
    BY <1>1
  <2> DEFINE a == (i - 1) * MaxPayload
             b == i * MaxPayload
             e == (Count(n) - 1) * MaxPayload
  <2>5. a \in Int /\ b = a + MaxPayload /\ e \in Int /\ a <= e /\ 0 <= a /\ e < n
    BY <1>1, <2>2, <2>3, <2>4
  <2> HIDE DEF a, b, e
  <2>6. 0 <= a /\ a < Min2(b, n) /\ Min2(b, n) <= n /\ Min2(b, n) \in Nat /\ a \in Nat
    BY <1>0, <2>5 DEF Min2
  <2> QED BY <2>6 DEF a, b
<1>3. ASSUME NEW i \in 1..Count(n)
      PROVE  /\ Plus(c.sendNext, i - 1) \in Seqs
             /\ SubSeq(c.sendBuf, (i - 1) * MaxPayload + 1, Min2(i * MaxPayload, n)) \in Seq(Nat)
  <2>1. i - 1 \in Int
    BY <1>1
  <2> DEFINE a == (i - 1) * MaxPayload
             b == Min2(i * MaxPayload, n)
  <2>2. a \in Nat /\ b \in Nat /\ b <= Len(c.sendBuf)
    BY <1>0, <1>2
  <2> HIDE DEF a, b
  <2>3. SubSeq(c.sendBuf, a + 1, b) \in Seq(Nat)
    BY <1>0, <2>2
  <2> QED BY <1>0, <2>1, <2>3, PlusIs DEF a, b
<1>4. \A i \in 1..Count(n) : Cut(c, n)[i] \in Kept
  BY <1>3 DEF Cut, Kept, Flags
<1>5. Cut(c, n) \in Seq(Kept) /\ Len(Cut(c, n)) = Count(n)
  <2>1. Cut(c, n) \in [1..Count(n) -> Kept]
    BY <1>4, Zenon DEF Cut
  <2> QED BY <1>1, <2>1, SequenceIs
<1> QED BY <1>2, <1>3, <1>5 DEF Cut

LEMMA SentIs ==
  ASSUME NEW p \in Ends, NEW c, Sound(c), NEW n \in 1..Len(c.sendBuf)
  PROVE  /\ Sent(p, c, n) \subseteq Outgoing
         /\ \A d \in Sent(p, c, n) :
              d.to = Peer(p) /\ \E i \in 1..Count(n) :
                d.seq = Cut(c, n)[i].seq /\ d.flags = {"ACK"} /\ d.data = Cut(c, n)[i].data
<1>0. c \in Conns /\ Window(c) \in 0..RecvWindow
  BY WindowIs DEF Sound
<1>1. c.sendBase \in Seqs /\ {"ACK"} \in SUBSET Flags /\ c.sendNext \in Int
  BY <1>0, Space DEF Conns, Flags, Seqs
<1>2. ASSUME NEW i \in 1..Count(n)
      PROVE  Cut(c, n)[i].seq \in Seqs /\ Cut(c, n)[i].data \in Seq(Nat)
  <2>1. n \in Nat \ {0}
    BY <1>0 DEF Conns
  <2>2. i - 1 \in Int
    BY <2>1, CountIs
  <2> QED BY <1>0, <1>1, <2>2, CutIs, PlusIs
<1>3. ASSUME NEW d \in Sent(p, c, n)
      PROVE  d \in Outgoing /\ d.to = Peer(p) /\ \E i \in 1..Count(n) :
                d.seq = Cut(c, n)[i].seq /\ d.flags = {"ACK"} /\ d.data = Cut(c, n)[i].data
  <2>1. PICK i \in 1..Count(n) :
          d = Segment(p, Cut(c, n)[i].seq, c.sendBase, {"ACK"}, Window(c), Cut(c, n)[i].data)
    BY DEF Sent
  <2>2. Cut(c, n)[i].seq \in Seqs /\ Cut(c, n)[i].data \in Seq(Nat)
    BY <1>2
  <2>3. d \in Outgoing /\ d.to = Peer(p) /\ d.seq = Cut(c, n)[i].seq /\ d.flags = {"ACK"}
        /\ d.data = Cut(c, n)[i].data
    BY ONLY <1>0, <1>1, <2>1, <2>2, PeerIs DEF Segment, Outgoing
  <2> QED BY <2>3
<1> QED BY <1>3

LEMMA PumpedIs ==
  ASSUME NEW p \in Ends, NEW c, Sound(c), NEW n \in 1..Len(c.sendBuf)
  PROVE  LET d == Pumped(p, c, n)
         IN /\ d \in Conns /\ SameRecv(c, d) /\ SameLife(c, d)
            /\ d.sendBuf = SubSeq(c.sendBuf, n + 1, Len(c.sendBuf))
            /\ d.sendNext = Plus(c.sendNext, Count(n))
            /\ d.unacked = c.unacked \o Cut(c, n)
            /\ d.finSent = c.finSent /\ d.appEof = c.appEof /\ d.sendBase = c.sendBase
            /\ d.out = c.out \cup Sent(p, c, n)
<1> DEFINE buf == SubSeq(c.sendBuf, n + 1, Len(c.sendBuf))
           next == Plus(c.sendNext, Count(n))
           kept == c.unacked \o Cut(c, n)
           out == c.out \cup Sent(p, c, n)
<1>1. c \in Conns /\ c.sendBuf \in Seq(Nat) /\ c.unacked \in Seq(Kept) /\ c.sendNext \in Int
      /\ c.out \subseteq Outgoing
  <2>1. c \in Conns
    BY DEF Sound
  <2>2. /\ c.sendBuf \in Seq(Nat) /\ c.unacked \in Seq(Kept) /\ c.sendNext \in Seqs
        /\ c.out \subseteq Outgoing
    BY ONLY <2>1 DEF Conns
  <2> QED BY <2>1, <2>2, Space DEF Seqs
<1>2. n \in Nat \ {0} /\ n <= Len(c.sendBuf) /\ Len(c.sendBuf) \in Nat
  BY <1>1
<1>3. buf \in Seq(Nat)
  BY <1>1, <1>2
<1>4. next \in Seqs
  BY <1>1, <1>2, CountIs, PlusIs
<1>5. kept \in Seq(Kept)
  BY <1>1, CutIs
<1>6. out \in SUBSET Outgoing
  BY <1>1, SentIs
<1>7. Pumped(p, c, n) =
        [c EXCEPT !.sendBuf = buf, !.sendNext = next, !.unacked = kept,
                  !.ackPending = FALSE, !.ackDelayed = FALSE, !.out = out]
  BY DEF Pumped
<1> HIDE DEF buf, next, kept, out
<1>8. LET d == [c EXCEPT !.sendBuf = buf, !.sendNext = next, !.unacked = kept,
                         !.ackPending = FALSE, !.ackDelayed = FALSE, !.out = out]
      IN /\ d \in Conns /\ SameRecv(c, d) /\ SameLife(c, d)
         /\ d.sendBuf = buf /\ d.sendNext = next /\ d.unacked = kept
         /\ d.finSent = c.finSent /\ d.appEof = c.appEof /\ d.out = out
  BY ONLY <1>1, <1>3, <1>4, <1>5, <1>6 DEF Conns, SameRecv, SameLife
<1> QED BY <1>7, <1>8 DEF buf, next, kept, out

\* The FIN takes a number of its own, and is the only segment in flight.
FinOf(c) == [seq |-> c.sendNext, flags |-> {"FIN", "ACK"}, data |-> <<>>]

LEMMA MaybeSendFinIs ==
  ASSUME NEW p \in Ends, NEW c, Sound(c)
  PROVE  LET d == MaybeSendFin(p, c)
         IN \/ d = c
            \/ /\ ~c.finSent /\ c.appEof /\ c.sendBuf = <<>> /\ c.unacked = <<>>
               /\ d \in Conns /\ SameRecv(c, d) /\ SameLife(c, d)
               /\ d.sendBuf = <<>> /\ d.appEof = c.appEof /\ d.sendBase = c.sendBase
               /\ d.finSent /\ d.sendNext = Plus(c.sendNext, 1) /\ d.unacked = <<FinOf(c)>>
               /\ \E o \in Outgoing :
                    /\ d.out = c.out \cup {o}
                    /\ o.to = Peer(p) /\ o.seq = c.sendNext /\ o.flags = {"FIN", "ACK"}
                    /\ o.data = <<>> /\ o.ack = c.sendBase
<1>1. CASE c.finSent \/ ~c.appEof \/ c.sendBuf # <<>> \/ c.unacked # <<>>
  BY <1>1, Zenon DEF MaybeSendFin
<1>2. CASE ~(c.finSent \/ ~c.appEof \/ c.sendBuf # <<>> \/ c.unacked # <<>>)
  <2> DEFINE fin == FinOf(c)
             o == Segment(p, fin.seq, c.sendBase, fin.flags, Window(c), <<>>)
             next == Plus(c.sendNext, 1)
             e == [c EXCEPT !.finSent = TRUE, !.sendNext = next, !.unacked = <<fin>>]
  <2>1. c \in Conns /\ c.sendNext \in Seqs /\ c.sendBase \in Seqs /\ c.sendNext \in Int
        /\ {"FIN", "ACK"} \in SUBSET Flags
    BY Space DEF Sound, Conns, Seqs, Flags
  <2>2. next \in Seqs
    BY <2>1, PlusIs
  <2>3. fin \in Kept /\ fin.seq = c.sendNext /\ fin.flags = {"FIN", "ACK"}
    BY <2>1 DEF FinOf, Kept
  <2>4. /\ o \in Outgoing /\ o.to = Peer(p) /\ o.seq = c.sendNext /\ o.flags = {"FIN", "ACK"}
        /\ o.data = <<>> /\ o.ack = c.sendBase
    <3>1. Window(c) \in 0..RecvWindow /\ <<>> \in Seq(Nat)
      BY WindowIs
    <3> QED BY <2>1, <2>3, <3>1, PeerIs DEF Segment, Outgoing
  <2>5. MaybeSendFin(p, c) = Emit(e, o)
    BY <1>2 DEF MaybeSendFin, FinOf
  <2> HIDE DEF fin, o, next
  <2>6. /\ e \in Conns /\ SameRecv(c, e) /\ SameLife(c, e) /\ e.sendBuf = c.sendBuf
        /\ e.finSent /\ e.sendNext = next /\ e.unacked = <<fin>> /\ e.appEof = c.appEof
        /\ e.sendBase = c.sendBase
        /\ e.out = c.out
    <3>1. <<fin>> \in Seq(Kept)
      BY <2>3
    <3> QED BY ONLY <2>1, <2>2, <3>1 DEF Conns, SameRecv, SameLife
  <2> HIDE DEF e
  <2>7. LET d == Emit(e, o)
        IN /\ d \in Conns /\ SameRecv(e, d) /\ SameLife(e, d) /\ SameSend(e, d)
           /\ d.out = e.out \cup {o}
    BY <2>4, <2>6, EmitIs
  <2>8. SameRecv(c, Emit(e, o)) /\ SameLife(c, Emit(e, o))
    BY <2>6, <2>7 DEF SameRecv, SameLife
  <2> QED BY <1>2, <2>4, <2>5, <2>6, <2>7, <2>8 DEF SameSend, fin, next
<1> QED BY <1>1, <1>2

\* What p acknowledges: what it has taken or, as long as something of its own is
\* not acknowledged, the number of that.
Acknowledges(c, o) ==
  "ACK" \in o.flags =>
    \/ o.ack \in {FirstSeq, c.recvNext}
    \/ c.unacked # <<>> /\ o.ack = c.sendBase

\* A datagram of p that says nothing, or what is unacknowledged at p.
Says(p, c, o) ==
  /\ o.to = Peer(p)
  /\ \/ o.data = <<>> /\ "FIN" \notin o.flags
     \/ \E i \in 1..Len(c.unacked) :
          /\ o.seq = c.unacked[i].seq /\ o.data = c.unacked[i].data
          /\ o.flags \in {c.unacked[i].flags, {"ACK"}}
  /\ Acknowledges(c, o)

\* What changes neither the streams nor the buffers: timers, acknowledgements,
\* and datagrams that say what was said before.
Echo(p, c, d) ==
  /\ d \in Conns /\ SameRecv(c, d) /\ SameSend(c, d)
  /\ \A o \in d.out : o \in c.out \/ Says(p, c, o)

LEMMA EchoSame ==
  ASSUME NEW p, NEW c \in Conns
  PROVE  Echo(p, c, c)
BY DEF Echo, SameRecv, SameSend

LEMMA EchoEcho ==
  ASSUME NEW p, NEW c, NEW d, NEW e, Echo(p, c, d), Echo(p, d, e)
  PROVE  Echo(p, c, e)
BY DEF Echo, SameRecv, SameSend, Says, Acknowledges

LEMMA EchoEmit ==
  ASSUME NEW p, NEW c, NEW d, NEW o \in Outgoing, Echo(p, c, d), Says(p, d, o)
  PROVE  Echo(p, c, Emit(d, o)) /\ SameLife(d, Emit(d, o))
<1>1. d \in Conns
  BY DEF Echo
<1>2. LET e == Emit(d, o)
      IN /\ e \in Conns /\ SameRecv(d, e) /\ SameLife(d, e) /\ SameSend(d, e)
         /\ e.out = d.out \cup {o}
  BY <1>1, EmitIs
<1>3. Echo(p, d, Emit(d, o))
  BY <1>2 DEF Echo
<1> QED BY <1>2, <1>3, EchoEcho

LEMMA EchoAckNow ==
  ASSUME NEW p, NEW c, NEW d, Echo(p, c, d)
  PROVE  Echo(p, c, AckNow(d)) /\ SameLife(d, AckNow(d))
<1>1. d \in Conns
  BY DEF Echo
<1>2. Echo(p, d, AckNow(d)) /\ SameLife(d, AckNow(d))
  BY <1>1, AckNowIs DEF Echo
<1> QED BY <1>2, EchoEcho

LEMMA FlushAckIs ==
  ASSUME NEW p \in Ends, NEW c, Sound(c)
  PROVE  Echo(p, c, FlushAck(p, c)) /\ SameLife(c, FlushAck(p, c))
<1>1. c \in Conns
  BY DEF Sound
<1>2. CASE ~c.ackPending
  <2>1. FlushAck(p, c) = c
    BY <1>2, Zenon DEF FlushAck
  <2> QED BY <1>1, <2>1, EchoSame DEF SameLife
<1>3. CASE c.ackPending
  <2> DEFINE o == Segment(p, c.sendNext, c.recvNext, {"ACK"}, Window(c), <<>>)
             e == [c EXCEPT !.ackPending = FALSE, !.ackDelayed = FALSE]
  <2>1. FlushAck(p, c) = Emit(e, o)
    BY <1>3, Zenon DEF FlushAck
  <2>2. /\ o \in Outgoing /\ o.to = Peer(p) /\ o.flags = {"ACK"} /\ o.data = <<>>
        /\ o.ack = c.recvNext
    <3>1. c.sendNext \in Seqs /\ c.recvNext \in Seqs /\ {"ACK"} \in SUBSET Flags /\ <<>> \in Seq(Nat)
      BY <1>1 DEF Conns, Flags
    <3> QED BY <3>1, WindowIs, PeerIs DEF Segment, Outgoing
  <2>3. Says(p, e, o)
    <3>1. e.recvNext = c.recvNext
      BY ONLY <1>1 DEF Conns
    <3> QED BY <2>2, <3>1 DEF Says, Acknowledges
  <2> HIDE DEF o
  <2>4. Echo(p, c, e) /\ SameLife(c, e)
    BY ONLY <1>1 DEF Conns, SameRecv, SameSend, SameLife, Echo
  <2> HIDE DEF e
  <2>5. Echo(p, c, Emit(e, o)) /\ SameLife(e, Emit(e, o))
    BY <2>2, <2>3, <2>4, EchoEmit
  <2> QED BY <2>1, <2>4, <2>5 DEF SameLife
<1>4. c.ackPending \in BOOLEAN
  BY <1>1 DEF Conns
<1> QED BY <1>2, <1>3, <1>4

LEMMA AckIfDueIs ==
  ASSUME NEW p \in Ends, NEW c, Sound(c)
  PROVE  Echo(p, c, AckIfDue(p, c)) /\ SameLife(c, AckIfDue(p, c))
<1>1. c \in Conns
  BY DEF Sound
<1>2. AckIfDue(p, c) = c \/ AckIfDue(p, c) = FlushAck(p, c)
  BY DEF AckIfDue
<1> QED BY <1>1, <1>2, FlushAckIs, EchoSame DEF SameLife

\* A segment that is sent again.
LEMMA AgainIs ==
  ASSUME NEW p \in Ends, NEW c, Sound(c), c.unacked # <<>>,
         NEW flags \in {Head(c.unacked).flags, {"ACK"}}
  PROVE  LET u == Head(c.unacked)
             o == Segment(p, u.seq, c.sendBase, flags, Window(c), u.data)
         IN o \in Outgoing /\ Says(p, c, o)
<1> DEFINE u == Head(c.unacked)
           o == Segment(p, u.seq, c.sendBase, flags, Window(c), u.data)
<1>1. c \in Conns /\ c.unacked \in Seq(Kept) /\ c.sendBase \in Seqs
  BY DEF Sound, Conns
<1>2. u \in Kept /\ u = c.unacked[1] /\ 1 \in 1..Len(c.unacked)
  BY <1>1
<1>3. u.seq \in Seqs /\ u.data \in Seq(Nat) /\ flags \in SUBSET Flags
  BY <1>2 DEF Kept, Flags
<1>4. /\ o \in Outgoing /\ o.to = Peer(p) /\ o.seq = u.seq /\ o.data = u.data
      /\ o.flags = flags /\ o.ack = c.sendBase
  <2> HIDE DEF u
  <2> QED BY <1>1, <1>3, WindowIs, PeerIs DEF Segment, Outgoing
<1>5. Says(p, c, o)
  <2> HIDE DEF o
  <2> QED BY <1>2, <1>4, Zenon DEF Says, Acknowledges
<1> QED BY <1>4, <1>5

LEMMA FastRetransmitIs ==
  ASSUME NEW p \in Ends, NEW c, Sound(c), c.unacked # <<>>
  PROVE  Echo(p, c, FastRetransmit(p, c)) /\ SameLife(c, FastRetransmit(p, c))
<1> DEFINE u == Head(c.unacked)
           o == Segment(p, u.seq, c.sendBase, {"ACK"}, Window(c), u.data)
<1>1. o \in Outgoing /\ Says(p, c, o)
  BY AgainIs
<1>2. FastRetransmit(p, c) = Emit(c, o)
  BY DEF FastRetransmit
<1> HIDE DEF o
<1>3. Echo(p, c, c)
  BY EchoSame DEF Sound
<1> QED BY <1>1, <1>2, <1>3, EchoEmit

LEMMA RetransmitOldestIs ==
  ASSUME NEW p \in Ends, NEW c, Sound(c), ~c.fatal, c.unacked # <<>>
  PROVE  Echo(p, c, RetransmitOldest(p, c)) /\ Sound(RetransmitOldest(p, c))
<1> DEFINE u == Head(c.unacked)
           o == Segment(p, u.seq, c.sendBase, u.flags, Window(c), u.data)
           e == Emit(c, o)
           f == c.timeouts + 1 > MaxRetransmits
           d == [e EXCEPT !.timeouts = @ + 1, !.fatal = f]
<1>1. o \in Outgoing /\ Says(p, c, o)
  BY AgainIs
<1>2. RetransmitOldest(p, c) = d
  BY Zenon DEF RetransmitOldest
<1> HIDE DEF o
<1>3. Echo(p, c, c) /\ c \in Conns
  BY EchoSame DEF Sound
<1>4. Echo(p, c, e) /\ SameLife(c, e)
  BY <1>1, <1>3, EchoEmit
<1>5. c.timeouts \in 0..MaxRetransmits
  BY Limits DEF Sound, Conns
<1> HIDE DEF e, f
<1>6. Echo(p, e, d) /\ d.timeouts = e.timeouts + 1 /\ d.fatal = f
  <2>1. e \in Conns /\ e.timeouts + 1 \in 0..MaxRetransmits+1 /\ f \in BOOLEAN
    BY <1>4, <1>5, Limits DEF Echo, SameLife, f
  <2> QED BY ONLY <2>1 DEF Conns, Echo, SameRecv, SameSend
<1> HIDE DEF d
<1>7. Echo(p, c, d)
  BY <1>4, <1>6, EchoEcho
<1>8. ~d.fatal => d.timeouts <= MaxRetransmits
  <2>1. d.timeouts = c.timeouts + 1
    BY <1>4, <1>6 DEF SameLife
  <2>2. d.fatal <=> c.timeouts + 1 > MaxRetransmits
    BY <1>6, Zenon DEF f
  <2> QED BY <1>5, <2>1, <2>2, Limits
<1>9. Sound(d)
  BY <1>7, <1>8 DEF Sound, Echo, SameRecv
<1> QED BY <1>2, <1>7, <1>9

LEMMA PersistProbeIs ==
  ASSUME NEW p \in Ends, NEW c, Sound(c)
  PROVE  Echo(p, c, PersistProbe(p, c)) /\ SameLife(c, PersistProbe(p, c))
<1> DEFINE o == Segment(p, c.sendNext, c.sendBase, {}, Window(c), <<>>)
<1>1. Echo(p, c, c) /\ c \in Conns
  BY EchoSame DEF Sound
<1>2. o \in Outgoing /\ o.to = Peer(p) /\ o.flags = {} /\ o.data = <<>>
  <2>1. c.sendNext \in Seqs /\ c.sendBase \in Seqs /\ {} \in SUBSET Flags /\ <<>> \in Seq(Nat)
    BY <1>1 DEF Conns
  <2> QED BY <2>1, WindowIs, PeerIs DEF Segment, Outgoing
<1>3. Says(p, c, o)
  BY <1>2 DEF Says, Acknowledges
<1>4. PersistProbe(p, c) = Emit(c, o)
  BY DEF PersistProbe
<1> HIDE DEF o
<1> QED BY <1>1, <1>2, <1>3, <1>4, EchoEmit

\* What stays of the segments that were in flight.
LEMMA UnacknowledgedIs ==
  ASSUME NEW T, NEW segs \in Seq(T), NEW ack
  PROVE  \E k \in 0..Len(segs) :
           /\ Unacknowledged(segs, ack) = SubSeq(segs, k + 1, Len(segs))
           /\ \A i \in 1..k : SeqAfter(ack, segs[i].seq)
           /\ k < Len(segs) => ~SeqAfter(ack, segs[k + 1].seq)
<1> DEFINE L == Len(segs)
           B == {n \in 0..L : n < L => ~SeqAfter(ack, segs[n + 1].seq)}
           Popped(n) == /\ \A i \in 1..n : SeqAfter(ack, segs[i].seq)
                        /\ n < L => ~SeqAfter(ack, segs[n + 1].seq)
<1>1. L \in Nat
  OBVIOUS
<1>2. B \in SUBSET Nat /\ L \in B
  BY <1>1
<1>3. PICK n \in B : \A m \in B : n <= m
  BY <1>2, Least
<1>4. \A i \in 1..n : SeqAfter(ack, segs[i].seq)
  <2> SUFFICES ASSUME NEW i \in 1..n PROVE SeqAfter(ack, segs[i].seq)
    OBVIOUS
  <2>1. i - 1 \in 0..L /\ i - 1 < L /\ (i - 1) + 1 = i /\ ~(n <= i - 1)
    BY <1>1, <1>3
  <2>2. i - 1 \notin B
    BY <1>3, <2>1
  <2> QED BY <2>1, <2>2
<1>5. \E m \in 0..L : Popped(m)
  BY <1>3, <1>4
<1> DEFINE k == CHOOSE m \in 0..L : Popped(m)
<1>6. k \in 0..L /\ Popped(k)
  BY <1>5
<1>7. Unacknowledged(segs, ack) = SubSeq(segs, k + 1, L)
  BY Zenon DEF Unacknowledged
<1> HIDE DEF k, L
<1> QED BY <1>6, <1>7 DEF L

LEMMA ConcatIs ==
  ASSUME NEW T, NEW s \in Seq(T), NEW t \in Seq(T)
  PROVE  s \o t \in Seq(T) /\ Len(s \o t) = Len(s) + Len(t)
OBVIOUS

LEMMA SuffixIs ==
  ASSUME NEW T, NEW s \in Seq(T), NEW k \in 0..Len(s)
  PROVE  /\ SubSeq(s, k + 1, Len(s)) \in Seq(T)
         /\ Len(SubSeq(s, k + 1, Len(s))) = Len(s) - k
         /\ \A i \in 1 .. Len(s) - k : SubSeq(s, k + 1, Len(s))[i] = s[k + i]
OBVIOUS

\* An acknowledgement takes segments away, or sends at most one again.
Drops(p, c, d) ==
  /\ d \in Conns /\ SameRecv(c, d)
  /\ d.sendNext = c.sendNext /\ d.sendBuf = c.sendBuf
  /\ d.finSent = c.finSent /\ d.appEof = c.appEof
  /\ \A i \in 1..Len(d.unacked) : \E j \in 1..Len(c.unacked) : d.unacked[i] = c.unacked[j]
  /\ \/ d.sendBase = c.sendBase /\ d.unacked = c.unacked
     \/ /\ SeqAfter(d.sendBase, c.sendBase) /\ d.out = c.out
        /\ d.unacked = Unacknowledged(c.unacked, d.sendBase)
  /\ \A o \in d.out : o \in c.out \/ Says(p, c, o)

LEMMA EchoDrops ==
  ASSUME NEW p, NEW c \in Conns, NEW d, Echo(p, c, d)
  PROVE  Drops(p, c, d)
BY DEF Echo, Drops, SameSend, Conns

LEMMA ProcessAckIs ==
  ASSUME NEW p \in Ends, NEW c, Sound(c), NEW ack \in Seqs, NEW window \in 0..RecvWindow
  PROVE  /\ Drops(p, c, ProcessAck(p, c, ack, window)) /\ Sound(ProcessAck(p, c, ack, window))
         /\ ProcessAck(p, c, ack, window).sendBase \in {c.sendBase, ack}
<1> DEFINE w == [c EXCEPT !.peerWindow = window]
           n == Min2(w.dupAcks + 1, DupAcks + 1)
           d == [w EXCEPT !.dupAcks = Min2(@ + 1, DupAcks + 1)]
           left == Unacknowledged(c.unacked, ack)
           a == [w EXCEPT !.unacked = Unacknowledged(@, ack),
                          !.sendBase = ack, !.dupAcks = 0, !.timeouts = 0]
<1>0. c \in Conns
  BY DEF Sound
<1>1. w \in Conns /\ Echo(p, c, w) /\ SameLife(c, w) /\ w.unacked = c.unacked
  BY ONLY <1>0 DEF Conns, Echo, SameRecv, SameSend, SameLife
<1>2. d \in Conns /\ Echo(p, c, d) /\ SameLife(c, d) /\ d.unacked = c.unacked
  <2>1. n \in 0 .. DupAcks + 1
    <3>1. w.dupAcks \in Nat /\ DupAcks \in Nat
      <4> HIDE DEF w
      <4> QED BY <1>1, Limits DEF Conns
    <3> QED BY <3>1 DEF Min2
  <2>2. d = [c EXCEPT !.peerWindow = window, !.dupAcks = n]
    BY <1>0, <1>1 DEF Conns
  <2> HIDE DEF n, d
  <2>3. /\ [c EXCEPT !.peerWindow = window, !.dupAcks = n] \in Conns
        /\ Echo(p, c, [c EXCEPT !.peerWindow = window, !.dupAcks = n])
        /\ SameLife(c, [c EXCEPT !.peerWindow = window, !.dupAcks = n])
        /\ [c EXCEPT !.peerWindow = window, !.dupAcks = n].unacked = c.unacked
    BY ONLY <1>0, <2>1 DEF Conns, Echo, SameRecv, SameSend, SameLife
  <2> QED BY <2>2, <2>3
<1>3. CASE SeqAfter(ack, c.sendBase)
  <2>1. c.unacked \in Seq(Kept)
    BY <1>0 DEF Conns
  <2>2. PICK k \in 0..Len(c.unacked) : left = SubSeq(c.unacked, k + 1, Len(c.unacked))
    BY <2>1, UnacknowledgedIs
  <2> HIDE DEF left
  <2>3. /\ left \in Seq(Kept) /\ Len(left) = Len(c.unacked) - k
        /\ \A i \in 1..Len(left) : left[i] = c.unacked[k + i]
    BY <2>1, <2>2, SuffixIs
  <2>4. \A i \in 1..Len(left) : \E j \in 1..Len(c.unacked) : left[i] = c.unacked[j]
    <3> SUFFICES ASSUME NEW i \in 1..Len(left)
                 PROVE  \E j \in 1..Len(c.unacked) : left[i] = c.unacked[j]
      OBVIOUS
    <3>1. k + i \in 1..Len(c.unacked)
      BY <2>1, <2>3
    <3> QED BY <2>3, <3>1
  <2>5. a = [c EXCEPT !.peerWindow = window, !.unacked = left, !.sendBase = ack,
                      !.dupAcks = 0, !.timeouts = 0]
    <3>1. w.unacked = c.unacked
      BY <1>1
    <3>2. a = [w EXCEPT !.unacked = left, !.sendBase = ack, !.dupAcks = 0, !.timeouts = 0]
      BY <3>1 DEF left
    <3> QED BY <1>0, <3>2 DEF Conns
  <2> DEFINE b == [c EXCEPT !.peerWindow = window, !.unacked = left, !.sendBase = ack,
                      !.dupAcks = 0, !.timeouts = 0]
  <2>6. /\ b \in Conns /\ SameRecv(c, b) /\ b.sendNext = c.sendNext
        /\ b.sendBuf = c.sendBuf /\ b.finSent = c.finSent /\ b.appEof = c.appEof
        /\ b.unacked = left /\ b.out = c.out /\ b.timeouts = 0 /\ b.fatal = c.fatal
        /\ b.sendBase = ack
    <3>1. left \in Seq(Kept) /\ 0 \in 0 .. DupAcks + 1 /\ 0 \in 0 .. MaxRetransmits + 1
      BY <2>3, Limits
    <3> QED BY ONLY <1>0, <3>1 DEF Conns, SameRecv
  <2> HIDE DEF b
  <2>7. Drops(p, c, b)
    BY <1>3, <2>4, <2>6 DEF Drops, left
  <2>8. Sound(b)
    BY <2>6, Limits DEF Sound, SameRecv
  <2>9. ProcessAck(p, c, ack, window) = b
    BY <1>3, <2>5, Zenon DEF ProcessAck, b
  <2> QED BY <2>6, <2>7, <2>8, <2>9
<1>4. CASE ~SeqAfter(ack, c.sendBase) /\ (ack # c.sendBase \/ c.unacked = <<>>)
  <2>1. ProcessAck(p, c, ack, window) = w
    BY <1>4, Zenon DEF ProcessAck
  <2> HIDE DEF w
  <2> QED BY <1>0, <1>1, <2>1, StillSound, EchoDrops DEF Echo, SameSend
<1>5. CASE ~SeqAfter(ack, c.sendBase) /\ ~(ack # c.sendBase \/ c.unacked = <<>>)
  <2>1. \/ ProcessAck(p, c, ack, window) = d
        \/ ProcessAck(p, c, ack, window) = FastRetransmit(p, d)
    BY <1>5, Zenon DEF ProcessAck
  <2> HIDE DEF d, w
  <2>2. Sound(d) /\ d.unacked # <<>>
    BY <1>2, <1>5, StillSound DEF Echo
  <2>3. Echo(p, d, FastRetransmit(p, d)) /\ SameLife(d, FastRetransmit(p, d))
    BY <2>2, FastRetransmitIs
  <2>4. Echo(p, c, FastRetransmit(p, d)) /\ Sound(FastRetransmit(p, d))
    BY <1>2, <2>2, <2>3, EchoEcho, StillSound DEF Echo
  <2> QED BY <1>0, <1>2, <2>1, <2>2, <2>4, EchoDrops DEF Echo, SameSend
<1> QED BY <1>3, <1>4, <1>5

-----------------------------------------------------------------------------
(* What a segment does to the receiver.                                    *)

\* Nothing that the other direction could tell.
SameDown(c, d) == SameSend(c, d) /\ SameLife(c, d) /\ d.out = c.out

LEMMA TryConsumeFinIs ==
  ASSUME NEW c \in Conns
  PROVE  LET d == TryConsumeFin(c)
         IN /\ d \in Conns /\ SameDown(c, d)
            /\ d.recvOoo = c.recvOoo /\ d.recvDeliver = c.recvDeliver
            /\ d.peerFinSeq = c.peerFinSeq /\ d.writeShut = c.writeShut
            /\ \/ d = c
               \/ /\ \E fs \in c.peerFinSeq : ~SeqAfter(fs, c.recvNext)
                  /\ d.peerFin
                  /\ \/ c.recvNext \in c.peerFinSeq /\ d.recvNext = Plus(c.recvNext, 1)
                     \/ c.recvNext \notin c.peerFinSeq /\ d.recvNext = c.recvNext
<1>1. CASE \A fs \in c.peerFinSeq : SeqAfter(fs, c.recvNext)
  <2>1. TryConsumeFin(c) = c
    BY <1>1, Zenon DEF TryConsumeFin
  <2> QED BY <2>1 DEF SameDown, SameSend, SameLife
<1>2. CASE ~\A fs \in c.peerFinSeq : SeqAfter(fs, c.recvNext)
  <2> DEFINE next == IF c.recvNext \in c.peerFinSeq THEN Plus(c.recvNext, 1) ELSE c.recvNext
             e == [c EXCEPT !.peerFin = TRUE, !.recvNext = next]
  <2>1. TryConsumeFin(c) = AckNow(e)
    BY <1>2, Zenon DEF TryConsumeFin
  <2>2. c.recvNext \in Seqs /\ c.recvNext \in Int
    BY Space DEF Conns, Seqs
  <2>3. next \in Seqs
    BY <2>2, PlusIs
  <2> HIDE DEF next
  <2>4. /\ e \in Conns /\ SameDown(c, e)
        /\ e.recvOoo = c.recvOoo /\ e.recvDeliver = c.recvDeliver
        /\ e.peerFinSeq = c.peerFinSeq /\ e.writeShut = c.writeShut
        /\ e.peerFin /\ e.recvNext = next
    BY ONLY c \in Conns, <2>3 DEF Conns, SameDown, SameSend, SameLife
  <2> HIDE DEF e
  <2>5. LET d == AckNow(e)
        IN d \in Conns /\ SameRecv(e, d) /\ SameLife(e, d) /\ SameSend(e, d) /\ d.out = e.out
    BY <2>4, AckNowIs
  <2>6. SameDown(c, AckNow(e))
    BY <2>4, <2>5 DEF SameDown, SameSend, SameLife
  <2> QED BY <1>2, <2>1, <2>4, <2>5, <2>6 DEF SameRecv, next
<1> QED BY <1>1, <1>2

\* InOrderData, with its parts named.
Held(c, n) == \A i \in 1..n : \E o \in c.recvOoo : o.seq = Plus(c.recvNext, i)
Run(c) == CHOOSE n \in 0..RecvWindow : Held(c, n) /\ ~Held(c, n + 1)
Piece(c, i) == CHOOSE o \in c.recvOoo : o.seq = Plus(c.recvNext, i)
Taken(c) == [i \in 1..Run(c) |-> Piece(c, i).data]
Left(c) == {o \in c.recvOoo : \A i \in 1..Run(c) : o.seq # Plus(c.recvNext, i)}
Delivered(c, data) ==
  [c EXCEPT !.recvDeliver = Append(@, data) \o Taken(c),
            !.recvNext = Plus(@, Run(c) + 1), !.recvOoo = Left(c)]

\* The segments held back have numbers that differ.
LEMMA PiecesDiffer ==
  ASSUME NEW c, Sound(c), NEW n \in 0..RecvWindow, Held(c, n)
  PROVE  LET h == [i \in 1..n |-> Piece(c, i)]
         IN /\ h \in Injection(1..n, c.recvOoo)
            /\ \A i \in 1..n : h[i].seq = Plus(c.recvNext, i)
<1> DEFINE h == [i \in 1..n |-> Piece(c, i)]
<1>1. \A i \in 1..n : Piece(c, i) \in c.recvOoo /\ Piece(c, i).seq = Plus(c.recvNext, i)
  BY DEF Held, Piece
<1>2. c.recvNext \in Int
  BY Space DEF Sound, Conns, Seqs
<1>3. ASSUME NEW i \in 1..n, NEW j \in 1..n, h[i] = h[j] PROVE i = j
  <2>1. Plus(c.recvNext, i) = Plus(c.recvNext, j)
    BY <1>1, <1>3
  <2>2. i \in Int /\ j \in Int /\ i - j < SeqSpace /\ j - i < SeqSpace
    BY Space
  <2> QED BY <1>2, <2>1, <2>2, PlusOnce
<1>4. h \in [1..n -> c.recvOoo]
  BY <1>1
<1>5. h \in Injection(1..n, c.recvOoo)
  <2> HIDE DEF h
  <2> QED BY <1>3, <1>4 DEF Injection, IsInjective
<1> QED BY <1>1, <1>5

LEMMA RunIs ==
  ASSUME NEW c, Sound(c), ~Full(c)
  PROVE  Run(c) \in 0..RecvWindow /\ Held(c, Run(c))
<1>1. Cardinality(c.recvOoo) \in Nat /\ Len(c.recvDeliver) \in Nat /\ RecvWindow \in Nat
      /\ IsFiniteSet(c.recvOoo)
  BY FS_CardinalityType, Space DEF Sound, Conns
<1>2. Cardinality(c.recvOoo) < RecvWindow
  BY <1>1 DEF Full
<1>3. ~Held(c, RecvWindow)
  <2> SUFFICES ASSUME Held(c, RecvWindow) PROVE FALSE
    OBVIOUS
  <2>1. RecvWindow \in 0..RecvWindow
    BY <1>1
  <2> DEFINE h == [i \in 1..RecvWindow |-> Piece(c, i)]
  <2>2. h \in Injection(1..RecvWindow, c.recvOoo)
    BY <2>1, PiecesDiffer
  <2>3. Cardinality(1..RecvWindow) <= Cardinality(c.recvOoo)
    BY <1>1, <2>2, FS_Injection
  <2>4. Cardinality(1..RecvWindow) = RecvWindow
    BY <1>1, FS_Interval
  <2> QED BY <1>1, <1>2, <2>3, <2>4
<1> DEFINE B == {n \in 0..RecvWindow : ~Held(c, n)}
<1>4. B \in SUBSET Nat /\ RecvWindow \in B
  BY <1>1, <1>3
<1> HIDE DEF B
<1>5. PICK m \in B : \A n \in B : m <= n
  BY <1>4, Least
<1>6. m \in 0..RecvWindow /\ ~Held(c, m) /\ m \in Nat
  BY <1>1, <1>5 DEF B
<1>7. m # 0
  BY <1>6 DEF Held
<1>8. m - 1 \in 0..RecvWindow /\ ~(m <= m - 1) /\ (m - 1) + 1 = m
  BY <1>1, <1>6, <1>7
<1>9. Held(c, m - 1)
  BY <1>5, <1>8 DEF B
<1>10. \E n \in 0..RecvWindow : Held(c, n) /\ ~Held(c, n + 1)
  BY <1>6, <1>8, <1>9
<1> QED BY <1>10 DEF Run

LEMMA TakenIs ==
  ASSUME NEW c, Sound(c), ~Full(c)
  PROVE  /\ Taken(c) \in Seq(Seq(Nat)) /\ Len(Taken(c)) = Run(c)
         /\ \A i \in 1..Run(c) : \E o \in c.recvOoo :
              o.seq = Plus(c.recvNext, i) /\ Taken(c)[i] = o.data
<1>1. Run(c) \in 0..RecvWindow /\ Held(c, Run(c)) /\ Run(c) \in Nat
  BY RunIs, Space
<1>2. \A i \in 1..Run(c) : Piece(c, i) \in c.recvOoo /\ Piece(c, i).seq = Plus(c.recvNext, i)
  BY <1>1 DEF Held, Piece
<1>3. c.recvOoo \in SUBSET [seq : Seqs, data : Seq(Nat)]
  BY DEF Sound, Conns
<1>4. \A i \in 1..Run(c) : Piece(c, i).data \in Seq(Nat)
  BY <1>2, <1>3
<1>5. Taken(c) \in [1..Run(c) -> Seq(Nat)]
  BY <1>4, Zenon DEF Taken
<1>6. Taken(c) \in Seq(Seq(Nat)) /\ Len(Taken(c)) = Run(c)
  BY <1>1, <1>5, SequenceIs
<1>7. \A i \in 1..Run(c) : Taken(c)[i] = Piece(c, i).data
  BY Zenon DEF Taken
<1> QED BY <1>2, <1>6, <1>7

\* As many segments leave the out-of-order buffer as are delivered after the
\* missing one.
LEMMA LeftIs ==
  ASSUME NEW c, Sound(c), ~Full(c)
  PROVE  /\ Left(c) \subseteq c.recvOoo /\ IsFiniteSet(Left(c))
         /\ Cardinality(Left(c)) \in Nat
         /\ Cardinality(Left(c)) + Run(c) <= Cardinality(c.recvOoo)
<1> DEFINE n == Run(c)
           h == [i \in 1..n |-> Piece(c, i)]
           gone == {o \in c.recvOoo : ~ \A i \in 1..n : o.seq # Plus(c.recvNext, i)}
<1>1. n \in 0..RecvWindow /\ Held(c, n) /\ n \in Nat
  BY RunIs, Space
<1>2. h \in Injection(1..n, c.recvOoo) /\ \A i \in 1..n : h[i].seq = Plus(c.recvNext, i)
  BY <1>1, PiecesDiffer
<1>3. Left(c) = c.recvOoo \ gone /\ gone \subseteq c.recvOoo
  BY DEF Left
<1>4. IsFiniteSet(c.recvOoo)
  BY DEF Sound
<1>5. h \in Injection(1..n, gone)
  <2> HIDE DEF h, n
  <2>1. h \in [1..n -> c.recvOoo] /\ \A i, j \in 1..n : h[i] = h[j] => i = j
    BY <1>2 DEF Injection, IsInjective
  <2>2. \A i \in 1..n : h[i] \in gone
    BY <1>2, <2>1
  <2>3. h \in [1..n -> gone]
    BY <2>1, <2>2
  <2> QED BY <2>1, <2>3 DEF Injection, IsInjective
<1> HIDE DEF gone, h
<1>6. IsFiniteSet(gone) /\ c.recvOoo \cap gone = gone
  BY <1>3, <1>4, FS_Subset
<1>7. n <= Cardinality(gone)
  <2>1. Cardinality(1..n) <= Cardinality(gone)
    BY <1>5, <1>6, FS_Injection
  <2>2. Cardinality(1..n) = n
    BY <1>1, FS_Interval
  <2> QED BY <2>1, <2>2
<1>8. IsFiniteSet(Left(c)) /\ Cardinality(Left(c)) = Cardinality(c.recvOoo) - Cardinality(gone)
  BY <1>3, <1>4, <1>6, FS_Difference
<1>9. Cardinality(gone) \in Nat /\ Cardinality(c.recvOoo) \in Nat /\ Cardinality(Left(c)) \in Nat
  BY <1>4, <1>6, <1>8, FS_CardinalityType
<1> QED BY <1>1, <1>3, <1>7, <1>8, <1>9

LEMMA SoundParts ==
  ASSUME NEW c, Sound(c)
  PROVE  /\ c \in Conns /\ c.recvDeliver \in Seq(Seq(Nat)) /\ c.recvNext \in Seqs
         /\ c.recvNext \in Int
         /\ c.recvOoo \in SUBSET [seq : Seqs, data : Seq(Nat)] /\ IsFiniteSet(c.recvOoo)
         /\ Len(c.recvDeliver) \in Nat /\ Cardinality(c.recvOoo) \in Nat
         /\ Len(c.recvDeliver) + Cardinality(c.recvOoo) <= RecvWindow
         /\ RecvWindow \in Nat /\ c.peerFinSeq \in SUBSET Seqs
BY FS_CardinalityType, Space DEF Sound, Conns, Seqs

LEMMA DeliveredIs ==
  ASSUME NEW c, Sound(c), ~Full(c), NEW data \in Seq(Nat)
  PROVE  LET d == Delivered(c, data)
         IN /\ Sound(d) /\ SameDown(c, d)
            /\ d.recvDeliver = Append(c.recvDeliver, data) \o Taken(c)
            /\ d.recvNext = Plus(c.recvNext, Run(c) + 1) /\ d.recvOoo = Left(c)
            /\ d.peerFin = c.peerFin /\ d.peerFinSeq = c.peerFinSeq
            /\ d.writeShut = c.writeShut
<1> DEFINE del == Append(c.recvDeliver, data) \o Taken(c)
           next == Plus(c.recvNext, Run(c) + 1)
           d == [c EXCEPT !.recvDeliver = del, !.recvNext = next, !.recvOoo = Left(c)]
<1>1. Delivered(c, data) = d
  BY DEF Delivered
<1>2. Run(c) \in 0..RecvWindow /\ Run(c) \in Nat
  BY RunIs, Space
<1>3. /\ Taken(c) \in Seq(Seq(Nat)) /\ Len(Taken(c)) = Run(c)
  BY TakenIs
<1>4. /\ Left(c) \subseteq c.recvOoo /\ IsFiniteSet(Left(c)) /\ Cardinality(Left(c)) \in Nat
      /\ Cardinality(Left(c)) + Run(c) <= Cardinality(c.recvOoo)
  BY LeftIs
<1>5. /\ c \in Conns /\ c.recvDeliver \in Seq(Seq(Nat)) /\ c.recvNext \in Int
      /\ Len(c.recvDeliver) \in Nat /\ Cardinality(c.recvOoo) \in Nat /\ RecvWindow \in Nat
      /\ c.recvOoo \in SUBSET [seq : Seqs, data : Seq(Nat)]
  BY SoundParts
<1>6. /\ del \in Seq(Seq(Nat)) /\ Len(del) = Len(c.recvDeliver) + 1 + Run(c)
  <2>1. /\ Append(c.recvDeliver, data) \in Seq(Seq(Nat))
        /\ Len(Append(c.recvDeliver, data)) = Len(c.recvDeliver) + 1
    BY <1>5
  <2> DEFINE a == Append(c.recvDeliver, data)
  <2> HIDE DEF a
  <2>2. /\ a \o Taken(c) \in Seq(Seq(Nat))
        /\ Len(a \o Taken(c)) = Len(a) + Len(Taken(c))
    BY ONLY <1>3, <2>1, ConcatIs DEF a
  <2> QED BY <1>3, <2>1, <2>2 DEF a
<1>7. next \in Seqs
  BY <1>2, <1>5, PlusIs
<1>8. Left(c) \in SUBSET [seq : Seqs, data : Seq(Nat)]
  BY <1>4, <1>5
<1> HIDE DEF del, next
<1>9. /\ d \in Conns /\ SameDown(c, d) /\ d.recvDeliver = del /\ d.recvNext = next
      /\ d.recvOoo = Left(c) /\ d.peerFin = c.peerFin /\ d.peerFinSeq = c.peerFinSeq
      /\ d.writeShut = c.writeShut
  BY ONLY <1>5, <1>6, <1>7, <1>8 DEF Conns, SameDown, SameSend, SameLife
<1> HIDE DEF d
<1>10. Len(c.recvDeliver) + Cardinality(c.recvOoo) < RecvWindow
  BY <1>5 DEF Full
<1>11. Len(del) + Cardinality(Left(c)) <= RecvWindow
  BY <1>2, <1>4, <1>5, <1>6, <1>10
<1>12. Sound(d)
  BY <1>4, <1>9, <1>11 DEF Sound, SameDown, SameLife
<1> QED BY <1>1, <1>9, <1>12 DEF del, next

LEMMA InOrderDataIs ==
  ASSUME NEW c, Sound(c), ~Full(c), NEW data \in Seq(Nat)
  PROVE  LET d == InOrderData(c, data)
             e == Delivered(c, data)
         IN /\ Sound(d) /\ SameDown(c, d)
            /\ SameRecv(e, d) \/ SameRecv(TryConsumeFin(e), d)
<1> DEFINE e == Delivered(c, data)
           f == IF Run(c) > 0 THEN TryConsumeFin(e) ELSE e
           g == [f EXCEPT !.inOrder = 0]
           k == [f EXCEPT !.inOrder = 1, !.ackPending = TRUE, !.ackDelayed = TRUE]
<1>1. InOrderData(c, data) = IF Run(c) > 0 \/ c.inOrder = 1 THEN AckNow(g) ELSE k
  BY Zenon DEF InOrderData, Delivered, Run, Held, Taken, Piece, Left
<1>2. Sound(e) /\ SameDown(c, e)
  BY DeliveredIs
<1> HIDE DEF e
<1>3. /\ Sound(f) /\ SameDown(c, f)
      /\ f = e \/ f = TryConsumeFin(e)
  <2>1. e \in Conns
    BY <1>2 DEF Sound
  <2>2. LET d == TryConsumeFin(e)
        IN /\ d \in Conns /\ SameDown(e, d) /\ d.recvOoo = e.recvOoo
           /\ d.recvDeliver = e.recvDeliver
    BY <2>1, TryConsumeFinIs
  <2>3. Sound(TryConsumeFin(e)) /\ SameDown(c, TryConsumeFin(e))
    BY <1>2, <2>2 DEF Sound, SameDown, SameLife, SameSend
  <2> QED BY <1>2, <2>3
<1> HIDE DEF f
<1>4. f \in Conns
  BY <1>3 DEF Sound
<1>5. g \in Conns /\ SameRecv(f, g) /\ SameDown(f, g)
  <2>1. g \in Conns
    <3>1. 0 \in 0..1
      OBVIOUS
    <3> QED BY ONLY <1>4, <3>1 DEF Conns
  <2>2. SameRecv(f, g)
    BY ONLY <1>4 DEF Conns, SameRecv
  <2>3. SameSend(f, g)
    BY ONLY <1>4 DEF Conns, SameSend
  <2>4. SameLife(f, g) /\ g.out = f.out
    BY ONLY <1>4 DEF Conns, SameLife
  <2> QED BY <2>1, <2>2, <2>3, <2>4 DEF SameDown
<1>6. k \in Conns /\ SameRecv(f, k) /\ SameDown(f, k)
  <2>1. k \in Conns
    <3>1. 1 \in 0..1
      OBVIOUS
    <3> QED BY ONLY <1>4, <3>1 DEF Conns
  <2>2. SameRecv(f, k)
    BY ONLY <1>4 DEF Conns, SameRecv
  <2>3. SameSend(f, k)
    BY ONLY <1>4 DEF Conns, SameSend
  <2>4. SameLife(f, k) /\ k.out = f.out
    BY ONLY <1>4 DEF Conns, SameLife
  <2> QED BY <2>1, <2>2, <2>3, <2>4 DEF SameDown
<1> HIDE DEF g, k
<1>7. AckNow(g) \in Conns /\ SameRecv(f, AckNow(g)) /\ SameDown(f, AckNow(g))
  BY <1>5, AckNowIs DEF SameRecv, SameDown, SameSend, SameLife
<1>8. \E d \in {AckNow(g), k} :
        InOrderData(c, data) = d /\ d \in Conns /\ SameRecv(f, d) /\ SameDown(f, d)
  BY <1>1, <1>6, <1>7
<1>9. PICK d \in {AckNow(g), k} :
        InOrderData(c, data) = d /\ d \in Conns /\ SameRecv(f, d) /\ SameDown(f, d)
  BY <1>8
<1>10. Sound(d)
  BY <1>3, <1>9, StillSound DEF SameDown
<1>11. SameDown(c, d)
  BY <1>3, <1>9 DEF SameDown, SameSend, SameLife
<1> QED BY <1>3, <1>9, <1>10, <1>11 DEF e

\* A segment with data changes the receiver, or is held back, or is dropped.
Holds(c, seq, data, d) ==
  /\ SeqAfter(Plus(c.recvNext, RecvWindow), seq) /\ ~SeqAfter(c.recvNext, seq)
  /\ seq # c.recvNext
  /\ d.recvOoo = c.recvOoo \cup {[seq |-> seq, data |-> data]}
  /\ d.recvNext = c.recvNext /\ d.recvDeliver = c.recvDeliver
  /\ d.peerFin = c.peerFin /\ d.peerFinSeq = c.peerFinSeq /\ d.writeShut = c.writeShut

LEMMA ProcessDataIs ==
  ASSUME NEW c, Sound(c), NEW seq \in Seqs, NEW data \in Seq(Nat)
  PROVE  LET d == ProcessData(c, seq, data)
         IN /\ Sound(d) /\ SameDown(c, d)
            /\ \/ SameRecv(c, d)
               \/ Holds(c, seq, data, d)
               \/ /\ seq = c.recvNext /\ ~Full(c)
                  /\ \/ SameRecv(Delivered(c, data), d)
                     \/ SameRecv(TryConsumeFin(Delivered(c, data)), d)
<1> DEFINE d == ProcessData(c, seq, data)
<1>0. c \in Conns
  BY DEF Sound
<1>1. AckNow(c) \in Conns /\ SameRecv(c, AckNow(c)) /\ SameDown(c, AckNow(c)) /\ Sound(AckNow(c))
  BY <1>0, AckNowIs, StillSound DEF SameDown
<1>2. SameRecv(c, c) /\ SameDown(c, c)
  BY DEF SameRecv, SameDown, SameSend, SameLife
<1>3. CASE SeqAfter(c.recvNext, seq)
  <2>1. d = AckNow(c)
    BY <1>3, Zenon DEF ProcessData
  <2> HIDE DEF d
  <2> QED BY <1>1, <2>1 DEF d
<1>4. CASE ~SeqAfter(c.recvNext, seq) /\ seq = c.recvNext /\ Full(c)
  <2>1. d = c
    BY <1>4, Zenon DEF ProcessData
  <2> HIDE DEF d
  <2> QED BY <1>2, <2>1 DEF d
<1>5. CASE ~SeqAfter(c.recvNext, seq) /\ seq = c.recvNext /\ ~Full(c)
  <2>1. d = InOrderData(c, data)
    BY <1>5, Zenon DEF ProcessData
  <2> HIDE DEF d
  <2> QED BY <1>5, <2>1, InOrderDataIs DEF d
<1>6. CASE /\ ~SeqAfter(c.recvNext, seq) /\ seq # c.recvNext
           /\ ~SeqAfter(Plus(c.recvNext, RecvWindow), seq) \/ Full(c)
  <2>1. d = c
    BY <1>6, Zenon DEF ProcessData
  <2> HIDE DEF d
  <2> QED BY <1>2, <2>1 DEF d
<1>7. CASE /\ ~SeqAfter(c.recvNext, seq) /\ seq # c.recvNext
           /\ ~(~SeqAfter(Plus(c.recvNext, RecvWindow), seq) \/ Full(c))
  <2> DEFINE one == [seq |-> seq, data |-> data]
             ooo == IF \E o \in c.recvOoo : o.seq = seq THEN c.recvOoo ELSE c.recvOoo \cup {one}
             e == [c EXCEPT !.recvOoo = ooo]
  <2>1. d = AckNow(e)
    BY <1>7, Zenon DEF ProcessData
  <2>2. /\ c.recvOoo \in SUBSET [seq : Seqs, data : Seq(Nat)] /\ IsFiniteSet(c.recvOoo)
        /\ Len(c.recvDeliver) \in Nat /\ Cardinality(c.recvOoo) \in Nat
        /\ Len(c.recvDeliver) + Cardinality(c.recvOoo) <= RecvWindow
        /\ RecvWindow \in Nat
    BY SoundParts
  <2>3. one \in [seq : Seqs, data : Seq(Nat)]
    OBVIOUS
  <2> HIDE DEF d, one
  <2>4. /\ IsFiniteSet(ooo) /\ Cardinality(ooo) \in Nat
        /\ Cardinality(ooo) <= Cardinality(c.recvOoo) + 1
    <3>1. /\ IsFiniteSet(c.recvOoo \cup {one})
          /\ Cardinality(c.recvOoo \cup {one}) <= Cardinality(c.recvOoo) + 1
      <4>1. Cardinality(c.recvOoo \cup {one}) \in {Cardinality(c.recvOoo), Cardinality(c.recvOoo) + 1}
        BY <2>2, FS_AddElement
      <4>2. IsFiniteSet(c.recvOoo \cup {one})
        BY <2>2, FS_AddElement
      <4>3. \A m : m \in {Cardinality(c.recvOoo), Cardinality(c.recvOoo) + 1} =>
              m <= Cardinality(c.recvOoo) + 1
        BY ONLY <2>2
      <4> QED BY <4>1, <4>2, <4>3
    <3>2. IsFiniteSet(ooo) /\ Cardinality(ooo) <= Cardinality(c.recvOoo) + 1
      BY <2>2, <3>1
    <3> QED BY <3>2, FS_CardinalityType
  <2>5. ooo \in SUBSET [seq : Seqs, data : Seq(Nat)]
    BY <2>2, <2>3
  <2>6. ooo = c.recvOoo \/ ooo = c.recvOoo \cup {one}
    OBVIOUS
  <2> HIDE DEF ooo
  <2>7. /\ e \in Conns /\ SameDown(c, e) /\ e.recvOoo = ooo
        /\ e.recvNext = c.recvNext /\ e.recvDeliver = c.recvDeliver
        /\ e.peerFin = c.peerFin /\ e.peerFinSeq = c.peerFinSeq /\ e.writeShut = c.writeShut
    BY ONLY <1>0, <2>5 DEF Conns, SameDown, SameSend, SameLife
  <2>8. Len(c.recvDeliver) + Cardinality(ooo) <= RecvWindow
    BY <1>7, <2>2, <2>4 DEF Full
  <2> HIDE DEF e
  <2>9. Sound(e)
    BY <2>4, <2>7, <2>8 DEF Sound, SameDown, SameLife
  <2>10. /\ AckNow(e) \in Conns /\ SameRecv(e, AckNow(e)) /\ SameDown(e, AckNow(e))
         /\ Sound(AckNow(e))
    BY <2>7, <2>9, AckNowIs, StillSound DEF SameDown
  <2>11. SameDown(c, AckNow(e))
    BY <2>7, <2>10 DEF SameDown, SameSend, SameLife
  <2>12. CASE ooo = c.recvOoo
    <3>1. SameRecv(c, AckNow(e))
      BY <2>7, <2>10, <2>12 DEF SameRecv
    <3> QED BY <2>1, <2>10, <2>11, <3>1 DEF d
  <2>13. CASE ooo = c.recvOoo \cup {one}
    <3>1. Holds(c, seq, data, AckNow(e))
      BY <1>7, <2>7, <2>10, <2>13 DEF SameRecv, Holds, one
    <3> QED BY <2>1, <2>10, <2>11, <3>1 DEF d
  <2> QED BY <2>6, <2>12, <2>13
<1> QED BY <1>3, <1>4, <1>5, <1>6, <1>7

\* The receiver's answer to a segment with data, or to one without.
Takes(a, seq, data, b) ==
  /\ Sound(b) /\ SameDown(a, b)
  /\ \/ SameRecv(a, b)
     \/ data # <<>> /\ Holds(a, seq, data, b)
     \/ /\ data # <<>> /\ seq = a.recvNext /\ ~Full(a)
        /\ \/ SameRecv(Delivered(a, data), b)
           \/ SameRecv(TryConsumeFin(Delivered(a, data)), b)

\* A datagram takes away from what is unacknowledged, then it brings data, then
\* the FIN.
Heard(p, c, d, e) ==
  \E a, b : /\ Sound(a) /\ Drops(p, c, a) /\ Takes(a, d.seq, d.data, b)
            /\ a.sendBase = c.sendBase \/ ("ACK" \in d.flags /\ a.sendBase = d.ack)
            /\ \/ "FIN" \notin d.flags /\ e = b
               \/ /\ "FIN" \in d.flags
                  /\ e = TryConsumeFin([b EXCEPT !.peerFinSeq = {d.seq}])

LEMMA OnSegmentIs ==
  ASSUME NEW p \in Ends, NEW c, Sound(c), NEW d \in Outgoing
  PROVE  LET e == OnSegment(p, c, d)
         IN /\ Sound(e)
            /\ \/ Echo(p, c, e)
               \/ Heard(p, c, d, e)
<1>0. c \in Conns /\ Echo(p, c, c)
  BY EchoSame DEF Sound
<1>1. /\ d.seq \in Seqs /\ d.ack \in Seqs /\ d.window \in 0..RecvWindow
      /\ d.flags \in SUBSET Flags /\ d.data \in Seq(Nat)
  BY DEF Outgoing
<1>2. CASE "SYN" \in d.flags /\ "ACK" \notin d.flags
  <2> DEFINE o == Segment(p, Plus(FirstSeq, SeqSpace - 1), FirstSeq, {"SYN", "ACK"},
                          Window(c), <<>>)
  <2>1. OnSegment(p, c, d) = Emit(c, o)
    BY <1>2, Zenon DEF OnSegment
  <2>2. /\ o \in Outgoing /\ o.to = Peer(p) /\ o.flags = {"SYN", "ACK"} /\ o.data = <<>>
        /\ o.ack = FirstSeq
    <3>1. FirstSeq \in Seqs /\ FirstSeq \in Int /\ SeqSpace - 1 \in Int
      BY Space DEF Seqs
    <3>2. /\ Plus(FirstSeq, SeqSpace - 1) \in Seqs /\ {"SYN", "ACK"} \in SUBSET Flags
          /\ <<>> \in Seq(Nat)
      BY <3>1, PlusIs DEF Flags
    <3> QED BY <3>1, <3>2, WindowIs, PeerIs DEF Segment, Outgoing
  <2>3. Says(p, c, o)
    BY <2>2 DEF Says, Acknowledges
  <2> HIDE DEF o
  <2>4. Echo(p, c, Emit(c, o)) /\ SameLife(c, Emit(c, o))
    BY <1>0, <2>2, <2>3, EchoEmit
  <2>5. Sound(Emit(c, o))
    BY <2>4, StillSound DEF Echo
  <2> QED BY <2>1, <2>4, <2>5
<1>3. CASE ~("SYN" \in d.flags /\ "ACK" \notin d.flags)
  <2> DEFINE w == [c EXCEPT !.peerWindow = d.window]
             a == IF "ACK" \in d.flags THEN ProcessAck(p, c, d.ack, d.window) ELSE w
             b == IF d.data # <<>> THEN ProcessData(a, d.seq, d.data)
                  ELSE IF d.flags = {} THEN AckNow(a) ELSE a
             e == [b EXCEPT !.peerFinSeq = {d.seq}]
  <2>1. OnSegment(p, c, d) = IF "FIN" \in d.flags THEN TryConsumeFin(e) ELSE b
    BY <1>3, Zenon DEF OnSegment
  <2>2. /\ Sound(a) /\ Drops(p, c, a)
        /\ a.sendBase = c.sendBase \/ ("ACK" \in d.flags /\ a.sendBase = d.ack)
    <3>1. CASE "ACK" \in d.flags
      BY <1>1, <3>1, ProcessAckIs
    <3>2. CASE "ACK" \notin d.flags
      <4>1. Echo(p, c, w) /\ SameLife(c, w)
        BY ONLY <1>0, <1>1 DEF Conns, Echo, SameRecv, SameSend, SameLife
      <4> HIDE DEF w
      <4>2. Sound(w) /\ Drops(p, c, w) /\ w.sendBase = c.sendBase
        BY <1>0, <4>1, StillSound, EchoDrops DEF Echo, SameSend
      <4> QED BY <3>2, <4>2
    <3> QED BY <3>1, <3>2
  <2> HIDE DEF a
  <2>3. Takes(a, d.seq, d.data, b)
    <3>1. CASE d.data # <<>>
      BY <1>1, <2>2, <3>1, ProcessDataIs DEF Takes
    <3>2. CASE d.data = <<>>
      <4>1. SameRecv(a, a) /\ SameDown(a, a)
        BY DEF SameRecv, SameDown, SameSend, SameLife
      <4>2. SameRecv(a, AckNow(a)) /\ SameDown(a, AckNow(a)) /\ Sound(AckNow(a))
        BY <2>2, AckNowIs, StillSound DEF SameDown, Sound
      <4> QED BY <2>2, <3>2, <4>1, <4>2 DEF Takes
    <3> QED BY <3>1, <3>2
  <2> HIDE DEF b
  <2>4. Sound(b)
    BY <2>3 DEF Takes
  <2>5. Sound(TryConsumeFin(e))
    <3>1. e \in Conns /\ e.recvOoo = b.recvOoo /\ e.recvDeliver = b.recvDeliver /\ SameLife(b, e)
      <4>1. b \in Conns /\ {d.seq} \in SUBSET Seqs
        BY <1>1, <2>4 DEF Sound
      <4> QED BY ONLY <4>1 DEF Conns, SameLife
    <3> HIDE DEF e
    <3>2. LET f == TryConsumeFin(e)
          IN f \in Conns /\ SameDown(e, f) /\ f.recvOoo = e.recvOoo /\ f.recvDeliver = e.recvDeliver
      BY <3>1, TryConsumeFinIs
    <3> QED BY <2>4, <3>1, <3>2 DEF Sound, SameDown, SameLife
  <2> HIDE DEF e
  <2>6. CASE "FIN" \in d.flags
    <3>1. OnSegment(p, c, d) = TryConsumeFin(e)
      BY <2>1, <2>6
    <3> QED BY <2>2, <2>3, <2>5, <2>6, <3>1 DEF e, Heard
  <2>7. CASE "FIN" \notin d.flags
    <3>1. OnSegment(p, c, d) = b
      BY <2>1, <2>7
    <3> QED BY <2>2, <2>3, <2>4, <2>7, <3>1 DEF Heard
  <2> QED BY <2>6, <2>7
<1> QED BY <1>2, <1>3

-----------------------------------------------------------------------------
(* Rounds.                                                                 *)

\* What a round makes of the connection that its event has left behind.
Pumps(p, c, d) == d = c \/ (~c.finSent /\ \E n \in 1..Len(c.sendBuf) : d = Pumped(p, c, n))

LEMMA PumpIsSound ==
  ASSUME NEW p \in Ends, NEW c, Sound(c), NEW d, Pumps(p, c, d)
  PROVE  Sound(d)
BY PumpedIs, StillSound DEF Pumps

LEMMA MaybeSendFinIsSound ==
  ASSUME NEW p \in Ends, NEW c, Sound(c)
  PROVE  Sound(MaybeSendFin(p, c))
BY MaybeSendFinIs, StillSound

LEMMA AckIfDueIsSound ==
  ASSUME NEW p \in Ends, NEW c, Sound(c)
  PROVE  Sound(AckIfDue(p, c))
BY AckIfDueIs, StillSound DEF Echo

\* What the round leaves in the connection's fields.
Shut(s) == [ShutWrite(s) EXCEPT !.out = {}]

LEMMA ShutIs ==
  ASSUME NEW s, Sound(s)
  PROVE  /\ Sound(Shut(s)) /\ SameSend(s, Shut(s)) /\ SameLife(s, Shut(s))
         /\ Shut(s).recvNext = s.recvNext /\ Shut(s).recvOoo = s.recvOoo
         /\ Shut(s).recvDeliver = s.recvDeliver /\ Shut(s).peerFin = s.peerFin
         /\ Shut(s).peerFinSeq = s.peerFinSeq
         /\ Shut(s).writeShut = (s.writeShut \/ (s.peerFin /\ s.recvDeliver = <<>>))
         /\ Shut(s).out = {}
<1> DEFINE w == s.writeShut \/ (s.peerFin /\ s.recvDeliver = <<>>)
           d == [s EXCEPT !.writeShut = w, !.out = {}]
<1>1. s \in Conns
  BY DEF Sound
<1>2. w \in BOOLEAN
  OBVIOUS
<1>3. Shut(s) = d
  BY DEF Shut, ShutWrite
<1> HIDE DEF w
<1>4. /\ d \in Conns /\ SameSend(s, d) /\ SameLife(s, d)
      /\ d.recvNext = s.recvNext /\ d.recvOoo = s.recvOoo
      /\ d.recvDeliver = s.recvDeliver /\ d.peerFin = s.peerFin
      /\ d.peerFinSeq = s.peerFinSeq /\ d.writeShut = w /\ d.out = {}
  BY ONLY <1>1, <1>2 DEF Conns, SameSend, SameLife
<1> HIDE DEF d
<1>5. Sound(d)
  BY <1>4 DEF Sound, SameLife
<1> QED BY <1>3, <1>4, <1>5 DEF w

\* A round ends the task, or goes through pump, FIN and acknowledgement.
LEMMA RoundIs ==
  ASSUME NEW p \in Ends, NEW c, Sound(c), NEW rest, Round(p, c, rest)
  PROVE  \/ /\ st' = [st EXCEPT ![p] = "ended"]
            /\ conn' = [conn EXCEPT ![p] = [c EXCEPT !.out = {}]]
            /\ net' \subseteq rest
            /\ \E d \in {[c EXCEPT !.out = {}]} :
                 Sound(d) /\ SameRecv(c, d) /\ SameSend(c, d) /\ SameLife(c, d) /\ d.out = {}
         \/ /\ ~c.fatal /\ st' = st
            /\ \E d : /\ Pumps(p, c, d) /\ Sound(d)
                      /\ LET s == AckIfDue(p, MaybeSendFin(p, d))
                         IN /\ Sound(s) /\ conn' = [conn EXCEPT ![p] = Shut(s)]
                            /\ net' \subseteq rest \cup s.out
<1>1. CASE Finished(c)
  <2> DEFINE d == [c EXCEPT !.out = {}]
  <2>1. /\ st' = [st EXCEPT ![p] = "ended"] /\ conn' = [conn EXCEPT ![p] = d]
        /\ net' \subseteq rest
    BY <1>1 DEF Round, Carry
  <2>2. c \in Conns
    BY DEF Sound
  <2>3. d \in Conns /\ SameRecv(c, d) /\ SameSend(c, d) /\ SameLife(c, d) /\ d.out = {}
    BY ONLY <2>2 DEF Conns, SameRecv, SameSend, SameLife
  <2> HIDE DEF d
  <2>4. Sound(d)
    BY <2>3, StillSound
  <2> QED BY <2>1, <2>3, <2>4 DEF d
<1>2. CASE ~Finished(c)
  <2>1. st' = st /\ ~c.fatal
    BY <1>2 DEF Round, Finished
  <2>2. \E cwnd \in MinCwnd .. RecvWindow * MaxPayload :
          LET s == AckIfDue(p, MaybeSendFin(p, Pump(p, c, cwnd)))
          IN conn' = [conn EXCEPT ![p] = Shut(s)] /\ net' = Carry(rest \cup s.out, st)
    BY <1>2, Zenon DEF Round, Shut
  <2>3. PICK cwnd \in MinCwnd .. RecvWindow * MaxPayload :
          LET s == AckIfDue(p, MaybeSendFin(p, Pump(p, c, cwnd)))
          IN conn' = [conn EXCEPT ![p] = Shut(s)] /\ net' = Carry(rest \cup s.out, st)
    BY <2>2, Zenon
  <2> DEFINE d == Pump(p, c, cwnd)
             s == AckIfDue(p, MaybeSendFin(p, d))
  <2>4. c \in Conns
    BY DEF Sound
  <2>5. Pumps(p, c, d)
    BY <2>4, PumpIs DEF Pumps
  <2>6. conn' = [conn EXCEPT ![p] = Shut(s)] /\ net' = Carry(rest \cup s.out, st)
    BY <2>3
  <2> HIDE DEF d
  <2>7. Sound(d)
    BY <2>5, PumpIsSound
  <2>8. Sound(s)
    BY <2>7, MaybeSendFinIsSound, AckIfDueIsSound
  <2>9. net' \subseteq rest \cup s.out
    BY <2>6 DEF Carry
  <2> QED BY <2>1, <2>5, <2>6, <2>7, <2>8, <2>9
<1> QED BY <1>1, <1>2

-----------------------------------------------------------------------------
(* Types, and the bound of the receive buffers.                            *)

\* A task that runs has not given up.
Alive == \A p \in Ends : Sound(conn[p]) /\ (st[p] # "ended" => ~conn[p].fatal)

TypeInv == TypeOK /\ Alive

LEMMA RoundIsTyped ==
  ASSUME NEW p \in Ends, NEW c, Sound(c), NEW rest \in SUBSET Outgoing, Round(p, c, rest),
         TypeInv
  PROVE  /\ st' \in [Ends -> {"shaking", "run", "ended"}]
         /\ conn' \in [Ends -> Conns]
         /\ net' \subseteq Outgoing
         /\ Alive'
<1>1. st \in [Ends -> {"shaking", "run", "ended"}] /\ conn \in [Ends -> Conns] /\ Alive
  BY DEF TypeInv, TypeOK
<1>2. CASE /\ st' = [st EXCEPT ![p] = "ended"]
           /\ conn' = [conn EXCEPT ![p] = [c EXCEPT !.out = {}]]
           /\ net' \subseteq rest
           /\ \E d \in {[c EXCEPT !.out = {}]} :
                Sound(d) /\ SameRecv(c, d) /\ SameSend(c, d) /\ SameLife(c, d) /\ d.out = {}
  <2> DEFINE d == [c EXCEPT !.out = {}]
  <2>1. Sound(d) /\ conn' = [conn EXCEPT ![p] = d]
    BY <1>2
  <2> HIDE DEF d
  <2>2. d \in Conns
    BY <2>1 DEF Sound
  <2>3. conn' \in [Ends -> Conns] /\ st' \in [Ends -> {"shaking", "run", "ended"}]
    BY <1>1, <1>2, <2>1, <2>2
  <2>4. Alive'
    BY <1>1, <1>2, <2>1 DEF Alive
  <2> QED BY <1>2, <2>3, <2>4
<1>3. CASE /\ ~c.fatal /\ st' = st
           /\ \E d : /\ Pumps(p, c, d) /\ Sound(d)
                     /\ LET s == AckIfDue(p, MaybeSendFin(p, d))
                        IN /\ Sound(s) /\ conn' = [conn EXCEPT ![p] = Shut(s)]
                           /\ net' \subseteq rest \cup s.out
  <2>1. PICK d : /\ Pumps(p, c, d) /\ Sound(d)
                 /\ LET s == AckIfDue(p, MaybeSendFin(p, d))
                    IN /\ Sound(s) /\ conn' = [conn EXCEPT ![p] = Shut(s)]
                       /\ net' \subseteq rest \cup s.out
    BY <1>3, Zenon
  <2> DEFINE m == MaybeSendFin(p, d)
             s == AckIfDue(p, m)
  <2>2. Sound(s) /\ conn' = [conn EXCEPT ![p] = Shut(s)] /\ net' \subseteq rest \cup s.out
    BY <2>1
  <2>3. SameLife(c, d)
    BY <2>1, PumpedIs DEF Pumps, SameLife
  <2>4. Sound(m) /\ SameLife(d, m)
    BY <2>1, MaybeSendFinIsSound, MaybeSendFinIs DEF SameLife
  <2>5. SameLife(m, s)
    BY <2>4, AckIfDueIs
  <2> HIDE DEF m, s
  <2>6. Sound(Shut(s)) /\ SameLife(s, Shut(s))
    BY <2>2, ShutIs
  <2>7. ~Shut(s).fatal
    BY <1>3, <2>3, <2>4, <2>5, <2>6 DEF SameLife
  <2>8. Shut(s) \in Conns /\ s.out \subseteq Outgoing
    BY <2>2, <2>6 DEF Sound, Conns
  <2>9. conn' \in [Ends -> Conns] /\ net' \subseteq Outgoing
    BY <1>1, <2>2, <2>8
  <2>10. Alive'
    BY <1>1, <1>3, <2>2, <2>6, <2>7 DEF Alive
  <2> QED BY <1>1, <1>3, <2>9, <2>10
<1> QED BY <1>2, <1>3, RoundIs

LEMMA NewConnIs ==
  /\ NewConn \in Conns /\ Sound(NewConn)
<1>1. /\ FirstSeq \in Seqs /\ 0 \in 0 .. DupAcks + 1 /\ 0 \in 0..1
      /\ 0 \in 0 .. MaxRetransmits + 1 /\ RecvWindow \in 0..RecvWindow
      /\ <<>> \in Seq(Kept) /\ <<>> \in Seq(Nat) /\ <<>> \in Seq(Seq(Nat))
  BY Space, Limits
<1>2. NewConn \in Conns
  BY ONLY <1>1 DEF NewConn, Conns
<1>3. /\ NewConn.recvOoo = {} /\ NewConn.recvDeliver = <<>> /\ NewConn.timeouts = 0
  BY DEF NewConn
<1>4. IsFiniteSet({}) /\ Cardinality({}) = 0
  BY FS_EmptySet
<1>5. Len(NewConn.recvDeliver) = 0
  BY <1>3
<1> QED BY <1>2, <1>3, <1>4, <1>5, Space, Limits DEF Sound

LEMMA HandshakeIs ==
  Syn \in Outgoing /\ SynAck \in Outgoing
<1>1. FirstSeq \in Int /\ SeqSpace - 1 \in Int /\ FirstSeq \in Seqs /\ RecvWindow \in 0..RecvWindow
  BY Space DEF Seqs
<1>2. Before \in Seqs
  BY <1>1, PlusIs DEF Before
<1>3. /\ {"SYN"} \in SUBSET Flags /\ {"SYN", "ACK"} \in SUBSET Flags /\ <<>> \in Seq(Nat)
      /\ Peer("connect") \in Ends /\ Peer("accept") \in Ends
  BY PeerIs DEF Flags, Ends
<1> QED BY ONLY <1>1, <1>2, <1>3 DEF Syn, SynAck, Segment, Outgoing

LEMMA TypeInit == Init => TypeInv
<1> SUFFICES ASSUME Init PROVE TypeInv
  OBVIOUS
<1>1. Sound(NewConn) /\ NewConn \in Conns /\ ~NewConn.fatal
  BY NewConnIs DEF NewConn
<1>2. conn = [p \in Ends |-> NewConn]
  BY DEF Init
<1> HIDE DEF NewConn
<1>3. conn \in [Ends -> Conns] /\ \A p \in Ends : conn[p] = NewConn
  BY <1>1, <1>2
<1>4. Alive
  BY <1>1, <1>3 DEF Alive
<1>5. \A p \in Ends : IsFiniteSet(conn[p].recvOoo)
  BY <1>1, <1>3 DEF Sound
<1>6. net \subseteq Outgoing
  BY HandshakeIs DEF Init
<1>7. /\ st \in [Ends -> {"shaking", "run", "ended"}] /\ wrote \in [Ends -> Nat]
      /\ read \in [Ends -> Seq(Nat)] /\ eof \in [Ends -> {"no", "clean", "cut"}]
      /\ faults \in 0..MaxFaults
  BY Limits DEF Init
<1> QED BY <1>3, <1>4, <1>5, <1>6, <1>7 DEF TypeInv, TypeOK

\* What the application's arms of the loop make of the connection.
Written(c, w, n) == [c EXCEPT !.sendBuf = @ \o [i \in 1..n |-> w + i]]
Closed(c) == [c EXCEPT !.appEof = TRUE]
Consumed(c, n) ==
  [c EXCEPT !.recvDeliver =
     IF n = Len(Head(c.recvDeliver)) THEN Tail(@)
     ELSE <<SubSeq(Head(c.recvDeliver), n + 1, Len(Head(c.recvDeliver)))>> \o Tail(@)]

LEMMA WrittenIs ==
  ASSUME NEW c, Sound(c), NEW w \in Nat, NEW n \in Nat
  PROVE  LET d == Written(c, w, n)
         IN /\ Sound(d) /\ SameRecv(c, d) /\ SameLife(c, d) /\ d.out = c.out
            /\ d.sendNext = c.sendNext /\ d.unacked = c.unacked
            /\ d.finSent = c.finSent /\ d.appEof = c.appEof /\ d.sendBase = c.sendBase
            /\ d.sendBuf \in Seq(Nat) /\ Len(d.sendBuf) = Len(c.sendBuf) + n
            /\ d.sendBuf = c.sendBuf \o [i \in 1..n |-> w + i]
<1> DEFINE more == [i \in 1..n |-> w + i]
           buf == c.sendBuf \o more
           d == [c EXCEPT !.sendBuf = buf]
<1>1. c \in Conns /\ c.sendBuf \in Seq(Nat)
  BY DEF Sound, Conns
<1>2. more \in Seq(Nat) /\ Len(more) = n
  <2>1. more \in [1..n -> Nat]
    OBVIOUS
  <2> QED BY <2>1, SequenceIs
<1>3. Written(c, w, n) = d
  BY DEF Written
<1> HIDE DEF more
<1>4. buf \in Seq(Nat) /\ Len(buf) = Len(c.sendBuf) + n
  BY <1>1, <1>2, ConcatIs
<1> HIDE DEF buf
<1>5. /\ d \in Conns /\ SameRecv(c, d) /\ SameLife(c, d) /\ d.out = c.out
      /\ d.sendNext = c.sendNext /\ d.unacked = c.unacked /\ d.sendBase = c.sendBase
      /\ d.finSent = c.finSent /\ d.appEof = c.appEof /\ d.sendBuf = buf
  BY ONLY <1>1, <1>4 DEF Conns, SameRecv, SameLife
<1> HIDE DEF d
<1>6. Sound(d)
  BY <1>5, StillSound
<1> QED BY <1>3, <1>4, <1>5, <1>6 DEF buf, more

LEMMA ClosedIs ==
  ASSUME NEW c, Sound(c)
  PROVE  LET d == Closed(c)
         IN /\ Sound(d) /\ SameRecv(c, d) /\ SameLife(c, d) /\ d.out = c.out
            /\ d.sendNext = c.sendNext /\ d.unacked = c.unacked /\ d.sendBuf = c.sendBuf
            /\ d.finSent = c.finSent /\ d.appEof /\ d.sendBase = c.sendBase
<1> DEFINE d == Closed(c)
<1>1. c \in Conns
  BY DEF Sound
<1>2. /\ d \in Conns /\ SameRecv(c, d) /\ SameLife(c, d) /\ d.out = c.out
      /\ d.sendNext = c.sendNext /\ d.unacked = c.unacked /\ d.sendBuf = c.sendBuf
      /\ d.finSent = c.finSent /\ d.appEof /\ d.sendBase = c.sendBase
  BY ONLY <1>1 DEF Closed, Conns, SameRecv, SameLife
<1> HIDE DEF d
<1>3. Sound(d)
  BY <1>2, StillSound
<1> QED BY <1>2, <1>3 DEF d

LEMMA ConsumedIs ==
  ASSUME NEW c, Sound(c), c.recvDeliver # <<>>, NEW n \in 1..Len(Head(c.recvDeliver))
  PROVE  LET d == Consumed(c, n)
             front == Head(c.recvDeliver)
         IN /\ Sound(d) /\ SameDown(c, d)
            /\ SubSeq(front, 1, n) \in Seq(Nat)
            /\ d.recvNext = c.recvNext /\ d.recvOoo = c.recvOoo /\ d.peerFin = c.peerFin
            /\ d.peerFinSeq = c.peerFinSeq /\ d.writeShut = c.writeShut
            /\ \/ n = Len(front) /\ d.recvDeliver = Tail(c.recvDeliver)
               \/ /\ n < Len(front)
                  /\ d.recvDeliver = <<SubSeq(front, n + 1, Len(front))>> \o Tail(c.recvDeliver)
<1> DEFINE front == Head(c.recvDeliver)
           rest == SubSeq(front, n + 1, Len(front))
           del == IF n = Len(front) THEN Tail(c.recvDeliver) ELSE <<rest>> \o Tail(c.recvDeliver)
           d == [c EXCEPT !.recvDeliver = del]
<1>1. /\ c \in Conns /\ c.recvDeliver \in Seq(Seq(Nat)) /\ Len(c.recvDeliver) \in Nat
      /\ Cardinality(c.recvOoo) \in Nat /\ RecvWindow \in Nat
      /\ Len(c.recvDeliver) + Cardinality(c.recvOoo) <= RecvWindow
  BY SoundParts
<1>2. front \in Seq(Nat) /\ Tail(c.recvDeliver) \in Seq(Seq(Nat))
      /\ Len(Tail(c.recvDeliver)) = Len(c.recvDeliver) - 1
  BY <1>1
<1>3. Consumed(c, n) = d
  BY DEF Consumed
<1> HIDE DEF front
<1>4. Len(front) \in Nat /\ n \in 1..Len(front) /\ n \in Nat
  BY <1>2 DEF front
<1>5. rest \in Seq(Nat) /\ SubSeq(front, 1, n) \in Seq(Nat)
  BY <1>2, <1>4
<1> HIDE DEF rest
<1>6. del \in Seq(Seq(Nat)) /\ Len(del) <= Len(c.recvDeliver)
  <2>1. <<rest>> \in Seq(Seq(Nat)) /\ Len(<<rest>>) = 1
    BY <1>5
  <2> DEFINE one == <<rest>>
             t == Tail(c.recvDeliver)
  <2>2. one \in Seq(Seq(Nat)) /\ t \in Seq(Seq(Nat)) /\ Len(one) = 1
    BY <1>2, <2>1
  <2> HIDE DEF one, t
  <2>3. one \o t \in Seq(Seq(Nat)) /\ Len(one \o t) = Len(one) + Len(t)
    BY <2>2, ConcatIs
  <2> QED BY <1>1, <1>2, <2>2, <2>3 DEF one, t
<1>7. \/ n = Len(front) /\ del = Tail(c.recvDeliver)
      \/ n < Len(front) /\ del = <<rest>> \o Tail(c.recvDeliver)
  BY <1>4
<1> HIDE DEF del
<1>8. /\ d \in Conns /\ SameDown(c, d) /\ d.recvDeliver = del
      /\ d.recvNext = c.recvNext /\ d.recvOoo = c.recvOoo /\ d.peerFin = c.peerFin
      /\ d.peerFinSeq = c.peerFinSeq /\ d.writeShut = c.writeShut
  BY ONLY <1>1, <1>6 DEF Conns, SameDown, SameSend, SameLife
<1> HIDE DEF d
<1>9. Sound(d)
  <2>1. Len(del) + Cardinality(c.recvOoo) <= RecvWindow
    <3>1. Len(del) \in Nat
      BY <1>6
    <3> QED BY <1>1, <1>6, <3>1
  <2> QED BY <1>8, <2>1 DEF Sound, SameDown, SameLife
<1> QED BY <1>3, <1>5, <1>7, <1>8, <1>9 DEF front, rest

\* A timeout that expired, or whose cause has gone.
LEMMA ExpiresIs ==
  ASSUME TypeInv, NEW due, Expires(due) \/ Fault \/ UNCHANGED faults
  PROVE  faults' \in 0..MaxFaults
<1>1. faults \in 0..MaxFaults
  BY DEF TypeInv, TypeOK
<1>2. Fault => faults' \in 0..MaxFaults
  BY <1>1, Limits DEF Fault
<1>3. Fault \/ UNCHANGED faults
  BY DEF Expires
<1> QED BY <1>1, <1>2, <1>3

LEMMA OnTimeoutIs ==
  ASSUME TypeInv, NEW p \in Ends, OnTimeout(p)
  PROVE  /\ \E c : Echo(p, conn[p], c) /\ Sound(c) /\ Round(p, c, net)
         /\ UNCHANGED appVars /\ faults' \in 0..MaxFaults /\ st[p] = "run"
<1> DEFINE o == conn[p]
<1>0. Sound(o) /\ st[p] = "run" /\ ~o.fatal /\ o \in Conns
  BY DEF TypeInv, TypeOK, Alive, OnTimeout
<1>1. PICK due \in SUBSET Armed(o) \ {{}} :
       /\ IF due = {"ack"} THEN UNCHANGED faults
          ELSE Expires({<<p, k>> : k \in due})
       /\ \E a \in {IF "ack" \in due THEN FlushAck(p, o) ELSE o} :
          \E r \in {IF "rto" \in due THEN RetransmitOldest(p, a) ELSE a} :
          \E c \in {IF "persist" \in due THEN PersistProbe(p, r) ELSE r} :
            Round(p, c, net)
  BY Zenon DEF OnTimeout
<1>2. UNCHANGED appVars
  BY DEF OnTimeout
<1>3. faults' \in 0..MaxFaults
  BY <1>1, ExpiresIs
<1> DEFINE a == IF "ack" \in due THEN FlushAck(p, o) ELSE o
           r == IF "rto" \in due THEN RetransmitOldest(p, a) ELSE a
           c == IF "persist" \in due THEN PersistProbe(p, r) ELSE r
<1>4. Round(p, c, net)
  BY <1>1
<1>5. "rto" \in due => o.unacked # <<>>
  BY DEF Armed
<1> HIDE DEF o
<1>6. Echo(p, o, a) /\ SameLife(o, a)
  BY <1>0, FlushAckIs, EchoSame DEF SameLife
<1>7. Sound(a) /\ ~a.fatal /\ ("rto" \in due => a.unacked # <<>>)
  BY <1>0, <1>5, <1>6, StillSound DEF Echo, SameLife, SameSend
<1> HIDE DEF a
<1>8. Echo(p, a, r) /\ Sound(r)
  BY <1>7, RetransmitOldestIs, EchoSame DEF Sound
<1> HIDE DEF r
<1>9. Echo(p, r, c) /\ Sound(c)
  <2>1. Echo(p, r, r)
    BY <1>8, EchoSame DEF Sound
  <2>2. Echo(p, r, PersistProbe(p, r)) /\ SameLife(r, PersistProbe(p, r))
    BY <1>8, PersistProbeIs
  <2>3. Sound(PersistProbe(p, r))
    BY <1>8, <2>2, StillSound DEF Echo
  <2> QED BY <1>8, <2>1, <2>2, <2>3
<1> HIDE DEF c
<1>10. Echo(p, o, c)
  BY <1>6, <1>8, <1>9, EchoEcho
<1> QED BY <1>0, <1>2, <1>3, <1>4, <1>9, <1>10 DEF o

LEMMA AppReadIs ==
  ASSUME TypeInv, NEW p \in Ends, AppRead(p)
  PROVE  /\ st[p] = "run" /\ conn[p].recvDeliver # <<>> /\ UNCHANGED <<wrote, eof, faults>>
         /\ \E n \in 1..Len(Head(conn[p].recvDeliver)) :
              /\ read' = [read EXCEPT ![p] = @ \o SubSeq(Head(conn[p].recvDeliver), 1, n)]
              /\ \E d : /\ Sound(d) /\ SameDown(Consumed(conn[p], n), d)
                        /\ SameRecv(Consumed(conn[p], n), d) /\ Round(p, d, net)
<1> DEFINE c == conn[p]
<1>1. /\ st[p] = "run" /\ c.recvDeliver # <<>> /\ UNCHANGED <<wrote, eof, faults>>
  BY DEF AppRead
<1>2. PICK n \in 1..Len(Head(c.recvDeliver)) :
        /\ read' = [read EXCEPT ![p] = @ \o SubSeq(Head(c.recvDeliver), 1, n)]
        /\ \E d \in {Consumed(c, n), AckNow(Consumed(c, n))} : Round(p, d, net)
  <2>1. \E n \in 1..Len(Head(c.recvDeliver)) : \E r \in {Consumed(c, n)} :
          /\ read' = [read EXCEPT ![p] = @ \o SubSeq(Head(c.recvDeliver), 1, n)]
          /\ Round(p, IF Window(c) = 0 /\ Window(r) > 0 THEN AckNow(r) ELSE r, net)
    BY Zenon DEF AppRead, Consumed
  <2>2. PICK n \in 1..Len(Head(c.recvDeliver)) : \E r \in {Consumed(c, n)} :
          /\ read' = [read EXCEPT ![p] = @ \o SubSeq(Head(c.recvDeliver), 1, n)]
          /\ Round(p, IF Window(c) = 0 /\ Window(r) > 0 THEN AckNow(r) ELSE r, net)
    BY <2>1, Zenon
  <2> DEFINE r == Consumed(c, n)
             d == IF Window(c) = 0 /\ Window(r) > 0 THEN AckNow(r) ELSE r
  <2>3. read' = [read EXCEPT ![p] = @ \o SubSeq(Head(c.recvDeliver), 1, n)] /\ Round(p, d, net)
    BY <2>2
  <2> HIDE DEF r
  <2>4. d \in {r, AckNow(r)}
    OBVIOUS
  <2> HIDE DEF d
  <2> QED BY <2>3, <2>4 DEF r
<1> DEFINE r == Consumed(c, n)
<1>3. PICK d \in {r, AckNow(r)} : Round(p, d, net)
  BY <1>2
<1>4. Sound(c)
  BY DEF TypeInv, Alive
<1> HIDE DEF c
<1>5. Sound(r)
  BY <1>1, <1>4, ConsumedIs
<1> HIDE DEF r
<1>6. Sound(r) /\ SameDown(r, r) /\ SameRecv(r, r)
  BY <1>5 DEF SameDown, SameRecv, SameSend, SameLife
<1>7. Sound(AckNow(r)) /\ SameDown(r, AckNow(r)) /\ SameRecv(r, AckNow(r))
  <2>1. r \in Conns
    BY <1>5 DEF Sound
  <2> QED BY <1>5, <2>1, AckNowIs, StillSound DEF SameDown, Sound
<1>8. Sound(d) /\ SameDown(r, d) /\ SameRecv(r, d)
  BY <1>6, <1>7
<1> QED BY <1>1, <1>2, <1>3, <1>8 DEF r, c

LEMMA CarryIs ==
  ASSUME NEW S, NEW states
  PROVE  Carry(S, states) \subseteq S
BY DEF Carry

\* Every step keeps the types, the bound and the limit of retransmissions.
LEMMA TypeNext == TypeInv /\ [Next]_vars => TypeInv'
<1> SUFFICES ASSUME TypeInv, [Next]_vars PROVE TypeInv'
  OBVIOUS
<1>0. /\ st \in [Ends -> {"shaking", "run", "ended"}] /\ conn \in [Ends -> Conns]
      /\ net \in SUBSET Outgoing /\ wrote \in [Ends -> Nat] /\ read \in [Ends -> Seq(Nat)]
      /\ eof \in [Ends -> {"no", "clean", "cut"}] /\ faults \in 0..MaxFaults
      /\ Alive
  BY DEF TypeInv, TypeOK
<1>f. ASSUME Alive', conn' \in [Ends -> Conns] PROVE \A p \in Ends : IsFiniteSet(conn'[p].recvOoo)
  BY <1>f DEF Alive, Sound
<1>s. ASSUME UNCHANGED conn, \A p \in Ends : st'[p] # "ended" => st[p] # "ended" PROVE Alive'
  BY <1>0, <1>s DEF Alive
<1>r. ASSUME NEW p \in Ends, NEW c, Sound(c), NEW rest \in SUBSET Outgoing, Round(p, c, rest)
      PROVE  /\ st' \in [Ends -> {"shaking", "run", "ended"}] /\ conn' \in [Ends -> Conns]
             /\ net' \subseteq Outgoing /\ Alive'
  BY <1>r, RoundIsTyped
<1>1. CASE Probe
  <2>1. net' \subseteq Outgoing
    BY <1>0, <1>1, HandshakeIs, CarryIs DEF Probe
  <2>2. faults' \in 0..MaxFaults
    BY <1>1, ExpiresIs DEF Probe
  <2>3. Alive'
    BY <1>1, <1>s DEF Probe
  <2> QED BY <1>0, <1>1, <1>f, <2>1, <2>2, <2>3 DEF Probe, TypeInv, TypeOK, appVars
<1>2. ASSUME NEW d \in net, Shake(d.to, d) PROVE TypeInv'
  <2> DEFINE p == d.to
  <2>1. p \in Ends /\ d \in Outgoing /\ st[p] = "shaking"
    BY <1>0, <1>2 DEF Outgoing, Shake
  <2>2. st' \in [Ends -> {"shaking", "run", "ended"}]
    BY <1>0, <1>2, <2>1 DEF Shake
  <2>3. net' \subseteq Outgoing
    BY <1>0, <1>2, HandshakeIs, CarryIs DEF Shake
  <2>4. Alive'
    BY <1>0, <1>2, <1>s, <2>1 DEF Shake
  <2> QED BY <1>0, <1>2, <1>f, <2>2, <2>3, <2>4 DEF Shake, TypeInv, TypeOK, appVars
<1>3. ASSUME NEW d \in net, Receive(d.to, d) PROVE TypeInv'
  <2> DEFINE p == d.to
             c == OnSegment(p, conn[p], d)
  <2>1. p \in Ends /\ d \in Outgoing
    BY <1>0 DEF Outgoing
  <2>2. Sound(conn[p])
    BY <1>0, <2>1 DEF Alive
  <2>3. Sound(c)
    BY <2>1, <2>2, OnSegmentIs
  <2>4. /\ \/ Round(p, c, net \ {d}) /\ UNCHANGED faults
           \/ Round(p, c, net) /\ Fault
        /\ UNCHANGED appVars
    BY <1>3, Zenon DEF Receive
  <2> HIDE DEF p, c
  <2>5. \E rest \in SUBSET Outgoing : Round(p, c, rest)
    BY <1>0, <2>4
  <2>6. /\ st' \in [Ends -> {"shaking", "run", "ended"}] /\ conn' \in [Ends -> Conns]
        /\ net' \subseteq Outgoing /\ Alive'
    BY <1>r, <2>1, <2>3, <2>5
  <2>7. faults' \in 0..MaxFaults
    BY <2>4, ExpiresIs
  <2> QED BY <1>0, <1>f, <2>4, <2>6, <2>7 DEF TypeInv, TypeOK, appVars
<1>4. ASSUME NEW d \in net, Lose(d) PROVE TypeInv'
  <2>1. faults' \in 0..MaxFaults
    BY <1>4, ExpiresIs DEF Lose
  <2>2. Alive'
    BY <1>4, <1>s DEF Lose
  <2> QED BY <1>0, <1>4, <1>f, <2>1, <2>2 DEF Lose, TypeInv, TypeOK, appVars
<1>5. ASSUME NEW p \in Ends, GiveUpShaking(p) \/ Break(p) PROVE TypeInv'
  <2>1. /\ st' = [st EXCEPT ![p] = "ended"] /\ net' = Carry(net, st')
        /\ UNCHANGED <<conn, appVars>> /\ Fault
    BY <1>5 DEF GiveUpShaking, Break
  <2>2. faults' \in 0..MaxFaults
    BY <2>1, ExpiresIs
  <2>3. Alive'
    BY <1>0, <1>s, <2>1
  <2>4. net' \subseteq Outgoing
    BY <1>0, <2>1, CarryIs
  <2> QED BY <1>0, <1>f, <2>1, <2>2, <2>3, <2>4 DEF TypeInv, TypeOK, appVars
<1>6. ASSUME NEW p \in Ends, AppWrite(p) PROVE TypeInv'
  <2>1. PICK n \in 1..MaxPayload :
          /\ wrote' = [wrote EXCEPT ![p] = @ + n]
          /\ Round(p, Written(conn[p], wrote[p], n), net)
    BY <1>6, Zenon DEF AppWrite, Written
  <2>2. n \in Nat /\ wrote[p] \in Nat
    BY <1>0
  <2>3. Sound(Written(conn[p], wrote[p], n))
    BY <1>0, <2>2, WrittenIs DEF Alive
  <2>4. /\ st' \in [Ends -> {"shaking", "run", "ended"}] /\ conn' \in [Ends -> Conns]
        /\ net' \subseteq Outgoing /\ Alive'
    BY <1>0, <1>r, <2>1, <2>3
  <2>5. wrote' \in [Ends -> Nat]
    BY <1>0, <2>1, <2>2
  <2>6. UNCHANGED <<read, eof, faults>>
    BY <1>6 DEF AppWrite
  <2> QED BY <1>0, <1>f, <2>4, <2>5, <2>6 DEF TypeInv, TypeOK
<1>7. ASSUME NEW p \in Ends, AppEof(p) PROVE TypeInv'
  <2>1. Round(p, Closed(conn[p]), net) /\ UNCHANGED <<appVars, faults>>
    BY <1>7, Zenon DEF AppEof, Closed
  <2>2. Sound(Closed(conn[p]))
    BY <1>0, ClosedIs DEF Alive
  <2>3. /\ st' \in [Ends -> {"shaking", "run", "ended"}] /\ conn' \in [Ends -> Conns]
        /\ net' \subseteq Outgoing /\ Alive'
    BY <1>0, <1>r, <2>1, <2>2
  <2> QED BY <1>0, <1>f, <2>1, <2>3 DEF TypeInv, TypeOK, appVars
<1>8. ASSUME NEW p \in Ends, AppRead(p) PROVE TypeInv'
  <2>1. PICK n \in 1..Len(Head(conn[p].recvDeliver)) :
          /\ read' = [read EXCEPT ![p] = @ \o SubSeq(Head(conn[p].recvDeliver), 1, n)]
          /\ \E d : Sound(d) /\ Round(p, d, net)
    BY <1>8, AppReadIs
  <2>2. conn[p].recvDeliver # <<>> /\ UNCHANGED <<wrote, eof, faults>>
    BY <1>8, AppReadIs
  <2>3. /\ st' \in [Ends -> {"shaking", "run", "ended"}] /\ conn' \in [Ends -> Conns]
        /\ net' \subseteq Outgoing /\ Alive'
    BY <1>0, <1>r, <2>1
  <2>4. SubSeq(Head(conn[p].recvDeliver), 1, n) \in Seq(Nat)
    BY <1>0, <2>2, ConsumedIs DEF Alive
  <2>5. read' \in [Ends -> Seq(Nat)]
    <3> DEFINE more == SubSeq(Head(conn[p].recvDeliver), 1, n)
    <3>1. more \in Seq(Nat) /\ read' = [read EXCEPT ![p] = @ \o more]
      BY <2>1, <2>4
    <3> HIDE DEF more
    <3> QED BY <1>0, <3>1
  <2> QED BY <1>0, <1>f, <2>2, <2>3, <2>5 DEF TypeInv, TypeOK
<1>9. ASSUME NEW p \in Ends, ReadEof(p) PROVE TypeInv'
  <2>1. UNCHANGED <<st, conn, net, wrote, read, faults>>
        /\ eof' \in [Ends -> {"no", "clean", "cut"}]
    BY <1>0, <1>9 DEF ReadEof
  <2>2. Alive'
    BY <1>s, <2>1
  <2> QED BY <1>0, <1>f, <2>1, <2>2 DEF TypeInv, TypeOK
<1>10. ASSUME NEW p \in Ends, OnTimeout(p) PROVE TypeInv'
  <2>1. /\ \E c : Sound(c) /\ Round(p, c, net)
        /\ UNCHANGED appVars /\ faults' \in 0..MaxFaults
    BY <1>10, OnTimeoutIs
  <2>2. /\ st' \in [Ends -> {"shaking", "run", "ended"}] /\ conn' \in [Ends -> Conns]
        /\ net' \subseteq Outgoing /\ Alive'
    BY <1>0, <1>r, <2>1
  <2> QED BY <1>0, <1>f, <2>1, <2>2 DEF TypeInv, TypeOK, appVars
<1>11. CASE UNCHANGED vars
  <2>1. Alive'
    BY <1>11, <1>s DEF vars
  <2> QED BY <1>0, <1>11, <1>f, <2>1 DEF TypeInv, TypeOK, vars
<1> QED BY <1>1, <1>2, <1>3, <1>4, <1>5, <1>6, <1>7, <1>8, <1>9, <1>10, <1>11 DEF Next

\* Every field of the connections, and every datagram in flight, has its type
\* (struct Conn and Segment, reliable.rs), whatever is lost or repeated.
THEOREM TypeCorrect == Spec => []TypeOK
<1>1. TypeInv => TypeOK
  BY DEF TypeInv
<1> QED BY TypeInit, TypeNext, <1>1, PTL DEF Spec

\* What waits at a receiver, in and out of order, never exceeds the window it
\* announces, for any window and any segments (the test in process_data).
THEOREM Bounded == Spec => []BufferIsBounded
<1>1. TypeInv => BufferIsBounded
  BY DEF TypeInv, Alive, Sound, BufferIsBounded
<1> QED BY TypeInit, TypeNext, <1>1, PTL DEF Spec

-----------------------------------------------------------------------------
(* Stretches of the stream.                                                *)

\* The bytes after the first a, up to the first b of them.
Stretch(a, b) == [i \in 1 .. b - a |-> a + i]

LEMMA StretchIs ==
  ASSUME NEW a \in Nat, NEW b \in Nat, a <= b
  PROVE  /\ Stretch(a, b) \in Seq(Nat) /\ Len(Stretch(a, b)) = b - a
         /\ \A i \in 1 .. b - a : Stretch(a, b)[i] = a + i
<1>1. Stretch(a, b) \in [1 .. b - a -> Nat] /\ b - a \in Nat
  BY DEF Stretch
<1>2. Stretch(a, b) \in Seq(Nat) /\ Len(Stretch(a, b)) = b - a
  BY <1>1, SequenceIs
<1> QED BY <1>2 DEF Stretch

LEMMA SameSequence ==
  ASSUME NEW T, NEW s \in Seq(T), NEW t \in Seq(T), Len(s) = Len(t),
         \A i \in 1..Len(s) : s[i] = t[i]
  PROVE  s = t
OBVIOUS

Slice(s, m, n) == SubSeq(s, m, n)

LEMMA StretchPart ==
  ASSUME NEW a \in Nat, NEW b \in Nat, a <= b, NEW m \in Nat, NEW n \in Nat,
         m <= n, n <= b - a
  PROVE  Slice(Stretch(a, b), m + 1, n) = Stretch(a + m, a + n)
<1> DEFINE s == Stretch(a, b)
           t == Stretch(a + m, a + n)
<1>1. s \in Seq(Nat) /\ Len(s) = b - a /\ \A i \in 1 .. b - a : s[i] = a + i
  BY StretchIs
<1>2. t \in Seq(Nat) /\ Len(t) = n - m /\ \A i \in 1 .. n - m : t[i] = a + m + i
  <2>1. a + m \in Nat /\ a + n \in Nat /\ a + m <= a + n /\ (a + n) - (a + m) = n - m
    OBVIOUS
  <2> QED BY <2>1, StretchIs
<1> HIDE DEF s, t
<1>3. /\ SubSeq(s, m + 1, n) \in Seq(Nat) /\ Len(SubSeq(s, m + 1, n)) = n - m
      /\ \A i \in 1 .. n - m : SubSeq(s, m + 1, n)[i] = s[m + i]
  BY <1>1
<1>4. \A i \in 1 .. n - m : SubSeq(s, m + 1, n)[i] = t[i]
  <2> SUFFICES ASSUME NEW i \in 1 .. n - m PROVE SubSeq(s, m + 1, n)[i] = t[i]
    OBVIOUS
  <2>1. m + i \in 1 .. b - a
    OBVIOUS
  <2>2. s[m + i] = a + (m + i)
    BY <1>1, <2>1
  <2> QED BY <1>2, <1>3, <2>2
<1> DEFINE u == SubSeq(s, m + 1, n)
<1>5. u \in Seq(Nat) /\ Len(u) = Len(t) /\ \A i \in 1..Len(u) : u[i] = t[i]
  BY <1>2, <1>3, <1>4
<1> HIDE DEF u
<1>6. u = t
  BY <1>2, <1>5, SameSequence
<1> QED BY <1>6 DEF u, s, t, Slice

LEMMA ConcatAt ==
  ASSUME NEW T, NEW s \in Seq(T), NEW t \in Seq(T)
  PROVE  /\ \A i \in 1..Len(s) : (s \o t)[i] = s[i]
         /\ \A i \in 1..Len(t) : (s \o t)[Len(s) + i] = t[i]
OBVIOUS

LEMMA StretchMore ==
  ASSUME NEW a \in Nat, NEW b \in Nat, NEW c \in Nat, a <= b, b <= c
  PROVE  Stretch(a, b) \o Stretch(b, c) = Stretch(a, c)
<1> DEFINE s == Stretch(a, b)
           t == Stretch(b, c)
           v == Stretch(a, c)
           u == s \o t
<1>1. s \in Seq(Nat) /\ Len(s) = b - a /\ \A i \in 1 .. b - a : s[i] = a + i
  BY StretchIs
<1>2. t \in Seq(Nat) /\ Len(t) = c - b /\ \A i \in 1 .. c - b : t[i] = b + i
  BY StretchIs
<1>3. v \in Seq(Nat) /\ Len(v) = c - a /\ \A i \in 1 .. c - a : v[i] = a + i
  <2>1. a <= c
    OBVIOUS
  <2> QED BY <2>1, StretchIs
<1> HIDE DEF s, t, v
<1>4. /\ u \in Seq(Nat) /\ Len(u) = Len(s) + Len(t)
      /\ \A i \in 1..Len(s) : u[i] = s[i]
      /\ \A i \in 1..Len(t) : u[Len(s) + i] = t[i]
  <2>1. s \in Seq(Nat) /\ t \in Seq(Nat)
    BY <1>1, <1>2
  <2>2. s \o t \in Seq(Nat) /\ Len(s \o t) = Len(s) + Len(t)
    BY ONLY <2>1, ConcatIs
  <2>3. /\ \A i \in 1..Len(s) : (s \o t)[i] = s[i]
        /\ \A i \in 1..Len(t) : (s \o t)[Len(s) + i] = t[i]
    BY ONLY <2>1, ConcatAt
  <2> QED BY <2>2, <2>3
<1> HIDE DEF u
<1>5. \A i \in 1..Len(u) : u[i] = v[i]
  <2> SUFFICES ASSUME NEW i \in 1 .. c - a PROVE u[i] = v[i]
    BY <1>1, <1>2, <1>4
  <2>1. CASE i <= b - a
    <3>1. i \in 1 .. b - a
      BY <2>1
    <3> QED BY <1>1, <1>2, <1>3, <1>4, <3>1
  <2>2. CASE ~(i <= b - a)
    <3>1. i - (b - a) \in 1 .. c - b /\ b + (i - (b - a)) = a + i
      BY <2>2
    <3> DEFINE j == i - (b - a)
    <3>2. j \in 1..Len(t) /\ Len(s) + j = i /\ b + j = a + i
      BY <1>1, <1>2, <2>2, <3>1
    <3> HIDE DEF j
    <3>3. u[i] = t[j] /\ t[j] = b + j
      BY <1>2, <1>4, <3>2
    <3> QED BY <1>3, <3>2, <3>3
  <2> QED BY <2>1, <2>2
<1>6. Len(u) = Len(v)
  BY <1>1, <1>2, <1>3, <1>4
<1>7. u = v
  BY <1>3, <1>4, <1>5, <1>6, SameSequence
<1> QED BY <1>7 DEF u, v, s, t

LEMMA StretchNone ==
  ASSUME NEW a \in Nat, NEW b \in Nat, a <= b, Stretch(a, b) = <<>>
  PROVE  a = b
<1>1. Len(Stretch(a, b)) = b - a /\ Len(Stretch(a, b)) = 0
  BY StretchIs
<1> QED BY <1>1

-----------------------------------------------------------------------------
(* The sender: where its segments lie in the stream.                       *)

\* N segments have been numbered; segment k holds the bytes from f[k] to f[k+1].
Marks(N, f, w) ==
  /\ N \in Nat /\ f \in [Nat -> Nat] /\ f[0] = 0
  /\ \A i, j \in 0..N : i <= j => f[i] <= f[j]
  /\ N <= f[N] /\ f[N] <= w

Part(N, f, seq, data) ==
  \E k \in 0 .. N - 1 : seq = Num(k) /\ data = Stretch(f[k], f[k + 1])

\* What a segment may say once fin tells whether the FIN has been sent.
Told(fin, N, f, u) ==
  /\ u.data # <<>> => Part(N, f, u.seq, u.data)
  /\ "FIN" \in u.flags => fin /\ u.seq = Num(N)

Sender(p, s, w, N, f) ==
  /\ Marks(N, f, w)
  /\ s.sendNext = Num(IF s.finSent THEN N + 1 ELSE N)
  /\ s.sendBuf = Stretch(f[N], w)
  /\ s.finSent => s.appEof /\ f[N] = w
  /\ \A i \in 1..Len(s.unacked) : Told(s.finSent, N, f, s.unacked[i])
  /\ \A o \in s.out : o.to = Peer(p) /\ Told(s.finSent, N, f, o)

\* More segments are numbered, and the FIN ends that.
Grows(fin, N, f, fin2, N2, f2) ==
  /\ N \in Nat /\ N2 \in Nat /\ N <= N2
  /\ \A i \in 0..N : f2[i] = f[i]
  /\ fin => fin2 /\ N2 = N

LEMMA PartGrows ==
  ASSUME NEW fin, NEW N, NEW f, NEW fin2, NEW N2, NEW f2, NEW seq, NEW data,
         Grows(fin, N, f, fin2, N2, f2), Part(N, f, seq, data)
  PROVE  Part(N2, f2, seq, data)
<1>1. N \in Nat /\ N2 \in Nat /\ N <= N2 /\ \A i \in 0..N : f2[i] = f[i]
  BY DEF Grows
<1>2. PICK k \in 0 .. N - 1 : seq = Num(k) /\ data = Stretch(f[k], f[k + 1])
  BY DEF Part
<1>3. k \in 0 .. N2 - 1 /\ f2[k] = f[k] /\ f2[k + 1] = f[k + 1]
  BY <1>1
<1> QED BY <1>2, <1>3 DEF Part

LEMMA ToldGrows ==
  ASSUME NEW fin, NEW N, NEW f, NEW fin2, NEW N2, NEW f2, NEW u,
         Grows(fin, N, f, fin2, N2, f2), Told(fin, N, f, u)
  PROVE  Told(fin2, N2, f2, u)
<1>1. u.data # <<>> => Part(N2, f2, u.seq, u.data)
  BY PartGrows DEF Told
<1>2. "FIN" \in u.flags => fin2 /\ u.seq = Num(N2)
  BY DEF Told, Grows
<1> QED BY <1>1, <1>2 DEF Told

LEMMA GrowsGrows ==
  ASSUME NEW a, NEW N, NEW f, NEW b, NEW N2, NEW f2, NEW c, NEW N3, NEW f3,
         Grows(a, N, f, b, N2, f2), Grows(b, N2, f2, c, N3, f3)
  PROVE  Grows(a, N, f, c, N3, f3)
<1>1. /\ N \in Nat /\ N2 \in Nat /\ N <= N2 /\ \A i \in 0..N : f2[i] = f[i]
      /\ N3 \in Nat /\ N2 <= N3 /\ \A i \in 0..N2 : f3[i] = f2[i]
  BY DEF Grows
<1>2. \A i \in 0..N : f3[i] = f[i]
  BY <1>1
<1>3. N <= N3
  BY <1>1
<1>4. a => c /\ N3 = N
  BY DEF Grows
<1> QED BY <1>1, <1>2, <1>3, <1>4 DEF Grows

LEMMA GrowsSame ==
  ASSUME NEW fin, NEW N \in Nat, NEW f
  PROVE  Grows(fin, N, f, fin, N, f)
BY DEF Grows

LEMMA SenderDrops ==
  ASSUME NEW p, NEW c \in Conns, NEW d, NEW w, NEW N, NEW f,
         Sender(p, c, w, N, f), Drops(p, c, d)
  PROVE  Sender(p, d, w, N, f)
<1>1. /\ d.sendNext = c.sendNext /\ d.sendBuf = c.sendBuf
      /\ d.finSent = c.finSent /\ d.appEof = c.appEof
      /\ \A i \in 1..Len(d.unacked) : \E j \in 1..Len(c.unacked) : d.unacked[i] = c.unacked[j]
      /\ \A o \in d.out : o \in c.out \/ Says(p, c, o)
  BY DEF Drops
<1>2. \A i \in 1..Len(c.unacked) : Told(c.finSent, N, f, c.unacked[i])
  BY DEF Sender
<1>3. \A i \in 1..Len(d.unacked) : Told(d.finSent, N, f, d.unacked[i])
  BY <1>1, <1>2, Zenon
<1>4. ASSUME NEW o, Says(p, c, o) PROVE o.to = Peer(p) /\ Told(c.finSent, N, f, o)
  <2>1. CASE o.data = <<>> /\ "FIN" \notin o.flags
    BY <1>4, <2>1 DEF Says, Told
  <2>2. CASE \E i \in 1..Len(c.unacked) :
               /\ o.seq = c.unacked[i].seq /\ o.data = c.unacked[i].data
               /\ o.flags \in {c.unacked[i].flags, {"ACK"}}
    <3>1. PICK i \in 1..Len(c.unacked) :
               /\ o.seq = c.unacked[i].seq /\ o.data = c.unacked[i].data
               /\ o.flags \in {c.unacked[i].flags, {"ACK"}}
      BY <2>2
    <3>2. Told(c.finSent, N, f, c.unacked[i])
      BY <1>2
    <3>3. "FIN" \in o.flags => "FIN" \in c.unacked[i].flags
      BY <3>1
    <3>4. o.to = Peer(p)
      BY <1>4 DEF Says
    <3> QED BY <3>1, <3>2, <3>3, <3>4 DEF Told
  <2> QED BY <1>4, <2>1, <2>2 DEF Says
<1>5. \A o \in d.out : o.to = Peer(p) /\ Told(d.finSent, N, f, o)
  BY <1>1, <1>4 DEF Sender
<1> QED BY <1>1, <1>3, <1>5 DEF Sender

LEMMA SenderEcho ==
  ASSUME NEW p, NEW c \in Conns, NEW d, NEW w, NEW N, NEW f,
         Sender(p, c, w, N, f), Echo(p, c, d)
  PROVE  Sender(p, d, w, N, f)
BY EchoDrops, SenderDrops

LEMMA SenderSame ==
  ASSUME NEW p, NEW c, NEW d, NEW w, NEW N, NEW f,
         Sender(p, c, w, N, f), SameSend(c, d), d.out = c.out \/ d.out = {}
  PROVE  Sender(p, d, w, N, f)
BY Zenon DEF Sender, SameSend

LEMMA SenderWrites ==
  ASSUME NEW p, NEW c, Sound(c), NEW w \in Nat, NEW n \in Nat, NEW N, NEW f,
         Sender(p, c, w, N, f), ~c.finSent
  PROVE  Sender(p, Written(c, w, n), w + n, N, f)
<1> DEFINE d == Written(c, w, n)
           more == [i \in 1..n |-> w + i]
<1>1. /\ d.out = c.out
      /\ d.sendNext = c.sendNext /\ d.unacked = c.unacked
      /\ d.finSent = c.finSent /\ d.appEof = c.appEof
      /\ d.sendBuf = c.sendBuf \o more
  BY WrittenIs, ZenonT(60)
<1>2. Marks(N, f, w) /\ c.sendBuf = Stretch(f[N], w)
  BY DEF Sender
<1>3. f[N] \in Nat /\ f[N] <= w /\ w <= w + n /\ w + n \in Nat
  BY <1>2 DEF Marks
<1>4. Marks(N, f, w + n)
  <2>1. f[N] <= w + n
    BY <1>3
  <2> QED BY <1>2, <2>1 DEF Marks
<1>5. more = Stretch(w, w + n)
  <2>1. (w + n) - w = n
    OBVIOUS
  <2> QED BY <2>1 DEF Stretch
<1> HIDE DEF more, d
<1>6. d.sendBuf = Stretch(f[N], w + n)
  <2>1. Stretch(f[N], w) \o Stretch(w, w + n) = Stretch(f[N], w + n)
    BY <1>3, StretchMore
  <2> QED BY <1>1, <1>2, <1>5, <2>1
<1>7. Sender(p, d, w + n, N, f)
  BY <1>1, <1>4, <1>6, Zenon DEF Sender
<1> QED BY <1>7 DEF d

LEMMA SenderCloses ==
  ASSUME NEW p, NEW c, Sound(c), NEW w, NEW N, NEW f, Sender(p, c, w, N, f)
  PROVE  Sender(p, Closed(c), w, N, f)
<1> DEFINE d == Closed(c)
<1>1. /\ d.out = c.out
      /\ d.sendNext = c.sendNext /\ d.unacked = c.unacked /\ d.sendBuf = c.sendBuf
      /\ d.finSent = c.finSent /\ d.appEof
  BY ClosedIs
<1> HIDE DEF d
<1>2. Sender(p, d, w, N, f)
  BY <1>1, Zenon DEF Sender
<1> QED BY <1>2 DEF d

LEMMA NumPlus ==
  ASSUME NEW j \in Int, NEW k \in Int
  PROVE  Plus(Num(j), k) = Num(j + k)
BY Space, PlusPlus DEF Num, Seqs

\* Where the segments cut from n bytes begin and end.
LEMMA Offsets ==
  ASSUME NEW n \in Nat \ {0}
  PROVE  LET off == [i \in 0..Count(n) |-> Min2(i * MaxPayload, n)]
         IN /\ off \in [0..Count(n) -> 0..n] /\ off[0] = 0 /\ off[Count(n)] = n
            /\ \A i, j \in 0..Count(n) : i <= j => off[i] <= off[j]
            /\ \A i \in 1..Count(n) : off[i - 1] = (i - 1) * MaxPayload
<1> USE Space
<1> DEFINE M == Count(n)
           off == [i \in 0..M |-> Min2(i * MaxPayload, n)]
<1>1. M \in Nat \ {0} /\ (M - 1) * MaxPayload < n /\ n <= M * MaxPayload
  BY CountIs
<1> HIDE DEF M
<1>2. \A i \in 0..M : i * MaxPayload \in Nat
  BY <1>1
<1>3. \A i, j \in 0..M : i <= j => i * MaxPayload <= j * MaxPayload
  BY <1>1
<1>4. \A i \in 0..M : Min2(i * MaxPayload, n) \in 0..n
  BY <1>2 DEF Min2
<1>5. off \in [0..M -> 0..n]
  BY <1>4
<1>6. 0 * MaxPayload = 0 /\ 0 \in 0..M /\ M \in 0..M
  BY <1>1
<1>7. Min2(0 * MaxPayload, n) = 0
  BY <1>6 DEF Min2
<1>8. Min2(M * MaxPayload, n) = n
  <2>1. M * MaxPayload \in Nat
    BY <1>2, <1>6
  <2> QED BY <1>1, <2>1 DEF Min2
<1>9. \A i, j \in 0..M : i <= j => off[i] <= off[j]
  <2> SUFFICES ASSUME NEW i \in 0..M, NEW j \in 0..M, i <= j
               PROVE  Min2(i * MaxPayload, n) <= Min2(j * MaxPayload, n)
    OBVIOUS
  <2> DEFINE a == i * MaxPayload
             b == j * MaxPayload
  <2>1. a \in Nat /\ b \in Nat /\ a <= b
    BY <1>2, <1>3
  <2> HIDE DEF a, b
  <2>2. Min2(a, n) <= Min2(b, n)
    BY <2>1 DEF Min2
  <2> QED BY <2>2 DEF a, b
<1>10. ASSUME NEW i \in 1..M PROVE off[i - 1] = (i - 1) * MaxPayload
  <2>1. i - 1 \in 0..M /\ M - 1 \in 0..M /\ i - 1 <= M - 1
    BY <1>1
  <2>2. (i - 1) * MaxPayload <= (M - 1) * MaxPayload
    BY <1>3, <2>1
  <2> DEFINE a == (i - 1) * MaxPayload
             b == (M - 1) * MaxPayload
  <2>3. a \in Nat /\ b \in Nat /\ a <= b /\ b < n
    BY <1>1, <1>2, <2>1, <2>2
  <2>4. off[i - 1] = Min2(a, n)
    BY <2>1
  <2> HIDE DEF a, b, off
  <2>5. Min2(a, n) = a
    BY <2>3 DEF Min2
  <2> QED BY <2>4, <2>5 DEF a
<1>11. off[0] = 0 /\ off[M] = n
  BY <1>6, <1>7, <1>8
<1> HIDE DEF off
<1> QED BY <1>5, <1>9, <1>10, <1>11 DEF off, M

LEMMA SenderPumps ==
  ASSUME NEW p \in Ends, NEW c, Sound(c), ~c.finSent, NEW n \in 1..Len(c.sendBuf),
         NEW w \in Nat, NEW N, NEW f, Sender(p, c, w, N, f)
  PROVE  \E N2 \in Nat, f2 \in [Nat -> Nat] :
           /\ Sender(p, Pumped(p, c, n), w, N2, f2)
           /\ Grows(c.finSent, N, f, Pumped(p, c, n).finSent, N2, f2)
<1> DEFINE M == Count(n)
           off == [i \in 0..M |-> Min2(i * MaxPayload, n)]
           N2 == N + M
           e == f[N]
           f2 == [i \in Nat |-> IF i <= N THEN f[i] ELSE IF i <= N + M THEN e + off[i - N] ELSE 0]
           d == Pumped(p, c, n)
           cut == Cut(c, n)
<1>1. /\ Marks(N, f, w) /\ c.sendNext = Num(N) /\ c.sendBuf = Stretch(e, w)
      /\ \A i \in 1..Len(c.unacked) : Told(c.finSent, N, f, c.unacked[i])
      /\ \A o \in c.out : o.to = Peer(p) /\ Told(c.finSent, N, f, o)
  BY DEF Sender
<1>2. /\ N \in Nat /\ f \in [Nat -> Nat] /\ f[0] = 0
      /\ \A i, j \in 0..N : i <= j => f[i] <= f[j]
      /\ N <= e /\ e <= w /\ e \in Nat
  BY <1>1 DEF Marks
<1>e. N \in Nat /\ e \in Nat /\ N <= e /\ e <= w /\ w \in Nat
  BY <1>2
<1>3. c \in Conns /\ Len(c.sendBuf) = w - e
  BY <1>1, <1>2, StretchIs DEF Sound
<1>4. n \in Nat \ {0} /\ e + n <= w
  BY <1>2, <1>3
<1>5. M \in Nat \ {0} /\ M <= n
  BY <1>4, CountIs
<1>6. /\ off \in [0..M -> 0..n] /\ off[0] = 0 /\ off[M] = n
      /\ \A i, j \in 0..M : i <= j => off[i] <= off[j]
      /\ \A i \in 1..M : off[i - 1] = (i - 1) * MaxPayload
  BY <1>4, Offsets
<1>7. \A i \in 1..M : off[i] = Min2(i * MaxPayload, n)
  OBVIOUS
<1>8. /\ Len(cut) = M /\ cut \in Seq(Kept)
      /\ \A i \in 1..M : /\ cut[i].seq = Plus(c.sendNext, i - 1)
                         /\ cut[i].flags = {"ACK"}
                         /\ cut[i].data = SubSeq(c.sendBuf, (i - 1) * MaxPayload + 1,
                                                 Min2(i * MaxPayload, n))
  BY <1>3, CutIs
<1>9. /\ d.sendBuf = SubSeq(c.sendBuf, n + 1, Len(c.sendBuf))
      /\ d.sendNext = Plus(c.sendNext, M) /\ d.unacked = c.unacked \o cut
      /\ d.finSent = c.finSent /\ d.appEof = c.appEof
      /\ d.out = c.out \cup Sent(p, c, n)
  BY PumpedIs
<1>10. \A o \in Sent(p, c, n) : o.to = Peer(p) /\ \E i \in 1..M :
         o.seq = cut[i].seq /\ o.flags = {"ACK"} /\ o.data = cut[i].data
  BY SentIs
<1> HIDE DEF d, cut, off, M, e
<1>11. f2 \in [Nat -> Nat]
  <2> SUFFICES ASSUME NEW i \in Nat
               PROVE  (IF i <= N THEN f[i] ELSE IF i <= N + M THEN e + off[i - N] ELSE 0) \in Nat
    OBVIOUS
  <2>1. CASE i <= N
    BY <1>2, <2>1
  <2>2. CASE ~(i <= N) /\ i <= N + M
    <3>1. i - N \in 0..M
      BY <1>2, <1>5, <2>2
    <3>2. off[i - N] \in Nat
      BY <1>4, <1>6, <3>1
    <3>3. e + off[i - N] \in Nat
      BY <1>e, <3>2
    <3> QED BY <2>2, <3>3, Zenon
  <2> QED BY <2>1, <2>2
<1>12. \A i \in 0..N : f2[i] = f[i]
  BY <1>2
<1>13. ASSUME NEW i \in 0..M PROVE f2[N + i] = e + off[i]
  <2>1. CASE i = 0
    BY <1>2, <1>6, <1>12, <2>1 DEF e
  <2>2. CASE i # 0
    <3>1. N + i \in Nat /\ ~(N + i <= N) /\ N + i <= N + M /\ (N + i) - N = i
      BY <1>2, <1>5, <2>2
    <3> QED BY <3>1
  <2> QED BY <2>1, <2>2
<1> HIDE DEF f2
<1>14. N2 \in Nat /\ f2[N2] = e + n /\ N <= N2 /\ N2 <= e + n
  BY <1>2, <1>4, <1>5, <1>6, <1>13
<1>15. \A i, j \in 0..N2 : i <= j => f2[i] <= f2[j]
  <2> SUFFICES ASSUME NEW i \in 0..N2, NEW j \in 0..N2, i <= j PROVE f2[i] <= f2[j]
    OBVIOUS
  <2>1. CASE j <= N
    <3>1. i \in 0..N /\ j \in 0..N
      BY <1>e, <2>1
    <3> QED BY <1>2, <1>12, <3>1
  <2>2. CASE ~(j <= N)
    <3>1. j - N \in 0..M /\ N + (j - N) = j
      BY <1>2, <1>5, <2>2
    <3>2. f2[j] = e + off[j - N] /\ off[j - N] \in Nat
      BY <1>4, <1>6, <1>13, <3>1
    <3>3. CASE i <= N
      <4>1. i \in 0..N /\ N \in 0..N
        BY <1>2, <3>3
      <4>2. f2[i] = f[i] /\ f[i] <= e /\ f[i] \in Nat
        BY <1>2, <1>12, <4>1 DEF e
      <4> QED BY ONLY <1>e, <3>2, <4>2
    <3>4. CASE ~(i <= N)
      <4>1. i - N \in 0..M /\ N + (i - N) = i /\ i - N <= j - N
        BY <1>2, <1>5, <3>4
      <4>2. f2[i] = e + off[i - N] /\ off[i - N] <= off[j - N] /\ off[i - N] \in Nat
        BY <1>4, <1>6, <1>13, <3>1, <4>1
      <4> QED BY ONLY <1>e, <3>2, <4>2
    <3> QED BY <3>3, <3>4
  <2> QED BY <2>1, <2>2
<1>16. Marks(N2, f2, w)
  <2>1. f2[0] = 0
    <3>1. 0 \in 0..N
      BY <1>e
    <3> QED BY <1>2, <1>12, <3>1
  <2>2. N2 <= f2[N2] /\ f2[N2] <= w
    BY <1>4, <1>14
  <2> QED BY <1>11, <1>14, <1>15, <2>1, <2>2 DEF Marks
<1>17. Grows(c.finSent, N, f, d.finSent, N2, f2)
  BY <1>2, <1>9, <1>12, <1>14 DEF Grows
<1>18. ASSUME NEW i \in 1..M PROVE Part(N2, f2, cut[i].seq, cut[i].data)
  <2> DEFINE k == N + (i - 1)
  <2>1. /\ i \in 0..M /\ i - 1 \in 0..M /\ i - 1 <= i /\ k \in 0 .. N2 - 1 /\ k + 1 = N + i
        /\ i - 1 \in Int /\ N \in Int
    BY <1>2, <1>5
  <2>2. cut[i].seq = Num(k)
    BY <1>1, <1>8, <2>1, NumPlus
  <2>3. off[i - 1] \in Nat /\ off[i] \in Nat /\ off[i - 1] <= off[i] /\ off[i] <= w - e
    <3>1. off[i - 1] \in 0..n /\ off[i] \in 0..n /\ off[i - 1] <= off[i]
      BY <1>6, <2>1
    <3> QED BY ONLY <1>e, <1>4, <3>1
  <2>4. cut[i].data = SubSeq(Stretch(e, w), off[i - 1] + 1, off[i])
    BY <1>1, <1>6, <1>7, <1>8, <2>1
  <2>5. SubSeq(Stretch(e, w), off[i - 1] + 1, off[i]) = Stretch(e + off[i - 1], e + off[i])
    <3> DEFINE m == off[i - 1]
               l == off[i]
    <3>1. m \in Nat /\ l \in Nat /\ m <= l /\ l <= w - e
      BY <2>3
    <3> HIDE DEF m, l
    <3>2. Slice(Stretch(e, w), m + 1, l) = Stretch(e + m, e + l)
      BY ONLY <1>e, <3>1, StretchPart
    <3> QED BY <3>2 DEF m, l, Slice
  <2>6. f2[k] = e + off[i - 1] /\ f2[k + 1] = e + off[i]
    BY <1>13, <2>1
  <2> HIDE DEF k
  <2> QED BY <2>1, <2>2, <2>4, <2>5, <2>6 DEF Part
<1>19. \A i \in 1..M : Told(d.finSent, N2, f2, cut[i])
  BY <1>8, <1>18 DEF Told
<1>20. \A i \in 1..Len(d.unacked) : Told(d.finSent, N2, f2, d.unacked[i])
  <2> DEFINE old == c.unacked
  <2>1. old \in Seq(Kept) /\ cut \in Seq(Kept)
    BY <1>3, <1>8 DEF Conns
  <2>2. \A i \in 1..Len(old) : Told(d.finSent, N2, f2, old[i])
    BY <1>1, <1>17, ToldGrows
  <2> HIDE DEF old
  <2>3. /\ Len(old \o cut) = Len(old) + Len(cut)
        /\ \A i \in 1..Len(old) : (old \o cut)[i] = old[i]
        /\ \A i \in 1..Len(cut) : (old \o cut)[Len(old) + i] = cut[i]
    BY <2>1, ConcatIs, ConcatAt
  <2> DEFINE both == old \o cut
  <2>4. d.unacked = both
    BY <1>9 DEF old
  <2> HIDE DEF both
  <2> SUFFICES ASSUME NEW i \in 1..Len(both) PROVE Told(d.finSent, N2, f2, both[i])
    BY <2>4
  <2>5. Len(old) \in Nat /\ Len(cut) \in Nat
    BY <2>1
  <2>6. CASE i <= Len(old)
    <3>1. i \in 1..Len(old)
      BY <2>5, <2>6
    <3> QED BY <2>2, <2>3, <3>1 DEF both
  <2>7. CASE ~(i <= Len(old))
    <3> DEFINE j == i - Len(old)
    <3>1. j \in 1..Len(cut) /\ Len(old) + j = i
      BY <2>3, <2>5, <2>7 DEF both
    <3> HIDE DEF j
    <3>2. both[i] = cut[j] /\ j \in 1..M
      BY <1>8, <2>3, <3>1 DEF both
    <3> QED BY <1>19, <3>2
  <2> QED BY <2>6, <2>7
<1>21. \A o \in d.out : o.to = Peer(p) /\ Told(d.finSent, N2, f2, o)
  <2>1. ASSUME NEW o \in c.out PROVE o.to = Peer(p) /\ Told(d.finSent, N2, f2, o)
    BY <1>1, <1>17, ToldGrows
  <2>2. ASSUME NEW o \in Sent(p, c, n) PROVE o.to = Peer(p) /\ Told(d.finSent, N2, f2, o)
    <3>1. PICK i \in 1..M : o.seq = cut[i].seq /\ o.flags = {"ACK"} /\ o.data = cut[i].data
      BY <1>10
    <3>2. o.to = Peer(p)
      BY <1>10
    <3> QED BY <1>18, <3>1, <3>2 DEF Told
  <2> QED BY <1>9, <2>1, <2>2
<1>22. d.sendBuf = Stretch(f2[N2], w)
  <2>1. SubSeq(Stretch(e, w), n + 1, w - e) = Stretch(e + n, e + (w - e))
    <3>1. w - e \in Nat /\ n <= w - e /\ n \in Nat
      BY ONLY <1>e, <1>4
    <3> DEFINE l == w - e
    <3>2. l \in Nat /\ n <= l /\ l <= w - e /\ n \in Nat
      BY ONLY <3>1, <1>e
    <3> HIDE DEF l
    <3>4. Slice(Stretch(e, w), n + 1, l) = Stretch(e + n, e + l)
      BY ONLY <1>e, <3>2, StretchPart
    <3> QED BY <3>4 DEF l, Slice
  <2>2. e + (w - e) = w
    BY <1>e
  <2> QED BY <1>1, <1>3, <1>9, <1>14, <2>1, <2>2
<1>23. d.sendNext = Num(N2)
  BY <1>1, <1>2, <1>5, <1>9, NumPlus
<1>24. Sender(p, d, w, N2, f2)
  BY <1>9, <1>16, <1>20, <1>21, <1>22, <1>23 DEF Sender
<1> QED BY <1>11, <1>14, <1>17, <1>24 DEF d

LEMMA SenderSendsFin ==
  ASSUME NEW p \in Ends, NEW c, Sound(c), NEW w \in Nat, NEW N, NEW f, Sender(p, c, w, N, f)
  PROVE  /\ Sender(p, MaybeSendFin(p, c), w, N, f)
         /\ Grows(c.finSent, N, f, MaybeSendFin(p, c).finSent, N, f)
<1> DEFINE d == MaybeSendFin(p, c)
<1>1. Marks(N, f, w) /\ N \in Nat /\ f[N] \in Nat /\ f[N] <= w
  BY DEF Sender, Marks
<1>2. CASE d = c
  BY <1>1, <1>2, GrowsSame
<1>3. CASE d # c
  <2>1. /\ ~c.finSent /\ c.appEof /\ c.sendBuf = <<>>
        /\ d.sendBuf = <<>> /\ d.appEof = c.appEof
        /\ d.finSent /\ d.sendNext = Plus(c.sendNext, 1) /\ d.unacked = <<FinOf(c)>>
    BY <1>3, MaybeSendFinIs
  <2>2. PICK o \in Outgoing :
          /\ d.out = c.out \cup {o}
          /\ o.to = Peer(p) /\ o.seq = c.sendNext /\ o.flags = {"FIN", "ACK"} /\ o.data = <<>>
    BY <1>3, MaybeSendFinIs
  <2>3. d.finSent = TRUE
    <3>1. d \in Conns
      BY <1>3, MaybeSendFinIs
    <3>2. d.finSent \in BOOLEAN
      BY <3>1 DEF Conns
    <3> QED BY <2>1, <3>2
  <2> HIDE DEF d
  <2>4. c.sendNext = Num(N) /\ c.sendBuf = Stretch(f[N], w)
    BY <2>1 DEF Sender
  <2>5. f[N] = w
    BY <1>1, <2>1, <2>4, StretchNone
  <2>6. d.sendNext = Num(N + 1)
    <3>1. N \in Int /\ 1 \in Int
      BY <1>1
    <3> QED BY <2>1, <2>4, <3>1, NumPlus
  <2>7. Told(TRUE, N, f, FinOf(c))
    BY <2>4 DEF Told, FinOf
  <2>8. Told(TRUE, N, f, o)
    BY <2>2, <2>4 DEF Told
  <2>9. Grows(c.finSent, N, f, TRUE, N, f)
    BY <1>1, <2>1 DEF Grows
  <2>10. \A i \in 1..Len(d.unacked) : Told(TRUE, N, f, d.unacked[i])
    <3> DEFINE u == FinOf(c)
    <3>1. d.unacked = <<u>>
      BY <2>1
    <3> HIDE DEF u
    <3>2. Len(d.unacked) = 1 /\ d.unacked[1] = u
      BY <3>1
    <3>3. Told(TRUE, N, f, u)
      BY <2>7 DEF u
    <3> SUFFICES ASSUME NEW i \in 1..Len(d.unacked) PROVE Told(TRUE, N, f, d.unacked[i])
      OBVIOUS
    <3>4. i = 1
      BY <3>2
    <3> QED BY <3>2, <3>3, <3>4
  <2>11. \A x \in d.out : x.to = Peer(p) /\ Told(TRUE, N, f, x)
    <3>1. \A x \in c.out : x.to = Peer(p) /\ Told(c.finSent, N, f, x)
      BY DEF Sender
    <3>2. \A x \in c.out : x.to = Peer(p) /\ Told(TRUE, N, f, x)
      BY <2>9, <3>1, ToldGrows
    <3> QED BY <2>2, <2>8, <3>2
  <2>12. Sender(p, d, w, N, f)
    <3>1. d.sendBuf = Stretch(f[N], w) /\ d.appEof
      BY <2>1, <2>4
    <3> QED BY <1>1, <2>3, <2>5, <2>6, <2>10, <2>11, <3>1 DEF Sender
  <2> QED BY <2>3, <2>9, <2>12 DEF d
<1> QED BY <1>2, <1>3

\* A round: more segments may be numbered, the FIN sent, and all that it sends
\* is told of the stream.
LEMMA SenderRound ==
  ASSUME NEW p \in Ends, NEW c, Sound(c), NEW w \in Nat, NEW N, NEW f, Sender(p, c, w, N, f),
         NEW d, Pumps(p, c, d), Sound(d)
  PROVE  LET s == AckIfDue(p, MaybeSendFin(p, d))
         IN \E N2 \in Nat, f2 \in [Nat -> Nat] :
              /\ Sender(p, s, w, N2, f2) /\ Sender(p, Shut(s), w, N2, f2)
              /\ Grows(c.finSent, N, f, s.finSent, N2, f2)
<1> DEFINE m == MaybeSendFin(p, d)
           s == AckIfDue(p, m)
<1>0. N \in Nat /\ f \in [Nat -> Nat]
  BY DEF Sender, Marks
<1>1. \E N2 \in Nat, f2 \in [Nat -> Nat] :
        Sender(p, d, w, N2, f2) /\ Grows(c.finSent, N, f, d.finSent, N2, f2)
  <2>1. CASE d = c
    BY <1>0, <2>1, GrowsSame
  <2>2. CASE ~c.finSent /\ \E n \in 1..Len(c.sendBuf) : d = Pumped(p, c, n)
    BY <2>2, SenderPumps
  <2> QED BY <2>1, <2>2 DEF Pumps
<1>2. PICK N2 \in Nat, f2 \in [Nat -> Nat] :
        Sender(p, d, w, N2, f2) /\ Grows(c.finSent, N, f, d.finSent, N2, f2)
  BY <1>1
<1>3. Sender(p, m, w, N2, f2) /\ Grows(d.finSent, N2, f2, m.finSent, N2, f2)
  BY <1>2, SenderSendsFin
<1>4. Sound(m)
  BY MaybeSendFinIsSound
<1> HIDE DEF m
<1>5. Echo(p, m, s) /\ Sound(s)
  BY <1>4, AckIfDueIs, AckIfDueIsSound
<1> HIDE DEF s
<1>6. m \in Conns
  BY <1>4 DEF Sound
<1>7. Sender(p, s, w, N2, f2)
  BY <1>3, <1>5, <1>6, SenderEcho
<1>8. Sender(p, Shut(s), w, N2, f2)
  BY <1>5, <1>7, ShutIs, SenderSame
<1>9. s.finSent = m.finSent
  BY <1>5 DEF Echo, SameSend
<1>10. Grows(c.finSent, N, f, s.finSent, N2, f2)
  BY <1>2, <1>3, <1>9, GrowsGrows
<1> QED BY <1>7, <1>8, <1>10 DEF s, m

-----------------------------------------------------------------------------
(* The receiver: how far it has got in the stream.                         *)

\* The pieces that wait follow each other, from what was read up to byte e.
Follows(pieces, a, e) ==
  \E g \in [Nat -> Nat] :
    /\ g[0] = a /\ g[Len(pieces)] = e
    /\ \A i, j \in 0..Len(pieces) : i <= j => g[i] <= g[j]
    /\ \A i \in 1..Len(pieces) : pieces[i] = Stretch(g[i - 1], g[i])

\* R segments have been received in order, the FIN being segment N.
Reach(N, R) == IF R <= N THEN R ELSE N

Receiver(r, rd, fin, N, f, R) ==
  /\ R \in 0 .. N + 1 /\ r.recvNext = Num(R)
  /\ R = N + 1 => fin
  /\ r.peerFin => R = N + 1
  /\ \A fs \in r.peerFinSeq : fin /\ fs = Num(N)
  /\ \A o \in r.recvOoo : Part(N, f, o.seq, o.data)
  /\ rd = Stretch(0, Len(rd))
  /\ Follows(r.recvDeliver, Len(rd), f[Reach(N, R)])
  /\ r.writeShut => r.peerFin /\ r.recvDeliver = <<>>

LEMMA ReceiverGrows ==
  ASSUME NEW r, NEW rd, NEW fin, NEW N, NEW f, NEW R, NEW fin2, NEW N2, NEW f2,
         Receiver(r, rd, fin, N, f, R), Grows(fin, N, f, fin2, N2, f2)
  PROVE  Receiver(r, rd, fin2, N2, f2, R)
<1>1. /\ N \in Nat /\ N2 \in Nat /\ N <= N2 /\ \A i \in 0..N : f2[i] = f[i]
      /\ fin => fin2 /\ N2 = N
  BY DEF Grows
<1>2. R \in 0 .. N + 1 /\ (R = N + 1 => fin)
  BY DEF Receiver
<1>3. R \in 0 .. N2 + 1
  BY <1>1, <1>2
<1>4. R = N2 + 1 => fin2
  BY <1>1, <1>2
<1>5. r.peerFin => R = N2 + 1
  BY <1>1, <1>2 DEF Receiver
<1>6. \A fs \in r.peerFinSeq : fin2 /\ fs = Num(N2)
  BY <1>1 DEF Receiver
<1>7. \A o \in r.recvOoo : Part(N2, f2, o.seq, o.data)
  BY PartGrows DEF Receiver
<1>8. f2[Reach(N2, R)] = f[Reach(N, R)]
  <2>1. CASE R <= N
    BY <1>1, <1>2, <2>1 DEF Reach
  <2>2. CASE R = N + 1
    <3>1. N2 = N /\ N \in 0..N
      BY <1>1, <1>2, <2>2
    <3> QED BY <1>1, <2>2, <3>1 DEF Reach
  <2> QED BY <1>1, <1>2, <2>1, <2>2
<1> QED BY <1>3, <1>4, <1>5, <1>6, <1>7, <1>8 DEF Receiver

LEMMA ReceiverSame ==
  ASSUME NEW r, NEW s, NEW rd, NEW fin, NEW N, NEW f, NEW R,
         Receiver(r, rd, fin, N, f, R), SameRecv(r, s)
  PROVE  Receiver(s, rd, fin, N, f, R)
BY DEF Receiver, SameRecv

\* The write half is shut down when nothing is left.
LEMMA ReceiverShuts ==
  ASSUME NEW r, Sound(r), NEW rd, NEW fin, NEW N, NEW f, NEW R, Receiver(r, rd, fin, N, f, R)
  PROVE  Receiver(Shut(r), rd, fin, N, f, R)
<1> DEFINE s == Shut(r)
<1>1. /\ s.recvNext = r.recvNext /\ s.recvOoo = r.recvOoo
      /\ s.recvDeliver = r.recvDeliver /\ s.peerFin = r.peerFin
      /\ s.peerFinSeq = r.peerFinSeq
      /\ s.writeShut = (r.writeShut \/ (r.peerFin /\ r.recvDeliver = <<>>))
  BY ShutIs
<1> HIDE DEF s
<1>2. s.writeShut => s.peerFin /\ s.recvDeliver = <<>>
  <2>1. s.writeShut => r.writeShut \/ (r.peerFin /\ r.recvDeliver = <<>>)
    BY <1>1, Zenon
  <2>2. r.writeShut => r.peerFin /\ r.recvDeliver = <<>>
    BY DEF Receiver
  <2> QED BY <1>1, <2>1, <2>2, Zenon
<1>3. Receiver(s, rd, fin, N, f, R)
  BY <1>1, <1>2, Zenon DEF Receiver
<1> QED BY <1>3 DEF s

\* Fewer segments than half the numbers: none is mistaken for another.
Short(N) == N \in Nat /\ N < SeqSpace \div 2

LEMMA ReceiverFin ==
  ASSUME NEW r \in Conns, NEW rd, NEW fin, NEW N, NEW f, NEW R, Short(N),
         Receiver(r, rd, fin, N, f, R)
  PROVE  \E R2 \in Nat : R2 >= R /\ Receiver(TryConsumeFin(r), rd, fin, N, f, R2)
<1> DEFINE d == TryConsumeFin(r)
<1>0. /\ R \in 0 .. N + 1 /\ R \in Nat /\ r.recvNext = Num(R) /\ N \in Nat
      /\ N < SeqSpace \div 2 /\ SeqSpace >= 4 /\ SeqSpace \in Nat
      /\ SeqSpace = 2 * (SeqSpace \div 2) /\ SeqSpace \div 2 \in Nat
      /\ \A fs \in r.peerFinSeq : fin /\ fs = Num(N)
  BY Space DEF Receiver, Short
<1>1. /\ d.recvOoo = r.recvOoo /\ d.recvDeliver = r.recvDeliver
      /\ d.peerFinSeq = r.peerFinSeq /\ d.writeShut = r.writeShut
      /\ \/ d = r
         \/ /\ \E fs \in r.peerFinSeq : ~SeqAfter(fs, r.recvNext)
            /\ d.peerFin
            /\ \/ r.recvNext \in r.peerFinSeq /\ d.recvNext = Plus(r.recvNext, 1)
               \/ r.recvNext \notin r.peerFinSeq /\ d.recvNext = r.recvNext
  BY TryConsumeFinIs
<1> HIDE DEF d
<1>2. CASE d = r
  BY <1>0, <1>2 DEF d
<1>3. CASE d # r
  <2>1. PICK fs \in r.peerFinSeq : ~SeqAfter(fs, r.recvNext)
    BY <1>1, <1>3
  <2>2. fin /\ fs = Num(N)
    BY <1>0
  <2>3. ~(R < N)
    <3>1. ASSUME R < N PROVE SeqAfter(Num(N), Num(R))
      <4>1. 0 < N - R /\ N - R < SeqSpace \div 2 /\ N \in Int /\ R \in Int
        BY <1>0, <3>1
      <4> QED BY <4>1, NumAfter
    <3> QED BY <1>0, <2>1, <2>2, <3>1
  <2>4. R = N \/ R = N + 1
    BY <1>0, <2>3
  <2>5. d.recvNext = Num(N + 1)
    <3>1. CASE R = N
      <4>1. d.recvNext = Plus(Num(N), 1)
        BY <1>0, <1>1, <1>3, <2>2, <3>1
      <4> QED BY <1>0, <4>1, NumPlus
    <3>2. CASE R = N + 1
      <4>1. Num(N + 1) # Num(N)
        <5>1. /\ N + 1 \in Int /\ N \in Int /\ (N + 1) - N < SeqSpace /\ N - (N + 1) < SeqSpace
              /\ N + 1 # N
          BY <1>0
        <5> QED BY <5>1, NumOnce
      <4>2. r.recvNext \notin r.peerFinSeq
        BY <1>0, <3>2, <4>1
      <4> QED BY <1>0, <1>1, <1>3, <3>2, <4>2
    <3> QED BY <2>4, <3>1, <3>2
  <2>6. d.peerFin
    BY <1>1, <1>3
  <2>7. Reach(N, N + 1) = Reach(N, R)
    BY <1>0, <2>4 DEF Reach
  <2>8. N + 1 \in 0 .. N + 1 /\ N + 1 \in Nat /\ N + 1 >= R
    BY <1>0
  <2>9. Receiver(d, rd, fin, N, f, N + 1)
    BY <1>1, <2>2, <2>5, <2>6, <2>7, <2>8 DEF Receiver
  <2> QED BY <2>8, <2>9 DEF d
<1> QED BY <1>2, <1>3

LEMMA ReceiverHolds ==
  ASSUME NEW a, NEW b, NEW seq, NEW data, NEW rd, NEW fin, NEW N, NEW f, NEW R,
         Receiver(a, rd, fin, N, f, R), Holds(a, seq, data, b), Part(N, f, seq, data)
  PROVE  Receiver(b, rd, fin, N, f, R)
<1>1. /\ b.recvOoo = a.recvOoo \cup {[seq |-> seq, data |-> data]}
      /\ b.recvNext = a.recvNext /\ b.recvDeliver = a.recvDeliver
      /\ b.peerFin = a.peerFin /\ b.peerFinSeq = a.peerFinSeq /\ b.writeShut = a.writeShut
  BY DEF Holds
<1>2. \A o \in b.recvOoo : Part(N, f, o.seq, o.data)
  BY <1>1 DEF Receiver
<1> QED BY <1>1, <1>2 DEF Receiver

\* A part with the number of a segment near by is that segment.
LEMMA PartIs ==
  ASSUME NEW N, Short(N), NEW f, NEW m \in Nat, m < N + RecvWindow + 2,
         NEW data, Part(N, f, Num(m), data)
  PROVE  m \in 0 .. N - 1 /\ data = Stretch(f[m], f[m + 1])
<1>0. /\ N \in Nat /\ N < SeqSpace \div 2 /\ SeqSpace >= 4 /\ SeqSpace \in Nat
      /\ SeqSpace = 2 * (SeqSpace \div 2) /\ SeqSpace \div 2 \in Nat
      /\ RecvWindow \in Nat \ {0} /\ 4 * RecvWindow <= SeqSpace
  BY Space DEF Short
<1>1. PICK k \in 0 .. N - 1 : Num(m) = Num(k) /\ data = Stretch(f[k], f[k + 1])
  BY DEF Part
<1>2. m \in Int /\ k \in Int /\ m - k < SeqSpace /\ k - m < SeqSpace
  BY <1>0
<1>3. m = k
  BY <1>1, <1>2, NumOnce
<1> QED BY <1>1, <1>3

LEMMA FollowsMore ==
  ASSUME NEW s \in Seq(Seq(Nat)), NEW t \in Seq(Seq(Nat)), NEW a, NEW e, NEW e2,
         Follows(s, a, e), Follows(t, e, e2)
  PROVE  Follows(s \o t, a, e2)
<1> DEFINE L == Len(s)
           M == Len(t)
           both == s \o t
<1>1. L \in Nat /\ M \in Nat /\ Len(both) = L + M
      /\ (\A i \in 1..L : both[i] = s[i]) /\ (\A i \in 1..M : both[L + i] = t[i])
  BY ConcatIs, ConcatAt
<1>2. PICK g \in [Nat -> Nat] :
        /\ g[0] = a /\ g[L] = e
        /\ \A i, j \in 0..L : i <= j => g[i] <= g[j]
        /\ \A i \in 1..L : s[i] = Stretch(g[i - 1], g[i])
  BY DEF Follows
<1>3. PICK h \in [Nat -> Nat] :
        /\ h[0] = e /\ h[M] = e2
        /\ \A i, j \in 0..M : i <= j => h[i] <= h[j]
        /\ \A i \in 1..M : t[i] = Stretch(h[i - 1], h[i])
  BY DEF Follows
<1> HIDE DEF L, M, both
<1> DEFINE k == [i \in Nat |-> IF i <= L THEN g[i] ELSE h[i - L]]
<1>4. k \in [Nat -> Nat]
  <2> SUFFICES ASSUME NEW i \in Nat PROVE (IF i <= L THEN g[i] ELSE h[i - L]) \in Nat
    OBVIOUS
  <2>1. CASE i <= L
    BY <2>1
  <2>2. CASE ~(i <= L)
    <3>1. i - L \in Nat
      BY <1>1, <2>2
    <3> QED BY <2>2, <3>1
  <2> QED BY <2>1, <2>2
<1>5. \A i \in 0..L : k[i] = g[i]
  BY <1>1
<1>6. ASSUME NEW i \in 0..M PROVE k[L + i] = h[i]
  <2>1. CASE i = 0
    BY <1>1, <1>2, <1>3, <1>5, <2>1
  <2>2. CASE i # 0
    BY <1>1, <2>2
  <2> QED BY <2>1, <2>2
<1> HIDE DEF k
<1>7. k[0] = a /\ k[L + M] = e2
  <2>1. 0 \in 0..L /\ M \in 0..M
    BY <1>1
  <2> QED BY <1>2, <1>3, <1>5, <1>6, <2>1
<1>8. \A i \in 0..L : g[i] \in Nat /\ g[i] <= e
  <2>1. \A i \in 0..L : i <= L /\ L \in 0..L /\ i \in Nat
    BY <1>1
  <2> QED BY <1>2, <2>1
<1>9. \A i \in 0..M : h[i] \in Nat /\ e <= h[i]
  <2>1. \A i \in 0..M : 0 <= i /\ 0 \in 0..M /\ i \in Nat
    BY <1>1
  <2> QED BY <1>3, <2>1
<1>10. \A i, j \in 0 .. L + M : i <= j => k[i] <= k[j]
  <2> SUFFICES ASSUME NEW i \in 0 .. L + M, NEW j \in 0 .. L + M, i <= j PROVE k[i] <= k[j]
    OBVIOUS
  <2>1. CASE j <= L
    <3>1. i \in 0..L /\ j \in 0..L
      BY <1>1, <2>1
    <3> QED BY <1>2, <1>5, <3>1
  <2>2. CASE ~(j <= L)
    <3>1. j - L \in 0..M /\ L + (j - L) = j
      BY <1>1, <2>2
    <3>2. k[j] = h[j - L] /\ h[j - L] \in Nat /\ e <= h[j - L]
      BY <1>6, <1>9, <3>1
    <3>3. CASE i <= L
      <4>1. i \in 0..L
        BY <1>1, <3>3
      <4>2. k[i] = g[i] /\ g[i] \in Nat /\ g[i] <= e
        BY <1>5, <1>8, <4>1
      <4>3. e \in Nat
        <5>1. g[L] \in Nat
          BY <1>1
        <5> QED BY <1>2, <5>1
      <4> DEFINE x == g[i]
                 y == h[j - L]
      <4>4. x \in Nat /\ y \in Nat /\ x <= e /\ e <= y /\ k[i] = x /\ k[j] = y
        BY <3>2, <4>2
      <4> HIDE DEF x, y
      <4> QED BY <4>3, <4>4
    <3>4. CASE ~(i <= L)
      <4>1. i - L \in 0..M /\ L + (i - L) = i /\ i - L <= j - L
        BY <1>1, <3>4
      <4>2. k[i] = h[i - L] /\ h[i - L] <= h[j - L]
        BY <1>3, <1>6, <3>1, <4>1
      <4> QED BY <3>2, <4>2
    <3> QED BY <3>3, <3>4
  <2> QED BY <2>1, <2>2
<1>11. ASSUME NEW i \in 1 .. L + M PROVE both[i] = Stretch(k[i - 1], k[i])
  <2>1. CASE i <= L
    <3>1. i \in 1..L /\ i \in 0..L /\ i - 1 \in 0..L
      BY <1>1, <2>1
    <3> QED BY <1>1, <1>2, <1>5, <3>1
  <2>2. CASE ~(i <= L)
    <3> DEFINE j == i - L
    <3>1. j \in 1..M /\ j \in 0..M /\ j - 1 \in 0..M /\ L + j = i /\ L + (j - 1) = i - 1
      BY <1>1, <2>2
    <3> HIDE DEF j
    <3>2. both[i] = t[j] /\ t[j] = Stretch(h[j - 1], h[j])
      BY <1>1, <1>3, <3>1
    <3>3. k[i] = h[j] /\ k[i - 1] = h[j - 1]
      BY <1>6, <3>1
    <3> QED BY <3>2, <3>3
  <2> QED BY <2>1, <2>2
<1>12. Follows(both, a, e2)
  BY <1>1, <1>4, <1>7, <1>10, <1>11 DEF Follows
<1> QED BY <1>12 DEF both

\* Segments that follow each other by their numbers follow each other.
LEMMA FollowsMarks ==
  ASSUME NEW N \in Nat, NEW f \in [Nat -> Nat],
         \A i, j \in 0..N : i <= j => f[i] <= f[j],
         NEW s, NEW m \in Nat, NEW l \in Nat, Len(s) = l, m + l <= N,
         \A i \in 1..l : s[i] = Stretch(f[m + (i - 1)], f[m + i])
  PROVE  Follows(s, f[m], f[m + l])
<1> DEFINE g == [i \in Nat |-> f[m + i]]
<1>1. g \in [Nat -> Nat]
  <2> SUFFICES ASSUME NEW i \in Nat PROVE f[m + i] \in Nat
    OBVIOUS
  <2>1. m + i \in Nat
    OBVIOUS
  <2> QED BY <2>1
<1>2. \A i \in 0..l : g[i] = f[m + i] /\ m + i \in 0..N
  OBVIOUS
<1>3. m + 0 = m /\ 0 \in 0..l /\ l \in 0..l
  OBVIOUS
<1>4. g[0] = f[m] /\ g[l] = f[m + l]
  BY <1>2, <1>3
<1> HIDE DEF g
<1>5. \A i, j \in 0..l : i <= j => g[i] <= g[j]
  <2> SUFFICES ASSUME NEW i \in 0..l, NEW j \in 0..l, i <= j PROVE g[i] <= g[j]
    OBVIOUS
  <2>1. m + i \in 0..N /\ m + j \in 0..N
    BY <1>2
  <2>2. m + i <= m + j
    OBVIOUS
  <2> QED BY <1>2, <2>1, <2>2
<1>6. \A i \in 1..l : s[i] = Stretch(g[i - 1], g[i])
  <2> SUFFICES ASSUME NEW i \in 1..l PROVE s[i] = Stretch(g[i - 1], g[i])
    OBVIOUS
  <2>1. i - 1 \in 0..l /\ i \in 0..l
    OBVIOUS
  <2> QED BY <1>2, <2>1
<1> QED BY <1>1, <1>4, <1>5, <1>6 DEF Follows

LEMMA AppendIs ==
  ASSUME NEW T, NEW s \in Seq(T), NEW x \in T
  PROVE  <<x>> \in Seq(T) /\ Append(s, x) = s \o <<x>>
OBVIOUS

\* The missing segment is the next one of the stream, and what was held back
\* goes on from it.
LEMMA ReceiverDelivers ==
  ASSUME NEW c, Sound(c), ~Full(c), NEW rd, NEW fin, NEW N, Short(N),
         NEW f \in [Nat -> Nat], \A i, j \in 0..N : i <= j => f[i] <= f[j],
         NEW R, Receiver(c, rd, fin, N, f, R),
         NEW data \in Seq(Nat), Part(N, f, c.recvNext, data)
  PROVE  \E R2 \in Nat : R2 >= R /\ Receiver(Delivered(c, data), rd, fin, N, f, R2)
<1> DEFINE K == Run(c)
           d == Delivered(c, data)
           t == Taken(c)
<1>0. R \in 0 .. N + 1 /\ R \in Nat /\ R \in Int /\ c.recvNext = Num(R) /\ N \in Nat
  BY DEF Receiver, Short
<1>w. RecvWindow \in Nat
  BY Space
<1>1. R \in 0 .. N - 1 /\ data = Stretch(f[R], f[R + 1])
  <2>1. R < N + RecvWindow + 2 /\ Part(N, f, Num(R), data)
    BY <1>0, <1>w
  <2> QED BY <1>0, <2>1, PartIs
<1>2. K \in 0..RecvWindow /\ K \in Nat
  BY <1>w, RunIs
<1>3. /\ t \in Seq(Seq(Nat)) /\ Len(t) = K
      /\ \A i \in 1..K : \E o \in c.recvOoo : o.seq = Plus(c.recvNext, i) /\ t[i] = o.data
  BY TakenIs
<1>4. /\ Left(c) \subseteq c.recvOoo
  BY LeftIs
<1>5. /\ d.recvDeliver = Append(c.recvDeliver, data) \o t
      /\ d.recvNext = Plus(c.recvNext, K + 1) /\ d.recvOoo = Left(c)
      /\ d.peerFin = c.peerFin /\ d.peerFinSeq = c.peerFinSeq
      /\ d.writeShut = c.writeShut
  BY DeliveredIs
<1>6. c.recvDeliver \in Seq(Seq(Nat))
  BY SoundParts
<1> HIDE DEF K, d, t
<1>7. ASSUME NEW i \in 1..K
      PROVE  R + i \in 0 .. N - 1 /\ t[i] = Stretch(f[R + i], f[R + i + 1])
  <2>1. PICK o \in c.recvOoo : o.seq = Plus(c.recvNext, i) /\ t[i] = o.data
    BY <1>3
  <2>2. Part(N, f, o.seq, o.data)
    BY DEF Receiver
  <2>3. i \in Int /\ R + i \in Nat /\ R + i < N + RecvWindow + 2
    <3>1. R \in 0 .. N - 1
      BY <1>1
    <3> QED BY ONLY <1>0, <1>2, <1>w, <3>1, i \in 1..K
  <2>4. Plus(Num(R), i) = Num(R + i)
    BY <1>0, <2>3, NumPlus
  <2>5. Part(N, f, Num(R + i), t[i])
    BY <1>0, <2>1, <2>2, <2>4
  <2> DEFINE m == R + i
  <2> HIDE DEF m
  <2>6. m \in 0 .. N - 1 /\ t[i] = Stretch(f[m], f[m + 1])
    BY <2>3, <2>5, PartIs DEF m
  <2> QED BY <2>6 DEF m
<1>8. R + K + 1 <= N
  <2>1. CASE K = 0
    BY <1>0, <1>1, <2>1
  <2>2. CASE K # 0
    <3>1. K \in 1..K
      BY <1>2, <2>2
    <3> QED BY <1>0, <1>2, <1>7, <3>1
  <2> QED BY <2>1, <2>2
<1>9. Follows(<<data>>, f[R], f[R + 1])
  <2> DEFINE s == <<data>>
  <2>1. Len(s) = 1 /\ s[1] = data
    OBVIOUS
  <2> HIDE DEF s
  <2>2. R + 1 <= N
    BY <1>0, <1>1
  <2>3. \A i \in 1..1 : s[i] = Stretch(f[R + (i - 1)], f[R + i])
    <3> SUFFICES ASSUME NEW i \in 1..1 PROVE s[i] = Stretch(f[R + (i - 1)], f[R + i])
      OBVIOUS
    <3>1. i = 1 /\ R + (i - 1) = R
      BY <1>0
    <3> QED BY <1>1, <2>1, <3>1
  <2>4. Follows(s, f[R], f[R + 1])
    BY <1>0, <2>1, <2>2, <2>3, FollowsMarks
  <2> QED BY <2>4 DEF s
<1>10. Follows(t, f[R + 1], f[R + 1 + K])
  <2> DEFINE m == R + 1
  <2>1. m \in Nat /\ m + K <= N
    BY <1>0, <1>2, <1>8
  <2>2. \A i \in 1..K : t[i] = Stretch(f[m + (i - 1)], f[m + i])
    <3> SUFFICES ASSUME NEW i \in 1..K PROVE t[i] = Stretch(f[m + (i - 1)], f[m + i])
      OBVIOUS
    <3>1. m + (i - 1) = R + i /\ m + i = R + i + 1
      BY <1>0, <1>2
    <3> QED BY <1>7, <3>1
  <2> HIDE DEF m
  <2>3. Follows(t, f[m], f[m + K])
    BY <1>0, <1>2, <1>3, <2>1, <2>2, FollowsMarks
  <2> QED BY <2>3 DEF m
<1>11. Follows(c.recvDeliver, Len(rd), f[R])
  <2>1. Reach(N, R) = R
    BY <1>0, <1>1 DEF Reach
  <2> QED BY <2>1 DEF Receiver
<1>12. Follows(d.recvDeliver, Len(rd), f[R + 1 + K])
  <2> DEFINE old == c.recvDeliver
             one == <<data>>
             a == old \o one
  <2>1. old \in Seq(Seq(Nat)) /\ one \in Seq(Seq(Nat)) /\ Append(old, data) = old \o one
    BY <1>6, AppendIs
  <2>2. Follows(old, Len(rd), f[R]) /\ Follows(one, f[R], f[R + 1])
    BY <1>9, <1>11
  <2> HIDE DEF old, one
  <2>3. a \in Seq(Seq(Nat)) /\ Follows(a, Len(rd), f[R + 1])
    BY <2>1, <2>2, FollowsMore, ConcatIs
  <2>4. d.recvDeliver = a \o t
    BY <1>5, <2>1 DEF old
  <2> HIDE DEF a
  <2> QED BY <1>3, <1>10, <2>3, <2>4, FollowsMore
<1> DEFINE R2 == R + 1 + K
<1>13. R2 \in Nat /\ R2 >= R /\ R2 \in 0 .. N + 1 /\ R2 # N + 1 /\ R2 = R + (K + 1) /\ Reach(N, R2) = R2
  BY <1>0, <1>2, <1>8 DEF Reach
<1>14. d.recvNext = Num(R2)
  <2>1. K + 1 \in Int
    BY <1>2
  <2> QED BY <1>0, <1>5, <1>13, <2>1, NumPlus
<1>15. ~c.peerFin /\ ~c.writeShut
  <2>1. R # N + 1
    BY <1>0, <1>1
  <2> QED BY <2>1 DEF Receiver
<1>16. \A o \in d.recvOoo : Part(N, f, o.seq, o.data)
  BY <1>4, <1>5 DEF Receiver
<1>17. \A fs \in d.peerFinSeq : fin /\ fs = Num(N)
  BY <1>5 DEF Receiver
<1>18. rd = Stretch(0, Len(rd))
  BY DEF Receiver
<1>19. Follows(d.recvDeliver, Len(rd), f[Reach(N, R2)])
  BY <1>12, <1>13
<1> HIDE DEF R2
<1>20. Receiver(d, rd, fin, N, f, R2)
  BY <1>5, <1>13, <1>14, <1>15, <1>16, <1>17, <1>18, <1>19 DEF Receiver
<1> QED BY <1>13, <1>20 DEF d

LEMMA ReceiverTakes ==
  ASSUME NEW a, Sound(a), NEW rd, NEW fin, NEW N, Short(N),
         NEW f \in [Nat -> Nat], \A i, j \in 0..N : i <= j => f[i] <= f[j],
         NEW R, Receiver(a, rd, fin, N, f, R),
         NEW seq, NEW data \in Seq(Nat), data # <<>> => Part(N, f, seq, data),
         NEW b, Takes(a, seq, data, b)
  PROVE  \E R2 \in Nat : R2 >= R /\ Receiver(b, rd, fin, N, f, R2)
<1>0. R \in Nat
  BY DEF Receiver, Short
<1>1. CASE SameRecv(a, b)
  BY <1>0, <1>1, ReceiverSame
<1>2. CASE data # <<>> /\ Holds(a, seq, data, b)
  BY <1>0, <1>2, ReceiverHolds
<1>3. CASE /\ data # <<>> /\ seq = a.recvNext /\ ~Full(a)
           /\ \/ SameRecv(Delivered(a, data), b)
              \/ SameRecv(TryConsumeFin(Delivered(a, data)), b)
  <2> DEFINE d == Delivered(a, data)
  <2>1. Part(N, f, a.recvNext, data)
    BY <1>3
  <2>2. PICK R2 \in Nat : R2 >= R /\ Receiver(d, rd, fin, N, f, R2)
    BY <1>3, <2>1, ReceiverDelivers
  <2>3. d \in Conns
    BY <1>3, DeliveredIs DEF Sound
  <2>4. SameRecv(d, b) \/ SameRecv(TryConsumeFin(d), b)
    BY <1>3
  <2> HIDE DEF d
  <2>5. PICK R3 \in Nat : R3 >= R2 /\ Receiver(TryConsumeFin(d), rd, fin, N, f, R3)
    BY <2>2, <2>3, ReceiverFin
  <2>6. R3 >= R
    BY <1>0, <2>2, <2>5
  <2>7. CASE SameRecv(d, b)
    BY <2>2, <2>7, ReceiverSame
  <2>8. CASE SameRecv(TryConsumeFin(d), b)
    BY <2>5, <2>6, <2>8, ReceiverSame
  <2> QED BY <2>4, <2>7, <2>8
<1> QED BY <1>1, <1>2, <1>3 DEF Takes

\* What a datagram of the peer does to the receiver that it reaches.
LEMMA ReceiverHears ==
  ASSUME NEW p \in Ends, NEW c, Sound(c), NEW d \in Outgoing, NEW rd, NEW fin, NEW N, Short(N),
         NEW f \in [Nat -> Nat], \A i, j \in 0..N : i <= j => f[i] <= f[j],
         NEW R, Receiver(c, rd, fin, N, f, R), Told(fin, N, f, d)
  PROVE  \E R2 \in Nat : R2 >= R /\ Receiver(OnSegment(p, c, d), rd, fin, N, f, R2)
<1> DEFINE e == OnSegment(p, c, d)
<1>0. R \in Nat /\ d.data \in Seq(Nat) /\ d.seq \in Seqs
  BY DEF Receiver, Short, Outgoing
<1>1. CASE Echo(p, c, e)
  BY <1>0, <1>1, ReceiverSame DEF Echo
<1>2. CASE Heard(p, c, d, e)
  <2>1. PICK a, b : /\ Sound(a) /\ Drops(p, c, a) /\ Takes(a, d.seq, d.data, b)
                    /\ \/ "FIN" \notin d.flags /\ e = b
                       \/ /\ "FIN" \in d.flags
                          /\ e = TryConsumeFin([b EXCEPT !.peerFinSeq = {d.seq}])
    BY <1>2 DEF Heard
  <2> HIDE DEF e
  <2>2. Receiver(a, rd, fin, N, f, R)
    BY <2>1, ReceiverSame DEF Drops
  <2>3. d.data # <<>> => Part(N, f, d.seq, d.data)
    BY DEF Told
  <2>4. PICK R2 \in Nat : R2 >= R /\ Receiver(b, rd, fin, N, f, R2)
    BY <1>0, <2>1, <2>2, <2>3, ReceiverTakes
  <2>5. CASE "FIN" \notin d.flags /\ e = b
    BY <2>4, <2>5 DEF e
  <2>6. CASE "FIN" \in d.flags /\ e = TryConsumeFin([b EXCEPT !.peerFinSeq = {d.seq}])
    <3> DEFINE g == [b EXCEPT !.peerFinSeq = {d.seq}]
    <3>1. fin /\ d.seq = Num(N)
      BY <2>6 DEF Told
    <3>2. b \in Conns /\ {d.seq} \in SUBSET Seqs
      BY <1>0, <2>1 DEF Takes, Sound
    <3>3. /\ g \in Conns /\ g.recvNext = b.recvNext /\ g.recvOoo = b.recvOoo
          /\ g.recvDeliver = b.recvDeliver /\ g.peerFin = b.peerFin
          /\ g.writeShut = b.writeShut /\ g.peerFinSeq = {d.seq}
      BY ONLY <3>2 DEF Conns
    <3> HIDE DEF g
    <3>4. \A fs \in g.peerFinSeq : fin /\ fs = Num(N)
      BY <3>1, <3>3
    <3>5. Receiver(g, rd, fin, N, f, R2)
      BY <2>4, <3>3, <3>4 DEF Receiver
    <3>6. \E R3 \in Nat : R3 >= R2 /\ Receiver(TryConsumeFin(g), rd, fin, N, f, R3)
      BY <3>3, <3>5, ReceiverFin
    <3> QED BY <1>0, <2>4, <2>6, <3>6 DEF g, e
  <2> QED BY <2>1, <2>5, <2>6
<1> QED BY <1>1, <1>2, OnSegmentIs

\* To the sender a datagram is an acknowledgement.
LEMMA SenderHears ==
  ASSUME NEW p \in Ends, NEW c, Sound(c), NEW d \in Outgoing, NEW w, NEW N, NEW f,
         Sender(p, c, w, N, f)
  PROVE  /\ Sender(p, OnSegment(p, c, d), w, N, f)
         /\ OnSegment(p, c, d).finSent = c.finSent
         /\ OnSegment(p, c, d).appEof = c.appEof
         /\ OnSegment(p, c, d).writeShut = c.writeShut
<1> DEFINE e == OnSegment(p, c, d)
<1>0. c \in Conns /\ d.seq \in Seqs /\ d.data \in Seq(Nat)
  BY DEF Sound, Outgoing
<1>1. CASE Echo(p, c, e)
  BY <1>0, <1>1, SenderEcho DEF Echo, SameSend, SameRecv
<1>2. CASE Heard(p, c, d, e)
  <2>1. PICK a, b : /\ Sound(a) /\ Drops(p, c, a) /\ Takes(a, d.seq, d.data, b)
                    /\ \/ "FIN" \notin d.flags /\ e = b
                       \/ /\ "FIN" \in d.flags
                          /\ e = TryConsumeFin([b EXCEPT !.peerFinSeq = {d.seq}])
    BY <1>2 DEF Heard
  <2> HIDE DEF e
  <2>2. Sender(p, a, w, N, f) /\ a.finSent = c.finSent /\ a.appEof = c.appEof
        /\ a.writeShut = c.writeShut
    BY <1>0, <2>1, SenderDrops DEF Drops, SameRecv
  <2>3. SameDown(a, b) /\ b.writeShut = a.writeShut
    <3>1. CASE ~Full(a) /\ \/ SameRecv(Delivered(a, d.data), b)
                           \/ SameRecv(TryConsumeFin(Delivered(a, d.data)), b)
      <4> DEFINE g == Delivered(a, d.data)
      <4>1. Sound(g) /\ g.writeShut = a.writeShut
        BY <1>0, <2>1, <3>1, DeliveredIs
      <4>2. SameRecv(g, b) \/ SameRecv(TryConsumeFin(g), b)
        BY <3>1
      <4> HIDE DEF g
      <4>3. TryConsumeFin(g).writeShut = g.writeShut
        BY <4>1, TryConsumeFinIs DEF Sound
      <4> QED BY <2>1, <4>1, <4>2, <4>3 DEF SameRecv, Takes
    <3> QED BY <2>1, <3>1 DEF Takes, SameRecv, Holds
  <2>4. Sender(p, b, w, N, f) /\ b.finSent = c.finSent /\ b.appEof = c.appEof
        /\ b.writeShut = c.writeShut
    BY <2>2, <2>3, SenderSame DEF SameDown, SameSend
  <2>5. CASE "FIN" \notin d.flags /\ e = b
    BY <2>4, <2>5 DEF e
  <2>6. CASE "FIN" \in d.flags /\ e = TryConsumeFin([b EXCEPT !.peerFinSeq = {d.seq}])
    <3> DEFINE g == [b EXCEPT !.peerFinSeq = {d.seq}]
    <3>1. b \in Conns /\ {d.seq} \in SUBSET Seqs
      BY <1>0, <2>1 DEF Takes, Sound
    <3>2. g \in Conns /\ SameDown(b, g) /\ g.writeShut = b.writeShut
      BY ONLY <3>1 DEF Conns, SameDown, SameSend, SameLife
    <3> HIDE DEF g
    <3>3. SameDown(g, TryConsumeFin(g)) /\ TryConsumeFin(g).writeShut = g.writeShut
      BY <3>2, TryConsumeFinIs
    <3>4. SameSend(b, e) /\ e.out = b.out /\ e.writeShut = b.writeShut
      BY <2>6, <3>2, <3>3 DEF g, SameDown, SameSend
    <3>5. Sender(p, e, w, N, f)
      BY <2>4, <3>4, SenderSame
    <3> QED BY <2>4, <3>4, <3>5 DEF e, SameSend
  <2> QED BY <2>1, <2>5, <2>6
<1> QED BY <1>1, <1>2, OnSegmentIs

\* The first piece that waits, and those after it.
LEMMA FollowsFront ==
  ASSUME NEW s \in Seq(Seq(Nat)), s # <<>>, NEW a \in Nat, NEW e, Follows(s, a, e)
  PROVE  \E b \in Nat : a <= b /\ Head(s) = Stretch(a, b) /\ Follows(Tail(s), b, e)
<1> DEFINE L == Len(s)
           t == Tail(s)
<1>1. /\ L \in Nat \ {0} /\ Head(s) = s[1] /\ Len(t) = L - 1
      /\ \A i \in 1 .. L - 1 : t[i] = s[i + 1]
  OBVIOUS
<1> HIDE DEF t
<1>2. PICK g \in [Nat -> Nat] :
        /\ g[0] = a /\ g[L] = e
        /\ \A i, j \in 0..L : i <= j => g[i] <= g[j]
        /\ \A i \in 1..L : s[i] = Stretch(g[i - 1], g[i])
  BY DEF Follows
<1> HIDE DEF L
<1> DEFINE h == [i \in Nat |-> g[i + 1]]
<1>3. h \in [Nat -> Nat] /\ \A i \in Nat : h[i] = g[i + 1]
  <2>1. \A i \in Nat : i + 1 \in Nat
    OBVIOUS
  <2>2. \A i \in Nat : g[i + 1] \in Nat
    BY <2>1
  <2> QED BY <2>2
<1> HIDE DEF h
<1>4. h[0] = g[1] /\ h[L - 1] = e
  <2>1. L - 1 \in Nat /\ (L - 1) + 1 = L /\ 0 + 1 = 1
    BY <1>1
  <2> QED BY <1>2, <1>3, <2>1
<1>5. \A i, j \in 0 .. L - 1 : i <= j => h[i] <= h[j]
  <2> SUFFICES ASSUME NEW i \in 0 .. L - 1, NEW j \in 0 .. L - 1, i <= j PROVE h[i] <= h[j]
    OBVIOUS
  <2>1. i \in Nat /\ j \in Nat /\ i + 1 \in 0..L /\ j + 1 \in 0..L /\ i + 1 <= j + 1
    BY <1>1
  <2> QED BY <1>2, <1>3, <2>1
<1>6. \A i \in 1 .. L - 1 : t[i] = Stretch(h[i - 1], h[i])
  <2> SUFFICES ASSUME NEW i \in 1 .. L - 1 PROVE t[i] = Stretch(h[i - 1], h[i])
    OBVIOUS
  <2>1. /\ i \in Nat /\ i - 1 \in Nat /\ (i - 1) + 1 = i /\ i + 1 \in 1..L
        /\ (i + 1) - 1 = i
    BY <1>1
  <2>2. s[i + 1] = Stretch(g[i], g[i + 1])
    BY <1>2, <2>1
  <2> QED BY <1>1, <1>3, <2>1, <2>2
<1>7. Follows(t, g[1], e)
  BY <1>1, <1>3, <1>4, <1>5, <1>6 DEF Follows
<1>8. g[1] \in Nat /\ a <= g[1] /\ Head(s) = Stretch(a, g[1])
  <2>1. 0 \in 0..L /\ 1 \in 0..L /\ 1 \in 1..L /\ 1 - 1 = 0 /\ 0 <= 1
    BY <1>1
  <2> QED BY <1>1, <1>2, <2>1
<1> QED BY <1>7, <1>8 DEF t

LEMMA FollowsOne ==
  ASSUME NEW a \in Nat, NEW b \in Nat, a <= b, NEW x, x = Stretch(a, b)
  PROVE  <<x>> \in Seq(Seq(Nat)) /\ Follows(<<x>>, a, b)
<1> DEFINE g == [i \in Nat |-> IF i = 0 THEN a ELSE b]
           s == <<x>>
<1>1. g \in [Nat -> Nat] /\ g[0] = a /\ g[1] = b
  OBVIOUS
<1>2. Len(s) = 1 /\ s[1] = x
  OBVIOUS
<1>3. x \in Seq(Nat)
  BY StretchIs
<1> HIDE DEF g
<1>4. \A i, j \in 0..1 : i <= j => g[i] <= g[j]
  <2> SUFFICES ASSUME NEW i \in 0..1, NEW j \in 0..1, i <= j PROVE g[i] <= g[j]
    OBVIOUS
  <2>1. (i = 0 /\ j = 0) \/ (i = 0 /\ j = 1) \/ (i = 1 /\ j = 1)
    OBVIOUS
  <2> QED BY <1>1, <2>1
<1>5. s \in Seq(Seq(Nat))
  BY <1>3
<1> HIDE DEF s
<1>6. \A i \in 1..1 : s[i] = Stretch(g[i - 1], g[i])
  <2> SUFFICES ASSUME NEW i \in 1..1 PROVE s[i] = Stretch(g[i - 1], g[i])
    OBVIOUS
  <2>1. i = 1 /\ i - 1 = 0
    OBVIOUS
  <2> QED BY <1>1, <1>2, <2>1
<1>7. Follows(s, a, b)
  BY <1>1, <1>2, <1>4, <1>6 DEF Follows
<1> QED BY <1>5, <1>7 DEF s

LEMMA FollowsEnds ==
  ASSUME NEW s \in Seq(Seq(Nat)), NEW a, NEW e, Follows(s, a, e)
  PROVE  a \in Nat /\ e \in Nat /\ a <= e /\ (s = <<>> => a = e)
<1>1. Len(s) \in Nat /\ 0 \in 0..Len(s) /\ Len(s) \in 0..Len(s) /\ 0 <= Len(s)
      /\ (s = <<>> => Len(s) = 0)
  OBVIOUS
<1>2. PICK g \in [Nat -> Nat] :
        /\ g[0] = a /\ g[Len(s)] = e
        /\ \A i, j \in 0..Len(s) : i <= j => g[i] <= g[j]
  BY DEF Follows
<1>3. g[0] \in Nat /\ g[Len(s)] \in Nat
  BY <1>1
<1> QED BY <1>1, <1>2, <1>3

\* Reading goes on where it had got to.
LEMMA ReceiverReads ==
  ASSUME NEW c, Sound(c), c.recvDeliver # <<>>, NEW n \in 1..Len(Head(c.recvDeliver)),
         NEW rd \in Seq(Nat), NEW fin, NEW N, NEW f, NEW R, Receiver(c, rd, fin, N, f, R)
  PROVE  /\ Receiver(Consumed(c, n), rd \o SubSeq(Head(c.recvDeliver), 1, n), fin, N, f, R)
         /\ Len(rd \o SubSeq(Head(c.recvDeliver), 1, n)) = Len(rd) + n
<1> DEFINE a == Len(rd)
           e == f[Reach(N, R)]
           front == Head(c.recvDeliver)
           rest == Tail(c.recvDeliver)
           more == SubSeq(front, 1, n)
           left == SubSeq(front, n + 1, Len(front))
           d == Consumed(c, n)
<1>1. c.recvDeliver \in Seq(Seq(Nat)) /\ a \in Nat
  BY SoundParts
<1>2. rd = Stretch(0, a) /\ Follows(c.recvDeliver, a, e)
  BY DEF Receiver
<1>3. PICK b \in Nat : a <= b /\ front = Stretch(a, b) /\ Follows(rest, b, e)
  BY <1>1, <1>2, FollowsFront
<1>4. rest \in Seq(Seq(Nat))
  BY <1>1
<1>5. /\ d.recvNext = c.recvNext /\ d.recvOoo = c.recvOoo /\ d.peerFin = c.peerFin
      /\ d.peerFinSeq = c.peerFinSeq /\ d.writeShut = c.writeShut
      /\ \/ n = Len(front) /\ d.recvDeliver = rest
         \/ n < Len(front) /\ d.recvDeliver = <<left>> \o rest
  BY ConsumedIs
<1>6. ~c.writeShut
  BY DEF Receiver
<1>7. n \in 1..Len(front)
  OBVIOUS
<1> HIDE DEF a, e, front, rest, d
<1>8. Len(front) = b - a /\ n \in Nat /\ n <= b - a /\ n >= 1
  <2>1. Len(front) = b - a
    BY <1>1, <1>3, StretchIs
  <2> QED BY <1>1, <1>3, <1>7, <2>1
<1>9. more = Stretch(a, a + n)
  <2> DEFINE z == 0
  <2>1. z \in Nat /\ z <= n
    BY <1>8
  <2>2. z + 1 = 1 /\ a + z = a
    BY <1>1
  <2> HIDE DEF z
  <2>3. Slice(Stretch(a, b), z + 1, n) = Stretch(a + z, a + n)
    BY <1>1, <1>3, <1>8, <2>1, StretchPart
  <2> QED BY <1>3, <2>2, <2>3 DEF Slice
<1>10. left = Stretch(a + n, b)
  <2> DEFINE l == b - a
  <2>1. l \in Nat /\ n <= l /\ l <= b - a /\ a + l = b /\ l = Len(front)
    BY <1>1, <1>3, <1>8
  <2> HIDE DEF l
  <2>2. Slice(Stretch(a, b), n + 1, l) = Stretch(a + n, a + l)
    BY <1>1, <1>3, <1>8, <2>1, StretchPart
  <2> QED BY <1>3, <2>1, <2>2 DEF Slice
<1> HIDE DEF more, left
<1>11. a + n \in Nat /\ a + n <= b /\ a <= a + n /\ 0 <= a /\ 0 <= a + n
  BY <1>1, <1>3, <1>8
<1> DEFINE rd2 == rd \o more
<1>12. rd2 = Stretch(0, a + n)
  <2> DEFINE z == 0
  <2>1. z \in Nat /\ z <= a /\ rd = Stretch(z, a)
    BY <1>2, <1>11
  <2> HIDE DEF z
  <2>2. Stretch(z, a) \o Stretch(a, a + n) = Stretch(z, a + n)
    BY <1>1, <1>11, <2>1, StretchMore
  <2> QED BY <1>9, <2>1, <2>2 DEF z
<1> HIDE DEF rd2
<1>13. Len(rd2) = a + n
  <2>1. Len(Stretch(0, a + n)) = (a + n) - 0
    BY <1>11, StretchIs
  <2> QED BY <1>11, <1>12, <2>1
<1>14. Follows(d.recvDeliver, a + n, e)
  <2>1. CASE n = Len(front) /\ d.recvDeliver = rest
    <3>1. a + n = b
      BY <1>1, <1>3, <1>8, <2>1
    <3> QED BY <1>3, <2>1, <3>1
  <2>2. CASE n < Len(front) /\ d.recvDeliver = <<left>> \o rest
    <3>1. <<left>> \in Seq(Seq(Nat)) /\ Follows(<<left>>, a + n, b)
      BY <1>3, <1>10, <1>11, FollowsOne
    <3> DEFINE one == <<left>>
    <3> HIDE DEF one
    <3>2. Follows(one \o rest, a + n, e)
      BY <1>3, <1>4, <3>1, FollowsMore DEF one
    <3> QED BY <2>2, <3>2 DEF one
  <2> QED BY <1>5, <2>1, <2>2
<1>15. Receiver(d, rd2, fin, N, f, R)
  <2>1. rd2 = Stretch(0, Len(rd2)) /\ Follows(d.recvDeliver, Len(rd2), f[Reach(N, R)])
    BY <1>12, <1>13, <1>14 DEF e
  <2>2. /\ R \in 0 .. N + 1 /\ c.recvNext = Num(R) /\ (R = N + 1 => fin)
        /\ (c.peerFin => R = N + 1) /\ (\A fs \in c.peerFinSeq : fin /\ fs = Num(N))
        /\ \A o \in c.recvOoo : Part(N, f, o.seq, o.data)
    BY DEF Receiver
  <2>3. ~d.writeShut
    BY <1>5, <1>6
  <2> QED BY <1>5, <2>1, <2>2, <2>3, Zenon DEF Receiver
<1> QED BY <1>13, <1>15 DEF a, front, more, rd2, d

\* No more is read than was written, and the FIN is the end of it.
LEMMA ReceiverWithin ==
  ASSUME NEW c, Sound(c), NEW rd, NEW fin, NEW N, NEW f, NEW w \in Nat, Marks(N, f, w),
         NEW R, Receiver(c, rd, fin, N, f, R)
  PROVE  /\ Len(rd) <= w
         /\ c.writeShut => fin /\ Len(rd) = f[N]
<1>1. /\ N \in Nat /\ f \in [Nat -> Nat] /\ f[N] <= w
      /\ \A i, j \in 0..N : i <= j => f[i] <= f[j]
  BY DEF Marks
<1>2. R \in 0 .. N + 1 /\ Follows(c.recvDeliver, Len(rd), f[Reach(N, R)])
  BY DEF Receiver
<1>3. /\ Len(rd) \in Nat /\ Len(rd) <= f[Reach(N, R)]
      /\ (c.recvDeliver = <<>> => Len(rd) = f[Reach(N, R)])
  BY <1>2, SoundParts, FollowsEnds
<1>4. Reach(N, R) \in 0..N /\ N \in 0..N /\ Reach(N, R) <= N
  BY <1>1, <1>2 DEF Reach
<1>5. f[Reach(N, R)] <= f[N] /\ f[N] \in Nat /\ f[Reach(N, R)] \in Nat
  BY <1>1, <1>4
<1>6. Len(rd) <= w
  <2> DEFINE x == f[Reach(N, R)]
             y == f[N]
             z == Len(rd)
  <2>1. x \in Nat /\ y \in Nat /\ z \in Nat /\ z <= x /\ x <= y /\ y <= w
    BY <1>1, <1>3, <1>5
  <2> HIDE DEF x, y, z
  <2>2. z <= w
    BY <2>1
  <2> QED BY <2>2 DEF z
<1>7. ASSUME c.writeShut PROVE fin /\ Len(rd) = f[N]
  <2>1. R = N + 1 /\ fin /\ c.recvDeliver = <<>>
    BY <1>7 DEF Receiver
  <2>2. Reach(N, R) = N
    BY <1>1, <2>1 DEF Reach
  <2> QED BY <1>3, <2>1, <2>2
<1> QED BY <1>6, <1>7

-----------------------------------------------------------------------------
(* Both directions, over a round.                                          *)

LEMMA PumpKeeps ==
  ASSUME NEW p \in Ends, NEW c, Sound(c), NEW d, Pumps(p, c, d)
  PROVE  SameRecv(c, d) /\ d.appEof = c.appEof
<1>1. SameRecv(c, d)
  BY PumpedIs DEF Pumps, SameRecv
<1>2. d.appEof = c.appEof
  BY PumpedIs DEF Pumps
<1> QED BY <1>1, <1>2

\* A round keeps what the receiver has, and numbers what the sender sends.
LEMMA RoundCarries ==
  ASSUME NEW p \in Ends, NEW c, Sound(c), NEW rest, Round(p, c, rest),
         NEW w \in Nat, NEW N \in Nat, NEW f \in [Nat -> Nat], Sender(p, c, w, N, f),
         NEW rd, NEW fin, NEW M, NEW g, NEW R, Receiver(c, rd, fin, M, g, R)
  PROVE  \E e : \E N2 \in Nat, f2 \in [Nat -> Nat] :
           /\ conn' = [conn EXCEPT ![p] = e]
           /\ Sender(p, e, w, N2, f2) /\ Grows(c.finSent, N, f, e.finSent, N2, f2)
           /\ Receiver(e, rd, fin, M, g, R)
           /\ e.appEof = c.appEof /\ (c.writeShut => e.writeShut)
           /\ \A d \in net' : \/ d \in rest
                              \/ d.to = Peer(p) /\ Told(e.finSent, N2, f2, d)
           /\ \/ st' = st
              \/ st' = [st EXCEPT ![p] = "ended"]
<1>1. CASE /\ st' = [st EXCEPT ![p] = "ended"]
           /\ conn' = [conn EXCEPT ![p] = [c EXCEPT !.out = {}]]
           /\ net' \subseteq rest
           /\ \E d \in {[c EXCEPT !.out = {}]} :
                Sound(d) /\ SameRecv(c, d) /\ SameSend(c, d) /\ SameLife(c, d) /\ d.out = {}
  <2> DEFINE e == [c EXCEPT !.out = {}]
  <2>1. SameRecv(c, e) /\ SameSend(c, e) /\ e.out = {} /\ conn' = [conn EXCEPT ![p] = e]
    BY <1>1
  <2> HIDE DEF e
  <2>2. Sender(p, e, w, N, f) /\ Receiver(e, rd, fin, M, g, R)
    BY <2>1, SenderSame, ReceiverSame
  <2>3. e.finSent = c.finSent /\ e.appEof = c.appEof /\ e.writeShut = c.writeShut
    BY <2>1 DEF SameSend, SameRecv
  <2>4. Grows(c.finSent, N, f, e.finSent, N, f)
    BY <2>3, GrowsSame
  <2>5. \A d \in net' : d \in rest
    BY <1>1
  <2>6. c.writeShut => e.writeShut
    BY <2>3, Zenon
  <2>7. st' = [st EXCEPT ![p] = "ended"]
    BY <1>1
  <2> QED BY <2>1, <2>2, <2>3, <2>4, <2>5, <2>6, <2>7, Zenon
<1>2. CASE /\ ~c.fatal /\ st' = st
           /\ \E d : /\ Pumps(p, c, d) /\ Sound(d)
                     /\ LET s == AckIfDue(p, MaybeSendFin(p, d))
                        IN /\ Sound(s) /\ conn' = [conn EXCEPT ![p] = Shut(s)]
                           /\ net' \subseteq rest \cup s.out
  <2>1. PICK d : /\ Pumps(p, c, d) /\ Sound(d)
                 /\ LET s == AckIfDue(p, MaybeSendFin(p, d))
                    IN /\ Sound(s) /\ conn' = [conn EXCEPT ![p] = Shut(s)]
                       /\ net' \subseteq rest \cup s.out
    BY <1>2, Zenon
  <2> DEFINE m == MaybeSendFin(p, d)
             s == AckIfDue(p, m)
             e == Shut(s)
  <2>2. Sound(s) /\ conn' = [conn EXCEPT ![p] = e] /\ net' \subseteq rest \cup s.out
    BY <2>1
  <2>3. PICK N2 \in Nat, f2 \in [Nat -> Nat] :
          /\ Sender(p, s, w, N2, f2) /\ Sender(p, e, w, N2, f2)
          /\ Grows(c.finSent, N, f, s.finSent, N2, f2)
    BY <2>1, SenderRound
  <2>4. SameRecv(c, d) /\ d.appEof = c.appEof
    BY <2>1, PumpKeeps
  <2>5. Sound(m) /\ SameRecv(d, m) /\ m.appEof = d.appEof
    BY <2>1, MaybeSendFinIs, MaybeSendFinIsSound DEF SameRecv
  <2> HIDE DEF m
  <2>6. Echo(p, m, s)
    BY <2>5, AckIfDueIs
  <2> HIDE DEF s
  <2>7. Receiver(s, rd, fin, M, g, R)
    BY <2>4, <2>5, <2>6, ReceiverSame DEF Echo
  <2>8. Receiver(e, rd, fin, M, g, R)
    BY <2>2, <2>7, ReceiverShuts
  <2>9. SameSend(s, e) /\ e.writeShut = (s.writeShut \/ (s.peerFin /\ s.recvDeliver = <<>>))
    BY <2>2, ShutIs
  <2>10. s.writeShut = c.writeShut /\ s.appEof = c.appEof
    BY <2>4, <2>5, <2>6 DEF Echo, SameRecv, SameSend
  <2> HIDE DEF e
  <2>11. c.writeShut => e.writeShut
    BY <2>9, <2>10, Zenon
  <2>12. e.appEof = c.appEof /\ e.finSent = s.finSent
    BY <2>9, <2>10 DEF SameSend
  <2>13. \A x \in s.out : x.to = Peer(p) /\ Told(s.finSent, N2, f2, x)
    BY <2>3 DEF Sender
  <2>14. \A x \in net' : x \in rest \/ (x.to = Peer(p) /\ Told(e.finSent, N2, f2, x))
    BY <2>2, <2>12, <2>13
  <2>15. Grows(c.finSent, N, f, e.finSent, N2, f2)
    BY <2>3, <2>12
  <2>16. e.appEof = c.appEof /\ conn' = [conn EXCEPT ![p] = e] /\ Sender(p, e, w, N2, f2)
    BY <2>2, <2>3, <2>12
  <2>17. st' = st
    BY <1>2
  <2> QED BY <2>8, <2>11, <2>14, <2>15, <2>16, <2>17, Zenon
<1> QED BY <1>1, <1>2, RoundIs

\* What end p sends lies in its stream, and its peer has got some way in it.
Stream(p, N, f, R) ==
  /\ Sender(p, conn[p], wrote[p], N, f)
  /\ Receiver(conn[Peer(p)], read[Peer(p)], conn[p].finSent, N, f, R)
  /\ \A d \in net : d.to = Peer(p) => Told(conn[p].finSent, N, f, d)

Streams ==
  \A p \in Ends : \E N \in Nat, f \in [Nat -> Nat], R \in Nat : Stream(p, N, f, R)

\* A round of end p whose event has left c behind, in both directions.
LEMMA RoundStreams ==
  ASSUME conn \in [Ends -> Conns], NEW p \in Ends, NEW c, Sound(c), NEW rest \in SUBSET net,
         Round(p, c, rest), wrote'[p] \in Nat,
         wrote'[Peer(p)] = wrote[Peer(p)], read'[Peer(p)] = read[Peer(p)],
         c.finSent = conn[p].finSent,
         NEW N \in Nat, NEW f \in [Nat -> Nat], NEW R \in Nat,
         Sender(p, c, wrote'[p], N, f), Stream(p, N, f, R),
         NEW M \in Nat, NEW g \in [Nat -> Nat], NEW S \in Nat, NEW S2 \in Nat,
         Stream(Peer(p), M, g, S),
         Receiver(c, read'[p], conn[Peer(p)].finSent, M, g, S2)
  PROVE  /\ Streams'
         /\ conn'[Peer(p)] = conn[Peer(p)] /\ conn'[p].appEof = c.appEof
         /\ c.writeShut => conn'[p].writeShut
         /\ st' = st \/ st' = [st EXCEPT ![p] = "ended"]
<1> DEFINE q == Peer(p)
<1>1. q \in Ends /\ q # p /\ Peer(q) = p /\ \A x \in Ends : x = p \/ x = q
  BY PeerIs DEF Ends
<1> HIDE DEF q
<1>2. /\ Receiver(conn[q], read[q], conn[p].finSent, N, f, R)
      /\ \A d \in net : d.to = q => Told(conn[p].finSent, N, f, d)
  BY DEF Stream, q
<1>3. /\ Sender(q, conn[q], wrote[q], M, g)
      /\ \A d \in net : d.to = p => Told(conn[q].finSent, M, g, d)
  BY <1>1 DEF Stream, q
<1>4. PICK e : \E N2 \in Nat, f2 \in [Nat -> Nat] :
        /\ conn' = [conn EXCEPT ![p] = e]
        /\ Sender(p, e, wrote'[p], N2, f2) /\ Grows(c.finSent, N, f, e.finSent, N2, f2)
        /\ Receiver(e, read'[p], conn[q].finSent, M, g, S2)
        /\ e.appEof = c.appEof /\ (c.writeShut => e.writeShut)
        /\ \A d \in net' : \/ d \in rest
                           \/ d.to = q /\ Told(e.finSent, N2, f2, d)
        /\ \/ st' = st
           \/ st' = [st EXCEPT ![p] = "ended"]
  <2> DEFINE w == wrote'[p]
             rd == read'[p]
             fin == conn[q].finSent
  <2>1. w \in Nat /\ Sender(p, c, w, N, f) /\ Receiver(c, rd, fin, M, g, S2) /\ q = Peer(p)
    BY DEF q
  <2> HIDE DEF w, rd, fin
  <2>2. \E e : \E N2 \in Nat, f2 \in [Nat -> Nat] :
          /\ conn' = [conn EXCEPT ![p] = e]
          /\ Sender(p, e, w, N2, f2) /\ Grows(c.finSent, N, f, e.finSent, N2, f2)
          /\ Receiver(e, rd, fin, M, g, S2)
          /\ e.appEof = c.appEof /\ (c.writeShut => e.writeShut)
          /\ \A d \in net' : \/ d \in rest
                             \/ d.to = Peer(p) /\ Told(e.finSent, N2, f2, d)
          /\ \/ st' = st
             \/ st' = [st EXCEPT ![p] = "ended"]
    BY <2>1, RoundCarries
  <2> QED BY <2>1, <2>2, Zenon DEF w, rd, fin
<1>9. PICK N2 \in Nat, f2 \in [Nat -> Nat] :
        /\ conn' = [conn EXCEPT ![p] = e]
        /\ Sender(p, e, wrote'[p], N2, f2) /\ Grows(c.finSent, N, f, e.finSent, N2, f2)
        /\ Receiver(e, read'[p], conn[q].finSent, M, g, S2)
        /\ e.appEof = c.appEof /\ (c.writeShut => e.writeShut)
        /\ \A d \in net' : \/ d \in rest
                           \/ d.to = q /\ Told(e.finSent, N2, f2, d)
        /\ \/ st' = st
           \/ st' = [st EXCEPT ![p] = "ended"]
  BY <1>4
<1>5. conn'[p] = e /\ conn'[q] = conn[q] /\ wrote'[q] = wrote[q] /\ read'[q] = read[q]
  BY <1>1, <1>9 DEF q
<1>6. Stream(p, N2, f2, R)'
  <2>1. Receiver(conn'[q], read'[q], conn'[p].finSent, N2, f2, R)
    BY <1>2, <1>9, <1>5, ReceiverGrows
  <2>2. ASSUME NEW d \in net', d.to = q PROVE Told(conn'[p].finSent, N2, f2, d)
    <3>1. CASE d \in rest
      BY <1>2, <1>9, <1>5, <2>2, <3>1, ToldGrows
    <3> QED BY <1>9, <1>5, <3>1
  <2> QED BY <1>9, <1>5, <2>1, <2>2 DEF Stream, q
<1>7. Stream(q, M, g, S2)'
  <2>1. ASSUME NEW d \in net', d.to = p PROVE Told(conn'[q].finSent, M, g, d)
    BY <1>1, <1>3, <1>9, <1>5, <2>1
  <2> QED BY <1>1, <1>3, <1>9, <1>5, <2>1 DEF Stream
<1>8. Streams'
  BY <1>1, <1>6, <1>7 DEF Streams
<1> QED BY <1>9, <1>5, <1>8 DEF q

-----------------------------------------------------------------------------
(* The invariant of the two streams, action by action.                     *)

\* A clean end of file was read after the shutdown, a cut one after the end.
Eofs ==
  \A p \in Ends : /\ eof[p] = "clean" => conn[p].writeShut
                  /\ eof[p] = "cut" => st[p] = "ended"

PipeInv ==
  /\ TypeInv
  /\ Streams
  /\ \A p \in Ends : wrote[p] <= MaxBytes[p]
  /\ Eofs

LEMMA StreamIsShort ==
  ASSUME PipeInv, ShortStream, NEW p \in Ends, NEW N, NEW f, NEW R, Stream(p, N, f, R)
  PROVE  Short(N) /\ Marks(N, f, wrote[p])
<1>1. Marks(N, f, wrote[p])
  BY DEF Stream, Sender
<1> DEFINE w == wrote[p]
           b == MaxBytes[p]
           h == SeqSpace \div 2
           e == f[N]
<1>2. b \in Nat /\ w \in Nat /\ h \in Nat
  BY Limits, Space DEF PipeInv, TypeInv, TypeOK
<1>3. N \in Nat /\ e \in Nat /\ N <= e /\ e <= w /\ w <= b /\ b < h
  BY <1>1 DEF Marks, PipeInv, ShortStream
<1> HIDE DEF w, b, h, e
<1>4. N < h
  BY <1>2, <1>3
<1> QED BY <1>1, <1>3, <1>4 DEF Short, h

\* What the event of a round has made of end p fits the two streams.
FitsOut(p, c, w) ==
  /\ c.finSent = conn[p].finSent
  /\ \A N \in Nat, f \in [Nat -> Nat], R \in Nat :
       Stream(p, N, f, R) => Sender(p, c, w, N, f)
FitsIn(p, c, rd) ==
  /\ c.writeShut = conn[p].writeShut
  /\ \A N \in Nat, f \in [Nat -> Nat], R \in Nat :
       Stream(Peer(p), N, f, R) =>
         \E R2 \in Nat : R2 >= R /\ Receiver(c, rd, conn[Peer(p)].finSent, N, f, R2)

LEMMA RoundSteps ==
  ASSUME PipeInv, NEW p \in Ends, NEW c, Sound(c), NEW rest \in SUBSET net,
         Round(p, c, rest), wrote'[p] \in Nat,
         wrote'[Peer(p)] = wrote[Peer(p)], read'[Peer(p)] = read[Peer(p)], eof' = eof,
         FitsOut(p, c, wrote'[p]), FitsIn(p, c, read'[p])
  PROVE  /\ Streams' /\ Eofs'
         /\ conn'[Peer(p)] = conn[Peer(p)] /\ conn'[p].appEof = c.appEof
<1>1. Peer(p) \in Ends /\ \A x \in Ends : x = p \/ x = Peer(p)
  BY PeerIs DEF Ends
<1>2. PICK N \in Nat, f \in [Nat -> Nat], R \in Nat : Stream(p, N, f, R)
  BY DEF PipeInv, Streams
<1>3. PICK M \in Nat, g \in [Nat -> Nat], S \in Nat : Stream(Peer(p), M, g, S)
  BY <1>1 DEF PipeInv, Streams
<1>4. Sender(p, c, wrote'[p], N, f) /\ c.finSent = conn[p].finSent
  BY <1>2 DEF FitsOut
<1>5. PICK S2 \in Nat : Receiver(c, read'[p], conn[Peer(p)].finSent, M, g, S2)
  BY <1>3 DEF FitsIn
<1>6. conn \in [Ends -> Conns] /\ st \in [Ends -> {"shaking", "run", "ended"}]
  BY DEF PipeInv, TypeInv, TypeOK
<1>7. /\ Streams'
      /\ conn'[Peer(p)] = conn[Peer(p)] /\ conn'[p].appEof = c.appEof
      /\ c.writeShut => conn'[p].writeShut
      /\ st' = st \/ st' = [st EXCEPT ![p] = "ended"]
  BY <1>2, <1>3, <1>4, <1>5, <1>6, RoundStreams
<1>8. \A x \in Ends : st[x] = "ended" => st'[x] = "ended"
  BY <1>6, <1>7
<1>9. conn[p].writeShut => conn'[p].writeShut
  BY <1>7 DEF FitsIn
<1>10. Eofs'
  BY <1>1, <1>7, <1>8, <1>9 DEF Eofs, PipeInv
<1> QED BY <1>7, <1>10

LEMMA EchoFits ==
  ASSUME conn \in [Ends -> Conns], NEW p \in Ends, NEW c, Echo(p, conn[p], c)
  PROVE  FitsOut(p, c, wrote[p]) /\ FitsIn(p, c, read[p])
<1>1. conn[p] \in Conns /\ Peer(Peer(p)) = p /\ Peer(p) \in Ends
  BY PeerIs
<1>2. c.finSent = conn[p].finSent /\ c.writeShut = conn[p].writeShut /\ SameRecv(conn[p], c)
  BY DEF Echo, SameSend, SameRecv
<1>3. ASSUME NEW N \in Nat, NEW f \in [Nat -> Nat], NEW R \in Nat, Stream(p, N, f, R)
      PROVE  Sender(p, c, wrote[p], N, f)
  BY <1>1, <1>3, SenderEcho DEF Stream
<1>4. ASSUME NEW N \in Nat, NEW f \in [Nat -> Nat], NEW R \in Nat, Stream(Peer(p), N, f, R)
      PROVE  Receiver(c, read[p], conn[Peer(p)].finSent, N, f, R)
  BY <1>1, <1>2, <1>4, ReceiverSame DEF Stream
<1> QED BY <1>2, <1>3, <1>4 DEF FitsOut, FitsIn

LEMMA HeardFits ==
  ASSUME PipeInv, ShortStream, NEW p \in Ends, NEW d \in net, d.to = p
  PROVE  /\ FitsOut(p, OnSegment(p, conn[p], d), wrote[p])
         /\ FitsIn(p, OnSegment(p, conn[p], d), read[p])
         /\ OnSegment(p, conn[p], d).appEof = conn[p].appEof
<1> DEFINE o == conn[p]
           c == OnSegment(p, o, d)
           q == Peer(p)
           w == wrote[p]
           rd == read[p]
           fin == conn[q].finSent
<1>1. Sound(o) /\ d \in Outgoing
  BY DEF PipeInv, TypeInv, TypeOK, Alive
<1>2. q \in Ends /\ Peer(q) = p
  BY PeerIs
<1>3. ASSUME NEW N \in Nat, NEW f \in [Nat -> Nat], NEW R \in Nat, Stream(p, N, f, R)
      PROVE  /\ Sender(p, c, w, N, f) /\ c.finSent = o.finSent /\ c.appEof = o.appEof
             /\ c.writeShut = o.writeShut
  <2>1. Sender(p, o, w, N, f)
    BY <1>3 DEF Stream
  <2> HIDE DEF o, w
  <2> QED BY <1>1, <2>1, SenderHears
<1>4. \E N \in Nat, f \in [Nat -> Nat], R \in Nat : Stream(p, N, f, R)
  BY DEF PipeInv, Streams
<1>5. c.finSent = o.finSent /\ c.appEof = o.appEof /\ c.writeShut = o.writeShut
  BY <1>3, <1>4
<1>6. ASSUME NEW N \in Nat, NEW f \in [Nat -> Nat], NEW R \in Nat, Stream(q, N, f, R)
      PROVE  \E R2 \in Nat : R2 >= R /\ Receiver(c, rd, fin, N, f, R2)
  <2>1. Receiver(o, rd, fin, N, f, R) /\ Told(fin, N, f, d)
    BY <1>2, <1>6 DEF Stream
  <2>2. Short(N) /\ \A i, j \in 0..N : i <= j => f[i] <= f[j]
    BY <1>2, <1>6, StreamIsShort DEF Marks
  <2> HIDE DEF o, rd, fin
  <2> QED BY <1>1, <2>1, <2>2, ReceiverHears
<1> QED BY <1>3, <1>5, <1>6 DEF FitsOut, FitsIn

LEMMA WrittenFits ==
  ASSUME PipeInv, NEW p \in Ends, ~conn[p].finSent, NEW n \in Nat
  PROVE  /\ FitsOut(p, Written(conn[p], wrote[p], n), wrote[p] + n)
         /\ FitsIn(p, Written(conn[p], wrote[p], n), read[p])
         /\ Written(conn[p], wrote[p], n).appEof = conn[p].appEof
<1> DEFINE o == conn[p]
           w == wrote[p]
           c == Written(o, w, n)
<1>1. Sound(o) /\ w \in Nat
  BY DEF PipeInv, TypeInv, TypeOK, Alive
<1>2. Peer(p) \in Ends /\ Peer(Peer(p)) = p
  BY PeerIs
<1>3. c.finSent = o.finSent /\ c.appEof = o.appEof /\ SameRecv(o, c)
  <2> HIDE DEF o, w
  <2> QED BY <1>1, WrittenIs
<1>4. ASSUME NEW N \in Nat, NEW f \in [Nat -> Nat], NEW R \in Nat, Stream(p, N, f, R)
      PROVE  Sender(p, c, w + n, N, f)
  <2>1. Sender(p, o, w, N, f)
    BY <1>4 DEF Stream
  <2> HIDE DEF o, w
  <2> QED BY <1>1, <2>1, SenderWrites DEF o
<1> HIDE DEF c
<1>5. ASSUME NEW N \in Nat, NEW f \in [Nat -> Nat], NEW R \in Nat, Stream(Peer(p), N, f, R)
      PROVE  Receiver(c, read[p], conn[Peer(p)].finSent, N, f, R)
  BY <1>2, <1>3, <1>5, ReceiverSame DEF Stream
<1>6. c.writeShut = o.writeShut
  BY <1>3 DEF SameRecv
<1>7. FitsOut(p, c, w + n) /\ FitsIn(p, c, read[p])
  BY <1>3, <1>4, <1>5, <1>6 DEF FitsOut, FitsIn
<1> QED BY <1>3, <1>7 DEF c

LEMMA ClosedFits ==
  ASSUME PipeInv, NEW p \in Ends
  PROVE  /\ FitsOut(p, Closed(conn[p]), wrote[p])
         /\ FitsIn(p, Closed(conn[p]), read[p])
<1> DEFINE o == conn[p]
           c == Closed(o)
<1>1. Sound(o)
  BY DEF PipeInv, TypeInv, TypeOK, Alive
<1>2. Peer(p) \in Ends /\ Peer(Peer(p)) = p
  BY PeerIs
<1>3. c.finSent = o.finSent /\ SameRecv(o, c)
  <2> HIDE DEF o
  <2> QED BY <1>1, ClosedIs
<1>4. ASSUME NEW N \in Nat, NEW f \in [Nat -> Nat], NEW R \in Nat, Stream(p, N, f, R)
      PROVE  Sender(p, c, wrote[p], N, f)
  BY <1>1, <1>4, SenderCloses DEF Stream
<1> HIDE DEF c
<1>5. ASSUME NEW N \in Nat, NEW f \in [Nat -> Nat], NEW R \in Nat, Stream(Peer(p), N, f, R)
      PROVE  Receiver(c, read[p], conn[Peer(p)].finSent, N, f, R)
  BY <1>2, <1>3, <1>5, ReceiverSame DEF Stream
<1>6. c.writeShut = o.writeShut
  BY <1>3 DEF SameRecv
<1>7. FitsOut(p, c, wrote[p]) /\ FitsIn(p, c, read[p])
  BY <1>3, <1>4, <1>5, <1>6 DEF FitsOut, FitsIn
<1> QED BY <1>7 DEF c

LEMMA ConsumedFits ==
  ASSUME PipeInv, NEW p \in Ends, conn[p].recvDeliver # <<>>,
         NEW n \in 1..Len(Head(conn[p].recvDeliver)),
         NEW c, SameDown(Consumed(conn[p], n), c), SameRecv(Consumed(conn[p], n), c)
  PROVE  LET rd == read[p] \o SubSeq(Head(conn[p].recvDeliver), 1, n)
         IN /\ FitsOut(p, c, wrote[p]) /\ FitsIn(p, c, rd)
            /\ c.appEof = conn[p].appEof /\ Len(rd) = Len(read[p]) + n
<1> DEFINE o == conn[p]
           more == SubSeq(Head(o.recvDeliver), 1, n)
           old == read[p]
           rd == old \o more
           d == Consumed(o, n)
           q == Peer(p)
           fin == conn[q].finSent
<1>1. Sound(o) /\ old \in Seq(Nat) /\ n \in 1..Len(Head(o.recvDeliver)) /\ o.recvDeliver # <<>>
  BY DEF PipeInv, TypeInv, TypeOK, Alive
<1>2. q \in Ends /\ Peer(q) = p
  BY PeerIs
<1>3. SameDown(o, d) /\ d.writeShut = o.writeShut
  <2> HIDE DEF o
  <2> QED BY <1>1, ConsumedIs
<1>4. ASSUME NEW N \in Nat, NEW f \in [Nat -> Nat], NEW R \in Nat, Stream(q, N, f, R)
      PROVE  Receiver(d, rd, fin, N, f, R) /\ Len(rd) = Len(old) + n
  <2>1. Receiver(o, old, fin, N, f, R)
    BY <1>2, <1>4 DEF Stream
  <2> HIDE DEF o, old, fin
  <2> QED BY <1>1, <2>1, ReceiverReads
<1>5. SameDown(d, c) /\ SameRecv(d, c)
  OBVIOUS
<1> HIDE DEF d, more
<1>6. SameSend(o, c) /\ c.out = o.out /\ c.writeShut = o.writeShut
  BY <1>3, <1>5 DEF SameDown, SameSend, SameRecv
<1>7. ASSUME NEW N \in Nat, NEW f \in [Nat -> Nat], NEW R \in Nat, Stream(p, N, f, R)
      PROVE  Sender(p, c, wrote[p], N, f)
  BY <1>6, <1>7, SenderSame DEF Stream
<1>8. ASSUME NEW N \in Nat, NEW f \in [Nat -> Nat], NEW R \in Nat, Stream(q, N, f, R)
      PROVE  Receiver(c, rd, fin, N, f, R)
  BY <1>4, <1>5, <1>8, ReceiverSame
<1>9. Len(rd) = Len(old) + n
  <2>1. \E N \in Nat, f \in [Nat -> Nat], R \in Nat : Stream(q, N, f, R)
    BY <1>2 DEF PipeInv, Streams
  <2> QED BY <1>4, <2>1
<1>10. c.finSent = o.finSent /\ c.appEof = o.appEof
  BY <1>6 DEF SameSend
<1>11. FitsOut(p, c, wrote[p])
  BY <1>7, <1>10 DEF FitsOut
<1>12. FitsIn(p, c, rd)
  <2>1. ASSUME NEW N \in Nat, NEW f \in [Nat -> Nat], NEW R \in Nat, Stream(q, N, f, R)
        PROVE  R >= R /\ Receiver(c, rd, fin, N, f, R)
    <3>1. R >= R
      OBVIOUS
    <3> QED BY <1>8, <2>1, <3>1, Zenon
  <2> QED BY <1>6, <2>1, Zenon DEF FitsIn
<1> QED BY <1>9, <1>10, <1>11, <1>12 DEF more

\* A step of Pipe in the direction that end p writes, or none.
Same(p) ==
  /\ wrote'[p] = wrote[p] /\ conn'[p].appEof = conn[p].appEof
  /\ read'[Peer(p)] = read[Peer(p)] /\ eof'[Peer(p)] = eof[Peer(p)]
Writes(p) ==
  /\ ~conn[p].appEof /\ wrote'[p] > wrote[p] /\ conn'[p].appEof = conn[p].appEof
  /\ read'[Peer(p)] = read[Peer(p)] /\ eof'[Peer(p)] = eof[Peer(p)]
Closes(p) ==
  /\ wrote'[p] = wrote[p] /\ conn'[p].appEof = TRUE
  /\ read'[Peer(p)] = read[Peer(p)] /\ eof'[Peer(p)] = eof[Peer(p)]
ReadsOn(p) ==
  /\ wrote'[p] = wrote[p] /\ conn'[p].appEof = conn[p].appEof
  /\ eof[Peer(p)] = "no" /\ eof'[Peer(p)] = eof[Peer(p)]
  /\ \E n \in Len(read[Peer(p)]) + 1 .. wrote[p] : read'[Peer(p)] = [i \in 1..n |-> i]
ReadsEof(p) ==
  /\ wrote'[p] = wrote[p] /\ conn'[p].appEof = conn[p].appEof
  /\ read'[Peer(p)] = read[Peer(p)] /\ eof[Peer(p)] = "no"
  /\ \/ /\ eof'[Peer(p)] = "clean"
        /\ conn[p].appEof /\ Len(read[Peer(p)]) = wrote[p]
     \/ eof'[Peer(p)] = "cut"

Piped(p) == Same(p) \/ Writes(p) \/ Closes(p) \/ ReadsOn(p) \/ ReadsEof(p)

\* Handshake, faults and what else changes no connection.
LEMMA NetSteps ==
  ASSUME PipeInv, TypeInv', UNCHANGED <<conn, wrote, read, eof>>,
         \A d \in net' : d \in net \/ (d.data = <<>> /\ "FIN" \notin d.flags),
         \A p \in Ends : st[p] = "ended" => st'[p] = "ended"
  PROVE  PipeInv' /\ \A p \in Ends : Piped(p)
<1>1. Streams'
  <2> SUFFICES ASSUME NEW p \in Ends
               PROVE \E N \in Nat, f \in [Nat -> Nat], R \in Nat : Stream(p, N, f, R)'
    BY DEF Streams
  <2>1. PICK N \in Nat, f \in [Nat -> Nat], R \in Nat : Stream(p, N, f, R)
    BY DEF PipeInv, Streams
  <2>2. ASSUME NEW d \in net', d.to = Peer(p) PROVE Told(conn[p].finSent, N, f, d)
    <3>1. CASE d \in net
      BY <2>1, <2>2, <3>1 DEF Stream
    <3>2. CASE d.data = <<>> /\ "FIN" \notin d.flags
      BY <3>2 DEF Told
    <3> QED BY <3>1, <3>2
  <2>3. Stream(p, N, f, R)'
    BY <2>1, <2>2 DEF Stream
  <2> QED BY <2>3
<1>2. Eofs' /\ \A p \in Ends : wrote'[p] <= MaxBytes[p]
  BY DEF PipeInv, Eofs
<1>3. \A p \in Ends : Piped(p)
  BY DEF Piped, Same
<1> QED BY <1>1, <1>2, <1>3 DEF PipeInv

\* The handshake says nothing of the stream.
LEMMA ShakeSteps ==
  ASSUME PipeInv, TypeInv', Probe \/ \E d \in net : Shake(d.to, d)
  PROVE  PipeInv' /\ \A p \in Ends : Piped(p)
<1>1. /\ Syn.data = <<>> /\ "FIN" \notin Syn.flags
      /\ SynAck.data = <<>> /\ "FIN" \notin SynAck.flags
  BY DEF Syn, SynAck, Segment
<1>2. UNCHANGED <<conn, wrote, read, eof>>
  BY DEF Probe, Shake, appVars
<1>3. net' \subseteq net \cup {Syn, SynAck}
  <2>1. CASE Probe
    BY <2>1, CarryIs DEF Probe
  <2>2. CASE \E d \in net : Shake(d.to, d)
    BY <2>2, CarryIs DEF Shake
  <2> QED BY <2>1, <2>2
<1>4. \A p \in Ends : st[p] = "ended" => st'[p] = "ended"
  <2>1. CASE Probe
    BY <2>1 DEF Probe
  <2>2. CASE \E d \in net : Shake(d.to, d)
    <3>1. PICK d \in net : Shake(d.to, d)
      BY <2>2
    <3>2. st[d.to] = "shaking" /\ \E x : st' = [st EXCEPT ![d.to] = x]
      BY <3>1 DEF Shake
    <3>3. st \in [Ends -> {"shaking", "run", "ended"}]
      BY DEF PipeInv, TypeInv, TypeOK
    <3> QED BY <3>2, <3>3
  <2> QED BY <2>1, <2>2
<1>5. \A d \in net' : d \in net \/ (d.data = <<>> /\ "FIN" \notin d.flags)
  BY <1>1, <1>3
<1> QED BY <1>2, <1>4, <1>5, NetSteps

LEMMA FaultSteps ==
  ASSUME PipeInv, TypeInv',
         (\E p \in Ends : GiveUpShaking(p) \/ Break(p)) \/ (\E d \in net : Lose(d))
           \/ UNCHANGED vars
  PROVE  PipeInv' /\ \A p \in Ends : Piped(p)
<1>1. UNCHANGED <<conn, wrote, read, eof>> /\ net' \subseteq net
  BY CarryIs DEF GiveUpShaking, Break, Lose, appVars, vars
<1>2. \A p \in Ends : st[p] = "ended" => st'[p] = "ended"
  <2>1. st' = st \/ \E q \in Ends : st' = [st EXCEPT ![q] = "ended"]
    BY DEF GiveUpShaking, Break, Lose, vars
  <2>2. st \in [Ends -> {"shaking", "run", "ended"}]
    BY DEF PipeInv, TypeInv, TypeOK
  <2> QED BY <2>1, <2>2
<1> QED BY <1>1, <1>2, NetSteps

\* A round that neither writes nor reads.
LEMMA QuietSteps ==
  ASSUME PipeInv, TypeInv', NEW p \in Ends, NEW c, Sound(c), NEW rest \in SUBSET net,
         Round(p, c, rest), UNCHANGED appVars,
         FitsOut(p, c, wrote[p]), FitsIn(p, c, read[p]),
         c.appEof = conn[p].appEof \/ c.appEof = TRUE
  PROVE  PipeInv' /\ \A x \in Ends : Piped(x)
<1>1. wrote' = wrote /\ read' = read /\ eof' = eof
  BY DEF appVars
<1>2. wrote[p] \in Nat
  BY DEF PipeInv, TypeInv, TypeOK
<1>3. /\ Streams' /\ Eofs'
      /\ conn'[Peer(p)] = conn[Peer(p)] /\ conn'[p].appEof = c.appEof
  BY <1>1, <1>2, RoundSteps
<1>4. Same(p) \/ Closes(p)
  BY <1>1, <1>3 DEF Same, Closes
<1>5. Same(Peer(p))
  BY <1>1, <1>3 DEF Same
<1>6. \A x \in Ends : x = p \/ x = Peer(p)
  BY PeerIs DEF Ends
<1> QED BY <1>1, <1>3, <1>4, <1>5, <1>6 DEF PipeInv, Piped

LEMMA ReceiveSteps ==
  ASSUME PipeInv, TypeInv', ShortStream, NEW d \in net, Receive(d.to, d)
  PROVE  PipeInv' /\ \A x \in Ends : Piped(x)
<1> DEFINE p == d.to
           c == OnSegment(p, conn[p], d)
<1>1. p \in Ends /\ d \in Outgoing /\ Sound(conn[p]) /\ p = d.to
  BY DEF PipeInv, TypeInv, TypeOK, Outgoing, Alive
<1>2. Sound(c)
  BY <1>1, OnSegmentIs
<1>3. /\ Round(p, c, net \ {d}) \/ Round(p, c, net)
      /\ UNCHANGED appVars
  BY Zenon DEF Receive
<1> HIDE DEF p
<1>4. FitsOut(p, c, wrote[p]) /\ FitsIn(p, c, read[p]) /\ c.appEof = conn[p].appEof
  BY <1>1, HeardFits
<1> HIDE DEF c
<1>5. \E rest \in SUBSET net : Round(p, c, rest)
  BY <1>3
<1> QED BY <1>1, <1>2, <1>3, <1>4, <1>5, QuietSteps

LEMMA TimeoutSteps ==
  ASSUME PipeInv, TypeInv', NEW p \in Ends, OnTimeout(p)
  PROVE  PipeInv' /\ \A x \in Ends : Piped(x)
<1>1. TypeInv /\ conn \in [Ends -> Conns]
  BY DEF PipeInv, TypeInv, TypeOK
<1>2. PICK c : Echo(p, conn[p], c) /\ Sound(c) /\ Round(p, c, net)
  BY <1>1, OnTimeoutIs
<1>3. UNCHANGED appVars
  BY <1>1, OnTimeoutIs
<1>4. FitsOut(p, c, wrote[p]) /\ FitsIn(p, c, read[p])
  BY <1>1, <1>2, EchoFits
<1>5. c.appEof = conn[p].appEof
  BY <1>2 DEF Echo, SameSend
<1>6. net \in SUBSET net
  OBVIOUS
<1> QED BY <1>2, <1>3, <1>4, <1>5, <1>6, QuietSteps

LEMMA AppEofSteps ==
  ASSUME PipeInv, TypeInv', NEW p \in Ends, AppEof(p)
  PROVE  PipeInv' /\ \A x \in Ends : Piped(x)
<1> DEFINE c == Closed(conn[p])
<1>1. Round(p, c, net) /\ UNCHANGED appVars
  BY Zenon DEF AppEof, Closed
<1>2. Sound(conn[p])
  BY DEF PipeInv, TypeInv, Alive
<1>3. Sound(c) /\ c.appEof
  BY <1>2, ClosedIs
<1>4. FitsOut(p, c, wrote[p]) /\ FitsIn(p, c, read[p])
  BY ClosedFits
<1> HIDE DEF c
<1>5. c.appEof = TRUE
  BY <1>3 DEF Sound, Conns
<1>6. net \in SUBSET net
  OBVIOUS
<1> QED BY <1>1, <1>3, <1>4, <1>5, <1>6, QuietSteps

LEMMA AppWriteSteps ==
  ASSUME PipeInv, TypeInv', NEW p \in Ends, AppWrite(p)
  PROVE  PipeInv' /\ \A x \in Ends : Piped(x)
<1>1. WantsAppRead(conn[p]) /\ UNCHANGED <<read, eof>>
  BY DEF AppWrite
<1>2. PICK n \in 1..MaxPayload :
        /\ wrote[p] + n <= MaxBytes[p] /\ wrote' = [wrote EXCEPT ![p] = @ + n]
        /\ Round(p, Written(conn[p], wrote[p], n), net)
  BY Zenon DEF AppWrite, Written
<1>3. ~conn[p].appEof /\ ~conn[p].finSent
  BY <1>1 DEF WantsAppRead
<1>4. /\ wrote \in [Ends -> Nat] /\ Sound(conn[p]) /\ n \in Nat /\ n > 0
  BY DEF PipeInv, TypeInv, TypeOK, Alive
<1>5. /\ wrote'[p] = wrote[p] + n /\ wrote'[p] \in Nat /\ wrote'[p] > wrote[p]
      /\ wrote'[p] <= MaxBytes[p]
  BY <1>2, <1>4
<1>6. Peer(p) \in Ends /\ Peer(p) # p /\ \A x \in Ends : x = p \/ x = Peer(p)
  BY PeerIs DEF Ends
<1>7. wrote'[Peer(p)] = wrote[Peer(p)] /\ read' = read /\ eof' = eof
  BY <1>1, <1>2, <1>4, <1>6
<1> DEFINE c == Written(conn[p], wrote[p], n)
<1>8. Sound(c)
  <2>1. wrote[p] \in Nat
    BY <1>4
  <2> QED BY <1>4, <2>1, WrittenIs
<1>9. FitsOut(p, c, wrote[p] + n) /\ FitsIn(p, c, read[p]) /\ c.appEof = conn[p].appEof
  BY <1>3, <1>4, WrittenFits
<1>10. Round(p, c, net) /\ net \in SUBSET net
  BY <1>2
<1> HIDE DEF c
<1>11. FitsOut(p, c, wrote'[p]) /\ FitsIn(p, c, read'[p])
  BY <1>5, <1>7, <1>9
<1>12. /\ Streams' /\ Eofs'
       /\ conn'[Peer(p)] = conn[Peer(p)] /\ conn'[p].appEof = c.appEof
  BY <1>5, <1>7, <1>8, <1>10, <1>11, RoundSteps
<1>13. Writes(p)
  BY <1>3, <1>5, <1>7, <1>9, <1>12 DEF Writes
<1>14. Same(Peer(p))
  BY <1>7, <1>12 DEF Same
<1>15. \A x \in Ends : wrote'[x] <= MaxBytes[x]
  BY <1>5, <1>6, <1>7 DEF PipeInv
<1> QED BY <1>6, <1>12, <1>13, <1>14, <1>15 DEF PipeInv, Piped

LEMMA StretchFromZero ==
  ASSUME NEW n \in Nat
  PROVE  Stretch(0, n) = [i \in 1..n |-> i]
BY DEF Stretch

LEMMA AppReadSteps ==
  ASSUME PipeInv, TypeInv', NEW p \in Ends, AppRead(p)
  PROVE  PipeInv' /\ \A x \in Ends : Piped(x)
<1> DEFINE o == conn[p]
           q == Peer(p)
<1>1. /\ st[p] = "run" /\ o.recvDeliver # <<>> /\ UNCHANGED <<wrote, eof>>
      /\ TypeInv /\ read \in [Ends -> Seq(Nat)] /\ wrote \in [Ends -> Nat]
      /\ eof \in [Ends -> {"no", "clean", "cut"}]
  BY AppReadIs DEF PipeInv, TypeInv, TypeOK
<1>2. PICK n \in 1..Len(Head(o.recvDeliver)) :
        /\ read' = [read EXCEPT ![p] = @ \o SubSeq(Head(o.recvDeliver), 1, n)]
        /\ \E d : /\ Sound(d) /\ SameDown(Consumed(o, n), d)
                  /\ SameRecv(Consumed(o, n), d) /\ Round(p, d, net)
  BY <1>1, AppReadIs
<1>3. PICK c : /\ Sound(c) /\ SameDown(Consumed(o, n), c)
               /\ SameRecv(Consumed(o, n), c) /\ Round(p, c, net)
  BY <1>2
<1>4. /\ q \in Ends /\ q # p /\ Peer(q) = p /\ \A x \in Ends : x = p \/ x = q
  BY PeerIs DEF Ends
<1> DEFINE more == SubSeq(Head(o.recvDeliver), 1, n)
           rd == read[p] \o more
<1>5. /\ FitsOut(p, c, wrote[p]) /\ FitsIn(p, c, rd)
      /\ c.appEof = o.appEof /\ Len(rd) = Len(read[p]) + n
  BY <1>1, <1>3, ConsumedFits
<1>6. read' = [read EXCEPT ![p] = rd]
  BY <1>2
<1>7. n \in Nat /\ n > 0 /\ Len(read[p]) \in Nat
  BY <1>1
<1> HIDE DEF rd, more, o, q
<1>8. read'[p] = rd /\ read'[q] = read[q] /\ wrote' = wrote /\ eof' = eof /\ wrote[p] \in Nat
  BY <1>1, <1>4, <1>6
<1>9. /\ Streams' /\ Eofs' /\ conn'[q] = conn[q] /\ conn'[p].appEof = c.appEof
  <2>1. FitsOut(p, c, wrote'[p]) /\ FitsIn(p, c, read'[p])
    BY <1>5, <1>8
  <2>2. net \in SUBSET net /\ wrote'[q] = wrote[q]
    BY <1>8
  <2> QED BY <1>3, <1>8, <2>1, <2>2, RoundSteps DEF q
<1>10. Same(p)
  BY <1>5, <1>8, <1>9 DEF Same, q, o
<1>11. eof[p] = "no"
  <2>1. eof[p] # "cut"
    BY <1>1 DEF PipeInv, Eofs
  <2>2. ~o.writeShut
    <3>1. PICK N \in Nat, f \in [Nat -> Nat], R \in Nat : Stream(q, N, f, R)
      BY <1>4 DEF PipeInv, Streams
    <3>2. Receiver(o, read[p], conn[q].finSent, N, f, R)
      BY <1>4, <3>1 DEF Stream, o
    <3> QED BY <1>1, <3>2 DEF Receiver
  <2>3. eof[p] # "clean"
    BY <2>2 DEF PipeInv, Eofs, o
  <2> QED BY <1>1, <2>1, <2>3
<1>12. rd = Stretch(0, Len(rd)) /\ Len(rd) <= wrote[q]
  <2>1. PICK N \in Nat, f \in [Nat -> Nat], R \in Nat : Stream(q, N, f, R)'
    BY <1>4, <1>9 DEF Streams
  <2>2. /\ Receiver(conn'[p], rd, conn'[q].finSent, N, f, R)
        /\ Marks(N, f, wrote[q])
    BY <1>4, <1>8, <2>1 DEF Stream, Sender
  <2>3. Sound(conn'[p]) /\ wrote[q] \in Nat
    BY <1>1, <1>4 DEF TypeInv, Alive
  <2>4. Len(rd) <= wrote[q]
    BY <2>2, <2>3, ReceiverWithin
  <2> QED BY <2>2, <2>4 DEF Receiver
<1> DEFINE l == Len(rd)
<1>13. l \in Nat /\ l \in Len(read[p]) + 1 .. wrote[q]
  BY <1>1, <1>4, <1>5, <1>7, <1>12
<1> HIDE DEF l
<1>14. rd = [i \in 1..l |-> i]
  BY <1>12, <1>13, StretchFromZero DEF l
<1>15. ReadsOn(q)
  BY <1>4, <1>8, <1>9, <1>11, <1>13, <1>14 DEF ReadsOn
<1> QED BY <1>4, <1>8, <1>9, <1>10, <1>15 DEF PipeInv, Piped

LEMMA ReadEofSteps ==
  ASSUME PipeInv, TypeInv', NEW p \in Ends, ReadEof(p)
  PROVE  PipeInv' /\ \A x \in Ends : Piped(x)
<1> DEFINE q == Peer(p)
<1>1. /\ eof[p] = "no" /\ (conn[p].writeShut \/ st[p] = "ended")
      /\ eof' = [eof EXCEPT ![p] = IF conn[p].writeShut THEN "clean" ELSE "cut"]
      /\ UNCHANGED <<st, conn, net, wrote, read>>
      /\ eof \in [Ends -> {"no", "clean", "cut"}] /\ wrote \in [Ends -> Nat]
      /\ Sound(conn[p])
  BY DEF ReadEof, PipeInv, TypeInv, TypeOK, Alive
<1>2. /\ q \in Ends /\ q # p /\ Peer(q) = p /\ \A x \in Ends : x = p \/ x = q
  BY PeerIs DEF Ends
<1>3. Streams'
  <2>1. \A x \in Ends : \A N \in Nat, f \in [Nat -> Nat], R \in Nat :
          Stream(x, N, f, R) => Stream(x, N, f, R)'
    BY <1>1 DEF Stream
  <2> QED BY <2>1 DEF PipeInv, Streams
<1>4. eof'[q] = eof[q] /\ eof'[p] = IF conn[p].writeShut THEN "clean" ELSE "cut"
  BY <1>1, <1>2
<1>5. Eofs'
  <2>1. /\ eof'[p] = "clean" => conn[p].writeShut
        /\ eof'[p] = "cut" => st[p] = "ended"
    BY <1>1, <1>4
  <2>2. /\ eof'[q] = "clean" => conn[q].writeShut
        /\ eof'[q] = "cut" => st[q] = "ended"
    BY <1>2, <1>4 DEF PipeInv, Eofs
  <2> QED BY <1>1, <1>2, <2>1, <2>2 DEF Eofs
<1>6. Same(p)
  BY <1>1, <1>4 DEF Same
<1>7. conn[p].writeShut => conn[q].appEof /\ Len(read[p]) = wrote[q]
  <2>1. PICK N \in Nat, f \in [Nat -> Nat], R \in Nat : Stream(q, N, f, R)
    BY <1>2 DEF PipeInv, Streams
  <2>2. /\ Receiver(conn[p], read[p], conn[q].finSent, N, f, R)
        /\ Sender(q, conn[q], wrote[q], N, f)
    BY <1>2, <2>1 DEF Stream
  <2>3. Marks(N, f, wrote[q]) /\ (conn[q].finSent => conn[q].appEof /\ f[N] = wrote[q])
    BY <2>2 DEF Sender
  <2>4. wrote[q] \in Nat
    BY <1>1, <1>2
  <2>5. conn[p].writeShut => conn[q].finSent /\ Len(read[p]) = f[N]
    <3> DEFINE c == conn[p]
               rd == read[p]
               fin == conn[q].finSent
               w == wrote[q]
    <3>1. Sound(c) /\ w \in Nat /\ Marks(N, f, w) /\ Receiver(c, rd, fin, N, f, R)
      BY <1>1, <2>2, <2>3, <2>4
    <3> HIDE DEF c, rd, fin, w
    <3>2. c.writeShut => fin /\ Len(rd) = f[N]
      BY <3>1, ReceiverWithin
    <3> QED BY <3>2 DEF c, rd, fin
  <2> QED BY <2>3, <2>5
<1>8. ReadsEof(q)
  BY <1>1, <1>2, <1>4, <1>7 DEF ReadsEof
<1>9. \A x \in Ends : wrote'[x] <= MaxBytes[x]
  BY <1>1 DEF PipeInv
<1> QED BY <1>2, <1>3, <1>5, <1>6, <1>8, <1>9 DEF PipeInv, Piped

LEMMA PipeInit == Init => PipeInv
<1> SUFFICES ASSUME Init PROVE PipeInv
  OBVIOUS
<1>1. TypeInv
  BY TypeInit
<1>2. /\ conn = [p \in Ends |-> NewConn] /\ net = {Syn}
      /\ wrote = [p \in Ends |-> 0] /\ read = [p \in Ends |-> <<>>]
      /\ eof = [p \in Ends |-> "no"]
  BY DEF Init
<1>3. /\ NewConn.sendNext = FirstSeq /\ NewConn.sendBuf = <<>> /\ NewConn.unacked = <<>>
      /\ NewConn.finSent = FALSE /\ NewConn.out = {} /\ NewConn.recvNext = FirstSeq
      /\ NewConn.peerFin = FALSE /\ NewConn.peerFinSeq = {} /\ NewConn.recvOoo = {}
      /\ NewConn.recvDeliver = <<>> /\ NewConn.writeShut = FALSE
  BY DEF NewConn
<1>4. Syn.data = <<>> /\ "FIN" \notin Syn.flags
  BY DEF Syn, Segment
<1>5. Stretch(0, 0) = <<>>
  <2>1. Stretch(0, 0) \in Seq(Nat) /\ Len(Stretch(0, 0)) = 0
    BY StretchIs
  <2> QED BY <2>1
<1>6. Num(0) = FirstSeq
  BY Space DEF Num, Plus, Seqs
<1> DEFINE f == [i \in Nat |-> 0]
<1>7. Marks(0, f, 0)
  BY DEF Marks
<1>8. f \in [Nat -> Nat] /\ f[0] = 0
  OBVIOUS
<1> HIDE DEF f, NewConn
<1>9. Follows(<<>>, 0, 0)
  <2>1. Len(<<>>) = 0
    OBVIOUS
  <2>2. \A i \in 1..0 : FALSE
    OBVIOUS
  <2>3. \A i, j \in 0..0 : f[i] <= f[j]
    BY <1>8
  <2> QED BY <1>8, <2>1, <2>2, <2>3 DEF Follows
<1>10. ASSUME NEW p \in Ends PROVE Stream(p, 0, f, 0)
  <2>1. Peer(p) \in Ends
    BY PeerIs
  <2>2. conn[p] = NewConn /\ conn[Peer(p)] = NewConn /\ wrote[p] = 0 /\ read[Peer(p)] = <<>>
    BY <1>2, <2>1
  <2>3. Sender(p, NewConn, 0, 0, f)
    <3>1. Len(NewConn.unacked) = 0
      BY <1>3
    <3>2. \A i \in 1..Len(NewConn.unacked) : FALSE
      BY <3>1
    <3> QED BY <1>3, <1>5, <1>6, <1>7, <1>8, <3>2 DEF Sender
  <2>4. Receiver(NewConn, <<>>, FALSE, 0, f, 0)
    <3>1. Reach(0, 0) = 0 /\ Len(<<>>) = 0 /\ 0 \in 0 .. 0 + 1 /\ 0 # 0 + 1
      BY DEF Reach
    <3> QED BY <1>3, <1>5, <1>6, <1>8, <1>9, <3>1 DEF Receiver
  <2>5. \A d \in net : Told(FALSE, 0, f, d)
    BY <1>2, <1>4 DEF Told
  <2> QED BY <1>3, <2>2, <2>3, <2>4, <2>5 DEF Stream
<1>11. Streams
  <2>1. 0 \in Nat
    OBVIOUS
  <2> QED BY <1>8, <1>10, <2>1 DEF Streams
<1>12. \A p \in Ends : wrote[p] <= MaxBytes[p]
  BY <1>2, Limits
<1>13. Eofs
  BY <1>2 DEF Eofs
<1> QED BY <1>1, <1>11, <1>12, <1>13 DEF PipeInv

\* Every step keeps the streams and is a step of both pipes.
LEMMA PipeNext ==
  ASSUME ShortStream, PipeInv, [Next]_vars
  PROVE  PipeInv' /\ \A p \in Ends : Piped(p)
<1>1. TypeInv'
  BY TypeNext DEF PipeInv
<1>2. CASE Probe
  BY <1>1, <1>2, ShakeSteps
<1>3. CASE \E d \in net : Shake(d.to, d) \/ Receive(d.to, d) \/ Lose(d)
  <2>1. CASE \E d \in net : Shake(d.to, d)
    BY <1>1, <2>1, ShakeSteps
  <2>2. CASE \E d \in net : Receive(d.to, d)
    BY <1>1, <2>2, ReceiveSteps
  <2>3. CASE \E d \in net : Lose(d)
    BY <1>1, <2>3, FaultSteps
  <2> QED BY <1>3, <2>1, <2>2, <2>3
<1>4. ASSUME NEW p \in Ends,
             \/ GiveUpShaking(p) \/ Break(p)
             \/ AppWrite(p) \/ AppEof(p) \/ AppRead(p)
             \/ ReadEof(p) \/ OnTimeout(p)
      PROVE  PipeInv' /\ \A x \in Ends : Piped(x)
  <2>1. CASE GiveUpShaking(p) \/ Break(p)
    BY <1>1, <2>1, FaultSteps
  <2>2. CASE AppWrite(p)
    BY <1>1, <2>2, AppWriteSteps
  <2>3. CASE AppEof(p)
    BY <1>1, <2>3, AppEofSteps
  <2>4. CASE AppRead(p)
    BY <1>1, <2>4, AppReadSteps
  <2>5. CASE ReadEof(p)
    BY <1>1, <2>5, ReadEofSteps
  <2>6. CASE OnTimeout(p)
    BY <1>1, <2>6, TimeoutSteps
  <2> QED BY <1>4, <2>1, <2>2, <2>3, <2>4, <2>5, <2>6
<1>5. CASE UNCHANGED vars
  BY <1>1, <1>5, FaultSteps
<1> QED BY <1>2, <1>3, <1>4, <1>5 DEF Next

LEMMA PipedForward ==
  ASSUME PipeInv, PipeInv', Piped("connect")
  PROVE  [Forward!Next]_Forward!pipeVars
<1>1. Peer("connect") = "accept"
  BY PeerIs
<1>2. CASE Same("connect")
  BY <1>1, <1>2 DEF Same, Forward!pipeVars
<1>3. CASE Writes("connect")
  BY <1>1, <1>3 DEF Writes, Forward!Next, Forward!Write
<1>4. CASE Closes("connect")
  BY <1>1, <1>4 DEF Closes, Forward!Next, Forward!Close
<1>5. CASE ReadsOn("connect")
  BY <1>1, <1>5 DEF ReadsOn, Forward!Next, Forward!Read, Forward!More
<1>6. CASE ReadsEof("connect")
  BY <1>1, <1>6 DEF ReadsEof, Forward!Next, Forward!CleanEof, Forward!Cut
<1> QED BY <1>2, <1>3, <1>4, <1>5, <1>6 DEF Piped

LEMMA PipedBackward ==
  ASSUME PipeInv, PipeInv', Piped("accept")
  PROVE  [Backward!Next]_Backward!pipeVars
<1>1. Peer("accept") = "connect"
  BY PeerIs
<1>2. CASE Same("accept")
  BY <1>1, <1>2 DEF Same, Backward!pipeVars
<1>3. CASE Writes("accept")
  BY <1>1, <1>3 DEF Writes, Backward!Next, Backward!Write
<1>4. CASE Closes("accept")
  BY <1>1, <1>4 DEF Closes, Backward!Next, Backward!Close
<1>5. CASE ReadsOn("accept")
  BY <1>1, <1>5 DEF ReadsOn, Backward!Next, Backward!Read, Backward!More
<1>6. CASE ReadsEof("accept")
  BY <1>1, <1>6 DEF ReadsEof, Backward!Next, Backward!CleanEof, Backward!Cut
<1> QED BY <1>2, <1>3, <1>4, <1>5, <1>6 DEF Piped

LEMMA PipesInit ==
  ASSUME Init
  PROVE  Forward!Init /\ Backward!Init
<1>1. "connect" \in Ends /\ "accept" \in Ends /\ NewConn.appEof = FALSE
  BY DEF Ends, NewConn
<1> HIDE DEF NewConn
<1> QED BY <1>1 DEF Init, Forward!Init, Backward!Init

\* Both directions implement Pipe (reliable.rs:23, "no loss, no disorder, no
\* repetition"), for any window, any segment size and any faults, of streams
\* that use less than half the sequence numbers.
THEOREM Pipes ==
  ASSUME ShortStream
  PROVE  Spec => DirectionsArePipes
<1>1. Init => PipeInv
  BY PipeInit
<1>2. PipeInv /\ [Next]_vars => PipeInv'
  BY PipeNext
<1>3. PipeInv /\ PipeInv' /\ [Next]_vars => [Forward!Next]_Forward!pipeVars
  BY PipeNext, PipedForward DEF Ends
<1>4. PipeInv /\ PipeInv' /\ [Next]_vars => [Backward!Next]_Backward!pipeVars
  BY PipeNext, PipedBackward DEF Ends
<1>5. Init => Forward!Init /\ Backward!Init
  BY PipesInit
<1> QED BY <1>1, <1>2, <1>3, <1>4, <1>5, PTL
        DEF Spec, DirectionsArePipes, Forward!Spec, Backward!Spec
-----------------------------------------------------------------------------
(* Acknowledgements, as long as one end writes nothing.                    *)

\* The first b segments are no longer kept, and the others wait in order.
Counted(c, b, w) ==
  /\ b \in Nat /\ c.sendBase = Num(b) /\ c.sendNext = Num(b + Len(c.unacked))
  /\ b + Len(c.unacked) + Len(c.sendBuf) <= IF c.finSent THEN w + 1 ELSE w
  /\ \A i \in 1..Len(c.unacked) :
       /\ c.unacked[i].seq = Num(b + (i - 1))
       /\ c.unacked[i].data # <<>> \/ c.finSent
  /\ c.finSent => Len(c.unacked) <= 1

\* An end that has sent nothing but, perhaps, its FIN.
Idle(c) ==
  /\ c.sendBuf = <<>>
  /\ \A i \in 1..Len(c.unacked) : c.unacked[i].seq = FirstSeq
  /\ ~c.finSent => c.sendNext = FirstSeq

\* What the rest of a round may do to its connection.
Onward(p, c, d) ==
  /\ d.sendBase = c.sendBase /\ d.recvNext = c.recvNext
  /\ c.unacked # <<>> => d.unacked # <<>>
  /\ \A o \in d.out : o \in c.out \/ (o.to = Peer(p) /\ Acknowledges(d, o))
  /\ \A b, w \in Nat : Counted(c, b, w) => Counted(d, b, w)
  /\ Idle(c) => Idle(d)
  /\ c.finSent => d.finSent /\ d.unacked = c.unacked

LEMMA AcknowledgesMore ==
  ASSUME NEW c, NEW d, NEW o, Acknowledges(c, o), d.sendBase = c.sendBase,
         d.recvNext = c.recvNext, c.unacked # <<>> => d.unacked # <<>>
  PROVE  Acknowledges(d, o)
BY DEF Acknowledges

LEMMA OnwardOnward ==
  ASSUME NEW p, NEW c, NEW d, NEW e, Onward(p, c, d), Onward(p, d, e)
  PROVE  Onward(p, c, e)
<1>1. \A o \in e.out : o \in c.out \/ (o.to = Peer(p) /\ Acknowledges(e, o))
  <2> SUFFICES ASSUME NEW o \in e.out, o \notin c.out PROVE o.to = Peer(p) /\ Acknowledges(e, o)
    OBVIOUS
  <2>1. CASE o \in d.out
    BY <2>1, AcknowledgesMore DEF Onward
  <2>2. CASE o \notin d.out
    BY <2>2 DEF Onward
  <2> QED BY <2>1, <2>2
<1> QED BY <1>1 DEF Onward

LEMMA OnwardEcho ==
  ASSUME NEW p, NEW c, NEW d, Echo(p, c, d)
  PROVE  Onward(p, c, d)
<1>1. SameRecv(c, d) /\ SameSend(c, d)
  BY DEF Echo
<1>2. \A o \in d.out : o \in c.out \/ (o.to = Peer(p) /\ Acknowledges(d, o))
  BY <1>1, AcknowledgesMore DEF Echo, Says, SameSend, SameRecv
<1>3. \A b, w \in Nat : Counted(c, b, w) => Counted(d, b, w)
  BY <1>1 DEF SameSend, Counted
<1>4. Idle(c) => Idle(d)
  BY <1>1 DEF SameSend, Idle
<1> QED BY <1>1, <1>2, <1>3, <1>4 DEF Onward, SameSend, SameRecv

LEMMA OnwardShut ==
  ASSUME NEW p, NEW c, Sound(c)
  PROVE  Onward(p, c, Shut(c)) /\ Shut(c).out = {}
<1> DEFINE d == Shut(c)
<1>1. SameSend(c, d) /\ d.recvNext = c.recvNext /\ d.out = {}
  BY ShutIs
<1> HIDE DEF d
<1>2. \A b, w \in Nat : Counted(c, b, w) => Counted(d, b, w)
  BY <1>1 DEF SameSend, Counted
<1>3. Idle(c) => Idle(d)
  BY <1>1 DEF SameSend, Idle
<1> QED BY <1>1, <1>2, <1>3 DEF Onward, SameSend, d

LEMMA OnwardPumps ==
  ASSUME NEW p \in Ends, NEW c, Sound(c), NEW d, Pumps(p, c, d)
  PROVE  Onward(p, c, d)
<1>0. c \in Conns /\ c.unacked \in Seq(Kept) /\ c.sendBuf \in Seq(Nat)
  BY DEF Sound, Conns
<1>1. CASE d = c
  BY <1>0, <1>1, EchoSame, OnwardEcho
<1>2. CASE ~c.finSent /\ \E n \in 1..Len(c.sendBuf) : d = Pumped(p, c, n)
  <2>1. PICK n \in 1..Len(c.sendBuf) : d = Pumped(p, c, n)
    BY <1>2
  <2> DEFINE K == Count(n)
             L == Len(c.unacked)
             B == Len(c.sendBuf)
             cut == Cut(c, n)
  <2>2. L \in Nat /\ B \in Nat /\ n \in Nat /\ n <= B /\ n # 0
    BY <1>0
  <2>3. K \in Nat \ {0} /\ K <= n
    BY <2>2, CountIs
  <2>4. /\ cut \in Seq(Kept) /\ Len(cut) = K
        /\ \A i \in 1..K : cut[i].seq = Plus(c.sendNext, i - 1) /\ cut[i].flags = {"ACK"}
        /\ \A i \in 1..K : cut[i].data # <<>>
    <3>1. /\ cut \in Seq(Kept) /\ Len(cut) = K
          /\ \A i \in 1..K : cut[i].seq = Plus(c.sendNext, i - 1) /\ cut[i].flags = {"ACK"}
      BY <1>0, CutIs
    <3>2. ASSUME NEW i \in 1..K PROVE cut[i].data # <<>>
      <4> DEFINE x == (i - 1) * MaxPayload
                 y == Min2(i * MaxPayload, n)
      <4>1. /\ 0 <= x /\ x < y /\ y <= n
            /\ cut[i].data = SubSeq(c.sendBuf, x + 1, y)
        BY <1>0, CutIs
      <4>2. x \in Int /\ y \in Int
        <5>1. i \in Int /\ MaxPayload \in Int /\ n \in Int
          BY <2>2, <2>3, Space
        <5>2. (i - 1) * MaxPayload \in Int /\ i * MaxPayload \in Int
          BY <5>1
        <5> QED BY <5>1, <5>2 DEF Min2
      <4> HIDE DEF x, y, cut
      <4>3. Len(SubSeq(c.sendBuf, x + 1, y)) = y - x
        BY <1>0, <2>2, <4>1, <4>2
      <4> QED BY <4>1, <4>2, <4>3
    <3> QED BY <3>1, <3>2
  <2>5. /\ d.sendBuf = SubSeq(c.sendBuf, n + 1, Len(c.sendBuf))
        /\ d.sendNext = Plus(c.sendNext, K) /\ d.unacked = c.unacked \o cut
        /\ d.finSent = c.finSent /\ d.sendBase = c.sendBase /\ d.recvNext = c.recvNext
        /\ d.out = c.out \cup Sent(p, c, n)
    <3>1. /\ SameRecv(c, d)
          /\ d.sendBuf = SubSeq(c.sendBuf, n + 1, Len(c.sendBuf))
          /\ d.sendNext = Plus(c.sendNext, Count(n)) /\ d.unacked = c.unacked \o Cut(c, n)
          /\ d.finSent = c.finSent /\ d.sendBase = c.sendBase
          /\ d.out = c.out \cup Sent(p, c, n)
      <4> HIDE DEF K, L, B, cut
      <4> QED BY <2>1, PumpedIs
    <3>2. d.recvNext = c.recvNext
      BY <3>1 DEF SameRecv
    <3> QED BY <3>1, <3>2
  <2>6. \A o \in Sent(p, c, n) : o.to = Peer(p) /\ o.ack = c.sendBase
    BY DEF Sent, Segment
  <2> HIDE DEF K, cut
  <2>7. Len(d.sendBuf) = B - n
    BY <1>0, <2>2, <2>5, SuffixIs
  <2> HIDE DEF L, B
  <2>8. /\ d.unacked \in Seq(Kept) /\ Len(d.unacked) = L + K
        /\ \A i \in 1..L : d.unacked[i] = c.unacked[i]
        /\ \A i \in L + 1 .. L + K : d.unacked[i] = cut[i - L]
    <3> DEFINE u == c.unacked
    <3>1. u \in Seq(Kept) /\ cut \in Seq(Kept) /\ Len(cut) = K /\ Len(u) = L
      BY <1>0, <2>4 DEF L
    <3>2. d.unacked = u \o cut
      BY <2>5
    <3> HIDE DEF u
    <3>3. u \o cut \in Seq(Kept) /\ Len(u \o cut) = L + K
      BY ONLY <3>1, ConcatIs
    <3>4. /\ \A i \in 1..L : (u \o cut)[i] = u[i]
          /\ \A i \in 1..K : (u \o cut)[L + i] = cut[i]
      BY ONLY <3>1, ConcatAt
    <3>5. ASSUME NEW i \in L + 1 .. L + K PROVE (u \o cut)[i] = cut[i - L]
      <4>1. i - L \in 1..K /\ L + (i - L) = i
        BY <2>2, <2>3
      <4> QED BY <3>4, <4>1
    <3> QED BY <3>2, <3>3, <3>4, <3>5 DEF u
  <2>9. d.unacked # <<>>
    BY <2>2, <2>3, <2>8
  <2>10. \A o \in d.out : o \in c.out \/ (o.to = Peer(p) /\ Acknowledges(d, o))
    BY <2>5, <2>6, <2>9 DEF Acknowledges
  <2>11. ASSUME NEW b \in Nat, NEW w \in Nat, Counted(c, b, w) PROVE Counted(d, b, w)
    <3>1. c.sendNext = Num(b + L) /\ b + L + B <= w /\ c.sendBase = Num(b)
      BY <1>2, <2>11 DEF Counted, L, B
    <3>2. d.sendNext = Num(b + (L + K))
      <4>1. Plus(Num(b + L), K) = Num((b + L) + K)
        BY <2>2, <2>3, NumPlus
      <4>2. (b + L) + K = b + (L + K)
        BY <2>2, <2>3
      <4> QED BY <2>5, <3>1, <4>1, <4>2
    <3>3. b + (L + K) + (B - n) <= w
      BY <2>2, <2>3, <3>1
    <3>4. ASSUME NEW i \in 1 .. L + K
          PROVE  d.unacked[i].seq = Num(b + (i - 1)) /\ d.unacked[i].data # <<>>
      <4>1. CASE i \in 1..L
        BY <1>2, <2>8, <2>11, <4>1 DEF Counted, L
      <4>2. CASE i \notin 1..L
        <5>1. i \in L + 1 .. L + K /\ i - L \in 1..K
          BY <2>2, <2>3, <4>2
        <5>2. d.unacked[i].seq = Plus(Num(b + L), (i - L) - 1) /\ d.unacked[i].data # <<>>
          BY <2>4, <2>8, <3>1, <5>1
        <5>3. Plus(Num(b + L), (i - L) - 1) = Num((b + L) + ((i - L) - 1))
          BY <2>2, <2>3, <5>1, NumPlus
        <5>4. (b + L) + ((i - L) - 1) = b + (i - 1)
          BY <2>2, <2>3
        <5> QED BY <5>2, <5>3, <5>4
      <4> QED BY <4>1, <4>2
    <3> QED BY <1>2, <2>5, <2>7, <2>8, <3>1, <3>2, <3>3, <3>4 DEF Counted
  <2>12. ~Idle(c)
    <3>1. Len(c.sendBuf) # 0
      BY <2>2 DEF B
    <3> QED BY <3>1 DEF Idle
  <2> QED BY <1>2, <2>5, <2>9, <2>10, <2>11, <2>12 DEF Onward
<1> QED BY <1>1, <1>2 DEF Pumps

LEMMA OnwardFin ==
  ASSUME NEW p \in Ends, NEW c, Sound(c)
  PROVE  Onward(p, c, MaybeSendFin(p, c))
<1> DEFINE d == MaybeSendFin(p, c)
<1>0. c \in Conns
  BY DEF Sound
<1>1. CASE d = c
  BY <1>0, <1>1, EchoSame, OnwardEcho
<1>2. CASE d # c
  <2>1. /\ ~c.finSent /\ c.sendBuf = <<>> /\ c.unacked = <<>>
        /\ d.recvNext = c.recvNext /\ d.sendBuf = <<>> /\ d.sendBase = c.sendBase
        /\ d.finSent /\ d.sendNext = Plus(c.sendNext, 1) /\ d.unacked = <<FinOf(c)>>
    BY <1>2, MaybeSendFinIs DEF SameRecv
  <2>2. PICK o : d.out = c.out \cup {o} /\ o.to = Peer(p) /\ o.ack = c.sendBase
    BY <1>2, MaybeSendFinIs
  <2> HIDE DEF d
  <2>3. /\ Len(d.unacked) = 1 /\ d.unacked[1] = FinOf(c) /\ d.unacked # <<>>
        /\ Len(d.sendBuf) = 0 /\ Len(c.unacked) = 0 /\ Len(c.sendBuf) = 0
    BY <2>1
  <2>4. FinOf(c).seq = c.sendNext
    BY DEF FinOf
  <2>5. ASSUME NEW b \in Nat, NEW w \in Nat, Counted(c, b, w) PROVE Counted(d, b, w)
    <3>1. c.sendNext = Num(b + 0) /\ b + 0 + 0 <= w /\ c.sendBase = Num(b)
      BY <2>1, <2>3, <2>5 DEF Counted
    <3>2. c.sendNext = Num(b) /\ b + 1 + 0 <= w + 1
      BY <3>1
    <3>3. d.sendNext = Num(b + 1)
      BY <2>1, <3>2, NumPlus
    <3>4. ASSUME NEW i \in 1..1 PROVE d.unacked[i].seq = Num(b + (i - 1))
      <4>1. i = 1 /\ b + (i - 1) = b
        OBVIOUS
      <4> QED BY <2>3, <2>4, <3>2, <4>1
    <3>5. b + Len(d.unacked) + Len(d.sendBuf) <= w + 1
      BY <2>3, <3>2
    <3>6. \A i \in 1..Len(d.unacked) : /\ d.unacked[i].seq = Num(b + (i - 1))
                                       /\ d.unacked[i].data # <<>> \/ d.finSent
      BY <2>1, <2>3, <3>4
    <3>7. b \in Nat /\ d.sendBase = Num(b) /\ d.sendNext = Num(b + Len(d.unacked))
      BY <2>1, <2>3, <3>1, <3>3
    <3>8. d.finSent /\ Len(d.unacked) <= 1
      BY <2>1, <2>3
    <3> QED BY <3>5, <3>6, <3>7, <3>8 DEF Counted
  <2>6. Idle(c) => Idle(d)
    <3>1. ASSUME Idle(c), NEW i \in 1..1 PROVE d.unacked[i].seq = FirstSeq
      <4>1. i = 1
        OBVIOUS
      <4> QED BY <2>1, <2>3, <2>4, <3>1, <4>1 DEF Idle
    <3> QED BY <2>1, <2>3, <3>1 DEF Idle
  <2> QED BY <2>1, <2>2, <2>3, <2>5, <2>6 DEF Onward, Acknowledges, d
<1> QED BY <1>1, <1>2

\* A round from c on, after which the connection is e.
RoundsTo(p, c, rest, e) ==
  /\ conn' = [conn EXCEPT ![p] = e] /\ e.out = {} /\ Onward(p, c, e)
  /\ \A d \in net' : d \in rest \/ d \in c.out \/ (d.to = Peer(p) /\ Acknowledges(e, d))

LEMMA RoundGoesOn ==
  ASSUME NEW p \in Ends, NEW c, Sound(c), NEW rest, Round(p, c, rest)
  PROVE  \E e : RoundsTo(p, c, rest, e)
<1>1. CASE /\ conn' = [conn EXCEPT ![p] = [c EXCEPT !.out = {}]]
           /\ net' \subseteq rest
           /\ \E d \in {[c EXCEPT !.out = {}]} :
                Sound(d) /\ SameRecv(c, d) /\ SameSend(c, d) /\ SameLife(c, d) /\ d.out = {}
  <2> DEFINE e == [c EXCEPT !.out = {}]
  <2>1. SameRecv(c, e) /\ SameSend(c, e) /\ e.out = {} /\ conn' = [conn EXCEPT ![p] = e]
        /\ Sound(e)
    BY <1>1
  <2> HIDE DEF e
  <2>2. Echo(p, c, e)
    BY <2>1 DEF Echo, Sound
  <2>3. Onward(p, c, e)
    BY <2>2, OnwardEcho
  <2>4. RoundsTo(p, c, rest, e)
    BY <1>1, <2>1, <2>3 DEF RoundsTo
  <2> QED BY <2>4
<1>2. CASE \E d : /\ Pumps(p, c, d) /\ Sound(d)
                  /\ LET s == AckIfDue(p, MaybeSendFin(p, d))
                     IN /\ Sound(s) /\ conn' = [conn EXCEPT ![p] = Shut(s)]
                        /\ net' \subseteq rest \cup s.out
  <2>1. PICK d : /\ Pumps(p, c, d) /\ Sound(d)
                 /\ LET s == AckIfDue(p, MaybeSendFin(p, d))
                    IN /\ Sound(s) /\ conn' = [conn EXCEPT ![p] = Shut(s)]
                       /\ net' \subseteq rest \cup s.out
    BY <1>2, Zenon
  <2> DEFINE m == MaybeSendFin(p, d)
             s == AckIfDue(p, m)
             e == Shut(s)
  <2>2. Sound(s) /\ conn' = [conn EXCEPT ![p] = e] /\ net' \subseteq rest \cup s.out
    BY <2>1
  <2>3. Onward(p, c, d)
    BY <2>1, OnwardPumps
  <2>4. Onward(p, d, m) /\ Sound(m)
    BY <2>1, OnwardFin, MaybeSendFinIsSound
  <2> HIDE DEF m
  <2>5. Onward(p, m, s)
    BY <2>4, AckIfDueIs, OnwardEcho
  <2> HIDE DEF s
  <2>6. Onward(p, s, e) /\ e.out = {}
    BY <2>2, OnwardShut
  <2> HIDE DEF e
  <2>7. Onward(p, c, s)
    BY <2>3, <2>4, <2>5, OnwardOnward
  <2>8. Onward(p, c, e)
    BY <2>6, <2>7, OnwardOnward
  <2>9. ASSUME NEW x \in s.out, x \notin c.out
        PROVE  x.to = Peer(p) /\ Acknowledges(e, x)
    <3>1. x.to = Peer(p) /\ Acknowledges(s, x)
      BY <2>7, <2>9 DEF Onward
    <3> QED BY <2>6, <3>1, AcknowledgesMore DEF Onward
  <2>10. RoundsTo(p, c, rest, e)
    BY <2>2, <2>6, <2>8, <2>9 DEF RoundsTo
  <2> QED BY <2>10
<1> QED BY <1>1, <1>2, RoundIs

\* A datagram that reaches end p takes segments away at the front, and what
\* is sent in answer says what was known before it.
LEMMA HeardTakes ==
  ASSUME NEW p \in Ends, NEW c, Sound(c), NEW d \in Outgoing
  PROVE  \E a : /\ Drops(p, c, a) /\ SameSend(a, OnSegment(p, c, d))
                /\ OnSegment(p, c, d).out = a.out
                /\ a.sendBase = c.sendBase \/ ("ACK" \in d.flags /\ a.sendBase = d.ack)
<1> DEFINE e == OnSegment(p, c, d)
<1>0. c \in Conns /\ d.seq \in Seqs
  BY DEF Sound, Outgoing
<1>1. CASE Echo(p, c, e)
  <2> HIDE DEF e
  <2>1. Drops(p, c, e) /\ SameSend(e, e) /\ e.sendBase = c.sendBase
    BY <1>0, <1>1, EchoDrops DEF SameSend, Echo
  <2> QED BY <2>1 DEF e
<1>2. CASE Heard(p, c, d, e)
  <2> HIDE DEF e
  <2>1. PICK a, b : /\ Sound(a) /\ Drops(p, c, a) /\ Takes(a, d.seq, d.data, b)
                    /\ a.sendBase = c.sendBase \/ ("ACK" \in d.flags /\ a.sendBase = d.ack)
                    /\ \/ "FIN" \notin d.flags /\ e = b
                       \/ /\ "FIN" \in d.flags
                          /\ e = TryConsumeFin([b EXCEPT !.peerFinSeq = {d.seq}])
    BY <1>2 DEF Heard
  <2>2. SameSend(a, b) /\ b.out = a.out /\ b \in Conns
    BY <2>1 DEF Takes, SameDown, Sound
  <2>3. SameSend(b, e) /\ e.out = b.out
    <3>1. CASE e = b
      BY <3>1 DEF SameSend
    <3>2. CASE e = TryConsumeFin([b EXCEPT !.peerFinSeq = {d.seq}])
      <4> DEFINE g == [b EXCEPT !.peerFinSeq = {d.seq}]
      <4>1. b \in Conns /\ {d.seq} \in SUBSET Seqs
        BY <1>0, <2>2
      <4>2. g \in Conns /\ SameDown(b, g)
        BY ONLY <4>1 DEF Conns, SameDown, SameSend, SameLife
      <4> HIDE DEF g
      <4>3. SameDown(g, TryConsumeFin(g))
        BY <4>2, TryConsumeFinIs
      <4> QED BY <3>2, <4>2, <4>3 DEF g, SameDown, SameSend
    <3> QED BY <2>1, <3>1, <3>2
  <2>4. SameSend(a, e) /\ e.out = a.out
    BY <2>2, <2>3 DEF SameSend
  <2> QED BY <2>1, <2>4 DEF e
<1> QED BY <1>1, <1>2, OnSegmentIs

LEMMA NumZero == FirstSeq = Num(0)
<1>1. FirstSeq \in Int /\ SeqSpace \in Nat /\ 0 <= FirstSeq /\ FirstSeq < SeqSpace
  BY Space DEF Seqs
<1>2. FirstSeq % SeqSpace = FirstSeq
  BY <1>1
<1> QED BY <1>1, <1>2 DEF Num, Plus

\* A number up to R is acknowledged, and never more segments than wait.
LEMMA CountedDrops ==
  ASSUME NEW p, NEW c \in Conns, NEW a, Drops(p, c, a),
         NEW w \in Nat, w < SeqSpace \div 2, NEW b \in Nat, Counted(c, b, w),
         NEW R \in Nat, b <= R, R <= SeqSpace \div 2, R <= b + Len(c.unacked),
         a.sendBase = c.sendBase \/ \E k \in 0..R : a.sendBase = Num(k)
  PROVE  \E k \in 0..R : Counted(a, k, w)
<1> DEFINE L == Len(c.unacked)
           h == SeqSpace \div 2
<1>0. /\ c.unacked \in Seq(Kept) /\ L \in Nat /\ h \in Nat /\ h >= 2
      /\ a.sendNext = c.sendNext /\ a.sendBuf = c.sendBuf /\ a.finSent = c.finSent
      /\ c.sendBuf \in Seq(Nat) /\ Len(c.sendBuf) \in Nat /\ b \in 0..R
  BY Space DEF Conns, Drops
<1>1. /\ c.sendBase = Num(b) /\ c.sendNext = Num(b + L)
      /\ b + L + Len(c.sendBuf) <= IF c.finSent THEN w + 1 ELSE w
      /\ \A i \in 1..L :
           /\ c.unacked[i].seq = Num(b + (i - 1))
           /\ c.unacked[i].data # <<>> \/ c.finSent
      /\ c.finSent => L <= 1
  BY DEF Counted
<1>2. CASE a.sendBase = c.sendBase /\ a.unacked = c.unacked
  <2>1. Counted(a, b, w)
    BY <1>0, <1>2 DEF Counted
  <2> QED BY <1>0, <2>1
<1>3. CASE /\ SeqAfter(a.sendBase, c.sendBase)
           /\ a.unacked = Unacknowledged(c.unacked, a.sendBase)
  <2>1. \A j \in Int, m \in Int : 0 <= m - j /\ m - j <= h => ~SeqAfter(Num(j), Num(m))
    BY NumNotAfter
  <2>2. a.sendBase # c.sendBase
    <3>1. b \in Int /\ 0 <= b - b /\ b - b <= h
      BY <1>0
    <3>2. ~SeqAfter(Num(b), Num(b))
      BY <2>1, <3>1
    <3> QED BY <1>1, <1>3, <3>2
  <2>3. PICK k \in 0..R : a.sendBase = Num(k)
    BY <2>2
  <2>4. b < k /\ k - b <= L /\ k \in Nat
    <3>1. ASSUME k <= b PROVE FALSE
      <4>1. k \in Int /\ b \in Int /\ 0 <= b - k /\ b - k <= h
        BY <1>0, <3>1
      <4>2. ~SeqAfter(Num(k), Num(b))
        BY <2>1, <4>1
      <4> QED BY <1>1, <1>3, <2>3, <4>2
    <3> QED BY <1>0, <3>1
  <2>5. L < h
    <3> DEFINE x == Len(c.sendBuf)
    <3>1. x \in Nat /\ L \in Nat /\ h \in Nat /\ h >= 2 /\ w < h
      BY <1>0
    <3>2. CASE c.finSent
      <4>1. L <= 1
        BY <1>1, <3>2
      <4> HIDE DEF L, h
      <4> QED BY <3>1, <4>1
    <3>3. CASE ~c.finSent
      <4>1. b + L + x <= w
        BY <1>1, <3>3
      <4> HIDE DEF L, h, x
      <4> QED BY <3>1, <4>1
    <3> QED BY <3>2, <3>3
  <2> DEFINE u == c.unacked
             m == k - b
             left == Unacknowledged(u, Num(k))
  <2>6. PICK n \in 0..L :
          /\ left = SubSeq(u, n + 1, L)
          /\ \A i \in 1..n : SeqAfter(Num(k), u[i].seq)
          /\ n < L => ~SeqAfter(Num(k), u[n + 1].seq)
    BY <1>0, UnacknowledgedIs
  <2>7. m \in 1..L
    BY <1>0, <2>4
  <2>8. ~(n > m)
    <3>1. ASSUME n > m PROVE FALSE
      <4>1. m + 1 \in 1..n /\ m + 1 \in 1..L /\ b + ((m + 1) - 1) = k
        BY <1>0, <2>7, <3>1
      <4>2. u[m + 1].seq = Num(k)
        <5> DEFINE j == m + 1
        <5>1. j \in 1..L /\ b + (j - 1) = k
          BY <4>1
        <5> HIDE DEF j
        <5>2. u[j].seq = Num(b + (j - 1))
          BY <1>1, <5>1
        <5> QED BY <5>1, <5>2 DEF j
      <4>3. ~SeqAfter(Num(k), Num(k))
        <5>1. k \in Int /\ 0 <= k - k /\ k - k <= h
          BY <1>0
        <5> QED BY <2>1, <5>1
      <4> QED BY <2>6, <4>1, <4>2, <4>3
    <3> QED BY <3>1
  <2>9. ~(n < m)
    <3>1. ASSUME n < m PROVE FALSE
      <4>1. n + 1 \in 1..L /\ n < L /\ b + ((n + 1) - 1) = b + n
        BY <1>0, <2>7, <3>1
      <4>2. u[n + 1].seq = Num(b + n)
        <5> DEFINE j == n + 1
        <5>1. j \in 1..L /\ b + (j - 1) = b + n
          BY <4>1
        <5> HIDE DEF j
        <5>2. u[j].seq = Num(b + (j - 1))
          BY <1>1, <5>1
        <5> QED BY <5>1, <5>2 DEF j
      <4>3. /\ b + n \in Int /\ k \in Int /\ 0 < k - (b + n)
            /\ k - (b + n) < SeqSpace \div 2
        BY <1>0, <2>4, <2>5, <3>1
      <4>4. SeqAfter(Num(k), Num(b + n))
        BY <4>3, NumAfter
      <4> QED BY <2>6, <4>1, <4>2, <4>4
    <3> QED BY <3>1
  <2>10. n = m
    BY <1>0, <2>7, <2>8, <2>9
  <2>11. a.unacked = left
    BY <1>3, <2>3
  <2> HIDE DEF left, u
  <2>12. /\ left \in Seq(Kept) /\ Len(left) = L - m
         /\ \A i \in 1 .. L - m : left[i] = u[m + i]
    <3>1. u \in Seq(Kept) /\ Len(u) = L /\ m \in 0..L
      BY <1>0, <2>7 DEF u
    <3>2. left = SubSeq(u, m + 1, Len(u)) /\ m \in 0..Len(u)
      BY <2>6, <2>10, <3>1
    <3> HIDE DEF m
    <3>3. /\ SubSeq(u, m + 1, Len(u)) \in Seq(Kept)
          /\ Len(SubSeq(u, m + 1, Len(u))) = Len(u) - m
          /\ \A i \in 1 .. Len(u) - m : SubSeq(u, m + 1, Len(u))[i] = u[m + i]
      BY ONLY <3>1, <3>2, SuffixIs
    <3> QED BY <3>1, <3>2, <3>3
  <2>13. ASSUME NEW i \in 1 .. L - m
         PROVE  left[i].seq = Num(k + (i - 1)) /\ (left[i].data # <<>> \/ c.finSent)
    <3> DEFINE j == m + i
    <3>1. j \in 1..L /\ b + (j - 1) = k + (i - 1)
      <4>1. L \in Nat /\ m \in 1..L /\ b \in Nat /\ k \in Nat /\ m = k - b
        BY <1>0, <2>4, <2>7
      <4> HIDE DEF L, m
      <4> QED BY <4>1
    <3>2. left[i] = u[j]
      BY <2>12
    <3> HIDE DEF j
    <3>3. /\ u[j].seq = Num(b + (j - 1))
          /\ u[j].data # <<>> \/ c.finSent
      BY <1>1, <3>1 DEF u
    <3> QED BY <3>1, <3>2, <3>3
  <2>14. k + Len(left) = b + L /\ Len(left) <= L
    BY <1>0, <2>7, <2>12
  <2>15. Counted(a, k, w)
    <3>1. k \in Nat /\ a.sendBase = Num(k) /\ a.sendNext = Num(k + Len(left))
      BY <1>0, <1>1, <2>3, <2>4, <2>14
    <3>2. k + Len(left) + Len(a.sendBuf) <= IF a.finSent THEN w + 1 ELSE w
      BY <1>0, <1>1, <2>14
    <3>3. a.finSent => Len(left) <= 1
      BY <1>0, <1>1, <2>7, <2>12
    <3> QED BY <1>0, <2>11, <2>12, <2>13, <3>1, <3>2, <3>3 DEF Counted
  <2> QED BY <2>3, <2>15
<1> QED BY <1>2, <1>3 DEF Drops

\* The end that writes nothing has its FIN to lose, and any number after it
\* takes that away.
Backs(c, R) == (c.finSent /\ c.unacked = <<>>) \/ \E k \in 0..R : c.sendBase = Num(k)

LEMMA IdleDrops ==
  ASSUME NEW p, NEW c \in Conns, NEW a, Drops(p, c, a), Idle(c), NEW R \in Nat, Backs(c, R),
         \/ a.sendBase = c.sendBase
         \/ \E k \in 0..R : a.sendBase = Num(k)
         \/ c.finSent /\ a.sendBase = Num(1)
  PROVE  Idle(a) /\ Backs(a, R)
<1>0. /\ c.unacked \in Seq(Kept) /\ Len(c.unacked) \in Nat
      /\ a.sendNext = c.sendNext /\ a.sendBuf = c.sendBuf /\ a.finSent = c.finSent
      /\ \A i \in 1..Len(a.unacked) : \E j \in 1..Len(c.unacked) : a.unacked[i] = c.unacked[j]
  <2>1. c.unacked \in Seq(Kept) /\ Len(c.unacked) \in Nat
    BY DEF Conns
  <2>2. /\ a.sendNext = c.sendNext /\ a.sendBuf = c.sendBuf /\ a.finSent = c.finSent
        /\ \A i \in 1..Len(a.unacked) :
             \E j \in 1..Len(c.unacked) : a.unacked[i] = c.unacked[j]
    BY DEF Drops
  <2> QED BY <2>1, <2>2
<1>1. Idle(a)
  BY <1>0 DEF Idle
<1>2. CASE a.sendBase = c.sendBase /\ a.unacked = c.unacked
  BY <1>0, <1>1, <1>2 DEF Backs
<1>3. CASE /\ SeqAfter(a.sendBase, c.sendBase)
           /\ a.unacked = Unacknowledged(c.unacked, a.sendBase)
  <2>1. CASE \E k \in 0..R : a.sendBase = Num(k)
    BY <1>1, <2>1 DEF Backs
  <2>2. CASE a.sendBase = c.sendBase
    <3>1. CASE c.finSent /\ c.unacked = <<>>
      <4>1. Len(c.unacked) = 0
        BY <3>1
      <4>2. Len(a.unacked) = 0
        BY <1>0, <1>3, <4>1, UnacknowledgedIs
      <4> QED BY <1>0, <1>1, <1>3, <3>1, <4>1, UnacknowledgedIs DEF Backs
    <3>2. CASE \E k \in 0..R : c.sendBase = Num(k)
      BY <1>1, <2>2, <3>2 DEF Backs
    <3> QED BY <3>1, <3>2 DEF Backs
  <2>3. CASE c.finSent /\ a.sendBase = Num(1)
    <3> DEFINE u == c.unacked
               L == Len(u)
    <3>0. u \in Seq(Kept) /\ a.unacked = Unacknowledged(u, Num(1))
      BY <1>0, <1>3, <2>3
    <3> HIDE DEF u
    <3>1. PICK n \in 0..L :
            /\ a.unacked = SubSeq(u, n + 1, L)
            /\ n < L => ~SeqAfter(Num(1), u[n + 1].seq)
      <4>1. \E k \in 0..Len(u) :
              /\ Unacknowledged(u, Num(1)) = SubSeq(u, k + 1, Len(u))
              /\ \A i \in 1..k : SeqAfter(Num(1), u[i].seq)
              /\ k < Len(u) => ~SeqAfter(Num(1), u[k + 1].seq)
        BY ONLY <3>0, UnacknowledgedIs
      <4> QED BY <3>0, <4>1
    <3>2. SeqAfter(Num(1), FirstSeq)
      <4>1. 0 \in Int /\ 1 \in Int /\ 0 < 1 - 0 /\ 1 - 0 < SeqSpace \div 2
        BY Space
      <4> QED BY <4>1, NumAfter, NumZero
    <3>3. n = L
      <4>1. ASSUME n < L PROVE FALSE
        <5>1. n + 1 \in 1..L
          BY <1>0, <4>1
        <5> QED BY <3>1, <3>2, <4>1, <5>1 DEF Idle, u
      <4> QED BY <1>0, <4>1
    <3>4. a.unacked = <<>>
      <4>1. SubSeq(u, Len(u) + 1, Len(u)) = <<>>
        BY ONLY <3>0
      <4> QED BY <3>1, <3>3, <4>1
    <3> QED BY <1>0, <1>1, <2>3, <3>4 DEF Backs
  <2> QED BY <2>1, <2>2, <2>3
<1> QED BY <1>2, <1>3 DEF Drops

\* A datagram to the writer p acknowledges at most what its peer has taken; one
\* to the peer, whose only segment is its FIN, may say that or acknowledge the FIN.
AckOf(p, R, fin, o) ==
  "ACK" \in o.flags =>
    \/ \E k \in 0..R : o.ack = Num(k)
    \/ o.to # p /\ fin /\ o.ack = Num(1)

\* End p has sent away b segments and its peer, which writes nothing, has taken R.
Acked(p, b, R) ==
  /\ b <= R /\ R <= SeqSpace \div 2
  /\ Counted(conn[p], b, wrote[p])
  /\ Idle(conn[Peer(p)]) /\ Backs(conn[Peer(p)], R) /\ conn[Peer(p)].recvNext = Num(R)
  /\ \A x \in Ends : conn[x].out = {}
  /\ \A d \in net : AckOf(p, R, conn[Peer(p)].finSent, d)

AckInv(p) == \E b \in Nat, R \in Nat : Acked(p, b, R)

LEMMA AckOfMore ==
  ASSUME NEW p, NEW R \in Nat, NEW fin, NEW o, AckOf(p, R, fin, o),
         NEW R2 \in Nat, R <= R2, NEW fin2, fin => fin2
  PROVE  AckOf(p, R2, fin2, o)
<1>1. \A k \in 0..R : k \in 0..R2
  OBVIOUS
<1> QED BY <1>1 DEF AckOf

LEMMA BacksMore ==
  ASSUME NEW c, NEW R \in Nat, Backs(c, R), NEW R2 \in Nat, R <= R2
  PROVE  Backs(c, R2)
<1>1. \A k \in 0..R : k \in 0..R2
  OBVIOUS
<1> QED BY <1>1 DEF Backs

\* What an end says of what it knows.
LEMMA WriterSays ==
  ASSUME NEW p, NEW c, NEW b \in Nat, NEW R \in Nat, b <= R, NEW fin,
         c.sendBase = Num(b), c.recvNext = Num(0) \/ (fin /\ c.recvNext = Num(1)),
         NEW o, o.to # p, Acknowledges(c, o)
  PROVE  AckOf(p, R, fin, o)
<1>1. 0 \in 0..R /\ b \in 0..R
  OBVIOUS
<1> QED BY <1>1, NumZero DEF Acknowledges, AckOf

LEMMA SilentSays ==
  ASSUME NEW p, NEW c, NEW R \in Nat, Backs(c, R), c.recvNext = Num(R), NEW fin,
         NEW o, Acknowledges(c, o)
  PROVE  AckOf(p, R, fin, o)
<1>1. 0 \in 0..R /\ R \in 0..R
  OBVIOUS
<1> QED BY <1>1, NumZero DEF Acknowledges, AckOf, Backs

\* An end whose peer has written nothing has taken nothing but its FIN.
LEMMA NothingTaken ==
  ASSUME NEW r, NEW rd, NEW fin, NEW N, NEW f, NEW R, Marks(N, f, 0),
         Receiver(r, rd, fin, N, f, R)
  PROVE  r.recvNext = Num(0) \/ (fin /\ r.recvNext = Num(1))
<1>1. N \in Nat /\ f[N] \in Nat /\ N <= f[N] /\ f[N] <= 0
  BY DEF Marks
<1>2. N = 0
  BY <1>1
<1>3. R \in 0..1 /\ r.recvNext = Num(R) /\ (R = 1 => fin)
  BY <1>2 DEF Receiver
<1>4. R = 0 \/ R = 1
  BY <1>3
<1> QED BY <1>3, <1>4

\* The numbers that both ends count by are the same.
LEMMA StreamMeets ==
  ASSUME PipeInv, ShortStream, NEW p \in Ends, NEW b \in Nat, NEW R \in Nat, Acked(p, b, R),
         NEW N, NEW f, NEW S \in Nat, Stream(p, N, f, S)
  PROVE  /\ S = R /\ R <= b + Len(conn[p].unacked)
         /\ b + Len(conn[p].unacked) = IF conn[p].finSent THEN N + 1 ELSE N
<1> DEFINE c == conn[p]
           L == Len(c.unacked)
           B == Len(c.sendBuf)
           h == SeqSpace \div 2
           w == wrote[p]
           T == b + L
           U == IF c.finSent THEN N + 1 ELSE N
<1>1. Short(N) /\ N \in Nat /\ N < h /\ h \in Nat /\ h >= 2 /\ SeqSpace = 2 * h
  BY StreamIsShort, Space DEF Short
<1>2. w \in Nat /\ w < h
  <2> DEFINE m == MaxBytes[p]
  <2>1. w \in Nat /\ m \in Nat /\ w <= m /\ m < h
    BY Limits DEF PipeInv, TypeInv, TypeOK, ShortStream
  <2> HIDE DEF w, m
  <2> QED BY <1>1, <2>1
<1>3. L \in Nat /\ B \in Nat
  <2>1. c.unacked \in Seq(Kept) /\ c.sendBuf \in Seq(Nat)
    BY DEF PipeInv, TypeInv, TypeOK, Conns
  <2> QED BY <2>1
<1>4. /\ c.sendNext = Num(T) /\ (T + B <= IF c.finSent THEN w + 1 ELSE w)
      /\ R <= h /\ conn[Peer(p)].recvNext = Num(R)
  BY DEF Acked, Counted
<1>5. c.sendNext = Num(U)
  BY DEF Stream, Sender
<1>6. S \in 0 .. N + 1 /\ (S = N + 1 => c.finSent) /\ conn[Peer(p)].recvNext = Num(S)
  BY DEF Stream, Receiver
<1> HIDE DEF c, L, B, h, w
<1>7. T \in Nat /\ T <= w + 1
  BY <1>2, <1>3, <1>4
<1>8. U \in Nat /\ U <= N + 1 /\ S <= U
  <2>1. CASE c.finSent
    BY <1>1, <1>6, <2>1
  <2>2. CASE ~c.finSent
    BY <1>1, <1>6, <2>2
  <2> QED BY <2>1, <2>2
<1> HIDE DEF T, U
<1>9. T = U
  <2>1. T \in Int /\ U \in Int /\ T - U < SeqSpace /\ U - T < SeqSpace
    BY <1>1, <1>2, <1>7, <1>8
  <2> QED BY <1>4, <1>5, <2>1, NumOnce
<1>10. S = R
  <2>1. S \in Int /\ R \in Int /\ S - R < SeqSpace /\ R - S < SeqSpace
    BY <1>1, <1>4, <1>6
  <2> QED BY <1>4, <1>6, <2>1, NumOnce
<1>11. R <= T
  BY <1>8, <1>9, <1>10
<1> QED BY <1>9, <1>10, <1>11 DEF T, U, L, c

\* A round of the end that writes.
LEMMA WriterRound ==
  ASSUME PipeInv, PipeInv', NEW p \in Ends, wrote'[Peer(p)] = 0,
         NEW b \in Nat, NEW R \in Nat, Acked(p, b, R),
         NEW c, Sound(c), NEW rest \in SUBSET net, Round(p, c, rest),
         NEW k \in 0..R, Counted(c, k, wrote'[p]),
         \A o \in c.out : o.to # p /\ AckOf(p, R, conn[Peer(p)].finSent, o)
  PROVE  AckInv(p)'
<1> DEFINE q == Peer(p)
           fin == conn[q].finSent
<1>1. /\ q \in Ends /\ q # p /\ Peer(q) = p /\ Ends = {p, q}
      /\ conn \in [Ends -> Conns] /\ wrote'[p] \in Nat
  BY PeerIs DEF Ends, PipeInv, TypeInv, TypeOK
<1>2. PICK e : RoundsTo(p, c, rest, e)
  BY RoundGoesOn
<1>3. /\ conn'[p] = e /\ conn'[q] = conn[q] /\ e.out = {} /\ Onward(p, c, e)
      /\ \A d \in net' : d \in rest \/ d \in c.out \/ (d.to = q /\ Acknowledges(e, d))
  BY <1>1, <1>2 DEF RoundsTo
<1>4. Counted(e, k, wrote'[p])
  BY <1>1, <1>3 DEF Onward
<1>5. e.recvNext = Num(0) \/ (fin /\ e.recvNext = Num(1))
  <2>1. PICK N \in Nat, f \in [Nat -> Nat], S \in Nat : Stream(q, N, f, S)'
    BY <1>1 DEF PipeInv, Streams
  <2>2. Marks(N, f, wrote'[q]) /\ Receiver(e, read'[p], fin, N, f, S)
    BY <1>1, <1>3, <2>1 DEF Stream, Sender
  <2>3. Marks(N, f, 0)
    BY <2>2
  <2> HIDE DEF fin
  <2> QED BY <2>2, <2>3, NothingTaken
<1>6. /\ b <= R /\ R <= SeqSpace \div 2 /\ Idle(conn[q]) /\ Backs(conn[q], R)
      /\ conn[q].recvNext = Num(R) /\ (\A x \in Ends : conn[x].out = {})
      /\ \A d \in net : AckOf(p, R, fin, d)
  BY DEF Acked
<1>7. ASSUME NEW d \in net' PROVE AckOf(p, R, fin, d)
  <2>1. CASE d \in rest
    BY <1>6, <2>1
  <2>2. CASE d \in c.out
    BY <2>2
  <2>3. CASE d.to = q /\ Acknowledges(e, d)
    <3>1. e.sendBase = Num(k) /\ k \in Nat /\ k <= R
      BY <1>4 DEF Counted
    <3> HIDE DEF fin
    <3> QED BY <1>1, <1>5, <2>3, <3>1, WriterSays
  <2> QED BY <1>3, <2>1, <2>2, <2>3
<1>8. Acked(p, k, R)'
  <2>1. k <= R
    OBVIOUS
  <2>2. \A x \in Ends : conn'[x].out = {}
    BY <1>1, <1>3, <1>6
  <2> QED BY <1>3, <1>4, <1>6, <1>7, <2>1, <2>2 DEF Acked
<1>9. k \in Nat
  OBVIOUS
<1> QED BY <1>8, <1>9 DEF AckInv

\* A round of the end that does not.
LEMMA SilentRound ==
  ASSUME PipeInv, ShortStream, NEW p \in Ends, wrote'[p] = wrote[p],
         NEW b \in Nat, NEW R \in Nat, Acked(p, b, R),
         NEW c, Sound(c), NEW rest \in SUBSET net, Round(Peer(p), c, rest),
         NEW rd, FitsIn(Peer(p), c, rd), Idle(c), Backs(c, R),
         conn[Peer(p)].finSent => c.finSent,
         \A o \in c.out : Acknowledges(conn[Peer(p)], o)
  PROVE  AckInv(p)'
<1> DEFINE q == Peer(p)
           fin == conn[q].finSent
<1>1. /\ q \in Ends /\ q # p /\ Peer(q) = p /\ Ends = {p, q}
      /\ conn \in [Ends -> Conns]
  BY PeerIs DEF Ends, PipeInv, TypeInv, TypeOK
<1>2. PICK e : RoundsTo(q, c, rest, e)
  BY <1>1, RoundGoesOn
<1>3. /\ conn'[q] = e /\ conn'[p] = conn[p] /\ e.out = {} /\ Onward(q, c, e)
      /\ \A d \in net' : d \in rest \/ d \in c.out \/ Acknowledges(e, d)
  BY <1>1, <1>2 DEF RoundsTo
<1>4. /\ b <= R /\ R <= SeqSpace \div 2 /\ Backs(conn[q], R)
      /\ conn[q].recvNext = Num(R) /\ (\A x \in Ends : conn[x].out = {})
      /\ Counted(conn[p], b, wrote[p])
      /\ \A d \in net : AckOf(p, R, fin, d)
  BY DEF Acked
<1>5. PICK N \in Nat, f \in [Nat -> Nat], S \in Nat : Stream(p, N, f, S)
  BY DEF PipeInv, Streams
<1>6. S = R /\ N < SeqSpace \div 2
  BY <1>5, StreamMeets, StreamIsShort DEF Short
<1>7. PICK R2 \in Nat : R2 >= S /\ Receiver(c, rd, conn[p].finSent, N, f, R2)
  BY <1>1, <1>5 DEF FitsIn
<1>8. /\ R <= R2 /\ R2 <= SeqSpace \div 2 /\ c.recvNext = Num(R2)
  <2> DEFINE h == SeqSpace \div 2
  <2>1. h \in Nat /\ N \in Nat /\ N < h /\ R2 \in 0 .. N + 1 /\ c.recvNext = Num(R2)
    BY <1>6, <1>7, Space DEF Receiver
  <2> HIDE DEF h
  <2>2. R2 <= h
    BY <2>1
  <2> QED BY <1>6, <1>7, <2>1, <2>2 DEF h
<1>9. Idle(e) /\ e.recvNext = Num(R2) /\ (fin => e.finSent) /\ Backs(e, R2)
  <2>1. Idle(e) /\ e.recvNext = Num(R2) /\ (fin => e.finSent) /\ e.sendBase = c.sendBase
        /\ (c.finSent => e.finSent /\ e.unacked = c.unacked)
    BY <1>3, <1>8 DEF Onward
  <2>2. Backs(e, R)
    BY <2>1 DEF Backs
  <2> QED BY <1>8, <2>1, <2>2, BacksMore
<1>10. ASSUME NEW d \in net' PROVE AckOf(p, R2, e.finSent, d)
  <2> DEFINE fin2 == e.finSent
  <2>1. fin => fin2
    BY <1>9
  <2> HIDE DEF fin, fin2
  <2>2. ASSUME d \in rest PROVE AckOf(p, R2, fin2, d)
    <3>1. AckOf(p, R, fin, d)
      BY <1>4, <2>2
    <3> QED BY <1>8, <2>1, <3>1, AckOfMore
  <2>3. ASSUME d \in c.out PROVE AckOf(p, R2, fin2, d)
    <3>1. AckOf(p, R, fin, d)
      BY <1>4, <2>3, SilentSays
    <3> QED BY <1>8, <2>1, <3>1, AckOfMore
  <2>4. ASSUME Acknowledges(e, d) PROVE AckOf(p, R2, fin2, d)
    BY <1>9, <2>4, SilentSays
  <2>5. AckOf(p, R2, fin2, d)
    BY <1>3, <2>2, <2>3, <2>4
  <2> QED BY <2>5 DEF fin2
<1>11. Acked(p, b, R2)'
  <2>1. b <= R2
    BY <1>4, <1>8
  <2>2. \A x \in Ends : conn'[x].out = {}
    BY <1>1, <1>3, <1>4
  <2> QED BY <1>3, <1>4, <1>8, <1>9, <1>10, <2>1, <2>2 DEF Acked
<1> QED BY <1>11 DEF AckInv

-----------------------------------------------------------------------------
(* The same, action by action.                                             *)

\* No segment is cut, sent or forgotten.
SameQueue(c, d) ==
  /\ d.sendNext = c.sendNext /\ d.sendBase = c.sendBase /\ d.unacked = c.unacked
  /\ d.sendBuf = c.sendBuf /\ d.finSent = c.finSent

LEMMA WriterKnows ==
  ASSUME PipeInv, NEW p \in Ends, wrote[Peer(p)] = 0,
         NEW b \in Nat, NEW R \in Nat, Acked(p, b, R),
         NEW o, o.to = Peer(p), Acknowledges(conn[p], o)
  PROVE  o.to # p /\ AckOf(p, R, conn[Peer(p)].finSent, o)
<1> DEFINE q == Peer(p)
           c == conn[p]
           fin == conn[q].finSent
<1>1. q \in Ends /\ q # p /\ Peer(q) = p
  BY PeerIs
<1>2. c.recvNext = Num(0) \/ (fin /\ c.recvNext = Num(1))
  <2>1. PICK N \in Nat, f \in [Nat -> Nat], S \in Nat : Stream(q, N, f, S)
    BY <1>1 DEF PipeInv, Streams
  <2>2. Marks(N, f, 0) /\ Receiver(c, read[p], fin, N, f, S)
    BY <1>1, <2>1 DEF Stream, Sender
  <2> HIDE DEF c, fin
  <2> QED BY <2>2, NothingTaken
<1>3. c.sendBase = Num(b) /\ b <= R
  BY DEF Acked, Counted
<1>4. o.to # p /\ Acknowledges(c, o)
  BY <1>1
<1> HIDE DEF c, fin
<1>5. AckOf(p, R, fin, o)
  BY <1>2, <1>3, <1>4, WriterSays
<1> QED BY <1>4, <1>5 DEF fin

\* Timers, the application's reads and its closing.
LEMMA KeptAcks ==
  ASSUME PipeInv, PipeInv', ShortStream, NEW p \in Ends, AckInv(p),
         wrote' = wrote, wrote[Peer(p)] = 0,
         NEW x \in Ends, NEW c, Sound(c), Round(x, c, net),
         SameQueue(conn[x], c), NEW rd, FitsIn(x, c, rd),
         \A o \in c.out : o \in conn[x].out \/ (o.to = Peer(x) /\ Acknowledges(conn[x], o))
  PROVE  AckInv(p)'
<1>1. PICK b \in Nat, R \in Nat : Acked(p, b, R)
  BY DEF AckInv
<1>2. conn[x].out = {} /\ x \in {p, Peer(p)} /\ net \in SUBSET net
  BY <1>1, PeerIs DEF Acked, Ends
<1>3. \A o \in c.out : o.to = Peer(x) /\ Acknowledges(conn[x], o)
  BY <1>2
<1>4. CASE x = p
  <2>1. b \in 0..R
    BY <1>1 DEF Acked
  <2>2. Counted(c, b, wrote'[p])
    BY <1>1, <1>4 DEF Acked, Counted, SameQueue
  <2>3. \A o \in c.out : o.to # p /\ AckOf(p, R, conn[Peer(p)].finSent, o)
    BY <1>1, <1>3, <1>4, WriterKnows
  <2>4. Round(p, c, net) /\ wrote'[Peer(p)] = 0
    BY <1>4
  <2> QED BY <1>1, <1>2, <2>1, <2>2, <2>3, <2>4, WriterRound
<1>5. CASE x = Peer(p)
  <2> DEFINE o == conn[x]
  <2>1. Idle(o) /\ Backs(o, R)
    BY <1>1, <1>5 DEF Acked
  <2>2. Idle(c) /\ Backs(c, R) /\ (o.finSent => c.finSent)
    BY <2>1 DEF SameQueue, Idle, Backs
  <2>3. \A d \in c.out : Acknowledges(conn[Peer(p)], d)
    BY <1>3, <1>5
  <2>4. Round(Peer(p), c, net) /\ FitsIn(Peer(p), c, rd) /\ wrote'[p] = wrote[p]
    BY <1>5
  <2>5. conn[Peer(p)].finSent => c.finSent
    BY <1>5, <2>2
  <2> QED BY <1>1, <1>2, <2>2, <2>3, <2>4, <2>5, SilentRound
<1> QED BY <1>2, <1>4, <1>5

\* A datagram reaches the end that writes.
LEMMA WriterHears ==
  ASSUME PipeInv, PipeInv', ShortStream, NEW p \in Ends, AckInv(p),
         wrote' = wrote, wrote[Peer(p)] = 0, NEW d \in net, d.to = p,
         NEW rest \in SUBSET net, Round(p, OnSegment(p, conn[p], d), rest)
  PROVE  AckInv(p)'
<1> DEFINE o == conn[p]
           c == OnSegment(p, o, d)
           w == wrote[p]
           fin == conn[Peer(p)].finSent
<1>1. PICK b \in Nat, R \in Nat : Acked(p, b, R)
  BY DEF AckInv
<1>2. Sound(o) /\ o \in Conns /\ d \in Outgoing /\ w \in Nat /\ w < SeqSpace \div 2
  <2> DEFINE m == MaxBytes[p]
             h == SeqSpace \div 2
  <2>1. w \in Nat /\ m \in Nat /\ h \in Nat /\ w <= m /\ m < h
    BY Limits, Space DEF PipeInv, TypeInv, TypeOK, ShortStream
  <2>2. Sound(o) /\ o \in Conns /\ d \in Outgoing
    BY DEF PipeInv, TypeInv, TypeOK, Alive
  <2> HIDE DEF w, m, h
  <2>3. w < h
    BY <2>1
  <2> QED BY <2>1, <2>2, <2>3 DEF h
<1>3. /\ Counted(o, b, w) /\ b <= R /\ R <= SeqSpace \div 2 /\ o.out = {}
      /\ AckOf(p, R, fin, d)
  BY <1>1 DEF Acked
<1>4. R <= b + Len(o.unacked)
  <2>1. \E N \in Nat, f \in [Nat -> Nat], S \in Nat : Stream(p, N, f, S)
    BY DEF PipeInv, Streams
  <2> QED BY <1>1, <2>1, StreamMeets
<1>5. Sound(c)
  <2> HIDE DEF o
  <2> QED BY <1>2, OnSegmentIs
<1>6. \E a : /\ Drops(p, o, a) /\ SameSend(a, c) /\ c.out = a.out
             /\ a.sendBase = o.sendBase \/ ("ACK" \in d.flags /\ a.sendBase = d.ack)
  <2> HIDE DEF o
  <2> QED BY <1>2, HeardTakes
<1>7. PICK a : /\ Drops(p, o, a) /\ SameSend(a, c) /\ c.out = a.out
               /\ a.sendBase = o.sendBase \/ ("ACK" \in d.flags /\ a.sendBase = d.ack)
  BY <1>6
<1>8. Round(p, c, rest)
  OBVIOUS
<1> HIDE DEF c
<1>9. a.sendBase = o.sendBase \/ \E k \in 0..R : a.sendBase = Num(k)
  BY <1>3, <1>7 DEF AckOf
<1>10. \E k \in 0..R : Counted(a, k, w)
  <2> HIDE DEF o, w
  <2> QED BY <1>2, <1>3, <1>4, <1>7, <1>9, CountedDrops
<1>11. PICK k \in 0..R : Counted(a, k, w)
  BY <1>10
<1>12. Counted(c, k, wrote'[p])
  BY <1>7, <1>11 DEF SameSend, Counted
<1>13. \A z \in c.out : z.to # p /\ AckOf(p, R, fin, z)
  <2> SUFFICES ASSUME NEW z \in c.out PROVE z.to # p /\ AckOf(p, R, fin, z)
    OBVIOUS
  <2>1. z.to = Peer(p) /\ Acknowledges(conn[p], z)
    BY <1>3, <1>7 DEF Drops, Says
  <2> QED BY <1>1, <2>1, WriterKnows
<1>14. wrote'[Peer(p)] = 0
  OBVIOUS
<1> QED BY <1>1, <1>5, <1>8, <1>12, <1>13, <1>14, WriterRound

\* A datagram reaches the end that does not.
LEMMA SilentHears ==
  ASSUME PipeInv, PipeInv', ShortStream, NEW p \in Ends, AckInv(p),
         wrote' = wrote, NEW d \in net, d.to = Peer(p),
         NEW rest \in SUBSET net, Round(Peer(p), OnSegment(Peer(p), conn[Peer(p)], d), rest)
  PROVE  AckInv(p)'
<1> DEFINE q == Peer(p)
           o == conn[q]
           c == OnSegment(q, o, d)
<1>0. q \in Ends /\ d.to = q
  BY PeerIs
<1>1. PICK b \in Nat, R \in Nat : Acked(p, b, R)
  BY DEF AckInv
<1>2. Sound(o) /\ o \in Conns /\ d \in Outgoing
  BY <1>0 DEF PipeInv, TypeInv, TypeOK, Alive
<1>3. Idle(o) /\ Backs(o, R) /\ o.out = {} /\ AckOf(p, R, o.finSent, d)
  BY <1>0, <1>1 DEF Acked
<1>4. FitsIn(q, c, read[q])
  <2> HIDE DEF q
  <2> QED BY <1>0, HeardFits
<1>5. Sound(c)
  <2> HIDE DEF o, q
  <2> QED BY <1>0, <1>2, OnSegmentIs
<1>6. \E a : /\ Drops(q, o, a) /\ SameSend(a, c) /\ c.out = a.out
             /\ a.sendBase = o.sendBase \/ ("ACK" \in d.flags /\ a.sendBase = d.ack)
  <2> HIDE DEF o, q
  <2> QED BY <1>0, <1>2, HeardTakes
<1>7. PICK a : /\ Drops(q, o, a) /\ SameSend(a, c) /\ c.out = a.out
               /\ a.sendBase = o.sendBase \/ ("ACK" \in d.flags /\ a.sendBase = d.ack)
  BY <1>6
<1>8. Round(q, c, rest)
  OBVIOUS
<1> HIDE DEF c
<1>9. \/ a.sendBase = o.sendBase
      \/ \E k \in 0..R : a.sendBase = Num(k)
      \/ o.finSent /\ a.sendBase = Num(1)
  BY <1>3, <1>7 DEF AckOf
<1>10. Idle(a) /\ Backs(a, R)
  <2> HIDE DEF o, q
  <2> QED BY <1>2, <1>3, <1>7, <1>9, IdleDrops
<1>11. Idle(c) /\ Backs(c, R) /\ (o.finSent => c.finSent)
  BY <1>7, <1>10 DEF SameSend, Idle, Backs, Drops
<1>12. \A z \in c.out : Acknowledges(o, z)
  BY <1>3, <1>7 DEF Drops, Says
<1>13. wrote'[p] = wrote[p]
  OBVIOUS
<1> QED BY <1>1, <1>4, <1>5, <1>8, <1>11, <1>12, <1>13, SilentRound

LEMMA WritingAcks ==
  ASSUME PipeInv, PipeInv', NEW p \in Ends, AckInv(p), MaxBytes[Peer(p)] = 0,
         NEW x \in Ends, AppWrite(x)
  PROVE  AckInv(p)'
<1>1. PICK n \in 1..MaxPayload :
        /\ wrote[x] + n <= MaxBytes[x] /\ wrote' = [wrote EXCEPT ![x] = @ + n]
        /\ Round(x, Written(conn[x], wrote[x], n), net)
  BY Zenon DEF AppWrite, Written
<1>2. WantsAppRead(conn[x]) /\ UNCHANGED <<read, eof>>
  BY DEF AppWrite
<1>3. /\ wrote \in [Ends -> Nat] /\ Sound(conn[p]) /\ conn[p] \in Conns
      /\ n \in Nat /\ n > 0 /\ Peer(p) # p /\ Peer(p) \in Ends /\ Ends = {p, Peer(p)}
      /\ wrote[Peer(p)] <= MaxBytes[Peer(p)]
  BY PeerIs DEF Ends, PipeInv, TypeInv, TypeOK, Alive
<1>4. x = p
  <2>1. CASE x = Peer(p)
    BY <1>1, <1>3, <2>1
  <2> QED BY <1>3, <2>1
<1>5. wrote'[p] = wrote[p] + n /\ wrote'[Peer(p)] = 0
  BY <1>1, <1>3, <1>4
<1>6. PICK b \in Nat, R \in Nat : Acked(p, b, R)
  BY DEF AckInv
<1> DEFINE o == conn[p]
           w == wrote[p]
           c == Written(o, w, n)
<1>7. ~o.finSent /\ w \in Nat /\ o.out = {}
  BY <1>2, <1>3, <1>4, <1>6 DEF WantsAppRead, Acked
<1>8. Round(p, c, net)
  BY <1>1, <1>4
<1>9. /\ Sound(c) /\ c.out = o.out /\ c.sendNext = o.sendNext /\ c.unacked = o.unacked
      /\ c.finSent = o.finSent /\ c.sendBase = o.sendBase
      /\ Len(c.sendBuf) = Len(o.sendBuf) + n
  <2>1. Sound(o) /\ w \in Nat /\ n \in Nat
    BY <1>3, <1>7
  <2> HIDE DEF o, w
  <2> HIDE DEF c
  <2>2. /\ Sound(c) /\ c.out = o.out /\ c.sendNext = o.sendNext /\ c.unacked = o.unacked
        /\ c.finSent = o.finSent /\ c.sendBase = o.sendBase
    BY ONLY <2>1, WrittenIs DEF c
  <2>3. Len(c.sendBuf) = Len(o.sendBuf) + n
    BY ONLY <2>1, WrittenIs DEF c
  <2> QED BY <2>2, <2>3
<1> HIDE DEF c
<1>10. Counted(c, b, w + n)
  <2> DEFINE B == Len(o.sendBuf)
             L == Len(o.unacked)
  <2>1. Counted(o, b, w)
    BY <1>6 DEF Acked
  <2>2. b + L + B <= w
    BY <1>7, <2>1 DEF Counted
  <2>3. L \in Nat /\ B \in Nat
    <3>1. o.unacked \in Seq(Kept) /\ o.sendBuf \in Seq(Nat)
      BY <1>3 DEF Conns
    <3> QED BY <3>1
  <2>4. b + L + (B + n) <= w + n
    <3> HIDE DEF L, B, w
    <3> QED BY <1>3, <1>7, <2>2, <2>3
  <2>5. b + Len(c.unacked) + Len(c.sendBuf) <= IF c.finSent THEN w + n + 1 ELSE w + n
    BY <1>7, <1>9, <2>4
  <2> HIDE DEF o
  <2> QED BY <1>9, <2>1, <2>5 DEF Counted
<1>11. Counted(c, b, wrote'[p]) /\ b \in 0..R /\ net \in SUBSET net
  BY <1>5, <1>6, <1>10 DEF Acked
<1>12. \A z \in c.out : z.to # p /\ AckOf(p, R, conn[Peer(p)].finSent, z)
  BY <1>7, <1>9
<1> QED BY <1>5, <1>6, <1>8, <1>9, <1>11, <1>12, WriterRound

\* The handshake, faults, and the application's reading the end of file.
LEMMA NetAcks ==
  ASSUME PipeInv, NEW p \in Ends, AckInv(p), UNCHANGED <<conn, wrote>>,
         net' \subseteq net \cup {Syn, SynAck}
  PROVE  AckInv(p)'
<1>1. PICK b \in Nat, R \in Nat : Acked(p, b, R)
  BY DEF AckInv
<1>2. "ACK" \notin Syn.flags /\ SynAck.ack = Num(0) /\ 0 \in 0..R
  BY NumZero DEF Syn, SynAck, Segment
<1>3. \A d \in net' : AckOf(p, R, conn[Peer(p)].finSent, d)
  BY <1>1, <1>2 DEF Acked, AckOf
<1>4. Acked(p, b, R)'
  BY <1>1, <1>3 DEF Acked
<1> QED BY <1>4 DEF AckInv

LEMMA AckInit ==
  ASSUME Init, NEW p \in Ends
  PROVE  AckInv(p)
<1>1. Peer(p) \in Ends /\ conn[p] = NewConn /\ conn[Peer(p)] = NewConn /\ wrote[p] = 0
      /\ \A x \in Ends : conn[x] = NewConn
  BY PeerIs DEF Init
<1> DEFINE c == NewConn
<1>2. /\ c.sendBase = Num(0) /\ c.sendNext = Num(0) /\ c.recvNext = Num(0)
      /\ c.unacked = <<>> /\ c.sendBuf = <<>> /\ c.finSent = FALSE /\ c.out = {}
      /\ c.sendNext = FirstSeq
  BY NumZero DEF NewConn
<1> HIDE DEF c
<1>3. Len(c.unacked) = 0 /\ Len(c.sendBuf) = 0 /\ SeqSpace \div 2 \in Nat
  BY <1>2, Space
<1>4. Counted(c, 0, 0)
  BY <1>2, <1>3 DEF Counted
<1>5. Idle(c) /\ Backs(c, 0)
  <2>1. 0 \in 0..0
    OBVIOUS
  <2> QED BY <1>2, <1>3, <2>1 DEF Idle, Backs
<1>6. \A d \in net : AckOf(p, 0, conn[Peer(p)].finSent, d)
  <2>1. net = {Syn} /\ "ACK" \notin Syn.flags
    BY DEF Init, Syn, Segment
  <2> QED BY <2>1 DEF AckOf
<1>7. Acked(p, 0, 0)
  <2>1. 0 <= 0 /\ 0 <= SeqSpace \div 2
    BY <1>3
  <2>2. /\ Counted(conn[p], 0, wrote[p]) /\ Idle(conn[Peer(p)]) /\ Backs(conn[Peer(p)], 0)
        /\ conn[Peer(p)].recvNext = Num(0) /\ \A x \in Ends : conn[x].out = {}
    BY <1>1, <1>2, <1>4, <1>5 DEF c
  <2> QED BY <1>6, <2>1, <2>2 DEF Acked
<1> QED BY <1>7 DEF AckInv

\* Every step keeps it.
LEMMA AckNext ==
  ASSUME ShortStream, NEW p \in Ends, MaxBytes[Peer(p)] = 0, PipeInv, AckInv(p), [Next]_vars
  PROVE  AckInv(p)'
<1>1. PipeInv'
  BY PipeNext
<1>2. /\ TypeInv /\ conn \in [Ends -> Conns] /\ (\A x \in Ends : Sound(conn[x]))
      /\ net \in SUBSET Outgoing
  BY DEF PipeInv, TypeInv, TypeOK, Alive
<1>3. wrote[Peer(p)] = 0 /\ Ends = {p, Peer(p)}
  <2>1. Peer(p) \in Ends /\ Ends = {p, Peer(p)}
    BY PeerIs DEF Ends
  <2>2. wrote[Peer(p)] \in Nat /\ wrote[Peer(p)] <= 0
    BY <2>1 DEF PipeInv, TypeInv, TypeOK
  <2> QED BY <2>1, <2>2
<1>4. CASE Probe
  <2>1. net' \subseteq net \cup {Syn, SynAck} /\ UNCHANGED <<conn, wrote>>
    BY <1>4, CarryIs DEF Probe, appVars
  <2> QED BY <2>1, NetAcks
<1>5. ASSUME NEW d \in net, Shake(d.to, d) PROVE AckInv(p)'
  <2>1. net' \subseteq net \cup {Syn, SynAck} /\ UNCHANGED <<conn, wrote>>
    BY <1>5, CarryIs DEF Shake, appVars
  <2> QED BY <2>1, NetAcks
<1>6. ASSUME NEW d \in net, Receive(d.to, d) PROVE AckInv(p)'
  <2>1. d.to \in Ends
    BY <1>2 DEF Outgoing
  <2>2. /\ \E rest \in SUBSET net : Round(d.to, OnSegment(d.to, conn[d.to], d), rest)
        /\ wrote' = wrote
    <3> DEFINE c == OnSegment(d.to, conn[d.to], d)
    <3>1. (Round(d.to, c, net \ {d}) \/ Round(d.to, c, net)) /\ UNCHANGED appVars
      BY <1>6, Zenon DEF Receive
    <3> HIDE DEF c
    <3>2. \E rest \in SUBSET net : Round(d.to, c, rest)
      BY <3>1
    <3> QED BY <3>1, <3>2 DEF c, appVars
  <2>3. PICK rest \in SUBSET net : Round(d.to, OnSegment(d.to, conn[d.to], d), rest)
    BY <2>2
  <2>4. CASE d.to = p
    <3>1. Round(p, OnSegment(p, conn[p], d), rest)
      BY <2>3, <2>4
    <3> QED BY <1>1, <1>3, <2>2, <2>4, <3>1, WriterHears
  <2>5. CASE d.to = Peer(p)
    <3>1. Round(Peer(p), OnSegment(Peer(p), conn[Peer(p)], d), rest)
      BY <2>3, <2>5
    <3> QED BY <1>1, <2>2, <2>5, <3>1, SilentHears
  <2> QED BY <1>3, <2>1, <2>4, <2>5
<1>7. ASSUME NEW d \in net, Lose(d) PROVE AckInv(p)'
  <2>1. net' \subseteq net \cup {Syn, SynAck} /\ UNCHANGED <<conn, wrote>>
    BY <1>7 DEF Lose, appVars
  <2> QED BY <2>1, NetAcks
<1>8. ASSUME NEW x \in Ends, GiveUpShaking(x) \/ Break(x) \/ ReadEof(x) PROVE AckInv(p)'
  <2>1. net' \subseteq net \cup {Syn, SynAck} /\ UNCHANGED <<conn, wrote>>
    BY <1>8, CarryIs DEF GiveUpShaking, Break, ReadEof, appVars
  <2> QED BY <2>1, NetAcks
<1>9. ASSUME NEW x \in Ends, AppWrite(x) PROVE AckInv(p)'
  BY <1>1, <1>9, WritingAcks
<1>10. ASSUME NEW x \in Ends, AppEof(x) PROVE AckInv(p)'
  <2> DEFINE o == conn[x]
             c == Closed(o)
  <2>1. Round(x, c, net) /\ wrote' = wrote
    BY <1>10, Zenon DEF AppEof, Closed, appVars
  <2>2. Sound(o) /\ FitsIn(x, c, read[x])
    BY <1>2, ClosedFits
  <2>3. Sound(c) /\ SameQueue(o, c) /\ c.out = o.out
    <3> HIDE DEF o
    <3> QED BY <2>2, ClosedIs DEF SameQueue
  <2> HIDE DEF c
  <2>4. \A z \in c.out : z \in conn[x].out
    BY <2>3
  <2> QED BY <1>1, <1>3, <2>1, <2>2, <2>3, <2>4, KeptAcks
<1>11. ASSUME NEW x \in Ends, AppRead(x) PROVE AckInv(p)'
  <2> DEFINE o == conn[x]
  <2>1. o.recvDeliver # <<>> /\ wrote' = wrote
    BY <1>2, <1>11, AppReadIs
  <2>2. PICK n \in 1..Len(Head(o.recvDeliver)) :
          \E c : /\ Sound(c) /\ SameDown(Consumed(o, n), c)
                 /\ SameRecv(Consumed(o, n), c) /\ Round(x, c, net)
    BY <1>2, <1>11, AppReadIs
  <2>3. PICK c : /\ Sound(c) /\ SameDown(Consumed(o, n), c)
                 /\ SameRecv(Consumed(o, n), c) /\ Round(x, c, net)
    BY <2>2
  <2>4. SameDown(o, Consumed(o, n))
    <3>1. Sound(o)
      BY <1>2
    <3> HIDE DEF o
    <3> QED BY <2>1, <3>1, ConsumedIs
  <2>5. SameQueue(o, c) /\ c.out = o.out
    BY <2>3, <2>4 DEF SameDown, SameSend, SameQueue
  <2>6. \E rd : FitsIn(x, c, rd)
    BY <2>1, <2>3, ConsumedFits
  <2>7. \A z \in c.out : z \in conn[x].out
    BY <2>5
  <2> QED BY <1>1, <1>3, <2>1, <2>3, <2>5, <2>6, <2>7, KeptAcks
<1>12. ASSUME NEW x \in Ends, OnTimeout(x) PROVE AckInv(p)'
  <2>1. PICK c : Echo(x, conn[x], c) /\ Sound(c) /\ Round(x, c, net)
    BY <1>2, <1>12, OnTimeoutIs
  <2>2. wrote' = wrote
    BY <1>2, <1>12, OnTimeoutIs DEF appVars
  <2>3. FitsIn(x, c, read[x])
    BY <1>2, <2>1, EchoFits
  <2>4. SameQueue(conn[x], c)
    BY <2>1 DEF Echo, SameSend, SameQueue
  <2>5. ASSUME NEW z \in c.out
        PROVE  z \in conn[x].out \/ (z.to = Peer(x) /\ Acknowledges(conn[x], z))
    <3>1. z \in conn[x].out \/ Says(x, conn[x], z)
      BY <2>1 DEF Echo
    <3> QED BY <3>1 DEF Says
  <2> QED BY <1>1, <1>3, <2>1, <2>2, <2>3, <2>4, <2>5, KeptAcks
<1>13. CASE UNCHANGED vars
  <2>1. net' \subseteq net \cup {Syn, SynAck} /\ UNCHANGED <<conn, wrote>>
    BY <1>13 DEF vars
  <2> QED BY <2>1, NetAcks
<1> QED BY <1>4, <1>5, <1>6, <1>7, <1>8, <1>9, <1>10, <1>11, <1>12, <1>13 DEF Next

-----------------------------------------------------------------------------
(* What several pieces of the stream hold together.                        *)

\* Pieces that follow each other from g[0] up to g[L].
Pieces(pieces, L, g) ==
  /\ L \in Nat /\ g \in [Nat -> Nat] /\ DOMAIN pieces = 1..L
  /\ \A i, j \in 0..L : i <= j => g[i] <= g[j]
  /\ \A i \in 1..L : pieces[i] = Stretch(g[i - 1], g[i])

\* A byte's place among the pieces gives its place in the stream, and back.
LEMMA BytesIs ==
  ASSUME NEW pieces, NEW L, NEW g, Pieces(pieces, L, g)
  PROVE  Bytes(pieces) = g[L] - g[0]
<1> DEFINE S == UNION {{i} \X DOMAIN pieces[i] : i \in DOMAIN pieces}
           T == g[0] + 1 .. g[L]
           F == [s \in S |-> g[s[1] - 1] + s[2]]
<1>1. L \in Nat /\ g \in [Nat -> Nat] /\ DOMAIN pieces = 1..L
      /\ (\A i, j \in 0..L : i <= j => g[i] <= g[j])
  BY DEF Pieces
<1>2. \A i \in 0..L : g[i] \in Nat /\ g[0] <= g[i] /\ g[i] <= g[L]
  <2> SUFFICES ASSUME NEW i \in 0..L PROVE g[i] \in Nat /\ g[0] <= g[i] /\ g[i] <= g[L]
    OBVIOUS
  <2>1. 0 \in 0..L /\ L \in 0..L /\ 0 <= i /\ i <= L /\ i \in Nat
    BY <1>1
  <2> QED BY <1>1, <2>1
<1>3. \A i \in 1..L : /\ DOMAIN pieces[i] = 1 .. g[i] - g[i - 1]
                     /\ i - 1 \in 0..L /\ i \in 0..L /\ g[i - 1] <= g[i]
  <2> SUFFICES ASSUME NEW i \in 1..L
               PROVE  /\ DOMAIN pieces[i] = 1 .. g[i] - g[i - 1]
                      /\ i - 1 \in 0..L /\ i \in 0..L /\ g[i - 1] <= g[i]
    OBVIOUS
  <2>1. i - 1 \in 0..L /\ i \in 0..L /\ i - 1 <= i
    BY <1>1
  <2>2. pieces[i] = Stretch(g[i - 1], g[i])
    BY DEF Pieces
  <2>3. DOMAIN Stretch(g[i - 1], g[i]) = 1 .. g[i] - g[i - 1]
    BY DEF Stretch
  <2> QED BY <1>1, <2>1, <2>2, <2>3
<1>4. ASSUME NEW s \in S
      PROVE  \E i \in 1..L : \E j \in 1 .. g[i] - g[i - 1] : s = <<i, j>>
  <2>1. PICK i \in DOMAIN pieces : s \in {i} \X DOMAIN pieces[i]
    OBVIOUS
  <2> HIDE DEF S
  <2>2. i \in 1..L /\ s \in {i} \X (1 .. g[i] - g[i - 1])
    BY <1>1, <1>3, <2>1
  <2> QED BY <2>2
<1>5. ASSUME NEW i \in 1..L, NEW j \in 1 .. g[i] - g[i - 1]
      PROVE  <<i, j>> \in S
  <2>1. i \in DOMAIN pieces /\ <<i, j>> \in {i} \X DOMAIN pieces[i]
    BY <1>1, <1>3
  <2> QED BY <2>1
<1> HIDE DEF S
<1>6. ASSUME NEW s \in S
      PROVE  F[s] \in T
  <2>1. PICK i \in 1..L : \E j \in 1 .. g[i] - g[i - 1] : s = <<i, j>>
    BY <1>4
  <2>2. PICK j \in 1 .. g[i] - g[i - 1] : s = <<i, j>>
    BY <2>1
  <2>3. F[s] = g[i - 1] + j
    BY <2>2
  <2> DEFINE a == g[i - 1]
             b == g[i]
             x == g[0]
             y == g[L]
  <2>4. a \in Nat /\ b \in Nat /\ x \in Nat /\ y \in Nat /\ x <= a /\ a <= b /\ b <= y
        /\ j \in 1 .. b - a
    <3>1. i - 1 \in 0..L /\ i \in 0..L /\ 0 \in 0..L /\ L \in 0..L
      BY <1>1, <1>3
    <3> QED BY <1>2, <1>3, <3>1
  <2> HIDE DEF a, b, x, y, F
  <2>5. a + j \in x + 1 .. y
    BY <2>4
  <2> QED BY <2>3, <2>5 DEF a, x, y
<1>7. ASSUME NEW s \in S, NEW t \in S, F[s] = F[t]
      PROVE  s = t
  <2>1. PICK i \in 1..L : \E j \in 1 .. g[i] - g[i - 1] : s = <<i, j>>
    BY <1>4
  <2>2. PICK j \in 1 .. g[i] - g[i - 1] : s = <<i, j>>
    BY <2>1
  <2>3. PICK k \in 1..L : \E m \in 1 .. g[k] - g[k - 1] : t = <<k, m>>
    BY <1>4
  <2>4. PICK m \in 1 .. g[k] - g[k - 1] : t = <<k, m>>
    BY <2>3
  <2>5. g[i - 1] + j = g[k - 1] + m
    BY <1>7, <2>2, <2>4
  <2> HIDE DEF F
  <2>6. /\ i - 1 \in 0..L /\ i \in 0..L /\ k - 1 \in 0..L /\ k \in 0..L
        /\ i \in Nat /\ k \in Nat
    BY <1>1, <1>3
  <2>7. g[i - 1] \in Nat /\ g[i] \in Nat /\ g[k - 1] \in Nat /\ g[k] \in Nat
    BY <1>2, <2>6
  <2>8. ~(i < k)
    <3>1. ASSUME i < k PROVE FALSE
      <4>1. i <= k - 1
        BY <2>6, <3>1
      <4>2. g[i] <= g[k - 1]
        BY <1>1, <2>6, <4>1
      <4> DEFINE a == g[i - 1]
                 b == g[i]
                 x == g[k - 1]
                 y == g[k]
      <4>3. /\ a \in Nat /\ b \in Nat /\ x \in Nat /\ y \in Nat /\ b <= x
            /\ j \in 1 .. b - a /\ m \in 1 .. y - x /\ a + j = x + m
        BY <2>5, <2>7, <4>2
      <4> HIDE DEF a, b, x, y
      <4> QED BY <4>3
    <3> QED BY <3>1
  <2>9. ~(k < i)
    <3>1. ASSUME k < i PROVE FALSE
      <4>1. k <= i - 1
        BY <2>6, <3>1
      <4>2. g[k] <= g[i - 1]
        BY <1>1, <2>6, <4>1
      <4> DEFINE a == g[i - 1]
                 b == g[i]
                 x == g[k - 1]
                 y == g[k]
      <4>3. /\ a \in Nat /\ b \in Nat /\ x \in Nat /\ y \in Nat /\ y <= a
            /\ j \in 1 .. b - a /\ m \in 1 .. y - x /\ a + j = x + m
        BY <2>5, <2>7, <4>2
      <4> HIDE DEF a, b, x, y
      <4> QED BY <4>3
    <3> QED BY <3>1
  <2>10. i = k
    BY <2>6, <2>8, <2>9
  <2>11. j = m
    <3> DEFINE a == g[i - 1]
    <3>1. a \in Nat /\ a + j = a + m /\ j \in Int /\ m \in Int
      BY <2>5, <2>7, <2>10
    <3> HIDE DEF a
    <3> QED BY <3>1
  <2> QED BY <2>2, <2>4, <2>10, <2>11
<1>8. ASSUME NEW y \in T
      PROVE  \E s \in S : F[s] = y
  <2> DEFINE H == {n \in 0..L : g[n] >= y}
  <2>1. y \in Nat /\ y > g[0] /\ y <= g[L]
    <3> DEFINE x == g[0]
               z == g[L]
    <3>1. x \in Nat /\ z \in Nat /\ y \in x + 1 .. z
      BY <1>1
    <3> HIDE DEF x, z
    <3>2. y \in Nat /\ y > x /\ y <= z
      BY <3>1
    <3> QED BY <3>2 DEF x, z
  <2>2. L \in H /\ H \in SUBSET Nat
    BY <1>1, <2>1
  <2>3. PICK i \in H : \A n \in H : i <= n
    BY <2>2, Least
  <2>4. i \in 0..L /\ g[i] >= y /\ i # 0
    <3>1. g[0] \in Nat
      BY <1>1
    <3> QED BY <2>1, <3>1
  <2>5. i \in 1..L /\ i - 1 \in 0..L /\ ~(i <= i - 1)
    BY <1>1, <2>4
  <2>6. ~(g[i - 1] >= y)
    BY <2>3, <2>5
  <2> DEFINE a == g[i - 1]
             b == g[i]
             j == y - a
  <2>7. a \in Nat /\ b \in Nat /\ b >= y /\ ~(a >= y)
    BY <1>2, <2>4, <2>5, <2>6
  <2> HIDE DEF a, b
  <2>8. j \in 1 .. b - a /\ a + j = y
    BY <2>1, <2>7
  <2> HIDE DEF j
  <2>9. <<i, j>> \in S
    BY <1>5, <2>5, <2>8 DEF a, b
  <2>10. F[<<i, j>>] = g[i - 1] + j
    BY <2>9
  <2> QED BY <2>8, <2>9, <2>10 DEF a
<1>9. F \in Bijection(S, T)
  <2>1. F \in [S -> T]
    BY <1>6
  <2> HIDE DEF F, T
  <2>2. \A s, t \in S : F[s] = F[t] => s = t
    BY <1>7
  <2>3. \A y \in T : \E s \in S : F[s] = y
    BY <1>8
  <2> QED BY <2>1, <2>2, <2>3, Fun_IsBij
<1>10. ExistsBijection(T, S)
  <2> HIDE DEF F, T
  <2>1. ExistsBijection(S, T)
    BY <1>9 DEF ExistsBijection
  <2> QED BY <2>1, Fun_ExistsBijSymmetric
<1>11. IsFiniteSet(T) /\ Cardinality(T) = g[L] - g[0]
  <2> DEFINE x == g[0]
             y == g[L]
  <2>1. x \in Nat /\ y \in Nat /\ x <= y
    <3>1. 0 \in 0..L
      BY <1>1
    <3> QED BY <1>1, <1>2, <3>1
  <2> HIDE DEF x, y
  <2>2. x + 1 \in Int /\ y \in Int
    BY <2>1
  <2>3. IsFiniteSet(x + 1 .. y) /\ Cardinality(x + 1 .. y) = IF x + 1 > y THEN 0 ELSE y - (x + 1) + 1
    BY <2>2, FS_Interval
  <2>4. Cardinality(x + 1 .. y) = y - x
    BY <2>1, <2>3
  <2> QED BY <2>3, <2>4 DEF x, y
<1> HIDE DEF T
<1>12. Cardinality(S) = Cardinality(T)
  BY <1>10, <1>11, FS_Bijection
<1>13. Bytes(pieces) = Cardinality(S)
  BY DEF Bytes, S
<1> QED BY <1>11, <1>12, <1>13

LEMMA DomainIs ==
  ASSUME NEW T, NEW s \in Seq(T)
  PROVE  Len(s) \in Nat /\ DOMAIN s = 1..Len(s)
OBVIOUS

\* The bytes that the application has read or that wait for it.
Received(r, rd) == Len(rd) + Bytes(r.recvDeliver)

\* The bytes of the first R segments.
Through(N, f, R) == f[Reach(N, R)]

\* What waits to be read and what has been read go as far as what was taken.
LEMMA ReceivedIs ==
  ASSUME NEW r \in Conns, NEW rd \in Seq(Nat), NEW fin, NEW N \in Nat,
         NEW f \in [Nat -> Nat], NEW R \in Nat, Receiver(r, rd, fin, N, f, R)
  PROVE  Received(r, rd) = Through(N, f, R)
<1> DEFINE D == r.recvDeliver
           a == Len(rd)
           e == f[Reach(N, R)]
           L == Len(D)
<1>1. a \in Nat /\ D \in Seq(Seq(Nat)) /\ L \in Nat /\ DOMAIN D = 1..L
  <2>1. D \in Seq(Seq(Nat))
    BY DEF Conns
  <2> HIDE DEF D
  <2> QED BY <2>1, DomainIs
<1>2. Follows(D, a, e)
  BY DEF Receiver
<1> HIDE DEF a, e, D
<1>3. PICK g \in [Nat -> Nat] :
        /\ g[0] = a /\ g[L] = e
        /\ \A i, j \in 0..L : i <= j => g[i] <= g[j]
        /\ \A i \in 1..L : D[i] = Stretch(g[i - 1], g[i])
  BY <1>2 DEF Follows
<1> HIDE DEF L
<1>4. Bytes(D) = g[L] - g[0]
  BY <1>1, <1>3, BytesIs DEF Pieces
<1>5. e \in Nat
  BY <1>1, <1>3
<1>6. a + Bytes(D) = e
  BY <1>1, <1>3, <1>4, <1>5
<1> QED BY <1>6 DEF a, e, D, Through, Received

\* An empty piece of the stream.
LEMMA NoStretch ==
  ASSUME NEW a \in Nat
  PROVE  Stretch(a, a) = <<>>
<1>1. Stretch(a, a) \in Seq(Nat) /\ Len(Stretch(a, a)) = a - a /\ a - a = 0
  BY StretchIs
<1> QED BY <1>1

\* The segments forgotten and those that wait are all there are.
Numbered(c, b, N) == b + Len(c.unacked) = IF c.finSent THEN N + 1 ELSE N

\* The bytes taken from the application that the sender no longer keeps.
Forgotten(c, w) == w - Len(c.sendBuf) - SumLen(c.unacked)

\* What the sender no longer keeps are the bytes of the segments forgotten.
LEMMA ForgottenIs ==
  ASSUME NEW p, NEW c \in Conns, NEW w \in Nat, NEW N \in Nat, NEW f \in [Nat -> Nat],
         Sender(p, c, w, N, f), Short(N), NEW b \in Nat, Counted(c, b, w),
         Numbered(c, b, N)
  PROVE  Forgotten(c, w) = Through(N, f, b)
<1> DEFINE u == c.unacked
           L == Len(u)
           fin == c.finSent
           h == SeqSpace \div 2
           g == [i \in Nat |-> f[Reach(N, b + i)]]
           pieces == [i \in DOMAIN u |-> u[i].data]
<1>1. /\ N \in Nat /\ N < h /\ h \in Nat /\ SeqSpace = 2 * h
      /\ L \in Nat /\ DOMAIN u = 1..L /\ u \in Seq(Kept)
  BY Space DEF Short, Conns
<1>2. Marks(N, f, w) /\ c.sendBuf = Stretch(f[N], w) /\ (\A i \in 1..L : Told(fin, N, f, u[i]))
  BY DEF Sender
<1>3. /\ \A i \in 1..L : u[i].seq = Num(b + (i - 1)) /\ (u[i].data # <<>> \/ fin)
      /\ fin => L <= 1
      /\ (fin => b + L = N + 1) /\ (~fin => b + L = N)
  BY DEF Counted, Numbered
<1>4. SumLen(u) = Bytes(pieces)
  BY DEF SumLen
<1> HIDE DEF u, L, fin, h
<1>5. /\ f \in [Nat -> Nat] /\ f[N] \in Nat /\ f[N] <= w
      /\ \A i, j \in 0..N : i <= j => f[i] <= f[j]
  BY <1>1, <1>2 DEF Marks
<1>6. Len(c.sendBuf) = w - f[N]
  BY <1>2, <1>5, StretchIs
<1>7. \A i \in Nat : Reach(N, i) \in 0..N /\ (N <= i => Reach(N, i) = N)
  BY <1>1 DEF Reach
<1>8. ASSUME NEW i \in Nat, NEW j \in Nat, i <= j
      PROVE  Reach(N, i) <= Reach(N, j)
  <2>1. CASE i <= N
    BY <1>8, <2>1 DEF Reach
  <2>2. CASE ~(i <= N)
    BY <1>8, <2>2 DEF Reach
  <2> QED BY <2>1, <2>2
<1>9. g \in [Nat -> Nat]
  <2>1. ASSUME NEW i \in Nat PROVE b + i \in Nat /\ Reach(N, b + i) \in Nat
    <3>1. b + i \in Nat
      OBVIOUS
    <3>2. Reach(N, b + i) \in 0..N
      BY <1>7, <3>1
    <3> QED BY <1>1, <3>1, <3>2
  <2> QED BY <1>5, <2>1
<1>10. ASSUME NEW i \in 0..L, NEW j \in 0..L, i <= j
       PROVE  g[i] <= g[j]
  <2>1. b + i \in Nat /\ b + j \in Nat /\ b + i <= b + j /\ i \in Nat /\ j \in Nat
    BY <1>1, <1>10
  <2>2. Reach(N, b + i) \in 0..N /\ Reach(N, b + j) \in 0..N
        /\ Reach(N, b + i) <= Reach(N, b + j)
    BY <1>7, <1>8, <2>1
  <2> QED BY <1>5, <2>1, <2>2
<1>11. ASSUME NEW i \in 1..L
       PROVE  u[i].data = Stretch(g[i - 1], g[i])
  <2> DEFINE k == b + (i - 1)
             m == b + i
  <2>1. i \in Nat /\ i - 1 \in Nat /\ k \in Nat /\ m \in Nat /\ m = k + 1 /\ k < b + L
    BY <1>1
  <2>2. g[i - 1] = f[Reach(N, k)] /\ g[i] = f[Reach(N, m)]
    BY <2>1
  <2>3. u[i].seq = Num(k) /\ (u[i].data # <<>> \/ fin)
    BY <1>3
  <2> HIDE DEF k, m, g
  <2>4. CASE u[i].data # <<>>
    <3>1. Part(N, f, u[i].seq, u[i].data)
      BY <1>2, <2>4 DEF Told
    <3>2. PICK n \in 0 .. N - 1 : u[i].seq = Num(n) /\ u[i].data = Stretch(f[n], f[n + 1])
      BY <3>1 DEF Part
    <3>3. n \in Int /\ k \in Int /\ n - k < SeqSpace /\ k - n < SeqSpace
      <4>1. b + L <= N + 1
        <5>1. b + L = N \/ b + L = N + 1
          BY <1>3
        <5> QED BY <1>1, <5>1
      <4>2. k <= N
        BY <1>1, <2>1, <4>1
      <4>3. n \in Nat /\ n <= N - 1 /\ N < 2 * h /\ h \in Nat
        BY <1>1
      <4> QED BY <1>1, <2>1, <4>2, <4>3
    <3>4. n = k
      BY <2>3, <3>2, <3>3, NumOnce
    <3>5. Reach(N, k) = n /\ Reach(N, m) = n + 1
      BY <1>1, <2>1, <3>4 DEF Reach
    <3> QED BY <2>2, <3>2, <3>5
  <2>5. CASE u[i].data = <<>>
    <3>1. fin /\ L <= 1 /\ b + L = N + 1
      BY <1>3, <2>3, <2>5
    <3>2. k = N /\ m = N + 1
      <4>1. L = 1 /\ i = 1
        BY <1>1, <3>1
      <4>2. k = b + (1 - 1) /\ b + 1 = N + 1
        BY <3>1, <4>1 DEF k
      <4> QED BY <2>1, <4>2
    <3>3. Reach(N, k) = N /\ Reach(N, m) = N
      BY <1>1, <3>2 DEF Reach
    <3> QED BY <1>5, <2>2, <2>5, <3>3, NoStretch
  <2> QED BY <2>4, <2>5
<1>12. Pieces(pieces, L, g)
  <2>1. DOMAIN pieces = 1..L /\ \A i \in 1..L : pieces[i] = u[i].data
    BY <1>1
  <2> HIDE DEF pieces, g
  <2> QED BY <1>1, <1>9, <1>10, <1>11, <2>1 DEF Pieces
<1>13. Bytes(pieces) = g[L] - g[0]
  <2> HIDE DEF pieces, g
  <2> QED BY <1>12, BytesIs
<1>14. g[L] = f[N] /\ g[0] = f[Reach(N, b)]
  <2>1. b + L \in Nat /\ N <= b + L /\ b + 0 = b /\ 0 \in Nat
    <3>1. b + L = N \/ b + L = N + 1
      BY <1>3
    <3> QED BY <1>1, <3>1
  <2>2. Reach(N, b + L) = N
    BY <1>7, <2>1
  <2> QED BY <1>1, <2>1, <2>2
<1>15. f[Reach(N, b)] \in Nat
  BY <1>5, <1>7
<1> DEFINE x == f[N]
           y == f[Reach(N, b)]
           B == Bytes(pieces)
<1>16. x \in Nat /\ y \in Nat /\ B = x - y /\ SumLen(c.unacked) = B /\ Len(c.sendBuf) = w - x
  BY <1>4, <1>5, <1>6, <1>13, <1>14, <1>15 DEF u
<1> HIDE DEF x, y, B
<1>17. w - Len(c.sendBuf) - SumLen(c.unacked) = y
  BY <1>16
<1> QED BY <1>17 DEF y, Forgotten, Through

\* Both ends, when the peer of p writes nothing.
LEMMA AckedIs ==
  ASSUME ShortStream, NEW p \in Ends, MaxBytes[Peer(p)] = 0, PipeInv, AckInv(p)
  PROVE  AckedIsReceived
<1> DEFINE q == Peer(p)
<1>1. q \in Ends /\ Peer(q) = p /\ Ends = {p, q}
  BY PeerIs DEF Ends
<1>2. /\ conn[p] \in Conns /\ conn[q] \in Conns /\ read[p] \in Seq(Nat) /\ read[q] \in Seq(Nat)
      /\ wrote[p] \in Nat /\ wrote[q] \in Nat
  BY <1>1 DEF PipeInv, TypeInv, TypeOK
<1>3. wrote[p] - Len(conn[p].sendBuf) - SumLen(conn[p].unacked)
        <= Len(read[q]) + Bytes(conn[q].recvDeliver)
  <2>1. PICK b \in Nat, R \in Nat : Acked(p, b, R)
    BY DEF AckInv
  <2>2. PICK N \in Nat, f \in [Nat -> Nat], S \in Nat : Stream(p, N, f, S)
    BY DEF PipeInv, Streams
  <2>3. /\ S = R /\ Short(N) /\ Marks(N, f, wrote[p])
        /\ b + Len(conn[p].unacked) = IF conn[p].finSent THEN N + 1 ELSE N
    BY <2>1, <2>2, StreamMeets, StreamIsShort
  <2>4. Counted(conn[p], b, wrote[p]) /\ b <= R
    BY <2>1 DEF Acked
  <2>5. Sender(p, conn[p], wrote[p], N, f) /\ Receiver(conn[q], read[q], conn[p].finSent, N, f, R)
    BY <2>2, <2>3 DEF Stream
  <2> DEFINE c == conn[p]
             r == conn[q]
             w == wrote[p]
             rd == read[q]
  <2>6. Forgotten(c, w) = Through(N, f, b)
    <3>1. /\ c \in Conns /\ w \in Nat /\ Sender(p, c, w, N, f) /\ Short(N) /\ Counted(c, b, w)
          /\ Numbered(c, b, N)
      BY <1>2, <2>3, <2>4, <2>5 DEF Numbered
    <3> HIDE DEF c, w
    <3> QED BY <3>1, ForgottenIs
  <2>7. Received(r, rd) = Through(N, f, R)
    <3> DEFINE fin == conn[p].finSent
    <3>1. r \in Conns /\ rd \in Seq(Nat) /\ Receiver(r, rd, fin, N, f, R)
      BY <1>2, <2>5
    <3> HIDE DEF r, rd, fin
    <3> QED BY <3>1, ReceivedIs, ZenonT(60)
  <2>8. Reach(N, b) \in 0..N /\ Reach(N, R) \in 0..N /\ Reach(N, b) <= Reach(N, R)
    BY <2>4 DEF Reach
  <2>9. f[Reach(N, b)] <= f[Reach(N, R)]
    BY <2>3, <2>8 DEF Marks
  <2> QED BY <2>6, <2>7, <2>9 DEF Forgotten, Received, Through
<1>4. wrote[q] - Len(conn[q].sendBuf) - SumLen(conn[q].unacked)
        <= Len(read[p]) + Bytes(conn[p].recvDeliver)
  <2>1. PICK N \in Nat, f \in [Nat -> Nat], S \in Nat : Stream(q, N, f, S)
    BY <1>1 DEF PipeInv, Streams
  <2>2. Receiver(conn[p], read[p], conn[q].finSent, N, f, S)
    BY <1>1, <2>1 DEF Stream
  <2>3. Received(conn[p], read[p]) = Through(N, f, S)
    <3> DEFINE r == conn[p]
               rd == read[p]
               fin == conn[q].finSent
    <3>1. r \in Conns /\ rd \in Seq(Nat) /\ Receiver(r, rd, fin, N, f, S)
      BY <1>2, <2>2
    <3> HIDE DEF r, rd, fin
    <3>2. Received(r, rd) = Through(N, f, S)
      BY <3>1, ReceivedIs
    <3> QED BY <3>2 DEF r, rd
  <2>4. Reach(N, S) \in Nat /\ f[Reach(N, S)] \in Nat
    BY DEF Reach
  <2>5. wrote[q] = 0
    <3>1. wrote[q] <= MaxBytes[q]
      BY <1>1 DEF PipeInv
    <3> QED BY <1>2, <3>1
  <2> DEFINE m == Len(conn[q].sendBuf)
             n == SumLen(conn[q].unacked)
             e == f[Reach(N, S)]
  <2>6. m \in Nat
    <3> DEFINE buf == conn[q].sendBuf
    <3>1. buf \in Seq(Nat)
      BY <1>2 DEF Conns
    <3> HIDE DEF buf
    <3>2. Len(buf) \in Nat
      BY <3>1
    <3> QED BY <3>2 DEF buf
  <2>7. n \in Nat
    BY <1>2, SumLenIsNat DEF Conns
  <2> HIDE DEF m, n, e
  <2>8. e \in Nat
    BY <2>4 DEF e
  <2>9. 0 - m - n <= e
    BY <2>6, <2>7, <2>8
  <2> QED BY <2>3, <2>5, <2>9 DEF m, n, e, Received, Through
<1> QED BY <1>1, <1>3, <1>4 DEF AckedIsReceived

\* What the sender no longer keeps has reached the receiver (reliable.rs:786,
\* "data segments carry the ack field, so the acknowledgement goes out with
\* them"), whatever is lost, repeated and reordered, as long as one of the ends
\* writes nothing: data the other way carries another number in that field.
THEOREM AckedOneWay ==
  ASSUME ShortStream, NEW q \in Ends, MaxBytes[q] = 0
  PROVE  Spec => []AckedIsReceived
<1> DEFINE p == Peer(q)
<1>1. p \in Ends /\ MaxBytes[Peer(p)] = 0
  BY PeerIs
<1> HIDE DEF p
<1> DEFINE Inv == PipeInv /\ AckInv(p)
<1>2. Init => Inv
  BY <1>1, PipeInit, AckInit
<1>3. Inv /\ [Next]_vars => Inv'
  BY <1>1, PipeNext, AckNext
<1>4. Inv => AckedIsReceived
  BY <1>1, AckedIs
<1> QED BY <1>2, <1>3, <1>4, PTL DEF Spec

=============================================================================
