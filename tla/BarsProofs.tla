----------------------------- MODULE BarsProofs -----------------------------
(***************************************************************************)
(* Proofs about Bars, for any intervals and widths, any prices, volumes    *)
(* and limits, and any number of trades.                                   *)
(*                                                                         *)
(* A bucket is closed once a trade of a later one is folded in or the      *)
(* closer has passed it (ClosedBy).  The clock and the order of the apply  *)
(* worker's trades make this final: a trade that still comes to a closed   *)
(* bucket is one whose time was read before the closer passed, and its     *)
(* bucket is late.  So the row of a bucket that is not late is the candle  *)
(* of all its trades for ever (RowOK), and so is the message (MsgOK).      *)
(***************************************************************************)
EXTENDS Bars, TLAPS, FiniteSetTheorems, SequenceTheorems,
        WellFoundedInduction, NaturalsInduction

(* The trades of a bucket in the sequence q, and the units they moved. *)
OfBucket(q, i, s) == {n \in 1..Len(q) : BucketStart(q[n].ts, i) = s}
UnitsOf(q, N) == UNION {{n} \X (1..q[n].vol) : n \in N}

IsFirst(N, n) == \A k \in N : n <= k
IsLast(N, n) == \A k \in N : k <= n

(* Bar b is the candle of its bucket. *)
CandleOf(b, q, N) ==
  /\ \E n \in N : IsFirst(N, n) /\ b.open = q[n].price
  /\ \E n \in N : IsLast(N, n) /\ b.close = q[n].price
  /\ \E n \in N : b.high = q[n].price /\ \A k \in N : q[k].price <= b.high
  /\ \E n \in N : b.low = q[n].price /\ \A k \in N : b.low <= q[k].price
  /\ b.vol = Cardinality(UnitsOf(q, N)) /\ b.count = Cardinality(N)

IsCandle(b, q) == CandleOf(b, q, OfBucket(q, b.interval, b.start))

(* It was, when there were fewer trades. *)
PartOf(b, q, N) ==
  /\ \E n \in N : IsFirst(N, n) /\ b.open = q[n].price
  /\ \E n \in N : b.high <= q[n].price
  /\ \E n \in N : q[n].price <= b.low
  /\ b.vol <= Cardinality(UnitsOf(q, N)) /\ b.count <= Cardinality(N)

IsPart(b, q) == PartOf(b, q, OfBucket(q, b.interval, b.start))

(* No trade may come to bucket s any more, except a late one: a later trade is *)
(* folded in, or the closer has passed, having closed up to c.                 *)
ClosedBy(q, c, i, s) ==
  \/ Len(q) > 0 /\ s < BucketStart(q[Len(q)].ts, i)
  \/ s < BucketStart(c, i)

(* A row, with L the late buckets. *)
RowOK(b, q, c, L) ==
  b \in Bar /\ ClosedBy(q, c, b.interval, b.start) /\ (Bucket(b) \notin L => IsCandle(b, q))

MsgOK(m, q, c, L) ==
  /\ m \in Message /\ m.bar.interval = Shortest /\ (Bucket(m.bar) \notin L => IsPart(m.bar, q))
  /\ m.kind = "bar_closed" => RowOK(m.bar, q, c, L)

(* The forming bar of interval i is of the bucket of the last trade; there is *)
(* none when the closer has passed that one or the bars were cleared.         *)
FormingAt(f, i, q, c, L) ==
  /\ f # NoBar =>
       /\ f \in Bar /\ f.interval = i /\ Len(q) > 0 /\ f.start = BucketStart(q[Len(q)].ts, i)
       /\ f.start < BucketStart(c, i) => Bucket(f) \in L
       /\ Bucket(f) \notin L => IsCandle(f, q)
  /\ f = NoBar /\ Len(q) > 0 =>
       BucketStart(q[Len(q)].ts, i) < BucketStart(c, i) \/ <<i, BucketStart(q[Len(q)].ts, i)>> \in L

Elements(q) == {q[n] : n \in 1..Len(q)}

-----------------------------------------------------------------------------
WorkerType ==
  /\ apply \in [pc : {"idle", "lock", "after"}, trade : Trade \union {NoTrade},
                rows : SUBSET Bar, msgs : Seq(Message)]
  /\ closer \in [pc : {"idle", "lock", "after"}, now : Time, rows : SUBSET Bar, msgs : Seq(Message)]
  /\ apply.pc = "lock" => apply.trade \in Trade
  /\ apply.pc = "after" => Len(apply.msgs) > 0
  /\ (apply.pc # "after" => apply.rows = {}) /\ (closer.pc # "after" => closer.rows = {})
  /\ \/ reader = IdleReader
     \/ reader \in [pc : {"second"}, interval : Interval, bars : Seq(Bar), forming : {NoBar}]

StateType ==
  /\ clock \in Time /\ closedTo \in Time /\ trades \in Seq(Trade)
  /\ forming \in [Interval -> Bar \union {NoBar}]
  /\ lane \subseteq Bar /\ table \subseteq Bar /\ sent \subseteq Message
  /\ late \subseteq Interval \X Time /\ lost \subseteq Interval \X Time

(* One row per bucket. *)
UniqueIn(T) == \A a, b \in T : Bucket(a) = Bucket(b) => a = b

TableOK == IsFiniteSet(table) /\ UniqueIn(table)

(* The clock and the two times read from it. *)
InOrder(q) == \A n, k \in 1..Len(q) : n <= k => q[n].ts <= q[k].ts

Times ==
  /\ InOrder(trades) /\ \A n \in 1..Len(trades) : trades[n].ts <= clock
  /\ apply.pc = "lock" =>
       apply.trade.ts <= clock /\ \A n \in 1..Len(trades) : trades[n].ts <= apply.trade.ts
  /\ closedTo <= clock
  /\ closer.pc = "lock" => closedTo <= closer.now /\ closer.now <= clock

FormingOK == \A i \in Interval : FormingAt(forming[i], i, trades, closedTo, late)

AllRows == apply.rows \union closer.rows \union lane \union table

RowsOK == \A b \in AllRows : RowOK(b, trades, closedTo, late)

AllMsgs == sent \union Elements(apply.msgs) \union Elements(closer.msgs)

MsgsOK == \A m \in AllMsgs : MsgOK(m, trades, closedTo, late)

(* A bucket with trades has a bar somewhere. *)
Held(i, s) ==
  \/ \E b \in AllRows : Bucket(b) = <<i, s>>
  \/ forming[i] # NoBar /\ Bucket(forming[i]) = <<i, s>>

Present ==
  \A i \in Interval, s \in Time :
    <<i, s>> \notin late \union lost /\ OfBucket(trades, i, s) # {} =>
      Held(i, s) \/ Outdated(table, i, s)

(* What a request has read is closed, in order, and not too much. *)
Ascends(q) == \A n \in 1..(Len(q) - 1) : q[n].start < q[n + 1].start

ReaderOK ==
  reader.pc = "second" =>
    /\ Len(reader.bars) <= Limit /\ Ascends(reader.bars)
    /\ \A n \in 1..Len(reader.bars) :
         /\ reader.bars[n].interval = reader.interval
         /\ ClosedBy(trades, closedTo, reader.interval, reader.bars[n].start)

IInv ==
  /\ StateType /\ WorkerType /\ TableOK /\ Times
  /\ FormingOK /\ RowsOK /\ MsgsOK /\ Present /\ ReaderOK

-----------------------------------------------------------------------------
(* Numbers and finite sets. *)

(* A bucket starts at or before the times that are in it, ... *)
LEMMA BucketFacts ==
  ASSUME NEW a \in Nat, NEW i \in Interval
  PROVE  /\ BucketStart(a, i) \in Nat /\ BucketStart(a, i) <= a
         /\ a < BucketStart(a, i) + Width[i] /\ Width[i] \in Nat \ {0}
         /\ BucketStart(a, i) = (a \div Width[i]) * Width[i] /\ a \div Width[i] \in Nat
<1>1. PICK w \in Nat \ {0} : w = Width[i]
  BY WidthAssumption
<1>2. a \div w \in Nat
  OBVIOUS
<1>3. a % w \in 0..(w - 1)
  OBVIOUS
<1>4. a = w * (a \div w) + (a % w)
  OBVIOUS
<1>5. PICK p \in Nat, r \in 0..(w - 1) : p = a \div w /\ a = w * p + r
  BY <1>2, <1>3, <1>4
<1>6. p * w \in Nat /\ p * w = w * p
  OBVIOUS
<1>7. p * w <= a /\ a < (p * w) + w
  BY <1>5, <1>6
<1>8. BucketStart(a, i) = p * w
  BY <1>1, <1>5 DEF BucketStart
<1> QED
  BY <1>1, <1>5, <1>6, <1>7, <1>8

(* ... and buckets do not go back as the time goes on. *)
LEMMA BucketMono ==
  ASSUME NEW a \in Nat, NEW b \in Nat, a <= b, NEW i \in Interval
  PROVE  BucketStart(a, i) <= BucketStart(b, i)
<1>1. PICK w \in Nat \ {0}, p \in Nat, r \in Nat :
        /\ w = Width[i] /\ p = a \div w /\ r = b \div w
        /\ BucketStart(a, i) = p * w /\ BucketStart(b, i) = r * w
  BY BucketFacts
<1>2. p * w <= a /\ b < r * w + w
  BY <1>1, BucketFacts
<1>3. p * w < r * w + w
  BY <1>2
<1>4. p <= r
  <2>1. SUFFICES ASSUME r + 1 <= p
                 PROVE  FALSE
    OBVIOUS
  <2>2. PICK d \in Nat : p = r + 1 + d
    BY <2>1
  <2>3. p * w = r * w + w + d * w
    BY <2>2
  <2>4. d * w \in Nat /\ r * w \in Nat
    OBVIOUS
  <2> QED
    BY <1>3, <2>3, <2>4
<1>5. PICK d \in Nat : r = p + d
  BY <1>4
<1>6. r * w = p * w + d * w /\ d * w \in Nat /\ p * w \in Nat
  BY <1>5
<1> QED
  BY <1>1, <1>6

(* Max and Min of two numbers, and of a set that has them. *)
LEMMA MaxMinTwo ==
  ASSUME NEW a \in Nat, NEW b \in Nat
  PROVE  /\ Max({a, b}) = IF a >= b THEN a ELSE b
         /\ Min({a, b}) = IF a <= b THEN a ELSE b
<1>1. CASE a >= b
  BY <1>1 DEF Max, Min
<1>2. CASE ~ (a >= b)
  BY <1>2 DEF Max, Min
<1> QED
  BY <1>1, <1>2

(* Max and Min are the greatest and the least member, where there is one. *)
LEMMA MaxMinIs ==
  ASSUME NEW S \in SUBSET Nat, NEW n \in S
  PROVE  /\ (\A k \in S : n <= k) => Min(S) = n
         /\ (\A k \in S : k <= n) => Max(S) = n
<1>1. ASSUME \A k \in S : n <= k
      PROVE  Min(S) = n
  <2>1. n \in S /\ \A y \in S : n =< y
    BY <1>1
  <2>2. Min(S) \in S /\ \A y \in S : Min(S) =< y
    BY <2>1 DEF Min
  <2>3. PICK m \in S : m = Min(S) /\ m =< n /\ n =< m
    BY <2>1, <2>2
  <2>4. m \in Nat /\ n \in Nat
    OBVIOUS
  <2> QED
    BY <2>3, <2>4
<1>2. ASSUME \A k \in S : k <= n
      PROVE  Max(S) = n
  <2>1. n \in S /\ \A y \in S : n >= y
    BY <1>2
  <2>2. Max(S) \in S /\ \A y \in S : Max(S) >= y
    BY <2>1 DEF Max
  <2>3. PICK m \in S : m = Max(S) /\ m >= n /\ n >= m
    BY <2>1, <2>2
  <2>4. m \in Nat /\ n \in Nat
    OBVIOUS
  <2> QED
    BY <2>3, <2>4
<1> QED
  BY <1>1, <1>2

(* A set of numbers has a least one, and a bounded one a greatest. *)
LEMMA LeastNumber ==
  ASSUME NEW S \in SUBSET Nat, S # {}
  PROVE  \E n \in S : \A k \in S : n <= k
<1>1. PICK n \in S : \A j \in Nat : <<j, n>> \in OpToRel(<, Nat) => j \notin S
  BY NatLessThanWellFounded, WFMin
<1>2. \A k \in S : k < n => <<k, n>> \in OpToRel(<, Nat)
  BY DEF OpToRel
<1>3. ASSUME NEW k \in S
      PROVE  n <= k
  <2>1. k \in Nat /\ n \in Nat /\ ~ (k < n)
    BY <1>1, <1>2
  <2> QED
    BY <2>1
<1> QED
  BY <1>3

(* A bounded set of numbers has a greatest one. *)
LEMMA GreatestNumber ==
  ASSUME NEW M \in Nat, NEW S \in SUBSET (0..M), S # {}
  PROVE  \E n \in S : \A k \in S : k <= n
<1>1. PICK D : D = {M - k : k \in S}
  OBVIOUS
<1>2. D \in SUBSET Nat /\ D # {}
  <2>1. \A k \in 0..M : M - k \in Nat
    OBVIOUS
  <2> QED
    BY <1>1, <2>1
<1>3. PICK d \in D : \A k \in D : d <= k
  BY <1>2, LeastNumber
<1>4. PICK n \in S : d = M - n
  BY <1>1, <1>3
<1>5. \A k \in S : M - n <= M - k
  BY <1>1, <1>3, <1>4
<1> QED
  BY <1>5

(* What is added to a set of units is counted. *)
LEMMA UnitsFinite ==
  ASSUME NEW q \in Seq(Trade), NEW N \in SUBSET (1..Len(q))
  PROVE  IsFiniteSet(UnitsOf(q, N)) /\ IsFiniteSet(N)
<1>1. IsFiniteSet(N)
  <2>1. Len(q) \in Int /\ 1 \in Int
    OBVIOUS
  <2>2. IsFiniteSet(1..Len(q))
    BY <2>1, FS_Interval
  <2> QED
    BY <2>2, FS_Subset
<1>2. PICK f : f = [n \in N |-> {n} \X (1..q[n].vol)]
  OBVIOUS
<1>3. PICK T : T = {f[n] : n \in N}
  OBVIOUS
<1>4. f \in Surjection(N, T)
  BY <1>2, <1>3 DEF Surjection
<1>5. IsFiniteSet(T)
  BY <1>1, <1>4, FS_Surjection
<1>6. ASSUME NEW U \in T
      PROVE  IsFiniteSet(U)
  <2>1. PICK n \in N : U = {n} \X (1..q[n].vol)
    BY <1>2, <1>3, <1>6
  <2>2. PICK t \in Trade : t = q[n]
    OBVIOUS
  <2>3. t.vol \in Nat
    BY TradeAssumption DEF Trade
  <2>6. 1 \in Int /\ t.vol \in Int
    BY <2>3
  <2>4. IsFiniteSet({n})
    BY FS_Singleton
  <2>5. IsFiniteSet(1..t.vol)
    BY <2>6, FS_Interval
  <2>7. IsFiniteSet(1..q[n].vol)
    BY <2>2, <2>5
  <2> QED
    BY <2>1, <2>4, <2>7, FS_Product
<1>7. UnitsOf(q, N) = UNION T
  BY <1>2, <1>3 DEF UnitsOf
<1> QED
  BY <1>1, <1>5, <1>6, <1>7, FS_UNION

(* The trades of the buckets, when a trade t is added. *)
Appended(q, t, q2) ==
  /\ q2 \in Seq(Trade) /\ Len(q2) = Len(q) + 1 /\ Len(q) \in Nat /\ q2[Len(q) + 1] = t
  /\ \A n \in 1..Len(q) : q2[n] = q[n] /\ q[n] \in Trade
  /\ \A i, s : OfBucket(q2, i, s) =
       IF BucketStart(t.ts, i) = s THEN OfBucket(q, i, s) \union {Len(q) + 1}
       ELSE OfBucket(q, i, s)
  /\ \A i, s : OfBucket(q, i, s) \subseteq 1..Len(q)

(* The number of the new trade is added to its own bucket and to no other. *)
LEMMA OfBucketAppend ==
  ASSUME NEW q \in Seq(Trade), NEW t \in Trade, NEW q2, q2 = Append(q, t)
  PROVE  Appended(q, t, q2)
<1>1. /\ q2 \in Seq(Trade) /\ Len(q2) = Len(q) + 1 /\ Len(q) \in Nat /\ q2[Len(q) + 1] = t
      /\ \A n \in 1..Len(q) : q2[n] = q[n] /\ q[n] \in Trade
  OBVIOUS
<1>2. ASSUME NEW i, NEW s
      PROVE  OfBucket(q2, i, s) =
               IF BucketStart(t.ts, i) = s THEN OfBucket(q, i, s) \union {Len(q) + 1}
               ELSE OfBucket(q, i, s)
  <2>1. 1..Len(q2) = 1..Len(q) \union {Len(q) + 1}
    BY <1>1
  <2>2. \A n \in 1..Len(q) : BucketStart(q2[n].ts, i) = BucketStart(q[n].ts, i)
    BY <1>1
  <2> QED
    BY <1>1, <2>1, <2>2 DEF OfBucket
<1>3. \A i, s : OfBucket(q, i, s) \subseteq 1..Len(q)
  BY DEF OfBucket
<1>4. \A i, s : OfBucket(q2, i, s) =
        IF BucketStart(t.ts, i) = s THEN OfBucket(q, i, s) \union {Len(q) + 1}
        ELSE OfBucket(q, i, s)
  BY <1>2, Zenon
<1> QED
  BY <1>1, <1>3, <1>4, Zenon DEF Appended

(* The units of some trades and of one more. *)
UnitsAdded(q, t, q2, N) ==
  /\ UnitsOf(q2, N) = UnitsOf(q, N)
  /\ Cardinality(UnitsOf(q, N)) \in Nat /\ Cardinality(N) \in Nat
  /\ Cardinality(UnitsOf(q2, N \union {Len(q) + 1})) = Cardinality(UnitsOf(q, N)) + t.vol
  /\ Cardinality(N \union {Len(q) + 1}) = Cardinality(N) + 1

(* The units and the trades of a set that the new trade joins are one trade *)
(* more.                                                                    *)
LEMMA UnitsAdd ==
  ASSUME NEW q \in Seq(Trade), NEW t \in Trade, NEW q2, q2 = Append(q, t),
         NEW N \in SUBSET (1..Len(q))
  PROVE  UnitsAdded(q, t, q2, N)
<1>1. /\ q2 \in Seq(Trade) /\ Len(q2) = Len(q) + 1 /\ Len(q) \in Nat /\ q2[Len(q) + 1] = t
      /\ \A n \in 1..Len(q) : q2[n] = q[n]
  <2>1. Appended(q, t, q2)
    BY OfBucketAppend, Zenon
  <2> QED
    BY <2>1, Zenon DEF Appended
<1>2. PICK x, A, B : x = Len(q) + 1 /\ A = UnitsOf(q, N) /\ B = {x} \X (1..t.vol)
  OBVIOUS
<1>3. x \notin N /\ \A n \in N : n # x
  BY <1>1, <1>2
<1>4. UnitsOf(q2, N) = A
  BY <1>1, <1>2 DEF UnitsOf
<1>5. UnitsOf(q2, N \union {x}) = A \union B
  <2>1. UnitsOf(q2, N \union {x}) = UnitsOf(q2, N) \union ({x} \X (1..q2[x].vol))
    BY Zenon DEF UnitsOf
  <2> QED
    BY <1>1, <1>2, <1>4, <2>1
<1>6. A \intersect B = {}
  BY <1>2, <1>3 DEF UnitsOf
<1>7. t.vol \in Nat
  BY TradeAssumption DEF Trade
<1>8. IsFiniteSet(A) /\ IsFiniteSet(N)
  BY <1>2, UnitsFinite
<1>9. IsFiniteSet(B) /\ Cardinality(B) = t.vol
  <2>1. IsFiniteSet({x}) /\ Cardinality({x}) = 1
    BY FS_Singleton
  <2>2. IsFiniteSet(1..t.vol) /\ Cardinality(1..t.vol) = IF 1 > t.vol THEN 0 ELSE t.vol - 1 + 1
    <3>1. 1 \in Int /\ t.vol \in Int
      BY <1>7
    <3> QED
      BY <3>1, FS_Interval
  <2>3. IsFiniteSet(B) /\ Cardinality(B) = 1 * Cardinality(1..t.vol)
    BY <1>2, <2>1, <2>2, FS_Product
  <2>4. Cardinality(1..t.vol) = t.vol
    BY <1>7, <2>2
  <2> QED
    BY <1>7, <2>3, <2>4
<1>10. Cardinality(A \union B) = Cardinality(A) + Cardinality(B) - Cardinality({})
  BY <1>6, <1>8, <1>9, FS_Union
<1>11. Cardinality(A) \in Nat /\ Cardinality(N) \in Nat /\ Cardinality({}) = 0
  BY <1>8, FS_CardinalityType, FS_EmptySet
<1>12. Cardinality(N \union {x}) = Cardinality(N) + 1
  BY <1>3, <1>8, FS_AddElement
<1>13. Cardinality(A \union B) = Cardinality(A) + t.vol
  BY <1>7, <1>9, <1>10, <1>11
<1> QED
  BY <1>2, <1>4, <1>5, <1>11, <1>12, <1>13, Zenon DEF UnitsAdded

-----------------------------------------------------------------------------
(* Candles, when a trade is added. *)

(* The fields of a trade are numbers. *)
LEMMA TradeFacts ==
  ASSUME NEW t \in Trade
  PROVE  t.price \in Nat /\ t.vol \in Nat /\ t.ts \in Time /\ t.ts \in Nat
<1>1. t.price \in Price /\ t.vol \in Volume /\ t.ts \in Time
  BY DEF Trade
<1>2. t.ts \in Nat
  BY <1>1, BarBoundsAssumption DEF Time
<1> QED
  BY <1>1, <1>2, TradeAssumption

(* So are those of a bar, which is of an interval. *)
LEMMA BarFacts ==
  ASSUME NEW b \in Bar
  PROVE  /\ b.interval \in Interval /\ b.start \in Time /\ b.start \in Nat
         /\ b.open \in Nat /\ b.high \in Nat /\ b.low \in Nat /\ b.close \in Nat
         /\ b.vol \in Nat /\ b.count \in Nat
BY BarBoundsAssumption DEF Bar, Time

(* The bucket of a trade starts at a time. *)
LEMMA StartIsTime ==
  ASSUME NEW a \in Time, NEW i \in Interval
  PROVE  BucketStart(a, i) \in Time /\ a \in Nat /\ BucketStart(a, i) \in Nat
<1>1. a \in Nat
  BY BarBoundsAssumption DEF Time
<1>2. PICK s \in Nat : s = BucketStart(a, i) /\ s <= a
  BY <1>1, BucketFacts
<1> QED
  BY <1>1, <1>2, BarBoundsAssumption DEF Time

(* A bar of one trade is the candle of a bucket that had none. *)
LEMMA NewBarIsCandle ==
  ASSUME NEW q \in Seq(Trade), NEW t \in Trade, NEW q2, q2 = Append(q, t), NEW i \in Interval
  PROVE  /\ NewBar(i, t) \in Bar /\ NewBar(i, t) # NoBar
         /\ NewBar(i, t).interval = i /\ NewBar(i, t).start = BucketStart(t.ts, i)
         /\ OfBucket(q, i, BucketStart(t.ts, i)) = {} => IsCandle(NewBar(i, t), q2)
<1>1. PICK s : s = BucketStart(t.ts, i) /\ s \in Time
  BY TradeFacts, StartIsTime
<1>2. PICK b : b = NewBar(i, t)
  OBVIOUS
<1>3. /\ b.interval = i /\ b.start = s /\ b.open = t.price /\ b.high = t.price /\ b.low = t.price
      /\ b.close = t.price /\ b.vol = t.vol /\ b.count = 1
  BY <1>1, <1>2 DEF NewBar
<1>4. b \in Bar
  BY <1>1, <1>2, TradeFacts DEF NewBar, Bar
<1>5. b # NoBar
  <2>1. DOMAIN b = {"interval", "start", "open", "high", "low", "close", "vol", "count"}
    BY <1>2 DEF NewBar
  <2>2. DOMAIN NoBar = {"interval"}
    BY DEF NoBar
  <2> QED
    BY <2>1, <2>2
<1>6. ASSUME OfBucket(q, i, s) = {}
      PROVE  IsCandle(b, q2)
  <2>1. PICK x : x = Len(q) + 1
    OBVIOUS
  <2>2. OfBucket(q2, i, s) = {x} /\ q2[x] = t /\ x \in Nat
    <3>1. Appended(q, t, q2)
      BY OfBucketAppend, Zenon
    <3>2. Len(q) \in Nat /\ q2[Len(q) + 1] = t
      BY <3>1, Zenon DEF Appended
    <3>3. OfBucket(q2, i, s) = IF BucketStart(t.ts, i) = s THEN OfBucket(q, i, s) \union {Len(q) + 1}
                               ELSE OfBucket(q, i, s)
      BY <3>1, Zenon DEF Appended
    <3>4. OfBucket(q2, i, s) = {} \union {x}
      BY <1>1, <1>6, <2>1, <3>3, Zenon
    <3> QED
      BY <2>1, <3>2, <3>4
  <2>3. Cardinality(UnitsOf(q2, {x})) = t.vol /\ Cardinality({x}) = 1
    <3>1. {} \in SUBSET (1..Len(q))
      OBVIOUS
    <3>8. UnitsAdded(q, t, q2, {})
      BY <3>1, UnitsAdd, Zenon
    <3>2. /\ Cardinality(UnitsOf(q2, {} \union {Len(q) + 1})) = Cardinality(UnitsOf(q, {})) + t.vol
          /\ Cardinality({} \union {Len(q) + 1}) = Cardinality({}) + 1
      BY <3>8, Zenon DEF UnitsAdded
    <3>3. UnitsOf(q, {}) = {}
      BY DEF UnitsOf
    <3>4. Cardinality({}) = 0
      BY FS_EmptySet
    <3>5. {} \union {Len(q) + 1} = {x}
      BY <2>1
    <3>6. t.vol \in Nat
      BY TradeFacts
    <3>7. Cardinality(UnitsOf(q2, {x})) = 0 + t.vol /\ Cardinality({x}) = 0 + 1
      BY <3>2, <3>3, <3>4, <3>5, Zenon
    <3> QED
      BY <3>6, <3>7
  <2>4. t.price \in Nat
    BY TradeFacts
  <2>5. CandleOf(b, q2, {x})
    <3>1. IsFirst({x}, x) /\ IsLast({x}, x)
      BY <2>2 DEF IsFirst, IsLast
    <3>2. q2[x].price <= b.high /\ b.low <= q2[x].price
      BY <1>3, <2>2, <2>4
    <3>3. b.open = q2[x].price /\ b.close = q2[x].price /\ b.high = q2[x].price /\ b.low = q2[x].price
      BY <1>3, <2>2
    <3>4. b.vol = Cardinality(UnitsOf(q2, {x})) /\ b.count = Cardinality({x})
      BY <1>3, <2>3
    <3> QED
      BY <3>1, <3>2, <3>3, <3>4, Zenon DEF CandleOf
  <2> QED
    BY <1>3, <2>2, <2>5 DEF IsCandle
<1> QED
  BY <1>1, <1>2, <1>3, <1>4, <1>5, <1>6

(* A further trade of the bucket keeps it one. *)
LEMMA FoldIsCandle ==
  ASSUME NEW q \in Seq(Trade), NEW t \in Trade, NEW q2, q2 = Append(q, t), NEW b \in Bar,
         BucketStart(t.ts, b.interval) = b.start
  PROVE  /\ Fold(b, t) \in Bar
         /\ Fold(b, t).interval = b.interval /\ Fold(b, t).start = b.start
         /\ IsCandle(b, q) => IsCandle(Fold(b, t), q2)
<1>1. /\ b.interval \in Interval /\ b.start \in Time /\ b.open \in Nat /\ b.high \in Nat
      /\ b.low \in Nat /\ b.close \in Nat /\ b.vol \in Nat /\ b.count \in Nat
  BY BarFacts
<1>2. t.price \in Nat /\ t.vol \in Nat
  BY TradeFacts
<1>3. PICK h, l : h = Max({b.high, t.price}) /\ l = Min({b.low, t.price})
  OBVIOUS
<1>4. /\ h = IF b.high >= t.price THEN b.high ELSE t.price
      /\ l = IF b.low <= t.price THEN b.low ELSE t.price
  BY <1>1, <1>2, <1>3, MaxMinTwo
<1>5. h \in Nat /\ l \in Nat
  BY <1>1, <1>2, <1>4
<1>6. PICK f : f = Fold(b, t)
  OBVIOUS
<1>7. f \in Bar
  <2>1. f = [b EXCEPT !.high = h, !.low = l, !.close = t.price, !.vol = b.vol + t.vol,
                      !.count = b.count + 1]
    BY <1>3, <1>6 DEF Fold
  <2>2. b.vol + t.vol \in Nat /\ b.count + 1 \in Nat
    BY <1>1, <1>2
  <2> QED
    BY <1>2, <1>5, <2>1, <2>2 DEF Bar
<1>8. /\ f.interval = b.interval /\ f.start = b.start /\ f.open = b.open /\ f.high = h /\ f.low = l
      /\ f.close = t.price /\ f.vol = b.vol + t.vol /\ f.count = b.count + 1
  BY <1>3, <1>6 DEF Fold, Bar
<1>9. ASSUME IsCandle(b, q)
      PROVE  IsCandle(f, q2)
  <2>1. PICK N, x : N = OfBucket(q, b.interval, b.start) /\ x = Len(q) + 1
    OBVIOUS
  <2>2. /\ OfBucket(q2, b.interval, b.start) = N \union {x} /\ q2[x] = t /\ x \in Nat
        /\ N \subseteq 1..Len(q) /\ Len(q) \in Nat
        /\ \A n \in N : q2[n] = q[n] /\ q[n] \in Trade
    <3>1. Appended(q, t, q2)
      BY OfBucketAppend, Zenon
    <3>2. Len(q) \in Nat /\ q2[Len(q) + 1] = t /\ \A n \in 1..Len(q) : q2[n] = q[n] /\ q[n] \in Trade
      BY <3>1, Zenon DEF Appended
    <3>3. /\ OfBucket(q2, b.interval, b.start) = OfBucket(q, b.interval, b.start) \union {Len(q) + 1}
          /\ OfBucket(q, b.interval, b.start) \subseteq 1..Len(q)
      BY <3>1, Zenon DEF Appended
    <3> QED
      BY <2>1, <3>2, <3>3
  <2>3. CandleOf(b, q, N)
    BY <1>9, <2>1 DEF IsCandle
  <2>4. \A n \in N : n \in Nat /\ n <= x
    BY <2>1, <2>2
  <2>5. \A n \in N : q2[n].price = q[n].price /\ q[n].price \in Nat
    BY <2>2, TradeFacts
  <2>6. PICK M : M = N \union {x}
    OBVIOUS
  <2>7. \E n \in M : IsFirst(M, n) /\ f.open = q2[n].price
    <3>1. PICK n \in N : IsFirst(N, n) /\ b.open = q[n].price
      BY <2>3 DEF CandleOf
    <3>2. IsFirst(M, n)
      BY <2>4, <2>6, <3>1 DEF IsFirst
    <3> QED
      BY <1>8, <2>5, <2>6, <3>1, <3>2
  <2>8. \E n \in M : IsLast(M, n) /\ f.close = q2[n].price
    <3>1. IsLast(M, x)
      BY <2>2, <2>4, <2>6 DEF IsLast
    <3> QED
      BY <1>8, <2>2, <2>6, <3>1
  <2>9. \E n \in M : f.high = q2[n].price /\ \A k \in M : q2[k].price <= f.high
    <3>1. PICK n \in N : b.high = q[n].price /\ \A k \in N : q[k].price <= b.high
      BY <2>3 DEF CandleOf
    <3>2. b.high <= h /\ t.price <= h
      BY <1>1, <1>2, <1>4
    <3>3. ASSUME NEW k \in N
          PROVE  q2[k].price <= h
      <4>1. q2[k].price = q[k].price /\ q[k].price \in Nat /\ q[k].price <= b.high /\ b.high <= h
        BY <2>5, <3>1, <3>2
      <4> QED
        BY <1>1, <1>5, <4>1
    <3>4. \A k \in M : q2[k].price <= h
      BY <2>2, <2>6, <3>2, <3>3
    <3>5. h = q2[n].price \/ h = q2[x].price
      BY <1>4, <2>2, <2>5, <3>1
    <3> QED
      BY <1>8, <2>6, <3>4, <3>5
  <2>10. \E n \in M : f.low = q2[n].price /\ \A k \in M : f.low <= q2[k].price
    <3>1. PICK n \in N : b.low = q[n].price /\ \A k \in N : b.low <= q[k].price
      BY <2>3 DEF CandleOf
    <3>2. l <= b.low /\ l <= t.price
      BY <1>1, <1>2, <1>4
    <3>3. ASSUME NEW k \in N
          PROVE  l <= q2[k].price
      <4>1. q2[k].price = q[k].price /\ q[k].price \in Nat /\ b.low <= q[k].price /\ l <= b.low
        BY <2>5, <3>1, <3>2
      <4> QED
        BY <1>1, <1>5, <4>1
    <3>4. \A k \in M : l <= q2[k].price
      BY <2>2, <2>6, <3>2, <3>3
    <3>5. l = q2[n].price \/ l = q2[x].price
      BY <1>4, <2>2, <2>5, <3>1
    <3> QED
      BY <1>8, <2>6, <3>4, <3>5
  <2>11. f.vol = Cardinality(UnitsOf(q2, M)) /\ f.count = Cardinality(M)
    <3>1. N \in SUBSET (1..Len(q))
      BY <2>2
    <3>4. UnitsAdded(q, t, q2, N)
      BY <3>1, UnitsAdd, Zenon
    <3>2. /\ Cardinality(UnitsOf(q2, N \union {Len(q) + 1})) = Cardinality(UnitsOf(q, N)) + t.vol
          /\ Cardinality(N \union {Len(q) + 1}) = Cardinality(N) + 1
      BY <3>4, Zenon DEF UnitsAdded
    <3>3. b.vol = Cardinality(UnitsOf(q, N)) /\ b.count = Cardinality(N)
      BY <2>3 DEF CandleOf
    <3> QED
      BY <1>8, <2>1, <2>6, <3>2, <3>3, Zenon
  <2>12. CandleOf(f, q2, M)
    BY <2>7, <2>8, <2>9, <2>10, <2>11 DEF CandleOf
  <2> QED
    BY <1>8, <2>2, <2>6, <2>12 DEF IsCandle
<1> QED
  BY <1>6, <1>7, <1>8, <1>9

(* A trade of another bucket does not touch it. *)
LEMMA OtherIsCandle ==
  ASSUME NEW q \in Seq(Trade), NEW t \in Trade, NEW q2, q2 = Append(q, t), NEW b \in Bar,
         BucketStart(t.ts, b.interval) # b.start, IsCandle(b, q)
  PROVE  IsCandle(b, q2)
<1>1. PICK N : N = OfBucket(q, b.interval, b.start)
  OBVIOUS
<1>2. /\ OfBucket(q2, b.interval, b.start) = N /\ N \in SUBSET (1..Len(q))
      /\ \A n \in N : q2[n] = q[n]
  <2>1. Appended(q, t, q2)
    BY OfBucketAppend, Zenon
  <2>2. /\ OfBucket(q2, b.interval, b.start) = OfBucket(q, b.interval, b.start)
        /\ OfBucket(q, b.interval, b.start) \subseteq 1..Len(q)
        /\ \A n \in 1..Len(q) : q2[n] = q[n]
    BY <2>1, Zenon DEF Appended
  <2> QED
    BY <1>1, <2>2
<1>3. UnitsOf(q2, N) = UnitsOf(q, N)
  <2>1. UnitsAdded(q, t, q2, N)
    BY <1>2, UnitsAdd, Zenon
  <2> QED
    BY <2>1, Zenon DEF UnitsAdded
<1>4. CandleOf(b, q, N)
  BY <1>1 DEF IsCandle
<1>5. CandleOf(b, q2, N)
  <2>1. \A n \in N : q2[n].price = q[n].price
    BY <1>2
  <2>2. \E n \in N : IsFirst(N, n) /\ b.open = q2[n].price
    BY <1>4, <2>1 DEF CandleOf
  <2>3. \E n \in N : IsLast(N, n) /\ b.close = q2[n].price
    BY <1>4, <2>1 DEF CandleOf
  <2>4. \E n \in N : b.high = q2[n].price /\ \A k \in N : q2[k].price <= b.high
    BY <1>4, <2>1 DEF CandleOf
  <2>5. \E n \in N : b.low = q2[n].price /\ \A k \in N : b.low <= q2[k].price
    BY <1>4, <2>1 DEF CandleOf
  <2>6. b.vol = Cardinality(UnitsOf(q2, N)) /\ b.count = Cardinality(N)
    BY <1>3, <1>4 DEF CandleOf
  <2> QED
    BY <2>2, <2>3, <2>4, <2>5, <2>6, Zenon DEF CandleOf
<1> QED
  BY <1>2, <1>5 DEF IsCandle

(* The candle bounds what is part of it, ... *)
LEMMA CandleIsPart ==
  ASSUME NEW q \in Seq(Trade), NEW b \in Bar, IsCandle(b, q)
  PROVE  IsPart(b, q)
<1>1. PICK N : N = OfBucket(q, b.interval, b.start)
  OBVIOUS
<1>2. CandleOf(b, q, N)
  BY <1>1 DEF IsCandle
<1>3. b.high \in Nat /\ b.low \in Nat /\ b.vol \in Nat /\ b.count \in Nat
  BY BarFacts
<1>4. \E n \in N : IsFirst(N, n) /\ b.open = q[n].price
  BY <1>2 DEF CandleOf
<1>5. \E n \in N : b.high <= q[n].price
  <2>1. PICK n \in N : b.high = q[n].price
    BY <1>2 DEF CandleOf
  <2> QED
    BY <1>3, <2>1
<1>6. \E n \in N : q[n].price <= b.low
  <2>1. PICK n \in N : b.low = q[n].price
    BY <1>2 DEF CandleOf
  <2> QED
    BY <1>3, <2>1
<1>7. b.vol <= Cardinality(UnitsOf(q, N)) /\ b.count <= Cardinality(N)
  BY <1>2, <1>3 DEF CandleOf
<1> QED
  BY <1>1, <1>4, <1>5, <1>6, <1>7 DEF IsPart, PartOf

(* ... and what is part of it stays so. *)
LEMMA PartAppend ==
  ASSUME NEW q \in Seq(Trade), NEW t \in Trade, NEW q2, q2 = Append(q, t), NEW b \in Bar,
         IsPart(b, q)
  PROVE  IsPart(b, q2)
<1>1. PICK N, M, x : /\ N = OfBucket(q, b.interval, b.start) /\ x = Len(q) + 1
                     /\ M = OfBucket(q2, b.interval, b.start)
  OBVIOUS
<1>2. Appended(q, t, q2)
  BY OfBucketAppend, Zenon
<1>3. /\ N \subseteq 1..Len(q) /\ (M = N \/ M = N \union {x}) /\ Len(q) \in Nat
      /\ \A n \in N : q2[n] = q[n]
  <2>1. /\ N \subseteq 1..Len(q) /\ Len(q) \in Nat /\ \A n \in 1..Len(q) : q2[n] = q[n]
    BY <1>1, <1>2, Zenon DEF Appended
  <2>2. M = IF BucketStart(t.ts, b.interval) = b.start THEN N \union {x} ELSE N
    BY <1>1, <1>2, Zenon DEF Appended
  <2> QED
    BY <2>1, <2>2
<1>4. UnitsAdded(q, t, q2, N)
  BY <1>3, UnitsAdd, Zenon
<1>5. b.vol \in Nat /\ b.count \in Nat /\ t.vol \in Nat
  BY BarFacts, TradeFacts
<1>6. PartOf(b, q, N)
  BY <1>1 DEF IsPart
<1>7. \E n \in M : IsFirst(M, n) /\ b.open = q2[n].price
  <2>1. PICK n \in N : IsFirst(N, n) /\ b.open = q[n].price
    BY <1>6 DEF PartOf
  <2>2. n \in Nat /\ n <= x
    BY <1>1, <1>3
  <2>3. IsFirst(M, n)
    BY <1>3, <2>1, <2>2 DEF IsFirst
  <2> QED
    BY <1>3, <2>1, <2>3
<1>8. \E n \in M : b.high <= q2[n].price
  <2>1. PICK n \in N : b.high <= q[n].price
    BY <1>6 DEF PartOf
  <2> QED
    BY <1>3, <2>1
<1>9. \E n \in M : q2[n].price <= b.low
  <2>1. PICK n \in N : q[n].price <= b.low
    BY <1>6 DEF PartOf
  <2> QED
    BY <1>3, <2>1
<1>10. b.vol <= Cardinality(UnitsOf(q2, M)) /\ b.count <= Cardinality(M)
  <2>1. PICK u \in Nat, k \in Nat : u = Cardinality(UnitsOf(q, N)) /\ k = Cardinality(N)
    BY <1>4, Zenon DEF UnitsAdded
  <2>2. b.vol <= u /\ b.count <= k
    BY <1>6, <2>1 DEF PartOf
  <2>3. CASE M = N
    <3>1. UnitsOf(q2, M) = UnitsOf(q, N)
      BY <1>4, <2>3, Zenon DEF UnitsAdded
    <3> QED
      BY <2>1, <2>2, <2>3, <3>1
  <2>4. CASE M = N \union {x}
    <3>1. Cardinality(UnitsOf(q2, M)) = u + t.vol /\ Cardinality(M) = k + 1
      BY <1>1, <1>4, <2>1, <2>4, Zenon DEF UnitsAdded
    <3> QED
      BY <1>5, <2>2, <3>1
  <2> QED
    BY <1>3, <2>3, <2>4
<1> QED
  BY <1>1, <1>7, <1>8, <1>9, <1>10 DEF IsPart, PartOf

(* A bar that is the candle of its bucket is the one Candle names. *)
LEMMA CandleIs ==
  ASSUME trades \in Seq(Trade), NEW b \in Bar, IsCandle(b, trades)
  PROVE  b = Candle(b.interval, b.start) /\ TradesOf(b.interval, b.start) # {}
<1>1. PICK N : N = OfBucket(trades, b.interval, b.start) /\ N = TradesOf(b.interval, b.start)
  BY DEF OfBucket, TradesOf
<1>2. CandleOf(b, trades, N)
  BY <1>1 DEF IsCandle
<1>3. N \in SUBSET (1..Len(trades)) /\ Len(trades) \in Nat
  BY <1>1 DEF OfBucket
<1>4. N \in SUBSET Nat /\ \A n \in N : trades[n] \in Trade
  BY <1>3
<1>5. PICK P : P = {trades[n].price : n \in N}
  OBVIOUS
<1>6. P \in SUBSET Nat
  BY <1>4, <1>5, TradeFacts
<1>7. b.open = trades[Min(N)].price
  <2>1. PICK n \in N : IsFirst(N, n) /\ b.open = trades[n].price
    BY <1>2 DEF CandleOf
  <2>2. Min(N) = n
    BY <1>4, <2>1, MaxMinIs DEF IsFirst
  <2> QED
    BY <2>1, <2>2
<1>8. b.close = trades[Max(N)].price
  <2>1. PICK n \in N : IsLast(N, n) /\ b.close = trades[n].price
    BY <1>2 DEF CandleOf
  <2>2. Max(N) = n
    BY <1>4, <2>1, MaxMinIs DEF IsLast
  <2> QED
    BY <2>1, <2>2
<1>9. b.high = Max(P)
  <2>1. PICK n \in N : b.high = trades[n].price /\ \A k \in N : trades[k].price <= b.high
    BY <1>2 DEF CandleOf
  <2>2. b.high \in P /\ \A p \in P : p <= b.high
    BY <1>5, <2>1
  <2> QED
    BY <1>6, <2>2, MaxMinIs
<1>10. b.low = Min(P)
  <2>1. PICK n \in N : b.low = trades[n].price /\ \A k \in N : b.low <= trades[k].price
    BY <1>2 DEF CandleOf
  <2>2. b.low \in P /\ \A p \in P : b.low <= p
    BY <1>5, <2>1
  <2> QED
    BY <1>6, <2>2, MaxMinIs
<1>11. Units(N) = UnitsOf(trades, N)
  BY DEF Units, UnitsOf
<1>12. b.vol = Cardinality(Units(N)) /\ b.count = Cardinality(N) /\ N # {}
  BY <1>2, <1>11 DEF CandleOf
<1>13. b = [interval |-> b.interval, start |-> b.start, open |-> b.open, high |-> b.high,
            low |-> b.low, close |-> b.close, vol |-> b.vol, count |-> b.count]
  BY DEF Bar
<1>14. Candle(b.interval, b.start) =
         [interval |-> b.interval, start |-> b.start, open |-> trades[Min(N)].price, high |-> Max(P),
          low |-> Min(P), close |-> trades[Max(N)].price, vol |-> Cardinality(Units(N)),
          count |-> Cardinality(N)]
  BY <1>1, <1>5, Zenon DEF Candle
<1>15. Candle(b.interval, b.start) =
         [interval |-> b.interval, start |-> b.start, open |-> b.open, high |-> b.high,
          low |-> b.low, close |-> b.close, vol |-> b.vol, count |-> b.count]
  BY <1>7, <1>8, <1>9, <1>10, <1>12, <1>14, Zenon
<1> QED
  BY <1>1, <1>12, <1>13, <1>15, Zenon

-----------------------------------------------------------------------------
(* Rows, messages and the forming bar, when a trade is added. *)

(* A trade that is not older than the ones before. *)
Follows(q, t) == InOrder(q) /\ \A n \in 1..Len(q) : q[n].ts <= t.ts

(* The late buckets when it has been added, with the closer up to c. *)
LateWith(L, t, c) ==
  L \union {<<i, BucketStart(t.ts, i)>> :
              i \in {j \in Interval : BucketStart(t.ts, j) < BucketStart(c, j)}}

(* Its bucket is not an earlier one, and is empty when it is a new one. *)
LEMMA BucketsFollow ==
  ASSUME NEW q \in Seq(Trade), NEW t \in Trade, Follows(q, t), Len(q) > 0, NEW i \in Interval
  PROVE  /\ BucketStart(q[Len(q)].ts, i) <= BucketStart(t.ts, i)
         /\ BucketStart(q[Len(q)].ts, i) # BucketStart(t.ts, i) =>
              OfBucket(q, i, BucketStart(t.ts, i)) = {}
<1>1. PICK k \in Nat, u \in Trade : k = Len(q) /\ k \in 1..Len(q) /\ u = q[k]
  OBVIOUS
<1>2. u.ts \in Nat /\ t.ts \in Nat /\ u.ts <= t.ts
  BY <1>1, TradeFacts DEF Follows
<1>3. BucketStart(u.ts, i) <= BucketStart(t.ts, i)
  BY <1>2, BucketMono
<1>4. ASSUME NEW n \in 1..Len(q)
      PROVE  BucketStart(q[n].ts, i) <= BucketStart(u.ts, i) /\ BucketStart(q[n].ts, i) \in Nat
  <2>1. PICK v \in Trade : v = q[n]
    OBVIOUS
  <2>2. n <= k
    BY <1>1
  <2>3. v.ts <= u.ts
    BY <1>1, <2>1, <2>2 DEF Follows, InOrder
  <2>4. v.ts \in Nat
    BY TradeFacts
  <2> QED
    BY <1>2, <2>1, <2>3, <2>4, BucketMono, BucketFacts
<1>5. BucketStart(u.ts, i) \in Nat /\ BucketStart(t.ts, i) \in Nat
  BY <1>2, BucketFacts
<1>6. ASSUME BucketStart(u.ts, i) # BucketStart(t.ts, i), NEW n \in 1..Len(q)
      PROVE  BucketStart(q[n].ts, i) # BucketStart(t.ts, i)
  BY <1>3, <1>4, <1>5, <1>6
<1> QED
  BY <1>1, <1>3, <1>6 DEF OfBucket

(* A bucket that is closed stays so. *)
LEMMA ClosedAppend ==
  ASSUME NEW q \in Seq(Trade), NEW t \in Trade, NEW q2, q2 = Append(q, t), Follows(q, t),
         NEW c, NEW i \in Interval, NEW s \in Nat, ClosedBy(q, c, i, s)
  PROVE  ClosedBy(q2, c, i, s) /\ (s = BucketStart(t.ts, i) => s < BucketStart(c, i))
<1>1. Len(q2) \in Nat /\ Len(q2) > 0 /\ q2[Len(q2)] = t
  OBVIOUS
<1>2. CASE Len(q) > 0 /\ s < BucketStart(q[Len(q)].ts, i)
  <2>1. PICK u \in Trade : u = q[Len(q)]
    BY <1>2
  <2>2. BucketStart(u.ts, i) <= BucketStart(t.ts, i)
    BY <1>2, <2>1, BucketsFollow
  <2>3. BucketStart(u.ts, i) \in Nat /\ BucketStart(t.ts, i) \in Nat
    BY TradeFacts, BucketFacts
  <2>4. s < BucketStart(t.ts, i)
    BY <1>2, <2>1, <2>2, <2>3
  <2> QED
    BY <1>1, <2>3, <2>4 DEF ClosedBy
<1>3. CASE s < BucketStart(c, i)
  BY <1>3 DEF ClosedBy
<1> QED
  BY <1>2, <1>3 DEF ClosedBy

(* A row that was the candle of its closed bucket still is, or the bucket is *)
(* late now.                                                                 *)
LEMMA RowAppend ==
  ASSUME NEW q \in Seq(Trade), NEW t \in Trade, NEW q2, q2 = Append(q, t), Follows(q, t),
         NEW c, NEW L, NEW b, RowOK(b, q, c, L)
  PROVE  RowOK(b, q2, c, LateWith(L, t, c))
<1>1. b \in Bar /\ ClosedBy(q, c, b.interval, b.start) /\ (Bucket(b) \notin L => IsCandle(b, q))
  BY DEF RowOK
<1>2. PICK i, s : i = b.interval /\ s = b.start /\ i \in Interval /\ s \in Nat
  BY <1>1, BarFacts
<1>3. ClosedBy(q2, c, i, s) /\ (s = BucketStart(t.ts, i) => s < BucketStart(c, i))
  BY <1>1, <1>2, ClosedAppend
<1>4. ASSUME Bucket(b) \notin LateWith(L, t, c)
      PROVE  IsCandle(b, q2)
  <2>1. Bucket(b) = <<i, s>> /\ <<i, s>> \notin L
    BY <1>2, <1>4 DEF Bucket, LateWith
  <2>2. BucketStart(t.ts, i) # s
    <3>1. ASSUME BucketStart(t.ts, i) = s
          PROVE  <<i, s>> \in LateWith(L, t, c)
      BY <1>2, <1>3, <3>1 DEF LateWith
    <3> QED
      BY <1>4, <2>1, <3>1
  <2> QED
    BY <1>1, <1>2, <2>1, <2>2, OtherIsCandle
<1> QED
  BY <1>1, <1>2, <1>3, <1>4 DEF RowOK

(* The same for a message. *)
LEMMA MsgAppend ==
  ASSUME NEW q \in Seq(Trade), NEW t \in Trade, NEW q2, q2 = Append(q, t), Follows(q, t),
         NEW c, NEW L, NEW m, MsgOK(m, q, c, L)
  PROVE  MsgOK(m, q2, c, LateWith(L, t, c))
<1>1. /\ m \in Message /\ m.bar.interval = Shortest /\ (Bucket(m.bar) \notin L => IsPart(m.bar, q))
      /\ (m.kind = "bar_closed" => RowOK(m.bar, q, c, L))
  BY DEF MsgOK
<1>2. m.bar \in Bar
  BY <1>1 DEF Message
<1>3. ASSUME Bucket(m.bar) \notin LateWith(L, t, c)
      PROVE  IsPart(m.bar, q2)
  <2>1. Bucket(m.bar) \notin L
    BY <1>3 DEF LateWith
  <2> QED
    BY <1>1, <1>2, <2>1, PartAppend
<1>4. m.kind = "bar_closed" => RowOK(m.bar, q2, c, LateWith(L, t, c))
  BY <1>1, RowAppend
<1> QED
  BY <1>1, <1>3, <1>4 DEF MsgOK

(* A bar that the trade rolls over is a row. *)
LEMMA RolledIsRow ==
  ASSUME NEW q \in Seq(Trade), NEW t \in Trade, NEW q2, q2 = Append(q, t), Follows(q, t),
         NEW c, NEW L, NEW i \in Interval, NEW f, FormingAt(f, i, q, c, L), f # NoBar,
         f.start # BucketStart(t.ts, i)
  PROVE  RowOK(f, q2, c, LateWith(L, t, c))
<1>1. /\ f \in Bar /\ f.interval = i /\ Len(q) > 0 /\ f.start = BucketStart(q[Len(q)].ts, i)
      /\ (Bucket(f) \notin L => IsCandle(f, q))
  BY DEF FormingAt
<1>2. PICK s \in Nat : s = f.start
  BY <1>1, BarFacts
<1>3. BucketStart(t.ts, i) \in Nat
  BY TradeFacts, BucketFacts
<1>4. s <= BucketStart(t.ts, i)
  BY <1>1, <1>2, BucketsFollow
<1>5. s < BucketStart(t.ts, i)
  BY <1>2, <1>3, <1>4
<1>6. Len(q2) \in Nat /\ Len(q2) > 0 /\ q2[Len(q2)] = t
  OBVIOUS
<1>7. ClosedBy(q2, c, f.interval, f.start)
  BY <1>1, <1>2, <1>5, <1>6 DEF ClosedBy
<1>8. ASSUME Bucket(f) \notin LateWith(L, t, c)
      PROVE  IsCandle(f, q2)
  <2>1. Bucket(f) \notin L
    BY <1>8 DEF LateWith
  <2> QED
    BY <1>1, <2>1, OtherIsCandle
<1> QED
  BY <1>1, <1>7, <1>8 DEF RowOK

(* The forming bar once the trade has been folded in, f being the one before. *)
FormedFrom(f, i, t) ==
  IF f = NoBar \/ f.start # BucketStart(t.ts, i) THEN NewBar(i, t) ELSE Fold(f, t)

(* A bar is not the record that says there is none. *)
LEMMA BarIsBar ==
  ASSUME NEW b \in Bar
  PROVE  b # NoBar
<1>1. "start" \in DOMAIN b
  BY DEF Bar
<1>2. DOMAIN NoBar = {"interval"}
  BY DEF NoBar
<1> QED
  BY <1>1, <1>2

FormedGood(g, i, t, q2, c, L) ==
  /\ g \in Bar /\ Bucket(g) = <<i, BucketStart(t.ts, i)>> /\ g # NoBar
  /\ FormingAt(g, i, q2, c, L)

(* Formed: the bar is of the trade's bucket, and its candle unless that is *)
(* late.                                                                   *)
LEMMA FormedOK ==
  ASSUME NEW q \in Seq(Trade), NEW t \in Trade, NEW q2, q2 = Append(q, t), Follows(q, t),
         NEW c, NEW L, NEW i \in Interval, NEW f, FormingAt(f, i, q, c, L)
  PROVE  FormedGood(FormedFrom(f, i, t), i, t, q2, c, LateWith(L, t, c))
<1>1. PICK s \in Nat : s = BucketStart(t.ts, i)
  BY TradeFacts, BucketFacts
<1>2. PICK g : g = FormedFrom(f, i, t)
  OBVIOUS
<1>3. /\ g \in Bar /\ g.interval = i /\ g.start = s
      /\ <<i, s>> \notin LateWith(L, t, c) => IsCandle(g, q2)
  <2>1. CASE f = NoBar \/ f.start # s
    <3>1. g = NewBar(i, t)
      BY <1>1, <1>2, <2>1 DEF FormedFrom
    <3>2. g \in Bar /\ g.interval = i /\ g.start = s
      BY <1>1, <3>1, NewBarIsCandle
    <3>3. ASSUME <<i, s>> \notin LateWith(L, t, c)
          PROVE  OfBucket(q, i, s) = {}
      <4>1. <<i, s>> \notin L /\ ~ (s < BucketStart(c, i))
        BY <1>1, <3>3 DEF LateWith
      <4>2. CASE Len(q) = 0
        BY <4>2 DEF OfBucket
      <4>3. CASE Len(q) # 0
        <5>1. Len(q) > 0
          BY <4>3
        <5>2. BucketStart(q[Len(q)].ts, i) # s
          BY <2>1, <4>1, <5>1 DEF FormingAt
        <5> QED
          BY <1>1, <5>1, <5>2, BucketsFollow
      <4> QED
        BY <4>2, <4>3
    <3>4. OfBucket(q, i, s) = {} => IsCandle(g, q2)
      BY <1>1, <3>1, NewBarIsCandle
    <3> QED
      BY <3>2, <3>3, <3>4
  <2>2. CASE f # NoBar /\ f.start = s
    <3>1. g = Fold(f, t)
      BY <1>1, <1>2, <2>2 DEF FormedFrom
    <3>2. f \in Bar /\ f.interval = i /\ (Bucket(f) \notin L => IsCandle(f, q))
      BY <2>2 DEF FormingAt
    <3>3. BucketStart(t.ts, f.interval) = f.start
      BY <1>1, <2>2, <3>2
    <3>4. g \in Bar /\ g.interval = i /\ g.start = s /\ (IsCandle(f, q) => IsCandle(g, q2))
      BY <2>2, <3>1, <3>2, <3>3, FoldIsCandle
    <3>5. <<i, s>> \notin LateWith(L, t, c) => Bucket(f) \notin L
      BY <2>2, <3>2 DEF LateWith, Bucket
    <3> QED
      BY <3>2, <3>4, <3>5
  <2> QED
    BY <2>1, <2>2
<1>4. Bucket(g) = <<i, s>>
  BY <1>3 DEF Bucket
<1>5. Len(q2) \in Nat /\ Len(q2) > 0 /\ q2[Len(q2)] = t
  OBVIOUS
<1>6. s < BucketStart(c, i) => <<i, s>> \in LateWith(L, t, c)
  BY <1>1 DEF LateWith
<1>7. g # NoBar
  BY <1>3, BarIsBar
<1>8. FormingAt(g, i, q2, c, LateWith(L, t, c))
  BY <1>1, <1>3, <1>4, <1>5, <1>6, <1>7 DEF FormingAt
<1> QED
  BY <1>1, <1>2, <1>3, <1>4, <1>7, <1>8 DEF FormedGood

-----------------------------------------------------------------------------
(* Rows, messages and the forming bar, as the closer goes on (from c to d) and *)
(* more buckets are late (L becomes M).                                        *)

(* What is closed stays closed. *)
LEMMA ClosedWeaken ==
  ASSUME NEW c \in Nat, NEW d \in Nat, c <= d, NEW i \in Interval, NEW s \in Nat, NEW q,
         ClosedBy(q, c, i, s)
  PROVE  ClosedBy(q, d, i, s)
<1>1. BucketStart(c, i) <= BucketStart(d, i) /\ BucketStart(c, i) \in Nat /\ BucketStart(d, i) \in Nat
  BY BucketMono, BucketFacts
<1>2. s < BucketStart(c, i) => s < BucketStart(d, i)
  BY <1>1
<1> QED
  BY <1>2 DEF ClosedBy

(* A row stays right. *)
LEMMA RowWeaken ==
  ASSUME NEW c \in Nat, NEW d \in Nat, c <= d, NEW L, NEW M, L \subseteq M, NEW q, NEW b,
         RowOK(b, q, c, L)
  PROVE  RowOK(b, q, d, M)
<1>1. b \in Bar /\ ClosedBy(q, c, b.interval, b.start) /\ (Bucket(b) \notin L => IsCandle(b, q))
  BY DEF RowOK
<1>2. b.interval \in Interval /\ b.start \in Nat
  BY <1>1, BarFacts
<1>3. ClosedBy(q, d, b.interval, b.start)
  BY <1>1, <1>2, ClosedWeaken
<1> QED
  BY <1>1, <1>3 DEF RowOK

(* A message stays right. *)
LEMMA MsgWeaken ==
  ASSUME NEW c \in Nat, NEW d \in Nat, c <= d, NEW L, NEW M, L \subseteq M, NEW q, NEW m,
         MsgOK(m, q, c, L)
  PROVE  MsgOK(m, q, d, M)
<1>1. /\ m \in Message /\ m.bar.interval = Shortest /\ (Bucket(m.bar) \notin L => IsPart(m.bar, q))
      /\ (m.kind = "bar_closed" => RowOK(m.bar, q, c, L))
  BY DEF MsgOK
<1>2. m.kind = "bar_closed" => RowOK(m.bar, q, d, M)
  BY <1>1, RowWeaken
<1> QED
  BY <1>1, <1>2 DEF MsgOK

(* The forming bar that the closer, at d, leaves alone, and the one it takes. *)
LEMMA FormingKept ==
  ASSUME NEW c \in Nat, NEW d \in Nat, c <= d, NEW L, NEW q \in Seq(Trade), NEW i \in Interval, NEW f,
         FormingAt(f, i, q, c, L), ~ (f # NoBar /\ f.start < BucketStart(d, i))
  PROVE  FormingAt(f, i, q, d, L)
<1>1. BucketStart(c, i) <= BucketStart(d, i) /\ BucketStart(c, i) \in Nat /\ BucketStart(d, i) \in Nat
  BY BucketMono, BucketFacts
<1>2. CASE f # NoBar
  BY <1>2 DEF FormingAt
<1>3. CASE f = NoBar
  <2>1. CASE Len(q) > 0
    <3>1. PICK u \in Trade : u = q[Len(q)]
      BY <2>1
    <3>2. BucketStart(u.ts, i) \in Nat
      BY TradeFacts, BucketFacts
    <3>3. BucketStart(u.ts, i) < BucketStart(c, i) \/ <<i, BucketStart(u.ts, i)>> \in L
      BY <1>3, <2>1, <3>1 DEF FormingAt
    <3>4. BucketStart(u.ts, i) < BucketStart(d, i) \/ <<i, BucketStart(u.ts, i)>> \in L
      BY <1>1, <3>2, <3>3
    <3> QED
      BY <1>3, <3>1, <3>4 DEF FormingAt
  <2>2. CASE ~ (Len(q) > 0)
    BY <1>3, <2>2 DEF FormingAt
  <2> QED
    BY <2>1, <2>2
<1> QED
  BY <1>2, <1>3

(* The forming bar that close_expired removes is a row, and there is none *)
(* after.                                                                 *)
LEMMA FormingTaken ==
  ASSUME NEW c, NEW d, NEW L, NEW q, NEW i \in Interval, NEW f,
         FormingAt(f, i, q, c, L), f # NoBar, f.start < BucketStart(d, i)
  PROVE  FormingAt(NoBar, i, q, d, L) /\ RowOK(f, q, d, L)
<1>1. /\ f \in Bar /\ f.interval = i /\ Len(q) > 0 /\ f.start = BucketStart(q[Len(q)].ts, i)
      /\ Bucket(f) \notin L => IsCandle(f, q)
  BY DEF FormingAt
<1>2. ClosedBy(q, d, f.interval, f.start)
  BY <1>1 DEF ClosedBy
<1>3. RowOK(f, q, d, L)
  BY <1>1, <1>2 DEF RowOK
<1>4. FormingAt(NoBar, i, q, d, L)
  BY <1>1 DEF FormingAt
<1> QED
  BY <1>1, <1>3, <1>4

-----------------------------------------------------------------------------
(* The table: replacing a row, trimming, reading the newest rows. *)

(* The rows newer than a bucket are finitely many. *)
LEMMA NewerFinite ==
  ASSUME NEW T, IsFiniteSet(T), NEW i, NEW s
  PROVE  /\ IsFiniteSet(Newer(T, i, s)) /\ Cardinality(Newer(T, i, s)) \in Nat
         /\ Newer(T, i, s) \subseteq T
<1>1. Newer(T, i, s) \in SUBSET T
  BY DEF Newer
<1>2. IsFiniteSet(Newer(T, i, s))
  BY <1>1, FS_Subset
<1> QED
  BY <1>1, <1>2, FS_CardinalityType

(* More rows, more that are newer. *)
LEMMA OutdatedMore ==
  ASSUME NEW T, IsFiniteSet(T), NEW U, IsFiniteSet(U), NEW i, NEW s, NEW u,
         Newer(T, i, s) \subseteq Newer(U, i, u), Outdated(T, i, s)
  PROVE  Outdated(U, i, u)
<1>1. IsFiniteSet(Newer(U, i, u)) /\ Newer(T, i, s) \in SUBSET Newer(U, i, u)
  BY NewerFinite
<1>2. Cardinality(Newer(T, i, s)) <= Cardinality(Newer(U, i, u))
  BY <1>1, FS_Subset
<1>3. Cardinality(Newer(T, i, s)) \in Nat /\ Cardinality(Newer(U, i, u)) \in Nat /\ Keep \in Nat
  BY NewerFinite, BarBoundsAssumption
<1> QED
  BY <1>2, <1>3 DEF Outdated

(* Replacing a row leaves as many. *)
LEMMA ReplaceOutdated ==
  ASSUME IsFiniteSet(table), table \subseteq Bar, UniqueIn(table), NEW b \in Bar
  PROVE  /\ IsFiniteSet(Replaced(b)) /\ Replaced(b) \subseteq Bar /\ UniqueIn(Replaced(b))
         /\ Replaced(b) \subseteq table \union {b}
         /\ \A r \in table : Bucket(r) # Bucket(b) => r \in Replaced(b)
         /\ b \in Replaced(b)
         /\ \A i, s : Outdated(table, i, s) => Outdated(Replaced(b), i, s)
<1>1. PICK R : R = Replaced(b)
  OBVIOUS
<1>2. /\ R \subseteq table \union {b} /\ b \in R
      /\ \A r \in table : Bucket(r) # Bucket(b) => r \in R
      /\ \A r \in R : r = b \/ (r \in table /\ Bucket(r) # Bucket(b))
  BY <1>1 DEF Replaced
<1>3. IsFiniteSet(R)
  <2>1. IsFiniteSet(table \union {b})
    BY FS_AddElement
  <2> QED
    BY <1>2, <2>1, FS_Subset
<1>4. UniqueIn(R)
  BY <1>2 DEF UniqueIn
<1>5. ASSUME NEW i, NEW s, Outdated(table, i, s)
      PROVE  Outdated(R, i, s)
  <2>1. PICK A, B : A = Newer(table, i, s) /\ B = Newer(R, i, s)
    OBVIOUS
  <2>2. PICK g : g = [r \in A |-> IF Bucket(r) = Bucket(b) THEN b ELSE r]
    OBVIOUS
  <2>3. ASSUME NEW r \in A
        PROVE  g[r] \in B
    <3>1. r \in table /\ r.interval = i /\ r.start > s
      BY <2>1 DEF Newer
    <3>2. CASE Bucket(r) = Bucket(b)
      <4>1. b.interval = i /\ b.start > s
        BY <3>1, <3>2 DEF Bucket
      <4> QED
        BY <1>2, <2>1, <2>2, <3>2, <4>1 DEF Newer
    <3>3. CASE Bucket(r) # Bucket(b)
      <4>1. r \in R
        BY <1>2, <3>1, <3>3
      <4> QED
        BY <2>1, <2>2, <3>1, <3>3, <4>1 DEF Newer
    <3> QED
      BY <3>2, <3>3
  <2>4. ASSUME NEW r \in A, NEW u \in A, g[r] = g[u]
        PROVE  r = u
    <3>1. r \in table /\ u \in table
      BY <2>1 DEF Newer
    <3>2. Bucket(g[r]) = Bucket(r) /\ Bucket(g[u]) = Bucket(u)
      BY <2>2
    <3>3. Bucket(r) = Bucket(u)
      BY <2>4, <3>2
    <3> QED
      BY <3>1, <3>3 DEF UniqueIn
  <2>5. g \in Injection(A, B)
    <3>1. g \in [A -> B]
      BY <2>2, <2>3
    <3> QED
      BY <2>4, <3>1 DEF Injection, IsInjective
  <2>6. IsFiniteSet(B)
    BY <1>3, <2>1, NewerFinite
  <2>7. Cardinality(A) <= Cardinality(B)
    BY <2>5, <2>6, FS_Injection
  <2>8. Cardinality(A) \in Nat /\ Cardinality(B) \in Nat /\ Keep \in Nat
    BY <1>3, <2>1, NewerFinite, BarBoundsAssumption
  <2>9. Cardinality(A) >= Keep
    BY <1>5, <2>1 DEF Outdated
  <2>10. Cardinality(B) >= Keep
    BY <2>7, <2>8, <2>9
  <2> QED
    BY <2>1, <2>10 DEF Outdated
<1>6. R \subseteq Bar
  BY <1>2
<1> QED
  BY <1>1, <1>2, <1>3, <1>4, <1>5, <1>6

(* What was too old to keep is still so when the oldest rows are gone. *)
LEMMA TrimOutdated ==
  ASSUME NEW R, IsFiniteSet(R), R \subseteq Bar, NEW j
  PROVE  /\ Trimmed(R, j) \subseteq R /\ IsFiniteSet(Trimmed(R, j))
         /\ \A r \in R : r \notin Trimmed(R, j) => r.interval = j /\ Outdated(R, j, r.start)
         /\ \A i : \A s \in Nat : Outdated(R, i, s) => Outdated(Trimmed(R, j), i, s)
<1>1. PICK T : T = Trimmed(R, j)
  OBVIOUS
<1>2. /\ T \subseteq R
      /\ \A r \in R : r \notin T => r.interval = j /\ Outdated(R, j, r.start)
      /\ \A r \in R : r \in T <=> (r.interval = j => ~ Outdated(R, j, r.start))
  BY <1>1 DEF Trimmed
<1>3. IsFiniteSet(T)
  BY <1>2, FS_Subset
<1>4. ASSUME NEW i, NEW s \in Nat, Outdated(R, i, s)
      PROVE  Outdated(T, i, s)
  <2>1. PICK O : O = {r \in Newer(R, i, s) : r \notin T}
    OBVIOUS
  <2>2. CASE O = {}
    <3>1. Newer(R, i, s) \subseteq Newer(T, i, s)
      BY <2>1, <2>2 DEF Newer
    <3> QED
      BY <1>3, <1>4, <3>1, OutdatedMore
  <2>3. CASE O # {}
    <3>1. PICK S : S = {r.start : r \in O}
      OBVIOUS
    <3>2. \A r \in O : r \in Bar /\ r \in R /\ r.interval = i /\ r.start > s /\ r.interval = j
                       /\ Outdated(R, j, r.start)
      BY <1>2, <2>1 DEF Newer
    <3>3. \A r \in O : r.start \in 0..MaxTime
      BY <3>2, BarFacts DEF Time
    <3>4. S \in SUBSET (0..MaxTime) /\ S # {} /\ MaxTime \in Nat
      BY <2>3, <3>1, <3>3, BarBoundsAssumption
    <3>5. PICK m \in S : \A k \in S : k <= m
      BY <3>4, GreatestNumber
    <3>6. PICK r \in O : r.start = m
      BY <3>1
    <3>7. Outdated(R, i, r.start)
      BY <3>2
    <3>8. ASSUME NEW x \in Newer(R, i, r.start)
          PROVE  x \in Newer(T, i, s)
      <4>1. x \in R /\ x.interval = i /\ x.start > r.start
        BY <3>8 DEF Newer
      <4>2. x.start \in Nat /\ r.start \in Nat /\ s < r.start
        BY <3>2, <4>1, BarFacts
      <4>3. x \notin O
        <5>1. ASSUME x \in O
              PROVE  x.start <= r.start
          BY <3>1, <3>5, <3>6, <5>1
        <5> QED
          BY <4>1, <4>2, <5>1
      <4>4. x.start > s
        BY <4>1, <4>2, <3>2
      <4>5. x \in Newer(R, i, s)
        BY <4>1, <4>4 DEF Newer
      <4> QED
        BY <2>1, <4>1, <4>3, <4>4, <4>5 DEF Newer
    <3>9. Newer(R, i, r.start) \subseteq Newer(T, i, s)
      BY <3>8
    <3> QED
      BY <1>3, <3>7, <3>9, OutdatedMore
  <2> QED
    BY <2>2, <2>3
<1> QED
  BY <1>1, <1>2, <1>3, <1>4

(* The rows of interval i that a request for n of them is answered with. *)
NewestRows(T, i) == {r \in T : r.interval = i /\ Cardinality(Newer(T, i, r.start)) < Limit}

(* Ranks: an older row has more that are newer. *)
LEMMA RankDescends ==
  ASSUME NEW T, IsFiniteSet(T), T \subseteq Bar, NEW i, NEW a \in T, NEW b \in T,
         a.interval = i, b.interval = i
  PROVE  /\ a.start < b.start => Cardinality(Newer(T, i, b.start)) < Cardinality(Newer(T, i, a.start))
         /\ a.start <= b.start => Cardinality(Newer(T, i, b.start)) <= Cardinality(Newer(T, i, a.start))
         /\ Cardinality(Newer(T, i, a.start)) < Cardinality(T)
<1>1. PICK A, B : A = Newer(T, i, a.start) /\ B = Newer(T, i, b.start)
  OBVIOUS
<1>2. IsFiniteSet(A) /\ IsFiniteSet(B) /\ Cardinality(A) \in Nat /\ Cardinality(B) \in Nat
  BY <1>1, NewerFinite
<1>3. \A r \in T : r.start \in Nat
  BY BarFacts
<1>4. ASSUME a.start <= b.start
      PROVE  B \in SUBSET A
  <2>1. ASSUME NEW r \in B
        PROVE  r \in A
    <3>1. r \in T /\ r.interval = i /\ r.start > b.start
      BY <1>1, <2>1 DEF Newer
    <3>2. r.start > a.start
      BY <1>3, <1>4, <3>1
    <3> QED
      BY <1>1, <3>1, <3>2 DEF Newer
  <2> QED
    BY <2>1
<1>5. a.start <= b.start => Cardinality(B) <= Cardinality(A)
  BY <1>2, <1>4, FS_Subset
<1>6. ASSUME a.start < b.start
      PROVE  Cardinality(B) < Cardinality(A)
  <2>1. a.start <= b.start
    BY <1>3, <1>6
  <2>2. b \in A /\ b \notin B
    BY <1>1, <1>3, <1>6 DEF Newer
  <2>3. Cardinality(B) <= Cardinality(A) /\ (Cardinality(A) = Cardinality(B) => A = B)
    BY <1>2, <1>4, <2>1, FS_Subset
  <2> QED
    BY <1>2, <2>2, <2>3
<1>7. Cardinality(A) < Cardinality(T)
  <2>1. A \in SUBSET T /\ a \notin A
    BY <1>1, <1>3 DEF Newer
  <2>2. Cardinality(A) <= Cardinality(T) /\ (Cardinality(T) = Cardinality(A) => T = A)
    BY <2>1, FS_Subset
  <2>3. Cardinality(T) \in Nat
    BY FS_CardinalityType
  <2> QED
    BY <1>2, <2>1, <2>2, <2>3
<1> QED
  BY <1>1, <1>5, <1>6, <1>7

(* Every rank is that of one row. *)
LEMMA RankOnto ==
  ASSUME NEW T, IsFiniteSet(T), T \subseteq Bar, UniqueIn(T), NEW i, \A r \in T : r.interval = i,
         NEW k \in 0..(Cardinality(T) - 1)
  PROVE  \E r \in T : Cardinality(Newer(T, i, r.start)) = k
<1>1. PICK n \in Nat : n = Cardinality(T)
  BY FS_CardinalityType
<1>2. PICK f : f = [r \in T |-> Cardinality(Newer(T, i, r.start))]
  OBVIOUS
<1>3. ASSUME NEW r \in T
      PROVE  f[r] \in 0..(n - 1)
  <2>1. PICK x \in Nat : x = Cardinality(Newer(T, i, r.start))
    BY NewerFinite
  <2>2. x < n
    BY <1>1, <2>1, RankDescends
  <2> QED
    BY <1>1, <1>2, <2>1, <2>2
<1>4. ASSUME NEW a \in T, NEW b \in T, f[a] = f[b]
      PROVE  a = b
  <2>1. a.start \in Nat /\ b.start \in Nat /\ f[a] \in Nat /\ f[b] \in Nat
    BY <1>3, BarFacts
  <2>2. ~ (a.start < b.start)
    <3>1. a.start < b.start => f[b] < f[a]
      BY <1>2, RankDescends
    <3> QED
      BY <1>4, <2>1, <3>1
  <2>3. ~ (b.start < a.start)
    <3>1. b.start < a.start => f[a] < f[b]
      BY <1>2, RankDescends
    <3> QED
      BY <1>4, <2>1, <3>1
  <2>4. Bucket(a) = Bucket(b)
    BY <2>1, <2>2, <2>3 DEF Bucket
  <2> QED
    BY <2>4 DEF UniqueIn
<1>5. f \in Injection(T, 0..(n - 1))
  <2>1. f \in [T -> 0..(n - 1)]
    BY <1>2, <1>3
  <2> QED
    BY <1>4, <2>1 DEF Injection, IsInjective
<1>6. IsFiniteSet(0..(n - 1)) /\ Cardinality(0..(n - 1)) = n
  <2>1. 0 \in Int /\ n - 1 \in Int
    BY <1>1
  <2>2. IsFiniteSet(0..(n - 1)) /\ Cardinality(0..(n - 1)) = IF 0 > n - 1 THEN 0 ELSE (n - 1) - 0 + 1
    BY <2>1, FS_Interval
  <2> QED
    BY <1>1, <2>2
<1>7. f \in Surjection(T, 0..(n - 1))
  BY <1>1, <1>5, <1>6, FS_Injection
<1>8. \E r \in T : f[r] = k
  BY <1>1, <1>7 DEF Surjection
<1> QED
  BY <1>2, <1>8

(* load_closed_bars: rows of the table, in order, and no more than asked for. *)
LEMMA LoadFacts ==
  ASSUME IsFiniteSet(table), table \subseteq Bar, UniqueIn(table), NEW i \in Interval
  PROVE  /\ load_closed_bars(i) \in Seq(Bar) /\ Len(load_closed_bars(i)) <= Limit
         /\ Ascends(load_closed_bars(i))
         /\ \A n \in 1..Len(load_closed_bars(i)) :
              load_closed_bars(i)[n] \in table /\ load_closed_bars(i)[n].interval = i
<1>1. PICK T, size : T = NewestRows(table, i) /\ size = Cardinality(T)
  OBVIOUS
<1>2. T \in SUBSET table /\ T \subseteq Bar /\ (\A r \in T : r.interval = i) /\ UniqueIn(T)
  BY <1>1 DEF NewestRows, UniqueIn
<1>3. IsFiniteSet(T) /\ size \in Nat
  BY <1>1, <1>2, FS_Subset, FS_CardinalityType
<1>4. PICK q : q = [n \in 1..size |-> CHOOSE r \in T : Cardinality(Newer(T, i, r.start)) = size - n]
  OBVIOUS
<1>5. load_closed_bars(i) = q
  BY <1>1, <1>4 DEF load_closed_bars, NewestRows
<1>6. ASSUME NEW n \in 1..size
      PROVE  q[n] \in T /\ Cardinality(Newer(T, i, q[n].start)) = size - n
  <2>1. size - n \in 0..(Cardinality(T) - 1)
    BY <1>1, <1>3
  <2>2. \E r \in T : Cardinality(Newer(T, i, r.start)) = size - n
    BY <1>2, <1>3, <2>1, RankOnto
  <2> QED
    BY <1>4, <2>2
<1>7. q \in Seq(Bar) /\ Len(q) = size
  <2>1. q \in [1..size -> Bar]
    BY <1>2, <1>4, <1>6
  <2> QED
    BY <1>3, <2>1
<1>8. Ascends(q)
  <2>1. ASSUME NEW n \in 1..(size - 1)
        PROVE  q[n].start < q[n + 1].start
    <3>1. n \in 1..size /\ n + 1 \in 1..size
      BY <1>3
    <3>2. PICK a \in T, b \in T : a = q[n] /\ b = q[n + 1]
      BY <1>6, <3>1
    <3>3. Cardinality(Newer(T, i, a.start)) = size - n /\ Cardinality(Newer(T, i, b.start)) = size - (n + 1)
      BY <1>6, <3>1, <3>2
    <3>4. b.start <= a.start => Cardinality(Newer(T, i, a.start)) <= Cardinality(Newer(T, i, b.start))
      BY <1>2, <1>3, RankDescends
    <3>5. ~ (b.start <= a.start)
      BY <1>3, <3>1, <3>3, <3>4
    <3>6. a.start \in Nat /\ b.start \in Nat
      BY <1>2, BarFacts
    <3> QED
      BY <3>2, <3>5, <3>6
  <2> QED
    BY <1>7, <2>1 DEF Ascends
<1>9. size <= Limit
  <2>1. CASE size = 0
    BY <2>1, BarBoundsAssumption
  <2>2. CASE size # 0
    <3>1. 1 \in 1..size
      BY <1>3, <2>2
    <3>2. PICK r \in T : Cardinality(Newer(T, i, r.start)) = size - 1
      BY <1>6, <3>1
    <3>3. Cardinality(Newer(table, i, r.start)) < Limit
      BY <1>1, <3>2 DEF NewestRows
    <3>4. Newer(T, i, r.start) \in SUBSET Newer(table, i, r.start)
      BY <1>2 DEF Newer
    <3>5. IsFiniteSet(Newer(table, i, r.start)) /\ Cardinality(Newer(table, i, r.start)) \in Nat
      BY NewerFinite
    <3>6. Cardinality(Newer(T, i, r.start)) <= Cardinality(Newer(table, i, r.start))
      BY <3>4, <3>5, FS_Subset
    <3> QED
      BY <1>3, <3>2, <3>3, <3>5, <3>6, BarBoundsAssumption
  <2> QED
    BY <2>1, <2>2
<1>10. \A n \in 1..Len(q) : q[n] \in table /\ q[n].interval = i
  BY <1>2, <1>6, <1>7
<1> QED
  BY <1>5, <1>7, <1>8, <1>9, <1>10, Zenon

-----------------------------------------------------------------------------
(* Steps that leave the trades and what is closed and late alone. *)

(* Rows that only move or go stay right. *)
LEMMA RowsKept ==
  ASSUME RowsOK, UNCHANGED <<trades, closedTo, late>>, AllRows' \subseteq AllRows
  PROVE  RowsOK'
BY DEF RowsOK

(* Messages that only move or go stay right. *)
LEMMA MsgsKept ==
  ASSUME MsgsOK, UNCHANGED <<trades, closedTo, late>>, AllMsgs' \subseteq AllMsgs
  PROVE  MsgsOK'
BY DEF MsgsOK

(* The forming bars stay right when nothing they depend on changes. *)
LEMMA FormingSame ==
  ASSUME FormingOK, UNCHANGED <<forming, trades, closedTo, late>>
  PROVE  FormingOK'
BY DEF FormingOK

(* So does what a request has read. *)
LEMMA ReaderSame ==
  ASSUME ReaderOK, UNCHANGED <<reader, trades, closedTo>>
  PROVE  ReaderOK'
BY DEF ReaderOK

(* Rows that move from one place to another, or are counted as lost, leave *)
(* every bucket with its bar.                                              *)
LEMMA PresentKept ==
  ASSUME Present, UNCHANGED <<trades, late, forming, table>>, lost \subseteq lost',
         \A b \in AllRows : b \in AllRows' \/ Bucket(b) \in lost'
  PROVE  Present'
<1> SUFFICES ASSUME NEW i \in Interval, NEW s \in Time, <<i, s>> \notin late' \union lost',
                    OfBucket(trades', i, s) # {}
             PROVE  Held(i, s)' \/ Outdated(table', i, s)
  BY DEF Present
<1>1. Held(i, s) \/ Outdated(table, i, s)
  BY DEF Present
<1>2. CASE Held(i, s)
  <2>1. CASE \E b \in AllRows : Bucket(b) = <<i, s>>
    BY <2>1 DEF Held
  <2>2. CASE forming[i] # NoBar /\ Bucket(forming[i]) = <<i, s>>
    BY <2>2 DEF Held
  <2> QED
    BY <1>2, <2>1, <2>2 DEF Held
<1>3. CASE Outdated(table, i, s)
  BY <1>3
<1> QED
  BY <1>1, <1>2, <1>3

(* Init. *)
LEMMA InitOK ==
  ASSUME Init
  PROVE  IInv
<1>1. /\ clock = 0 /\ closedTo = 0 /\ forming = [i \in Interval |-> NoBar]
      /\ apply = IdleApply /\ closer = IdleCloser /\ reader = IdleReader
      /\ lane = {} /\ table = {} /\ sent = {} /\ trades = <<>> /\ late = {} /\ lost = {}
  BY DEF Init
<1>2. 0 \in Time /\ Len(trades) = 0
  BY <1>1, BarBoundsAssumption DEF Time
<1>3. StateType
  BY <1>1, <1>2 DEF StateType
<1>4. WorkerType
  BY <1>1, <1>2 DEF WorkerType, IdleApply, IdleCloser
<1>5. TableOK
  BY <1>1, FS_EmptySet DEF TableOK, UniqueIn
<1>6. Times
  BY <1>1, <1>2 DEF Times, InOrder, IdleApply, IdleCloser
<1>7. FormingOK
  BY <1>1, <1>2 DEF FormingOK, FormingAt
<1>8. AllRows = {} /\ AllMsgs = {}
  BY <1>1 DEF AllRows, AllMsgs, Elements, IdleApply, IdleCloser
<1>9. RowsOK /\ MsgsOK
  BY <1>8 DEF RowsOK, MsgsOK
<1>10. Present
  BY <1>2 DEF Present, OfBucket
<1>11. ReaderOK
  BY <1>1 DEF ReaderOK, IdleReader
<1> QED
  BY <1>3, <1>4, <1>5, <1>6, <1>7, <1>9, <1>10, <1>11 DEF IInv

(* The wall clock goes on. *)
LEMMA TickOK ==
  ASSUME IInv, Tick
  PROVE  IInv'
<1>1. /\ clock < MaxTime /\ clock' = clock + 1
      /\ UNCHANGED <<reader, forming, apply, closer, lane, table, sent, trades, closedTo, late, lost>>
  BY DEF Tick
<1>2. StateType /\ WorkerType /\ TableOK /\ Times /\ FormingOK /\ RowsOK /\ MsgsOK /\ Present /\ ReaderOK
  BY DEF IInv
<1>3. clock \in Nat /\ clock' \in Time /\ clock' \in Nat
  BY <1>1, <1>2, BarBoundsAssumption DEF StateType, Time
<1>4. StateType'
  BY <1>1, <1>2, <1>3 DEF StateType
<1>5. WorkerType'
  BY <1>1, <1>2 DEF WorkerType
<1>6. TableOK'
  BY <1>1, <1>2 DEF TableOK
<1>7. Times'
  <2>1. \A n \in 1..Len(trades) : trades[n].ts \in Nat
    BY <1>2, TradeFacts DEF StateType
  <2>2. \A n \in 1..Len(trades) : trades[n].ts <= clock'
    BY <1>1, <1>2, <1>3, <2>1 DEF Times
  <2>3. apply.pc = "lock" => apply.trade.ts <= clock'
    <3>1. apply.pc = "lock" => apply.trade.ts \in Nat /\ apply.trade.ts <= clock
      BY <1>2, TradeFacts DEF WorkerType, Times
    <3> QED
      BY <1>1, <1>3, <3>1
  <2>4. closedTo \in Nat /\ closer.now \in Nat
    BY <1>2, BarBoundsAssumption DEF StateType, WorkerType, Time
  <2>5. closedTo <= clock' /\ (closer.pc = "lock" => closedTo <= closer.now /\ closer.now <= clock')
    BY <1>1, <1>2, <1>3, <2>4 DEF Times
  <2> QED
    BY <1>1, <1>2, <2>2, <2>3, <2>5 DEF Times
<1>8. AllRows' = AllRows /\ AllMsgs' = AllMsgs
  BY <1>1 DEF AllRows, AllMsgs
<1>9. RowsOK' /\ MsgsOK' /\ FormingOK' /\ Present' /\ ReaderOK'
  BY <1>1, <1>2, <1>8, RowsKept, MsgsKept, FormingSame, PresentKept, ReaderSame
<1> QED
  BY <1>4, <1>5, <1>6, <1>7, <1>9 DEF IInv

(* A trade gets its time and waits for the lock. *)
LEMMA TradeArrivesOK ==
  ASSUME IInv, NEW p \in Price, NEW v \in Volume, TradeArrives(p, v)
  PROVE  IInv'
<1>1. /\ apply.pc = "idle"
      /\ apply' = [apply EXCEPT !.pc = "lock", !.trade = [ts |-> clock, price |-> p, vol |-> v]]
      /\ UNCHANGED <<reader, clock, forming, closer, lane, table, sent, trades, closedTo, late, lost>>
  BY DEF TradeArrives
<1>2. StateType /\ WorkerType /\ TableOK /\ Times /\ FormingOK /\ RowsOK /\ MsgsOK /\ Present /\ ReaderOK
  BY DEF IInv
<1>3. PICK t : t = [ts |-> clock, price |-> p, vol |-> v]
  OBVIOUS
<1>4. t \in Trade /\ t.ts = clock
  BY <1>2, <1>3 DEF Trade, StateType
<1>5. apply' \in [pc : {"idle", "lock", "after"}, trade : Trade \union {NoTrade},
                  rows : SUBSET Bar, msgs : Seq(Message)]
  BY <1>1, <1>2, <1>3, <1>4 DEF WorkerType
<1>6. /\ apply'.pc = "lock" /\ apply'.trade = t /\ apply'.rows = apply.rows /\ apply'.msgs = apply.msgs
  BY <1>1, <1>2, <1>3 DEF WorkerType
<1>7. apply.rows = {}
  BY <1>1, <1>2 DEF WorkerType
<1>8. StateType' /\ TableOK'
  BY <1>1, <1>2 DEF StateType, TableOK
<1>9. WorkerType'
  <2>1. /\ closer' \in [pc : {"idle", "lock", "after"}, now : Time, rows : SUBSET Bar, msgs : Seq(Message)]
        /\ (closer'.pc # "after" => closer'.rows = {})
        /\ \/ reader' = IdleReader
           \/ reader' \in [pc : {"second"}, interval : Interval, bars : Seq(Bar), forming : {NoBar}]
    BY <1>1, <1>2 DEF WorkerType
  <2> QED
    BY <1>4, <1>5, <1>6, <1>7, <2>1 DEF WorkerType
<1>10. Times'
  <2>1. clock \in Nat
    BY <1>2, BarBoundsAssumption DEF StateType, Time
  <2>2. apply'.trade.ts = clock /\ \A n \in 1..Len(trades) : trades[n].ts <= clock
    BY <1>2, <1>4, <1>6 DEF Times
  <2> QED
    BY <1>1, <1>2, <2>1, <2>2 DEF Times
<1>11. AllRows' = AllRows /\ AllMsgs' = AllMsgs
  BY <1>1, <1>6 DEF AllRows, AllMsgs
<1>12. RowsOK' /\ MsgsOK' /\ FormingOK' /\ Present' /\ ReaderOK'
  BY <1>1, <1>2, <1>11, RowsKept, MsgsKept, FormingSame, PresentKept, ReaderSame
<1> QED
  BY <1>8, <1>9, <1>10, <1>12 DEF IInv

-----------------------------------------------------------------------------
(* on_trade under the lock. *)

(* A trade is folded into every interval. *)
LEMMA OnTradeOK ==
  ASSUME IInv, OnTrade
  PROVE  IInv'
<1>1. PICK t : t = apply.trade
  OBVIOUS
<1>2. PICK done, old, new :
        /\ done = {i \in Interval : RollsOver(i, t)}
        /\ old = (IF Shortest \in done
                  THEN <<[kind |-> "bar_closed", bar |-> forming[Shortest]]>> ELSE <<>>)
        /\ new = [kind |-> "bar", bar |-> Formed(Shortest, t)]
  OBVIOUS
<1>3. /\ apply.pc = "lock"
      /\ forming' = [i \in Interval |-> Formed(i, t)]
      /\ apply' = [apply EXCEPT !.pc = "after", !.rows = {forming[i] : i \in done},
                                !.msgs = old \o <<new>>]
      /\ trades' = Append(trades, t)
      /\ late' = LateWith(late, t, closedTo)
      /\ UNCHANGED <<reader, clock, closer, lane, table, sent, closedTo, lost>>
  BY <1>1, <1>2 DEF OnTrade, LateWith
<1>4. StateType /\ WorkerType /\ TableOK /\ Times /\ FormingOK /\ RowsOK /\ MsgsOK /\ Present /\ ReaderOK
  BY DEF IInv
<1>5. t \in Trade /\ trades \in Seq(Trade) /\ apply.rows = {}
  BY <1>1, <1>3, <1>4 DEF WorkerType, StateType
<1>6. Follows(trades, t)
  BY <1>1, <1>3, <1>4 DEF Times, Follows
<1>7. ASSUME NEW i \in Interval
      PROVE  /\ FormingAt(forming[i], i, trades, closedTo, late)
             /\ Formed(i, t) = FormedFrom(forming[i], i, t)
             /\ (i \in done <=> forming[i] # NoBar /\ forming[i].start # BucketStart(t.ts, i))
  BY <1>2, <1>4 DEF FormingOK, Formed, FormedFrom, RollsOver
<1>8. ASSUME NEW i \in Interval
      PROVE  /\ Formed(i, t) \in Bar /\ Bucket(Formed(i, t)) = <<i, BucketStart(t.ts, i)>>
             /\ Formed(i, t) # NoBar
             /\ FormingAt(Formed(i, t), i, trades', closedTo, late')
  <2>1. PICK f : f = forming[i]
    OBVIOUS
  <2>4. PICK q2 : q2 = Append(trades, t)
    OBVIOUS
  <2>2. FormingAt(f, i, trades, closedTo, late) /\ Formed(i, t) = FormedFrom(f, i, t)
    BY <1>7, <2>1
  <2>3. FormedGood(FormedFrom(f, i, t), i, t, q2, closedTo, LateWith(late, t, closedTo))
    BY <1>5, <1>6, <2>2, <2>4, FormedOK, Zenon
  <2> QED
    BY <1>3, <2>2, <2>3, <2>4 DEF FormedGood
<1>9. ASSUME NEW i \in done
      PROVE  /\ RowOK(forming[i], trades', closedTo', late')
             /\ forming[i] \in Bar /\ forming[i].interval = i
  <2>1. i \in Interval
    BY <1>2
  <2>2. forming[i] # NoBar /\ forming[i].start # BucketStart(t.ts, i)
    BY <1>7, <1>9, <2>1
  <2>3. RowOK(forming[i], trades', closedTo', late') /\ forming[i].interval = i
    <3>1. PICK f : f = forming[i]
      OBVIOUS
    <3>4. PICK q2 : q2 = Append(trades, t)
      OBVIOUS
    <3>2. FormingAt(f, i, trades, closedTo, late) /\ f # NoBar /\ f.start # BucketStart(t.ts, i)
      BY <1>7, <2>1, <2>2, <3>1
    <3>3. RowOK(f, q2, closedTo, LateWith(late, t, closedTo))
      BY <1>5, <1>6, <2>1, <3>2, <3>4, RolledIsRow, Zenon
    <3>5. f.interval = i
      BY <3>2 DEF FormingAt
    <3> QED
      BY <1>3, <3>1, <3>3, <3>4, <3>5
  <2> QED
    BY <2>3 DEF RowOK
<1>10. FormingOK'
  BY <1>3, <1>8 DEF FormingOK
<1>11. ASSUME NEW b \in AllRows
       PROVE  RowOK(b, trades', closedTo', late')
  BY <1>3, <1>4, <1>5, <1>6, <1>11, RowAppend DEF RowsOK
<1>12. apply'.pc = "after" /\ apply'.rows = {forming[i] : i \in done} /\ apply'.msgs = old \o <<new>>
       /\ apply'.trade = apply.trade
  BY <1>3, <1>4 DEF WorkerType
<1>13. AllRows' = AllRows \union {forming[i] : i \in done}
  BY <1>3, <1>5, <1>12 DEF AllRows
<1>14. RowsOK'
  BY <1>9, <1>11, <1>13 DEF RowsOK
<1>15. Shortest \in Interval
  BY WidthAssumption
<1>16. new \in Message /\ MsgOK(new, trades', closedTo', late')
  <2>1. PICK b : b = Formed(Shortest, t) /\ b \in Bar
    BY <1>8, <1>15
  <2>2. new \in Message /\ new.kind = "bar" /\ new.bar = b
    BY <1>2, <2>1 DEF Message
  <2>3. b.interval = Shortest /\ b # NoBar /\ FormingAt(b, Shortest, trades', closedTo, late')
    BY <1>8, <1>15, <2>1 DEF Bucket
  <2>4. trades' \in Seq(Trade)
    BY <1>3, <1>5
  <2>5. Bucket(b) \notin late' => IsCandle(b, trades')
    BY <2>3 DEF FormingAt
  <2>6. Bucket(b) \notin late' => IsPart(b, trades')
    BY <2>1, <2>4, <2>5, CandleIsPart
  <2> QED
    BY <2>2, <2>3, <2>6 DEF MsgOK
<1>17. old \in Seq(Message) /\ \A n \in 1..Len(old) : MsgOK(old[n], trades', closedTo', late')
  <2>1. CASE Shortest \notin done
    BY <1>2, <2>1
  <2>2. CASE Shortest \in done
    <3>1. PICK m : m = [kind |-> "bar_closed", bar |-> forming[Shortest]]
      OBVIOUS
    <3>2. RowOK(forming[Shortest], trades', closedTo', late') /\ forming[Shortest] \in Bar
          /\ forming[Shortest].interval = Shortest
      BY <1>9, <2>2
    <3>3. m \in Message /\ m.bar = forming[Shortest]
      BY <3>1, <3>2 DEF Message
    <3>4. trades' \in Seq(Trade)
      BY <1>3, <1>5
    <3>5. Bucket(m.bar) \notin late' => IsPart(m.bar, trades')
      BY <3>2, <3>3, <3>4, CandleIsPart DEF RowOK
    <3>6. MsgOK(m, trades', closedTo', late')
      BY <3>2, <3>3, <3>5 DEF MsgOK
    <3>7. old = <<m>>
      BY <1>2, <2>2, <3>1
    <3>8. old \in Seq(Message) /\ Len(old) = 1 /\ old[1] = m
      BY <3>3, <3>7
    <3> QED
      BY <3>6, <3>8
  <2> QED
    BY <2>1, <2>2
<1>18. PICK msgs : msgs = old \o <<new>>
  OBVIOUS
<1>19. msgs \in Seq(Message) /\ Len(msgs) = Len(old) + 1 /\ Len(old) \in Nat
       /\ (\A n \in 1..Len(old) : msgs[n] = old[n]) /\ msgs[Len(old) + 1] = new
  BY <1>16, <1>17, <1>18
<1>20. \A m \in Elements(msgs) : MsgOK(m, trades', closedTo', late')
  <2>1. ASSUME NEW n \in 1..Len(msgs)
        PROVE  MsgOK(msgs[n], trades', closedTo', late')
    <3>1. n \in 1..Len(old) \/ n = Len(old) + 1
      BY <1>19
    <3> QED
      BY <1>16, <1>17, <1>19, <3>1
  <2> QED
    BY <2>1 DEF Elements
<1>21. MsgsOK'
  <2>1. ASSUME NEW m \in AllMsgs
        PROVE  MsgOK(m, trades', closedTo', late')
    BY <1>3, <1>4, <1>5, <1>6, <2>1, MsgAppend DEF MsgsOK
  <2>2. AllMsgs' \subseteq AllMsgs \union Elements(msgs)
    BY <1>3, <1>12, <1>18 DEF AllMsgs
  <2> QED
    BY <1>20, <2>1, <2>2 DEF MsgsOK
<1>22. StateType'
  <2>1. forming' \in [Interval -> Bar \union {NoBar}]
    BY <1>3, <1>8
  <2>2. trades' \in Seq(Trade)
    BY <1>3, <1>5
  <2>3. late' \subseteq Interval \X Time
    <3>1. t.ts \in Time
      BY <1>5, TradeFacts
    <3>2. \A i \in Interval : BucketStart(t.ts, i) \in Time
      BY <3>1, StartIsTime
    <3> QED
      BY <1>3, <1>4, <3>2 DEF LateWith, StateType
  <2> QED
    BY <1>3, <1>4, <2>1, <2>2, <2>3 DEF StateType
<1>23. WorkerType'
  <2>1. {forming[i] : i \in done} \in SUBSET Bar
    BY <1>9
  <2>2. apply' \in [pc : {"idle", "lock", "after"}, trade : Trade \union {NoTrade},
                    rows : SUBSET Bar, msgs : Seq(Message)]
    BY <1>3, <1>4, <1>18, <1>19, <2>1 DEF WorkerType
  <2>3. Len(apply'.msgs) > 0
    BY <1>12, <1>18, <1>19
  <2>4. /\ closer' \in [pc : {"idle", "lock", "after"}, now : Time, rows : SUBSET Bar, msgs : Seq(Message)]
        /\ (closer'.pc # "after" => closer'.rows = {})
        /\ \/ reader' = IdleReader
           \/ reader' \in [pc : {"second"}, interval : Interval, bars : Seq(Bar), forming : {NoBar}]
    BY <1>3, <1>4 DEF WorkerType
  <2> QED
    BY <1>12, <2>2, <2>3, <2>4 DEF WorkerType
<1>24. TableOK'
  BY <1>3, <1>4 DEF TableOK
<1>25. Appended(trades, t, trades')
  BY <1>3, <1>5, OfBucketAppend, Zenon
<1>26. Times'
  <2>1. /\ Len(trades') = Len(trades) + 1 /\ Len(trades) \in Nat /\ trades'[Len(trades) + 1] = t
        /\ \A n \in 1..Len(trades) : trades'[n] = trades[n] /\ trades[n] \in Trade
    BY <1>25, Zenon DEF Appended
  <2>2. t.ts \in Nat /\ \A n \in 1..Len(trades) : trades[n].ts \in Nat
    BY <1>5, <2>1, TradeFacts
  <2>3. InOrder(trades) /\ \A n \in 1..Len(trades) : trades[n].ts <= t.ts
    BY <1>6 DEF Follows
  <2>4. ASSUME NEW n \in 1..Len(trades'), NEW k \in 1..Len(trades'), n <= k
        PROVE  trades'[n].ts <= trades'[k].ts
    <3>1. CASE k = Len(trades) + 1 /\ n = k
      BY <2>1, <2>2, <3>1
    <3>2. CASE k = Len(trades) + 1 /\ n # k
      <4>1. n \in 1..Len(trades)
        BY <2>1, <3>2
      <4> QED
        BY <2>1, <2>3, <3>2, <4>1
    <3>3. CASE k # Len(trades) + 1
      <4>1. n \in 1..Len(trades) /\ k \in 1..Len(trades)
        BY <2>1, <2>4, <3>3
      <4> QED
        BY <2>1, <2>3, <2>4, <4>1 DEF InOrder
    <3> QED
      BY <3>1, <3>2, <3>3
  <2>5. InOrder(trades')
    BY <2>4 DEF InOrder
  <2>6. t.ts <= clock
    BY <1>1, <1>3, <1>4 DEF Times
  <2>7. ASSUME NEW n \in 1..Len(trades')
        PROVE  trades'[n].ts <= clock
    <3>1. n \in 1..Len(trades) \/ n = Len(trades) + 1
      BY <2>1
    <3> QED
      BY <1>4, <2>1, <2>6, <3>1 DEF Times
  <2> QED
    BY <1>3, <1>4, <1>12, <2>5, <2>7 DEF Times
<1>27. Present'
  <2> SUFFICES ASSUME NEW i \in Interval, NEW s \in Time, <<i, s>> \notin late' \union lost',
                      OfBucket(trades', i, s) # {}
               PROVE  Held(i, s)' \/ Outdated(table', i, s)
    BY DEF Present
  <2>1. forming'[i] = Formed(i, t)
    BY <1>3
  <2>2. CASE BucketStart(t.ts, i) = s
    BY <1>8, <2>1, <2>2 DEF Held
  <2>3. CASE BucketStart(t.ts, i) # s
    <3>1. OfBucket(trades, i, s) # {}
      BY <1>25, <2>3, Zenon DEF Appended
    <3>2. <<i, s>> \notin late \union lost
      BY <1>3 DEF LateWith
    <3>3. Held(i, s) \/ Outdated(table, i, s)
      BY <1>4, <3>1, <3>2 DEF Present
    <3>4. CASE \E b \in AllRows : Bucket(b) = <<i, s>>
      BY <1>13, <3>4 DEF Held
    <3>5. CASE forming[i] # NoBar /\ Bucket(forming[i]) = <<i, s>>
      <4>1. forming[i].start # BucketStart(t.ts, i)
        BY <2>3, <3>5 DEF Bucket
      <4>2. i \in done
        BY <1>7, <3>5, <4>1
      <4> QED
        BY <1>13, <3>5, <4>2 DEF Held
    <3>6. CASE Outdated(table, i, s)
      BY <1>3, <3>6
    <3> QED
      BY <3>3, <3>4, <3>5, <3>6 DEF Held
  <2> QED
    BY <2>2, <2>3
<1>28. ReaderOK'
  <2> SUFFICES ASSUME reader.pc = "second", NEW n \in 1..Len(reader.bars)
               PROVE  ClosedBy(trades', closedTo, reader.interval, reader.bars[n].start)
    BY <1>3, <1>4 DEF ReaderOK
  <2>1. reader \in [pc : {"second"}, interval : Interval, bars : Seq(Bar), forming : {NoBar}]
    BY <1>4 DEF WorkerType, IdleReader
  <2>2. PICK b \in Bar : b = reader.bars[n]
    BY <2>1
  <2>3. b.start \in Nat /\ reader.interval \in Interval
    BY <2>1, BarFacts
  <2>4. ClosedBy(trades, closedTo, reader.interval, b.start)
    BY <1>4, <2>2 DEF ReaderOK
  <2>5. ClosedBy(trades', closedTo, reader.interval, b.start)
    BY <1>3, <1>5, <1>6, <2>3, <2>4, ClosedAppend
  <2> QED
    BY <2>2, <2>5
<1> QED
  BY <1>10, <1>14, <1>21, <1>22, <1>23, <1>24, <1>26, <1>27, <1>28 DEF IInv

-----------------------------------------------------------------------------
(* What the apply worker does after the lock. *)

(* on_trade after the lock: its rows are enqueued or dropped. *)
LEMMA PersistRolledOverOK ==
  ASSUME IInv, NEW dropped, PersistRolledOver(dropped)
  PROVE  IInv'
<1>1. /\ apply.pc = "after" /\ dropped \subseteq apply.rows
      /\ lane' = lane \union (apply.rows \ dropped)
      /\ lost' = lost \union {Bucket(b) : b \in dropped}
      /\ apply' = [apply EXCEPT !.rows = {}]
      /\ UNCHANGED <<reader, clock, forming, closer, table, sent, trades, closedTo, late>>
  BY DEF PersistRolledOver, Enqueue
<1>2. StateType /\ WorkerType /\ TableOK /\ Times /\ FormingOK /\ RowsOK /\ MsgsOK /\ Present /\ ReaderOK
  BY DEF IInv
<1>3. apply.rows \subseteq Bar
  BY <1>2 DEF WorkerType
<1>4. apply'.pc = "after" /\ apply'.rows = {} /\ apply'.msgs = apply.msgs /\ apply'.trade = apply.trade
  BY <1>1, <1>2 DEF WorkerType
<1>5. \A b \in Bar : Bucket(b) \in Interval \X Time
  BY BarFacts DEF Bucket
<1>6. StateType'
  BY <1>1, <1>2, <1>3, <1>5 DEF StateType
<1>7. WorkerType'
  <2>1. apply' \in [pc : {"idle", "lock", "after"}, trade : Trade \union {NoTrade},
                    rows : SUBSET Bar, msgs : Seq(Message)]
    BY <1>1, <1>2 DEF WorkerType
  <2>2. /\ closer' \in [pc : {"idle", "lock", "after"}, now : Time, rows : SUBSET Bar, msgs : Seq(Message)]
        /\ (closer'.pc # "after" => closer'.rows = {})
        /\ \/ reader' = IdleReader
           \/ reader' \in [pc : {"second"}, interval : Interval, bars : Seq(Bar), forming : {NoBar}]
    BY <1>1, <1>2 DEF WorkerType
  <2>3. Len(apply'.msgs) > 0
    BY <1>1, <1>2, <1>4 DEF WorkerType
  <2> QED
    BY <1>4, <2>1, <2>2, <2>3 DEF WorkerType
<1>8. TableOK' /\ Times'
  BY <1>1, <1>2, <1>4 DEF TableOK, Times
<1>9. AllRows' \subseteq AllRows /\ AllMsgs' = AllMsgs
  BY <1>1, <1>4 DEF AllRows, AllMsgs
<1>10. \A b \in AllRows : b \in AllRows' \/ Bucket(b) \in lost'
  BY <1>1 DEF AllRows
<1>11. RowsOK' /\ MsgsOK' /\ FormingOK' /\ Present' /\ ReaderOK'
  BY <1>1, <1>2, <1>9, <1>10, RowsKept, MsgsKept, FormingSame, PresentKept, ReaderSame
<1> QED
  BY <1>6, <1>7, <1>8, <1>11 DEF IInv

(* Taking the head of a sequence of messages. *)
LEMMA HeadTail ==
  ASSUME NEW S, NEW q \in Seq(S), Len(q) > 0
  PROVE  /\ Head(q) \in S /\ Head(q) \in Elements(q) /\ Tail(q) \in Seq(S)
         /\ Elements(Tail(q)) \subseteq Elements(q) /\ Len(Tail(q)) = Len(q) - 1 /\ Len(q) \in Nat
<1>1. Len(q) \in Nat /\ q # <<>> /\ Head(q) = q[1] /\ 1 \in 1..Len(q)
  OBVIOUS
<1>2. Tail(q) \in Seq(S) /\ Len(Tail(q)) = Len(q) - 1
  BY <1>1
<1>3. ASSUME NEW n \in 1..Len(Tail(q))
      PROVE  Tail(q)[n] \in Elements(q)
  <2>1. n + 1 \in 1..Len(q) /\ Tail(q)[n] = q[n + 1]
    BY <1>1, <1>2
  <2> QED
    BY <2>1 DEF Elements
<1>4. Elements(Tail(q)) \subseteq Elements(q)
  BY <1>3 DEF Elements
<1>5. Head(q) \in Elements(q) /\ Head(q) \in S
  BY <1>1 DEF Elements
<1> QED
  BY <1>1, <1>2, <1>4, <1>5

(* One message of on_trade is sent. *)
LEMMA SendTradeOK ==
  ASSUME IInv, SendTrade
  PROVE  IInv'
<1>1. /\ apply.pc = "after" /\ apply.rows = {}
      /\ sent' = sent \union {Head(apply.msgs)}
      /\ apply' = IF Len(apply.msgs) = 1 THEN IdleApply ELSE [apply EXCEPT !.msgs = Tail(apply.msgs)]
      /\ UNCHANGED <<reader, clock, forming, closer, lane, table, trades, closedTo, late, lost>>
  BY DEF SendTrade
<1>2. StateType /\ WorkerType /\ TableOK /\ Times /\ FormingOK /\ RowsOK /\ MsgsOK /\ Present /\ ReaderOK
  BY DEF IInv
<1>3. apply.msgs \in Seq(Message) /\ Len(apply.msgs) > 0
  BY <1>1, <1>2 DEF WorkerType
<1>4. /\ Head(apply.msgs) \in Message /\ Head(apply.msgs) \in Elements(apply.msgs)
      /\ Tail(apply.msgs) \in Seq(Message) /\ Elements(Tail(apply.msgs)) \subseteq Elements(apply.msgs)
      /\ Len(Tail(apply.msgs)) = Len(apply.msgs) - 1 /\ Len(apply.msgs) \in Nat
  BY <1>3, HeadTail
<1>5. /\ apply' \in [pc : {"idle", "lock", "after"}, trade : Trade \union {NoTrade},
                     rows : SUBSET Bar, msgs : Seq(Message)]
      /\ apply'.pc \in {"idle", "after"} /\ apply'.rows = {}
      /\ (apply'.pc = "after" => Len(apply'.msgs) > 0)
      /\ Elements(apply'.msgs) \subseteq Elements(apply.msgs)
  <2>1. CASE Len(apply.msgs) = 1
    <3>1. apply' = IdleApply
      BY <1>1, <2>1
    <3> QED
      BY <3>1 DEF IdleApply, Elements
  <2>2. CASE Len(apply.msgs) # 1
    <3>1. apply' = [apply EXCEPT !.msgs = Tail(apply.msgs)]
      BY <1>1, <2>2
    <3>2. apply'.msgs = Tail(apply.msgs) /\ apply'.pc = "after" /\ apply'.rows = {}
      BY <1>1, <1>2, <3>1 DEF WorkerType
    <3>3. apply' \in [pc : {"idle", "lock", "after"}, trade : Trade \union {NoTrade},
                      rows : SUBSET Bar, msgs : Seq(Message)]
      BY <1>2, <1>4, <3>1 DEF WorkerType
    <3>5. PICK k \in Nat : k = Len(apply.msgs)
      BY <1>4
    <3>6. k > 0 /\ k # 1
      BY <1>3, <2>2, <3>5
    <3>7. k - 1 > 0
      BY <3>6
    <3>4. Len(apply'.msgs) > 0
      BY <1>4, <3>2, <3>5, <3>7, Zenon
    <3> QED
      BY <1>4, <3>2, <3>3, <3>4
  <2> QED
    BY <2>1, <2>2
<1>6. StateType'
  BY <1>1, <1>2, <1>4 DEF StateType
<1>7. WorkerType'
  <2>1. /\ closer' \in [pc : {"idle", "lock", "after"}, now : Time, rows : SUBSET Bar, msgs : Seq(Message)]
        /\ (closer'.pc # "after" => closer'.rows = {})
        /\ \/ reader' = IdleReader
           \/ reader' \in [pc : {"second"}, interval : Interval, bars : Seq(Bar), forming : {NoBar}]
    BY <1>1, <1>2 DEF WorkerType
  <2> QED
    BY <1>5, <2>1 DEF WorkerType
<1>8. TableOK' /\ Times'
  BY <1>1, <1>2, <1>5 DEF TableOK, Times
<1>9. AllRows' = AllRows /\ AllMsgs' \subseteq AllMsgs
  BY <1>1, <1>4, <1>5 DEF AllRows, AllMsgs
<1>10. RowsOK' /\ MsgsOK' /\ FormingOK' /\ Present' /\ ReaderOK'
  BY <1>1, <1>2, <1>9, RowsKept, MsgsKept, FormingSame, PresentKept, ReaderSame
<1> QED
  BY <1>6, <1>7, <1>8, <1>10 DEF IInv

-----------------------------------------------------------------------------
(* The closer. *)

(* The ticker of the closer fires. *)
LEMMA CloserTickOK ==
  ASSUME IInv, CloserTick
  PROVE  IInv'
<1>1. /\ closer.pc = "idle" /\ closer' = [closer EXCEPT !.pc = "lock", !.now = clock]
      /\ UNCHANGED <<reader, clock, forming, apply, lane, table, sent, trades, closedTo, late, lost>>
  BY DEF CloserTick
<1>2. StateType /\ WorkerType /\ TableOK /\ Times /\ FormingOK /\ RowsOK /\ MsgsOK /\ Present /\ ReaderOK
  BY DEF IInv
<1>3. clock \in Time
  BY <1>2 DEF StateType
<1>4. /\ closer' \in [pc : {"idle", "lock", "after"}, now : Time, rows : SUBSET Bar, msgs : Seq(Message)]
      /\ closer'.pc = "lock" /\ closer'.now = clock
      /\ closer'.rows = closer.rows /\ closer'.msgs = closer.msgs
  BY <1>1, <1>2, <1>3 DEF WorkerType
<1>5. closer.rows = {}
  BY <1>1, <1>2 DEF WorkerType
<1>6. StateType' /\ TableOK'
  BY <1>1, <1>2 DEF StateType, TableOK
<1>7. WorkerType'
  <2>1. /\ apply' \in [pc : {"idle", "lock", "after"}, trade : Trade \union {NoTrade},
                       rows : SUBSET Bar, msgs : Seq(Message)]
        /\ (apply'.pc = "lock" => apply'.trade \in Trade)
        /\ (apply'.pc = "after" => Len(apply'.msgs) > 0) /\ (apply'.pc # "after" => apply'.rows = {})
        /\ \/ reader' = IdleReader
           \/ reader' \in [pc : {"second"}, interval : Interval, bars : Seq(Bar), forming : {NoBar}]
    BY <1>1, <1>2 DEF WorkerType
  <2> QED
    BY <1>4, <1>5, <2>1 DEF WorkerType
<1>8. Times'
  <2>1. clock \in Nat
    BY <1>3, BarBoundsAssumption DEF Time
  <2> QED
    BY <1>1, <1>2, <1>4, <2>1 DEF Times
<1>9. AllRows' = AllRows /\ AllMsgs' = AllMsgs
  BY <1>1, <1>4 DEF AllRows, AllMsgs
<1>10. RowsOK' /\ MsgsOK' /\ FormingOK' /\ Present' /\ ReaderOK'
  BY <1>1, <1>2, <1>9, RowsKept, MsgsKept, FormingSame, PresentKept, ReaderSame
<1> QED
  BY <1>6, <1>7, <1>8, <1>10 DEF IInv

(* close_expired under the lock. *)
LEMMA CloseExpiredOK ==
  ASSUME IInv, CloseExpired
  PROVE  IInv'
<1>1. PICK ended, d : ended = {i \in Interval : Expired(i, closer.now)} /\ d = closer.now
  OBVIOUS
<1>2. /\ closer.pc = "lock"
      /\ forming' = [i \in Interval |-> IF i \in ended THEN NoBar ELSE forming[i]]
      /\ closer' = IF ended = {} THEN IdleCloser
                   ELSE [closer EXCEPT !.pc = "after", !.rows = {forming[i] : i \in ended}]
      /\ closedTo' = d
      /\ UNCHANGED <<reader, clock, apply, lane, table, sent, trades, late, lost>>
  BY <1>1 DEF CloseExpired
<1>3. StateType /\ WorkerType /\ TableOK /\ Times /\ FormingOK /\ RowsOK /\ MsgsOK /\ Present /\ ReaderOK
  BY DEF IInv
<1>4. d \in Time /\ d \in Nat /\ closedTo \in Nat /\ closedTo <= d /\ d <= clock /\ trades \in Seq(Trade)
  BY <1>1, <1>2, <1>3, BarBoundsAssumption DEF WorkerType, StateType, Times, Time
<1>5. closer.rows = {}
  BY <1>2, <1>3 DEF WorkerType
<1>6. ASSUME NEW i \in Interval
      PROVE  /\ FormingAt(forming[i], i, trades, closedTo, late)
             /\ (i \in ended <=> forming[i] # NoBar /\ forming[i].start < BucketStart(d, i))
  BY <1>1, <1>3 DEF FormingOK, Expired
<1>7. ASSUME NEW i \in ended
      PROVE  /\ FormingAt(NoBar, i, trades, d, late) /\ RowOK(forming[i], trades, d, late)
             /\ forming[i].interval = i /\ forming[i] \in Bar /\ i \in Interval
  <2>1. i \in Interval
    BY <1>1
  <2>2. FormingAt(forming[i], i, trades, closedTo, late) /\ forming[i] # NoBar
        /\ forming[i].start < BucketStart(d, i)
    BY <1>6, <1>7, <2>1
  <2>3. PICK f : f = forming[i]
    OBVIOUS
  <2>4. FormingAt(f, i, trades, closedTo, late) /\ f # NoBar /\ f.start < BucketStart(d, i)
    BY <2>2, <2>3
  <2>5. FormingAt(NoBar, i, trades, d, late) /\ RowOK(f, trades, d, late)
    BY <2>1, <2>4, FormingTaken, Zenon
  <2>6. f \in Bar /\ f.interval = i
    BY <2>4 DEF FormingAt
  <2> QED
    BY <2>1, <2>3, <2>5, <2>6
<1>8. ASSUME NEW i \in Interval, i \notin ended
      PROVE  FormingAt(forming[i], i, trades, d, late)
  <2>1. PICK f : f = forming[i]
    OBVIOUS
  <2>2. FormingAt(f, i, trades, closedTo, late) /\ ~ (f # NoBar /\ f.start < BucketStart(d, i))
    BY <1>6, <1>8, <2>1
  <2>3. FormingAt(f, i, trades, d, late)
    BY <1>4, <2>2, FormingKept, Zenon
  <2> QED
    BY <2>1, <2>3
<1>9. FormingOK'
  <2>1. ASSUME NEW i \in Interval
        PROVE  FormingAt(forming'[i], i, trades', closedTo', late')
    <3>1. CASE i \in ended
      <4>1. forming'[i] = NoBar
        BY <1>2, <3>1
      <4> QED
        BY <1>2, <1>7, <3>1, <4>1
    <3>2. CASE i \notin ended
      <4>1. forming'[i] = forming[i]
        BY <1>2, <3>2
      <4> QED
        BY <1>2, <1>8, <3>2, <4>1
    <3> QED
      BY <3>1, <3>2
  <2> QED
    BY <2>1 DEF FormingOK
<1>10. {forming[i] : i \in ended} \in SUBSET Bar
  BY <1>7
<1>11. /\ closer' \in [pc : {"idle", "lock", "after"}, now : Time, rows : SUBSET Bar, msgs : Seq(Message)]
       /\ closer'.pc \in {"idle", "after"} /\ closer'.rows = {forming[i] : i \in ended}
       /\ (closer'.pc = "idle" => closer'.rows = {})
       /\ Elements(closer'.msgs) \subseteq Elements(closer.msgs)
  <2>1. CASE ended = {}
    <3>1. closer' = IdleCloser /\ {forming[i] : i \in ended} = {}
      BY <1>2, <2>1
    <3>2. 0 \in Time
      BY BarBoundsAssumption DEF Time
    <3> QED
      BY <3>1, <3>2 DEF IdleCloser, Elements
  <2>2. CASE ended # {}
    <3>1. closer' = [closer EXCEPT !.pc = "after", !.rows = {forming[i] : i \in ended}]
      BY <1>2, <2>2
    <3> QED
      BY <1>3, <1>10, <3>1 DEF WorkerType
  <2> QED
    BY <2>1, <2>2
<1>12. StateType'
  <2>1. forming' \in [Interval -> Bar \union {NoBar}]
    BY <1>2, <1>3 DEF StateType
  <2> QED
    BY <1>2, <1>3, <1>4, <2>1 DEF StateType
<1>13. WorkerType'
  <2>1. /\ apply' \in [pc : {"idle", "lock", "after"}, trade : Trade \union {NoTrade},
                       rows : SUBSET Bar, msgs : Seq(Message)]
        /\ (apply'.pc = "lock" => apply'.trade \in Trade)
        /\ (apply'.pc = "after" => Len(apply'.msgs) > 0) /\ (apply'.pc # "after" => apply'.rows = {})
        /\ \/ reader' = IdleReader
           \/ reader' \in [pc : {"second"}, interval : Interval, bars : Seq(Bar), forming : {NoBar}]
    BY <1>2, <1>3 DEF WorkerType
  <2> QED
    BY <1>11, <2>1 DEF WorkerType
<1>14. TableOK' /\ Times'
  <2>1. closer'.pc # "lock"
    BY <1>11
  <2> QED
    BY <1>2, <1>3, <1>4, <2>1 DEF TableOK, Times
<1>15. AllRows' = AllRows \union {forming[i] : i \in ended} /\ AllMsgs' \subseteq AllMsgs
  BY <1>2, <1>5, <1>11 DEF AllRows, AllMsgs
<1>16. late \subseteq late
  OBVIOUS
<1>17. RowsOK'
  <2>1. ASSUME NEW b \in AllRows
        PROVE  RowOK(b, trades, d, late)
    <3>1. RowOK(b, trades, closedTo, late)
      BY <1>3 DEF RowsOK
    <3> QED
      BY <1>4, <1>16, <3>1, RowWeaken
  <2> QED
    BY <1>2, <1>7, <1>15, <2>1 DEF RowsOK
<1>18. MsgsOK'
  <2>1. ASSUME NEW m \in AllMsgs
        PROVE  MsgOK(m, trades, d, late)
    <3>1. MsgOK(m, trades, closedTo, late)
      BY <1>3 DEF MsgsOK
    <3> QED
      BY <1>4, <1>16, <3>1, MsgWeaken
  <2> QED
    BY <1>2, <1>15, <2>1 DEF MsgsOK
<1>19. Present'
  <2> SUFFICES ASSUME NEW i \in Interval, NEW s \in Time, <<i, s>> \notin late' \union lost',
                      OfBucket(trades', i, s) # {}
               PROVE  Held(i, s)' \/ Outdated(table', i, s)
    BY DEF Present
  <2>1. Held(i, s) \/ Outdated(table, i, s)
    BY <1>2, <1>3 DEF Present
  <2>2. CASE \E b \in AllRows : Bucket(b) = <<i, s>>
    BY <1>15, <2>2 DEF Held
  <2>3. CASE forming[i] # NoBar /\ Bucket(forming[i]) = <<i, s>>
    <3>1. CASE i \in ended
      BY <1>15, <2>3, <3>1 DEF Held
    <3>2. CASE i \notin ended
      <4>1. forming'[i] = forming[i]
        BY <1>2, <3>2
      <4> QED
        BY <2>3, <4>1 DEF Held
    <3> QED
      BY <3>1, <3>2
  <2>4. CASE Outdated(table, i, s)
    BY <1>2, <2>4
  <2> QED
    BY <2>1, <2>2, <2>3, <2>4 DEF Held
<1>20. ReaderOK'
  <2> SUFFICES ASSUME reader.pc = "second", NEW n \in 1..Len(reader.bars)
               PROVE  ClosedBy(trades, d, reader.interval, reader.bars[n].start)
    BY <1>2, <1>3 DEF ReaderOK
  <2>1. reader \in [pc : {"second"}, interval : Interval, bars : Seq(Bar), forming : {NoBar}]
    BY <1>3 DEF WorkerType, IdleReader
  <2>2. PICK b \in Bar : b = reader.bars[n]
    BY <2>1
  <2>3. b.start \in Nat /\ reader.interval \in Interval
    BY <2>1, BarFacts
  <2>4. ClosedBy(trades, closedTo, reader.interval, b.start)
    BY <1>3, <2>2 DEF ReaderOK
  <2>5. ClosedBy(trades, d, reader.interval, b.start)
    BY <1>4, <2>3, <2>4, ClosedWeaken
  <2> QED
    BY <2>2, <2>5
<1> QED
  BY <1>9, <1>12, <1>13, <1>14, <1>17, <1>18, <1>19, <1>20 DEF IInv

(* close_expired after the lock: a row is enqueued or dropped. *)
LEMMA PersistExpiredOK ==
  ASSUME IInv, NEW b, NEW dropped, PersistExpired(b, dropped)
  PROVE  IInv'
<1>1. /\ closer.pc = "after" /\ closer.msgs = <<>> /\ b \in closer.rows /\ dropped \subseteq {b}
      /\ lane' = lane \union ({b} \ dropped) /\ lost' = lost \union {Bucket(x) : x \in dropped}
      /\ closer' =
           IF b.interval = Shortest
           THEN [closer EXCEPT !.rows = closer.rows \ {b}, !.msgs = <<[kind |-> "bar_closed", bar |-> b]>>]
           ELSE IF closer.rows = {b} THEN IdleCloser ELSE [closer EXCEPT !.rows = closer.rows \ {b}]
      /\ UNCHANGED <<reader, clock, forming, apply, table, sent, trades, closedTo, late>>
  BY DEF PersistExpired, Enqueue
<1>2. StateType /\ WorkerType /\ TableOK /\ Times /\ FormingOK /\ RowsOK /\ MsgsOK /\ Present /\ ReaderOK
  BY DEF IInv
<1>3. b \in Bar /\ closer.rows \in SUBSET Bar /\ trades \in Seq(Trade)
  BY <1>1, <1>2 DEF WorkerType, StateType
<1>4. PICK m : m = [kind |-> "bar_closed", bar |-> b]
  OBVIOUS
<1>5. m \in Message /\ m.kind = "bar_closed" /\ m.bar = b
  BY <1>3, <1>4 DEF Message
<1>6. b.interval = Shortest => MsgOK(m, trades, closedTo, late)
  <2>1. RowOK(b, trades, closedTo, late)
    BY <1>1, <1>2 DEF RowsOK, AllRows
  <2>2. Bucket(b) \notin late => IsPart(b, trades)
    BY <1>3, <2>1, CandleIsPart DEF RowOK
  <2> QED
    BY <1>5, <2>1, <2>2 DEF MsgOK
<1>7. /\ closer' \in [pc : {"idle", "lock", "after"}, now : Time, rows : SUBSET Bar, msgs : Seq(Message)]
      /\ closer'.pc \in {"idle", "after"} /\ closer'.rows = closer.rows \ {b}
      /\ (closer'.pc # "after" => closer'.rows = {})
      /\ \A x \in Elements(closer'.msgs) : x = m /\ b.interval = Shortest
  <2>1. CASE b.interval = Shortest
    <3>1. closer' = [closer EXCEPT !.rows = closer.rows \ {b}, !.msgs = <<m>>]
      BY <1>1, <1>4, <2>1
    <3>2. closer'.pc = "after" /\ closer'.rows = closer.rows \ {b} /\ closer'.msgs = <<m>>
      BY <1>1, <1>2, <3>1 DEF WorkerType
    <3>3. <<m>> \in Seq(Message) /\ closer.rows \ {b} \in SUBSET Bar
      BY <1>3, <1>5
    <3>4. closer' \in [pc : {"idle", "lock", "after"}, now : Time, rows : SUBSET Bar, msgs : Seq(Message)]
      BY <1>2, <3>1, <3>3 DEF WorkerType
    <3>5. Elements(<<m>>) = {m}
      BY DEF Elements
    <3> QED
      BY <2>1, <3>2, <3>4, <3>5
  <2>2. CASE b.interval # Shortest /\ closer.rows = {b}
    <3>1. closer' = IdleCloser /\ closer.rows \ {b} = {}
      BY <1>1, <2>2
    <3>2. 0 \in Time
      BY BarBoundsAssumption DEF Time
    <3> QED
      BY <3>1, <3>2 DEF IdleCloser, Elements
  <2>3. CASE b.interval # Shortest /\ closer.rows # {b}
    <3>1. closer' = [closer EXCEPT !.rows = closer.rows \ {b}]
      BY <1>1, <2>3
    <3>2. closer'.pc = "after" /\ closer'.rows = closer.rows \ {b} /\ closer'.msgs = <<>>
      BY <1>1, <1>2, <3>1 DEF WorkerType
    <3>3. closer.rows \ {b} \in SUBSET Bar
      BY <1>3
    <3>4. closer' \in [pc : {"idle", "lock", "after"}, now : Time, rows : SUBSET Bar, msgs : Seq(Message)]
      BY <1>2, <3>1, <3>3 DEF WorkerType
    <3>5. Elements(closer'.msgs) = {}
      BY <3>2 DEF Elements
    <3> QED
      BY <3>2, <3>4, <3>5
  <2> QED
    BY <2>1, <2>2, <2>3
<1>8. Bucket(b) \in Interval \X Time
  BY <1>3, BarFacts DEF Bucket
<1>9. StateType'
  BY <1>1, <1>2, <1>3, <1>8 DEF StateType
<1>10. WorkerType'
  <2>1. /\ apply' \in [pc : {"idle", "lock", "after"}, trade : Trade \union {NoTrade},
                       rows : SUBSET Bar, msgs : Seq(Message)]
        /\ (apply'.pc = "lock" => apply'.trade \in Trade)
        /\ (apply'.pc = "after" => Len(apply'.msgs) > 0) /\ (apply'.pc # "after" => apply'.rows = {})
        /\ \/ reader' = IdleReader
           \/ reader' \in [pc : {"second"}, interval : Interval, bars : Seq(Bar), forming : {NoBar}]
    BY <1>1, <1>2 DEF WorkerType
  <2> QED
    BY <1>7, <2>1 DEF WorkerType
<1>11. TableOK' /\ Times'
  <2>1. closer'.pc # "lock"
    BY <1>7
  <2> QED
    BY <1>1, <1>2, <2>1 DEF TableOK, Times
<1>12. AllRows' \subseteq AllRows
  BY <1>1, <1>7 DEF AllRows
<1>13. \A x \in AllRows : x \in AllRows' \/ Bucket(x) \in lost'
  BY <1>1, <1>7 DEF AllRows
<1>14. RowsOK' /\ FormingOK' /\ Present' /\ ReaderOK'
  BY <1>1, <1>2, <1>12, <1>13, RowsKept, FormingSame, PresentKept, ReaderSame
<1>15. MsgsOK'
  <2>1. \A x \in AllMsgs' : x \in AllMsgs \/ (x = m /\ b.interval = Shortest)
    BY <1>1, <1>7 DEF AllMsgs
  <2> QED
    BY <1>1, <1>2, <1>6, <2>1 DEF MsgsOK
<1> QED
  BY <1>9, <1>10, <1>11, <1>14, <1>15 DEF IInv

(* close_expired after the lock: its message is sent. *)
LEMMA SendExpiredOK ==
  ASSUME IInv, SendExpired
  PROVE  IInv'
<1>1. /\ closer.pc = "after" /\ closer.msgs # <<>>
      /\ sent' = sent \union {Head(closer.msgs)}
      /\ closer' = IF closer.rows = {} THEN IdleCloser ELSE [closer EXCEPT !.msgs = <<>>]
      /\ UNCHANGED <<reader, clock, forming, apply, lane, table, trades, closedTo, late, lost>>
  BY DEF SendExpired
<1>2. StateType /\ WorkerType /\ TableOK /\ Times /\ FormingOK /\ RowsOK /\ MsgsOK /\ Present /\ ReaderOK
  BY DEF IInv
<1>3. closer.msgs \in Seq(Message) /\ Len(closer.msgs) > 0
  BY <1>1, <1>2 DEF WorkerType
<1>4. Head(closer.msgs) \in Message /\ Head(closer.msgs) \in Elements(closer.msgs)
  BY <1>3, HeadTail
<1>5. /\ closer' \in [pc : {"idle", "lock", "after"}, now : Time, rows : SUBSET Bar, msgs : Seq(Message)]
      /\ closer'.pc \in {"idle", "after"} /\ closer'.rows = closer.rows
      /\ (closer'.pc # "after" => closer'.rows = {}) /\ Elements(closer'.msgs) = {}
  <2>1. CASE closer.rows = {}
    <3>1. closer' = IdleCloser
      BY <1>1, <2>1
    <3>2. 0 \in Time
      BY BarBoundsAssumption DEF Time
    <3> QED
      BY <2>1, <3>1, <3>2 DEF IdleCloser, Elements
  <2>2. CASE closer.rows # {}
    <3>1. closer' = [closer EXCEPT !.msgs = <<>>]
      BY <1>1, <2>2
    <3>2. closer'.pc = "after" /\ closer'.rows = closer.rows /\ closer'.msgs = <<>>
      BY <1>1, <1>2, <3>1 DEF WorkerType
    <3>5. <<>> \in Seq(Message)
      OBVIOUS
    <3>3. closer' \in [pc : {"idle", "lock", "after"}, now : Time, rows : SUBSET Bar, msgs : Seq(Message)]
      BY <1>2, <3>1, <3>5 DEF WorkerType
    <3>4. Elements(closer'.msgs) = {}
      BY <3>2 DEF Elements
    <3> QED
      BY <3>2, <3>3, <3>4
  <2> QED
    BY <2>1, <2>2
<1>6. StateType'
  BY <1>1, <1>2, <1>4 DEF StateType
<1>7. WorkerType'
  <2>1. /\ apply' \in [pc : {"idle", "lock", "after"}, trade : Trade \union {NoTrade},
                       rows : SUBSET Bar, msgs : Seq(Message)]
        /\ (apply'.pc = "lock" => apply'.trade \in Trade)
        /\ (apply'.pc = "after" => Len(apply'.msgs) > 0) /\ (apply'.pc # "after" => apply'.rows = {})
        /\ \/ reader' = IdleReader
           \/ reader' \in [pc : {"second"}, interval : Interval, bars : Seq(Bar), forming : {NoBar}]
    BY <1>1, <1>2 DEF WorkerType
  <2> QED
    BY <1>5, <2>1 DEF WorkerType
<1>8. TableOK' /\ Times'
  <2>1. closer'.pc # "lock"
    BY <1>5
  <2> QED
    BY <1>1, <1>2, <2>1 DEF TableOK, Times
<1>9. AllRows' = AllRows /\ AllMsgs' \subseteq AllMsgs
  BY <1>1, <1>4, <1>5 DEF AllRows, AllMsgs
<1>10. RowsOK' /\ MsgsOK' /\ FormingOK' /\ Present' /\ ReaderOK'
  BY <1>1, <1>2, <1>9, RowsKept, MsgsKept, FormingSame, PresentKept, ReaderSame
<1> QED
  BY <1>6, <1>7, <1>8, <1>10 DEF IInv

-----------------------------------------------------------------------------
(* The history lane and the readers. *)

(* A write and trimming keep the table sound; what leaves it is too old to keep. *)
LEMMA TableAfter ==
  ASSUME StateType, TableOK, NEW b \in Bar,
         NEW T, T = Trimmed(Replaced(b), b.interval) \/ T = Replaced(b)
  PROVE  /\ IsFiniteSet(T) /\ UniqueIn(T) /\ T \subseteq Bar /\ T \subseteq table \union {b}
         /\ \A i : \A s \in Nat : Outdated(table, i, s) => Outdated(T, i, s)
         /\ \A r \in table \union {b} :
              \/ \E x \in T : Bucket(x) = Bucket(r)
              \/ Outdated(T, r.interval, r.start)
<1>1. table \subseteq Bar /\ IsFiniteSet(table) /\ UniqueIn(table)
  BY DEF StateType, TableOK
<1>2. PICK R : R = Replaced(b)
  OBVIOUS
<1>3. /\ IsFiniteSet(R) /\ R \subseteq Bar /\ UniqueIn(R) /\ R \subseteq table \union {b} /\ b \in R
      /\ \A r \in table : Bucket(r) # Bucket(b) => r \in R
      /\ \A i, s : Outdated(table, i, s) => Outdated(R, i, s)
  BY <1>1, <1>2, ReplaceOutdated
<1>4. \A r \in table \union {b} : \E x \in R : Bucket(x) = Bucket(r)
  BY <1>3
<1>5. CASE T = R
  BY <1>3, <1>4, <1>5
<1>6. CASE T = Trimmed(R, b.interval)
  <2>1. /\ T \subseteq R /\ IsFiniteSet(T)
        /\ \A r \in R : r \notin T => r.interval = b.interval /\ Outdated(R, b.interval, r.start)
        /\ \A i : \A s \in Nat : Outdated(R, i, s) => Outdated(T, i, s)
    BY <1>3, <1>6, TrimOutdated
  <2>2. UniqueIn(T)
    BY <1>3, <2>1 DEF UniqueIn
  <2>3. ASSUME NEW r \in table \union {b}
        PROVE  (\E x \in T : Bucket(x) = Bucket(r)) \/ Outdated(T, r.interval, r.start)
    <3>1. PICK x \in R : Bucket(x) = Bucket(r)
      BY <1>4
    <3>2. CASE x \in T
      BY <3>1, <3>2
    <3>3. CASE x \notin T
      <4>1. x.interval = r.interval /\ x.start = r.start
        BY <3>1 DEF Bucket
      <4>2. x.start \in Nat
        BY <1>3, BarFacts
      <4>3. Outdated(R, x.interval, x.start)
        BY <2>1, <3>3
      <4>4. Outdated(T, x.interval, x.start)
        BY <2>1, <4>2, <4>3
      <4> QED
        BY <4>1, <4>4
    <3> QED
      BY <3>2, <3>3
  <2>4. \A i : \A s \in Nat : Outdated(table, i, s) => Outdated(T, i, s)
    BY <1>3, <2>1
  <2> QED
    BY <1>3, <2>1, <2>2, <2>3, <2>4
<1> QED
  BY <1>2, <1>5, <1>6

(* The history lane writes a row, trims, or fails. *)
LEMMA WriteRowOK ==
  ASSUME IInv, NEW b \in lane, WriteRow(b)
  PROVE  IInv'
<1>1. /\ lane' = lane \ {b}
      /\ UNCHANGED <<reader, clock, forming, apply, closer, sent, trades, closedTo, late>>
  BY DEF WriteRow
<1>2. \/ (table' = Trimmed(Replaced(b), b.interval) \/ table' = Replaced(b)) /\ lost' = lost
      \/ table' = table /\ lost' = lost \union {Bucket(b)}
  BY DEF WriteRow
<1>3. StateType /\ WorkerType /\ TableOK /\ Times /\ FormingOK /\ RowsOK /\ MsgsOK /\ Present /\ ReaderOK
  BY DEF IInv
<1>4. b \in Bar
  BY <1>3 DEF StateType
<1>5. Bucket(b) \in Interval \X Time
  BY <1>4, BarFacts DEF Bucket
<1>6. WorkerType' /\ Times' /\ FormingOK' /\ ReaderOK'
  BY <1>1, <1>3, FormingSame, ReaderSame DEF WorkerType, Times
<1>7. AllMsgs' = AllMsgs
  BY <1>1 DEF AllMsgs
<1>8. MsgsOK'
  BY <1>1, <1>3, <1>7, MsgsKept
<1>9. CASE table' = table /\ lost' = lost \union {Bucket(b)}
  <2>1. StateType' /\ TableOK'
    BY <1>1, <1>3, <1>5, <1>9 DEF StateType, TableOK
  <2>2. AllRows' \subseteq AllRows
    BY <1>1, <1>9 DEF AllRows
  <2>3. \A x \in AllRows : x \in AllRows' \/ Bucket(x) \in lost'
    BY <1>1, <1>9 DEF AllRows
  <2>4. RowsOK' /\ Present'
    BY <1>1, <1>3, <1>9, <2>2, <2>3, RowsKept, PresentKept
  <2> QED
    BY <1>6, <1>8, <2>1, <2>4 DEF IInv
<1>10. CASE (table' = Trimmed(Replaced(b), b.interval) \/ table' = Replaced(b)) /\ lost' = lost
  <2>1. PICK T : T = table'
    OBVIOUS
  <2>2. T = Trimmed(Replaced(b), b.interval) \/ T = Replaced(b)
    BY <1>10, <2>1
  <2>3. /\ IsFiniteSet(T) /\ UniqueIn(T) /\ T \subseteq Bar /\ T \subseteq table \union {b}
        /\ \A i : \A s \in Nat : Outdated(table, i, s) => Outdated(T, i, s)
        /\ \A r \in table \union {b} :
             \/ \E x \in T : Bucket(x) = Bucket(r)
             \/ Outdated(T, r.interval, r.start)
    BY <1>3, <1>4, <2>2, TableAfter
  <2>4. StateType' /\ TableOK'
    BY <1>1, <1>3, <1>10, <2>1, <2>3 DEF StateType, TableOK
  <2>5. AllRows' \subseteq AllRows
    BY <1>1, <2>1, <2>3 DEF AllRows
  <2>6. RowsOK'
    BY <1>1, <1>3, <2>5, RowsKept
  <2>7. Present'
    <3> SUFFICES ASSUME NEW i \in Interval, NEW s \in Time, <<i, s>> \notin late' \union lost',
                        OfBucket(trades', i, s) # {}
                 PROVE  Held(i, s)' \/ Outdated(table', i, s)
      BY DEF Present
    <3>1. Held(i, s) \/ Outdated(table, i, s)
      BY <1>1, <1>3, <1>10 DEF Present
    <3>2. s \in Nat
      BY BarBoundsAssumption DEF Time
    <3>3. CASE \E x \in AllRows : Bucket(x) = <<i, s>>
      <4>1. PICK x \in AllRows : Bucket(x) = <<i, s>>
        BY <3>3
      <4>2. CASE x \in AllRows'
        BY <4>1, <4>2 DEF Held
      <4>3. CASE x \notin AllRows'
        <5>1. x \in table \union {b}
          BY <1>1, <4>3 DEF AllRows
        <5>2. CASE \E y \in T : Bucket(y) = Bucket(x)
          BY <2>1, <4>1, <5>2 DEF Held, AllRows
        <5>3. CASE Outdated(T, x.interval, x.start)
          <6>1. x.interval = i /\ x.start = s
            BY <4>1 DEF Bucket
          <6> QED
            BY <2>1, <5>3, <6>1
        <5> QED
          BY <2>3, <5>1, <5>2, <5>3
      <4> QED
        BY <4>2, <4>3
    <3>4. CASE forming[i] # NoBar /\ Bucket(forming[i]) = <<i, s>>
      BY <1>1, <3>4 DEF Held
    <3>5. CASE Outdated(table, i, s)
      BY <2>1, <2>3, <3>2, <3>5
    <3> QED
      BY <3>1, <3>3, <3>4, <3>5 DEF Held
  <2> QED
    BY <1>6, <1>8, <2>4, <2>6, <2>7 DEF IInv
<1> QED
  BY <1>2, <1>9, <1>10

(* A request reads the history. *)
LEMMA AskOK ==
  ASSUME IInv, NEW i \in Asked, Ask(i)
  PROVE  IInv'
<1>1. /\ reader.pc = "idle"
      /\ reader' \in GetBars([pc |-> "first", interval |-> i, bars |-> <<>>, forming |-> NoBar])
      /\ UNCHANGED <<clock, forming, apply, closer, lane, table, sent, trades, closedTo, late, lost>>
  BY DEF Ask
<1>2. StateType /\ WorkerType /\ TableOK /\ Times /\ FormingOK /\ RowsOK /\ MsgsOK /\ Present /\ ReaderOK
  BY DEF IInv
<1>3. i \in Interval
  BY WidthAssumption
<1>4. PICK h \in load_history(i) :
        reader' = [pc |-> "second", interval |-> i, bars |-> h, forming |-> NoBar]
  BY <1>1 DEF GetBars
<1>5. table \subseteq Bar /\ IsFiniteSet(table) /\ UniqueIn(table)
  BY <1>2 DEF StateType, TableOK
<1>6. /\ h \in Seq(Bar) /\ Len(h) <= Limit /\ Ascends(h)
      /\ \A n \in 1..Len(h) : h[n] \in table /\ h[n].interval = i
  <2>1. CASE h = load_closed_bars(i)
    BY <1>3, <1>5, <2>1, LoadFacts
  <2>2. CASE h = <<>>
    BY <2>2, BarBoundsAssumption DEF Ascends
  <2> QED
    BY <1>4, <2>1, <2>2 DEF load_history
<1>7. \A n \in 1..Len(h) : ClosedBy(trades, closedTo, i, h[n].start)
  <2>1. \A r \in table : ClosedBy(trades, closedTo, r.interval, r.start)
    BY <1>2 DEF RowsOK, AllRows, RowOK
  <2> QED
    BY <1>6, <2>1
<1>8. /\ reader'.pc = "second" /\ reader'.interval = i /\ reader'.bars = h
      /\ reader' \in [pc : {"second"}, interval : Interval, bars : Seq(Bar), forming : {NoBar}]
  BY <1>3, <1>4, <1>6
<1>9. ReaderOK'
  BY <1>1, <1>6, <1>7, <1>8 DEF ReaderOK
<1>10. WorkerType'
  <2>1. /\ apply' \in [pc : {"idle", "lock", "after"}, trade : Trade \union {NoTrade},
                       rows : SUBSET Bar, msgs : Seq(Message)]
        /\ (apply'.pc = "lock" => apply'.trade \in Trade)
        /\ (apply'.pc = "after" => Len(apply'.msgs) > 0) /\ (apply'.pc # "after" => apply'.rows = {})
        /\ closer' \in [pc : {"idle", "lock", "after"}, now : Time, rows : SUBSET Bar, msgs : Seq(Message)]
        /\ (closer'.pc # "after" => closer'.rows = {})
    BY <1>1, <1>2 DEF WorkerType
  <2> QED
    BY <1>8, <2>1 DEF WorkerType
<1>11. StateType' /\ TableOK' /\ Times'
  BY <1>1, <1>2 DEF StateType, TableOK, Times
<1>12. AllRows' = AllRows /\ AllMsgs' = AllMsgs
  BY <1>1 DEF AllRows, AllMsgs
<1>13. RowsOK' /\ MsgsOK' /\ FormingOK' /\ Present'
  BY <1>1, <1>2, <1>12, RowsKept, MsgsKept, FormingSame, PresentKept
<1> QED
  BY <1>9, <1>10, <1>11, <1>13 DEF IInv

(* It is answered. *)
LEMMA AnswerOK ==
  ASSUME IInv, Answer
  PROVE  IInv'
<1>1. /\ reader' = IdleReader
      /\ UNCHANGED <<clock, forming, apply, closer, lane, table, sent, trades, closedTo, late, lost>>
  BY DEF Answer
<1>2. StateType /\ WorkerType /\ TableOK /\ Times /\ FormingOK /\ RowsOK /\ MsgsOK /\ Present /\ ReaderOK
  BY DEF IInv
<1>3. ReaderOK'
  BY <1>1 DEF ReaderOK, IdleReader
<1>4. WorkerType'
  BY <1>1, <1>2 DEF WorkerType
<1>5. StateType' /\ TableOK' /\ Times'
  BY <1>1, <1>2 DEF StateType, TableOK, Times
<1>6. AllRows' = AllRows /\ AllMsgs' = AllMsgs
  BY <1>1 DEF AllRows, AllMsgs
<1>7. RowsOK' /\ MsgsOK' /\ FormingOK' /\ Present'
  BY <1>1, <1>2, <1>6, RowsKept, MsgsKept, FormingSame, PresentKept
<1> QED
  BY <1>3, <1>4, <1>5, <1>7 DEF IInv

(* clear_all: the buckets it cuts off are late. *)
LEMMA ClearOK ==
  ASSUME IInv, Clear
  PROVE  IInv'
<1>1. PICK cut : cut = {Bucket(b) : b \in {forming[i] : i \in Interval} \ {NoBar}}
  OBVIOUS
<1>2. /\ late' = late \union cut /\ lost' = lost \union cut
      /\ forming' = [i \in Interval |-> NoBar]
      /\ UNCHANGED <<clock, apply, closer, lane, table, reader, sent, trades, closedTo>>
  BY <1>1 DEF Clear
<1>3. StateType /\ WorkerType /\ TableOK /\ Times /\ FormingOK /\ RowsOK /\ MsgsOK /\ Present /\ ReaderOK
  BY DEF IInv
<1>4. \A i \in Interval : forming[i] # NoBar => Bucket(forming[i]) \in cut
  BY <1>1
<1>5. cut \subseteq Interval \X Time
  <2>1. \A b \in Bar : Bucket(b) \in Interval \X Time
    BY BarFacts DEF Bucket
  <2>2. \A i \in Interval : forming[i] \in Bar \union {NoBar}
    BY <1>3 DEF StateType
  <2> QED
    BY <1>1, <2>1, <2>2
<1>6. StateType'
  <2>1. forming' \in [Interval -> Bar \union {NoBar}]
    BY <1>2
  <2> QED
    BY <1>2, <1>3, <1>5, <2>1 DEF StateType
<1>7. WorkerType' /\ TableOK' /\ Times'
  BY <1>2, <1>3 DEF WorkerType, TableOK, Times
<1>8. FormingOK'
  <2>1. ASSUME NEW i \in Interval, Len(trades) > 0
        PROVE  \/ BucketStart(trades[Len(trades)].ts, i) < BucketStart(closedTo, i)
               \/ <<i, BucketStart(trades[Len(trades)].ts, i)>> \in late \union cut
    <3>1. PICK f : f = forming[i]
      OBVIOUS
    <3>2. FormingAt(f, i, trades, closedTo, late)
      BY <1>3, <3>1 DEF FormingOK
    <3>3. CASE f = NoBar
      BY <2>1, <3>2, <3>3 DEF FormingAt
    <3>4. CASE f # NoBar
      <4>1. f.interval = i /\ f.start = BucketStart(trades[Len(trades)].ts, i)
        BY <3>2, <3>4 DEF FormingAt
      <4>2. Bucket(f) \in cut
        BY <1>4, <3>1, <3>4
      <4> QED
        BY <4>1, <4>2 DEF Bucket
    <3> QED
      BY <3>3, <3>4
  <2>2. ASSUME NEW i \in Interval
        PROVE  FormingAt(NoBar, i, trades, closedTo, late')
    BY <1>2, <2>1 DEF FormingAt
  <2> QED
    BY <1>2, <2>2 DEF FormingOK
<1>9. closedTo \in Nat /\ closedTo <= closedTo /\ late \subseteq late'
  BY <1>2, <1>3, BarBoundsAssumption DEF StateType, Time
<1>10. AllRows' = AllRows /\ AllMsgs' = AllMsgs
  BY <1>2 DEF AllRows, AllMsgs
<1>11. RowsOK'
  <2>1. ASSUME NEW b \in AllRows
        PROVE  RowOK(b, trades, closedTo, late')
    <3>1. RowOK(b, trades, closedTo, late)
      BY <1>3 DEF RowsOK
    <3> QED
      BY <1>9, <3>1, RowWeaken
  <2> QED
    BY <1>2, <1>10, <2>1 DEF RowsOK
<1>12. MsgsOK'
  <2>1. ASSUME NEW m \in AllMsgs
        PROVE  MsgOK(m, trades, closedTo, late')
    <3>1. MsgOK(m, trades, closedTo, late)
      BY <1>3 DEF MsgsOK
    <3> QED
      BY <1>9, <3>1, MsgWeaken
  <2> QED
    BY <1>2, <1>10, <2>1 DEF MsgsOK
<1>13. ReaderOK'
  BY <1>2, <1>3, ReaderSame
<1>14. Present'
  <2> SUFFICES ASSUME NEW i \in Interval, NEW s \in Time, <<i, s>> \notin late' \union lost',
                      OfBucket(trades', i, s) # {}
               PROVE  Held(i, s)' \/ Outdated(table', i, s)
    BY DEF Present
  <2>1. <<i, s>> \notin late \union lost /\ <<i, s>> \notin cut
    BY <1>2
  <2>2. Held(i, s) \/ Outdated(table, i, s)
    BY <1>2, <1>3, <2>1 DEF Present
  <2>3. CASE \E b \in AllRows : Bucket(b) = <<i, s>>
    BY <1>10, <2>3 DEF Held
  <2>4. ~ (forming[i] # NoBar /\ Bucket(forming[i]) = <<i, s>>)
    BY <1>4, <2>1
  <2>5. CASE Outdated(table, i, s)
    BY <1>2, <2>5
  <2> QED
    BY <2>2, <2>3, <2>4, <2>5 DEF Held
<1> QED
  BY <1>6, <1>7, <1>8, <1>11, <1>12, <1>13, <1>14 DEF IInv

-----------------------------------------------------------------------------
(* The theorems. *)

(* Whatever the order of trades, closer, lane and requests: the rows and the *)
(* messages of a bucket that is not late are its candle, and a bucket that   *)
(* has trades has a bar, or its row was dropped or trimmed.                  *)
THEOREM BarsInvariant == Spec => []IInv
<1>1. Init => IInv
  BY InitOK
<1>2. IInv /\ [Next]_vars => IInv'
  <2> SUFFICES ASSUME IInv, [Next]_vars
               PROVE  IInv'
    OBVIOUS
  <2>1. CASE Tick
    BY <2>1, TickOK
  <2>2. CASE \E p \in Price, v \in Volume : TradeArrives(p, v)
    BY <2>2, TradeArrivesOK
  <2>3. CASE OnTrade
    BY <2>3, OnTradeOK
  <2>4. CASE \E D \in SUBSET apply.rows : PersistRolledOver(D)
    BY <2>4, PersistRolledOverOK
  <2>5. CASE SendTrade
    BY <2>5, SendTradeOK
  <2>6. CASE CloserTick
    BY <2>6, CloserTickOK
  <2>7. CASE CloseExpired
    BY <2>7, CloseExpiredOK
  <2>8. CASE \E b \in closer.rows, D \in SUBSET closer.rows : PersistExpired(b, D)
    BY <2>8, PersistExpiredOK
  <2>9. CASE SendExpired
    BY <2>9, SendExpiredOK
  <2>10. CASE \E b \in lane : WriteRow(b)
    BY <2>10, WriteRowOK
  <2>11. CASE \E i \in Asked : Ask(i)
    BY <2>11, AskOK
  <2>12. CASE Answer
    BY <2>12, AnswerOK
  <2>13. CASE Clear
    BY <2>13, ClearOK
  <2>14. CASE UNCHANGED vars
    <3>1. UNCHANGED <<clock, forming, apply, closer, lane, table, reader, sent, trades, closedTo, late, lost>>
      BY <2>14 DEF vars
    <3>2. StateType /\ WorkerType /\ TableOK /\ Times /\ FormingOK /\ RowsOK /\ MsgsOK /\ Present /\ ReaderOK
      BY DEF IInv
    <3>3. StateType' /\ WorkerType' /\ TableOK' /\ Times'
      BY <3>1, <3>2 DEF StateType, WorkerType, TableOK, Times
    <3>4. AllRows' = AllRows /\ AllMsgs' = AllMsgs
      BY <3>1 DEF AllRows, AllMsgs
    <3>5. RowsOK' /\ MsgsOK' /\ FormingOK' /\ Present' /\ ReaderOK'
      BY <3>1, <3>2, <3>4, RowsKept, MsgsKept, FormingSame, PresentKept, ReaderSame
    <3> QED
      BY <3>3, <3>5 DEF IInv
  <2> QED
    BY <2>1, <2>2, <2>3, <2>4, <2>5, <2>6, <2>7, <2>8, <2>9, <2>10, <2>11, <2>12, <2>13, <2>14
       DEF Next
<1> QED
  BY <1>1, <1>2, PTL DEF Spec

(* Every bar in the hands of a task, in the lane, in the table or forming is *)
(* the candle of its bucket, and there is one.                               *)
LEMMA CopiesAre ==
  ASSUME IInv, NEW i \in Interval, NEW s \in Time, <<i, s>> \notin late \union lost
  PROVE  /\ \A b \in Copies(i, s) : b = Candle(i, s) /\ TradesOf(i, s) # {}
         /\ TradesOf(i, s) # {} => Copies(i, s) # {} \/ Outdated(table, i, s)
<1>1. StateType /\ FormingOK /\ RowsOK /\ Present
  BY DEF IInv
<1>2. trades \in Seq(Trade)
  BY <1>1 DEF StateType
<1>3. ASSUME NEW b \in Copies(i, s)
      PROVE  b = Candle(i, s) /\ TradesOf(i, s) # {}
  <2>1. Bucket(b) = <<i, s>> /\ (b \in AllRows \/ \E j \in Interval : b = forming[j] /\ b # NoBar)
    BY DEF Copies, AllRows
  <2>2. Bucket(b) \notin late
    BY <2>1
  <2>3. b \in Bar /\ IsCandle(b, trades)
    <3>1. CASE b \in AllRows
      BY <1>1, <2>2, <3>1 DEF RowsOK, RowOK
    <3>2. CASE \E j \in Interval : b = forming[j] /\ b # NoBar
      <4>1. PICK j \in Interval : b = forming[j] /\ b # NoBar
        BY <3>2
      <4>2. FormingAt(b, j, trades, closedTo, late)
        BY <1>1, <4>1 DEF FormingOK
      <4> QED
        BY <2>2, <4>1, <4>2 DEF FormingAt
    <3> QED
      BY <2>1, <3>1, <3>2
  <2>4. b = Candle(b.interval, b.start) /\ TradesOf(b.interval, b.start) # {}
    BY <1>2, <2>3, CandleIs
  <2>5. b.interval = i /\ b.start = s
    BY <2>1 DEF Bucket
  <2> QED
    BY <2>4, <2>5
<1>4. ASSUME TradesOf(i, s) # {}
      PROVE  Copies(i, s) # {} \/ Outdated(table, i, s)
  <2>1. OfBucket(trades, i, s) # {}
    BY <1>4 DEF OfBucket, TradesOf
  <2>2. Held(i, s) \/ Outdated(table, i, s)
    BY <1>1, <2>1 DEF Present
  <2>3. CASE \E b \in AllRows : Bucket(b) = <<i, s>>
    BY <2>3 DEF Copies, AllRows
  <2>4. CASE forming[i] # NoBar /\ Bucket(forming[i]) = <<i, s>>
    <3>1. forming[i] \in Copies(i, s)
      BY <2>4 DEF Copies
    <3> QED
      BY <3>1
  <2> QED
    BY <2>2, <2>3, <2>4 DEF Held
<1> QED
  BY <1>3, <1>4

(* No trade is lost or counted twice between on_trade, close_expired and the *)
(* bars table.                                                               *)
THEOREM BarsAreExact == Spec => []BucketsSound
<1>1. IInv => BucketsSound
  <2> SUFFICES ASSUME IInv
               PROVE  TypeOK /\ BarsExact
    BY DEF BucketsSound
  <2>1. StateType /\ WorkerType /\ TableOK /\ FormingOK /\ ReaderOK
    BY DEF IInv
  <2>2. TypeOK
    <3>1. ASSUME NEW i \in Interval
          PROVE  forming[i].interval \in {i, "none"}
      <4>1. FormingAt(forming[i], i, trades, closedTo, late)
        BY <2>1 DEF FormingOK
      <4>2. forming[i] # NoBar => forming[i].interval = i
        BY <4>1 DEF FormingAt
      <4>3. NoBar.interval = "none"
        BY DEF NoBar
      <4> QED
        BY <4>2, <4>3
    <3>2. \A w \in {apply, closer} : w.rows \subseteq Bar /\ w.msgs \in Seq(Message)
      BY <2>1 DEF WorkerType
    <3>3. /\ apply.pc \in {"idle", "lock", "after"} /\ apply.trade \in Trade \union {NoTrade}
          /\ closer.pc \in {"idle", "lock", "after"} /\ closer.now \in Time
      BY <2>1 DEF WorkerType
    <3>4. reader.pc \in {"idle", "first", "second"} /\ reader.bars \in Seq(Bar) /\ Len(reader.bars) <= Limit
      <4>1. CASE reader = IdleReader
        BY <4>1, BarBoundsAssumption DEF IdleReader
      <4>2. CASE reader \in [pc : {"second"}, interval : Interval, bars : Seq(Bar), forming : {NoBar}]
        BY <2>1, <4>2 DEF ReaderOK
      <4> QED
        BY <2>1, <4>1, <4>2 DEF WorkerType
    <3>5. \A a, b \in table : a.interval = b.interval /\ a.start = b.start => a = b
      BY <2>1 DEF TableOK, UniqueIn, Bucket
    <3> QED
      BY <2>1, <3>1, <3>2, <3>3, <3>4, <3>5 DEF TypeOK, StateType
  <2>3. BarsExact
    <3> SUFFICES ASSUME NEW i \in Interval, NEW s \in Starts(i), <<i, s>> \notin late \union lost
                 PROVE  \/ Copies(i, s) = IF TradesOf(i, s) = {} THEN {} ELSE {Candle(i, s)}
                        \/ Copies(i, s) = {} /\ Outdated(table, i, s)
      BY DEF BarsExact
    <3>1. s \in Time
      BY DEF Starts
    <3>2. /\ \A b \in Copies(i, s) : b = Candle(i, s) /\ TradesOf(i, s) # {}
          /\ TradesOf(i, s) # {} => Copies(i, s) # {} \/ Outdated(table, i, s)
      BY <3>1, CopiesAre
    <3> QED
      BY <3>2
  <2> QED
    BY <2>2, <2>3
<1> QED
  BY <1>1, BarsInvariant, PTL

(* bar_closed is the last word on a bucket, although the apply worker and the *)
(* closer send outside the lock.                                              *)
THEOREM ClosedIsFinal == Spec => []ClosedMessageIsFinal
<1>1. IInv => ClosedMessageIsFinal
  <2> SUFFICES ASSUME IInv, NEW c \in sent, NEW m \in sent,
                      c.kind = "bar_closed", c.bar.start = m.bar.start, Bucket(c.bar) \notin late
               PROVE  /\ m.bar.count <= c.bar.count /\ m.bar.vol <= c.bar.vol
                      /\ m.bar.open = c.bar.open /\ m.bar.high <= c.bar.high /\ m.bar.low >= c.bar.low
    BY DEF ClosedMessageIsFinal
  <2>1. StateType /\ MsgsOK
    BY DEF IInv
  <2>2. trades \in Seq(Trade)
    BY <2>1 DEF StateType
  <2>3. MsgOK(c, trades, closedTo, late) /\ MsgOK(m, trades, closedTo, late)
    BY <2>1 DEF MsgsOK, AllMsgs
  <2>4. PICK a, b : a = c.bar /\ b = m.bar
    OBVIOUS
  <2>5. a \in Bar /\ b \in Bar /\ a.interval = Shortest /\ b.interval = Shortest /\ a.start = b.start
    BY <2>3, <2>4 DEF MsgOK, Message
  <2>6. Bucket(a) \notin late /\ Bucket(b) \notin late
    BY <2>4, <2>5 DEF Bucket
  <2>7. IsCandle(a, trades) /\ IsPart(b, trades)
    BY <2>3, <2>4, <2>6 DEF MsgOK, RowOK
  <2>8. PICK N : N = OfBucket(trades, Shortest, a.start)
    OBVIOUS
  <2>9. CandleOf(a, trades, N) /\ PartOf(b, trades, N)
    BY <2>5, <2>7, <2>8 DEF IsCandle, IsPart
  <2>10. N \subseteq 1..Len(trades) /\ Len(trades) \in Nat
    BY <2>2, <2>8 DEF OfBucket
  <2>11. \A n \in N : n \in Nat /\ trades[n].price \in Nat
    BY <2>2, <2>10, TradeFacts
  <2>12. /\ a.high \in Nat /\ a.low \in Nat /\ a.vol \in Nat /\ a.count \in Nat
         /\ b.high \in Nat /\ b.low \in Nat /\ b.vol \in Nat /\ b.count \in Nat
    BY <2>5, BarFacts
  <2>13. b.count <= a.count /\ b.vol <= a.vol
    BY <2>9 DEF CandleOf, PartOf
  <2>14. b.open = a.open
    <3>1. PICK n \in N : IsFirst(N, n) /\ a.open = trades[n].price
      BY <2>9 DEF CandleOf
    <3>2. PICK k \in N : IsFirst(N, k) /\ b.open = trades[k].price
      BY <2>9 DEF PartOf
    <3>3. n <= k /\ k <= n
      BY <3>1, <3>2 DEF IsFirst
    <3>4. n = k
      BY <2>11, <3>3
    <3> QED
      BY <3>1, <3>2, <3>4
  <2>15. b.high <= a.high
    <3>1. PICK n \in N : b.high <= trades[n].price
      BY <2>9 DEF PartOf
    <3>2. trades[n].price <= a.high
      BY <2>9 DEF CandleOf
    <3> QED
      BY <2>11, <2>12, <3>1, <3>2
  <2>16. b.low >= a.low
    <3>1. PICK n \in N : trades[n].price <= b.low
      BY <2>9 DEF PartOf
    <3>2. a.low <= trades[n].price
      BY <2>9 DEF CandleOf
    <3> QED
      BY <2>11, <2>12, <3>1, <3>2
  <2> QED
    BY <2>4, <2>13, <2>14, <2>15, <2>16
<1> QED
  BY <1>1, BarsInvariant, PTL

(* The history and the forming bar of an answer are read apart and still have *)
(* no bucket twice.                                                           *)
THEOREM AnswersAreDisjoint == Spec => []NoBucketTwice
<1>1. IInv => NoBucketTwice
  <2> SUFFICES ASSUME IInv, reader.pc = "second", NEW a \in GetBars(reader)
               PROVE  /\ \A n \in 1..(Len(a.bars) - 1) : a.bars[n].start < a.bars[n + 1].start
                      /\ (a.forming # NoBar /\ a.bars # <<>>) =>
                           Last(a.bars).start < a.forming.start \/ Bucket(a.forming) \in late
    BY DEF NoBucketTwice
  <2>1. StateType /\ WorkerType /\ FormingOK /\ ReaderOK
    BY DEF IInv
  <2>2. reader \in [pc : {"second"}, interval : Interval, bars : Seq(Bar), forming : {NoBar}]
    BY <2>1 DEF WorkerType, IdleReader
  <2>3. PICK i \in Interval, q \in Seq(Bar), f \in Bar \union {NoBar} :
          i = reader.interval /\ q = reader.bars /\ f = forming[i]
    BY <2>1, <2>2 DEF StateType
  <2>4. a.bars = q /\ a.forming = f
    BY <2>2, <2>3 DEF GetBars, forming_interval
  <2>5. Ascends(q) /\ \A n \in 1..Len(q) : ClosedBy(trades, closedTo, i, q[n].start)
    BY <2>1, <2>3 DEF ReaderOK
  <2>6. ASSUME f # NoBar, q # <<>>
        PROVE  Last(q).start < f.start \/ Bucket(f) \in late
    <3>1. FormingAt(f, i, trades, closedTo, late)
      BY <2>1, <2>3 DEF FormingOK
    <3>2. /\ f \in Bar /\ Len(trades) > 0 /\ f.start = BucketStart(trades[Len(trades)].ts, i)
          /\ (f.start < BucketStart(closedTo, i) => Bucket(f) \in late)
      BY <2>6, <3>1 DEF FormingAt
    <3>3. PICK b \in Bar : b = Last(q) /\ b = q[Len(q)] /\ Len(q) \in 1..Len(q)
      BY <2>6 DEF Last
    <3>4. ClosedBy(trades, closedTo, i, b.start)
      BY <2>5, <3>3
    <3>5. b.start \in Nat /\ f.start \in Nat /\ BucketStart(closedTo, i) \in Nat
      <4>1. closedTo \in Nat
        BY <2>1, BarBoundsAssumption DEF StateType, Time
      <4> QED
        BY <3>2, <4>1, BarFacts, BucketFacts
    <3>6. b.start < f.start \/ b.start < BucketStart(closedTo, i)
      BY <3>2, <3>4 DEF ClosedBy
    <3> QED
      BY <3>2, <3>3, <3>5, <3>6
  <2> QED
    BY <2>4, <2>5, <2>6 DEF Ascends
<1> QED
  BY <1>1, BarsInvariant, PTL
=============================================================================
