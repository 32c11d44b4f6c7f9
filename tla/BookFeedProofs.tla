--------------------------- MODULE BookFeedProofs ---------------------------
(***************************************************************************)
(* A client of the orderbook feed is never fooled, and is current once     *)
(* everything has arrived, for every set of prices, depth, channel         *)
(* capacity and number of changes.                                         *)
(*                                                                         *)
(* The argument: a sequence number names one book for ever, because it is  *)
(* taken under the lock that protects the book; so a delta or a snapshot   *)
(* that was right about its number when it was made is right about it for  *)
(* ever, however late and in whatever order it arrives.                    *)
(***************************************************************************)
EXTENDS BookFeed, TLAPS

(* Delta d is what separates the book of its number from the one before, in *)
(* the record h of the books up to number m.                                *)
TrueDelta(d, m, h) ==
  /\ d.n > 0 /\ d.n <= m
  /\ h[d.n] = [h[d.n - 1] EXCEPT ![d.price] = d.size]

(* A snapshot, or the client's view, is right about the book of its number. *)
TrueView(s, m, h) ==
  /\ s.n <= m
  /\ \A p \in Price : s.bids[p] = IF p \in s.known THEN h[s.n][p] ELSE 0

TrueMessage(x, m, h) ==
  \/ x \in Delta /\ TrueDelta(x, m, h)
  \/ x \in Snapshot /\ TrueView(x, m, h)

(* The current book is the one recorded for the current number. *)
Recorded == past[seq] = levels

HandTrue == \A w \in Publisher : hand[w] # NoDelta => TrueDelta(hand[w], seq, past)

ChanTrue == \A i \in 1..Len(chan) : TrueDelta(chan[i], seq, past)

OutTrue == \A i \in 1..Len(out) : TrueMessage(out[i], seq, past)

ClientTrue == client.has /\ ~ client.gap => TrueView(client, seq, past)

IInv == TypeOK /\ Recorded /\ HandTrue /\ ChanTrue /\ OutTrue /\ ClientTrue

-----------------------------------------------------------------------------
(* The initial state satisfies the inductive invariant. *)
LEMMA InitIInv == Init => IInv
<1> SUFFICES ASSUME Init PROVE IInv
  OBVIOUS
<1>1. EmptyBook \in Book
  BY FeedBoundsAssumption DEF EmptyBook, Book, Size
<1>2. TypeOK
  BY <1>1, FeedBoundsAssumption
  DEF Init, TypeOK, Number, Publisher, Slot, Task, NoTask, Client
<1>3. Recorded /\ HandTrue /\ ChanTrue /\ OutTrue /\ ClientTrue
  BY FeedBoundsAssumption
  DEF Init, Recorded, HandTrue, ChanTrue, OutTrue, ClientTrue, Number, Publisher
<1> QED
  BY <1>2, <1>3 DEF IInv

(* A record of the books that grows. *)
Grows(m, h, m2, h2) ==
  /\ m \in Number /\ m2 \in Number /\ m <= m2
  /\ \A n \in Number : n <= m => h2[n] = h[n]

(* What was right about its number stays right. *)
LEMMA DeltaStays ==
  ASSUME NEW m, NEW h, NEW m2, NEW h2, Grows(m, h, m2, h2), NEW d \in Delta, TrueDelta(d, m, h)
  PROVE  TrueDelta(d, m2, h2)
<1>1. d.n \in Number /\ d.n - 1 \in Number /\ d.n <= m /\ d.n - 1 <= m
  BY FeedBoundsAssumption DEF Grows, TrueDelta, Delta, Number
<1>2. h2[d.n] = h[d.n] /\ h2[d.n - 1] = h[d.n - 1]
  BY <1>1 DEF Grows
<1>3. d.n <= m2
  BY <1>1, FeedBoundsAssumption DEF Grows, Number
<1> QED
  BY <1>2, <1>3 DEF TrueDelta

(* The same for a snapshot or a view. *)
LEMMA ViewStays ==
  ASSUME NEW m, NEW h, NEW m2, NEW h2, Grows(m, h, m2, h2), NEW s, s.n \in Number, TrueView(s, m, h)
  PROVE  TrueView(s, m2, h2)
<1>1. h2[s.n] = h[s.n]
  BY DEF Grows, TrueView
<1>2. s.n <= m2
  BY FeedBoundsAssumption DEF Grows, TrueView, Number
<1> QED
  BY <1>1, <1>2 DEF TrueView

(* The same for a message in the outbound queue. *)
LEMMA MessageStays ==
  ASSUME NEW m, NEW h, NEW m2, NEW h2, Grows(m, h, m2, h2), NEW x, TrueMessage(x, m, h)
  PROVE  TrueMessage(x, m2, h2)
<1>1. CASE x \in Delta /\ TrueDelta(x, m, h)
  BY <1>1, DeltaStays DEF TrueMessage
<1>2. CASE x \in Snapshot /\ TrueView(x, m, h)
  <2>1. x.n \in Number
    BY <1>2 DEF Snapshot
  <2> QED
    BY <1>2, <2>1, ViewStays DEF TrueMessage
<1> QED
  BY <1>1, <1>2 DEF TrueMessage

(* Taking the next number only adds to the record. *)
LEMMA StepGrows ==
  ASSUME IInv, NEW b \in Book, Step(b)
  PROVE  /\ seq' = seq + 1 /\ seq' \in Number /\ levels' = b
         /\ past' \in [Number -> Book]
         /\ past'[seq'] = b
         /\ Grows(seq, past, seq', past')
  BY FeedBoundsAssumption DEF IInv, TypeOK, Step, Number, Grows

(* A change of the book leaves everything that is on its way right. *)
LEMMA StepKeepsRest ==
  ASSUME IInv, NEW b \in Book, Step(b)
  PROVE  /\ Recorded'
         /\ \A w \in Publisher : hand[w] # NoDelta => TrueDelta(hand[w], seq', past')
         /\ chan' = chan => ChanTrue'
         /\ out' = out => OutTrue'
         /\ client' = client => ClientTrue'
<1>1. Recorded'
  BY StepGrows DEF Recorded
<1>2. ASSUME NEW w \in Publisher, hand[w] # NoDelta PROVE TrueDelta(hand[w], seq', past')
  <2>1. hand[w] \in Delta /\ TrueDelta(hand[w], seq, past)
    BY <1>2 DEF IInv, TypeOK, HandTrue
  <2> QED
    BY <2>1, DeltaStays, StepGrows
<1>3. ASSUME chan' = chan PROVE ChanTrue'
  <2>1. ASSUME NEW i \in 1..Len(chan) PROVE TrueDelta(chan[i], seq', past')
    <3>1. chan[i] \in Delta /\ TrueDelta(chan[i], seq, past)
      BY <2>1 DEF IInv, TypeOK, ChanTrue
    <3> QED
      BY <3>1, DeltaStays, StepGrows
  <2> QED
    BY <1>3, <2>1 DEF ChanTrue
<1>4. ASSUME out' = out PROVE OutTrue'
  <2>1. ASSUME NEW i \in 1..Len(out) PROVE TrueMessage(out[i], seq', past')
    BY <2>1, MessageStays, StepGrows DEF IInv, OutTrue
  <2> QED
    BY <1>4, <2>1 DEF OutTrue
<1>5. ASSUME client' = client PROVE ClientTrue'
  <2>1. client.n \in Number
    BY DEF IInv, TypeOK, Client
  <2>2. ASSUME client.has, ~ client.gap PROVE TrueView(client, seq', past')
    BY <2>1, <2>2, ViewStays, StepGrows DEF IInv, ClientTrue
  <2> QED
    BY <1>5, <2>2 DEF ClientTrue
<1> QED
  BY <1>1, <1>2, <1>3, <1>4, <1>5

(* A snapshot of the current book is right about the current number. *)
LEMMA SnapshotTrue ==
  ASSUME IInv
  PROVE  SnapshotOf(levels, seq) \in Snapshot /\ TrueView(SnapshotOf(levels, seq), seq, past)
<1>1. levels \in Book /\ seq \in Number /\ past[seq] = levels
  BY DEF IInv, TypeOK, Recorded
<1> DEFINE K == {p \in Price : Shown(levels, p)}
           B == [p \in Price |-> IF Shown(levels, p) THEN levels[p] ELSE 0]
<1>2. B \in Book
  BY <1>1, FeedBoundsAssumption DEF Book, Size
<1>3. SnapshotOf(levels, seq) = [kind |-> "snapshot", n |-> seq, known |-> K, bids |-> B]
  BY DEF SnapshotOf
<1>4. \A p \in Price : B[p] = IF p \in K THEN levels[p] ELSE 0
  OBVIOUS
<1>5. K \in SUBSET Price
  OBVIOUS
<1> HIDE DEF K, B
<1>6. SnapshotOf(levels, seq) \in Snapshot
  BY <1>1, <1>2, <1>3, <1>5 DEF Snapshot
<1>7. TrueView(SnapshotOf(levels, seq), seq, past)
  BY <1>1, <1>3, <1>4, FeedBoundsAssumption DEF TrueView, Number
<1> QED
  BY <1>6, <1>7

(* A client that takes a true snapshot has a true view. *)
LEMMA TakeSnapshotTrue ==
  ASSUME NEW m, NEW h, NEW s \in Snapshot, TrueView(s, m, h)
  PROVE  TakeSnapshot(s) \in Client /\ TrueView(TakeSnapshot(s), m, h)
  BY DEF TakeSnapshot, Client, Snapshot, TrueView

(* A client that takes a true delta has a true view, or notices a gap. *)
LEMMA TakeDeltaTrue ==
  ASSUME NEW m, NEW h \in [Number -> Book], NEW c \in Client, NEW d \in Delta,
         TrueDelta(d, m, h), c.has /\ ~ c.gap => TrueView(c, m, h)
  PROVE  /\ TakeDelta(c, d) \in Client
         /\ TakeDelta(c, d).has /\ ~ TakeDelta(c, d).gap => TrueView(TakeDelta(c, d), m, h)
<1>1. CASE ~ c.has \/ c.gap \/ d.n <= c.n
  BY <1>1 DEF TakeDelta
<1>2. CASE c.has /\ ~ c.gap /\ ~(d.n <= c.n) /\ d.n = c.n + 1
  <2> DEFINE e == [c EXCEPT !.n = d.n, !.known = @ \union {d.price},
                            !.bids = [@ EXCEPT ![d.price] = d.size]]
  <2>1. TakeDelta(c, d) = e
    BY <1>2 DEF TakeDelta
  <2>2. e \in Client
    BY DEF Client, Delta, Book
  <2>3. /\ e.n = d.n /\ e.known = c.known \union {d.price}
        /\ e.bids = [c.bids EXCEPT ![d.price] = d.size]
    BY DEF Client
  <2> HIDE DEF e
  <2>4. d.n - 1 = c.n /\ c.n \in Number /\ d.n \in Number /\ d.price \in Price
    BY <1>2, FeedBoundsAssumption DEF Client, Delta, Number
  <2>5. h[c.n] \in [Price -> Size] /\ c.bids \in [Price -> Size]
    BY <2>4 DEF Client, Book
  <2>6. h[d.n] = [h[c.n] EXCEPT ![d.price] = d.size]
    BY <2>4 DEF TrueDelta
  <2>7. \A p \in Price : c.bids[p] = IF p \in c.known THEN h[c.n][p] ELSE 0
    BY <1>2 DEF TrueView
  <2>8. ASSUME NEW p \in Price PROVE e.bids[p] = IF p \in e.known THEN h[e.n][p] ELSE 0
    BY <2>3, <2>4, <2>5, <2>6, <2>7
  <2>9. TrueView(e, m, h)
    BY <2>3, <2>8 DEF TrueView, TrueDelta
  <2> QED
    BY <2>1, <2>2, <2>9
<1>3. CASE c.has /\ ~ c.gap /\ ~(d.n <= c.n) /\ d.n # c.n + 1
  <2>1. TakeDelta(c, d) = [c EXCEPT !.gap = TRUE]
    BY <1>3 DEF TakeDelta
  <2> QED
    BY <2>1 DEF Client
<1> QED
  BY <1>1, <1>2, <1>3 DEF Client

-----------------------------------------------------------------------------
(* An action that takes a number and hands nothing to a publisher. *)
LEMMA SilentStep ==
  ASSUME IInv, NEW b \in Book, HydrateTo(b), UNCHANGED <<hand, chan, task, out, client>>,
         loop' \in {"idle", "rehydrated", "snapped"}
  PROVE  IInv'
<1>0. Step(b) /\ silent' = silent \union {seq + 1}
  BY DEF HydrateTo
<1>1. TypeOK'
  BY <1>0, StepGrows DEF IInv, TypeOK
<1>2. HandTrue'
  BY <1>0, StepKeepsRest DEF HandTrue
<1> QED
  BY <1>0, <1>1, <1>2, StepKeepsRest DEF IInv

(* An action that leaves the book alone keeps what is not touched right. *)
LEMMA SameBook ==
  ASSUME IInv, UNCHANGED <<levels, seq, past>>
  PROVE  /\ Recorded'
         /\ hand' = hand => HandTrue'
         /\ chan' = chan => ChanTrue'
         /\ out' = out => OutTrue'
         /\ client' = client => ClientTrue'
  BY DEF IInv, Recorded, HandTrue, ChanTrue, OutTrue, ClientTrue

(* Appending a true message keeps the outbound queue true. *)
LEMMA OutAppend ==
  ASSUME IInv, NEW x \in Delta \union Snapshot, TrueMessage(x, seq, past), out' = Append(out, x),
         UNCHANGED <<seq, past>>
  PROVE  OutTrue' /\ out' \in Seq(Delta \union Snapshot)
<1>1. out \in Seq(Delta \union Snapshot)
  BY DEF IInv, TypeOK
<1>2. out' \in Seq(Delta \union Snapshot) /\ Len(out') = Len(out) + 1
  BY <1>1
<1>3. ASSUME NEW i \in 1..Len(out') PROVE TrueMessage(out'[i], seq, past)
  <2>1. CASE i = Len(out) + 1
    BY <1>1, <2>1
  <2>2. CASE i # Len(out) + 1
    <3>1. i \in 1..Len(out) /\ out'[i] = out[i]
      BY <1>1, <1>2, <2>2
    <3> QED
      BY <3>1 DEF IInv, OutTrue
  <2> QED
    BY <2>1, <2>2
<1> QED
  BY <1>2, <1>3 DEF OutTrue

(* Every step keeps the inductive invariant. *)
LEMMA NextIInv == IInv /\ [Next]_vars => IInv'
<1> SUFFICES ASSUME IInv, [Next]_vars PROVE IInv'
  OBVIOUS
<1>t. TypeOK
  BY DEF IInv
<1>1. ASSUME NEW w \in Publisher, NEW p \in Price, NEW v \in Size, Change(w, p, v) PROVE IInv'
  <2> DEFINE b == [levels EXCEPT ![p] = v]
             d == LevelDelta(p, v)
  <2>1. b \in Book
    BY <1>t DEF TypeOK, Book
  <2>2. Step(b) /\ hand' = [hand EXCEPT ![w] = d]
    BY <1>1 DEF Change
  <2>3. d = [kind |-> "delta", n |-> seq', price |-> p, size |-> v]
    BY <2>1, <2>2, StepGrows DEF LevelDelta
  <2>4. d \in Delta
    BY <2>1, <2>2, <2>3, StepGrows DEF Delta
  <2>5. past'[seq'] = b /\ past'[seq] = levels /\ seq' = seq + 1 /\ seq \in Nat
    BY <1>t, <2>1, <2>2, StepGrows, FeedBoundsAssumption DEF IInv, TypeOK, Grows, Recorded, Number
  <2>6. TrueDelta(d, seq', past')
    BY <2>3, <2>5 DEF TrueDelta
  <2> HIDE DEF b, d
  <2>7. hand' \in [Publisher -> Delta \union {NoDelta}]
    BY <1>t, <2>2, <2>4 DEF TypeOK
  <2>8. TypeOK'
    BY <1>1, <1>t, <2>1, <2>2, <2>7, StepGrows DEF TypeOK, Change
  <2>9. HandTrue'
    <3>1. ASSUME NEW u \in Publisher, hand'[u] # NoDelta PROVE TrueDelta(hand'[u], seq', past')
      BY <3>1, <1>t, <2>1, <2>2, <2>6, StepKeepsRest DEF TypeOK
    <3> QED
      BY <3>1 DEF HandTrue
  <2> QED
    BY <1>1, <2>1, <2>2, <2>8, <2>9, StepKeepsRest DEF IInv, Change
<1>2. ASSUME NEW p \in Price, NEW v \in Size, ChangeQuietly(p, v) PROVE IInv'
  <2>1. [levels EXCEPT ![p] = v] \in Book
    BY <1>t DEF TypeOK, Book
  <2> QED
    BY <1>2, <1>t, <2>1, SilentStep DEF ChangeQuietly, HydrateTo, TypeOK
<1>3. ASSUME NEW b \in Book, Hydrate(b) PROVE IInv'
  BY <1>3, <1>t, SilentStep DEF Hydrate, TypeOK
<1>4. ASSUME NEW b \in Book, WsRehydrate(b) PROVE IInv'
  BY <1>4, SilentStep DEF WsRehydrate
<1>5. ASSUME NEW w \in Publisher, Publish(w) PROVE IInv'
  <2>1. hand[w] \in Delta /\ TrueDelta(hand[w], seq, past)
    BY <1>5, <1>t DEF Publish, TypeOK, IInv, HandTrue
  <2>2. chan \in Seq(Delta) /\ chan' = Append(chan, hand[w])
    BY <1>5, <1>t DEF Publish, TypeOK
  <2>3. chan' \in Seq(Delta) /\ Len(chan') = Len(chan) + 1
    BY <2>1, <2>2
  <2>4. hand' \in [Publisher -> Delta \union {NoDelta}]
    BY <1>5, <1>t DEF Publish, TypeOK
  <2>5. TypeOK'
    BY <1>5, <1>t, <2>3, <2>4 DEF Publish, TypeOK
  <2>6. HandTrue'
    BY <1>5, <1>t DEF Publish, TypeOK, IInv, HandTrue
  <2>7. ChanTrue'
    <3>1. ASSUME NEW i \in 1..Len(chan') PROVE TrueDelta(chan'[i], seq, past)
      <4>1. CASE i = Len(chan) + 1
        BY <2>1, <2>2, <4>1
      <4>2. CASE i # Len(chan) + 1
        <5>1. i \in 1..Len(chan) /\ chan'[i] = chan[i]
          BY <2>2, <2>3, <4>2
        <5> QED
          BY <5>1 DEF IInv, ChanTrue
      <4> QED
        BY <4>1, <4>2
    <3> QED
      BY <1>5, <3>1 DEF ChanTrue, Publish
  <2> QED
    BY <1>5, <2>5, <2>6, <2>7, SameBook DEF IInv, Publish
<1>6. CASE WsSnapshot
  <2>1. SnapshotOf(levels, seq) \in Snapshot /\ TrueView(SnapshotOf(levels, seq), seq, past)
    BY SnapshotTrue
  <2>2. client' \in Client /\ TrueView(client', seq, past)
    BY <1>6, <2>1, TakeSnapshotTrue DEF WsSnapshot
  <2>3. TypeOK' /\ ClientTrue'
    BY <1>6, <1>t, <2>2 DEF WsSnapshot, TypeOK, ClientTrue
  <2> QED
    BY <1>6, <2>3, SameBook DEF IInv, WsSnapshot
<1>7. CASE WsSubscribe
  <2>1. task' \in [Slot -> Task]
    BY <1>7, <1>t DEF WsSubscribe, TypeOK, Aborted, Slot, Task
  <2>2. TypeOK'
    BY <1>7, <1>t, <2>1 DEF WsSubscribe, TypeOK
  <2> QED
    BY <1>7, <2>2, SameBook DEF IInv, WsSubscribe
<1>8. CASE WsUnsubscribe
  <2>1. task' \in [Slot -> Task]
    BY <1>8, <1>t DEF WsUnsubscribe, TypeOK, Aborted, Slot, Task, NoTask
  <2>2. TypeOK'
    BY <1>8, <1>t, <2>1 DEF WsUnsubscribe, TypeOK
  <2> QED
    BY <1>8, <2>2, SameBook DEF IInv, WsUnsubscribe
<1>9. CASE Drain
  <2> DEFINE x == Head(out)
  <2>1. out \in Seq(Delta \union Snapshot) /\ out # <<>> /\ out' = Tail(out)
    BY <1>9, <1>t DEF Drain, TypeOK
  <2>2. x = out[1] /\ 1 \in 1..Len(out)
    BY <2>1
  <2>3. TrueMessage(x, seq, past)
    BY <2>2 DEF IInv, OutTrue
  <2>4. client \in Client /\ past \in [Number -> Book] /\ (client.has /\ ~ client.gap => TrueView(client, seq, past))
    BY <1>t DEF TypeOK, IInv, ClientTrue
  <2> HIDE DEF x
  <2>5. client' \in Client /\ (client'.has /\ ~ client'.gap => TrueView(client', seq, past))
    <3>1. CASE x \in Delta /\ TrueDelta(x, seq, past)
      <4>1. x.kind # "snapshot"
        BY <3>1 DEF Delta
      <4>2. client' = TakeDelta(client, x)
        BY <1>9, <4>1 DEF Drain, x
      <4> QED
        BY <3>1, <4>2, <2>4, TakeDeltaTrue
    <3>2. CASE x \in Snapshot /\ TrueView(x, seq, past)
      <4>1. x.kind = "snapshot"
        BY <3>2 DEF Snapshot
      <4>2. client' = TakeSnapshot(x)
        BY <1>9, <4>1 DEF Drain, x
      <4> QED
        BY <3>2, <4>2, TakeSnapshotTrue
    <3> QED
      BY <2>3, <3>1, <3>2 DEF TrueMessage
  <2>6. /\ out' \in Seq(Delta \union Snapshot)
        /\ \A i \in 1..Len(out') : i + 1 \in 1..Len(out) /\ out'[i] = out[i + 1]
    BY <2>1
  <2>7. OutTrue'
    <3>1. ASSUME NEW i \in 1..Len(out') PROVE TrueMessage(out'[i], seq, past)
      BY <2>6 DEF IInv, OutTrue
    <3> QED
      BY <1>9, <3>1 DEF OutTrue, Drain
  <2>8. TypeOK'
    BY <1>9, <1>t, <2>5, <2>6 DEF Drain, TypeOK
  <2>9. ClientTrue'
    BY <1>9, <2>5 DEF ClientTrue, Drain
  <2> QED
    BY <1>9, <2>7, <2>8, <2>9, SameBook DEF IInv, Drain
<1>10. ASSUME NEW t \in Slot, Forward(t) PROVE IInv'
  <2>1. task[t] \in Task /\ chan \in Seq(Delta)
    BY <1>t DEF TypeOK
  <2>2. task[t].pos + 1 \in 1..Len(chan)
    BY <1>10, <2>1 DEF Forward, Behind, Task
  <2> DEFINE x == chan[task[t].pos + 1]
  <2>3. x \in Delta /\ TrueDelta(x, seq, past)
    BY <2>1, <2>2 DEF IInv, ChanTrue
  <2>4. out' = Append(out, x) /\ UNCHANGED <<seq, past>>
    BY <1>10 DEF Forward
  <2> HIDE DEF x
  <2>5. OutTrue' /\ out' \in Seq(Delta \union Snapshot)
    BY <2>3, <2>4, OutAppend DEF TrueMessage
  <2>6. task' \in [Slot -> Task]
    <3>1. task[t].pos + 1 \in Nat
      BY <2>1 DEF Task
    <3>2. task' = [task EXCEPT ![t] = [task[t] EXCEPT !.pos = task[t].pos + 1]]
      BY <1>10 DEF Forward
    <3>3. [task[t] EXCEPT !.pos = task[t].pos + 1] \in Task
      BY <2>1, <3>1 DEF Task
    <3> QED
      BY <1>t, <3>2, <3>3 DEF TypeOK
  <2>7. TypeOK'
    BY <1>10, <1>t, <2>5, <2>6 DEF Forward, TypeOK
  <2> QED
    BY <1>10, <2>5, <2>7, SameBook DEF IInv, Forward
<1>11. ASSUME NEW t \in Slot, Lag(t) PROVE IInv'
  <2>1. task[t] \in Task /\ Len(chan) \in Nat
    BY <1>t DEF TypeOK
  <2>2. Len(chan) - Cap \in Nat
    BY <1>11, <2>1, FeedBoundsAssumption DEF Lag, Behind, Task
  <2>3. task' \in [Slot -> Task]
    BY <1>11, <1>t, <2>1, <2>2 DEF Lag, TypeOK, Task
  <2>4. TypeOK'
    BY <1>11, <1>t, <2>3 DEF Lag, TypeOK
  <2> QED
    BY <1>11, <2>4, SameBook DEF IInv, Lag
<1>12. ASSUME NEW t \in Slot, Resync(t) PROVE IInv'
  <2>1. SnapshotOf(levels, seq) \in Snapshot /\ TrueView(SnapshotOf(levels, seq), seq, past)
    BY SnapshotTrue
  <2>2. OutTrue' /\ out' \in Seq(Delta \union Snapshot)
    BY <1>12, <2>1, OutAppend DEF TrueMessage, Resync
  <2>3. task' \in [Slot -> Task]
    BY <1>12, <1>t DEF Resync, TypeOK, Task
  <2>4. TypeOK'
    BY <1>12, <1>t, <2>2, <2>3 DEF Resync, TypeOK
  <2> QED
    BY <1>12, <2>2, <2>4, SameBook DEF IInv, Resync
<1>13. CASE TaskEnds
  <2>1. task' \in [Slot -> Task]
    BY <1>13, <1>t DEF TaskEnds, TypeOK, Slot, Task, NoTask
  <2>2. TypeOK'
    BY <1>13, <1>t, <2>1 DEF TaskEnds, TypeOK
  <2> QED
    BY <1>13, <2>2, SameBook DEF IInv, TaskEnds
<1>14. CASE UNCHANGED vars
  <2>1. TypeOK'
    BY <1>14, <1>t DEF TypeOK, vars
  <2> QED
    BY <1>14, <2>1, SameBook DEF IInv, vars
<1> QED
  BY <1>1, <1>2, <1>3, <1>4, <1>5, <1>6, <1>7, <1>8, <1>9, <1>10, <1>11, <1>12, <1>13, <1>14 DEF Next

-----------------------------------------------------------------------------
(* The variables of the feed keep their types (books.rs, session.rs), for   *)
(* every set of prices, capacity and depth.                                 *)
THEOREM FeedTypeCorrect == Spec => []TypeOK
<1>1. IInv => TypeOK
  BY DEF IInv
<1> QED
  BY <1>1, InitIInv, NextIInv, PTL DEF Spec

(* A client that goes by the sequence numbers of books.rs and has noticed   *)
(* no gap has exactly the server's book of its number, on the levels it was *)
(* told about.                                                              *)
THEOREM ClientIsNeverFooled == Spec => []ViewExact
<1>1. IInv => ViewExact
  BY DEF IInv, ClientTrue, TrueView, ViewExact
<1> QED
  BY <1>1, InitIInv, NextIInv, PTL DEF Spec

-----------------------------------------------------------------------------
(***************************************************************************)
(* Once everything has arrived the client is current.  The invariant       *)
(* follows what is still on its way: numbers, positions, and what the      *)
(* client will hold when the outbound queue is empty.                      *)
(***************************************************************************)

(* A publisher has yet to publish number n. *)
InHand(n) == \E w \in Publisher : hand[w] # NoDelta /\ hand[w].n = n

InChannel(n) == \E i \in 1..Len(chan) : chan[i].n = n

(* No number is forgotten: nobody publishes it, or somebody will, or it was published. *)
Accounted == \A n \in 1..seq : n \in silent \/ InHand(n) \/ InChannel(n)

(* No receiver is ahead of the channel. *)
Positions == \A t \in Slot : task[t].pos <= Len(chan) /\ task[t].start <= Len(chan)

(* The client's number is not ahead of the book's and not behind its last snapshot. *)
ClientNumber == client.base <= client.n /\ client.n <= seq

(* Where the current subscription starts; without one, the next would start at the end. *)
From == IF task["current"].on THEN task["current"].start ELSE Len(chan)

(* Numbers that will have been published after a larger one. *)
Late == {n \in Number : InHand(n) /\ \E i \in 1..Len(chan) : chan[i].n > n}

(* Numbers the client may have to miss. *)
Exempt == silent \union PublishedBefore(From) \union Swapped \union Late

Broken(b) == \E n \in b + 1 .. seq : n \in Exempt

(* Position k is that of the last snapshot in the outbound queue; 0 when there is none. *)
LastSnapshot(k) ==
  /\ k \in 0..Len(out)
  /\ k > 0 => out[k] \in Snapshot
  /\ \A i \in k + 1 .. Len(out) : out[i] \in Delta

(* The client as of that snapshot. *)
ViewAt(k) == IF k = 0 THEN client ELSE TakeSnapshot(out[k])

Queued(k, i, n) == \E j \in k + 1 .. i : out[j].n = n

(* No queued delta will show a gap to a client at number c. *)
Linked(k, c) ==
  \A i \in k + 1 .. Len(out) : \A m \in Number : c < m /\ m < out[i].n => Queued(k, i - 1, m)

(* The client has, or will get, what a task has taken since the subscription. *)
Reached(k, c) ==
  \A t \in Slot : task[t].on /\ ~ task[t].lagged =>
    \A i \in From + 1 .. task[t].pos : chan[i].n <= c \/ Queued(k, Len(out), chan[i].n)

Arriving(k, c) ==
  c.has /\ ~ Broken(c.base) => ~ c.gap /\ Linked(k, c.n) /\ Reached(k, c.n)

Eventual == \A k \in 0..Len(out) : LastSnapshot(k) => Arriving(k, ViewAt(k))

Settling == IInv /\ Accounted /\ Positions /\ ClientNumber /\ Eventual

(* The constants of the arithmetic below. *)
LEMMA FeedNumbers ==
  ASSUME IInv
  PROVE  /\ Number \subseteq Nat /\ seq \in Nat /\ seq \in Number
         /\ Len(chan) \in Nat /\ Len(out) \in Nat
         /\ client \in Client /\ client.n \in Nat /\ client.base \in Nat
         /\ \A i \in 1..Len(chan) : chan[i] \in Delta /\ chan[i].n \in Number /\ chan[i].n <= seq
         /\ \A i \in 1..Len(out) :
              /\ out[i] \in Delta \union Snapshot
              /\ out[i].n \in Number /\ out[i].n <= seq
         /\ \A t \in Slot : task[t] \in Task
         /\ \A w \in Publisher : hand[w] # NoDelta => hand[w] \in Delta /\ hand[w].n \in Number
<1>1. TypeOK
  BY DEF IInv
<1>2. Number \subseteq Nat /\ seq \in Number
  BY <1>1, FeedBoundsAssumption DEF TypeOK, Number
<1>3. client \in Client /\ client.n \in Number /\ client.base \in Number
  BY <1>1 DEF TypeOK, Client
<1>4. Len(chan) \in Nat /\ Len(out) \in Nat
  BY <1>1 DEF TypeOK
<1>5. ASSUME NEW i \in 1..Len(chan) PROVE chan[i] \in Delta /\ chan[i].n \in Number /\ chan[i].n <= seq
  <2>1. chan[i] \in Delta
    BY <1>1 DEF TypeOK
  <2> QED
    BY <2>1 DEF IInv, ChanTrue, TrueDelta, Delta
<1>6. ASSUME NEW i \in 1..Len(out)
      PROVE  out[i] \in Delta \union Snapshot /\ out[i].n \in Number /\ out[i].n <= seq
  <2>1. out[i] \in Delta \union Snapshot
    BY <1>1 DEF TypeOK
  <2>2. out[i].n \in Number
    BY <2>1 DEF Delta, Snapshot
  <2>3. TrueMessage(out[i], seq, past)
    BY DEF IInv, OutTrue
  <2> QED
    BY <2>1, <2>2, <2>3 DEF TrueMessage, TrueDelta, TrueView
<1>7. \A t \in Slot : task[t] \in Task
  BY <1>1 DEF TypeOK
<1>8. \A w \in Publisher : hand[w] # NoDelta => hand[w] \in Delta /\ hand[w].n \in Number
  BY <1>1 DEF TypeOK, Delta
<1> QED
  BY <1>2, <1>3, <1>4, <1>5, <1>6, <1>7, <1>8

(* A subscription starts inside the channel. *)
LEMMA FromBound ==
  ASSUME IInv, Positions
  PROVE  From \in Nat /\ From <= Len(chan)
  BY FeedNumbers DEF Positions, From, Slot, Task

(* A step that publishes nothing and starts no subscription further back *)
(* takes no number off the list of those the client may miss.            *)
LEMMA ExemptStays ==
  ASSUME IInv, Positions, silent \subseteq silent', chan' = chan, From' \in Nat, From <= From',
         \A n \in Number : InHand(n) => InHand(n)'
  PROVE  \A n \in Number : n \in Exempt => n \in Exempt'
<1> SUFFICES ASSUME NEW n \in Number, n \in Exempt PROVE n \in Exempt'
  OBVIOUS
<1>1. CASE n \in silent
  BY <1>1 DEF Exempt
<1>2. CASE n \in PublishedBefore(From)
  <2>1. PICK j \in 1..From : n = chan[j].n
    BY <1>2 DEF PublishedBefore
  <2>2. j \in 1..From'
    BY <2>1, FromBound
  <2>3. n \in PublishedBefore(From)'
    BY <2>1, <2>2 DEF PublishedBefore
  <2> QED
    BY <2>3 DEF Exempt
<1>3. CASE n \in Swapped
  <2>1. n \in Swapped'
    BY <1>3 DEF Swapped
  <2> QED
    BY <2>1 DEF Exempt
<1>4. CASE n \in Late
  <2>1. n \in Late'
    BY <1>4 DEF Late
  <2> QED
    BY <2>1 DEF Exempt
<1> QED
  BY <1>1, <1>2, <1>3, <1>4 DEF Exempt

(* Neither does a publication: a number that was late is now out of order. *)
LEMMA PublishExempt ==
  ASSUME IInv, Positions, NEW w \in Publisher, Publish(w)
  PROVE  \A n \in Number : n \in Exempt => n \in Exempt'
<1> SUFFICES ASSUME NEW n \in Number, n \in Exempt PROVE n \in Exempt'
  OBVIOUS
<1>0. /\ hand[w] # NoDelta /\ chan' = Append(chan, hand[w]) /\ hand' = [hand EXCEPT ![w] = NoDelta]
      /\ task' = task /\ silent' = silent
  BY DEF Publish
<1>1. hand[w] \in Delta /\ chan \in Seq(Delta) /\ hand \in [Publisher -> Delta \union {NoDelta}]
  BY <1>0, FeedNumbers DEF IInv, TypeOK
<1>2. /\ Len(chan') = Len(chan) + 1 /\ chan'[Len(chan) + 1] = hand[w]
      /\ \A i \in 1..Len(chan) : chan'[i] = chan[i] /\ i \in 1..Len(chan')
  BY <1>0, <1>1
<1>3. From \in Nat /\ From <= Len(chan) /\ From <= From' /\ From' \in Nat
  BY <1>0, <1>2, FromBound, FeedNumbers DEF From
<1>4. CASE n \in silent
  BY <1>0, <1>4 DEF Exempt
<1>5. CASE n \in PublishedBefore(From)
  <2>1. PICK j \in 1..From : n = chan[j].n
    BY <1>5 DEF PublishedBefore
  <2>2. j \in 1..From' /\ chan'[j] = chan[j]
    BY <1>2, <1>3, <2>1, FeedNumbers
  <2>3. n \in PublishedBefore(From)'
    BY <2>1, <2>2 DEF PublishedBefore
  <2> QED
    BY <2>3 DEF Exempt
<1>6. CASE n \in Swapped
  <2>1. PICK i \in 1..Len(chan), j \in 1..Len(chan) : i < j /\ chan[j].n = n /\ chan[i].n > n
    BY <1>6 DEF Swapped
  <2>2. n \in Swapped'
    BY <1>2, <2>1 DEF Swapped
  <2> QED
    BY <2>2 DEF Exempt
<1>7. CASE n \in Late
  <2>1. PICK i \in 1..Len(chan) : chan[i].n > n
    BY <1>7 DEF Late
  <2>2. PICK u \in Publisher : hand[u] # NoDelta /\ hand[u].n = n
    BY <1>7 DEF Late, InHand
  <2>3. CASE u = w
    <3>1. /\ i \in 1..Len(chan') /\ Len(chan) + 1 \in 1..Len(chan') /\ i < Len(chan) + 1
          /\ chan'[Len(chan) + 1].n = n /\ chan'[i].n > n
      BY <1>2, <2>1, <2>2, <2>3, FeedNumbers
    <3>2. n \in Swapped'
      BY <3>1 DEF Swapped
    <3> QED
      BY <3>2 DEF Exempt
  <2>4. CASE u # w
    <3>1. hand'[u] = hand[u]
      BY <1>0, <1>1, <2>4
    <3>2. InHand(n)'
      BY <3>1, <2>2 DEF InHand
    <3>3. n \in Late'
      BY <1>2, <2>1, <3>2 DEF Late
    <3> QED
      BY <3>3 DEF Exempt
  <2> QED
    BY <2>3, <2>4
<1> QED
  BY <1>4, <1>5, <1>6, <1>7 DEF Exempt

(* A client that may be behind stays one. *)
LEMMA BrokenStays ==
  ASSUME IInv, NEW b \in Nat, Broken(b), seq' \in Nat, seq <= seq',
         \A n \in Number : n \in Exempt => n \in Exempt'
  PROVE  Broken(b)'
<1>1. PICK n \in b + 1 .. seq : n \in Exempt
  BY DEF Broken
<1>2. n \in Number /\ n \in b + 1 .. seq'
  BY FeedNumbers, FeedBoundsAssumption DEF Number
<1> QED
  BY <1>1, <1>2 DEF Broken


(* A view of the client has numbers, and they are those of its last snapshot and later. *)
LEMMA ViewNumbers ==
  ASSUME Settling, NEW k \in 0..Len(out), LastSnapshot(k)
  PROVE  /\ ViewAt(k).n \in Nat /\ ViewAt(k).base \in Nat
         /\ ViewAt(k).base <= ViewAt(k).n /\ ViewAt(k).n <= seq
         /\ k > 0 => /\ ViewAt(k).n = out[k].n /\ ViewAt(k).base = out[k].n
                     /\ ViewAt(k).has /\ ~ ViewAt(k).gap
<1>0. IInv /\ ClientNumber
  BY DEF Settling
<1>1. CASE k = 0
  BY <1>0, <1>1, FeedNumbers DEF ViewAt, ClientNumber
<1>2. CASE k # 0
  <2>1. k \in 1..Len(out) /\ ViewAt(k) = TakeSnapshot(out[k])
    BY <1>0, <1>2, FeedNumbers DEF ViewAt
  <2>2. /\ TakeSnapshot(out[k]).n = out[k].n /\ TakeSnapshot(out[k]).base = out[k].n
        /\ TakeSnapshot(out[k]).has /\ ~ TakeSnapshot(out[k]).gap
    BY DEF TakeSnapshot
  <2>3. out[k].n \in Nat /\ out[k].n <= seq
    BY <1>0, <2>1, FeedNumbers
  <2> QED
    BY <2>1, <2>2, <2>3
<1> QED
  BY <1>1, <1>2

(* A step that moves neither the outbound queue nor the client keeps what *)
(* is to arrive, if the tasks have taken nothing more.                    *)
LEMMA EventualStays ==
  ASSUME Settling, out' = out, client' = client,
         \A b \in Nat : Broken(b) => Broken(b)',
         \A k \in Nat, c \in Nat : Reached(k, c) => Reached(k, c)'
  PROVE  Eventual'
<1> SUFFICES ASSUME NEW k \in 0..Len(out'), LastSnapshot(k)' PROVE Arriving(k, ViewAt(k))'
  BY DEF Eventual
<1>1. k \in 0..Len(out) /\ LastSnapshot(k)
  BY DEF LastSnapshot
<1>2. PICK c : c = ViewAt(k)
  OBVIOUS
<1>3. ViewAt(k)' = c
  BY <1>2 DEF ViewAt
<1>4. c.n \in Nat /\ c.base \in Nat /\ k \in Nat
  BY <1>1, <1>2, ViewNumbers
<1>5. Arriving(k, c)
  BY <1>1, <1>2 DEF Settling, Eventual
<1>6. Linked(k, c.n) => Linked(k, c.n)'
  BY DEF Linked, Queued
<1>7. Arriving(k, c)'
  BY <1>4, <1>5, <1>6 DEF Arriving
<1> QED
  BY <1>3, <1>7 DEF Arriving

(* What the tasks have taken is the same, in the same outbound queue, when they stand still. *)
LEMMA ReachedStays ==
  ASSUME chan' = chan, out' = out, From' = From,
         \A t \in Slot : task'[t].on /\ ~ task'[t].lagged =>
           task[t].on /\ ~ task[t].lagged /\ task'[t].pos = task[t].pos
  PROVE  \A k \in Nat, c \in Nat : Reached(k, c) => Reached(k, c)'
  BY DEF Reached, Queued

(* Nothing has been taken since a subscription that starts at the end of the channel. *)
LEMMA ReachedAfresh ==
  ASSUME IInv, From' = Len(chan), \A t \in Slot : task'[t].pos <= Len(chan) /\ task'[t].pos \in Nat
  PROVE  \A k \in Nat, c \in Nat : Reached(k, c)'
<1>1. \A t \in Slot : (From' + 1) .. task'[t].pos = {}
  BY FeedNumbers
<1> QED
  BY <1>1 DEF Reached

(* A step that takes a number, which is then in a publisher's hand or silent. *)
LEMMA NumberTaken ==
  ASSUME Settling, IInv', NEW b \in Book, Step(b), UNCHANGED <<chan, task, out, client>>,
         silent \subseteq silent', \A n \in Number : InHand(n) => InHand(n)',
         \A n \in Number : n = seq + 1 => n \in silent' \/ InHand(n)'
  PROVE  Settling'
<1>0. IInv /\ Accounted /\ Positions /\ ClientNumber
  BY DEF Settling
<1>1. seq' = seq + 1 /\ seq' \in Number /\ seq \in Nat /\ seq' \in Nat
  BY <1>0, StepGrows, FeedNumbers
<1>2. Accounted'
  <2>1. ASSUME NEW n \in 1..seq' PROVE n \in silent' \/ InHand(n)' \/ InChannel(n)'
    <3>0. n \in Number
      BY <1>1, FeedBoundsAssumption DEF Number
    <3>1. CASE n = seq + 1
      BY <3>0, <3>1
    <3>2. CASE n # seq + 1
      <4>1. n \in 1..seq
        BY <1>1, <3>2
      <4>2. n \in silent \/ InHand(n) \/ InChannel(n)
        BY <1>0, <4>1 DEF Accounted
      <4>3. InChannel(n) => InChannel(n)'
        BY DEF InChannel
      <4> QED
        BY <3>0, <4>2, <4>3
    <3> QED
      BY <3>1, <3>2
  <2> QED
    BY <2>1 DEF Accounted
<1>3. Positions' /\ ClientNumber'
  BY <1>0, <1>1, FeedNumbers DEF Positions, ClientNumber
<1>4. From' = From /\ From \in Nat
  BY <1>0, FromBound DEF From
<1>5. \A n \in Number : n \in Exempt => n \in Exempt'
  BY <1>0, <1>4, ExemptStays
<1>6. \A c \in Nat : Broken(c) => Broken(c)'
  BY <1>0, <1>1, <1>5, BrokenStays
<1>7. \A k \in Nat, c \in Nat : Reached(k, c) => Reached(k, c)'
  BY <1>4, ReachedStays
<1>8. Eventual'
  BY <1>6, <1>7, EventualStays
<1> QED
  BY <1>2, <1>3, <1>8 DEF Settling

(* The publication of a delta. *)
LEMMA PublishSettling ==
  ASSUME Settling, IInv', NEW w \in Publisher, Publish(w)
  PROVE  Settling'
<1>0. IInv /\ Accounted /\ Positions /\ ClientNumber
  BY DEF Settling
<1>1. /\ hand[w] # NoDelta /\ chan' = Append(chan, hand[w]) /\ hand' = [hand EXCEPT ![w] = NoDelta]
      /\ task' = task /\ silent' = silent /\ seq' = seq /\ out' = out /\ client' = client
  BY DEF Publish
<1>2. hand[w] \in Delta /\ chan \in Seq(Delta) /\ hand \in [Publisher -> Delta \union {NoDelta}]
  BY <1>0, <1>1, FeedNumbers DEF IInv, TypeOK
<1>3. /\ Len(chan') = Len(chan) + 1 /\ chan'[Len(chan) + 1] = hand[w]
      /\ \A i \in 1..Len(chan) : chan'[i] = chan[i] /\ i \in 1..Len(chan')
      /\ Len(chan) + 1 \in 1..Len(chan')
  BY <1>1, <1>2
<1>4. Accounted'
  <2>1. ASSUME NEW n \in 1..seq PROVE n \in silent \/ InHand(n)' \/ InChannel(n)'
    <3>1. CASE InHand(n)
      <4>1. PICK u \in Publisher : hand[u] # NoDelta /\ hand[u].n = n
        BY <3>1 DEF InHand
      <4>2. CASE u = w
        BY <1>3, <4>1, <4>2 DEF InChannel
      <4>3. CASE u # w
        <5>1. hand'[u] = hand[u]
          BY <1>1, <1>2, <4>3
        <5> QED
          BY <4>1, <5>1 DEF InHand
      <4> QED
        BY <4>2, <4>3
    <3>2. CASE InChannel(n)
      BY <1>3, <3>2 DEF InChannel
    <3> QED
      BY <1>0, <3>1, <3>2 DEF Accounted
  <2> QED
    BY <1>1, <2>1 DEF Accounted
<1>5. Positions'
  BY <1>0, <1>1, <1>3, FeedNumbers DEF Positions, Task
<1>6. ClientNumber'
  BY <1>0, <1>1 DEF ClientNumber
<1>7. \A c \in Nat : Broken(c) => Broken(c)'
  BY <1>0, <1>1, PublishExempt, BrokenStays, FeedNumbers
<1>8. ASSUME NEW k \in Nat, NEW c \in Nat, Reached(k, c) PROVE Reached(k, c)'
  <2>1. From <= From' /\ From \in Nat /\ From' \in Nat
    BY <1>0, <1>1, <1>3, FromBound, FeedNumbers DEF From
  <2>2. ASSUME NEW t \in Slot, task[t].on, ~ task[t].lagged, NEW i \in From' + 1 .. task[t].pos
        PROVE  chan'[i].n <= c \/ Queued(k, Len(out), chan'[i].n)
    <3>1. task[t].pos \in Nat /\ task[t].pos <= Len(chan) /\ Len(chan) \in Nat
      BY <1>0, FeedNumbers DEF Positions, Task
    <3>2. i \in From + 1 .. task[t].pos /\ i \in 1..Len(chan)
      <4>1. PICK f \in Nat, g \in Nat, q \in Nat, l \in Nat :
              f = From /\ g = From' /\ q = task[t].pos /\ l = Len(chan)
        BY <2>1, <3>1
      <4>2. i \in g + 1 .. q /\ f <= g /\ q <= l
        BY <2>1, <2>2, <3>1, <4>1, Zenon
      <4>3. i \in f + 1 .. q /\ i \in 1..l
        BY <4>2
      <4> QED
        BY <4>1, <4>3, Zenon
    <3>3. chan'[i] = chan[i]
      BY <1>3, <3>2
    <3> QED
      BY <1>8, <2>2, <3>2, <3>3 DEF Reached
  <2>3. \A n : Queued(k, Len(out), n) => Queued(k, Len(out), n)'
    BY <1>1 DEF Queued
  <2> QED
    BY <1>1, <2>2, <2>3 DEF Reached
<1>9. Eventual'
  BY <1>1, <1>7, <1>8, EventualStays
<1> QED
  BY <1>4, <1>5, <1>6, <1>9 DEF Settling

(* Numbers, hands and the channel are left alone. *)
LEMMA SameNumbers ==
  ASSUME Settling, UNCHANGED <<seq, hand, chan, silent>>, From' \in Nat, From <= From'
  PROVE  Accounted' /\ \A c \in Nat : Broken(c) => Broken(c)'
<1>0. IInv /\ Accounted /\ Positions
  BY DEF Settling
<1>1. \A n \in Number : InHand(n) => InHand(n)'
  BY DEF InHand
<1>2. Accounted'
  BY <1>0 DEF Accounted, InHand, InChannel
<1>3. \A n \in Number : n \in Exempt => n \in Exempt'
  BY <1>0, <1>1, ExemptStays
<1> QED
  BY <1>0, <1>2, <1>3, BrokenStays, FeedNumbers

(* A new subscription, or the end of one. *)
LEMMA SubscribeSettling ==
  ASSUME Settling, IInv', WsSubscribe \/ WsUnsubscribe
  PROVE  Settling'
<1>0. IInv /\ Positions /\ ClientNumber
  BY DEF Settling
<1>1. UNCHANGED <<levels, seq, hand, chan, out, client, past, silent>>
  BY DEF WsSubscribe, WsUnsubscribe
<1>2. /\ task'["aborted"] \in {task["current"], task["aborted"]}
      /\ \/ task'["current"] = NoTask
         \/ task'["current"] = [on |-> TRUE, start |-> Len(chan), pos |-> Len(chan), lagged |-> FALSE]
  BY <1>0 DEF WsSubscribe, WsUnsubscribe, IInv, TypeOK, Slot, Aborted
<1>3. Positions' /\ \A t \in Slot : task'[t].pos <= Len(chan) /\ task'[t].pos \in Nat
  BY <1>0, <1>1, <1>2, FeedNumbers DEF Positions, Slot, NoTask, Task
<1>4. From' = Len(chan)
  BY <1>1, <1>2 DEF From, NoTask
<1>5. Len(chan) \in Nat /\ From <= Len(chan)
  BY <1>0, FromBound, FeedNumbers
<1>6. Accounted' /\ \A c \in Nat : Broken(c) => Broken(c)'
  BY <1>1, <1>4, <1>5, SameNumbers
<1>7. \A k \in Nat, c \in Nat : Reached(k, c)'
  BY <1>0, <1>3, <1>4, ReachedAfresh
<1>8. Eventual'
  BY <1>1, <1>6, <1>7, EventualStays
<1>9. ClientNumber'
  BY <1>0, <1>1 DEF ClientNumber
<1> QED
  BY <1>3, <1>6, <1>8, <1>9 DEF Settling

(* A task that notices it lagged, or one that ends. *)
LEMMA LagSettling ==
  ASSUME Settling, IInv', TaskEnds \/ \E t \in Slot : Lag(t)
  PROVE  Settling'
<1>0. IInv /\ Positions /\ ClientNumber
  BY DEF Settling
<1>1. UNCHANGED <<levels, seq, hand, chan, out, client, past, silent>>
  BY DEF TaskEnds, Lag
<1>2. /\ task'["current"].on = task["current"].on /\ task'["current"].start = task["current"].start
      /\ Positions'
      /\ \A t \in Slot : task'[t].on /\ ~ task'[t].lagged =>
           task[t].on /\ ~ task[t].lagged /\ task'[t].pos = task[t].pos
  <2>1. CASE TaskEnds
    BY <1>0, <1>1, <2>1, FeedNumbers DEF TaskEnds, Positions, Slot, NoTask, IInv, TypeOK
  <2>2. ASSUME NEW t \in Slot, Lag(t) PROVE <1>2!:
    <3>1. /\ task' = [task EXCEPT ![t] = [task[t] EXCEPT !.pos = Len(chan) - Cap, !.lagged = TRUE]]
          /\ task[t].on
      BY <2>2 DEF Lag
    <3>2. task \in [Slot -> Task] /\ task[t] \in Task
      BY <1>0 DEF IInv, TypeOK
    <3>3. task'[t] = [task[t] EXCEPT !.pos = Len(chan) - Cap, !.lagged = TRUE]
      BY <3>1, <3>2
    <3>4. /\ task'[t].on = task[t].on /\ task'[t].start = task[t].start
          /\ task'[t].pos = Len(chan) - Cap /\ task'[t].lagged = TRUE
      BY <3>2, <3>3 DEF Task
    <3>5. \A u \in Slot : u # t => task'[u] = task[u]
      BY <3>1, <3>2
    <3>6. Len(chan) - Cap <= Len(chan)
      BY <1>0, FeedNumbers, FeedBoundsAssumption
    <3>7. Positions'
      BY <1>0, <1>1, <3>4, <3>5, <3>6 DEF Positions
    <3> QED
      BY <3>4, <3>5, <3>7 DEF Slot
  <2> QED
    BY <2>1, <2>2
<1>3. From' = From /\ From \in Nat
  BY <1>0, <1>1, <1>2, FromBound DEF From
<1>4. Accounted' /\ \A c \in Nat : Broken(c) => Broken(c)'
  BY <1>1, <1>3, SameNumbers
<1>5. \A k \in Nat, c \in Nat : Reached(k, c) => Reached(k, c)'
  BY <1>1, <1>2, <1>3, ReachedStays
<1>6. Eventual'
  BY <1>1, <1>4, <1>5, EventualStays
<1>7. ClientNumber'
  BY <1>0, <1>1 DEF ClientNumber
<1> QED
  BY <1>2, <1>4, <1>6, <1>7 DEF Settling

(* A snapshot that goes past the queue: no delta in the queue is news to it. *)
LEMMA SnapshotSettling ==
  ASSUME Settling, IInv', WsSnapshot
  PROVE  Settling'
<1>0. IInv /\ Positions /\ ClientNumber
  BY DEF Settling
<1>1. /\ UNCHANGED <<levels, seq, hand, chan, task, out, past, silent>>
      /\ client' = TakeSnapshot(SnapshotOf(levels, seq))
  BY DEF WsSnapshot
<1>2. client'.n = seq /\ client'.base = seq /\ ~ client'.gap
  BY <1>1 DEF TakeSnapshot, SnapshotOf
<1>3. From' = From /\ From \in Nat
  BY <1>0, <1>1, FromBound DEF From
<1>4. Accounted' /\ \A c \in Nat : Broken(c) => Broken(c)'
  BY <1>1, <1>3, SameNumbers
<1>5. Positions' /\ ClientNumber'
  BY <1>0, <1>1, <1>2, FeedNumbers DEF Positions, ClientNumber
<1>6. ASSUME NEW k \in 0..Len(out), LastSnapshot(k)' PROVE Arriving(k, ViewAt(k))'
  <2>1. LastSnapshot(k) /\ k \in Nat
    BY <1>1, <1>6 DEF LastSnapshot
  <2>2. CASE k # 0
    <3>1. PICK c : c = ViewAt(k)
      OBVIOUS
    <3>2. ViewAt(k)' = c
      BY <1>1, <2>2, <3>1 DEF ViewAt
    <3>3. Arriving(k, c) /\ c.n \in Nat /\ c.base \in Nat
      BY <2>1, <3>1, ViewNumbers DEF Settling, Eventual
    <3>4. Linked(k, c.n) => Linked(k, c.n)'
      BY <1>1 DEF Linked, Queued
    <3>5. Reached(k, c.n) => Reached(k, c.n)'
      BY <1>1, <1>3, <2>1, <3>3, ReachedStays
    <3>6. Arriving(k, c)'
      BY <1>4, <3>3, <3>4, <3>5 DEF Arriving
    <3> QED
      BY <3>2, <3>6 DEF Arriving
  <2>3. CASE k = 0
    <3>1. ViewAt(k)' = client'
      BY <2>3 DEF ViewAt
    <3>2. PICK s \in Nat : s = seq
      BY <1>0, FeedNumbers
    <3>3. Linked(k, s)'
      <4>1. ASSUME NEW i \in k + 1 .. Len(out), NEW m \in Number, s < m, m < out[i].n PROVE FALSE
        <5>1. i \in 1..Len(out)
          BY <2>3
        <5>2. out[i].n <= seq /\ out[i].n \in Nat /\ m \in Nat
          BY <1>0, <5>1, FeedNumbers
        <5> QED
          BY <3>2, <4>1, <5>2
      <4> QED
        BY <1>1, <4>1 DEF Linked
    <3>4. Reached(k, s)'
      <4>1. ASSUME NEW t \in Slot, NEW i \in From + 1 .. task[t].pos PROVE chan[i].n <= s
        <5>1. i \in 1..Len(chan)
          BY <1>0, <1>3, FeedNumbers DEF Positions, Task
        <5> QED
          BY <1>0, <3>2, <5>1, FeedNumbers
      <4> QED
        BY <1>1, <1>3, <4>1 DEF Reached
    <3> QED
      BY <1>2, <3>1, <3>2, <3>3, <3>4 DEF Arriving
  <2> QED
    BY <2>2, <2>3
<1>7. Eventual'
  BY <1>1, <1>6 DEF Eventual
<1> QED
  BY <1>4, <1>5, <1>7 DEF Settling

(* A resynchronisation: the snapshot it queues is the last one, and has everything. *)
LEMMA ResyncSettling ==
  ASSUME Settling, IInv', NEW t \in Slot, Resync(t)
  PROVE  Settling'
<1>0. IInv /\ Positions /\ ClientNumber
  BY DEF Settling
<1>1. /\ UNCHANGED <<levels, seq, hand, chan, client, past, silent>>
      /\ out' = Append(out, SnapshotOf(levels, seq))
      /\ task' = [task EXCEPT ![t] = [task[t] EXCEPT !.lagged = FALSE]]
  BY DEF Resync
<1>2. \A u \in Slot : /\ task'[u].on = task[u].on /\ task'[u].start = task[u].start
                      /\ task'[u].pos = task[u].pos
  BY <1>0, <1>1 DEF IInv, TypeOK, Task
<1>3. From' = From /\ From \in Nat
  BY <1>0, <1>1, <1>2, FromBound DEF From, Slot
<1>4. Accounted' /\ \A c \in Nat : Broken(c) => Broken(c)'
  BY <1>1, <1>3, SameNumbers
<1>5. Positions' /\ ClientNumber'
  BY <1>0, <1>1, <1>2 DEF Positions, ClientNumber
<1>6. /\ out \in Seq(Delta \union Snapshot) /\ SnapshotOf(levels, seq) \in Snapshot
      /\ SnapshotOf(levels, seq).n = seq
  BY <1>0, SnapshotTrue DEF IInv, TypeOK, SnapshotOf
<1>7. Len(out') = Len(out) + 1 /\ out'[Len(out) + 1] = SnapshotOf(levels, seq) /\ Len(out) \in Nat
  BY <1>1, <1>6
<1>8. ASSUME NEW k \in 0..Len(out'), LastSnapshot(k)' PROVE Arriving(k, ViewAt(k))'
  <2>1. k = Len(out')
    <3>1. ASSUME k # Len(out') PROVE FALSE
      <4>1. Len(out') \in k + 1 .. Len(out')
        BY <1>7, <3>1
      <4>2. out'[Len(out')] \in Delta
        BY <1>8, <4>1 DEF LastSnapshot
      <4> QED
        BY <1>6, <1>7, <4>2 DEF Delta, Snapshot
    <3> QED
      BY <3>1
  <2>2. ViewAt(k)' = TakeSnapshot(SnapshotOf(levels, seq))
    BY <1>7, <2>1 DEF ViewAt
  <2>3. PICK s \in Nat : s = seq
    BY <1>0, FeedNumbers
  <2>4. TakeSnapshot(SnapshotOf(levels, seq)).n = s /\ ~ TakeSnapshot(SnapshotOf(levels, seq)).gap
    BY <1>6, <2>3 DEF TakeSnapshot
  <2>5. Linked(k, s)'
    <3>1. k + 1 .. Len(out') = {}
      BY <1>7, <2>1
    <3> QED
      BY <3>1 DEF Linked
  <2>6. Reached(k, s)'
    <3>1. ASSUME NEW u \in Slot, NEW i \in From + 1 .. task[u].pos PROVE chan[i].n <= s
      <4>1. i \in 1..Len(chan)
        BY <1>0, <1>3, FeedNumbers DEF Positions, Task
      <4> QED
        BY <1>0, <2>3, <4>1, FeedNumbers
    <3> QED
      BY <1>1, <1>2, <1>3, <3>1 DEF Reached
  <2> QED
    BY <2>2, <2>4, <2>5, <2>6 DEF Arriving
<1>9. Eventual'
  BY <1>8 DEF Eventual
<1> QED
  BY <1>4, <1>5, <1>9 DEF Settling

(* A number that a client at c waits for, below the one a task is about to *)
(* forward, was taken by that task before: it is not late, not out of      *)
(* order and not from before the subscription.                             *)
LEMMA TakenBefore ==
  ASSUME Settling, NEW t \in Slot, task[t].pos + 1 \in 1..Len(chan),
         NEW b \in Nat, ~ Broken(b), NEW m \in Number, b < m, m < chan[task[t].pos + 1].n
  PROVE  \E q \in From + 1 .. task[t].pos : chan[q].n = m
<1>0. IInv /\ Accounted /\ Positions
  BY DEF Settling
<1>1. PICK p \in Nat : p = task[t].pos
  BY <1>0, FeedNumbers DEF Task
<1>2. p + 1 \in 1..Len(chan) /\ m < chan[p + 1].n /\ chan[p + 1].n \in Nat /\ chan[p + 1].n <= seq
  BY <1>0, <1>1, FeedNumbers
<1>3. m \in Nat /\ seq \in Nat /\ m \in b + 1 .. seq /\ m \in 1..seq
  BY <1>0, <1>2, FeedNumbers
<1>4. m \notin Exempt
  BY <1>3 DEF Broken
<1>5. ~ InHand(m)
  BY <1>2, <1>4 DEF Exempt, Late
<1>6. PICK q \in 1..Len(chan) : chan[q].n = m
  BY <1>0, <1>3, <1>4, <1>5 DEF Accounted, InChannel, Exempt
<1>7. q <= p + 1
  <2>1. ASSUME p + 1 < q PROVE FALSE
    <3>1. m \in Swapped
      BY <1>2, <1>6, <2>1 DEF Swapped
    <3> QED
      BY <1>4, <3>1 DEF Exempt
  <2> QED
    BY <1>6, <2>1
<1>8. q # p + 1
  BY <1>2, <1>3, <1>6
<1>9. From \in Nat /\ ~ (q <= From)
  <2>1. From \in Nat
    BY <1>0, FromBound
  <2>2. ASSUME q <= From PROVE FALSE
    <3>1. q \in 1..From
      BY <1>6, <2>1, <2>2
    <3>2. m \in PublishedBefore(From)
      BY <1>6, <3>1 DEF PublishedBefore
    <3> QED
      BY <1>4, <3>2 DEF Exempt
  <2> QED
    BY <2>1, <2>2
<1>10. q \in From + 1 .. p
  BY <1>6, <1>7, <1>8, <1>9
<1> QED
  BY <1>1, <1>6, <1>10

(* A task forwards a delta: what lies between it and the client is queued already. *)
LEMMA ForwardSettling ==
  ASSUME Settling, IInv', NEW t \in Slot, Forward(t)
  PROVE  Settling'
<1>0. IInv /\ Positions /\ ClientNumber
  BY DEF Settling
<1>1. PICK p \in Nat : p = task[t].pos
  BY <1>0, FeedNumbers DEF Task
<1>2. PICK d : d = chan[p + 1]
  OBVIOUS
<1>3. /\ UNCHANGED <<levels, seq, hand, chan, client, past, silent>>
      /\ task[t].on /\ ~ task[t].lagged /\ Len(chan) - p > 0
      /\ out' = Append(out, d)
      /\ task' = [task EXCEPT ![t] = [task[t] EXCEPT !.pos = p + 1]]
  BY <1>1, <1>2 DEF Forward, Behind
<1>4. p + 1 \in 1..Len(chan) /\ d \in Delta /\ out \in Seq(Delta \union Snapshot)
  BY <1>0, <1>2, <1>3, FeedNumbers DEF IInv, TypeOK
<1>5. /\ \A u \in Slot : /\ task'[u].on = task[u].on /\ task'[u].start = task[u].start
                         /\ task'[u].lagged = task[u].lagged
                         /\ u # t => task'[u].pos = task[u].pos
      /\ task'[t].pos = p + 1
  BY <1>0, <1>3 DEF IInv, TypeOK, Task
<1>6. From' = From /\ From \in Nat
  BY <1>0, <1>3, <1>5, FromBound DEF From, Slot
<1>7. Accounted' /\ \A c \in Nat : Broken(c) => Broken(c)'
  BY <1>3, <1>6, SameNumbers
<1>8. Positions' /\ ClientNumber'
  BY <1>0, <1>3, <1>4, <1>5 DEF Positions, ClientNumber
<1>9. /\ Len(out) \in Nat /\ Len(out') = Len(out) + 1 /\ out'[Len(out) + 1] = d
      /\ \A i \in 1..Len(out) : out'[i] = out[i]
  BY <1>3, <1>4
<1>10. ASSUME NEW k \in 0..Len(out'), LastSnapshot(k)' PROVE Arriving(k, ViewAt(k))'
  <2>1. k # Len(out')
    <3>1. ASSUME k = Len(out') PROVE FALSE
      <4>1. out'[k] \in Snapshot
        BY <1>9, <1>10, <3>1 DEF LastSnapshot
      <4> QED
        BY <1>4, <1>9, <3>1, <4>1 DEF Delta, Snapshot
    <3> QED
      BY <3>1
  <2>2. k \in 0..Len(out) /\ k \in Nat
    BY <1>9, <2>1
  <2>3. LastSnapshot(k)
    <3>1. k > 0 => out[k] \in Snapshot
      BY <1>9, <1>10, <2>2 DEF LastSnapshot
    <3>2. ASSUME NEW i \in k + 1 .. Len(out) PROVE out[i] \in Delta
      <4>1. i \in k + 1 .. Len(out') /\ i \in 1..Len(out)
        BY <1>9, <2>2
      <4> QED
        BY <1>9, <1>10, <4>1 DEF LastSnapshot
    <3> QED
      BY <2>2, <3>1, <3>2 DEF LastSnapshot
  <2>4. PICK c : c = ViewAt(k)
    OBVIOUS
  <2>5. ViewAt(k)' = c
    BY <1>3, <1>9, <2>2, <2>4 DEF ViewAt
  <2>6. Arriving(k, c) /\ c.n \in Nat /\ c.base \in Nat /\ c.base <= c.n
    BY <2>2, <2>3, <2>4, ViewNumbers DEF Settling, Eventual
  <2>7. ASSUME c.has, ~ Broken(c.base)' PROVE ~ c.gap /\ Linked(k, c.n)' /\ Reached(k, c.n)'
    <3>1. ~ Broken(c.base) /\ ~ c.gap /\ Linked(k, c.n) /\ Reached(k, c.n)
      BY <1>7, <2>6, <2>7 DEF Arriving
    <3>2. ASSUME NEW n, NEW i \in k .. Len(out), Queued(k, i, n) PROVE Queued(k, i, n)'
      <4>1. PICK j \in k + 1 .. i : out[j].n = n
        BY <3>2 DEF Queued
      <4>2. out'[j] = out[j]
        BY <1>9, <2>2, <4>1
      <4> QED
        BY <4>1, <4>2 DEF Queued
    <3>3. ASSUME NEW i \in k + 1 .. Len(out'), NEW m \in Number, c.n < m, m < out'[i].n
          PROVE  Queued(k, i - 1, m)'
      <4>0. m \in Nat
        BY <1>0, FeedNumbers
      <4>1. CASE i \in k + 1 .. Len(out)
        <5>1. out'[i] = out[i] /\ i - 1 \in k .. Len(out)
          BY <1>9, <2>2, <4>1
        <5>2. Queued(k, i - 1, m)
          BY <3>1, <3>3, <4>1, <5>1 DEF Linked
        <5> QED
          BY <3>2, <5>1, <5>2
      <4>2. CASE i \notin k + 1 .. Len(out)
        <5>1. i = Len(out) + 1 /\ i - 1 = Len(out) /\ Len(out) \in k .. Len(out) /\ out'[i] = d
          BY <1>9, <2>2, <3>3, <4>2
        <5>2. c.base < m /\ m < chan[task[t].pos + 1].n /\ task[t].pos + 1 \in 1..Len(chan)
          BY <1>1, <1>2, <1>4, <2>6, <3>3, <4>0, <5>1
        <5>3. PICK q \in From + 1 .. task[t].pos : chan[q].n = m
          BY <2>6, <3>1, <5>2, TakenBefore
        <5>4. chan[q].n <= c.n \/ Queued(k, Len(out), chan[q].n)
          BY <1>3, <3>1, <5>3 DEF Reached
        <5>5. Queued(k, Len(out), m)
          BY <2>6, <3>3, <4>0, <5>3, <5>4
        <5>6. \A e : e = Len(out) => Queued(k, e, m)'
          BY <3>2, <5>1, <5>5
        <5> QED
          BY <5>1, <5>6
      <4> QED
        BY <4>1, <4>2
    <3>4. Linked(k, c.n)'
      BY <3>3 DEF Linked
    <3>5. ASSUME NEW u \in Slot, task[u].on, ~ task[u].lagged, NEW i \in From + 1 .. task'[u].pos
          PROVE  chan[i].n <= c.n \/ Queued(k, Len(out), chan[i].n)'
      <4>1. CASE i \in From + 1 .. task[u].pos
        <5>1. chan[i].n <= c.n \/ Queued(k, Len(out), chan[i].n)
          BY <3>1, <3>5, <4>1 DEF Reached
        <5>2. PICK n, e : n = chan[i].n /\ e = Len(out) /\ e \in k .. Len(out)
          BY <2>2
        <5>3. Queued(k, e, n) => Queued(k, e, n)'
          BY <3>2, <5>2
        <5>4. Queued(k, e, n)' => Queued(k, Len(out), chan[i].n)'
          <6>1. ASSUME Queued(k, e, n)' PROVE \E j \in k + 1 .. Len(out') : out'[j].n = n
            <7>1. PICK j \in k + 1 .. e : out'[j].n = n
              BY <6>1 DEF Queued
            <7>2. j \in k + 1 .. Len(out')
              BY <1>9, <5>2, <7>1, <2>2
            <7> QED
              BY <7>1, <7>2
          <6>2. chan' = chan
            BY <1>3
          <6> QED
            BY <5>2, <6>1, <6>2 DEF Queued
        <5> QED
          BY <5>1, <5>2, <5>3, <5>4
      <4>2. CASE i \notin From + 1 .. task[u].pos
        <5>1. i = p + 1
          BY <1>1, <1>5, <1>6, <3>5, <4>2
        <5>2. Len(out') \in k + 1 .. Len(out') /\ out'[Len(out')].n = chan[i].n
          BY <1>2, <1>9, <2>2, <5>1
        <5>3. chan' = chan
          BY <1>3
        <5> QED
          BY <5>2, <5>3 DEF Queued
      <4> QED
        BY <4>1, <4>2
    <3>6. Reached(k, c.n)'
      BY <1>3, <1>5, <1>6, <3>5 DEF Reached
    <3> QED
      BY <3>1, <3>4, <3>6
  <2> QED
    BY <2>5, <2>7 DEF Arriving
<1>11. Eventual'
  BY <1>10 DEF Eventual
<1> QED
  BY <1>7, <1>8, <1>11 DEF Settling

(* What a delta does to the client's numbers. *)
LEMMA TakeDeltaNumbers ==
  ASSUME NEW c \in Client, NEW d \in Delta, c.base <= c.n
  PROVE  /\ TakeDelta(c, d).base = c.base /\ TakeDelta(c, d).has = c.has
         /\ c.base <= TakeDelta(c, d).n
         /\ TakeDelta(c, d).n = c.n \/ TakeDelta(c, d).n = d.n
         /\ ~ c.gap /\ c.has /\ d.n <= c.n + 1 =>
              /\ ~ TakeDelta(c, d).gap
              /\ c.n <= TakeDelta(c, d).n /\ d.n <= TakeDelta(c, d).n
<1>1. c.n \in Nat /\ c.base \in Nat /\ d.n \in Nat
  BY FeedBoundsAssumption DEF Client, Delta, Number
<1>2. CASE ~ c.has \/ c.gap \/ d.n <= c.n
  BY <1>1, <1>2 DEF TakeDelta
<1>3. CASE ~ (~ c.has \/ c.gap \/ d.n <= c.n) /\ d.n = c.n + 1
  <2> DEFINE e == [c EXCEPT !.n = d.n, !.known = @ \union {d.price},
                            !.bids = [@ EXCEPT ![d.price] = d.size]]
  <2>1. TakeDelta(c, d) = e
    BY <1>3 DEF TakeDelta
  <2>2. e.n = d.n /\ e.base = c.base /\ e.has = c.has /\ e.gap = c.gap
    BY DEF Client
  <2> QED
    BY <1>1, <1>3, <2>1, <2>2
<1>4. CASE ~ (~ c.has \/ c.gap \/ d.n <= c.n) /\ d.n # c.n + 1
  <2>1. TakeDelta(c, d) = [c EXCEPT !.gap = TRUE]
    BY <1>4 DEF TakeDelta
  <2>2. TakeDelta(c, d).n = c.n /\ TakeDelta(c, d).base = c.base /\ TakeDelta(c, d).has = c.has
    BY <2>1 DEF Client
  <2> QED
    BY <1>1, <1>4, <2>2
<1> QED
  BY <1>2, <1>3, <1>4

(* The client takes the first message of the queue. *)
LEMMA DrainSettling ==
  ASSUME Settling, IInv', Drain
  PROVE  Settling'
<1>0. IInv /\ Positions /\ ClientNumber
  BY DEF Settling
<1>1. /\ UNCHANGED <<levels, seq, hand, chan, task, past, silent>>
      /\ out # <<>> /\ out' = Tail(out) /\ out \in Seq(Delta \union Snapshot)
  BY <1>0 DEF Drain, IInv, TypeOK
<1>2. PICK x : x = Head(out)
  OBVIOUS
<1>3. /\ Len(out) \in Nat /\ Len(out) > 0 /\ Len(out') = Len(out) - 1 /\ x = out[1] /\ 1 \in 1..Len(out)
      /\ \A i \in 1..Len(out') : i + 1 \in 1..Len(out) /\ out'[i] = out[i + 1]
  BY <1>1, <1>2
<1>4. x \in Delta \union Snapshot /\ x.n \in Nat /\ x.n <= seq /\ seq \in Nat /\ client \in Client
  BY <1>0, <1>3, FeedNumbers
<1>5. /\ x \in Delta => client' = TakeDelta(client, x)
      /\ x \in Snapshot => client' = TakeSnapshot(x)
  BY <1>2 DEF Drain, Delta, Snapshot
<1>6. From' = From /\ From \in Nat
  BY <1>0, <1>1, FromBound DEF From
<1>7. Accounted' /\ \A c \in Nat : Broken(c) => Broken(c)'
  BY <1>1, <1>6, SameNumbers
<1>8. Positions'
  BY <1>0, <1>1 DEF Positions
<1>9. ClientNumber'
  <2>1. CASE x \in Delta
    <3>1. /\ client'.base = client.base /\ client.base <= client'.n
          /\ client'.n = client.n \/ client'.n = x.n
      BY <1>0, <1>4, <1>5, <2>1, TakeDeltaNumbers DEF ClientNumber
    <3> QED
      BY <1>0, <1>1, <1>4, <3>1 DEF ClientNumber
  <2>2. CASE x \in Snapshot
    <3>1. client'.n = x.n /\ client'.base = x.n
      BY <1>5, <2>2 DEF TakeSnapshot
    <3> QED
      BY <1>1, <1>4, <3>1 DEF ClientNumber
  <2> QED
    BY <1>4, <2>1, <2>2
<1>10. ASSUME NEW k \in Nat, NEW i \in Nat, i <= Len(out'), NEW n, Queued(k + 1, i + 1, n)
       PROVE  Queued(k, i, n)'
  <2>1. PICK j \in (k + 1) + 1 .. i + 1 : out[j].n = n
    BY <1>10 DEF Queued
  <2>2. j - 1 \in k + 1 .. i /\ j - 1 \in 1..Len(out') /\ (j - 1) + 1 = j
    BY <1>3, <1>10, <2>1
  <2>3. out'[j - 1].n = n
    BY <1>3, <2>1, <2>2
  <2> QED
    BY <2>2, <2>3 DEF Queued
<1>11. ASSUME NEW k \in 0..Len(out'), LastSnapshot(k)' PROVE Arriving(k, ViewAt(k))'
  <2>0. k \in Nat /\ k <= Len(out') /\ Len(out') \in Nat
    BY <1>3
  <2>1. \A i \in (k + 1) + 1 .. Len(out) : out[i] \in Delta
    <3>1. ASSUME NEW i \in (k + 1) + 1 .. Len(out) PROVE out[i] \in Delta
      <4>1. i - 1 \in k + 1 .. Len(out') /\ i - 1 \in 1..Len(out') /\ (i - 1) + 1 = i
        BY <1>3, <2>0
      <4>2. out'[i - 1] \in Delta
        BY <1>11, <4>1 DEF LastSnapshot
      <4> QED
        BY <1>3, <4>1, <4>2
    <3> QED
      BY <3>1
  <2>2. CASE k > 0 \/ x \in Snapshot
    <3>1. k + 1 \in 0..Len(out) /\ k + 1 \in 1..Len(out) /\ k + 1 > 0
      BY <1>3, <2>0
    <3>2. out[k + 1] \in Snapshot
      <4>1. CASE k > 0
        BY <1>3, <1>11, <2>0, <4>1 DEF LastSnapshot
      <4>2. CASE k = 0
        BY <1>3, <2>2, <4>2
      <4> QED
        BY <2>0, <4>1, <4>2
    <3>3. LastSnapshot(k + 1)
      BY <2>1, <3>1, <3>2 DEF LastSnapshot
    <3>4. PICK c : c = ViewAt(k + 1)
      OBVIOUS
    <3>5. c = TakeSnapshot(out[k + 1])
      BY <2>0, <3>4 DEF ViewAt
    <3>6. ViewAt(k)' = c
      <4>1. CASE k = 0
        BY <1>3, <1>5, <2>2, <3>5, <4>1 DEF ViewAt
      <4>2. CASE k # 0
        BY <1>3, <2>0, <3>5, <4>2 DEF ViewAt
      <4> QED
        BY <4>1, <4>2
    <3>7. Arriving(k + 1, c) /\ c.n \in Nat /\ c.base \in Nat
      BY <3>1, <3>3, <3>4, ViewNumbers DEF Settling, Eventual
    <3>8. ASSUME Linked(k + 1, c.n) PROVE Linked(k, c.n)'
      <4>1. ASSUME NEW i \in k + 1 .. Len(out'), NEW m \in Number, c.n < m, m < out'[i].n
            PROVE  Queued(k, i - 1, m)'
        <5>1. /\ i \in 1..Len(out') /\ i + 1 \in (k + 1) + 1 .. Len(out) /\ i - 1 \in Nat
              /\ i - 1 <= Len(out') /\ (i + 1) - 1 = (i - 1) + 1
          BY <1>3, <2>0
        <5>2. m < out[i + 1].n
          BY <1>3, <4>1, <5>1
        <5>3. Queued(k + 1, (i + 1) - 1, m)
          BY <3>8, <4>1, <5>1, <5>2 DEF Linked
        <5>4. Queued(k + 1, (i - 1) + 1, m)
          BY <5>1, <5>3
        <5> QED
          BY <1>10, <2>0, <5>1, <5>4
      <4> QED
        BY <4>1 DEF Linked
    <3>9. ASSUME Reached(k + 1, c.n) PROVE Reached(k, c.n)'
      <4>1. PICK e \in Nat : e = Len(out') /\ e + 1 = Len(out)
        BY <1>3, <2>0
      <4>2. ASSUME NEW t \in Slot, task[t].on, ~ task[t].lagged, NEW i \in From + 1 .. task[t].pos
            PROVE  chan[i].n <= c.n \/ \A n : n = chan[i].n => Queued(k, e, n)'
        <5>1. chan[i].n <= c.n \/ Queued(k + 1, e + 1, chan[i].n)
          BY <3>9, <4>1, <4>2 DEF Reached
        <5> QED
          BY <1>10, <2>0, <4>1, <5>1
      <4>3. \A n : Queued(k, e, n)' => Queued(k, Len(out), n)'
        BY <4>1 DEF Queued
      <4> QED
        BY <1>1, <1>6, <4>2, <4>3 DEF Reached
    <3>10. Arriving(k, c)'
      BY <1>7, <3>7, <3>8, <3>9 DEF Arriving
    <3> QED
      BY <3>6, <3>10 DEF Arriving
  <2>3. CASE k = 0 /\ x \in Delta
    <3>1. LastSnapshot(0) /\ 0 \in 0..Len(out)
      <4>1. \A i \in 0 + 1 .. Len(out) : out[i] \in Delta
        BY <1>3, <2>1, <2>3
      <4> QED
        BY <1>3, <4>1 DEF LastSnapshot
    <3>2. Arriving(0, client) /\ client.n \in Nat /\ client.base \in Nat /\ client.base <= client.n
      BY <1>0, <3>1, FeedNumbers DEF Settling, Eventual, ViewAt, ClientNumber
    <3>3. PICK c : c = client'
      OBVIOUS
    <3>4. ViewAt(k)' = c
      BY <2>3, <3>3 DEF ViewAt
    <3>5. c = TakeDelta(client, x)
      BY <1>5, <2>3, <3>3
    <3>6. c.base = client.base /\ c.has = client.has
      BY <1>4, <2>3, <3>2, <3>5, TakeDeltaNumbers
    <3>7. ASSUME c.has, ~ Broken(c.base)' PROVE ~ c.gap /\ Linked(k, c.n)' /\ Reached(k, c.n)'
      <4>1. ~ client.gap /\ Linked(0, client.n) /\ Reached(0, client.n) /\ client.has
        BY <1>7, <3>2, <3>6, <3>7 DEF Arriving
      <4>2. x.n <= client.n + 1
        <5>1. ASSUME client.n + 1 < x.n PROVE FALSE
          <6>1. client.n + 1 \in Number
            BY <1>0, <1>4, <3>2, <5>1, FeedNumbers, FeedBoundsAssumption DEF Number
          <6>2. 1 \in 0 + 1 .. Len(out) /\ client.n < client.n + 1 /\ client.n + 1 < out[1].n
            BY <1>3, <3>2, <5>1
          <6>3. Queued(0, 1 - 1, client.n + 1)
            BY <4>1, <6>1, <6>2 DEF Linked
          <6> QED
            BY <6>3 DEF Queued
        <5> QED
          BY <1>4, <3>2, <5>1
      <4>3. ~ c.gap /\ client.n <= c.n /\ x.n <= c.n /\ c.n \in Nat
        BY <1>4, <2>3, <3>2, <3>5, <4>1, <4>2, TakeDeltaNumbers
      <4>4. ASSUME NEW i \in Nat, i <= Len(out'), NEW m \in Nat, c.n < m, Queued(0, i + 1, m)
            PROVE  Queued(k, i, m)'
        <5>1. PICK j \in 0 + 1 .. i + 1 : out[j].n = m
          BY <4>4 DEF Queued
        <5>2. j # 1
          BY <1>3, <1>4, <4>3, <4>4, <5>1
        <5>3. j \in (0 + 1) + 1 .. i + 1
          BY <4>4, <5>1, <5>2
        <5>4. Queued(0 + 1, i + 1, m)
          BY <5>1, <5>3 DEF Queued
        <5> QED
          BY <1>10, <2>3, <4>4, <5>4
      <4>5. ASSUME NEW i \in k + 1 .. Len(out'), NEW m \in Number, c.n < m, m < out'[i].n
            PROVE  Queued(k, i - 1, m)'
        <5>1. /\ i \in 1..Len(out') /\ i + 1 \in 0 + 1 .. Len(out) /\ i - 1 \in Nat
              /\ i - 1 <= Len(out') /\ (i + 1) - 1 = (i - 1) + 1 /\ m \in Nat
          BY <1>0, <1>3, <2>0, FeedNumbers
        <5>2. client.n < m /\ m < out[i + 1].n
          BY <1>3, <3>2, <4>3, <4>5, <5>1
        <5>3. Queued(0, (i + 1) - 1, m)
          BY <4>1, <5>1, <5>2 DEF Linked
        <5>4. Queued(0, (i - 1) + 1, m)
          BY <5>1, <5>3
        <5> QED
          BY <4>4, <4>5, <5>1, <5>4
      <4>6. Linked(k, c.n)'
        BY <4>5 DEF Linked
      <4>7. PICK e \in Nat : e = Len(out') /\ e + 1 = Len(out)
        BY <1>3, <2>0
      <4>8. ASSUME NEW t \in Slot, task[t].on, ~ task[t].lagged, NEW i \in From + 1 .. task[t].pos
            PROVE  chan[i].n <= c.n \/ \A n : n = chan[i].n => Queued(k, e, n)'
        <5>1. i \in 1..Len(chan)
          BY <1>0, <1>6, FeedNumbers DEF Positions, Task
        <5>2. chan[i].n \in Nat
          BY <1>0, <5>1, FeedNumbers
        <5>3. chan[i].n <= client.n \/ Queued(0, e + 1, chan[i].n)
          BY <4>1, <4>7, <4>8 DEF Reached
        <5>4. CASE chan[i].n <= c.n
          BY <5>4
        <5>5. CASE c.n < chan[i].n
          <6>1. Queued(0, e + 1, chan[i].n)
            BY <3>2, <4>3, <5>2, <5>3, <5>5
          <6> QED
            BY <4>4, <4>7, <5>2, <5>5, <6>1
        <5> QED
          BY <4>3, <5>2, <5>4, <5>5
      <4>9. \A n : Queued(k, e, n)' => Queued(k, Len(out), n)'
        BY <4>7 DEF Queued
      <4>10. Reached(k, c.n)'
        BY <1>1, <1>6, <4>8, <4>9 DEF Reached
      <4> QED
        BY <4>3, <4>6, <4>10
    <3> QED
      BY <3>4, <3>7 DEF Arriving
  <2> QED
    BY <1>4, <2>0, <2>2, <2>3
<1>12. Eventual'
  BY <1>11 DEF Eventual
<1> QED
  BY <1>7, <1>8, <1>9, <1>12 DEF Settling

(* At first nothing is on its way. *)
LEMMA InitSettling == Init => Settling
<1> SUFFICES ASSUME Init PROVE Settling
  OBVIOUS
<1>1. IInv
  BY InitIInv
<1>2. /\ seq = 0 /\ chan = <<>> /\ out = <<>> /\ client.n = 0 /\ client.base = 0 /\ client.has = FALSE
      /\ task = [t \in Slot |-> NoTask]
  BY DEF Init
<1>3. Accounted /\ Positions /\ ClientNumber
  BY <1>2 DEF Accounted, Positions, ClientNumber, NoTask
<1>4. ASSUME NEW k \in 0..Len(out) PROVE Arriving(k, ViewAt(k))
  <2>1. k = 0
    BY <1>2
  <2> QED
    BY <1>2, <2>1 DEF Arriving, ViewAt
<1> QED
  BY <1>1, <1>3, <1>4 DEF Settling, Eventual

(* Every step keeps track of what is on its way. *)
LEMMA NextSettling == Settling /\ [Next]_vars => Settling'
<1> SUFFICES ASSUME Settling, [Next]_vars PROVE Settling'
  OBVIOUS
<1>0. IInv /\ IInv' /\ TypeOK
  BY NextIInv DEF Settling, IInv
<1>1. ASSUME NEW w \in Publisher, NEW p \in Price, NEW v \in Size, Change(w, p, v) PROVE Settling'
  <2>1. [levels EXCEPT ![p] = v] \in Book
    BY <1>0 DEF TypeOK, Book
  <2>0. LevelDelta(p, v).n = seq + 1 /\ LevelDelta(p, v).kind = "delta"
    BY DEF LevelDelta
  <2>2. PICK d : d = LevelDelta(p, v) /\ d.n = seq + 1 /\ d.kind = "delta"
    BY <2>0, Zenon
  <2>3. /\ Step([levels EXCEPT ![p] = v]) /\ UNCHANGED <<chan, task, out, client, silent>>
        /\ hand[w] = NoDelta /\ hand' = [hand EXCEPT ![w] = d]
        /\ hand \in [Publisher -> Delta \union {NoDelta}]
    BY <1>0, <1>1, <2>2 DEF Change, TypeOK
  <2>4. d # NoDelta
    BY <2>2 DEF NoDelta
  <2>5. \A n \in Number : InHand(n) => InHand(n)'
    BY <2>3 DEF InHand
  <2>6. \A n \in Number : n = seq + 1 => n \in silent' \/ InHand(n)'
    BY <2>2, <2>3, <2>4 DEF InHand
  <2> QED
    BY <1>0, <2>1, <2>3, <2>5, <2>6, NumberTaken
<1>2. ASSUME NEW b \in Book, HydrateTo(b), UNCHANGED <<hand, chan, task, out, client>> PROVE Settling'
  <2>1. \A n \in Number : InHand(n) => InHand(n)'
    BY <1>2 DEF InHand
  <2> QED
    BY <1>0, <1>2, <2>1, NumberTaken DEF HydrateTo
<1>3. ASSUME NEW p \in Price, NEW v \in Size, ChangeQuietly(p, v) PROVE Settling'
  <2>1. [levels EXCEPT ![p] = v] \in Book
    BY <1>0 DEF TypeOK, Book
  <2> QED
    BY <1>2, <1>3, <2>1 DEF ChangeQuietly, HydrateTo
<1>4. ASSUME NEW b \in Book, Hydrate(b) \/ WsRehydrate(b) PROVE Settling'
  BY <1>2, <1>4 DEF Hydrate, WsRehydrate
<1>5. ASSUME NEW w \in Publisher, Publish(w) PROVE Settling'
  BY <1>0, <1>5, PublishSettling
<1>6. CASE WsSnapshot
  BY <1>0, <1>6, SnapshotSettling
<1>7. CASE WsSubscribe \/ WsUnsubscribe
  BY <1>0, <1>7, SubscribeSettling
<1>8. CASE Drain
  BY <1>0, <1>8, DrainSettling
<1>9. ASSUME NEW t \in Slot, Forward(t) PROVE Settling'
  BY <1>0, <1>9, ForwardSettling
<1>10. ASSUME NEW t \in Slot, Resync(t) PROVE Settling'
  BY <1>0, <1>10, ResyncSettling
<1>11. CASE TaskEnds \/ \E t \in Slot : Lag(t)
  BY <1>0, <1>11, LagSettling
<1>12. CASE UNCHANGED vars
  <2>1. UNCHANGED <<seq, hand, chan, task, out, client, silent>> /\ Positions /\ ClientNumber
    BY <1>12 DEF vars, Settling
  <2>2. From' = From /\ From \in Nat
    BY <1>0, <2>1, FromBound DEF From
  <2>3. Accounted' /\ \A c \in Nat : Broken(c) => Broken(c)'
    BY <2>1, <2>2, SameNumbers
  <2>4. Eventual'
    BY <2>1, <2>2, <2>3, ReachedStays, EventualStays
  <2>5. Positions' /\ ClientNumber'
    BY <2>1 DEF Positions, ClientNumber
  <2> QED
    BY <1>0, <2>3, <2>4, <2>5 DEF Settling
<1> QED
  BY <1>1, <1>3, <1>4, <1>5, <1>6, <1>7, <1>8, <1>9, <1>10, <1>11, <1>12 DEF Next

(* Once everything has arrived, a subscribed client of the session task     *)
(* (ws/process/orderbook.rs) holds the current number, unless a number      *)
(* since its last snapshot was published by nobody, before the subscription *)
(* or out of order; a receiver that lagged loses nothing.                   *)
THEOREM SettledCorrect == Spec => []SettledIsCurrent
<1>1. Settling => SettledIsCurrent
  <2> SUFFICES ASSUME Settling, Settled, client.has,
                      ~ \E n \in client.base + 1 .. seq :
                          n \in silent \union PublishedBefore(task["current"].start) \union Swapped
               PROVE  client.n = seq /\ ~ client.gap
    BY DEF SettledIsCurrent
  <2>0. IInv /\ Accounted /\ ClientNumber /\ Eventual
    BY DEF Settling
  <2>1. \A n : ~ InHand(n)
    BY DEF Settled, InHand
  <2>2. Late = {} /\ From = task["current"].start
    BY <2>1 DEF Late, From, Settled
  <2>3. ~ Broken(client.base)
    BY <2>2 DEF Broken, Exempt
  <2>4. out = <<>> /\ LastSnapshot(0) /\ 0 \in 0..Len(out)
    BY DEF Settled, LastSnapshot
  <2>5. Arriving(0, client)
    BY <2>0, <2>4 DEF Eventual, ViewAt
  <2>6. ~ client.gap /\ Reached(0, client.n)
    BY <2>3, <2>5 DEF Arriving
  <2>7. client.n = seq
    <3>1. client.n \in Nat /\ client.base \in Nat /\ seq \in Nat /\ Len(chan) \in Nat
          /\ client.base <= client.n /\ client.n <= seq
      BY <2>0, FeedNumbers DEF ClientNumber
    <3>2. ASSUME client.n < seq PROVE FALSE
      <4>1. seq \in client.base + 1 .. seq /\ seq \in 1..seq
        BY <3>1, <3>2
      <4>2. seq \notin Exempt
        BY <2>3, <4>1 DEF Broken
      <4>3. PICK q \in 1..Len(chan) : chan[q].n = seq
        BY <2>0, <2>1, <4>1, <4>2 DEF Accounted, InChannel, Exempt
      <4>4. From \in Nat /\ ~ (q <= From)
        <5>1. From \in Nat
          BY <2>0, FromBound DEF Settling
        <5>2. ASSUME q <= From PROVE FALSE
          <6>1. q \in 1..From
            BY <4>3, <5>1, <5>2
          <6>2. seq \in PublishedBefore(From)
            BY <4>3, <6>1 DEF PublishedBefore
          <6> QED
            BY <4>2, <6>2 DEF Exempt
        <5> QED
          BY <5>1, <5>2
      <4>5. /\ "current" \in Slot /\ task["current"].on /\ ~ task["current"].lagged
            /\ task["current"].pos \in Nat /\ Len(chan) - task["current"].pos = 0
        BY <2>0, FeedNumbers DEF Settled, Behind, Slot, Task
      <4>6. q \in From + 1 .. task["current"].pos
        BY <3>1, <4>3, <4>4, <4>5
      <4>7. chan[q].n <= client.n \/ Queued(0, Len(out), chan[q].n)
        BY <2>6, <4>5, <4>6 DEF Reached
      <4>8. ~ Queued(0, Len(out), chan[q].n)
        BY <2>4 DEF Queued
      <4> QED
        BY <3>1, <3>2, <4>3, <4>7, <4>8
    <3> QED
      BY <3>1, <3>2
  <2> QED
    BY <2>6, <2>7
<1> QED
  BY <1>1, InitSettling, NextSettling, PTL DEF Spec
=============================================================================
