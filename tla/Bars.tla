-------------------------------- MODULE Bars --------------------------------
(***************************************************************************)
(* Candles of one spot market (bars.rs), from the trades of the apply      *)
(* worker to the bars table and the `bars' WebSocket channel.              *)
(*                                                                         *)
(*   apply worker  reads the wall clock, waits for the lock of Bars, folds *)
(*                 the trade into the forming bar of every interval and    *)
(*                 closes the bars of other buckets; after the lock it     *)
(*                 enqueues the closed rows and sends its messages         *)
(*   closer task   once a second: reads the clock, takes the lock, removes *)
(*                 the bars whose bucket has ended; after the lock it      *)
(*                 enqueues and announces them one by one                  *)
(*   history lane  enqueue_closed_bar drops when the lane is switched off, *)
(*                 over its limit or full; four encode workers reorder;    *)
(*                 INSERT OR REPLACE by bucket, then the oldest are trimmed*)
(*   reader        GET of the bars, or the snapshot of the channel: the    *)
(*                 rows of the table first, then the forming bar           *)
(*                                                                         *)
(* The wall clock does not go back here.  Messages are sent for one        *)
(* interval only ("1m").                                                   *)
(***************************************************************************)
EXTENDS Naturals, Sequences, FiniteSets, FiniteSetsExt, SequencesExt

CONSTANTS Interval,   \* bar intervals
          Shortest,   \* the interval the WebSocket channel carries
          Width,      \* seconds per bucket of an interval
          Price, Volume,
          Keep,       \* rows kept per interval (5000 in the code)
          Limit,      \* rows a request asks for
          Asked,      \* bound: intervals that requests are about
          MaxTime,    \* bound: the clock
          MaxTrades   \* bound: trades

ASSUME WidthAssumption == Width \in [Interval -> Nat \ {0}] /\ Shortest \in Interval /\ Asked \subseteq Interval
ASSUME TradeAssumption == Price \subseteq Nat /\ Volume \subseteq Nat
ASSUME BarBoundsAssumption == MaxTime \in Nat /\ MaxTrades \in Nat /\ Keep \in Nat \ {0} /\ Limit \in Nat \ {0}

VARIABLES
  clock,     \* now_ts()
  forming,   \* the forming bar of each interval
  apply,     \* the apply worker inside on_trade
  closer,    \* the closer task inside close_expired
  lane,      \* closed rows accepted by the history lane and not yet written
  table,     \* the bars table
  reader,    \* a request for bars: its interval and what it has read
  sent,      \* messages sent on the channel
  trades,    \* ghost: the trades folded in, in order
  closedTo,  \* ghost: the latest time up to which the closer has closed
  late,      \* ghost: buckets whose bar was begun again: after the closer had passed
             \* them, or after clear
  lost       \* ghost: buckets of which a row was dropped or failed to be written,
             \* or whose forming bar was cleared

vars == <<clock, forming, apply, closer, lane, table, reader, sent, trades, closedTo, late, lost>>

Time == 0..MaxTime
Trade == [ts : Time, price : Price, vol : Volume]
Bar == [interval : Interval, start : Time, open : Nat, high : Nat, low : Nat, close : Nat,
        vol : Nat, count : Nat]
NoBar == [interval |-> "none"]
Message == [kind : {"bar", "bar_closed"}, bar : Bar]
NoTrade == [ts |-> 0, price |-> 0, vol |-> 0]

(* A task between operations, before the lock, and after it with rows to  *)
(* enqueue and messages to send.                                          *)
IdleApply == [pc |-> "idle", trade |-> NoTrade, rows |-> {}, msgs |-> <<>>]
IdleCloser == [pc |-> "idle", now |-> 0, rows |-> {}, msgs |-> <<>>]
IdleReader == [pc |-> "idle", bars |-> <<>>, forming |-> NoBar]

TypeOK ==
  /\ clock \in Time /\ closedTo \in Time
  /\ forming \in [Interval -> Bar \union {NoBar}]
  /\ \A i \in Interval : forming[i].interval \in {i, "none"}
  /\ apply.pc \in {"idle", "lock", "after"} /\ apply.trade \in Trade \union {NoTrade}
  /\ closer.pc \in {"idle", "lock", "after"} /\ closer.now \in Time
  /\ \A w \in {apply, closer} : w.rows \subseteq Bar /\ w.msgs \in Seq(Message)
  /\ lane \subseteq Bar
  /\ reader.pc \in {"idle", "first", "second"} /\ reader.bars \in Seq(Bar) /\ Len(reader.bars) <= Limit
  /\ table \subseteq Bar
  /\ \A a, b \in table : a.interval = b.interval /\ a.start = b.start => a = b
  /\ sent \subseteq Message
  /\ trades \in Seq(Trade)
  /\ late \subseteq Interval \X Time /\ lost \subseteq Interval \X Time

Init ==
  /\ clock = 0 /\ closedTo = 0
  /\ forming = [i \in Interval |-> NoBar]
  /\ apply = IdleApply /\ closer = IdleCloser /\ reader = IdleReader
  /\ lane = {} /\ table = {} /\ sent = {}
  /\ trades = <<>> /\ late = {} /\ lost = {}

-----------------------------------------------------------------------------
(* bucket_start for the intervals of fixed length (module Calendar has "1M"). *)
BucketStart(ts, i) == (ts \div Width[i]) * Width[i]

Bucket(b) == <<b.interval, b.start>>

(* The times at which a bucket of interval i starts. *)
Starts(i) == {s \in Time : s = BucketStart(s, i)}

Tick ==
  /\ clock < MaxTime
  /\ clock' = clock + 1
  /\ UNCHANGED <<reader, forming, apply, closer, lane, table, sent, trades, closedTo, late, lost>>

(* apply_market_order_events: now_ts() is an argument, read before on_trade   *)
(* waits for the lock.  A fill of volume zero returns at once.  on_trade is   *)
(* called for the buying side of a fill, so that it counts once, and not in   *)
(* a block applied quietly: its trades never reach the candles, and a trade   *)
(* below is one that was handed to on_trade.                                  *)
TradeArrives(p, v) ==
  /\ apply.pc = "idle" /\ v > 0 /\ Len(trades) < MaxTrades
  /\ apply' = [apply EXCEPT !.pc = "lock", !.trade = [ts |-> clock, price |-> p, vol |-> v]]
  /\ UNCHANGED <<reader, clock, forming, closer, lane, table, sent, trades, closedTo, late, lost>>

(* A bar of one trade. *)
NewBar(i, t) ==
  [interval |-> i, start |-> BucketStart(t.ts, i), open |-> t.price, high |-> t.price,
   low |-> t.price, close |-> t.price, vol |-> t.vol, count |-> 1]

(* A further trade of the same bucket. *)
Fold(b, t) ==
  [b EXCEPT !.high = Max({@, t.price}), !.low = Min({@, t.price}), !.close = t.price,
            !.vol = @ + t.vol, !.count = @ + 1]

(* Mutant of RollsOver: only the closer ends a bar. *)
NeverRollsOver(i, t) == FALSE

(* The forming bar of interval i belongs to another bucket than the trade. *)
RollsOver(i, t) == forming[i] # NoBar /\ forming[i].start # BucketStart(t.ts, i)

(* The forming bar of interval i once the trade has been folded in. *)
Formed(i, t) ==
  IF forming[i] = NoBar \/ RollsOver(i, t) THEN NewBar(i, t) ELSE Fold(forming[i], t)

(***************************************************************************)
(* on_trade under the lock: every interval is rolled over if need be and   *)
(* updated.  Rows and messages are kept for after the lock.                *)
(***************************************************************************)
OnTrade ==
  /\ apply.pc = "lock"
  /\ LET t == apply.trade
         done == {i \in Interval : RollsOver(i, t)}
     IN /\ forming' = [i \in Interval |-> Formed(i, t)]
        /\ apply' = [apply EXCEPT
             !.pc = "after",
             !.rows = {forming[i] : i \in done},
             !.msgs = (IF Shortest \in done
                       THEN <<[kind |-> "bar_closed", bar |-> forming[Shortest]]>> ELSE <<>>)
                      \o <<[kind |-> "bar", bar |-> Formed(Shortest, t)]>>]
        /\ trades' = Append(trades, t)
        /\ late' = late \union
             {<<i, BucketStart(t.ts, i)>> :
                i \in {j \in Interval : BucketStart(t.ts, j) < BucketStart(closedTo, j)}}
  /\ UNCHANGED <<reader, clock, closer, lane, table, sent, closedTo, lost>>

(* enqueue_closed_bar: accepted, or dropped without a trace. *)
Enqueue(rows, dropped) ==
  /\ lane' = lane \union (rows \ dropped)
  /\ lost' = lost \union {Bucket(b) : b \in dropped}

(* on_trade after the lock: persist_closed for every closed bar ... *)
PersistRolledOver(dropped) ==
  /\ apply.pc = "after" /\ apply.rows # {} /\ dropped \subseteq apply.rows
  /\ Enqueue(apply.rows, dropped)
  /\ apply' = [apply EXCEPT !.rows = {}]
  /\ UNCHANGED <<reader, clock, forming, closer, table, sent, trades, closedTo, late>>

(* ... then the messages in order. *)
SendTrade ==
  /\ apply.pc = "after" /\ apply.rows = {}
  /\ sent' = sent \union {Head(apply.msgs)}
  /\ apply' = IF Len(apply.msgs) = 1 THEN IdleApply ELSE [apply EXCEPT !.msgs = Tail(@)]
  /\ UNCHANGED <<reader, clock, forming, closer, lane, table, trades, closedTo, late, lost>>

-----------------------------------------------------------------------------
(* The ticker of the closer fires: now_ts(), then the lock is awaited. *)
CloserTick ==
  /\ closer.pc = "idle"
  /\ closer' = [closer EXCEPT !.pc = "lock", !.now = clock]
  /\ UNCHANGED <<reader, clock, forming, apply, lane, table, sent, trades, closedTo, late, lost>>

(* Mutant of Expired: the bucket that is still running is closed as well. *)
ExpiredOrRunning(i, now) == forming[i] # NoBar /\ forming[i].start <= BucketStart(now, i)

(* Mutant of Expired: one bucket too late. *)
ExpiredTwice(i, now) ==
  forming[i] # NoBar /\ forming[i].start + Width[i] < BucketStart(now, i)

Expired(i, now) == forming[i] # NoBar /\ forming[i].start < BucketStart(now, i)

(* close_expired under the lock. *)
CloseExpired ==
  /\ closer.pc = "lock"
  /\ LET ended == {i \in Interval : Expired(i, closer.now)}
     IN /\ forming' = [i \in Interval |-> IF i \in ended THEN NoBar ELSE forming[i]]
        /\ closer' = IF ended = {} THEN IdleCloser
                     ELSE [closer EXCEPT !.pc = "after", !.rows = {forming[i] : i \in ended}]
  /\ closedTo' = closer.now
  /\ UNCHANGED <<reader, clock, apply, lane, table, sent, trades, late, lost>>

(* close_expired after the lock: one bar is enqueued ... *)
PersistExpired(b, dropped) ==
  /\ closer.pc = "after" /\ closer.msgs = <<>> /\ b \in closer.rows /\ dropped \subseteq {b}
  /\ Enqueue({b}, dropped)
  /\ closer' =
       IF b.interval = Shortest
       THEN [closer EXCEPT !.rows = @ \ {b}, !.msgs = <<[kind |-> "bar_closed", bar |-> b]>>]
       ELSE IF closer.rows = {b} THEN IdleCloser ELSE [closer EXCEPT !.rows = @ \ {b}]
  /\ UNCHANGED <<reader, clock, forming, apply, table, sent, trades, closedTo, late>>

(* ... and announced, before the next. *)
SendExpired ==
  /\ closer.pc = "after" /\ closer.msgs # <<>>
  /\ sent' = sent \union {Head(closer.msgs)}
  /\ closer' = IF closer.rows = {} THEN IdleCloser ELSE [closer EXCEPT !.msgs = <<>>]
  /\ UNCHANGED <<reader, clock, forming, apply, lane, table, trades, closedTo, late, lost>>

(* INSERT OR REPLACE: the primary key is the bucket. *)
Replaced(b) == {r \in table : Bucket(r) # Bucket(b)} \union {b}

(* The rows of T that are newer than bucket s of interval i. *)
Newer(T, i, s) == {r \in T : r.interval = i /\ r.start > s}

(* At least Keep rows of T are newer. *)
Outdated(T, i, s) == Cardinality(Newer(T, i, s)) >= Keep

(* trim_bars: the newest Keep rows of an interval stay. *)
Trimmed(T, i) == {r \in T : r.interval = i => ~ Outdated(T, i, r.start)}

(* History lane: encode workers and the writer, in any order.  The write or    *)
(* the trimming, which is a statement after the commit, may fail.              *)
WriteRow(b) ==
  /\ lane' = lane \ {b}
  /\ \/ table' = Trimmed(Replaced(b), b.interval) /\ UNCHANGED lost
     \/ table' = Replaced(b) /\ UNCHANGED lost
     \/ UNCHANGED table /\ lost' = lost \union {Bucket(b)}
  /\ UNCHANGED <<reader, clock, forming, apply, closer, sent, trades, closedTo, late>>

-----------------------------------------------------------------------------
(* The newest rows of an interval, oldest first: the n-th has all but n newer *)
(* ones.                                                                      *)
load_closed_bars(i) ==
  LET rows == {r \in table : r.interval = i /\ Cardinality(Newer(table, i, r.start)) < Limit}
      size == Cardinality(rows)
  IN  [n \in 1..size |-> CHOOSE r \in rows : Cardinality(Newer(rows, i, r.start)) = size - n]

(* A database that fails gives an empty history. *)
load_history(i) == {load_closed_bars(i), <<>>}

forming_interval(i) == forming[i]

(* Mutant of GetBars: the forming bar first, then the history. *)
GetBarsFormingFirst(r) ==
  IF r.pc = "first" THEN {[r EXCEPT !.pc = "second", !.forming = forming_interval(r.interval)]}
  ELSE {[r EXCEPT !.bars = h] : h \in load_history(r.interval)}

(* get_bars and snapshot_ws: two reads, with the locks released in between. *)
GetBars(r) ==
  IF r.pc = "first" THEN {[r EXCEPT !.pc = "second", !.bars = h] : h \in load_history(r.interval)}
  ELSE {[r EXCEPT !.forming = forming_interval(r.interval)]}

Ask(i) ==
  /\ reader.pc = "idle"
  /\ reader' \in GetBars([pc |-> "first", interval |-> i, bars |-> <<>>, forming |-> NoBar])
  /\ UNCHANGED <<clock, forming, apply, closer, lane, table, sent, trades, closedTo, late, lost>>

Answer ==
  /\ reader.pc = "second"
  /\ reader' = IdleReader
  /\ UNCHANGED <<clock, forming, apply, closer, lane, table, sent, trades, closedTo, late, lost>>

(* clear_all of a catch-up, when no block is being applied. *)
Clear ==
  /\ apply = IdleApply
  /\ LET cut == {Bucket(b) : b \in {forming[i] : i \in Interval} \ {NoBar}}
     IN  late' = late \union cut /\ lost' = lost \union cut
  /\ forming' = [i \in Interval |-> NoBar]
  /\ UNCHANGED <<clock, apply, closer, lane, table, reader, sent, trades, closedTo>>

Next ==
  \/ Tick
  \/ \E p \in Price, v \in Volume : TradeArrives(p, v)
  \/ OnTrade
  \/ \E D \in SUBSET apply.rows : PersistRolledOver(D)
  \/ SendTrade
  \/ CloserTick \/ CloseExpired
  \/ \E b \in closer.rows, D \in SUBSET closer.rows : PersistExpired(b, D)
  \/ SendExpired
  \/ \E b \in lane : WriteRow(b)
  \/ \E i \in Asked : Ask(i)
  \/ Answer \/ Clear

Spec == Init /\ [][Next]_vars

(* tokio runs the apply worker, the closer (its ticker has no end) and the lane. *)
Fairness ==
  /\ WF_vars(OnTrade)
  /\ WF_vars(\E D \in SUBSET apply.rows : PersistRolledOver(D))
  /\ WF_vars(CloserTick) /\ WF_vars(CloseExpired) /\ WF_vars(SendExpired)
  /\ WF_vars(\E b \in closer.rows, D \in SUBSET closer.rows : PersistExpired(b, D))
  /\ \A i \in Interval : \A s \in Starts(i) :
       WF_vars(\E b \in lane : Bucket(b) = <<i, s>> /\ WriteRow(b))

FairSpec == Spec /\ Fairness

-----------------------------------------------------------------------------
(* The trades of a bucket, by their numbers, and the units they moved. *)
TradesOf(i, s) == {n \in 1..Len(trades) : BucketStart(trades[n].ts, i) = s}
Units(N) == UNION {{n} \X (1..trades[n].vol) : n \in N}

(* What a bar is: open, high, low and close of the trades of its bucket, their volume and number. *)
Candle(i, s) ==
  LET N == TradesOf(i, s)
      P == {trades[n].price : n \in N}
  IN  [interval |-> i, start |-> s, open |-> trades[Min(N)].price, high |-> Max(P), low |-> Min(P),
       close |-> trades[Max(N)].price, vol |-> Cardinality(Units(N)), count |-> Cardinality(N)]

(* Every copy of the bar of a bucket: forming, in a task's hands, in the lane, in the table. *)
Copies(i, s) ==
  {b \in ({forming[j] : j \in Interval} \ {NoBar}) \union apply.rows \union closer.rows
         \union lane \union table : Bucket(b) = <<i, s>>}

(***************************************************************************)
(* No trade is lost or counted twice on the way from forming to the table: *)
(* at every moment a bucket with trades has exactly one bar, the candle of *)
(* all its trades, whoever closed it (the next trade or the closer, racing *)
(* each other).  Excepted are buckets whose row the lane dropped, rows     *)
(* trimmed, and a bucket that got a trade whose timestamp was read before  *)
(* the closer passed and which was folded in after: on_trade opens it      *)
(* again and the new row replaces the old one.                             *)
(***************************************************************************)
BarsExact ==
  \A i \in Interval : \A s \in Starts(i) :
    <<i, s>> \notin late \union lost =>
      \/ Copies(i, s) = IF TradesOf(i, s) = {} THEN {} ELSE {Candle(i, s)}
      \/ Copies(i, s) = {} /\ Outdated(table, i, s)

(* Every bucket has one bar, one row and the candle of its trades. *)
BucketsSound == TypeOK /\ BarsExact

(* A subscriber may get a `bar' message of a bucket after its `bar_closed',  *)
(* because both are sent outside the lock, but `bar_closed' is the final     *)
(* word: it has the open, the range, the volume and the trades that any      *)
(* message of the bucket has.                                                *)
ClosedMessageIsFinal ==
  \A c, m \in sent :
    c.kind = "bar_closed" /\ c.bar.start = m.bar.start /\ Bucket(c.bar) \notin late =>
      /\ m.bar.count <= c.bar.count /\ m.bar.vol <= c.bar.vol
      /\ m.bar.open = c.bar.open /\ m.bar.high <= c.bar.high /\ m.bar.low >= c.bar.low

(* An answer shows ascending buckets and none of them twice, as a closed bar *)
(* and as the forming one, although the two are read apart: only a bucket    *)
(* that was begun again can be in both.  Reading the history first can    *)
(* only leave out a bar that closes in between.                              *)
NoBucketTwice ==
  reader.pc = "second" =>
    \A a \in GetBars(reader) :
      /\ \A n \in 1..(Len(a.bars) - 1) : a.bars[n].start < a.bars[n + 1].start
      /\ (a.forming # NoBar /\ a.bars # <<>>) =>
           Last(a.bars).start < a.forming.start \/ Bucket(a.forming) \in late

(* The forming bar of interval i is of bucket s, which has ended. *)
Ended(i, s) ==
  forming[i] # NoBar /\ forming[i].start = s /\ s + Width[i] <= clock

(* The bar of bucket s is in the table, or the lane dropped it, or it is too old to keep. *)
Settled(i, s) ==
  \/ \E r \in table : Bucket(r) = <<i, s>>
  \/ <<i, s>> \in lost
  \/ Outdated(table, i, s)

(* A bar whose bucket has ended reaches the table without a further trade   *)
(* (bars.rs, close_expired), unless the lane drops it or it is trimmed.     *)
EndedBarIsStored ==
  \A i \in Interval : \A s \in Starts(i) : Ended(i, s) ~> Settled(i, s)

=============================================================================
