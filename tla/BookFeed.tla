------------------------------ MODULE BookFeed ------------------------------
(***************************************************************************)
(* The orderbook_delta channel of one spot market: from a change of the    *)
(* book under its lock to the book a WebSocket client rebuilds             *)
(* (indexer/books.rs, ws/process/orderbook.rs, ws/process/session.rs).     *)
(*                                                                         *)
(*   publishers     the apply worker and POST /orders/index-from-event     *)
(*                  change one level and take a sequence number under the  *)
(*                  book lock, and publish the delta after releasing it;   *)
(*                  in quiet mode the apply worker publishes nothing       *)
(*   rehydration    replaces the book by the node's, takes a sequence      *)
(*                  number and publishes nothing                           *)
(*   channel        tokio broadcast: each receiver has a position, and one *)
(*                  that is more than Cap behind is moved forward (Lagged) *)
(*   session task   forwards deltas to the outbound queue; when it lagged, *)
(*                  it sends a snapshot                                    *)
(*   request loop   handles a subscribe request (rehydrate, snapshot       *)
(*                  straight to the socket, subscribe) or drains outbound  *)
(*   client         external: takes every snapshot, takes a delta whose    *)
(*                  number follows its own, ignores older ones and notes a *)
(*                  gap                                                    *)
(*                                                                         *)
(* One side of the book (bids) is modelled; asks mirror it.  The shard of  *)
(* the market lives as long as the model (peer catch-up, which replaces    *)
(* it, is not part of this module).                                        *)
(***************************************************************************)
EXTENDS Integers, Sequences, FiniteSets

CONSTANTS Price,     \* prices of the side, integers
          MaxSize,   \* bound: size of a level
          MaxSeq,    \* bound: sequence numbers taken
          Cap,       \* capacity of the broadcast channel (4096 in the code)
          Depth      \* depth the client asked for

ASSUME PriceAssumption == Price \subseteq Int
ASSUME FeedBoundsAssumption ==
  MaxSize \in Nat /\ MaxSeq \in Nat /\ Cap \in Nat \ {0} /\ Depth \in Nat \ {0}

VARIABLES
  levels, seq,   \* SpotBook.bids (0: no level) and SpotBook.sequence
  hand,          \* publisher -> the delta it has yet to publish
  chan,          \* every delta ever sent on orderbook_tx, oldest first
  task,          \* session tasks: the current one and the one being aborted
  loop,          \* the request loop: handling a subscribe, or not
  out,           \* the outbound queue
  client,        \* what the client knows
  past,          \* ghost: past[n] is the book with sequence number n
  silent         \* ghost: sequence numbers for which nothing is published

vars == <<levels, seq, hand, chan, task, loop, out, client, past, silent>>

Size == 0..MaxSize
Book == [Price -> Size]
Number == 0..MaxSeq
Publisher == {"apply", "http"}
Slot == {"current", "aborted"}

Delta == [kind : {"delta"}, n : Number, price : Price, size : Size]
Snapshot == [kind : {"snapshot"}, n : Number, known : SUBSET Price, bids : Book]
NoDelta == [kind |-> "none"]
Task == [on : BOOLEAN, start : Nat, pos : Nat, lagged : BOOLEAN]
Client == [has : BOOLEAN, n : Number, base : Number, known : SUBSET Price, bids : Book,
           gap : BOOLEAN]

NoTask == [on |-> FALSE, start |-> 0, pos |-> 0, lagged |-> FALSE]
EmptyBook == [p \in Price |-> 0]

TypeOK ==
  /\ levels \in Book /\ seq \in Number
  /\ hand \in [Publisher -> Delta \union {NoDelta}]
  /\ chan \in Seq(Delta)
  /\ task \in [Slot -> Task]
  /\ loop \in {"idle", "rehydrated", "snapped"}
  /\ out \in Seq(Delta \union Snapshot)
  /\ client \in Client
  /\ past \in [Number -> Book]
  /\ silent \in SUBSET Number

Init ==
  /\ levels = EmptyBook /\ seq = 0
  /\ hand = [w \in Publisher |-> NoDelta]
  /\ chan = <<>>
  /\ task = [t \in Slot |-> NoTask]
  /\ loop = "idle"
  /\ out = <<>>
  /\ client = [has |-> FALSE, n |-> 0, base |-> 0, known |-> {}, bids |-> EmptyBook, gap |-> FALSE]
  /\ past = [n \in Number |-> EmptyBook]
  /\ silent = {}

-----------------------------------------------------------------------------
(* The book changes to b and takes the next sequence number. *)
Step(b) ==
  /\ seq < MaxSeq
  /\ levels' = b
  /\ seq' = seq + 1
  /\ past' = [past EXCEPT ![seq + 1] = b]

(* Mutant of LevelDelta: the delta carries the size before the change. *)
LevelDeltaBefore(p, v) == [kind |-> "delta", n |-> seq + 1, price |-> p, size |-> levels[p]]

(* The delta of a change of level p to size v: the new size, not the difference. *)
LevelDelta(p, v) == [kind |-> "delta", n |-> seq + 1, price |-> p, size |-> v]

(***************************************************************************)
(* apply_created, apply_cancelled, apply_updated, apply_filled: one level  *)
(* grows or shrinks (a shrink saturates, so an empty level may stay so).   *)
(***************************************************************************)
Change(w, p, v) ==
  /\ hand[w] = NoDelta
  /\ v # levels[p] \/ v = 0
  /\ Step([levels EXCEPT ![p] = v])
  /\ hand' = [hand EXCEPT ![w] = LevelDelta(p, v)]
  /\ UNCHANGED <<chan, task, loop, out, client, silent>>

(* The same in quiet mode (publish_ws = false). *)
ChangeQuietly(p, v) ==
  /\ hand["apply"] = NoDelta
  /\ v # levels[p] \/ v = 0
  /\ Step([levels EXCEPT ![p] = v])
  /\ silent' = silent \union {seq + 1}
  /\ UNCHANGED <<hand, chan, task, loop, out, client>>

(* publish_delta, after the lock is released. *)
Publish(w) ==
  /\ hand[w] # NoDelta
  /\ chan' = Append(chan, hand[w])
  /\ hand' = [hand EXCEPT ![w] = NoDelta]
  /\ UNCHANGED <<levels, seq, task, loop, out, client, past, silent>>

(* hydrate_from_chain replaces the book and publishes nothing. *)
HydrateTo(b) ==
  /\ Step(b)
  /\ silent' = silent \union {seq + 1}

(* Somebody else's rehydration: GET book, another subscriber, a reconnect. *)
Hydrate(b) ==
  /\ HydrateTo(b)
  /\ UNCHANGED <<hand, chan, task, loop, out, client>>

-----------------------------------------------------------------------------
Live(b) == {p \in Price : b[p] > 0}

(* Fewer than Depth levels of b are better than p: a snapshot shows what is at p. *)
Shown(b, p) == Cardinality({q \in Live(b) : q > p}) < Depth

(* book_to_ws_snapshot: the best Depth levels of the book. *)
SnapshotOf(b, n) ==
  [kind |-> "snapshot", n |-> n, known |-> {p \in Price : Shown(b, p)},
   bids |-> [p \in Price |-> IF Shown(b, p) THEN b[p] ELSE 0]]

(* The client takes a snapshot: whatever it had is forgotten. *)
TakeSnapshot(s) ==
  [has |-> TRUE, n |-> s.n, base |-> s.n, known |-> s.known, bids |-> s.bids,
   gap |-> FALSE]

(* The client takes a delta. *)
TakeDelta(c, d) ==
  IF ~ c.has \/ c.gap \/ d.n <= c.n THEN c
  ELSE IF d.n = c.n + 1
    THEN [c EXCEPT !.n = d.n, !.known = @ \union {d.price}, !.bids = [@ EXCEPT ![d.price] = d.size]]
  ELSE [c EXCEPT !.gap = TRUE]

(* handle_subscribe, first: the book is fetched from the node. *)
WsRehydrate(b) ==
  /\ loop = "idle"
  /\ HydrateTo(b)
  /\ loop' = "rehydrated"
  /\ UNCHANGED <<hand, chan, task, out, client>>

(* handle_subscribe, then: ws_snapshot goes straight to the socket, past the outbound queue. *)
WsSnapshot ==
  /\ loop = "rehydrated"
  /\ client' = TakeSnapshot(SnapshotOf(levels, seq))
  /\ loop' = "snapped"
  /\ UNCHANGED <<levels, seq, hand, chan, task, out, past, silent>>

(* An aborted task runs on until its next await: it keeps the other slot. *)
Aborted == IF task["current"].on THEN task["current"] ELSE task["aborted"]

(* handle_subscribe, last: a receiver at the end of the channel; the task  *)
(* of an earlier subscription is aborted and a new one spawned.            *)
WsSubscribe ==
  /\ loop = "snapped"
  /\ loop' = "idle"
  /\ task' = [task EXCEPT !["aborted"] = Aborted,
                          !["current"] = [on |-> TRUE, start |-> Len(chan), pos |-> Len(chan),
                                          lagged |-> FALSE]]
  /\ UNCHANGED <<levels, seq, hand, chan, out, client, past, silent>>

(* handle_unsubscribe. *)
WsUnsubscribe ==
  /\ loop = "idle" /\ task["current"].on
  /\ task' = [task EXCEPT !["aborted"] = Aborted, !["current"] = NoTask]
  /\ UNCHANGED <<levels, seq, hand, chan, loop, out, client, past, silent>>

(* The request loop, between requests, writes one outbound message to the socket. *)
Drain ==
  /\ loop = "idle" /\ out # <<>>
  /\ client' = IF Head(out).kind = "snapshot" THEN TakeSnapshot(Head(out))
               ELSE TakeDelta(client, Head(out))
  /\ out' = Tail(out)
  /\ UNCHANGED <<levels, seq, hand, chan, task, loop, past, silent>>

-----------------------------------------------------------------------------
Behind(t) == Len(chan) - task[t].pos

(* Session task: recv returned a delta. *)
Forward(t) ==
  /\ task[t].on /\ ~ task[t].lagged
  /\ Behind(t) > 0 /\ Behind(t) <= Cap
  /\ out' = Append(out, chan[task[t].pos + 1])
  /\ task' = [task EXCEPT ![t].pos = @ + 1]
  /\ UNCHANGED <<levels, seq, hand, chan, loop, client, past, silent>>

(* Mutant of Lag: the loss is ignored, as the quote channel does. *)
LagIgnored(t) ==
  /\ task[t].on /\ ~ task[t].lagged
  /\ Behind(t) > Cap
  /\ task' = [task EXCEPT ![t].pos = Len(chan) - Cap]
  /\ UNCHANGED <<levels, seq, hand, chan, loop, out, client, past, silent>>

(* Session task: recv returned Lagged and moved to the oldest message kept ... *)
Lag(t) ==
  /\ task[t].on /\ ~ task[t].lagged
  /\ Behind(t) > Cap
  /\ task' = [task EXCEPT ![t].pos = Len(chan) - Cap, ![t].lagged = TRUE]
  /\ UNCHANGED <<levels, seq, hand, chan, loop, out, client, past, silent>>

(* ... and the task queues a snapshot of the book as it is now. *)
Resync(t) ==
  /\ task[t].on /\ task[t].lagged
  /\ out' = Append(out, SnapshotOf(levels, seq))
  /\ task' = [task EXCEPT ![t].lagged = FALSE]
  /\ UNCHANGED <<levels, seq, hand, chan, loop, client, past, silent>>

(* The abort takes effect. *)
TaskEnds ==
  /\ task["aborted"].on
  /\ task' = [task EXCEPT !["aborted"] = NoTask]
  /\ UNCHANGED <<levels, seq, hand, chan, loop, out, client, past, silent>>

Next ==
  \/ \E p \in Price, v \in Size : ChangeQuietly(p, v) \/ \E w \in Publisher : Change(w, p, v)
  \/ \E w \in Publisher : Publish(w)
  \/ \E b \in Book : Hydrate(b) \/ WsRehydrate(b)
  \/ WsSnapshot \/ WsSubscribe \/ WsUnsubscribe \/ Drain
  \/ \E t \in Slot : Forward(t) \/ Lag(t) \/ Resync(t)
  \/ TaskEnds

Spec == Init /\ [][Next]_vars

-----------------------------------------------------------------------------
(***************************************************************************)
(* A client that goes by the sequence numbers is never fooled: as long as  *)
(* it has noticed no gap, the levels it was told about are exactly those   *)
(* of the server's book of that number, whatever was lost, doubled,        *)
(* swapped by publishers outside the lock, or left in the outbound queue   *)
(* by an earlier subscription.  Where its snapshot did not reach it may    *)
(* miss levels, and shows none.                                            *)
(***************************************************************************)
ViewExact ==
  client.has /\ ~ client.gap =>
    \A p \in Price :
      client.bids[p] = IF p \in client.known THEN past[client.n][p] ELSE 0

(* Nothing is on its way to the client. *)
Settled ==
  /\ loop = "idle" /\ out = <<>>
  /\ \A w \in Publisher : hand[w] = NoDelta
  /\ task["current"].on /\ ~ task["current"].lagged /\ Behind("current") = 0
  /\ ~ task["aborted"].on

PublishedBefore(i) == {chan[j].n : j \in 1..i}

(* Numbers published after a larger one. *)
Swapped == {n \in Number : \E i, j \in 1..Len(chan) : i < j /\ chan[j].n = n /\ chan[i].n > n}

(***************************************************************************)
(* Once everything has arrived, a subscribed client holds the current      *)
(* number, unless some number since its last snapshot was one nobody       *)
(* publishes (rehydration, quiet mode), was published before the           *)
(* subscription, or out of order.  In particular a receiver that lagged    *)
(* loses nothing: the snapshot makes up for what it skipped.               *)
(***************************************************************************)
SettledIsCurrent ==
  Settled /\ client.has =>
    \/ client.n = seq /\ ~ client.gap
    \/ \E n \in client.base + 1 .. seq :
         n \in silent \union PublishedBefore(task["current"].start) \union Swapped

=============================================================================
