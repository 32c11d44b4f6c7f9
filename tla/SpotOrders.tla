----------------------------- MODULE SpotOrders -----------------------------
(***************************************************************************)
(* The orders of one spot market and one price level of its book: the      *)
(* apply worker (processor.rs) against the HTTP handlers that change the   *)
(* same maps without the apply gate (http/routes/orders.rs) and against    *)
(* the readers that replace the book by the node's (book_hydrate.rs).      *)
(*                                                                         *)
(*   apply   takes the events of the node one by one: looks for the order, *)
(*           hydrates the book if that was never done, changes the level,  *)
(*           then orders_by_id and orders, step by step, and tells the     *)
(*           owner                                                         *)
(*   mark    POST mark_cancelled: archives an order at once                *)
(*   index   POST index_from_event: a client hands in its order_created    *)
(*   reader  GET of a book, WebSocket subscription: fetch, then install    *)
(*                                                                         *)
(* Limit orders have one side and price; other levels and sides do not     *)
(* meet them.  A market order is one event, market_order_executed; what it *)
(* filled are events of the limit orders.  A block is one event, and an    *)
(* event names its market (event.contract), so that prepare_block can      *)
(* always place it.                                                        *)
(***************************************************************************)
EXTENDS Naturals, Sequences, FiniteSets, Functions

CONSTANTS Order,      \* on-chain order ids
          NewSize,    \* size of an order when it is created
          MaxSize,    \* bound: size of an order
          MaxEvents,  \* bound: events of the node
          MaxAhead,   \* bound: events of the node that are not applied yet
          MaxPosts    \* bound: HTTP requests that change the index, and rehydrations

ASSUME OrderBoundsAssumption ==
  /\ MaxSize \in Nat /\ NewSize \in 1..MaxSize /\ MaxEvents \in Nat /\ MaxPosts \in Nat
  /\ MaxAhead \in Nat
ASSUME OrderAssumption == IsFiniteSet(Order)

VARIABLES
  log,       \* node: the events so far
  past,      \* node: the orders after 0, 1, 2, ... events
  applied,   \* events the apply worker is done with
  proc,      \* what each of the four is doing
  level,     \* the level of the book
  hydrated,  \* SpotBook.chain_hydrated
  orders,    \* IndexState.orders
  byId,      \* keys of IndexState.orders_by_id
  rows,      \* order rows of the tables, by the write sets of the apply worker
  history,   \* rows handed to the history lane
  holding,   \* vault_portfolio: the owner of all orders is a vault
  told,      \* what the owner and others were told of the last event
  bookAt,    \* ghost: events the level accounts for
  early,     \* ghost: orders index_from_event put in the level ahead of their event
  skew,      \* ghost: the level was put out of step with the events
  marked,    \* ghost: orders mark_cancelled was called for
  indexed,   \* ghost: orders index_from_event was called for
  posts      \* bound: requests and rehydrations so far

book == <<level, hydrated, bookAt, early, skew>>
index == <<orders, byId, rows, history>>
requests == <<marked, indexed, posts>>
vars == <<log, past, applied, proc, book, index, holding, requests, told>>

Status == {"none", "open", "partial_filled", "filled", "cancelled"}
Row == [status : Status, size : 0..MaxSize, filled : Nat]
NoRow == [status |-> "none", size |-> 0, filled |-> 0]

(* amt: quantity filled or cancelled, or the size before an update; left: what remains. *)
Event == [kind : {"created", "filled", "updated", "cancelled", "executed"}, order : Order,
          amt : 0..MaxSize, size : 0..MaxSize, left : 0..MaxSize]

(* Whether the block was applied quietly, whether the event named a client id,  *)
(* and what was sent: the order's row to its owner, the quantity traded to one. *)
NothingTold == [quiet |-> FALSE, cloid |-> FALSE, orders |-> {}, trades |-> {}]
Address == {"owner", "other"}

NoEvent == [kind |-> "none"]
Idle == [pc |-> "idle", ev |-> NoEvent, row |-> NoRow, at |-> 0]
Proc == {"apply", "mark", "index", "reader"}
Step == {"idle", "fetch", "install", "book", "insert", "put", "lookup", "modify", "unlink", "drop",
         "holding", "tell"}

TypeOK ==
  /\ log \in Seq(Event) /\ Len(log) <= MaxEvents
  /\ past \in Seq([Order -> Row]) /\ Len(past) = Len(log) + 1
  /\ applied \in 0..Len(log) /\ bookAt \in {applied, applied + 1}
  /\ \A p \in Proc : proc[p].pc \in Step
  /\ level \in Nat /\ holding \in Nat /\ hydrated \in BOOLEAN /\ skew \in BOOLEAN
  /\ orders \in [Order -> Row] /\ rows \in [Order -> Row]
  /\ history \subseteq [order : Order, row : Row]
  /\ byId \subseteq Order /\ early \subseteq Order /\ marked \subseteq Order /\ indexed \subseteq Order
  /\ posts \in 0..MaxPosts

Init ==
  /\ log = <<>> /\ past = <<[o \in Order |-> NoRow]>> /\ applied = 0
  /\ proc = [p \in Proc |-> Idle]
  /\ level = 0 /\ hydrated \in BOOLEAN /\ bookAt = 0 /\ early = {} /\ skew = FALSE
  /\ orders = [o \in Order |-> NoRow] /\ byId = {} /\ rows = [o \in Order |-> NoRow]
  /\ history = {} /\ holding = 0 /\ told = NothingTold
  /\ marked = {} /\ indexed = {} /\ posts = 0

-----------------------------------------------------------------------------
(* is_hot_order_status *)
Hot(r) == r.status \in {"open", "partial_filled"}

Remaining(r) == IF Hot(r) THEN r.size - r.filled ELSE 0

(* The node's book after k events. *)
ChainLevel(k) == SumFunction([o \in Order |-> Remaining(past[k + 1][o])])

(* The node: what an order looks like with f of s filled. *)
Chain(s, f) ==
  [status |-> IF f = s THEN "filled" ELSE IF f > 0 THEN "partial_filled" ELSE "open",
   size |-> s, filled |-> f]

(* What is left of a market order is cancelled. *)
ExecutedRow(s, f) ==
  [status |-> IF f = s THEN "filled" ELSE "cancelled", size |-> s, filled |-> f]

(* The node produces an event. *)
Emit(e, r) ==
  /\ Len(log) < MaxEvents /\ Len(log) < applied + MaxAhead
  /\ log' = Append(log, e)
  /\ past' = Append(past, [past[Len(past)] EXCEPT ![e.order] = r])
  /\ UNCHANGED <<applied, proc, book, index, holding, requests, told>>

NodeStep(o) ==
  LET r == past[Len(past)][o]
      event(k, a, s, l) == [kind |-> k, order |-> o, amt |-> a, size |-> s, left |-> l]
  IN  \/ /\ r = NoRow
         /\ Emit(event("created", 0, NewSize, NewSize), Chain(NewSize, 0))
      \/ /\ r = NoRow
         /\ \E n \in 0..NewSize :
              Emit(event("executed", n, NewSize, 0), ExecutedRow(NewSize, n))
      \/ \E n \in 1..Remaining(r) :
           Emit(event("filled", n, r.size, Remaining(r) - n), Chain(r.size, r.filled + n))
      \/ /\ Hot(r)
         /\ \E s \in (r.filled..MaxSize) \ {0, r.size} :
              Emit(event("updated", r.size, s, s - r.filled), Chain(s, r.filled))
      \/ /\ Hot(r)
         /\ Emit(event("cancelled", Remaining(r), r.size, 0), [r EXCEPT !.status = "cancelled"])

-----------------------------------------------------------------------------
(* p goes on to the given step; the apply worker is then done with its event if idle. *)
Goto(p, pc) ==
  /\ proc' = [proc EXCEPT ![p] = IF pc = "idle" THEN Idle ELSE [@ EXCEPT !.pc = pc]]
  /\ applied' = IF p = "apply" /\ pc = "idle" THEN applied + 1 ELSE applied

(* index_order_created: the order is open and unfilled, or as the caller overrides. *)
NewRow(s, status, f) == [status |-> status, size |-> s, filled |-> f]

(* index_market_order_executed: the status is derived from the quantities. *)
index_market_order_executed(e) ==
  [status |-> IF e.amt > 0 /\ e.amt >= e.size THEN "filled" ELSE "cancelled",
   size |-> e.size, filled |-> e.amt]

(* The worker ends with a message to the owner.  (The placement message of      *)
(* index_from_event changes no state and is left out; mark_cancelled sends none.) *)
Done(p) == IF p = "apply" THEN "tell" ELSE "idle"

(* Once the order is updated, a fill goes on to the portfolio. *)
Rest(p) == IF proc[p].ev.kind = "filled" THEN "holding" ELSE Done(p)

(***************************************************************************)
(* The apply worker takes the next event (apply_market_order_events).  The *)
(* order_created or market_order_executed of a known order is skipped as a *)
(* whole; a cancellation does not hydrate the book first, a market order   *)
(* has nothing to do with it.                                              *)
(***************************************************************************)
Known(e) == e.kind \in {"created", "executed"} /\ e.order \in byId

Skip ==
  /\ proc["apply"].pc = "idle" /\ applied < Len(log)
  /\ LET e == log[applied + 1]
     IN /\ Known(e)
        /\ early' = early \ {e.order}
        /\ skew' = (skew \/ (e.kind = "created" /\ e.order \notin early))
  /\ applied' = applied + 1 /\ bookAt' = bookAt + 1 /\ told' = NothingTold
  /\ UNCHANGED <<log, past, proc, level, hydrated, index, holding, requests>>

Take ==
  /\ proc["apply"].pc = "idle" /\ applied < Len(log)
  /\ LET e == log[applied + 1]
     IN /\ ~ Known(e) /\ e.kind # "executed"
        /\ proc' = [proc EXCEPT !["apply"] =
                     [pc |-> IF e.kind = "cancelled" \/ hydrated THEN "book" ELSE "fetch",
                      ev |-> e, row |-> NewRow(e.size, "open", 0), at |-> 0]]
  /\ told' = NothingTold
  /\ UNCHANGED <<log, past, applied, book, index, holding, requests>>

TakeExecuted ==
  /\ proc["apply"].pc = "idle" /\ applied < Len(log)
  /\ LET e == log[applied + 1]
     IN /\ ~ Known(e) /\ e.kind = "executed"
        /\ proc' = [proc EXCEPT !["apply"] =
                     [pc |-> "insert", ev |-> e, row |-> index_market_order_executed(e), at |-> 0]]
  /\ bookAt' = bookAt + 1 /\ told' = NothingTold
  /\ UNCHANGED <<log, past, applied, level, hydrated, early, skew, index, holding, requests>>

-----------------------------------------------------------------------------
(* hydrate_spot_from_chain: the RPC answers with the node's book of that moment ... *)
Fetch(p) ==
  /\ proc[p].pc = "fetch"
  /\ \/ proc' = [proc EXCEPT ![p] = [@ EXCEPT !.pc = "install", !.at = Len(log)]] /\ UNCHANGED applied
     \/ Goto(p, IF p = "apply" THEN "book" ELSE "idle")
  /\ UNCHANGED <<log, past, book, index, holding, requests, told>>

(* ... and hydrate_from_chain installs it later, whatever has been applied meanwhile. *)
Install(p) ==
  /\ proc[p].pc = "install"
  /\ level' = ChainLevel(proc[p].at) /\ hydrated' = TRUE
  /\ skew' = (proc[p].at # bookAt \/ early # {})
  /\ Goto(p, IF p = "apply" THEN "book" ELSE "idle")
  /\ UNCHANGED <<log, past, bookAt, early, index, holding, requests, told>>

(* A reader asks for the book (GET, WebSocket subscription, reconnect). *)
Read ==
  /\ proc["reader"].pc = "idle" /\ posts < MaxPosts
  /\ proc' = [proc EXCEPT !["reader"].pc = "fetch"]
  /\ posts' = posts + 1
  /\ UNCHANGED <<log, past, applied, book, index, holding, marked, indexed, told>>

-----------------------------------------------------------------------------
(* saturating_sub *)
Minus(a, b) == IF a > b THEN a - b ELSE 0

(* Mutant of LevelAfter: an update replaces the whole size. *)
LevelAfterWhole(l, e) ==
  CASE e.kind = "created" -> l + e.size
    [] e.kind \in {"cancelled", "filled"} -> Minus(l, e.amt)
    [] e.kind = "updated" -> Minus(l, e.amt) + e.size

(***************************************************************************)
(* apply_created, apply_cancelled, apply_filled and apply_updated on top   *)
(* of apply_level_change.  An update carries old and new size and what is  *)
(* left: the filled part is derived and taken off the old size.            *)
(***************************************************************************)
LevelAfter(l, e) ==
  CASE e.kind = "created" -> l + e.size
    [] e.kind \in {"cancelled", "filled"} -> Minus(l, e.amt)
    [] e.kind = "updated" ->
         LET old == Minus(e.amt, Minus(e.size, e.left))
         IN  IF e.left > old THEN l + (e.left - old) ELSE Minus(l, old - e.left)

(* The apply worker changes the level. *)
Book ==
  LET e == proc["apply"].ev
  IN /\ proc["apply"].pc = "book"
     /\ level' = LevelAfter(level, e)
     /\ bookAt' = bookAt + 1
     /\ skew' = (skew \/ (e.kind = "created" /\ e.order \in early))
     /\ Goto("apply", IF e.kind = "created" THEN "insert" ELSE "lookup")
     /\ UNCHANGED <<log, past, hydrated, early, index, holding, requests, told>>

-----------------------------------------------------------------------------
(* The order_created of o is among the first k events. *)
CreatedBy(o, k) == \E j \in 1..k : log[j].kind = "created" /\ log[j].order = o

(* index_from_event: is the order new?  Status and quantity filled are the caller's. *)
IndexRequest(o, skipBook, status, f) ==
  /\ proc["index"].pc = "idle" /\ posts < MaxPosts /\ CreatedBy(o, Len(log))
  /\ proc' = [proc EXCEPT !["index"] =
               [pc |-> IF o \notin byId /\ ~ skipBook THEN "book" ELSE "insert",
                ev |-> [kind |-> "created", order |-> o, amt |-> 0, size |-> NewSize, left |-> NewSize],
                row |-> NewRow(NewSize, status, f), at |-> 0]]
  /\ indexed' = indexed \union {o} /\ posts' = posts + 1
  /\ UNCHANGED <<log, past, applied, book, index, holding, marked, told>>

(* The handler adds the order it took for new to the level. *)
IndexBook ==
  LET e == proc["index"].ev
  IN /\ proc["index"].pc = "book"
     /\ level' = LevelAfter(level, e)
     /\ IF CreatedBy(e.order, bookAt) \/ e.order \in early
          THEN skew' = TRUE /\ UNCHANGED early
          ELSE early' = early \union {e.order} /\ UNCHANGED skew
     /\ Goto("index", "insert")
     /\ UNCHANGED <<log, past, hydrated, bookAt, index, holding, requests, told>>

(* insert_order: a terminal order goes to the history, a hot one to orders_by_id first ... *)
Insert(p) ==
  LET o == proc[p].ev.order
      r == proc[p].row
  IN /\ proc[p].pc = "insert"
     /\ IF Hot(r)
          THEN /\ byId' = byId \union {o}
               /\ rows' = IF p = "apply" THEN [rows EXCEPT ![o] = r] ELSE rows
               /\ Goto(p, "put") /\ UNCHANGED history
          ELSE /\ history' = history \union {[order |-> o, row |-> r]}
               /\ Goto(p, Done(p)) /\ UNCHANGED <<byId, rows>>
     /\ UNCHANGED <<log, past, book, orders, holding, requests, told>>

(* ... and to orders last. *)
Put(p) ==
  /\ proc[p].pc = "put"
  /\ orders' = [orders EXCEPT ![proc[p].ev.order] = proc[p].row]
  /\ Goto(p, Done(p))
  /\ UNCHANGED <<log, past, book, byId, rows, history, holding, requests, told>>

-----------------------------------------------------------------------------
(* mark_cancelled: the order is there and open. *)
MarkRequest(o) ==
  /\ proc["mark"].pc = "idle" /\ posts < MaxPosts /\ Hot(orders[o])
  /\ proc' = [proc EXCEPT !["mark"] =
               [pc |-> "lookup", row |-> NoRow, at |-> 0,
                ev |-> [kind |-> "cancelled", order |-> o, amt |-> 0, size |-> 0, left |-> 0]]]
  /\ marked' = marked \union {o} /\ posts' = posts + 1
  /\ UNCHANGED <<log, past, applied, book, index, holding, indexed, told>>

(* update_order_cancelled, update_order_amount, update_order_fill: the id ... *)
Lookup(p) ==
  /\ proc[p].pc = "lookup"
  /\ Goto(p, IF proc[p].ev.order \in byId THEN "modify" ELSE Rest(p))
  /\ UNCHANGED <<log, past, book, index, holding, requests, told>>

(* Mutant of Updated: an update opens the order again. *)
UpdatedToOpen(r, e) ==
  CASE e.kind = "cancelled" -> [r EXCEPT !.status = "cancelled"]
    [] e.kind = "filled" -> [r EXCEPT !.filled = @ + e.amt,
                                      !.status = IF e.left = 0 THEN "filled" ELSE "partial_filled"]
    [] e.kind = "updated" -> [r EXCEPT !.size = e.size,
                                       !.status = IF e.left = 0 THEN "filled" ELSE "open"]

(* The row after the event. *)
Updated(r, e) ==
  CASE e.kind = "cancelled" -> [r EXCEPT !.status = "cancelled"]
    [] e.kind = "filled" -> [r EXCEPT !.filled = @ + e.amt,
                                      !.status = IF e.left = 0 THEN "filled" ELSE "partial_filled"]
    [] e.kind = "updated" -> [r EXCEPT !.size = e.size,
                                       !.status = IF e.left = 0 THEN "filled"
                                                  ELSE IF r.filled > 0 THEN "partial_filled" ELSE "open"]

(* ... then the order, if it is still there: a terminal one is archived. *)
Modify(p) ==
  LET e == proc[p].ev
      r == Updated(orders[e.order], e)
  IN /\ proc[p].pc = "modify"
     /\ IF orders[e.order] = NoRow
          THEN Goto(p, Rest(p)) /\ UNCHANGED <<orders, rows>>
          ELSE /\ orders' = [orders EXCEPT ![e.order] = r]
               /\ rows' = IF Hot(r) /\ p = "apply" THEN [rows EXCEPT ![e.order] = r] ELSE rows
               /\ IF Hot(r) THEN Goto(p, Rest(p))
                  ELSE /\ proc' = [proc EXCEPT ![p] = [@ EXCEPT !.pc = "unlink", !.row = r]]
                       /\ UNCHANGED applied
     /\ UNCHANGED <<log, past, book, byId, history, holding, requests, told>>

(* Mutant of Unlink: the id is left behind. *)
UnlinkNothing(p) ==
  /\ proc[p].pc = "unlink"
  /\ Goto(p, "drop")
  /\ UNCHANGED <<log, past, book, index, holding, requests, told>>

(* archive_terminal_order, remove_hot_order: the id ... *)
Unlink(p) ==
  /\ proc[p].pc = "unlink"
  /\ byId' = byId \ {proc[p].ev.order}
  /\ Goto(p, "drop")
  /\ UNCHANGED <<log, past, book, orders, rows, history, holding, requests, told>>

(* ... the order, its row in the tables (there is a write set only with the   *)
(* apply worker), and the history.                                            *)
Drop(p) ==
  LET o == proc[p].ev.order
  IN /\ proc[p].pc = "drop"
     /\ orders' = [orders EXCEPT ![o] = NoRow]
     /\ rows' = IF p = "apply" THEN [rows EXCEPT ![o] = NoRow] ELSE rows
     /\ history' = history \union {[order |-> o, row |-> proc[p].row]}
     /\ Goto(p, Rest(p))
     /\ UNCHANGED <<log, past, book, byId, holding, requests, told>>

(* apply_vault_fill_to_portfolio of a buy. *)
Credit(e) == e.amt

stored_order_by_chain_id(o) == IF o \in byId /\ orders[o] # NoRow THEN {orders[o]} ELSE {}

(* A fill is credited to the owner's portfolio if the order is still indexed. *)
Holding ==
  LET e == proc["apply"].ev
  IN /\ proc["apply"].pc = "holding"
     /\ holding' = IF stored_order_by_chain_id(e.order) # {} THEN holding + Credit(e) ELSE holding
     /\ Goto("apply", "tell")
     /\ UNCHANGED <<log, past, book, index, requests, told>>

(* Mutant of OrderMessage: the order as it was created. *)
OrderMessageOfCreation(e) == {proc["apply"].row}

(* publish_user_order: the order as it is indexed now, if it still is, for  *)
(* its owner; a market order, which is never indexed, is passed on.         *)
OrderMessage(e) ==
  IF e.kind = "executed" THEN {proc["apply"].row} ELSE stored_order_by_chain_id(e.order)

(* The trade of a fill goes to the owner of the order if the order is indexed.  *)
(* If not, and the fill has a client id, it goes to the sender of the           *)
(* transaction: for a resting order somebody else, whose order met it.          *)
TradeMessage(e, cloid, sender) ==
  LET trade(a) == {[to |-> a, amt |-> e.amt]}
  IN  CASE e.kind = "executed" -> IF e.amt > 0 THEN trade("owner") ELSE {}
        [] e.kind = "filled" -> IF stored_order_by_chain_id(e.order) # {} THEN trade("owner")
                                ELSE IF cloid THEN trade(sender) ELSE {}
        [] OTHER -> {}

(* The event ends with its messages (UserEventHub), and without any if the     *)
(* block is applied quietly (opts.publish_ws): recovery, catch-up, a long queue. *)
Tell ==
  LET e == proc["apply"].ev
  IN /\ proc["apply"].pc = "tell"
     /\ \E quiet, cloid \in BOOLEAN, sender \in Address :
          /\ cloid => e.kind = "filled" /\ OrderMessage(e) = {}
          /\ told' = IF quiet THEN [NothingTold EXCEPT !.quiet = TRUE]
                     ELSE [quiet |-> FALSE, cloid |-> cloid, orders |-> OrderMessage(e),
                           trades |-> TradeMessage(e, cloid, sender)]
     /\ Goto("apply", "idle")
     /\ UNCHANGED <<log, past, book, index, holding, requests>>

Next ==
  \/ \E o \in Order : NodeStep(o)
  \/ Skip \/ Take \/ TakeExecuted
  \/ \E p \in {"apply", "reader"} : Fetch(p) \/ Install(p)
  \/ Read \/ Book
  \/ \E o \in Order, s \in BOOLEAN, st \in {"open", "filled"} :
       IndexRequest(o, s, st, IF st = "open" THEN 0 ELSE NewSize)
  \/ IndexBook
  \/ \E p \in {"apply", "index"} : Insert(p) \/ Put(p)
  \/ \E o \in Order : MarkRequest(o)
  \/ \E p \in {"apply", "mark"} : Lookup(p) \/ Modify(p) \/ Unlink(p) \/ Drop(p)
  \/ Holding \/ Tell

Spec == Init /\ [][Next]_vars

-----------------------------------------------------------------------------
(***************************************************************************)
(* The level is what the applied events make of the orders that rest at    *)
(* the price, plus the orders index_from_event announced ahead of their    *)
(* event.  It gets out of step only by a book installed for another height *)
(* than the worker's (a hydration on behalf of an event always does that:  *)
(* the node's book has the event already), by an order that the handler    *)
(* and the worker both take for new, and by an order indexed with          *)
(* skip_book before its event.  An install for the right height repairs it.*)
(***************************************************************************)
BookExact ==
  ~ skew => level = ChainLevel(bookAt) + NewSize * Cardinality(early)

(* No handler is in the middle of something. *)
Quiet == \A p \in Proc : proc[p].pc = "idle"

Archived(o) == {h.row : h \in {g \in history : g.order = o}}

(***************************************************************************)
(* Between events an order no HTTP handler was called for is in orders,    *)
(* under its id and in the tables exactly while it is open on chain, with  *)
(* the chain's status, size and filled quantity; when it ends it leaves    *)
(* one history row with its final state.                                   *)
(***************************************************************************)
OrdersExact ==
  proc["apply"].pc = "idle" =>
    \A o \in Order \ (marked \union indexed) :
      LET r == past[applied + 1][o]
      IN  /\ orders[o] = IF Hot(r) THEN r ELSE NoRow
          /\ rows[o] = orders[o]
          /\ (o \in byId) = Hot(r)
          /\ Archived(o) = IF r = NoRow \/ Hot(r) THEN {} ELSE {r}

(* orders and orders_by_id agree whenever nothing is in progress, also when  *)
(* mark_cancelled and the apply worker archived the same order at the same   *)
(* time.  (index_from_event of an order just being archived may leave an id  *)
(* without an order.)                                                        *)
IndexesAgree ==
  Quiet => \A o \in Order \ indexed : (o \in byId) = (orders[o] # NoRow)

(* Levels and holdings are never negative, and the two maps of orders agree. *)
IndexSound == TypeOK /\ IndexesAgree

(* All that was filled, and what was filled by the last fill of an order. *)
Fills == {k \in 1..applied : log[k].kind = "filled"}
LastFills == {k \in Fills : log[k].left = 0}

(* The portfolio never shows more than was filled, and misses no fill but the *)
(* one that completes an order: that order is archived before its owner is    *)
(* looked up.                                                                 *)
HoldingMissesOnlyLastFills ==
  LET total(K) == SumFunction([k \in K |-> log[k].amt])
  IN  marked = {} /\ indexed = {} /\ proc["apply"].pc = "idle" =>
        holding + total(LastFills) = total(Fills)

(* Of an event of an order that no handler was called for, a block applied     *)
(* quietly tells nobody anything.  Otherwise the owner gets the order as the   *)
(* chain has it then, and his trade, except of the event that ends a limit     *)
(* order: that order is archived before it is looked up for the message.  So   *)
(* `cancellation' is never sent, and the trade of the last fill goes, if the   *)
(* fill has a client id, to whoever sent the transaction, and else to nobody.  *)
OwnerTold ==
  LET e == log[applied]
      r == past[applied + 1][e.order]
      kept == e.kind = "executed" \/ Hot(r)
      trade(a) == IF e.kind \in {"filled", "executed"} /\ e.amt > 0
                   THEN {[to |-> a, amt |-> e.amt]} ELSE {}
  IN  applied > 0 /\ proc["apply"].pc = "idle" /\ e.order \notin marked \union indexed =>
        IF told.quiet THEN told.orders = {} /\ told.trades = {}
        ELSE IF kept THEN told.orders = {r} /\ told.trades = trade("owner")
        ELSE /\ told.orders = {}
             /\ IF told.cloid THEN \E a \in Address : told.trades = trade(a) ELSE told.trades = {}

(* An order's owner misses the event that ends the order, in the portfolio and *)
(* in the messages, and further only the messages of blocks applied quietly.   *)
OwnerMissesOnlyTheEnd == HoldingMissesOnlyLastFills /\ OwnerTold

=============================================================================
