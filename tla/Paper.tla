------------------------------- MODULE Paper -------------------------------
(***************************************************************************)
(* The paper-trading index of one paper market with one instrument         *)
(* (indexer/index_state.rs, the paper events of indexer/processor.rs) and  *)
(* its two history tables (persist/store.rs).  Everything but those tables *)
(* is memory only: a restart replays the blocks after the index tables'    *)
(* label on an empty paper index, a peer catch-up continues from the       *)
(* peer's snapshot, which has no paper state either.                       *)
(*                                                                         *)
(* A block carries one event.  Amounts are small numbers: position p has   *)
(* notional p + 1, claim i the amount i, free_cash counts house events.    *)
(***************************************************************************)
EXTENDS Integers, Sequences, FiniteSets, SequencesExt, FiniteSetsExt

CONSTANTS Pos,          \* position ids, numbers
          LongPos,      \* the ones that are long
          Mixes,        \* bounds: [events, gets, quiet, ticks]: kinds of events of one
                        \* chain, kinds of requests, ProcessOpts of its live blocks,
                        \* whether the lane may take ticks
          MaxBlocks,    \* bound: blocks of the chain
          PerSecond,    \* bound: blocks with the same timestamp
          MaxStarts,    \* bound: restarts and catch-ups
          HistLimit,    \* PAPER_HOUSE_HISTORY_LIMIT
          LaneCap       \* capacity of the history lane

ASSUME PaperBounds ==
  /\ Pos \subseteq Nat /\ LongPos \subseteq Pos
  /\ HistLimit \in Nat \ {0} /\ LaneCap \in Nat \ {0} /\ PerSecond \in Nat \ {0}

VARIABLES
  mix,       \* one of Mixes
  log,       \* the chain: [ev, ch] per block, ch the chain after it
  head,      \* last block applied
  base,      \* the block the paper index starts from
  phase,     \* "replay" (restart) | "catchup" | "tail" (of a catch-up) | "live"
  pc,        \* the apply worker: "idle" | "row" | "flush"
  hand,      \* the history row it is about to hand to the lane
  quiet,     \* ProcessOpts of the block in hand
  mem,       \* the paper fields of IndexState
  lane,      \* history rows on their way: encode workers may reorder them
  disk,      \* paper_house_history and paper_position_history
  saved,     \* last_block_num of the index tables
  fill,      \* a GET of the house history between its check and its insert
  page,      \* a GET of the positions between its two reads (cut, ghost: a
             \* catch-up replaced the index meanwhile)
  pub,       \* the house view last published
  starts,    \* restarts and catch-ups so far
  again,     \* ghost: blocks applied to a memory that already had them
  lostRows,  \* ghost: position rows that never reach the table
  forgotten, \* ghost: positions whose opening the index no longer has
  raced,     \* ghost: an insert of a GET replaced newer ticks
  hushed     \* ghost: the last flush was quiet

chainVars == <<mix, log>>
applyVars == <<head, base, phase, pc, hand, quiet, mem, pub>>
storeVars == <<lane, disk, saved>>
ghosts == <<again, lostRows, forgotten, raced, hushed>>
reads == <<fill, page>>
vars == <<chainVars, applyVars, storeVars, reads, starts, ghosts>>

Notional(p) == p + 1
Total(S, Amount(_)) == MapThenSumSet(Amount, S)
Id(i) == i
Marks == {2, 3}

Genesis == [open |-> {}, ever |-> {}, entry |-> [p \in Pos |-> 0], instr |-> FALSE, mark |-> 2,
            claims |-> {}, tail |-> 0, free |-> 0, volume |-> 0, pushed |-> 0, claimed |-> 0]

ChainAt(b) == IF b = 0 THEN Genesis ELSE log[b].ch
TimeAt(b) == 1 + (b - 1) \div PerSecond

Closes(b) == log[b].ev.t \in {"closed", "liquidated"}

(* PaperHouseAfter, as the events carry it. *)
House(ch) == [free |-> ch.free, queued |-> Total(ch.claims, Id),
              head |-> IF ch.claims = {} THEN ch.tail + 1 ELSE Min(ch.claims)]
NoHouse == [free |-> 0, queued |-> 0, head |-> 0]

Events(ch) ==
  {e \in [t : {"instr", "queued", "harvested", "fees", "claimed", "mark"}, p : {0}] :
     CASE e.t = "instr" -> ~ ch.instr
       [] e.t = "queued" -> ch.tail < 2
       [] e.t = "harvested" -> ch.claims # {}
       [] e.t = "fees" -> ch.pushed < 1
       [] e.t = "claimed" -> ch.claimed < ch.pushed
       [] e.t = "mark" -> TRUE}
  \union [t : {"opened"}, p : IF ch.instr /\ Pos # ch.ever THEN {Min(Pos \ ch.ever)} ELSE {}]
  \union [t : {"closed", "liquidated"}, p : ch.open]

ChainStep(ch, e) ==
  CASE e.t = "instr" -> [ch EXCEPT !.instr = TRUE]
    [] e.t = "mark" -> [ch EXCEPT !.mark = 5 - @]
    [] e.t = "opened" -> [ch EXCEPT !.open = @ \union {e.p}, !.ever = @ \union {e.p},
                                    !.entry[e.p] = ch.mark, !.volume = @ + Notional(e.p),
                                    !.free = @ + 1]
    [] e.t \in {"closed", "liquidated"} -> [ch EXCEPT !.open = @ \ {e.p}, !.free = @ + 1]
    [] e.t = "queued" -> [ch EXCEPT !.tail = @ + 1, !.claims = @ \union {ch.tail + 1},
                                    !.free = @ + 1]
    [] e.t = "harvested" -> [ch EXCEPT !.claims = @ \ {Min(ch.claims)}, !.free = @ + 1]
    [] e.t = "fees" -> [ch EXCEPT !.pushed = @ + 1, !.free = @ + 1]
    [] e.t = "claimed" -> [ch EXCEPT !.claimed = @ + 1]

-----------------------------------------------------------------------------
(* The index.  hist is NoHist while the market has no entry. *)
NoHist == <<[ts |-> 0]>>
NoFill == [on |-> FALSE, from |-> 0, got |-> <<>>]
NoPage == [on |-> FALSE, at |-> 0, open |-> <<>>, cut |-> FALSE]

Empty == [rows |-> <<>>, long |-> 0, short |-> 0, volume |-> 0, house |-> NoHouse,
          claims |-> {}, instr |-> FALSE, mark |-> 0, pushed |-> 0, claimed |-> 0,
          dirty |-> FALSE, sdirty |-> FALSE, stake |-> 0, hist |-> NoHist]

Open(m) == DOMAIN m.rows

(* apply_paper_oi_delta: saturating in both directions. *)
apply_paper_oi_delta(m, p, delta) ==
  LET Moved(v) == IF v + delta < 0 THEN 0 ELSE v + delta
  IN  IF p \in LongPos THEN [m EXCEPT !.long = Moved(@)] ELSE [m EXCEPT !.short = Moved(@)]

mark_paper_house_dirty(m) == [m EXCEPT !.dirty = TRUE]

apply_paper_house_after(m, house) == mark_paper_house_dirty([m EXCEPT !.house = house])

(* The entry price of a row is the event's. *)
upsert_paper_position_open(m, p, entry, b) ==
  LET counted == [apply_paper_oi_delta(m, p, Notional(p)) EXCEPT !.volume = @ + Notional(p)]
      row == [entry |-> entry, block |-> b]
  IN  [mark_paper_house_dirty(counted) EXCEPT
         !.rows = [q \in Open(m) \union {p} |-> IF q = p THEN row ELSE m.rows[q]]]

(* Mutant of close_paper_position: open interest is lowered for unknown rows too. *)
close_paper_position_unchecked(m, p) ==
  [mark_paper_house_dirty(apply_paper_oi_delta(m, p, - Notional(p))) EXCEPT
     !.rows = [q \in Open(m) \ {p} |-> m.rows[q]]]

(* An unknown position changes nothing but the dirty mark. *)
close_paper_position(m, p) ==
  LET removed == IF p \in Open(m) THEN apply_paper_oi_delta(m, p, - Notional(p)) ELSE m
  IN  [mark_paper_house_dirty(removed) EXCEPT !.rows = [q \in Open(m) \ {p} |-> m.rows[q]]]

(* The history row: without the open row its figures are zeros. *)
HistoryRow(m, p, b) == [t |-> "pos", p |-> p, b |-> b, full |-> p \in Open(m)]

apply_paper_queued(m, i, house) ==
  apply_paper_house_after([m EXCEPT !.claims = @ \union {i}], house)

apply_paper_harvested(m, i, house) ==
  apply_paper_house_after([m EXCEPT !.claims = @ \ {i}], house)

mark_paper_stake_dirty(m) == [m EXCEPT !.sdirty = TRUE]

apply_paper_fees_pushed(m, house) ==
  apply_paper_house_after(mark_paper_stake_dirty([m EXCEPT !.pushed = @ + 1]), house)

(* Mutant of record_oracle_mark: the house is not marked dirty. *)
record_oracle_mark_only(m, mark) == [m EXCEPT !.mark = mark]

(* The house view depends on the mark once the instrument is known. *)
mark_paper_house_dirty_for_price_market(m) == IF m.instr THEN mark_paper_house_dirty(m) ELSE m

record_oracle_mark(m, mark) == mark_paper_house_dirty_for_price_market([m EXCEPT !.mark = mark])

upsert_paper_instrument(m) == [m EXCEPT !.instr = TRUE]

apply_paper_claimed_reward(m) == mark_paper_stake_dirty([m EXCEPT !.claimed = @ + 1])

(* The house figures first, then the position. *)
index_paper_opened(m, p, b) ==
  LET ch == log[b].ch
  IN  upsert_paper_position_open(apply_paper_house_after(m, House(ch)), p, ch.entry[p], b)

index_paper_closed(m, p, b) == close_paper_position(apply_paper_house_after(m, House(log[b].ch)), p)

(* A liquidation always mints; closes here never do. *)
index_paper_liquidated(m, p, b) == mark_paper_stake_dirty(index_paper_closed(m, p, b))

(* apply_global_event, for the events of a paper market. *)
apply_global_event(m, b) ==
  LET e == log[b].ev
      ch == log[b].ch
  IN  CASE e.t = "instr" -> upsert_paper_instrument(m)
        [] e.t = "mark" -> record_oracle_mark(m, ch.mark)
        [] e.t = "opened" -> index_paper_opened(m, e.p, b)
        [] e.t = "closed" -> index_paper_closed(m, e.p, b)
        [] e.t = "liquidated" -> index_paper_liquidated(m, e.p, b)
        [] e.t = "queued" -> apply_paper_queued(m, ch.tail, House(ch))
        [] e.t = "harvested" -> apply_paper_harvested(m, Min(ChainAt(b - 1).claims), House(ch))
        [] e.t = "fees" -> apply_paper_fees_pushed(m, House(ch))
        [] e.t = "claimed" -> apply_paper_claimed_reward(m)

(* Division rounds towards zero. *)
Quotient(n, d) == IF n < 0 THEN - ((- n) \div d) ELSE n \div d

(* What the user of row p gains at the mark, or at the entry price without one. *)
UserPnl(m, p) ==
  LET entry == m.rows[p].entry
      mark == IF m.instr /\ m.mark > 0 THEN m.mark ELSE entry
      diff == IF p \in LongPos THEN mark - entry ELSE entry - mark
  IN  Quotient(Notional(p) * diff, entry)

(* paper_house_view *)
paper_house_view(m) ==
  LET Pnl(p) == UserPnl(m, p)
      pnl == - Total(Open(m), Pnl)
  IN  [lp |-> m.house.free, pnl |-> pnl, debt |-> m.house.queued,
       funds |-> m.house.free + pnl - m.house.queued,
       oi |-> m.long + m.short, positions |-> Cardinality(Open(m)), volume |-> m.volume,
       claims |-> Cardinality(m.claims),
       next |-> IF m.house.head \in m.claims THEN m.house.head
                ELSE IF m.claims = {} THEN 0 ELSE Min(m.claims)]

NoView == paper_house_view(Empty)

(* paper_queue_placement, for the owner of the claims in mine. *)
paper_queue_placement(m, mine) ==
  LET total == Total(m.claims, Id)
      yours == Total(m.claims \intersect mine, Id)
      ahead == IF m.claims \intersect mine = {} THEN 0
               ELSE Total({i \in m.claims : i < Min(m.claims \intersect mine)}, Id)
  IN  [ahead |-> ahead, yours |-> yours, behind |-> total - ahead - yours]

Tick(m, ts) ==
  LET v == paper_house_view(m)
  IN  [ts |-> ts, funds |-> v.funds, lp |-> v.lp, pnl |-> v.pnl, debt |-> v.debt]

Newest(s) == SubSeq(s, IF Len(s) > HistLimit THEN Len(s) - HistLimit + 1 ELSE 1, Len(s))

(* push_paper_house_history: one tick per timestamp, compared with the last only. *)
push_paper_house_history(m, tick) ==
  LET hist == IF m.hist = NoHist THEN <<>> ELSE m.hist
      rest == IF hist # <<>> /\ Last(hist).ts = tick.ts THEN Front(hist) ELSE hist
  IN  [m EXCEPT !.hist = Newest(Append(rest, tick))]

(* The ticks of the table from a time on, oldest first. *)
load_paper_house_history(from) ==
  Newest(SetToSortSeq({t \in disk.ticks : t.ts >= from}, LAMBDA a, b : a.ts < b.ts))

AsHist(ticks) == IF ticks = <<>> THEN NoHist ELSE ticks

-----------------------------------------------------------------------------
Init ==
  /\ mix \in Mixes
  /\ log = <<[ev |-> [t |-> "instr", p |-> 0],
              ch |-> ChainStep(Genesis, [t |-> "instr", p |-> 0])]>>
  /\ head = 0 /\ base = 0 /\ phase = "live" /\ pc = "idle" /\ quiet = FALSE
  /\ mem = Empty /\ lane = {} /\ disk = [ticks |-> {}, rows |-> {}] /\ saved = 0
  /\ fill = NoFill /\ page = NoPage /\ hand = {} /\ pub = NoView /\ starts = 0
  /\ again = {} /\ lostRows = {} /\ forgotten = {} /\ raced = FALSE /\ hushed = FALSE

(* The chain is extended as the indexer follows it, and while it is down. *)
Extend(e) ==
  /\ Len(log) < MaxBlocks
  /\ e \in Events(ChainAt(Len(log)))
  /\ e.t \in mix.events
  /\ log' = Append(log, [ev |-> e, ch |-> ChainStep(ChainAt(Len(log)), e)])

Produce(e) ==
  /\ pc = "idle" /\ (head = Len(log) \/ phase = "catchup")
  /\ Extend(e)
  /\ UNCHANGED <<mix, applyVars, storeVars, reads, starts, ghosts>>

(* One block: its event.  A close has removed the open row by the time it ... *)
ApplyEvent(b, q) ==
  /\ hand' = IF Closes(b) THEN {HistoryRow(mem, log[b].ev.p, b)} ELSE {}
  /\ mem' = apply_global_event(mem, b)
  /\ pc' = IF Closes(b) THEN "row" ELSE "flush"
  /\ quiet' = q

Apply ==
  /\ pc = "idle" /\ head < Len(log) /\ phase # "catchup"
  /\ \E q \in IF phase = "live" THEN mix.quiet ELSE {TRUE} : ApplyEvent(head + 1, q)
  /\ head' = head + 1
  /\ UNCHANGED <<chainVars, base, phase, storeVars, reads, pub, starts, ghosts>>

(* The stream still held the last block the catch-up had brought. *)
ApplyRedelivered ==
  /\ pc = "idle" /\ phase = "tail" /\ head = Len(log) /\ head > base /\ again = {}
  /\ ApplyEvent(head, FALSE)
  /\ again' = {head}
  /\ forgotten' = IF Closes(head) THEN forgotten \union {log[head].ev.p} ELSE forgotten
  /\ UNCHANGED <<chainVars, head, base, phase, storeVars, reads, pub, starts, lostRows, raced,
                 hushed>>

(* Mutant of EnqueueRow: a full lane drops the row, as it does a tick. *)
EnqueueRowOrDrop ==
  /\ pc = "row" /\ pc' = "flush" /\ hand' = {}
  /\ lane' = IF Cardinality(lane) < LaneCap THEN lane \union hand ELSE lane
  /\ UNCHANGED <<chainVars, head, base, phase, quiet, mem, pub, disk, saved, reads, starts, ghosts>>

(* ... waits for room in the lane for the history row. *)
EnqueueRow ==
  /\ pc = "row" /\ Cardinality(lane) < LaneCap
  /\ lane' = lane \union hand /\ hand' = {} /\ pc' = "flush"
  /\ UNCHANGED <<chainVars, head, base, phase, quiet, mem, pub, disk, saved, reads, starts, ghosts>>

(* Of the ticks, the last: one per timestamp. *)
record_paper_stake_tick(m, tick) == [m EXCEPT !.stake = tick]

(* A tick of the totals is kept, whether or not anyone subscribed. *)
flush_paper_stake_history(m) ==
  IF m.sdirty THEN record_paper_stake_tick([m EXCEPT !.sdirty = FALSE], m.pushed) ELSE m

(* The row of the tick is dropped when the lane is full or switched off; quiet *)
(* blocks publish nothing.                                                     *)
flush_paper_house_ws(m) ==
  LET t == Tick(m, TimeAt(head))
  IN  IF m.dirty
      THEN /\ mem' = push_paper_house_history([m EXCEPT !.dirty = FALSE], t)
           /\ \/ lane' = lane
              \/ /\ mix.ticks /\ Cardinality(lane) < LaneCap
                 /\ lane' = lane \union {[t |-> "tick", b |-> head, tick |-> t]}
           /\ pub' = IF quiet THEN pub ELSE paper_house_view(m)
           /\ hushed' = quiet
      ELSE mem' = m /\ UNCHANGED <<lane, pub, hushed>>

(* The end of the block.  The house comes first in the code; the two flushes *)
(* touch different fields.                                                    *)
Flush ==
  /\ pc = "flush" /\ pc' = "idle"
  /\ flush_paper_house_ws(flush_paper_stake_history(mem))
  /\ UNCHANGED <<chainVars, head, base, phase, hand, quiet, disk, saved, reads, starts, again,
                 lostRows, forgotten, raced>>

(* The blocks table is used up: live blocks follow. *)
ReplayEnds ==
  /\ phase \in {"replay", "tail"} /\ pc = "idle" /\ head = Len(log)
  /\ phase' = "live"
  /\ UNCHANGED <<chainVars, head, base, pc, hand, quiet, mem, pub, storeVars, reads, starts, ghosts>>

-----------------------------------------------------------------------------
PosRows(rows) == {r.p : r \in {x \in rows : x.t = "pos"}}

(* The history lane: any row may be next, and rows replace each other by key.   *)
(* The ticks are trimmed after the commit; if that fails, the rest stays until   *)
(* the next trim.                                                                *)
Kept(ticks) ==
  {t \in ticks : Cardinality({u \in ticks : u.ts > t.ts}) < HistLimit}

WriteRow(r, trimmed) ==
  /\ lane' = lane \ {r}
  /\ LET ticks == {x \in disk.ticks : x.ts # r.tick.ts} \union {r.tick}
     IN disk' = IF r.t = "pos"
                THEN [disk EXCEPT !.rows = {x \in @ : x.p # r.p} \union {r}]
                ELSE [disk EXCEPT !.ticks = IF trimmed THEN Kept(ticks) ELSE ticks]
  /\ UNCHANGED <<chainVars, applyVars, saved, reads, starts, ghosts>>

(* A row that cannot be encoded, and the rows of a batch that cannot be written, *)
(* are dropped with a line in the log.                                           *)
LoseRow(r) ==
  /\ lane' = lane \ {r}
  /\ lostRows' = lostRows \union PosRows({r})
  /\ UNCHANGED <<chainVars, applyVars, disk, saved, reads, starts, again, forgotten, raced, hushed>>

(* The index tables follow the head; what they hold is not replayed. *)
SaveTables ==
  /\ saved < head /\ pc = "idle" /\ phase = "live"
  /\ saved' = head
  /\ UNCHANGED <<chainVars, applyVars, lane, disk, reads, starts, ghosts>>

-----------------------------------------------------------------------------
(* GET of the house history with from: check and load, then insert. *)
FillCheck(from) ==
  /\ ~ fill.on /\ mem.hist = NoHist /\ load_paper_house_history(from) # <<>>
  /\ phase # "replay" /\ "house" \in mix.gets
  /\ fill' = [on |-> TRUE, from |-> from, got |-> load_paper_house_history(from)]
  /\ UNCHANGED <<chainVars, applyVars, storeVars, page, starts, ghosts>>

FillInsert ==
  /\ fill.on
  /\ mem' = [mem EXCEPT !.hist = fill.got]
  /\ raced' = (raced \/ mem.hist # NoHist)
  /\ fill' = NoFill
  /\ UNCHANGED <<chainVars, head, base, phase, pc, hand, quiet, pub, storeVars, page, starts, again,
                 lostRows, forgotten, hushed>>

(* GET of the positions, of any status: the open rows, the last opened first, ... *)
OpenList == SetToSortSeq(Open(mem), LAMBDA p, q : mem.rows[p].block > mem.rows[q].block)

AskPositions ==
  /\ ~ page.on /\ phase # "replay" /\ "positions" \in mix.gets
  /\ page' = [on |-> TRUE, at |-> head, open |-> OpenList, cut |-> FALSE]
  /\ UNCHANGED <<chainVars, applyVars, storeVars, fill, starts, ghosts>>

(* ... and the rows of the table, by a query that comes later. *)
ClosedList ==
  LET byBlock == SetToSortSeq(disk.rows, LAMBDA r, s : r.b > s.b)
  IN  [i \in 1..Len(byBlock) |-> byBlock[i].p]

(* A query that fails is answered as an empty table. *)
query_closed_history(ok) == IF ok THEN ClosedList ELSE <<>>

Cut(s, skip, take) == SubSeq(s, skip + 1, IF skip + take < Len(s) THEN skip + take ELSE Len(s))

(* Mutant of query_paper_positions: the offset is not lowered by the open rows. *)
query_paper_positions_plain(limit, offset, ok) ==
  LET open == Cut(page.open, offset, limit)
  IN  open \o Cut(query_closed_history(ok), offset, limit - Len(open))

(* What the GET answers if its query is made now. *)
query_paper_positions(limit, offset, ok) ==
  LET open == Cut(page.open, offset, limit)
      skip == IF offset > Len(page.open) THEN offset - Len(page.open) ELSE 0
  IN  open \o Cut(query_closed_history(ok), skip, limit - Len(open))

AnswerPositions ==
  /\ page.on /\ page' = NoPage
  /\ UNCHANGED <<chainVars, applyVars, storeVars, fill, starts, ghosts>>

-----------------------------------------------------------------------------
(* Crash and recovery: load_into, hydrate_paper_house_history_from_persist, and *)
(* the replay of the blocks after the label.                                    *)
Restart ==
  /\ starts < MaxStarts /\ starts' = starts + 1
  /\ mem' = [Empty EXCEPT !.hist = AsHist(load_paper_house_history(0))]
  /\ head' = saved /\ base' = saved /\ forgotten' = forgotten \union ChainAt(saved).ever
  /\ phase' = "replay" /\ pc' = "idle" /\ quiet' = FALSE /\ pub' = NoView /\ hushed' = TRUE
  /\ lane' = {} /\ lostRows' = lostRows \union PosRows({r \in lane \union hand : r.b <= saved})
  /\ fill' = NoFill /\ page' = NoPage /\ hand' = {}
  /\ again' = {} /\ raced' = FALSE
  /\ UNCHANGED <<chainVars, disk, saved>>

(* The first connection finds a peer ahead ... *)
StartCatchup ==
  /\ phase = "live" /\ pc = "idle" /\ starts > 0 /\ starts < MaxStarts /\ again = {}
  /\ phase' = "catchup" /\ starts' = starts + 1
  /\ UNCHANGED <<chainVars, head, base, pc, hand, quiet, mem, pub, storeVars, reads, ghosts>>

(* ... and takes its snapshot of block c: apply_checkpoint_snapshot clears the *)
(* index and deletes the position rows after c.                                *)
ImportSnapshot(c) ==
  /\ phase = "catchup"
  /\ c \in 1..Len(log)
  /\ mem' = Empty
  /\ head' = c /\ base' = c /\ saved' = c /\ forgotten' = forgotten \union ChainAt(c).ever
  /\ disk' = [disk EXCEPT !.rows = {r \in @ : r.b <= c}]
  /\ lostRows' = lostRows \union {log[b].ev.p : b \in {x \in (head + 1)..c : Closes(x)}}
  /\ phase' = "tail" /\ quiet' = TRUE /\ hushed' = TRUE /\ page' = [page EXCEPT !.cut = page.on]
  /\ UNCHANGED <<chainVars, pc, hand, pub, lane, fill, starts, again, raced>>

Next ==
  \/ \E e \in Events(ChainAt(Len(log))) : Produce(e)
  \/ Apply \/ ApplyRedelivered \/ EnqueueRow \/ Flush \/ ReplayEnds
  \/ \E r \in lane : LoseRow(r) \/ \E trimmed \in BOOLEAN : WriteRow(r, trimmed)
  \/ SaveTables
  \/ \E from \in {0, 2} : FillCheck(from)
  \/ FillInsert \/ AskPositions \/ AnswerPositions
  \/ Restart \/ StartCatchup \/ \E c \in 1..Len(log) : ImportSnapshot(c)

Spec == Init /\ [][Next]_vars

-----------------------------------------------------------------------------
(* Properties *)

TypeOK ==
  /\ head \in 0..Len(log) /\ saved \in 0..Len(log) /\ base \in 0..head
  /\ phase \in {"replay", "catchup", "tail", "live"} /\ pc \in {"idle", "row", "flush"}
  /\ Open(mem) \subseteq Pos /\ mem.long \in Nat /\ mem.short \in Nat
  /\ Cardinality(lane) <= LaneCap /\ (hand # {}) = (pc = "row")
  /\ mem.hist = NoHist \/ Len(mem.hist) <= HistLimit

HouseEvent(b) == log[b].ev.t \notin {"instr", "mark", "claimed"}

(* Whatever restarts and catch-ups there were, the index is exactly what the *)
(* events after its base add up to: positions opened before it are unknown,  *)
(* closing them changes nothing, and the lifetime figures restart from zero. *)
SinceBase ==
  (again = {} /\ phase # "catchup") =>
    LET now == ChainAt(head)
        then == ChainAt(base)
    IN  /\ Open(mem) = now.open \ then.ever
        /\ mem.claims = {i \in now.claims : i > then.tail}
        /\ mem.volume = now.volume - then.volume
        /\ mem.pushed = now.pushed - then.pushed
        /\ mem.claimed = now.claimed - then.claimed
        /\ mem.house = IF \E b \in (base + 1)..head : HouseEvent(b) THEN House(now) ELSE NoHouse

(* Open interest is the sum of the open rows.  A block applied twice only *)
(* raises it: nothing ever takes the surplus back.                        *)
OpenInterestDriftsUp ==
  LET long == Total(Open(mem) \intersect LongPos, Notional)
      short == Total(Open(mem) \ LongPos, Notional)
  IN  /\ mem.long >= long /\ mem.short >= short
      /\ again = {} => mem.long = long /\ mem.short = short

(* Everything the house view depends on marks the market dirty: between two *)
(* blocks the last tick is the current view, and so is the last published   *)
(* one unless the block was quiet; the stake figure is the rewards total.   *)
LastTickIsCurrent ==
  (pc = "idle" /\ phase # "catchup") =>
    /\ mem.stake = mem.pushed
    /\ (\E b \in (base + 1)..head : HouseEvent(b)) =>
         /\ mem.hist # NoHist
         /\ ~ raced => Last(mem.hist) = Tick(mem, Last(mem.hist).ts)
         /\ ~ hushed => pub = paper_house_view(mem)

(* A history row of zeros belongs to a position opened before a restart or a *)
(* snapshot, or closed by a block applied twice: then it may have replaced a *)
(* complete row.                                                             *)
EmptyRowsAreOld ==
  \A r \in disk.rows \union hand \union {x \in lane : x.t = "pos"} : r.full \/ r.p \in forgotten

(* A close up to the head has its row in the table or on the way there, unless *)
(* the row could not be written, a crash lost it after the index tables had    *)
(* the block, or a snapshot skipped the block.  A full lane loses none.        *)
ClosedRowSurvives ==
  \A b \in 1..head :
    Closes(b) => log[b].ev.p \in PosRows(disk.rows \union lane \union hand) \union lostRows

(* A GET reads the open positions, and the table later.  Whatever happens in     *)
(* between, the pages that two such reads give together list every position that *)
(* had been opened, except one whose row is still on its way to the table or was *)
(* lost, and an open one the index does not know; and they list a position twice *)
(* only if it was closed by a block after the one the open positions were read   *)
(* at.  (A catch-up in between may delete rows.)  If the query fails, the closed *)
(* positions are missing, and no others; the answer does not say so.             *)
PagesAccountForAll ==
  page.on =>
    \A limit \in 1..2, ok \in BOOLEAN :
      LET n == Len(page.open) + Len(ClosedList)
          list == FlattenSeq([k \in 1..(n + 1) |-> query_paper_positions(limit, (k - 1) * limit, ok)])
          opened == IF page.cut THEN {}
                    ELSE IF ok THEN ChainAt(page.at).ever ELSE ChainAt(page.at).open
          late == PosRows(lane \union hand) \union lostRows
          unknown == forgotten \intersect ChainAt(page.at).open
      IN  /\ opened \subseteq Range(list) \union late \union unknown
          /\ \A i, j \in 1..Len(list) :
               i < j /\ list[i] = list[j] =>
                 ok /\ \E b \in (page.at + 1)..Len(log) : Closes(b) /\ log[b].ev.p = list[i]

(* The queue shown to users adds up: what is ahead of, of and behind a user is *)
(* the debt the house event carried, if the index saw every claim.             *)
QueueAddsUp ==
  (base = 0 /\ again = {}) =>
    \A mine \in SUBSET {1, 2} :
      LET q == paper_queue_placement(mem, mine)
      IN  q.ahead + q.yours + q.behind = mem.house.queued /\ q.behind >= 0

(* The figures of the paper index are those of the events since its base, and *)
(* add up.                                                                    *)
FiguresAddUp == TypeOK /\ SinceBase /\ OpenInterestDriftsUp /\ QueueAddsUp

(* A closed position has one row, and a complete one, unless it is known why not. *)
HistoryComplete == EmptyRowsAreOld /\ ClosedRowSurvives

=============================================================================
