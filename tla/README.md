# A TLA+ verification project for lightpool-clob-indexer

The indexer follows the receipt blocks of a LightPool node, keeps an index of
markets, orders, order books, bars, vaults and paper positions in memory,
mirrors it to RocksDB and sqlite, serves it over HTTP and WebSocket, and relays
transactions to the node's mempool. It is a concurrent program: about a dozen
long-lived tokio tasks and blocking jobs, DashMaps and per-market locks shared
between the apply worker and the HTTP and WebSocket handlers, and bounded queues
everywhere. What goes wrong in such a program is an order of steps that nobody
wrote a test for; that is what the modules here explore.

All paths below are relative to the repository root, called `src/` in
`PROJECT.json` (so `src/src/indexer/mod.rs` there is `src/indexer/mod.rs` here).

## 1. Inventory

### Components, their state and their operations

| component | code | state | operations |
|---|---|---|---|
| block write set and tables | `persist/index_write_set.rs`, `persist/index_state_tables.rs` | seven store maps and delete sets, seven column families, `last_block_num`, `last_digest` | store, delete, merge, build batch (full replace wipes first), commit, clone |
| block application | `indexer/processor.rs` | `IndexState` (DashMaps), `Books` | decode and group events, serial global events, one future per market, merge of their write sets, completion of submit waiters |
| live pipeline | `indexer/pipeline.rs`, `indexer/mod.rs` | raw and prepared channels (64 each), backlog counters, apply gate, `IndexedBlockHead` | receive, decode, apply, quiet mode from a backlog of 8, reconnect after 5 s |
| index persistence | `persist/shared.rs`, `persist/workers.rs`, `persist/index_state_write.rs`, `persist/checkpoint.rs` | `pending` counter, lanes for blocks, index writes and history, built batches, `ckpt--N` directories | enqueue, encode (4 workers), coalesce, sqlite write, build, write, epoch clone, `wait_idle` |
| shutdown and recovery | `app.rs`, `indexer/mod.rs` | cancellation token | cancel, join for 5 s, `checkpoint_once`, `wait_idle` for 10 s; load tables, replay saved blocks |
| peer catch-up | `indexer/mod.rs`, `peer/mod.rs` | buffer of at most 256 live blocks | download checkpoint and tail, import, deduplicate by digest |
| order books | `indexer/books.rs`, `book_hydrate.rs` | per market: levels, sequence, recent trades, broadcast sender | created, cancelled, updated, filled, hydrate, snapshot, publish |
| order index | `indexer/index_state.rs`, `http/routes/orders.rs` | open orders, archive, chain-id index | insert, fill, cancel, archive; HTTP cancel and index-from-event |
| bars | `bars.rs` | open bucket per market and resolution | on_trade, closer task, queries |
| paper trading | `indexer/index_state.rs`, `indexer/paper_stake_view.rs` | positions, house, queue of claims, open interest, volume, dirty flags, house ticks, history tables | open, close, liquidate, queue, harvest, fees, mark, flush, pages |
| market registry, vaults | `indexer/index_state.rs`, `slug.rs`, `spot_market.rs` | markets by id, slug, spot, name; vaults and their holdings | upsert, slug allocation, register a spot market, bind the legs of an event, resolve, vault updates |
| submit path | `submit_queue.rs`, `submit_wait.rs`, `mempool_client.rs` | bounded queue, waiters by digest, one TCP connection | submit, inject, register, send with one retry, complete, cancel, time out |
| WebSocket sessions | `ws/*` | a task per subscription, outbound queue | subscribe, unsubscribe, forward, resync after lag |
| other routes, RPC client, timing, configuration, typed-store, examples | the rest | none of their own | see the notes in `PROJECT.json` |

### How they interact

- The **receive** worker feeds **decode**, which saves the block (blocks lane)
  and feeds **apply**. Apply holds the *apply gate* while a block changes memory,
  sets the head, releases the gate, and only then enqueues the write set.
- The write set goes through two bounded queues: the **build** task makes a
  RocksDB batch (no gate), the **write** task commits it and clones the database
  at epoch ends. `pending` counts everything accepted and not yet on disk.
- `checkpoint_once` (shutdown, and the epoch machinery) takes the apply gate and
  waits for `pending = 0` with it.
- Books are changed by the apply worker, by HTTP handlers and by rehydrations
  from the node (every GET of a book, every subscription, every reconnect). Each
  change takes a sequence number under the book lock; deltas are published after
  the lock is released.
- `process_prepared_block` completes the submit waiters of the block's
  transactions before it applies the block's events.

### What is hard, and what makes each component correct

- *Write set and block application*: concurrent futures, unordered merge. Correct
  when the merged set replays to the memory the block left.
- *Persistence*: crash between any two steps, lanes that reorder, failing writes,
  a counter lowered by five tasks, a gate held while waiting. Correct when the
  tables labelled *n* are the memory of block *n*, the counter counts, a shutdown
  saves the head and ends, and a restart recovers what was there.
- *Submit path*: receipt before wait task, timeout against late receipt, retry
  that duplicates, duplicate submissions. Correct when no receipt is lost, no
  waiter leaks and everyone is answered.
- *Book feed*: deltas published outside the lock, silent rehydrations, lag,
  snapshots that overtake queued messages. Correct when a client that goes by the
  sequence numbers never shows a wrong level and lag loses nothing.
- *Orders and their book*: HTTP handlers change the maps without the apply gate, ids
  and orders are separate maps, a book hydrated from the node is at the node's head,
  ahead of events still to be applied. Correct when the index is the node's open
  orders at the applied event and the level is their sum, and when nothing but the
  known disturbances can change that.
- *Live pipeline and catch-up*: market lookup at decode time, blocks lost between
  connections, counters shared by three workers, buffer overflow, blocks that the
  snapshot and the stream both bring, failure half way. Correct when every block below
  the head is in the index once, except for the causes that can be named, and when the
  three workers are one queue.
- *Bars*: the next trade and the closer race to close a bucket, messages and rows
  leave after the lock, the lane drops and reorders, months have no fixed length.
  Correct when every bucket has one bar, the candle of its trades, and an ended bar
  reaches the table without a further trade.
- *Paper*: sums that must match their parts, dirty flags, a memory that is empty after
  every restart, history rows that overtake each other. Correct when the figures are
  those of the events since the index began, and when a closed position has its row.
- *Registry*: four maps kept in step by hand, slugs and names that collide, shells replaced
  by event legs, HTTP handlers outside the apply gate, rows for only some of it, writes that
  fail, fills that are never credited.
  Correct when the maps are inverse to each other and a restart loses shells only.
- *Sessions*: a snapshot and a subscription in two steps, receivers that lag, tasks
  aborted in the middle of a poll, publishers that go away. Correct when a client with
  nothing under way shows the current state and hears every event once.

`PROJECT.json` lists the hazards one by one, each at its line, with the
properties that cover it.

## 2. The modules

| module | what it is |
|---|---|
| `IndexWriteSet` | write sets and batches as pure operators; used by the next two |
| `BlockApply`, `MCBlockApply` | one block: serial global events, concurrent market futures, merge |
| `BlockApplyProofs` | its theorems |
| `IndexMirror` | decode, apply, blocks lane, build, write, epoch clones, shutdown checkpoint, crash, recovery |
| `IndexMirrorProofs` | its theorems |
| `SubmitWait`, `MCSubmitWait` | HTTP submit to receipt |
| `SubmitWaitProofs` | its theorems |
| `BookFeed` | the `orderbook_delta` channel of one market, from book lock to client |
| `BookFeedProofs` | its theorems |
| `BlockQueue` | the abstract specification of the live pipeline: one queue of blocks |
| `LivePipeline`, `MCLivePipeline` | connections, peer catch-up and the three workers; implements `BlockQueue` |
| `LivePipelineProofs` | its theorems, the refinement among them |
| `SpotOrders`, `MCSpotOrders` | orders and one level of a market: apply worker, HTTP handlers, rehydrating readers, messages to the owner |
| `SpotOrdersProofs` | its theorems |
| `Bars`, `MCBars` | candles of one market, from the trade to the bars table, the `bars` channel and a query |
| `BarsProofs` | its theorems |
| `Calendar` | the day arithmetic of the monthly buckets; extended by `Bars` |
| `Paper`, `MCPaper` | the paper-trading index of one market over restarts and catch-ups |
| `Registry`, `MCRegistry` | markets, slugs, spot markets and vaults, in memory and in the tables |
| `RegistryProofs` | its theorems |
| `Sessions`, `MCSessions` | one WebSocket connection and its subscriptions other than `orderbook_delta` |

Definitions whose comment starts with "Mutant of" are deliberately wrong variants
of the definition that follows them. No specification uses them; substituting
one for its original makes the property named in `PROJECT.json` fail, which shows
that the property depends on that piece of the code.

### IndexWriteSet and BlockApply

The seven column families are treated alike, line by line, by `store_*`,
`delete_*`, `merge` and `build_index_write_batch`; they are one table, and a key
stands for a column family and the key in it. `Absent` is "no row". A row's
contents are a model value: no property tells two orders apart by their fields.

`BlockApply` has one action per kind of step of `process_prepared_block`:
`GlobalStore`/`GlobalDelete` (serial events and the rehydration for unmapped
events, recorded in `ws`), `MarketStore`/`MarketDelete` (a mutation by the future
of one market, recorded in its own set), `JoinAll`, `MergeLane` in any order (the
iteration order of a hash map), `Finish`. `Owner` is the assumption under which
the code is right: the order events of two markets touch different keys. The code
has it because order, level, meta and last-trade keys contain the normalised spot
market and portfolio keys are pairs (vault, spot market), and because
`prepare_block` groups by the normalised key.

`Finish` applies the set at once; the queue in between is `IndexMirror`.

### IndexMirror

A block is its write set. Rows stored by block *n* carry the value *n*, so stale
rows are recognisable. State and code:

| variable | code |
|---|---|
| `prepared`, `ap` | prepared channel, apply worker (`got`, `applied` = gate released, `sending` = counted and waiting for room) |
| `mem`, `head` | `IndexState` and `Books`, `IndexedBlockHead` |
| `bq`, `saved` | blocks lane (4 encode workers, coalescing, one writer) and the blocks table |
| `iq`, `built` | index-write queue, built-batch queue |
| `pending` | `SharedPersist.pending` |
| `disk`, `ckpt` | tables with `last_block_num`, `ckpt--N` |
| `ck` | program counter of `checkpoint_once` |
| `expect`, `faults` | ghosts: the memory each block should leave; which disturbances happened |

The four encode workers make the order and grouping of the blocks lane arbitrary:
`SaveBlocks(S)` commits any subset. Any commit, build, write or clone may fail;
the code logs and goes on, and so does the model. A timeout of `wait_idle` is the
choice `CkBusy` (or `CkRewait` with work pending). `Crash` and `Exit` lose memory
and queues, `Recover` is `recover_from_persist`: load the tables, replay the
saved blocks above `last_block_num`, dropping the write sets of what is replayed.

The last condition matters for how properties are read: `MirrorExact`,
`CheckpointExact` and `RecoveryExact` are conditional on no failed write, no
timed-out wait and no earlier replay, because in those cases the code does not
promise it; a violation run shows the replay case. After a
recovery the ghost `expect` is rebased on the recovered memory, so later blocks
are measured against what the process really had.

Outside this module: rows that change in memory without a write set
(`hydrate_all` at `indexer/mod.rs:391`, rehydrations by HTTP and WebSocket reads,
HTTP `mark_cancelled` and `index_from_event`), of which `SpotOrders` has the orders
and `LivePipeline` the books; the `catching_up` flag and the toggling of secondary
persistence (`LivePipeline`); the history lane (`Bars` and `Paper`).

### SubmitWait

One action per step of the path: `Submit`, `Enqueue` (waits for room),
`Register` (ingress task, one job at a time; `DashMap::insert` drops an older
sender), `SendRetry`/`SendOk`/`SendFails` (mempool client with its one retry; a
failed send may have delivered), `Complete` (a block with the digest is applied),
`Receive`/`Dropped`/`Timeout`/`Cleanup` (wait task), `Inject` (bytes without a
waiter). The node is external: a delivered copy may be included at any later time
or never.

### BookFeed

One side of one market. Two publishers (apply worker, HTTP index-from-event)
change a level and take a sequence number in one step (the book lock) and publish
in another. Quiet changes and rehydrations take a number and publish nothing. The
broadcast channel keeps every message with a position per receiver; a receiver
more than `Cap` behind gets `Lagged`. The request loop handles a subscription in
three steps (rehydrate, snapshot straight to the socket, subscribe) and otherwise
drains the outbound queue; an aborted task may run a little longer. The client is
external: it takes every snapshot, a delta whose number is its own plus one,
ignores older ones and notes a gap. Peer import, which replaces the shards and
closes the receivers, is in `Sessions`, where it happens to every channel alike.

### LivePipeline and BlockQueue

One process, from a restart on: the tables of block *s* were loaded and the saved blocks
up to *h* replayed, whose write sets are dropped (`replayed`). Block *n* creates order *n*
and may cancel an earlier one by an event without a contract address, so that its market
has to be looked up when the block is prepared. `link` is where `run_once` is:

| `link` | code | actions |
|---|---|---|
| `down` | `spawn`, between two calls of `run_once` | `HydrateAll` (no write set; may fail) |
| `hydrated` | before `subscribe` | `Subscribe`, `SubscribeFails` |
| `subscribed` | `peer_catchup.take()`, first connection only | `GoLive`, `StartCatchup` |
| `buffering` | download against the live stream | `BufferBlock`, `CatchupFails`, `Downloaded` |
| `snapshot`, `importing` | the import under the apply gate | `ImportSnapshot`, `ImportPeerBlock`, `SkipBuffered`, `ImportLiveBlock`, `FinishCatchup`, and the two `?` exits `ImportSnapshotFails`, `ImportFails` |
| `live` | `run_live_pipeline` | `ReceiveBlock`, `SendRaw`; `DecodeTake`, `PrepareBlock`, `SendPrepared`; `ApplyTake`, `ApplyBlock`, `EnqueueWrite`; the `*Ends` of each worker; `PipelineEnds` |
| `stopped`, `saved` | shutdown | `TaskStops`, `SaveAtShutdown` |

The node may end the stream at any point, behind the blocks it already sent. What the
indexer loses is put into ghosts by cause (`missed`, `dropped`, `twice`, `ahead`), and
the properties say that there is no other cause. `torn` stands for a catch-up that failed
half way, of which the properties only say that flags and workers recover.

The peer exports what it has (`Snapshot`): it may have missed blocks, and hold orders as
open that it took twice or whose cancellation it looked up too early; its blocks table, the
tail, may have holes (`PeerServes`). What is wrong there is put into `inherited` when it is
imported. A buffered block that fills a hole of the tail is applied after later blocks, and
the head goes back to it.

`BlockQueue` says what the workers promise together: a queue whose head may also jump
while it is empty (a catch-up adopts a height) and which forgets its end after a
cancellation. The refinement maps `queue` to the blocks in the workers' hands and
channels, oldest first, and `last` to the head.

### SpotOrders

The node is a log of events and the orders after each of them. `Skip`, `Take`,
`Fetch`, `Install`, `Book` and then `Insert`, `Put` or `Lookup`, `Modify`, `Unlink`,
`Drop`, and for a fill `Holding`, are the steps of `apply_market_order_events` for one
event; every access to a shared map is a step of its own. `mark_cancelled`
(`MarkRequest`) and `index_from_event` (`IndexRequest`, `IndexBook`) go through the
same steps without a write set, and a reader (`Read`) through `Fetch` and `Install`.
Levels do not meet, so all resting orders are of one side and price. `rows` are the order rows of
the tables, changed where the code has a write set in its hands.

The ghosts name the disturbances. `skew` is set by exactly four things: a book
installed for another height than the worker's, an order that handler and worker both
take for new, one indexed with `skip_book` ahead of its event, and one indexed after
its event. A hydration by the apply worker itself always sets it: the node's book
contains the event it is done for. `early` are orders a handler put into the level
ahead of their event; the worker then skips the event, which makes it right.
`BookExact` says there is nothing else, and that an install at the right height
repairs the level.

A market order (`executed`) is known to the node only when it is done: `TakeExecuted`
archives it without touching book or index, unless its id is already there. `Tell` is
the moment of the messages, of which there are none if the block is applied quietly
(recovery, catch-up, a backlog); `OrderMessage` and `TradeMessage` are what is sent
otherwise. A trade is addressed: to the owner if the order is indexed, and else, if the
fill has a client id, to the sender of the transaction, who for a resting order is
whoever's order met it. `told` keeps what was said of the last event.

Outside: events without a contract address, whose market is looked up at decode time
(`LivePipeline`); recent trades.

### Bars and Calendar

One spot market. `TradeArrives` reads the clock (an argument of `on_trade`, so read
before the lock is awaited), `OnTrade` is what happens under the lock, for all
intervals at once, `PersistRolledOver` and `SendTrade` what follows. The apply worker
calls `on_trade` for the buying side of a fill and not in quiet blocks, whose trades are in
no candle; a trade here is one that was handed to `on_trade`. The closer is
`CloserTick`, `CloseExpired`, and then per bar `PersistExpired` and `SendExpired`.
`Enqueue` may drop any row (lane switched off, over its limit, full). `WriteRow`
takes the lane's rows in any order, replaces by bucket and trims; it may fail before
the commit or between commit and trimming. `Clear` is what a catch-up does to the
forming bars. A reader (`Ask`, `Answer`) loads the closed bars first and the forming bar
afterwards, as `get_bars` and the `bars` subscription do. Not here: a clock that goes
back.

The ghost `late` marks the one case in which the code replaces a stored bar by a
partial one: the closer passes between a trade's clock reading and its turn at the
lock. `BarsExact` excepts those buckets and the ones in `lost`.

`Calendar` has no actors: it compares `civil_from_days`, `days_from_civil` and
`calendar_month_start_utc` with a reference calendar of months and leap years, for
every day of its range.

### Paper

One paper market with one instrument. A block carries one event; `log` is the chain,
with what the chain's own state is after every block. `Apply` handles the event,
`Flush` what `process_prepared_block` does at the end of a block: house view, house
tick, stake tick, publication unless the block is quiet. Only the two history tables
outlive the process: `Restart` replays the blocks above the label of the index tables
(`SaveTables`) on an empty paper index, `StartCatchup` and `ImportSnapshot` continue from
a peer's snapshot, which has none either. The lane keeps a set of rows, because the
encode workers may reorder them. The apply worker waits for room for a position row
(`EnqueueRow`); a tick finds room or is dropped. A row that cannot be encoded or written is
lost with a log line (`LoseRow`), and the trim after a write may fail. `FillCheck` and
`FillInsert` are the two halves of a GET that finds no house history, `AskPositions` and
`AnswerPositions` the two reads of a GET of the positions: the open map, and later the
table, by a query whose failure is answered as an empty table. The arithmetic of `paper_house_view`,
`paper_queue_placement` and `query_paper_positions` is in pure operators; the PnL division
truncates towards zero as Rust's does.

Left out: the staked, unstaked and activity events, the open interest history and the
mint curve.

### Registry

Markets by id, `slug_to_market`, `spot_to_market`, `spot_by_name`, one vault and one
holding. A slug is the sequence of its parts, as numbers, so that a question can collide
with the numbered slug of another one. Every entry of `log` has the event, the chain after
it and the memory of a peer that has applied every block (whose tables a catch-up imports).
`Apply` and `Replay` change memory by the event's handler and keep or drop the write set;
A write set may fail (`CommitFails`), and the next one moves the label all the same.
`Restart(late)` loads the tables in an arbitrary order of the rows that compete for one
spot market; `Overlap(k)` applies again what a catch-up left in the stream, and `again` is
the last block of that round.

`spot_by_name` is a map by name: a second market of the same name takes it over, and a market
without a name is not registered at all by its `market_created`. Two HTTP handlers register
markets without the apply gate, `HttpOrder` (`index_from_event`, for a market the index does
not know) and `HttpScan` (`resolve_spot_for_name`, known markets too); `HttpCheck` and
`HttpInsert` are the two halves of `register_named_spot_market` that both go through.

A fill of the vault's order is credited only if the order is still indexed after it
(`index_fill`): the one that ends an order, or is a market order's, never is, nor one whose
order a restart or a snapshot did not bring back (`Seen`). The chain therefore carries two
sums, what the vault has (`hold`) and what the index would credit (`credited`), and
`StateExact` says that the index has the second, which is the first only as long as no fill
ended its order.

The ghosts name what may be wrong. `unmirrored` has the changes of replayed blocks and of
failed write sets; a restart that finds the label of the tables past such a change puts
its key into `lost`. `orphans` are spot markets with a shell next to their event: a handler
inserted it behind the event's back, or a restart forgot that the event had removed it.
A peer's tables (`PeerTables`) are those of an indexer that never stopped, but for one row
that it lost or has in an old version (a holding with a fill counted twice) or one shell that
it kept (`MaxFaults`); such a fault goes into `lost` and `orphans` as well.
At most two write sets are on their way (`MaxPending`).

Left out: perp markets (registered like shells), listing, filtering and search.

### Sessions

The channels differ in three ways only, and so the module has three kinds: state with a
snapshot before the subscription (oracle, quote, bars, paper.house, paper.stake), events
without a snapshot (user, paper.user, paper.positions, paper.activity), and
paper.user.state, which subscribes first and reads the state again for every message.
The states of some topics also change without a message (`ChangeUnsaid`): live blocks
applied quietly change paper.house, paper.stake and quote, and a rehydration of the book
changes quote; the `Unsaid` topics of a configuration are of that kind. Their subscribers
are behind until the next message.
A request is handled step by step (`Subscribe`, then `Snapshot`, `GetReceiver`,
`Install` in the order of its kind) by the loop that also drains the outbound queue.
A task wakes (`Wake`), takes messages (`TakeMessage`, `TakeLag`, `TakeClosed`) and parks;
an abort that finds it in the middle takes effect at its next await (`Dies`). `Close`
drops the session without aborting its tasks. A full receiver loses its oldest message and
reports a lag, as `tokio::sync::broadcast` does. `Import` drops the publishers of the
channels that `clear_all` clears.

## 3. The runs

| run | specification | distinct states | what it shows |
|---|---|---|---|
| `block_apply` | `MCBlockApply` | 100,684 | `DiskFollowsMemory`: whatever global events and concurrent futures do and in whatever order sets are merged, the tables equal the memory after the block |
| `index_mirror` | `IndexMirror` | 2,593,982 | `CountersSound` (`PendingCountsWork`); `ImagesExact` (`MirrorExact`, `CheckpointExact`); `ShutdownSavesHead`, `RecoveryExact`, `DiskHeadMonotonic` |
| `index_mirror_live` | `IndexMirror`, fair | 115,392 | `AppliedReachesDisk`, `ShutdownEnds` |
| `index_mirror_replayed_blocks` | `IndexMirror` | violation | the finding below |
| `live_pipeline` | `MCLivePipeline`, fair | 466,297 | `BlocksAccounted` (`AppliedOrExplained`, `TwiceOnlyByOverlap`) and `OpenOrdersExact`: which blocks are missing or doubled, and why; `WorkersInOrder` (`BacklogExact`, `SecondaryBackOn`); `TablesMirror` (`TablesFollow`, `StaleLevelsAreDisturbed`); the refinement `PipelineIsAQueue`; `PipelineProgress` (`ReceivedIsApplied`, `CatchupEnds`) |
| `submit_wait` | `MCSubmitWait`, fair | 418,860 | `NoLeakedWaiter`, `NoLostReceipt`, `DroppedOnlyByDuplicate`, `Answered` |
| `book_feed` | `BookFeed` | 2,913,427 | `ViewExact`, `SettledIsCurrent` |
| `spot_orders` | `MCSpotOrders` | @SPOT@ | `BookExact`, `OrdersExact`; `IndexSound` (`IndexesAgree`); `OwnerMissesOnlyTheEnd` (`HoldingMissesOnlyLastFills`, `OwnerTold`) |
| `bars` | `MCBars`, fair | 357,860 | `BucketsSound` (`BarsExact`), `ClosedMessageIsFinal`, `NoBucketTwice`, `EndedBarIsStored`; `CalendarIsRight` (`DateIsRight`, `MonthBucketStartsTheMonth`) |
| `paper` | `MCPaper` | 1,208,852 | `FiguresAddUp` (`SinceBase`, `OpenInterestDriftsUp`, `QueueAddsUp`); `LastTickIsCurrent`: no dirty mark is forgotten; `HistoryComplete` (`EmptyRowsAreOld`, `ClosedRowSurvives`) and `PagesAccountForAll`: the history, and what two reads of it at different moments show |
| `registry` | `MCRegistry` | 661,551 | `SlugsSound` (`SlugMapsBack`); `SpotsResolve` (`LegsBound`, `SpotKnown`); `StateExact`, `OnlyShellsAreVolatile` |
| `sessions` | `MCSessions`, fair | 120,784 | `ViewIsCurrent` (`SettledIsCurrent`, `DiesOnlyByImport`); `EventsDelivered` (`EventsOnceInOrder`, `EventsAccounted`); `SessionProgress` (`UnsubscribedFallsSilent`, `OrphanEnds`, `ViewSettles`) |

A property followed by names in brackets is the conjunction of those; where the module's
`TypeOK` is checked, it is a conjunct as well.

### Bounds

- `block_apply`: three keys, two of market A and one of B, two rows, three changes
  per block, any number of blocks. Three changes are enough for store-delete-store
  of one key across the global stage and a future, with another market in between.
- `index_mirror`: one key, three blocks, one crash or exit, both queues of capacity
  one, epoch length 2, at most one I/O failure. Three blocks fill both queues and
  leave one in the apply worker; one key suffices because every operator treats keys
  independently; the epoch end falls on blocks 1 and 3, so a clone and the shutdown
  clone can meet on the same block. The liveness run has two blocks.
- `submit_wait`: three requests over two digests (one submitted twice), queue of
  one, one injected copy per digest.
- `book_feed`: two prices, size 0 or 1, four sequence numbers, channel capacity one
  (so lag happens after two deltas), depth one (so a snapshot hides a level).
- `live_pipeline`: three blocks, of which the second cancels the order of the first and the
  third its own, two connections, channels of one block, quiet from a backlog of one, a buffer of one
  block, threshold one. Every height from 0 to 2 at start, with any number of replayed
  blocks below it and a chain up to two blocks ahead; every snapshot and tail a peer can
  have of them. Three blocks fill both channels and the hands of two workers, the buffer
  overflows at the second, and a snapshot can be behind, at and ahead of the buffered
  block.
- `spot_orders`: two orders of size two at one price, three events, the node at most one
  event ahead of the worker, two requests or
  rehydrations, sizes up to three; order ids are symmetric. Three events hold a
  creation, a partial fill and an update or an end, or two orders at once; two requests
  hold every pair of disturbances.
- `bars`: two intervals of two and four seconds, so that one bucket of the longer
  spans two of the shorter and both end together at 4; two prices, a zero and a
  positive volume, two trades, one row kept, so that a late row is trimmed at once; a
  query for up to two rows of the shorter interval; with two, the order of an answer can be
  wrong (a failed trimming leaves a second row). The calendar is checked for every day of a
  400-year era from 1970, after which the arithmetic repeats.
- `paper`: three positions, two of them long, two claims, four blocks of the kinds of
  one of five mixes, which also say which GETs and quiet blocks there are, two blocks per
  second (so that a tick is replaced as well as appended), two restarts or catch-ups, one
  tick kept (two after a failed trim), a lane of two rows, pages of one and two. Four blocks
  hold an opening, a restart, a close and one event more, or two openings and two closes.
- `registry`: three events, the first two with the same question and the third with the
  slug that the second gets; three spot markets, two of the same name and one without,
  which are legs of the first two events; three blocks of the kinds of one of three mixes,
  which also say which spot markets handlers and peers register, two restarts or catch-ups,
  two write sets on their way, any of which may fail, one fault in a peer's snapshot. Fills
  that do and do not end their order come in every sequence of three.
- `sessions`: five keys (oracle, paper house, one user in two spellings, that user's
  state), of which house and stake also change without a message, two or three changes and requests, receivers of one message, so that the second
  unread one makes a lag, and three tasks at a time, so that an aborted one overlaps its
  successor.

`CHECK_DEADLOCK FALSE` is set where a behaviour really ends: all blocks of the
bound applied and the process down for good, all requests answered, all sequence
numbers taken.

### Fairness

- `IndexMirror`: weak fairness of the apply worker past its gate, of the blocks
  lane, the build task, the write task and of `checkpoint_once`. These are tokio
  tasks and blocking-pool jobs that never wait for anything but the queues and the
  gate, and the gate is a fair tokio mutex. Nothing is assumed of the stream, of
  `Shutdown` or of crashes. A `wait_idle` is a poll with a deadline, so
  `CkIdle \/ CkBusy` is always possible.
- `SubmitWait`: weak fairness of the ingress task, of a send into a queue with
  room, of the wait task (its timer fires) and of its clean-up. Nothing is assumed
  of clients, of the node, or of the TCP send, which has no timeout: `Answered`
  has the premise that every mempool send returns. Without it the serial ingress
  task would hold up every later request.
- `Bars`: weak fairness of the apply worker, of the closer (an endless one-second
  ticker) and of the history lane for each bucket. Nothing is assumed of trades or of
  what the lane drops; the clock need not advance.
- `LivePipeline`: weak fairness of each of the three workers, of the download (every
  request to a peer has a timeout, so it ends one way or the other) and of the import.
  Nothing is assumed of the node, of reconnects or of a cancellation.
- `Sessions`: weak fairness of the connection loop (which includes a client that goes on
  reading), of a request in progress and of each task. Nothing is assumed of publishers
  or requests.

## 4. Findings

**Replayed blocks never reach the tables** (run `index_mirror_replayed_blocks`).
`process_block` (`indexer/processor.rs:240`), used by recovery, drops the write set. The
next live block moves `last_block_num` past the missing rows; a second crash loses them.
`persist/index_write_set.rs:13` describes one write set per applied block.

Also met. Each is a case the properties allow for explicitly, and none contradicts a
promise clear enough for a run of its own:

- `checkpoint_once` ignores the result of its second `wait_idle` (`indexer/mod.rs:221`)
  and clones anyway: after two timeouts `ckpt--N` may hold an older block.
- `register` (`submit_wait.rs:36`) replaces the waiter of an earlier request with the same
  transaction; that request ends with "submit waiter dropped".
- `mark_cancelled` (`http/routes/orders.rs:309`) removes the order without a write set; the
  `order_cancelled` that follows finds no id, so the row stays and a restart loads it.
- The event that ends a limit order archives it before its owner is looked up
  (`indexer/processor.rs:1007` and `1749`): the last fill is not credited to the vault's
  portfolio, nor are the fills of market orders, which are never indexed; `cancellation` is
  never sent, and the trade of the last fill goes, if it has a client id, to the sender of
  the transaction (`1804`), who need not be the owner, and else to nobody.
- Live blocks applied quietly (a backlog of eight) send nothing to owners, change the paper
  house, the stake totals and the quote without a message (`indexer/index_state.rs:924`,
  `indexer/books.rs:335`), and leave their trades out of the candles
  (`indexer/processor.rs:948`).
- A history row that cannot be encoded or written is dropped with a log line
  (`persist/workers.rs:217` and `370`), a write set of the index likewise
  (`persist/index_state_write.rs:157`), and the next one moves the label past it.
- A GET of paper positions reads the open map and later the table
  (`indexer/index_state.rs:1428` and `1469`): a position closed in between is listed twice,
  or not at all while its row is on its way; a failed query is an empty table (`1412`).
- `spot_by_name` keeps one market per name, the one registered last
  (`indexer/index_state.rs:2071`), and a market with an empty name is not registered.
- Blocks produced between two connections are not fetched, and only the first connection
  catches up (`indexer/mod.rs:96`). After a catch-up the stream may bring blocks the
  snapshot had already: they are applied twice and the head goes back meanwhile. A peer
  serves what its tables hold: its gaps and doubled orders become those of the indexer.
- A close of a paper position whose opening the index never saw writes a row of zeros,
  possibly over a complete one (`indexer/index_state.rs:1330`); after a restart the house
  ticks are not ordered by time until the replay has passed the hydrated ones.
- Allocation of a slug looks at the slugs in use, the event's own included
  (`indexer/index_state.rs`, `allocate_market_slug`), so a block that is applied again gives
  its event a new slug. When that block is replayed, the change is not stored; a later
  restart may then load two events with the same slug, of which one is unreachable by it.
- A shell of a spot market has a row only after a full write. When the event that removes it
  is replayed, the row stays, and a later restart loads a shell on a leg that is bound.
- The tasks of a closed WebSocket connection are not aborted (`ws/mod.rs:37`); they end
  with the next message they would forward. A chain query that fails inside
  `paper.user.state` shows as zeros.

## 5. What is proved

The proofs hold for every value of the constants that satisfies the named
assumptions; they are checked by TLAPS with Z3, Zenon and LS4.

**BlockApplyProofs** (`TypeCorrect`, `DiskMatches`), from `OwnerAssumption`,
`MaxOpsAssumption`, `AbsentIsNoRow`. `DiskFollowsMemory` speaks only of states
between blocks. The strengthening `Inv` follows a block in progress: a future
records only keys of its market (`OwnKeysOnly`), no set both stores and deletes a
key (`LanesCoherent`, without which `Merge`, stores first and deletes second, would
resurrect or lose a row), no set is a full replace, and `MemoryTracked`: the memory
is the tables, with `ws` applied, with the unmerged sets applied. Merging one lane
leaves that sum unchanged because no other lane mentions its keys.

**SubmitWaitProofs** (`SubmitTypeCorrect`, `RegistryDoesNotLeak`,
`ReceiptsAreNotLost`, `OnlyDuplicatesDrop`), from `DigestAssumption`,
`NoneAssumption`, `CapAssumption`. `IInv` says that queued requests are unregistered
(`QueueInv`, `EarlyInv`), that an entry belongs to a live request of its digest with
an open channel or one whose timer fired (`EntryInv`), that an open channel of a
parked request has its entry (`ParkedInv`), that a closed one was closed by a
duplicate or its own timeout (`ClosedInv`), and that nothing can be included before
a carrier or an injection delivered it (`DeliveryInv`, `SoleInv`); the last two turn
"a block with the transaction was applied" into "after it was registered".

**BookFeedProofs** (`FeedTypeCorrect`, `ClientIsNeverFooled`, `SettledCorrect`), from
`PriceAssumption` and `FeedBoundsAssumption`. The first argument: a sequence number is
taken under the book lock together with the change, so it names one book for ever
(`Recorded`). A delta that is true of the two books it lies between stays true
however late it arrives, and so does a snapshot. `HandTrue`, `ChanTrue`, `OutTrue`
and `ClientTrue` carry this through the publisher, the channel, the outbound queue
and the client, with no assumption about order, loss or duplication. The second, for
`SettledIsCurrent`, follows what is still to arrive (`Settling`): every number is
silent, in a publisher's hand or in the channel (`Accounted`); counted from the last
snapshot in the outbound queue, or from the client when there is none, no queued delta
leaves a gap (`Linked`) and everything the tasks took since the subscription is there
or queued (`Reached`), unless a number since that snapshot is one of the exceptions
(`Broken`, which includes a number still in hand that a larger one has overtaken).

**IndexMirrorProofs** (`CountersCorrect`, `DiskHeadNeverBack`, `ShutdownCorrect`,
`ImagesCorrect`, `RecoveryCorrect`), from `BoundsAssumption` and `RowsCarryBlock`, for any
number of keys, blocks, crashes and failures. Four layers, each on the ones before. `L1`:
`pending` is the number of accepted and unfinished jobs, nothing of a process that is down
is left. `Ordered`: the numbers in the tables, the built batches, the write queue, the
head, the apply worker's hand and the prepared queue ascend, and the checkpoint's program
counter says where its head is among them; `CalmInv` adds that without failures and
timeouts nothing overtakes the write that `checkpoint_once` waits for. `CleanInv`: in a
process that never failed, timed out or replayed, every queued write set leads from the
memory of the number before it to the memory of its own, so that the tables plus the
queue are the memory. `LinkInv`: every number on its way is in the blocks lane, the blocks table or
the tables, and a block whose predecessor is there too is one write set away from it; this
makes a replay exact. `DiskHeadNeverBack` is about this module, in which blocks arrive
once and in order; blocks that come again after a catch-up (`LivePipeline`, `Registry`) do
take the label back for a while.
The induction over the replayed blocks is done by the smallest counterexample, since
`NatInduction` takes an operator.

**LivePipelineProofs** (`WorkersCorrect`, `OpenOrdersCorrect`, `TablesCorrect`,
`BlocksCorrect`, `PipelineImplementsQueue`), from `PipelineBounds` and
`CancelsAssumption`, for any chain, any capacities and thresholds and any number of
connections. `L1` has types, phases and the two backlog counters. `L2` says that the blocks
in the workers' hands, the channels, the socket and the catch-up buffer stand in line
(`Sorted`, `Lined`): each group is increasing and below the next. `L3` has what decode
looked up against what will be in the index when the block's turn comes (`Lookups`), which
is what the open orders depend on; blocks taken twice or from a peer that had them wrong
(`Wrong`) are exempt together, and a snapshot of any peer is right up to its faults
(`SnapshotRight`). `TablesInv`, `Overlaps` and `Account` are the invariants of the three
remaining properties: the tables follow memory on everything but replayed blocks and
disturbed levels; a block in line that memory already has is one a catch-up brought; every
number up to the tip is applied, lost for a recorded reason, missing at the peer, or in
line. The refinement maps hands and channels to one sequence; each action
of a worker is a stutter, an arrival at its end, a removal at its front or, after a
cancellation, a loss at its end.

**SpotOrdersProofs** (`OrdersCorrect`, `IndexCorrect`, `LevelCorrect`, `OwnerCorrect`), from
`OrderBoundsAssumption` and `OrderAssumption` (finitely many orders), for any sizes, numbers
of events and requests. `Steady` has types, what each of the four actors can have in hand at
each program counter, and that the event log is a run of the node. `Indexed` says of an order
no HTTP handler was called for where it is, map by map, at each step of the worker that
handles it. `Joined` adds the orders that `mark_cancelled` touches: an order and its id come
and go together, or a handler that is about to remove the second is at work. `BookExact` is
inductive over `Steady`. `Credited` is the portfolio against the fills, with the one in the
worker's hand; what `Tell` sends follows from where `Indexed` finds the order by then, for
quiet and published blocks, with and without a client id and whoever sent the transaction. The level and the portfolio are sums over sets; the lemmas on `SumFunction`
(it does not depend on the order of addition, changing one summand changes the sum by the
difference) are proved by the smallest counterexample on cardinality.

**RegistryProofs** (`SlugsAreSound`, `SpotsAreResolved`, `MirrorLosesOnlyShells`,
`StateIsExact`), from `RegistryAssumption` (finitely many events, any questions), for any
mix of events, any number of blocks, restarts and catch-ups. None of the four properties is
inductive: a restart turns rows into memory, so what the memory is worth depends on rows
that may have been written long before. `IInv` therefore says three things. `MemOK`: what a
memory is worth at a block (the two slug maps are inverse, the legs of its events are bound,
every state is the chain's, or that of the last block while blocks are applied again), up to
`lost` and `orphans`. `RowsOK`: the same of the rows, for the tables and for the tables after
each write set on its way, each at its own label and up to the changes that a restart at that
label would lose. `Agree`: memory and rows differ in changes that were never written and
shells only. A failed write set is taken out of the middle of these: the rows after the ones
behind it are as good as before, up to its keys (`Skipped`, `TableSkips`). A peer's rows are
good up to its fault (`PeerBehind`). An
applied block keeps the first (`Applied`), rows that agree with a memory are as good as it
(`Stored`), and a memory loaded from good rows, in any order, is good (`LoadedOK`). That a free
suffix for a slug exists is a counting argument (`allocate_unique_slug` tries one suffix more
than there are slugs).

**BarsProofs** (`BarsAreExact`, `ClosedIsFinal`, `AnswersAreDisjoint`), from `WidthAssumption`,
`TradeAssumption` and `BarBoundsAssumption`, for any intervals of fixed length, prices,
volumes and limits. The properties hold because a closed bucket stays closed, which is a fact about
three clock readings: trades are in the order of their times, and nothing that waits for the lock
has a time ahead of the clock (`Times`). `ClosedBy` says of a bucket that a trade of a later one
is folded in or the closer has passed; a trade that still comes to it makes it late. So a row
outside `forming` is the candle of a closed bucket (`RowsOK`) and remains it; the forming bar
is the candle of the last trade's bucket (`FormingOK`); a message is a part of what its bucket
has (`MsgsOK`), and `bar_closed` all of it. `Present` follows the bars: no step takes the only
one away, and trimming only one with `Keep` newer rows, of which there stay as many. The rows
of an answer ascend because a row is placed by the number of newer ones, and those numbers are
all different (`ReaderOK`). Candles are stated by their extremes and by the cardinality of
the trades and units, so that one trade more is one lemma on finite sets.

The type invariants of `BlockApply`, `SubmitWait` and `BookFeed` (`TypeCorrect`,
`SubmitTypeCorrect`, `FeedTypeCorrect`) are proved and therefore in no run; those of the
other five modules are a part of `CountersSound`, `WorkersInOrder`, `IndexSound`, `SlugsSound`
and `BucketsSound`.
The strengthened invariants were checked with TLC before they were first proved: those of
`IndexMirror` with two crashes (5,116,124 states), those of `LivePipeline`, `SpotOrders`,
`BookFeed`, `Registry` and `Bars` with the bounds of their runs.

**Only model-checked**: the invariants of `Paper` and `Sessions`, and `CalendarIsRight`. The
figures of `Paper` and its pages are folds over sequences and sorted lists, and the calendar
is nested division; both need induction over data. `Sessions` is within reach and not done.
Out of the prover's reach altogether: liveness under fairness (`AppliedReachesDisk`,
`ShutdownEnds`, `PipelineProgress`, `Answered`, `EndedBarIsStored`, `SessionProgress`),
`ENABLED`, and what a recursive definition computes.

## 6. Plan

What would add most next:

1. Proofs for `Sessions` (`EventsDelivered` first: what a task has taken, what is in its
   receiver and what it lost add up to what was published).
2. `Paper`: the staked, unstaked and activity events and the open interest history; then
   `LastTickIsCurrent`, the one of its properties that is about no sum.
3. A composition of `LivePipeline` with the queues of `IndexMirror`, in place of the
   immediate commit.

## 7. Not modelled, and why

The node, RocksDB and sqlite are external; their atomicity
(one batch, one transaction) is assumed as the code uses it; `crates/typed-store` is a
vendored wrapper with its own derive macro and metrics. HTTP parsing, response models,
vault enrichment and the RPC client keep no state. Timing metrics influence no decision.
Perp events register a market like a shell and are left out. The examples are
command-line clients. Panics in worker tasks are not modelled (a panicking sqlite writer would
leave `pending` raised, `workers.rs:291`). Sequence numbers and amounts are
mathematical integers: the code's `u64` sequence would have to be exhausted for the
difference to show.
