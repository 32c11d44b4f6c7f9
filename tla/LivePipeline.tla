---------------------------- MODULE LivePipeline ----------------------------
(***************************************************************************)
(* The indexer task (indexer/mod.rs): connect to the node, catch up from a *)
(* peer on the first connection, run the live pipeline of                  *)
(* indexer/pipeline.rs (receive, decode, apply), reconnect when it ends.   *)
(*                                                                         *)
(* Block n creates order n and cancels order Cancels[n] (0: none), on a    *)
(* price level of its own.  The cancellation carries no contract address,  *)
(* so that its market must be looked up when the block is prepared.        *)
(* Digests follow numbers.  The apply gate and the queues between a write  *)
(* set and the tables are in IndexMirror; here a write set is committed    *)
(* when it is enqueued.                                                    *)
(***************************************************************************)
EXTENDS Naturals, Sequences, FiniteSets, SequencesExt

CONSTANTS MaxBlock,      \* bound: blocks the chain produces
          Cancels,       \* the order a block cancels
          RawCap,        \* PIPELINE_RAW_CAPACITY
          PreparedCap,   \* PIPELINE_PREPARED_CAPACITY
          QuietAt,       \* QUIET_APPLY_BACKLOG
          BufferMax,     \* PEER_LIVE_BUFFER_MAX
          Threshold,     \* peer_catchup_threshold
          MaxConns       \* bound: connections

Block == 1..MaxBlock
Height == 0..MaxBlock

ASSUME PipelineBounds ==
  /\ MaxBlock \in Nat /\ Threshold \in Nat /\ MaxConns \in Nat
  /\ RawCap \in Nat \ {0} /\ PreparedCap \in Nat \ {0}
  /\ QuietAt \in Nat \ {0} /\ BufferMax \in Nat \ {0}
ASSUME CancelsAssumption ==
  /\ Cancels \in [Block -> Height]
  /\ \A n \in Block : Cancels[n] <= n

VARIABLES
  tip,            \* the chain's height
  link,           \* where run_once is
  conns,          \* connections so far; only the first may catch up
  ws, wsEnd,      \* the subscription: undelivered blocks, and how it ends
  recv, raw, dec, prepared, app,   \* the pipeline: workers and channels
  decode_backlog, apply_backlog,
  head, connected, catching_up,    \* IndexedBlockHead
  secondary, epoch_ckpt,           \* persist flags
  mem,            \* the index: blocks in it, open orders, book levels
  tables,         \* the index-state tables, labelled with last_block_num
  buffer, imp,    \* run_peer_catchup: live buffer, progress of the import
  cancelled,
  missed,         \* ghost: produced while there was no subscription
  dropped,        \* ghost: received and thrown away
  twice,          \* ghost: applied to a memory that already had it
  overlap,        \* ghost: in the snapshot or tail, and also to come live
  ahead,          \* ghost: prepared before the order it cancels was indexed
  inherited,      \* ghost: missing from the peer's tables or tail, or wrong there
  replayed,       \* ghost: in memory since the recovery, in no write set
  torn            \* ghost: an import ended half way

node == <<tip, missed>>
stream == <<ws, wsEnd>>
workers == <<recv, raw, dec, prepared, app, decode_backlog, apply_backlog>>
flags == <<connected, catching_up, secondary, epoch_ckpt>>
catchup == <<buffer, imp>>
ghosts == <<dropped, twice, overlap, ahead, inherited, replayed, torn>>
vars == <<node, link, conns, stream, workers, head, flags, mem, tables, catchup,
          cancelled, ghosts>>

State == [done : SUBSET Block, open : SUBSET Block, book : SUBSET Block]
WriteSet == [n : Height, add : SUBSET Block, del : SUBSET Height, hydrated : BOOLEAN,
             levels : SUBSET Block]
Link == {"down", "hydrated", "subscribed", "buffering", "snapshot", "importing", "live",
         "stopped", "saved"}

Idle == [pc |-> "idle", n |-> 0]
Off == [pc |-> "off", n |-> 0]
Ended == [pc |-> "done", n |-> 0]
Empty == [done |-> {}, open |-> {}, book |-> {}]
NoImport == [c |-> 0, rows |-> {}, k |-> 0, p |-> 0, t |-> 0]
Import == [c : Height, rows : SUBSET Block, k : Height, p : Height, t : Height]

(* The orders that the given blocks create and none of them cancels. *)
OpenIn(blocks) == {b \in blocks : \A c \in blocks : Cancels[c] # b}

(* The orders the chain has open after block h. *)
OrdersAt(h) == OpenIn(1..h)

(* The index of an indexer that has applied everything up to block h. *)
Exact(h) == [done |-> 1..h, open |-> OrdersAt(h), book |-> OrdersAt(h)]

TypeOK ==
  /\ tip \in Height /\ head \in Height
  /\ link \in Link /\ conns \in 0..MaxConns
  /\ ws \in Seq(Block) /\ wsEnd \in {"open", "error", "closed"}
  /\ recv.pc \in {"off", "idle", "send", "done"} /\ recv.n \in Height
  /\ raw \in Seq(Block) /\ Len(raw) <= RawCap
  /\ dec.pc \in {"off", "idle", "got", "send", "done"} /\ dec.n \in Height
  /\ Len(prepared) <= PreparedCap
  /\ \A i \in 1..Len(prepared) : prepared[i] \in [n : Block, mapped : BOOLEAN]
  /\ app.pc \in {"off", "idle", "got", "enqueue", "done"} /\ app.n \in Height
  /\ decode_backlog \in Nat /\ apply_backlog \in Nat
  /\ connected \in BOOLEAN /\ catching_up \in BOOLEAN
  /\ secondary \in BOOLEAN /\ epoch_ckpt \in BOOLEAN
  /\ mem \in State /\ tables \in [n : Height, st : State]
  /\ buffer \in Seq(Block) /\ Len(buffer) <= BufferMax
  /\ imp \in Import
  /\ cancelled \in BOOLEAN /\ torn \in BOOLEAN
  /\ missed \subseteq Block /\ dropped \subseteq Block /\ twice \subseteq Block
  /\ overlap \subseteq Block /\ ahead \subseteq Block
  /\ inherited \subseteq Block /\ replayed \subseteq Block

(* A restart loaded the tables of block s and replayed the saved blocks up to *)
(* block h, without write sets; the chain has gone on meanwhile.              *)
Init ==
  /\ \E s, h \in 0..2, t \in Height :
       /\ s <= h /\ h <= t /\ t <= h + 2
       /\ head = h /\ tip = t /\ missed = (h + 1)..t
       /\ mem = Exact(h) /\ tables = [n |-> s, st |-> Exact(s)] /\ replayed = (s + 1)..h
  /\ link = "down" /\ conns = 0
  /\ ws = <<>> /\ wsEnd = "closed"
  /\ recv = Off /\ raw = <<>> /\ dec = Off /\ prepared = <<>> /\ app = Off
  /\ decode_backlog = 0 /\ apply_backlog = 0
  /\ connected = FALSE /\ catching_up = FALSE /\ secondary = TRUE /\ epoch_ckpt = TRUE
  /\ buffer = <<>> /\ imp = NoImport
  /\ cancelled = FALSE
  /\ dropped = {} /\ twice = {} /\ overlap = {} /\ ahead = {} /\ inherited = {}
  /\ torn = FALSE

-----------------------------------------------------------------------------
(* The node. *)
Subscribed == wsEnd = "open"

Produce ==
  /\ tip < MaxBlock
  /\ tip' = tip + 1
  /\ IF Subscribed
     THEN ws' = Append(ws, tip + 1) /\ UNCHANGED missed
     ELSE missed' = missed \union {tip + 1} /\ UNCHANGED ws
  /\ UNCHANGED <<link, conns, wsEnd, workers, head, flags, mem, tables, catchup, cancelled, ghosts>>

(* Message::Error, or the end of the stream, behind the blocks already sent. *)
StreamEnds(how) ==
  /\ Subscribed
  /\ wsEnd' = how
  /\ UNCHANGED <<node, link, conns, ws, workers, head, flags, mem, tables, catchup, cancelled, ghosts>>

-----------------------------------------------------------------------------
(* What process_prepared_block does to the index, as a write set.  A miss of *)
(* the lookup loses the event; unless the block is applied quietly all books *)
(* are then read again from the node.                                        *)
WriteSetOf(n, mapped, quiet) ==
  LET rehydrate == Cancels[n] # 0 /\ ~ mapped /\ ~ quiet
  IN  [n |-> n, add |-> {n} \ mem.open, del |-> IF mapped THEN {Cancels[n]} ELSE {},
       hydrated |-> rehydrate, levels |-> IF rehydrate THEN OrdersAt(tip) ELSE {}]

Written(st, w) ==
  [done |-> st.done \union {w.n},
   open |-> (st.open \union w.add) \ w.del,
   book |-> ((IF w.hydrated THEN w.levels ELSE st.book) \union w.add) \ w.del]

(* Mutant of Mapped: the order is looked up in the tables. *)
MappedInTables(n) == Cancels[n] \in tables.st.open

(* lookup_spot_market_for_chain_order: the order must be in the index now. *)
Mapped(n) == Cancels[n] \in mem.open

NotYetIndexed(n) == Cancels[n] # 0 /\ Cancels[n] \notin mem.done

Again(n) == IF n \in mem.done THEN {n} ELSE {}

(* run_once has returned: the flags are reset, what was not taken over is gone. *)
Disconnected ==
  /\ link' = "down"
  /\ connected' = FALSE /\ catching_up' = FALSE /\ secondary' = TRUE /\ epoch_ckpt' = TRUE
  /\ ws' = <<>> /\ wsEnd' = "closed" /\ buffer' = <<>> /\ imp' = NoImport
  /\ dropped' = dropped \union ToSet(ws) \union ToSet(buffer)
  /\ UNCHANGED <<node, conns, head, cancelled, twice, overlap, ahead, replayed>>

-----------------------------------------------------------------------------
(* run_once *)

(* hydrate_all_spot_markets without a write set; it may fail. *)
HydrateAll ==
  /\ link = "down" /\ ~ cancelled /\ conns < MaxConns
  /\ conns' = conns + 1 /\ link' = "hydrated"
  /\ mem' \in {mem, [mem EXCEPT !.book = OrdersAt(tip)]}
  /\ UNCHANGED <<node, stream, workers, head, flags, tables, catchup, cancelled, ghosts>>

Subscribe ==
  /\ link = "hydrated"
  /\ link' = "subscribed" /\ connected' = TRUE
  /\ ws' = <<>> /\ wsEnd' = "open"
  /\ UNCHANGED <<node, conns, workers, head, catching_up, secondary, epoch_ckpt, mem, tables,
                 catchup, cancelled, ghosts>>

SubscribeFails ==
  /\ link = "hydrated"
  /\ Disconnected
  /\ UNCHANGED <<workers, mem, tables, inherited, torn>>

StartPipeline ==
  /\ recv' = Idle /\ dec' = Idle /\ app' = Idle /\ raw' = <<>> /\ prepared' = <<>>
  /\ decode_backlog' = 0 /\ apply_backlog' = 0

(* No peer configured, none answered, or select_catchup_peer found none. *)
GoLive ==
  /\ link = "subscribed"
  /\ link' = "live" /\ StartPipeline
  /\ UNCHANGED <<node, conns, stream, head, flags, mem, tables, catchup, cancelled, ghosts>>

-----------------------------------------------------------------------------
(* run_peer_catchup, on the first connection only: peer_catchup.take(). *)

(* select_catchup_peer, for the tips the peers reported. *)
Candidates(tips, local) == {t \in tips : t > local + Threshold}

StartCatchup ==
  /\ link = "subscribed" /\ conns = 1
  /\ Candidates(0..tip, head) # {}
  /\ link' = "buffering" /\ catching_up' = TRUE /\ secondary' = FALSE
  /\ UNCHANGED <<node, conns, stream, workers, head, connected, epoch_ckpt, mem, tables,
                 catchup, cancelled, ghosts>>

(* A live block during the download; the oldest makes room. *)
BufferBlock ==
  /\ link = "buffering" /\ ws # <<>>
  /\ LET full == Len(buffer) >= BufferMax IN
       /\ buffer' = Append(IF full THEN Tail(buffer) ELSE buffer, Head(ws))
       /\ dropped' = IF full THEN dropped \union {Head(buffer)} ELSE dropped
  /\ ws' = Tail(ws)
  /\ UNCHANGED <<node, link, conns, wsEnd, workers, head, flags, mem, tables, imp, cancelled,
                 twice, overlap, ahead, inherited, replayed, torn>>

(* The stream ended, or a request to the peer failed or timed out. *)
CatchupFails ==
  /\ link = "buffering"
  /\ Disconnected
  /\ UNCHANGED <<workers, mem, tables, inherited, torn>>

(* The peer's tables are at block c; its blocks table goes on to block p, with *)
(* holes where the peer missed a block.                                        *)
PeerServes(c, p, rows) ==
  /\ c <= p /\ p <= tip
  /\ rows \subseteq (c + 1)..p /\ (c < p => p \in rows)

Downloaded(c, p) ==
  /\ link = "buffering"
  /\ link' = "snapshot"
  /\ \E rows \in SUBSET Block :
       /\ PeerServes(c, p, rows)
       /\ imp' = [c |-> c, rows |-> rows, k |-> c, p |-> p, t |-> c]
  /\ overlap' = {b \in ToSet(buffer) : b < c} \union {b \in ToSet(ws) : b <= p}
  /\ UNCHANGED <<node, conns, stream, workers, head, flags, mem, tables, buffer, cancelled,
                 dropped, twice, ahead, inherited, replayed, torn>>

(* The tables of a peer at block c.  The peer may have missed earlier blocks,  *)
(* and may hold orders as open whose cancellation it applied: it took the      *)
(* order's block twice, or looked the order up too early.  Its levels are those *)
(* of its orders, or read from the node.                                       *)
Snapshot(st, c) ==
  /\ c \in st.done /\ st.done \subseteq 1..c
  /\ OpenIn(st.done) \subseteq st.open /\ st.open \subseteq st.done
  /\ st.book \in {st.open, OrdersAt(c)}

(* What is wrong with it: blocks that are missing, cancellations of orders that *)
(* are missing, and orders that should not be open.                             *)
Faults(st, c) ==
  {b \in 1..c : \/ b \notin st.done \/ Cancels[b] \notin st.done \union {0}
               \/ b \in st.open \ OpenIn(st.done)}

(* apply_checkpoint_snapshot: memory first, then the tables. *)
ImportSnapshot ==
  /\ link = "snapshot"
  /\ link' = "importing"
  /\ \E st \in State :
       /\ Snapshot(st, imp.c)
       /\ mem' = st /\ tables' = [n |-> imp.c, st |-> st]
       /\ inherited' = inherited \union Faults(st, imp.c)
  /\ twice' = {} /\ ahead' = {} /\ replayed' = {}
  /\ dropped' = dropped \union (mem.done \ 1..imp.p)
  /\ UNCHANGED <<node, conns, stream, workers, head, flags, catchup, cancelled, overlap, torn>>

ImportSnapshotFails ==
  /\ link = "snapshot"
  /\ \E st \in State :
       /\ Snapshot(st, imp.c)
       /\ mem' = st /\ inherited' = inherited \union Faults(st, imp.c)
  /\ torn' = TRUE
  /\ Disconnected
  /\ UNCHANGED <<workers, tables>>

(* process_block: prepare and apply in one go, the write set is dropped. *)
ReplayQuietly(n) ==
  /\ mem' = Written(mem, WriteSetOf(n, Mapped(n), TRUE))
  /\ twice' = twice \union Again(n)
  /\ ahead' = IF NotYetIndexed(n) THEN ahead \union {n} ELSE ahead

(* The next row of the tail. *)
ImportPeerBlock ==
  /\ link = "importing" /\ imp.k < imp.p
  /\ \E n \in imp.rows :
       /\ n > imp.k /\ \A r \in imp.rows : r > imp.k => n <= r
       /\ ReplayQuietly(n)
       /\ imp' = [imp EXCEPT !.k = n, !.t = n]
       /\ inherited' = inherited \union (imp.k + 1)..(n - 1)
  /\ UNCHANGED <<node, link, conns, stream, workers, head, flags, tables, buffer, cancelled,
                 dropped, overlap, replayed, torn>>

(* decode_block_payload fails: the error leaves through the apply gate. *)
ImportFails ==
  /\ link = "importing" /\ imp.k < imp.p
  /\ torn' = TRUE
  /\ Disconnected
  /\ UNCHANGED <<workers, mem, tables, inherited>>

(* Mutant of AppliedDigests: without the snapshot's own digest. *)
AppliedDigestsOfTail == imp.rows

(* applied_digests: the snapshot's own digest and those of the tail. *)
AppliedDigests == {imp.c} \union imp.rows

SkipBuffered ==
  /\ link = "importing" /\ imp.k = imp.p /\ buffer # <<>>
  /\ Head(buffer) \in AppliedDigests
  /\ buffer' = Tail(buffer)
  /\ UNCHANGED <<node, link, conns, stream, workers, head, flags, mem, tables, imp, cancelled,
                 ghosts>>

ImportLiveBlock ==
  /\ link = "importing" /\ imp.k = imp.p /\ buffer # <<>>
  /\ Head(buffer) \notin AppliedDigests
  /\ ReplayQuietly(Head(buffer))
  /\ head' = Head(buffer) /\ imp' = [imp EXCEPT !.t = Head(buffer)]
  /\ buffer' = Tail(buffer)
  /\ UNCHANGED <<node, link, conns, stream, workers, flags, tables, cancelled, dropped, overlap,
                 inherited, replayed, torn>>

(* Mutant of FinishCatchup: catching_up is left for the reconnect to reset. *)
FinishCatchupKeepingFlag ==
  /\ link = "importing" /\ imp.k = imp.p /\ buffer = <<>>
  /\ head' = imp.t /\ tables' = [n |-> imp.t, st |-> mem]
  /\ secondary' = TRUE
  /\ imp' = NoImport
  /\ link' = "live" /\ StartPipeline
  /\ replayed' = {}
  /\ UNCHANGED <<node, conns, stream, connected, catching_up, epoch_ckpt, mem, buffer, cancelled,
                 dropped, twice, overlap, ahead, inherited, torn>>

(* The head moves, force_full_index_write replaces the tables, live begins. *)
FinishCatchup ==
  /\ link = "importing" /\ imp.k = imp.p /\ buffer = <<>>
  /\ head' = imp.t /\ tables' = [n |-> imp.t, st |-> mem]
  /\ catching_up' = FALSE /\ secondary' = TRUE
  /\ imp' = NoImport
  /\ link' = "live" /\ StartPipeline
  /\ replayed' = {}
  /\ UNCHANGED <<node, conns, stream, connected, epoch_ckpt, mem, buffer, cancelled, dropped,
                 twice, overlap, ahead, inherited, torn>>

-----------------------------------------------------------------------------
(* receive worker *)

ReceiveBlock ==
  /\ recv.pc = "idle" /\ ~ cancelled /\ ws # <<>>
  /\ recv' = [pc |-> "send", n |-> Head(ws)] /\ ws' = Tail(ws)
  /\ decode_backlog' = decode_backlog + 1
  /\ UNCHANGED <<node, link, conns, wsEnd, raw, dec, prepared, app, apply_backlog, head, flags,
                 mem, tables, catchup, cancelled, ghosts>>

SendRaw ==
  /\ recv.pc = "send" /\ dec.pc # "done" /\ Len(raw) < RawCap
  /\ raw' = Append(raw, recv.n) /\ recv' = Idle
  /\ UNCHANGED <<node, link, conns, stream, dec, prepared, app, decode_backlog, apply_backlog,
                 head, flags, mem, tables, catchup, cancelled, ghosts>>

(* Cancelled, end of stream or error; or the decode worker is gone. *)
ReceiveEnds ==
  /\ \/ recv.pc = "idle" /\ (cancelled \/ (ws = <<>> /\ ~ Subscribed)) /\ UNCHANGED decode_backlog
     \/ recv.pc = "send" /\ dec.pc = "done" /\ decode_backlog' = decode_backlog - 1
  /\ recv' = Ended
  /\ UNCHANGED <<node, link, conns, stream, raw, dec, prepared, app, apply_backlog, head, flags,
                 mem, tables, catchup, cancelled, ghosts>>

-----------------------------------------------------------------------------
(* decode worker *)

DecodeTake ==
  /\ dec.pc = "idle" /\ raw # <<>> /\ ~ cancelled
  /\ dec' = [pc |-> "got", n |-> Head(raw)] /\ raw' = Tail(raw)
  /\ decode_backlog' = decode_backlog - 1
  /\ UNCHANGED <<node, link, conns, stream, recv, prepared, app, apply_backlog, head, flags, mem,
                 tables, catchup, cancelled, ghosts>>

(* Mutant of PrepareBlock: the backlog is counted once the block is sent. *)
PrepareBlockUncounted ==
  /\ dec.pc = "got"
  /\ dec' = [pc |-> "send", n |-> dec.n, mapped |-> Mapped(dec.n)]
  /\ ahead' = IF NotYetIndexed(dec.n) THEN ahead \union {dec.n} ELSE ahead
  /\ UNCHANGED apply_backlog
  /\ UNCHANGED <<node, link, conns, stream, recv, raw, prepared, app, decode_backlog, head,
                 flags, mem, tables, catchup, cancelled, dropped, twice, overlap, inherited,
                 replayed, torn>>

(* prepare_block looks the market up now, whatever apply still has to do. *)
PrepareBlock ==
  /\ dec.pc = "got"
  /\ dec' = [pc |-> "send", n |-> dec.n, mapped |-> Mapped(dec.n)]
  /\ ahead' = IF NotYetIndexed(dec.n) THEN ahead \union {dec.n} ELSE ahead
  /\ apply_backlog' = apply_backlog + 1
  /\ UNCHANGED <<node, link, conns, stream, recv, raw, prepared, app, decode_backlog, head,
                 flags, mem, tables, catchup, cancelled, dropped, twice, overlap, inherited,
                 replayed, torn>>

SendPrepared ==
  /\ dec.pc = "send" /\ app.pc # "done" /\ Len(prepared) < PreparedCap
  /\ prepared' = Append(prepared, [n |-> dec.n, mapped |-> dec.mapped]) /\ dec' = Idle
  /\ UNCHANGED <<node, link, conns, stream, recv, raw, app, decode_backlog, apply_backlog, head,
                 flags, mem, tables, catchup, cancelled, ghosts>>

(* Mutant of DecodeEnds: the worker goes with the receive worker. *)
DecodeEndsWithReceive ==
  /\ dec.pc = "idle" /\ recv.pc = "done"
  /\ dec' = Ended /\ raw' = <<>>
  /\ UNCHANGED <<node, link, conns, stream, recv, prepared, app, decode_backlog, apply_backlog,
                 head, flags, mem, tables, catchup, cancelled, ghosts>>

(* raw is closed and empty; cancelled with a block just received; apply is gone. *)
DecodeEnds ==
  /\ \/ dec.pc = "idle" /\ raw = <<>> /\ recv.pc = "done" /\ UNCHANGED apply_backlog
     \/ dec.pc = "idle" /\ raw # <<>> /\ cancelled /\ UNCHANGED apply_backlog
     \/ dec.pc = "send" /\ app.pc = "done" /\ apply_backlog' = apply_backlog - 1
  /\ dec' = Ended /\ raw' = <<>>
  /\ UNCHANGED <<node, link, conns, stream, recv, prepared, app, decode_backlog, head, flags,
                 mem, tables, catchup, cancelled, ghosts>>

-----------------------------------------------------------------------------
(* apply worker *)

(* quiet, from the value fetch_sub returned. *)
IsQuiet(backlog) == catching_up \/ backlog - 1 >= QuietAt

ApplyTake ==
  /\ app.pc = "idle" /\ prepared # <<>> /\ ~ cancelled
  /\ LET quiet == IsQuiet(apply_backlog) IN
       /\ app' = [pc |-> "got", n |-> Head(prepared).n, mapped |-> Head(prepared).mapped,
                  quiet |-> quiet]
       /\ secondary' = ~ quiet /\ epoch_ckpt' = ~ catching_up
  /\ prepared' = Tail(prepared)
  /\ apply_backlog' = apply_backlog - 1
  /\ UNCHANGED <<node, link, conns, stream, recv, raw, dec, decode_backlog, head, connected,
                 catching_up, mem, tables, catchup, cancelled, ghosts>>

(* process_prepared_block and the new head, under the apply gate. *)
ApplyBlock ==
  /\ app.pc = "got"
  /\ LET w == WriteSetOf(app.n, app.mapped, app.quiet) IN
       /\ mem' = Written(mem, w)
       /\ app' = [pc |-> "enqueue", n |-> app.n, ws |-> w]
  /\ head' = app.n
  /\ twice' = twice \union Again(app.n)
  /\ UNCHANGED <<node, link, conns, stream, recv, raw, dec, prepared, decode_backlog,
                 apply_backlog, flags, tables, catchup, cancelled, dropped, overlap, ahead,
                 inherited, replayed, torn>>

(* Mutant of EnqueueWrite: the write set is dropped, as process_block does. *)
EnqueueWriteDropped ==
  /\ app.pc = "enqueue"
  /\ app' = Idle
  /\ UNCHANGED <<node, link, conns, stream, recv, raw, dec, prepared, decode_backlog,
                 apply_backlog, head, flags, mem, tables, catchup, cancelled, ghosts>>

EnqueueWrite ==
  /\ app.pc = "enqueue"
  /\ tables' = [n |-> app.n, st |-> Written(tables.st, app.ws)]
  /\ app' = Idle
  /\ UNCHANGED <<node, link, conns, stream, recv, raw, dec, prepared, decode_backlog,
                 apply_backlog, head, flags, mem, catchup, cancelled, ghosts>>

ApplyEnds ==
  /\ app.pc = "idle"
  /\ \/ prepared = <<>> /\ dec.pc = "done"
     \/ prepared # <<>> /\ cancelled
  /\ app' = Ended /\ prepared' = <<>>
  /\ UNCHANGED <<node, link, conns, stream, recv, raw, dec, decode_backlog, apply_backlog, head,
                 flags, mem, tables, catchup, cancelled, ghosts>>

(* run_live_pipeline returns when all three have ended. *)
PipelineEnds ==
  /\ link = "live"
  /\ recv.pc = "done" /\ dec.pc = "done" /\ app.pc = "done"
  /\ recv' = Off /\ dec' = Off /\ app' = Off
  /\ Disconnected
  /\ UNCHANGED <<raw, prepared, decode_backlog, apply_backlog, mem, tables, inherited, torn>>

-----------------------------------------------------------------------------
(* Shutdown *)

Cancel ==
  /\ ~ cancelled /\ cancelled' = TRUE
  /\ UNCHANGED <<node, link, conns, stream, workers, head, flags, mem, tables, catchup, ghosts>>

(* The select of spawn drops run_once where it stands; the pipeline's workers *)
(* are tasks of their own.                                                     *)
TaskStops ==
  /\ cancelled /\ link \notin {"stopped", "saved"}
  /\ link' = "stopped"
  /\ torn' = (torn \/ link = "importing")
  /\ UNCHANGED <<node, conns, stream, workers, head, flags, mem, tables, catchup, cancelled,
                 dropped, twice, overlap, ahead, inherited, replayed>>

(* checkpoint_once: a full write when the label of the tables is not the head. *)
SaveAtShutdown ==
  /\ link = "stopped" /\ app.pc # "got"
  /\ link' = "saved"
  /\ IF head # 0 /\ tables.n # head
     THEN tables' = [n |-> head, st |-> mem] /\ replayed' = {}
     ELSE UNCHANGED <<tables, replayed>>
  /\ UNCHANGED <<node, conns, stream, workers, head, flags, mem, catchup, cancelled, dropped,
                 twice, overlap, ahead, inherited, torn>>

Next ==
  \/ Produce \/ \E how \in {"error", "closed"} : StreamEnds(how)
  \/ HydrateAll \/ Subscribe \/ SubscribeFails \/ GoLive
  \/ StartCatchup \/ BufferBlock \/ CatchupFails
  \/ \E c, p \in Block : Downloaded(c, p)
  \/ ImportSnapshot \/ ImportSnapshotFails \/ ImportPeerBlock \/ ImportFails
  \/ SkipBuffered \/ ImportLiveBlock \/ FinishCatchup
  \/ ReceiveBlock \/ SendRaw \/ ReceiveEnds
  \/ DecodeTake \/ PrepareBlock \/ SendPrepared \/ DecodeEnds
  \/ ApplyTake \/ ApplyBlock \/ EnqueueWrite \/ ApplyEnds \/ PipelineEnds
  \/ Cancel \/ TaskStops \/ SaveAtShutdown

Spec == Init /\ [][Next]_vars

(* The workers only wait for their channels; every request to a peer has a *)
(* timeout, so a download ends one way or the other.                       *)
FairSpec ==
  /\ Spec
  /\ WF_vars(ReceiveBlock \/ SendRaw \/ ReceiveEnds)
  /\ WF_vars(DecodeTake \/ PrepareBlock \/ SendPrepared \/ DecodeEnds)
  /\ WF_vars(ApplyTake \/ ApplyBlock \/ EnqueueWrite \/ ApplyEnds)
  /\ WF_vars(CatchupFails \/ \E c, p \in Block : Downloaded(c, p))
  /\ WF_vars(ImportSnapshot \/ ImportPeerBlock \/ SkipBuffered \/ ImportLiveBlock \/ FinishCatchup)

-----------------------------------------------------------------------------
(* Properties *)

Importing == link \in {"snapshot", "importing"}

Settled == ~ Importing /\ ~ torn

(* Blocks that some fault of the connection, of the catch-up or of the peer    *)
(* kept out of the index, or that entered it in a way that loses an event.     *)
Disturbed == missed \union dropped \union inherited \union twice \union ahead

Touched(blocks) == blocks \union {Cancels[b] : b \in blocks}

(* A block below the head is in the index unless it was produced without a      *)
(* subscription, thrown away by the catch-up buffer or a disconnection, or       *)
(* missing at the peer it caught up from; the same for the tables below their    *)
(* label, from which recovery starts, which also lack the replayed blocks.       *)
AppliedOrExplained ==
  Settled =>
    /\ 1..head \subseteq mem.done \union missed \union dropped \union inherited
    /\ 1..tables.n \subseteq tables.st.done \union missed \union dropped \union inherited
                             \union replayed

(* A block is applied a second time only if the catch-up brought it while the *)
(* subscription still held it: the buffer is compared with applied_digests,   *)
(* older buffered blocks and what is still undelivered are not.               *)
TwiceOnlyByOverlap == twice \subseteq overlap

(* Whatever the decode worker looked up before apply was there, the open orders *)
(* are the chain's if every block was applied once, none of them ahead of the   *)
(* order it cancels, and no peer's faults were inherited.                       *)
OpenOrdersExact ==
  (~ Importing /\ mem.done = 1..head /\ twice = {} /\ ahead = {} /\ inherited = {})
    => mem.open = OrdersAt(head)

(* The counters of pipeline.rs are exact in every state, so remaining in the *)
(* apply worker never wraps and quiet means what it says.                    *)
BacklogExact ==
  link = "live" =>
    /\ dec.pc # "done" =>
         decode_backlog = Len(raw) + (IF recv.pc = "send" THEN 1 ELSE 0)
    /\ app.pc # "done" =>
         apply_backlog = Len(prepared) + (IF dec.pc = "send" THEN 1 ELSE 0)

(* Secondary persistence never stays off: while fewer blocks wait for apply  *)
(* than make it quiet, and whenever there is no connection, it is on.        *)
SecondaryBackOn ==
  /\ (link = "live" /\ app.pc # "done" /\ apply_backlog < QuietAt) => secondary
  /\ link = "down" => secondary /\ epoch_ckpt /\ ~ catching_up
  /\ link = "live" => ~ catching_up

(* Between two blocks the tables hold the blocks and the open orders of the     *)
(* memory, through catch-ups, reconnects and the write at shutdown, except for  *)
(* what the recovery replayed, which has no write set; and they are labelled    *)
(* with the head as soon as a live block was applied.                           *)
TablesFollow ==
  (Settled /\ app.pc # "enqueue") =>
    /\ mem.done = tables.st.done \union replayed
    /\ mem.open \ Touched(replayed) = tables.st.open \ Touched(replayed)
    /\ tables.n = head \/ head \in replayed

(* hydrate_all_spot_markets changes books without a write set.  Once everything *)
(* received is applied, the levels of the tables differ from memory's only for  *)
(* orders of blocks that were lost, replayed, applied twice or decoded early.   *)
StaleLevelsAreDisturbed ==
  (Settled /\ app.pc # "enqueue") =>
    (mem.book \union tables.st.book) \ (mem.book \intersect tables.st.book)
      \subseteq Touched(Disturbed \union replayed \union ((Block \ mem.done) \intersect 1..tip))

(* Every block is in the index once, or it is known why not. *)
BlocksAccounted == AppliedOrExplained /\ TwiceOnlyByOverlap

(* The workers keep within their channels and buffers, count right and leave *)
(* no flag behind.                                                           *)
WorkersInOrder == TypeOK /\ BacklogExact /\ SecondaryBackOn

(* The tables differ from the memory only by what the recovery replayed, and by *)
(* levels that a lost or doubled block explains.                                *)
TablesMirror == TablesFollow /\ StaleLevelsAreDisturbed

(* Blocks received and not yet applied, oldest first.  What a stopped worker *)
(* has not taken is lost.                                                    *)
Pending ==
  LET InHand(w, pcs) == IF w.pc \in pcs THEN <<w.n>> ELSE <<>>
      atApply == InHand(app, {"got"}) \o [i \in 1..Len(prepared) |-> prepared[i].n]
      atDecode == InHand(dec, {"got", "send"}) \o raw
  IN  CASE app.pc = "done" -> <<>>
        [] app.pc # "done" /\ dec.pc = "done" -> atApply
        [] OTHER -> atApply \o atDecode \o InHand(recv, {"send"})

BQ == INSTANCE BlockQueue WITH queue <- Pending, last <- head, stopping <- cancelled

(* The three workers, their two channels and the reconnects around them     *)
(* implement one queue: blocks are applied in the order they were received, *)
(* none is skipped before a shutdown, and a catch-up never moves the head   *)
(* while a received block is waiting.                                       *)
PipelineIsAQueue == BQ!QSpec

(* A block the receive worker took reaches the index, even if the stream ends. *)
ReceivedIsApplied ==
  \A b \in Block : (\E i \in 1..Len(Pending) : Pending[i] = b) ~> (b \in mem.done \/ cancelled)

(* A catch-up ends, whatever the stream and the peer do. *)
CatchupEnds == catching_up ~> (~ catching_up \/ cancelled)

(* Neither the workers nor a catch-up get stuck. *)
PipelineProgress == ReceivedIsApplied /\ CatchupEnds

=============================================================================
