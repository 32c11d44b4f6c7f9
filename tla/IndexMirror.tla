---------------------------- MODULE IndexMirror ----------------------------
(***************************************************************************)
(* The index-state mirror: how the write sets of applied blocks reach      *)
(* RocksDB, how epoch checkpoints are cloned from it, and what a restart   *)
(* recovers (indexer/pipeline.rs, indexer/mod.rs, persist/*.rs, app.rs).   *)
(*                                                                         *)
(*   decode worker   saves the block (blocks lane, sqlite) and hands it on *)
(*   apply worker    applies it under the apply gate, releases the gate,   *)
(*                   then enqueues the write set                           *)
(*   build task      turns a write set into a RocksDB batch, no gate       *)
(*   write task      commits the batch, clones the tables at epoch ends    *)
(*   checkpoint_once runs at shutdown, holding the apply gate              *)
(*   crash, restart  memory and queues are lost, tables stay               *)
(*                                                                         *)
(* A block is its write set (module BlockApply says why that is enough);   *)
(* the rows block n stores carry the value n.  Blocks are numbered from 1  *)
(* and the stream hands over each number once; digests follow numbers.     *)
(***************************************************************************)
EXTENDS IndexWriteSet, Naturals, Sequences, FiniteSets

CONSTANTS MaxBlock,      \* bound: blocks the chain produces
          MaxCrashes,    \* bound: crashes
          QueueCap,      \* capacity of the index-write queue (32 in the code)
          BatchCap,      \* capacity of the built-batch queue (32 in the code)
          EpochLength,   \* blocks per epoch
          EpochConfigured \* epoch checkpoints are switched on

ASSUME BoundsAssumption ==
  /\ MaxBlock \in Nat /\ MaxCrashes \in Nat /\ EpochLength \in Nat
  /\ QueueCap \in Nat \ {0} /\ BatchCap \in Nat \ {0} /\ EpochConfigured \in BOOLEAN
ASSUME RowsCarryBlock == 1..MaxBlock \subseteq Val

VARIABLES
  phase,     \* "up" or "down"
  cancel,    \* the cancellation token has fired
  chain,     \* chain[n]: the write set of block n
  tip,       \* number of the last block the chain produced
  last,      \* number of the last block received in this lifetime
  prepared,  \* numbers of decoded blocks waiting for the apply worker
  ap,        \* the apply worker: pc and block number
  mem, head, \* the rows in memory and IndexedBlockHead.block_num
  bq,        \* blocks lane: accepted, not yet committed to sqlite
  saved,     \* the blocks table
  iq,        \* index-write queue
  built,     \* built batches
  pending,   \* SharedPersist.pending
  disk,      \* the index-state tables and last_block_num
  ckpt,      \* ckpt--N directories
  ck,        \* checkpoint_once: pc and block number
  expect,    \* ghost: expect[n] is the memory block n should leave
  faults,    \* ghost: the disturbances that have happened
  crashes

stream == <<chain, tip, last, expect>>
memory == <<mem, head>>
queues == <<iq, built>>
tables == <<disk, ckpt>>
vars == <<phase, cancel, stream, prepared, ap, memory, bq, saved, queues, pending,
          tables, ck, faults, crashes>>

Block == 1..MaxBlock
Height == 0..MaxBlock
Fault == {"io", "timeout", "replay", "hole"}
Image == [n : Height, rows : Rows]
NoCkpt == [n |-> 0, rows |-> NoRows]
NoCheckpoint == [pc |-> "idle", n |-> 0, rows |-> NoRows]

TypeOK ==
  /\ phase \in {"up", "down"} /\ cancel \in BOOLEAN
  /\ chain \in [Block -> WriteSet]
  /\ tip \in Height /\ last \in Height
  /\ prepared \in Seq(Block)
  /\ ap \in [pc : {"idle", "got", "applied", "sending"}, n : Height]
  /\ mem \in Rows /\ head \in Height
  /\ bq \in SUBSET Block /\ saved \in SUBSET Block
  /\ iq \in Seq([n : Block, ws : WriteSet])
  /\ built \in Seq([n : Block, batch : [del : SUBSET Key, store : Rows]])
  /\ pending \in Nat
  /\ disk \in Image
  /\ ckpt \in [Block -> Image]
  /\ ck \in [pc : {"idle", "wait", "force", "sending", "rewait", "clone", "done"},
            n : Height, rows : Rows]
  /\ expect \in [Height -> Rows]
  /\ faults \in SUBSET Fault
  /\ crashes \in Nat

(* What a block may do: for each key nothing, a row, or a delete. *)
BlockEffects(n) ==
  {[full |-> FALSE,
    store |-> [k \in Key |-> IF f[k] = "store" THEN n ELSE Absent],
    del |-> {k \in Key : f[k] = "delete"}] : f \in [Key -> {"keep", "store", "delete"}]}

Init ==
  /\ phase = "up" /\ cancel = FALSE
  /\ chain = [n \in Block |-> EmptyWriteSet]
  /\ tip = 0 /\ last = 0 /\ prepared = <<>>
  /\ ap = [pc |-> "idle", n |-> 0]
  /\ mem = NoRows /\ head = 0
  /\ bq = {} /\ saved = {}
  /\ iq = <<>> /\ built = <<>> /\ pending = 0
  /\ disk = [n |-> 0, rows |-> NoRows]
  /\ ckpt = [n \in Block |-> NoCkpt]
  /\ ck = NoCheckpoint
  /\ expect = [n \in Height |-> NoRows]
  /\ faults = {} /\ crashes = 0

-----------------------------------------------------------------------------
(* Decode worker: enqueue_receipt_block, prepare_block, hand to the apply worker. *)
Decode(effect) ==
  /\ phase = "up" /\ ~ cancel /\ tip < MaxBlock
  /\ LET n == tip + 1 IN
       /\ tip' = n /\ last' = n
       /\ chain' = [chain EXCEPT ![n] = effect]
       /\ expect' = [expect EXCEPT ![n] = ApplyWriteSet(expect[last], effect)]
       /\ bq' = bq \union {n}
       /\ pending' = pending + 1
       /\ prepared' = Append(prepared, n)
  /\ UNCHANGED <<phase, cancel, ap, memory, saved, queues, tables, ck, faults, crashes>>

(* Apply worker: recv, then the cancellation check. *)
Take ==
  /\ phase = "up" /\ ~ cancel /\ ap.pc = "idle" /\ prepared # <<>>
  /\ ap' = [pc |-> "got", n |-> Head(prepared)]
  /\ prepared' = Tail(prepared)
  /\ UNCHANGED <<phase, cancel, stream, memory, bq, saved, queues, pending, tables, ck,
                 faults, crashes>>

(* Mutant of GateFree: checkpoint_once does not keep the gate. *)
GateAlwaysFree == TRUE

(* checkpoint_once holds the apply gate from its first read to its return. *)
GateFree == ck.pc \in {"idle", "done"}

(* Apply worker: process_prepared_block and the new head, under the gate. *)
ApplyBlock ==
  /\ ap.pc = "got" /\ GateFree
  /\ mem' = ApplyWriteSet(mem, chain[ap.n])
  /\ head' = ap.n
  /\ ap' = [ap EXCEPT !.pc = "applied"]
  /\ UNCHANGED <<phase, cancel, stream, prepared, bq, saved, queues, pending, tables, ck,
                 faults, crashes>>

(* enqueue_index_write, after the gate is released: count, then send. *)
CountWrite ==
  /\ ap.pc = "applied"
  /\ ap' = [ap EXCEPT !.pc = "sending"]
  /\ pending' = pending + 1
  /\ UNCHANGED <<phase, cancel, stream, prepared, memory, bq, saved, queues, tables, ck,
                 faults, crashes>>

(* Mutant of SendWrite: a full queue drops the write set instead of waiting. *)
SendWriteNowait ==
  /\ ap.pc = "sending"
  /\ iq' = IF Len(iq) < QueueCap THEN Append(iq, [n |-> ap.n, ws |-> chain[ap.n]]) ELSE iq
  /\ ap' = [ap EXCEPT !.pc = "idle"]
  /\ UNCHANGED <<phase, cancel, stream, prepared, memory, bq, saved, built, pending, tables,
                 ck, faults, crashes>>

(* The send waits while the queue is full. *)
SendWrite ==
  /\ ap.pc = "sending" /\ Len(iq) < QueueCap
  /\ iq' = Append(iq, [n |-> ap.n, ws |-> chain[ap.n]])
  /\ ap' = [ap EXCEPT !.pc = "idle"]
  /\ UNCHANGED <<phase, cancel, stream, prepared, memory, bq, saved, built, pending, tables,
                 ck, faults, crashes>>

-----------------------------------------------------------------------------
(* Bound: at most one I/O failure in a behaviour. *)
MayFail == "io" \notin faults

(***************************************************************************)
(* Blocks lane: four encode workers race for the blocks, so they reach the *)
(* single sqlite writer in any order and in any grouping; one transaction  *)
(* per group.  A failed group is logged and forgotten.                     *)
(***************************************************************************)
SaveBlocks(S) ==
  /\ S # {} /\ S \subseteq bq
  /\ bq' = bq \ S
  /\ pending' = pending - Cardinality(S)
  /\ \/ saved' = saved \union S /\ UNCHANGED faults
     \/ MayFail /\ UNCHANGED saved /\ faults' = faults \union {"io"}
  /\ UNCHANGED <<phase, cancel, stream, prepared, ap, memory, queues, tables, ck, crashes>>

(* Mutant of Build: the build task takes the apply gate too. *)
BuildUnderGate ==
  /\ iq # <<>> /\ Len(built) <= BatchCap /\ GateFree
  /\ iq' = Tail(iq)
  /\ built' = Append(built, [n |-> Head(iq).n, batch |-> BuildBatch(Head(iq).ws, disk.rows)])
  /\ UNCHANGED <<phase, cancel, stream, prepared, ap, memory, bq, saved, pending, tables, ck,
                 faults, crashes>>

(***************************************************************************)
(* Build task: clear_map reads the tables now.  The task may hold one      *)
(* batch in its hands besides those in the channel.                        *)
(***************************************************************************)
Build ==
  /\ iq # <<>> /\ Len(built) <= BatchCap
  /\ iq' = Tail(iq)
  /\ built' = Append(built, [n |-> Head(iq).n, batch |-> BuildBatch(Head(iq).ws, disk.rows)])
  /\ UNCHANGED <<phase, cancel, stream, prepared, ap, memory, bq, saved, pending, tables, ck,
                 faults, crashes>>

(* Mutant of BuildFails: the dropped write set stays in the count. *)
BuildFailsUncounted ==
  /\ MayFail /\ iq # <<>>
  /\ iq' = Tail(iq)
  /\ faults' = faults \union {"io"}
  /\ UNCHANGED <<phase, cancel, stream, prepared, ap, memory, bq, saved, built, pending, tables,
                 ck, crashes>>

(* The build failed: the write set is dropped. *)
BuildFails ==
  /\ MayFail /\ iq # <<>>
  /\ iq' = Tail(iq)
  /\ pending' = pending - 1
  /\ faults' = faults \union {"io"}
  /\ UNCHANGED <<phase, cancel, stream, prepared, ap, memory, bq, saved, built, tables, ck,
                 crashes>>

IsEpochEnd(n) == EpochLength > 0 /\ (n + 1) % EpochLength = 0

(* Mutant of EpochImage: the clone is taken before the batch is written. *)
EpochImageBefore(n, after) == disk

(* What checkpoint_db clones at the end of an epoch. *)
EpochImage(n, after) == after

(***************************************************************************)
(* Write task, under the write gate: commit the batch, clone at an epoch   *)
(* end (checkpoint_db first removes an existing ckpt--N).                  *)
(***************************************************************************)
Write ==
  /\ built # <<>>
  /\ LET b == Head(built)
         after == [n |-> b.n, rows |-> WriteBatch(disk.rows, b.batch)]
     IN /\ disk' = after
        /\ IF EpochConfigured /\ IsEpochEnd(b.n)
             THEN \/ ckpt' = [ckpt EXCEPT ![b.n] = EpochImage(b.n, after)] /\ UNCHANGED faults
                  \/ MayFail /\ ckpt' = [ckpt EXCEPT ![b.n] = NoCkpt] /\ faults' = faults \union {"io"}
             ELSE UNCHANGED <<ckpt, faults>>
  /\ built' = Tail(built)
  /\ pending' = pending - 1
  /\ UNCHANGED <<phase, cancel, stream, prepared, ap, memory, bq, saved, iq, ck, crashes>>

(* The write failed: logged, the next batch is taken. *)
WriteFails ==
  /\ MayFail /\ built # <<>>
  /\ built' = Tail(built)
  /\ pending' = pending - 1
  /\ faults' = faults \union {"io"}
  /\ UNCHANGED <<phase, cancel, stream, prepared, ap, memory, bq, saved, iq, tables, ck, crashes>>

-----------------------------------------------------------------------------
(* App::serve: the shutdown signal fires the token. *)
Shutdown ==
  /\ phase = "up" /\ ~ cancel
  /\ cancel' = TRUE
  /\ UNCHANGED <<phase, stream, prepared, ap, memory, bq, saved, queues, pending, tables, ck,
                 faults, crashes>>

(* The join of the background tasks ended or hit its 5 s; checkpoint_once,  *)
(* if epochs are configured, locks the gate and reads the head.             *)
CkBegin ==
  /\ cancel /\ ck.pc = "idle"
  /\ ck' = IF head = 0 \/ ~ EpochConfigured
            THEN [NoCheckpoint EXCEPT !.pc = "done"]
            ELSE [NoCheckpoint EXCEPT !.pc = "wait", !.n = head]
  /\ UNCHANGED <<phase, cancel, stream, prepared, ap, memory, bq, saved, queues, pending, tables,
                 faults, crashes>>

(* Mutant of CkIdle: an idle queue is taken for a mirror that caught up. *)
CkIdleTrusting ==
  /\ ck.pc = "wait" /\ pending = 0
  /\ ck' = [ck EXCEPT !.pc = "clone"]
  /\ UNCHANGED <<phase, cancel, stream, prepared, ap, memory, bq, saved, queues, pending, tables,
                 faults, crashes>>

(* wait_idle saw pending = 0: compare last_block_num with the head. *)
CkIdle ==
  /\ ck.pc = "wait" /\ pending = 0
  /\ ck' = [ck EXCEPT !.pc = IF disk.n # ck.n THEN "force" ELSE "clone"]
  /\ UNCHANGED <<phase, cancel, stream, prepared, ap, memory, bq, saved, queues, pending, tables,
                 faults, crashes>>

(* wait_idle gave up after 60 s. *)
CkBusy ==
  /\ ck.pc = "wait" /\ pending > 0
  /\ ck' = [ck EXCEPT !.pc = "force"]
  /\ faults' = faults \union {"timeout"}
  /\ UNCHANGED <<phase, cancel, stream, prepared, ap, memory, bq, saved, queues, pending, tables,
                 crashes>>

(* force_full_index_write: export the memory, count, then send. *)
CkForce ==
  /\ ck.pc = "force"
  /\ ck' = [ck EXCEPT !.pc = "sending", !.rows = mem]
  /\ pending' = pending + 1
  /\ UNCHANGED <<phase, cancel, stream, prepared, ap, memory, bq, saved, queues, tables,
                 faults, crashes>>

(* The write set made of an export of the memory. *)
FullWriteSet(rows) == [full |-> TRUE, store |-> rows, del |-> {}]

CkSend ==
  /\ ck.pc = "sending" /\ Len(iq) < QueueCap
  /\ iq' = Append(iq, [n |-> ck.n, ws |-> FullWriteSet(ck.rows)])
  /\ ck' = [ck EXCEPT !.pc = "rewait"]
  /\ UNCHANGED <<phase, cancel, stream, prepared, ap, memory, bq, saved, built, pending, tables,
                 faults, crashes>>

(* The second wait_idle: its result is ignored. *)
CkRewait ==
  /\ ck.pc = "rewait"
  /\ ck' = [ck EXCEPT !.pc = "clone"]
  /\ faults' = faults \union (IF pending > 0 THEN {"timeout"} ELSE {})
  /\ UNCHANGED <<phase, cancel, stream, prepared, ap, memory, bq, saved, queues, pending, tables,
                 crashes>>

(* clone_epoch_checkpoint, then the gate is released. *)
CkClone ==
  /\ ck.pc = "clone"
  /\ ck' = [ck EXCEPT !.pc = "done"]
  /\ \/ ckpt' = [ckpt EXCEPT ![ck.n] = disk] /\ UNCHANGED faults
     \/ MayFail /\ ckpt' = [ckpt EXCEPT ![ck.n] = NoCkpt] /\ faults' = faults \union {"io"}
  /\ UNCHANGED <<phase, cancel, stream, prepared, ap, memory, bq, saved, queues, pending, disk,
                 crashes>>

-----------------------------------------------------------------------------
(* The process is gone: memory, queues and counters with it. *)
GoDown ==
  /\ phase = "up"
  /\ phase' = "down"
  /\ cancel' = FALSE /\ prepared' = <<>>
  /\ ap' = [pc |-> "idle", n |-> 0] /\ ck' = NoCheckpoint
  /\ mem' = NoRows /\ head' = 0
  /\ bq' = {} /\ iq' = <<>> /\ built' = <<>> /\ pending' = 0
  /\ UNCHANGED <<stream, saved, tables>>

Crash ==
  /\ crashes < MaxCrashes
  /\ GoDown
  /\ crashes' = crashes + 1
  /\ UNCHANGED faults

(* Graceful shutdown complete; the last wait_idle (10 s) is only logged. *)
Exit ==
  /\ ck.pc = "done" /\ crashes < MaxCrashes
  /\ GoDown
  /\ crashes' = crashes + 1
  /\ UNCHANGED faults

(***************************************************************************)
(* The rows after replaying the blocks of S, in ascending order: the last  *)
(* of them that says something about a key decides.                        *)
(***************************************************************************)
Replayed(rows, S) ==
  [k \in Key |->
     LET about == {n \in S : chain[n].store[k] # Absent \/ k \in chain[n].del}
     IN  IF about = {} THEN rows[k]
         ELSE chain[CHOOSE n \in about : \A i \in about : i <= n].store[k]]

(* Mutant of ToReplay: the comparison with last_block_num is dropped. *)
ToReplayAll == saved

(* load_blocks_after(last_block_num). *)
ToReplay == {n \in saved : n > disk.n}

Largest(S) == CHOOSE n \in S : \A i \in S : i <= n

(***************************************************************************)
(* recover_from_persist: load the tables, replay the saved blocks above    *)
(* them quietly; process_block drops the write sets of what it replays.    *)
(***************************************************************************)
Recover ==
  /\ phase = "down"
  /\ phase' = "up"
  /\ mem' = Replayed(disk.rows, ToReplay)
  /\ head' = Largest(ToReplay \union {disk.n})
  /\ last' = head'
  /\ expect' = [expect EXCEPT ![head'] = mem']
  /\ faults' = faults
       \union (IF ToReplay # {} THEN {"replay"} ELSE {})
       \union (IF disk.n + 1 .. head' \subseteq saved THEN {} ELSE {"hole"})
  /\ UNCHANGED <<cancel, chain, tip, prepared, ap, bq, saved, queues, pending, tables, ck, crashes>>

Next ==
  \/ \E e \in BlockEffects(tip + 1) : Decode(e)
  \/ Take \/ ApplyBlock \/ CountWrite \/ SendWrite
  \/ \E S \in SUBSET bq : SaveBlocks(S)
  \/ Build \/ BuildFails \/ Write \/ WriteFails
  \/ Shutdown \/ CkBegin \/ CkIdle \/ CkBusy \/ CkForce \/ CkSend \/ CkRewait \/ CkClone
  \/ Exit \/ Crash \/ Recover

Spec == Init /\ [][Next]_vars

(* The workers are tokio tasks and blocking-pool jobs: each one that can    *)
(* run eventually does, and wait_idle polls until it sees zero or gives up. *)
Fairness ==
  /\ WF_vars(CountWrite) /\ WF_vars(SendWrite) /\ WF_vars(ApplyBlock)
  /\ WF_vars(\E S \in SUBSET bq : SaveBlocks(S))
  /\ WF_vars(Build \/ BuildFails) /\ WF_vars(Write \/ WriteFails)
  /\ WF_vars(CkBegin \/ CkIdle \/ CkBusy \/ CkForce \/ CkSend \/ CkRewait \/ CkClone)

FairSpec == Spec /\ Fairness

-----------------------------------------------------------------------------
(* The pending counter is the number of accepted operations that are not on *)
(* disk, so wait_idle returns true only when nothing is in flight; it       *)
(* neither leaks nor underflows on any failure path (submit_async,          *)
(* run_blocks_write, index_state_write.rs).                                 *)
PendingCountsWork ==
  pending = Cardinality(bq) + Len(iq) + Len(built)
            + (IF ap.pc = "sending" THEN 1 ELSE 0) + (IF ck.pc = "sending" THEN 1 ELSE 0)

(* Queues and counters are well formed, and pending counts what they hold. *)
CountersSound == TypeOK /\ PendingCountsWork

(* The tables with last_block_num = n hold exactly the memory block n left, *)
(* however far the queues lag and whatever crash intervened, as long as no  *)
(* write failed, no wait_idle timed out and no recovery replayed blocks.    *)
MirrorExact ==
  faults \intersect {"io", "timeout", "replay"} = {} => disk.rows = expect[disk.n]

(* A ckpt--N directory, whether cloned by the write task at an epoch end or *)
(* by checkpoint_once at shutdown, holds block N's memory and names block N.*)
CheckpointExact ==
  faults \intersect {"io", "timeout", "replay"} = {} =>
    \A n \in Block : ckpt[n] = NoCkpt \/ ckpt[n] = [n |-> n, rows |-> expect[n]]

(* Tables and checkpoints are images of the block they name. *)
ImagesExact == MirrorExact /\ CheckpointExact

(* When a graceful shutdown has returned from checkpoint_once, the head it  *)
(* checkpointed is on disk, even if the apply worker was caught between     *)
(* releasing the gate and enqueueing its write set.                         *)
ShutdownSavesHead ==
  (ck.pc = "done" /\ ck.n > 0 /\ faults \intersect {"io", "timeout"} = {}) =>
     disk.n >= ck.n /\ ckpt[ck.n].n = ck.n

(* A restart comes back with the memory its recovered head left before the  *)
(* crash, from the tables and the blocks above them, if this is the first   *)
(* replay and the blocks table has no hole.                                 *)
RecoveryExact ==
  [][(phase = "down" /\ phase' = "up" /\ faults \intersect {"io", "timeout", "replay"} = {}
        /\ "hole" \notin faults')
     => mem' = expect[head']]_vars

(* last_block_num never goes back. *)
DiskHeadMonotonic == [][disk'.n >= disk.n]_vars

(* Every block the apply worker has applied reaches the tables, unless the  *)
(* process goes down or a write fails.                                      *)
AppliedReachesDisk ==
  \A n \in Block : (ap.pc = "applied" /\ ap.n = n) ~> (disk.n >= n \/ phase = "down" \/ "io" \in faults)

(* A requested shutdown gets through checkpoint_once: holding the gate      *)
(* while waiting for the queue never leaves everyone waiting.               *)
ShutdownEnds == cancel ~> (ck.pc = "done" \/ phase = "down")

-----------------------------------------------------------------------------
(* What a comment in the code says and the code does not do.                *)

(* persist/index_write_set.rs: every applied block becomes put/delete sets  *)
(* for RocksDB, so the tables follow the memory over a crash and a replay.  *)
ReplayedBlocksMirrored ==
  faults \intersect {"io", "timeout"} = {} => disk.rows = expect[disk.n]

=============================================================================
