----------------------------- MODULE BlockApply -----------------------------
(***************************************************************************)
(* How one receipt block changes the in-memory index and which write set   *)
(* it leaves behind (indexer/processor.rs, process_prepared_block).        *)
(*                                                                         *)
(* Global events are applied one after the other and recorded in `ws'.     *)
(* The order events of each market are then applied by one future per      *)
(* market, concurrently, each with a write set of its own; join_all waits  *)
(* for all of them and merges their sets into `ws', in the iteration order *)
(* of a hash map.  The finished set is applied to the index-state tables   *)
(* (module IndexMirror has the queue in between; here it is atomic).       *)
(*                                                                         *)
(* Each mutator of IndexState and Books takes `Option<&mut IndexWriteSet>' *)
(* and records the row it changed; a step below is one such mutation.      *)
(***************************************************************************)
EXTENDS IndexWriteSet, Naturals, FiniteSets

CONSTANTS Market,    \* spot markets
          Owner,     \* the market whose order events may touch a key
          MaxOps     \* bound: row changes per block

ASSUME OwnerAssumption == Owner \in [Key -> Market]
ASSUME MaxOpsAssumption == MaxOps \in Nat

VARIABLES phase,     \* where process_prepared_block is
          mem,       \* the rows in memory
          ws,        \* the block's write set
          lane,      \* the write set of each market's future
          merged,    \* markets whose set has been merged
          ops,       \* row changes made so far in this block
          disk       \* the index-state tables

vars == <<phase, mem, ws, lane, merged, ops, disk>>

Phase == {"idle", "global", "markets", "merge"}

TypeOK ==
  /\ phase \in Phase
  /\ mem \in Rows
  /\ ws \in WriteSet
  /\ lane \in [Market -> WriteSet]
  /\ merged \in SUBSET Market
  /\ ops \in Nat
  /\ disk \in Rows

Init ==
  /\ phase = "idle"
  /\ mem = NoRows
  /\ ws = EmptyWriteSet
  /\ lane = [m \in Market |-> EmptyWriteSet]
  /\ merged = {}
  /\ ops = 0
  /\ disk = NoRows

(* A prepared block reaches the apply stage. *)
Begin ==
  /\ phase = "idle"
  /\ phase' = "global"
  /\ ws' = EmptyWriteSet
  /\ lane' = [m \in Market |-> EmptyWriteSet]
  /\ merged' = {}
  /\ ops' = 0
  /\ UNCHANGED <<mem, disk>>

(* A global event (or the rehydration for an unmapped order event) stores a row. *)
GlobalStore(k, v) ==
  /\ phase = "global" /\ ops < MaxOps
  /\ mem' = [mem EXCEPT ![k] = v]
  /\ ws' = StoreRow(ws, k, v)
  /\ ops' = ops + 1
  /\ UNCHANGED <<phase, lane, merged, disk>>

(* A global event removes a row. *)
GlobalDelete(k) ==
  /\ phase = "global" /\ ops < MaxOps
  /\ mem' = [mem EXCEPT ![k] = Absent]
  /\ ws' = DeleteRow(ws, k)
  /\ ops' = ops + 1
  /\ UNCHANGED <<phase, lane, merged, disk>>

(* The futures of all markets are created and polled. *)
StartMarkets ==
  /\ phase = "global"
  /\ phase' = "markets"
  /\ UNCHANGED <<mem, ws, lane, merged, ops, disk>>

(* An order event of market m stores a row: an order, a level, a last trade... *)
MarketStore(m, k, v) ==
  /\ phase = "markets" /\ ops < MaxOps /\ Owner[k] = m
  /\ mem' = [mem EXCEPT ![k] = v]
  /\ lane' = [lane EXCEPT ![m] = StoreRow(@, k, v)]
  /\ ops' = ops + 1
  /\ UNCHANGED <<phase, ws, merged, disk>>

(* An order event of market m removes a row: a terminal order, an empty level... *)
MarketDelete(m, k) ==
  /\ phase = "markets" /\ ops < MaxOps /\ Owner[k] = m
  /\ mem' = [mem EXCEPT ![k] = Absent]
  /\ lane' = [lane EXCEPT ![m] = DeleteRow(@, k)]
  /\ ops' = ops + 1
  /\ UNCHANGED <<phase, ws, merged, disk>>

(* join_all: every market's future is done. *)
JoinAll ==
  /\ phase = "markets"
  /\ phase' = "merge"
  /\ UNCHANGED <<mem, ws, lane, merged, ops, disk>>

(* One turn of the merge loop. *)
MergeLane(m) ==
  /\ phase = "merge" /\ m \notin merged
  /\ ws' = Merge(ws, lane[m])
  /\ merged' = merged \union {m}
  /\ UNCHANGED <<phase, mem, lane, ops, disk>>

(* The block's write set is returned and reaches the tables. *)
Finish ==
  /\ phase = "merge" /\ merged = Market
  /\ phase' = "idle"
  /\ disk' = ApplyWriteSet(disk, ws)
  /\ UNCHANGED <<mem, ws, lane, merged, ops>>

Next ==
  \/ Begin
  \/ \E k \in Key, v \in Val : GlobalStore(k, v)
  \/ \E k \in Key : GlobalDelete(k)
  \/ StartMarkets
  \/ \E m \in Market, k \in Key, v \in Val : MarketStore(m, k, v)
  \/ \E m \in Market, k \in Key : MarketDelete(m, k)
  \/ JoinAll
  \/ \E m \in Market : MergeLane(m)
  \/ Finish

Spec == Init /\ [][Next]_vars

-----------------------------------------------------------------------------
(* Between blocks the tables hold exactly the rows in memory: the sets that *)
(* concurrent market futures collect, merged in whatever order, replay to   *)
(* the memory the block left (processor.rs, "merge(set)").                  *)
DiskFollowsMemory == phase = "idle" => disk = mem

=============================================================================
