--------------------------- MODULE IndexWriteSet ---------------------------
(***************************************************************************)
(* The write set that one applied receipt block turns into, and the        *)
(* RocksDB batch built from it (persist/index_write_set.rs and             *)
(* persist/index_state_tables.rs).                                         *)
(*                                                                         *)
(* The seven column families (markets, orders, book levels, book metas,    *)
(* last trades, vaults, vault portfolio) are treated alike by the code,    *)
(* line by line, so they are one table here: a key stands for a column     *)
(* family together with the key in it.                                     *)
(***************************************************************************)

CONSTANTS Key,      \* keys of the index-state tables
          Val,      \* rows
          Absent    \* what a read returns for a key that has no row

ASSUME AbsentIsNoRow == Absent \notin Val

(* The tables: a total function, Absent where there is no row. *)
Rows == [Key -> Val \union {Absent}]

NoRows == [k \in Key |-> Absent]

(* The rows of the *_to_store maps (Absent: the key is in none of them), the *)
(* keys of the *_to_delete sets, and full_replace.                           *)
WriteSet == [full : BOOLEAN, store : Rows, del : SUBSET Key]

EmptyWriteSet == [full |-> FALSE, store |-> NoRows, del |-> {}]

Stored(ws) == {k \in Key : ws.store[k] # Absent}

(* store_market, store_order, ...: the key leaves the delete set. *)
StoreRow(ws, k, v) ==
  [full |-> ws.full, store |-> [ws.store EXCEPT ![k] = v], del |-> ws.del \ {k}]

(* delete_market, delete_order, ...: the key leaves the store map. *)
DeleteRow(ws, k) ==
  [full |-> ws.full, store |-> [ws.store EXCEPT ![k] = Absent], del |-> ws.del \union {k}]

(* Mutant of Merge: a key `other' deletes stays in the store map. *)
MergeKeepingStores(ws, other) ==
  [full  |-> ws.full \/ other.full,
   store |-> [k \in Key |-> IF k \in Stored(other) THEN other.store[k] ELSE ws.store[k]],
   del   |-> (ws.del \ Stored(other)) \union other.del]

(***************************************************************************)
(* IndexWriteSet::merge: first every row `other' stores, then every key    *)
(* `other' deletes; full_replace is sticky.                                *)
(***************************************************************************)
Merge(ws, other) ==
  [full  |-> ws.full \/ other.full,
   store |-> [k \in Key |-> IF k \in other.del THEN Absent
                            ELSE IF k \in Stored(other) THEN other.store[k]
                            ELSE ws.store[k]],
   del   |-> (ws.del \ Stored(other)) \union other.del]

(***************************************************************************)
(* build_index_write_batch: a full replace deletes the keys that clear_map *)
(* finds in the tables at the moment the batch is BUILT.  The deletes of   *)
(* the write set follow, then the stores, then the new head.               *)
(***************************************************************************)
BuildBatch(ws, rows) ==
  [del   |-> ws.del \union (IF ws.full THEN {k \in Key : rows[k] # Absent} ELSE {}),
   store |-> ws.store]

(* DBBatch::write: the operations of the batch in order, atomically. *)
WriteBatch(rows, batch) ==
  [k \in Key |-> IF batch.store[k] # Absent THEN batch.store[k]
                 ELSE IF k \in batch.del THEN Absent
                 ELSE rows[k]]

(* apply_index_write_set: build and commit with nothing in between. *)
ApplyWriteSet(rows, ws) == WriteBatch(rows, BuildBatch(ws, rows))

=============================================================================
