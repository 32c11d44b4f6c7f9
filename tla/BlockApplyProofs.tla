-------------------------- MODULE BlockApplyProofs --------------------------
(***************************************************************************)
(* Proof that the write set of a block replays to the memory the block     *)
(* left, for every set of keys, rows and markets and every interleaving of *)
(* the market futures and of the merge loop.                               *)
(***************************************************************************)
EXTENDS BlockApply, TLAPS

(* What key k holds once `set' has been applied over the value `old'. *)
Value(old, set, k) ==
  IF set.store[k] # Absent THEN set.store[k]
  ELSE IF k \in set.del THEN Absent ELSE old

(* The write set says something about key k. *)
Touches(set, k) == set.store[k] # Absent \/ k \in set.del

(***************************************************************************)
(* The inductive strengthening.  A market's future records only keys of    *)
(* that market, no key is both stored and deleted, and while the block is  *)
(* in progress the memory is the tables, with ws applied, with the sets    *)
(* not yet merged applied.                                                 *)
(***************************************************************************)
OwnKeysOnly ==
  \A m \in Market : \A k \in Key : Touches(lane[m], k) => Owner[k] = m

LanesCoherent ==
  \A m \in Market : \A k \in Key : lane[m].store[k] = Absent \/ k \notin lane[m].del

MemoryTracked ==
  \A k \in Key : mem[k] = IF Owner[k] \in merged
                          THEN Value(disk[k], ws, k)
                          ELSE Value(Value(disk[k], ws, k), lane[Owner[k]], k)

Inv ==
  /\ TypeOK
  /\ ~ ws.full
  /\ \A m \in Market : ~ lane[m].full
  /\ OwnKeysOnly
  /\ LanesCoherent
  /\ phase = "idle" => disk = mem
  /\ phase = "global" => /\ merged = {}
                         /\ \A m \in Market : \A k \in Key : ~ Touches(lane[m], k)
  /\ phase = "markets" => merged = {}
  /\ phase # "idle" => MemoryTracked

-----------------------------------------------------------------------------
(* The empty write set is a write set, no full replace, and touches no key. *)
LEMMA EmptyFacts ==
  /\ EmptyWriteSet \in WriteSet
  /\ ~ EmptyWriteSet.full
  /\ \A k \in Key : EmptyWriteSet.store[k] = Absent /\ k \notin EmptyWriteSet.del
BY DEF EmptyWriteSet, WriteSet, NoRows, Rows

(* store_*: the type, the keys mentioned, and the value of every key. *)
LEMMA StoreRowFacts ==
  ASSUME NEW s \in WriteSet, NEW k \in Key, NEW v \in Val
  PROVE  /\ StoreRow(s, k, v) \in WriteSet
         /\ StoreRow(s, k, v).full = s.full
         /\ \A x \in Key : StoreRow(s, k, v).store[x] = IF x = k THEN v ELSE s.store[x]
         /\ StoreRow(s, k, v).del = s.del \ {k}
BY DEF StoreRow, WriteSet, Rows

(* delete_*: likewise. *)
LEMMA DeleteRowFacts ==
  ASSUME NEW s \in WriteSet, NEW k \in Key
  PROVE  /\ DeleteRow(s, k) \in WriteSet
         /\ DeleteRow(s, k).full = s.full
         /\ \A x \in Key : DeleteRow(s, k).store[x] = IF x = k THEN Absent ELSE s.store[x]
         /\ DeleteRow(s, k).del = s.del \union {k}
BY DEF DeleteRow, WriteSet, Rows

(* merge: applying the merged set is applying one set after the other, for  *)
(* every key that the second set does not both store and delete.            *)
LEMMA MergeFacts ==
  ASSUME NEW s \in WriteSet, NEW o \in WriteSet
  PROVE  /\ Merge(s, o) \in WriteSet
         /\ Merge(s, o).full = (s.full \/ o.full)
         /\ \A old : \A k \in Key : o.store[k] = Absent \/ k \notin o.del =>
                Value(old, Merge(s, o), k) = Value(Value(old, s, k), o, k)
<1>1. /\ s.full \in BOOLEAN /\ o.full \in BOOLEAN
      /\ s.store \in Rows /\ o.store \in Rows
      /\ s.del \in SUBSET Key /\ o.del \in SUBSET Key
  BY DEF WriteSet
<1>2. Merge(s, o) \in WriteSet
  BY <1>1 DEF Merge, WriteSet, Rows
<1>3. Merge(s, o).full = (s.full \/ o.full)
  BY DEF Merge
<1>4. Merge(s, o).del = (s.del \ Stored(o)) \union o.del
  BY DEF Merge
<1>5. \A k \in Key : Merge(s, o).store[k] = IF k \in o.del THEN Absent
                                            ELSE IF k \in Stored(o) THEN o.store[k]
                                            ELSE s.store[k]
  BY DEF Merge
<1>6. \A k \in Key : k \in Stored(o) <=> o.store[k] # Absent
  BY DEF Stored
<1>. QED
  BY <1>2, <1>3, <1>4, <1>5, <1>6 DEF Value

(* The batch built from a set that is no full replace, and written, gives   *)
(* every key the value the set says.                                        *)
LEMMA ApplyFacts ==
  ASSUME NEW s \in WriteSet, NEW rows \in Rows, ~ s.full
  PROVE  /\ ApplyWriteSet(rows, s) \in Rows
         /\ \A k \in Key : ApplyWriteSet(rows, s)[k] = Value(rows[k], s, k)
BY DEF ApplyWriteSet, WriteBatch, BuildBatch, Value, WriteSet, Rows

-----------------------------------------------------------------------------
(* The initial state satisfies the strengthening: nothing is recorded. *)
LEMMA InitInv == Init => Inv
BY EmptyFacts DEF Init, Inv, TypeOK, Phase, OwnKeysOnly, LanesCoherent, Touches, NoRows, Rows

(* Every step of the apply stage preserves the strengthening. *)
LEMMA NextInv == Inv /\ [Next]_vars => Inv'
<1>. SUFFICES ASSUME Inv, [Next]_vars PROVE Inv'
  OBVIOUS
<1>. USE OwnerAssumption, AbsentIsNoRow
<1>. USE DEF Inv, TypeOK, Phase, OwnKeysOnly, LanesCoherent, MemoryTracked
<1>1. CASE Begin
  <2>1. \A m \in Market : lane'[m] = EmptyWriteSet
    BY <1>1 DEF Begin
  <2>2. lane' \in [Market -> WriteSet]
    BY <1>1, EmptyFacts DEF Begin
  <2>. QED
    BY <1>1, <2>1, <2>2, EmptyFacts DEF Begin, Touches, Value
<1>2. ASSUME NEW k \in Key, NEW v \in Val, GlobalStore(k, v) PROVE Inv'
  <2>1. mem' \in Rows
    BY <1>2 DEF GlobalStore, Rows
  <2>2. MemoryTracked'
    <3>. SUFFICES ASSUME NEW x \in Key
                  PROVE  mem'[x] = Value(Value(disk[x], ws', x), lane[Owner[x]], x)
      BY <1>2 DEF GlobalStore
    <3>1. \A old : Value(old, lane[Owner[x]], x) = old
      BY <1>2 DEF GlobalStore, Touches, Value
    <3>2. Value(disk[x], ws', x) = IF x = k THEN v ELSE Value(disk[x], ws, x)
      BY <1>2, StoreRowFacts DEF GlobalStore, Value
    <3>3. mem'[x] = IF x = k THEN v ELSE mem[x]
      BY <1>2 DEF GlobalStore, Rows
    <3>4. mem[x] = Value(disk[x], ws, x)
      BY <1>2, <3>1 DEF GlobalStore
    <3>. QED
      BY <3>1, <3>2, <3>3, <3>4
  <2>3. ws' \in WriteSet /\ ~ ws'.full
    BY <1>2, StoreRowFacts DEF GlobalStore
  <2>. QED
    BY <1>2, <2>1, <2>2, <2>3 DEF GlobalStore, Touches
<1>3. ASSUME NEW k \in Key, GlobalDelete(k) PROVE Inv'
  <2>1. mem' \in Rows
    BY <1>3 DEF GlobalDelete, Rows
  <2>2. MemoryTracked'
    <3>. SUFFICES ASSUME NEW x \in Key
                  PROVE  mem'[x] = Value(Value(disk[x], ws', x), lane[Owner[x]], x)
      BY <1>3 DEF GlobalDelete
    <3>1. \A old : Value(old, lane[Owner[x]], x) = old
      BY <1>3 DEF GlobalDelete, Touches, Value
    <3>2. Value(disk[x], ws', x) = IF x = k THEN Absent ELSE Value(disk[x], ws, x)
      BY <1>3, DeleteRowFacts DEF GlobalDelete, Value
    <3>3. mem'[x] = IF x = k THEN Absent ELSE mem[x]
      BY <1>3 DEF GlobalDelete, Rows
    <3>4. mem[x] = Value(disk[x], ws, x)
      BY <1>3, <3>1 DEF GlobalDelete
    <3>. QED
      BY <3>1, <3>2, <3>3, <3>4
  <2>3. ws' \in WriteSet /\ ~ ws'.full
    BY <1>3, DeleteRowFacts DEF GlobalDelete
  <2>. QED
    BY <1>3, <2>1, <2>2, <2>3 DEF GlobalDelete, Touches
<1>4. CASE StartMarkets
  BY <1>4 DEF StartMarkets
<1>5. ASSUME NEW m \in Market, NEW k \in Key, NEW v \in Val, MarketStore(m, k, v) PROVE Inv'
  <2>1. mem' \in Rows
    BY <1>5 DEF MarketStore, Rows
  <2>2. /\ lane'[m] = StoreRow(lane[m], k, v)
        /\ \A n \in Market : n # m => lane'[n] = lane[n]
        /\ lane' \in [Market -> WriteSet]
    BY <1>5, StoreRowFacts DEF MarketStore
  <2>3. OwnKeysOnly' /\ LanesCoherent' /\ \A n \in Market : ~ lane'[n].full
    BY <1>5, <2>2, StoreRowFacts DEF MarketStore, Touches
  <2>4. MemoryTracked'
    BY <1>5, <2>2, StoreRowFacts DEF MarketStore, Value, Rows
  <2>. QED
    BY <1>5, <2>1, <2>2, <2>3, <2>4 DEF MarketStore
<1>6. ASSUME NEW m \in Market, NEW k \in Key, MarketDelete(m, k) PROVE Inv'
  <2>1. mem' \in Rows
    BY <1>6 DEF MarketDelete, Rows
  <2>2. /\ lane'[m] = DeleteRow(lane[m], k)
        /\ \A n \in Market : n # m => lane'[n] = lane[n]
        /\ lane' \in [Market -> WriteSet]
    BY <1>6, DeleteRowFacts DEF MarketDelete
  <2>3. OwnKeysOnly' /\ LanesCoherent' /\ \A n \in Market : ~ lane'[n].full
    BY <1>6, <2>2, DeleteRowFacts DEF MarketDelete, Touches
  <2>4. MemoryTracked'
    BY <1>6, <2>2, DeleteRowFacts DEF MarketDelete, Value, Rows
  <2>. QED
    BY <1>6, <2>1, <2>2, <2>3, <2>4 DEF MarketDelete
<1>7. CASE JoinAll
  BY <1>7 DEF JoinAll
<1>8. ASSUME NEW m \in Market, MergeLane(m) PROVE Inv'
  <2>1. ws' \in WriteSet /\ ~ ws'.full
    BY <1>8, MergeFacts DEF MergeLane
  <2>2. ASSUME NEW k \in Key
        PROVE  Value(disk[k], ws', k) = Value(Value(disk[k], ws, k), lane[m], k)
    BY <1>8, MergeFacts DEF MergeLane
  <2>3. ASSUME NEW k \in Key, Owner[k] # m
        PROVE  Value(disk[k], ws', k) = Value(disk[k], ws, k)
    BY <2>2, <2>3 DEF Touches, Value
  <2>4. MemoryTracked'
    BY <1>8, <2>2, <2>3 DEF MergeLane
  <2>. QED
    BY <1>8, <2>1, <2>4 DEF MergeLane
<1>9. CASE Finish
  <2>1. disk' \in Rows /\ \A k \in Key : disk'[k] = Value(disk[k], ws, k)
    BY <1>9, ApplyFacts DEF Finish
  <2>2. \A k \in Key : disk'[k] = mem[k]
    BY <1>9, <2>1 DEF Finish
  <2>3. disk' = mem
    BY <2>1, <2>2 DEF Rows
  <2>. QED
    BY <1>9, <2>1, <2>3 DEF Finish
<1>10. CASE UNCHANGED vars
  BY <1>10 DEF vars, Touches, Value
<1>. QED
  BY <1>1, <1>2, <1>3, <1>4, <1>5, <1>6, <1>7, <1>8, <1>9, <1>10 DEF Next

(* Every behaviour of the apply stage keeps its type: the write sets stay   *)
(* write sets through every store, delete and merge.                        *)
THEOREM TypeCorrect == Spec => []TypeOK
<1>1. Inv => TypeOK
  BY DEF Inv
<1>. QED
  BY InitInv, NextInv, <1>1, PTL DEF Spec

(* Between blocks the tables hold exactly the rows in memory, whatever the  *)
(* market futures' interleaving and the order of the merge loop.            *)
THEOREM DiskMatches == Spec => []DiskFollowsMemory
<1>1. Inv => DiskFollowsMemory
  BY DEF Inv, DiskFollowsMemory
<1>. QED
  BY InitInv, NextInv, <1>1, PTL DEF Spec

=============================================================================
