------------------------- MODULE IndexMirrorProofs -------------------------
(***************************************************************************)
(* The persistence pipeline is correct for every set of keys, every length *)
(* of the chain, every queue capacity and any number of crashes: the       *)
(* pending counter counts, last_block_num never goes back, tables and      *)
(* checkpoints are images of the block they name, a shutdown saves the     *)
(* head, and a restart recovers the memory of its head.                    *)
(***************************************************************************)
EXTENDS IndexMirror, FiniteSetTheorems, WellFoundedInduction, TLAPS

(* Nothing of a process that is down is left, no block is a full replace, and *)
(* a worker that is busy is busy with a block.                                *)
DownInv ==
  /\ phase = "down" => /\ prepared = <<>> /\ iq = <<>> /\ built = <<>> /\ bq = {}
                       /\ ap.pc = "idle" /\ ck.pc = "idle" /\ ~ cancel
  /\ \A n \in Block : ~ chain[n].full
  /\ ap.pc # "idle" => ap.n \in Block
  /\ ck.pc \notin {"idle", "done"} => ck.n \in Block

(***************************************************************************)
(* The numbers on their way: the tables, the built batches, the queue, the *)
(* head, the block the apply worker took, the prepared blocks.  A full     *)
(* write repeats the number of the head; nothing else is out of order.     *)
(***************************************************************************)
Prev(p, s, i) == IF i = 1 THEN p ELSE s[i - 1].n     \* the number before s[i]; p comes before s
LastOf(p, s) == Prev(p, s, Len(s) + 1)
Ascends(p, s) == \A i \in 1..Len(s) : Prev(p, s, i) <= s[i].n

LastBuilt == LastOf(disk.n, built)
LastQueued == LastOf(LastBuilt, iq)
LastTaken == IF ap.pc = "got" THEN ap.n ELSE head
PreparedPrev(i) == IF i = 1 THEN LastTaken ELSE prepared[i - 1]
LastPrepared == PreparedPrev(Len(prepared) + 1)

(* No number is ahead of the chain, and no queued one is ahead of the head. *)
Bounded ==
  /\ disk.n <= tip /\ head <= tip /\ last <= tip /\ ap.n <= tip
  /\ \A i \in 1..Len(built) : built[i].n <= head
  /\ \A i \in 1..Len(iq) : iq[i].n <= head
  /\ \A i \in 1..Len(prepared) : prepared[i] <= tip
  /\ saved \subseteq 1..tip

QueuesOrdered ==
  /\ Ascends(disk.n, built) /\ Ascends(LastBuilt, iq)
  /\ phase = "up" => LastQueued <= head

WorkerOrdered ==
  /\ ap.pc = "got" => head < ap.n
  /\ ap.pc \in {"applied", "sending"} => ap.n = head
  /\ \A i \in 1..Len(prepared) : PreparedPrev(i) < prepared[i]
  /\ phase = "up" => LastPrepared = last

CheckpointOrdered ==
  /\ ck.pc \notin {"idle", "done"} => ck.n = head /\ head > 0
  /\ ck.pc = "done" => ck.n <= head
  /\ ck.pc = "idle" => ck.n = 0

Ordered == Bounded /\ QueuesOrdered /\ WorkerOrdered /\ CheckpointOrdered

(* Without a failed write or a wait that timed out, the full write of the  *)
(* shutdown is the last one queued, and the clone is of its block.         *)
Calm == faults \intersect {"io", "timeout"} = {}

CalmInv ==
  Calm => /\ ck.pc = "rewait" => LastQueued = ck.n
          /\ ck.pc = "clone" => disk.n = ck.n
          /\ (ck.pc = "done" /\ ck.n > 0) => disk.n >= ck.n /\ ckpt[ck.n].n = ck.n

(* Block n, applied to the memory of block p, leaves the memory of block n. *)
Step(p, n) == expect[n] = ApplyWriteSet(expect[p], chain[n])

(* A queued write set, committed after block p, leaves the memory of its    *)
(* block: either a block's own, or a full write whose keys to wipe are still *)
(* to be read, from tables that hold block p.                               *)
QueuedExact(p, w) ==
  \/ ~ w.ws.full /\ ApplyWriteSet(expect[p], w.ws) = expect[w.n]
  \/ w.ws = FullWriteSet(expect[w.n]) /\ (p = w.n \/ p = disk.n)

Clean == faults \intersect {"io", "timeout", "replay"} = {}

CleanQueues ==
  /\ disk.rows = expect[disk.n]
  /\ \A i \in 1..Len(built) :
       WriteBatch(expect[Prev(disk.n, built, i)], built[i].batch) = expect[built[i].n]
  /\ \A i \in 1..Len(iq) : QueuedExact(Prev(LastBuilt, iq, i), iq[i])
  /\ \A n \in Block : ckpt[n] = NoCkpt \/ (n <= tip /\ ckpt[n] = [n |-> n, rows |-> expect[n]])

CleanWorker ==
  /\ phase = "up" => mem = expect[head]
  /\ phase = "up" /\ ap.pc \in {"idle", "got"} => LastQueued = head
  /\ ap.pc \in {"applied", "sending"} => Step(LastQueued, head)
  /\ ap.pc = "got" => Step(head, ap.n)
  /\ \A i \in 1..Len(prepared) : Step(PreparedPrev(i), prepared[i])

CleanCheckpoint ==
  /\ ck.pc = "sending" => ck.rows = expect[ck.n]
  /\ ck.pc \in {"force", "sending"} => LastQueued \in {disk.n, head}

CleanInv == Clean => CleanQueues /\ CleanWorker /\ CleanCheckpoint

(***************************************************************************)
(* The blocks a restart may still see.  The successor of one of them       *)
(* continues it: a block that was decoded and lost is in no table, so the  *)
(* block that follows the gap is never taken for its successor.            *)
(***************************************************************************)
Accepted == saved \union bq
Known == Accepted \union {disk.n}

KnownOnTheWay ==
  /\ \A i \in 1..Len(built) : built[i].n \in Known
  /\ \A i \in 1..Len(iq) : iq[i].n \in Known
  /\ \A i \in 1..Len(prepared) : prepared[i] \in Accepted
  /\ ap.pc = "got" => ap.n \in Accepted
  /\ phase = "up" => head \in Known

Linked ==
  /\ \A n \in 1..tip : n - 1 \in Known => Step(n - 1, n)
  /\ phase = "up" /\ tip \in Known => last = tip

LinkInv == Clean => KnownOnTheWay /\ Linked

-----------------------------------------------------------------------------
(* Numbers and sequences. *)

(* A nonempty set of natural numbers has a smallest element. *)
LEMMA NatMin ==
  ASSUME NEW S \in SUBSET Nat, S # {}
  PROVE  \E m \in S : \A k \in S : m <= k
<1>. DEFINE R == OpToRel(<, Nat)
<1>1. IsWellFoundedOn(R, Nat)
  BY NatLessThanWellFounded
<1>2. \A x, y \in Nat : x < y => <<x, y>> \in R
  BY DEF OpToRel
<1>. HIDE DEF R
<1>3. PICK m \in S : \A k \in S : <<k, m>> \notin R
  BY <1>1, WFMin
<1>4. \A k \in S : ~ (k < m)
  BY <1>2, <1>3, Zenon
<1>5. \A k \in S : m \in Nat /\ k \in Nat
  OBVIOUS
<1>. QED
  BY <1>4, <1>5

(* A nonempty bounded set of natural numbers has a largest element. *)
LEMMA NatMax ==
  ASSUME NEW N \in Nat, NEW S \in SUBSET (0..N), S # {}
  PROVE  \E m \in S : \A k \in S : k <= m
<1>. DEFINE T == {b \in 0..N : \A k \in S : k <= b}
<1>1. N \in T
  OBVIOUS
<1>2. PICK t \in T : \A u \in T : t <= u
  <2>1. T \in SUBSET Nat /\ T # {}
    BY <1>1
  <2>. HIDE DEF T
  <2>. QED
    BY <2>1, NatMin
<1>3. t \in S
  <2>. SUFFICES ASSUME t \notin S PROVE FALSE
    OBVIOUS
  <2>1. \A k \in S : k \in Nat /\ k <= t - 1 /\ t - 1 \in 0..N
    OBVIOUS
  <2>2. t - 1 \in T
    BY <2>1
  <2>. QED
    BY <1>2, <2>2
<1>. QED
  BY <1>3

(* Length and elements. *)
LEMMA SequenceFacts ==
  ASSUME NEW S, NEW s \in Seq(S)
  PROVE  /\ Len(s) \in Nat /\ (s = <<>> <=> Len(s) = 0)
         /\ \A i \in 1..Len(s) : s[i] \in S
OBVIOUS

(* Head and Tail. *)
LEMMA TailFacts ==
  ASSUME NEW S, NEW s \in Seq(S), s # <<>>
  PROVE  /\ Len(s) \in Nat \ {0}
         /\ Head(s) = s[1] /\ Head(s) \in S
         /\ Tail(s) \in Seq(S)
         /\ Len(Tail(s)) = Len(s) - 1
         /\ \A i \in 1..Len(Tail(s)) : Tail(s)[i] = s[i + 1]
OBVIOUS

(* Append. *)
LEMMA AppendFacts ==
  ASSUME NEW S, NEW s \in Seq(S), NEW e \in S
  PROVE  /\ Len(s) \in Nat
         /\ Append(s, e) \in Seq(S) /\ Append(s, e) # <<>>
         /\ Len(Append(s, e)) = Len(s) + 1
         /\ \A i \in 1..Len(s) : Append(s, e)[i] = s[i]
         /\ Append(s, e)[Len(s) + 1] = e
OBVIOUS

(* The predecessors after the front of a queue was taken. *)
LEMMA PrevTail ==
  ASSUME NEW S, NEW s \in Seq(S), s # <<>>, NEW p, NEW q
  PROVE  /\ Len(s) \in Nat \ {0} /\ Len(Tail(s)) = Len(s) - 1
         /\ \A i \in 1..Len(s) - 1 : Tail(s)[i] = s[i + 1]
         /\ \A i \in 1..Len(s) : i # 1 \/ q = s[1].n => Prev(q, Tail(s), i) = Prev(p, s, i + 1)
         /\ \A i \in 1..Len(s) : Prev(p, s, i + 1) = s[i].n
         /\ q = s[1].n \/ Len(s) # 1 => LastOf(q, Tail(s)) = LastOf(p, s)
<1>1. /\ Len(s) \in Nat \ {0} /\ Len(Tail(s)) = Len(s) - 1
      /\ \A i \in 1..Len(s) - 1 : Tail(s)[i] = s[i + 1]
  BY TailFacts
<1>2. ASSUME NEW i \in 1..Len(s), i # 1 \/ q = s[1].n PROVE Prev(q, Tail(s), i) = Prev(p, s, i + 1)
  <2>1. i # 1 => i - 1 \in 1..Len(s) - 1 /\ (i - 1) + 1 = i /\ (i + 1) - 1 = i
    BY <1>1
  <2>. QED
    BY <1>1, <1>2, <2>1 DEF Prev
<1>3. ASSUME NEW i \in 1..Len(s) PROVE Prev(p, s, i + 1) = s[i].n
  <2>1. i + 1 # 1 /\ (i + 1) - 1 = i
    BY <1>1
  <2>. QED
    BY <2>1 DEF Prev
<1>4. q = s[1].n \/ Len(s) # 1 => LastOf(q, Tail(s)) = LastOf(p, s)
  BY <1>1, <1>2 DEF LastOf
<1>. QED
  BY <1>1, <1>2, <1>3, <1>4

(* Taking the front makes it the number to start from. *)
LEMMA PrevFront ==
  ASSUME NEW S, NEW s \in Seq(S), s # <<>>, NEW p
  PROVE  \A i \in 1..Len(s) : Prev(s[1].n, Tail(s), i) = Prev(p, s, i + 1)
<1>1. \A q : \A i \in 1..Len(s) : i # 1 \/ q = s[1].n => Prev(q, Tail(s), i) = Prev(p, s, i + 1)
  BY PrevTail
<1>. QED
  BY <1>1

(* The predecessors after an element joined a queue. *)
LEMMA PrevAppend ==
  ASSUME NEW S, NEW s \in Seq(S), NEW e \in S, NEW p
  PROVE  /\ Len(Append(s, e)) = Len(s) + 1
         /\ \A i \in 1..Len(s) : Append(s, e)[i] = s[i]
         /\ Append(s, e)[Len(s) + 1] = e
         /\ \A i \in 1..Len(s) + 1 : Prev(p, Append(s, e), i) = Prev(p, s, i)
         /\ LastOf(p, Append(s, e)) = e.n
<1>1. /\ Len(Append(s, e)) = Len(s) + 1 /\ Append(s, e)[Len(s) + 1] = e /\ Len(s) \in Nat
      /\ \A i \in 1..Len(s) : Append(s, e)[i] = s[i]
  BY AppendFacts
<1>2. ASSUME NEW i \in 1..Len(s) + 1 PROVE Prev(p, Append(s, e), i) = Prev(p, s, i)
  <2>1. i # 1 => i - 1 \in 1..Len(s)
    BY <1>1
  <2>. QED
    BY <1>1, <2>1 DEF Prev
<1>3. LastOf(p, Append(s, e)) = e.n
  <2>1. Len(s) + 1 + 1 # 1 /\ Len(s) + 1 + 1 - 1 = Len(s) + 1
    BY <1>1
  <2>. QED
    BY <1>1, <2>1 DEF LastOf, Prev
<1>. QED
  BY <1>1, <1>2, <1>3

(* Nothing joined, nothing left. *)
LEMMA PrevEmpty == \A p : LastOf(p, <<>>) = p /\ Ascends(p, <<>>)
BY DEF LastOf, Prev, Ascends

(* An ascending queue ascends without its front, and from any number not    *)
(* above its front.                                                         *)
LEMMA AscendTail ==
  ASSUME NEW S, \A x \in S : x.n \in Nat, NEW s \in Seq(S), s # <<>>,
         NEW p \in Nat, NEW q \in Nat, Ascends(p, s), q <= s[1].n
  PROVE  /\ p <= s[1].n /\ Ascends(q, Tail(s))
         /\ LastOf(q, Tail(s)) \in Nat /\ LastOf(p, s) \in Nat
         /\ LastOf(q, Tail(s)) <= LastOf(p, s)
<1>1. /\ Len(s) \in Nat \ {0} /\ Len(Tail(s)) = Len(s) - 1
      /\ \A i \in 1..Len(s) - 1 : Tail(s)[i] = s[i + 1]
      /\ \A i \in 1..Len(s) : i # 1 => Prev(q, Tail(s), i) = Prev(p, s, i + 1)
      /\ \A i \in 1..Len(s) : Prev(p, s, i + 1) = s[i].n
      /\ Len(s) # 1 => LastOf(q, Tail(s)) = LastOf(p, s)
  BY PrevTail
<1>2. \A i \in 1..Len(s) : s[i].n \in Nat
  OBVIOUS
<1>3. p <= s[1].n
  BY <1>1 DEF Ascends, Prev
<1>4. ASSUME NEW i \in 1..Len(s) - 1 PROVE s[i].n <= s[i + 1].n
  <2>1. i \in 1..Len(s) /\ i + 1 \in 1..Len(s)
    BY <1>1
  <2>. QED
    BY <1>1, <2>1 DEF Ascends
<1>5. ASSUME NEW i \in 1..Len(Tail(s)) PROVE Prev(q, Tail(s), i) <= Tail(s)[i].n
  <2>1. i \in 1..Len(s) /\ i + 1 \in 1..Len(s) /\ i \in 1..Len(s) - 1
    BY <1>1
  <2>2. CASE i = 1
    <3>1. Prev(q, Tail(s), i) = q /\ q <= s[i].n
      BY <2>2 DEF Prev
    <3>2. s[i].n <= s[i + 1].n /\ s[i].n \in Nat /\ s[i + 1].n \in Nat
      BY <1>2, <1>4, <2>1
    <3>. QED
      BY <1>1, <2>1, <3>1, <3>2
  <2>3. CASE i # 1
    BY <1>1, <1>4, <2>1, <2>3
  <2>. QED
    BY <2>2, <2>3
<1>6. LastOf(p, s) = s[Len(s)].n
  BY <1>1 DEF LastOf
<1>7. Len(s) = 1 => LastOf(q, Tail(s)) = q
  BY <1>1 DEF LastOf, Prev
<1>8. Len(s) \in 1..Len(s) /\ s[Len(s)].n \in Nat
  BY <1>1, <1>2
<1>9. /\ LastOf(q, Tail(s)) \in Nat /\ LastOf(p, s) \in Nat
      /\ LastOf(q, Tail(s)) <= LastOf(p, s)
  <2>1. CASE Len(s) = 1
    BY <1>6, <1>7, <1>8, <2>1
  <2>2. CASE Len(s) # 1
    BY <1>1, <1>6, <1>8, <2>2
  <2>. QED
    BY <2>1, <2>2
<1>10. Ascends(q, Tail(s))
  BY <1>5 DEF Ascends
<1>. QED
  BY <1>3, <1>9, <1>10

(* An ascending queue ascends with a new element that is not below its last. *)
LEMMA AscendAppend ==
  ASSUME NEW S, NEW s \in Seq(S), NEW e \in S, NEW p, Ascends(p, s), LastOf(p, s) <= e.n
  PROVE  Ascends(p, Append(s, e)) /\ LastOf(p, Append(s, e)) = e.n
<1>1. /\ Len(Append(s, e)) = Len(s) + 1 /\ Len(s) \in Nat
      /\ \A i \in 1..Len(s) : Append(s, e)[i] = s[i]
      /\ Append(s, e)[Len(s) + 1] = e
      /\ \A i \in 1..Len(s) + 1 : Prev(p, Append(s, e), i) = Prev(p, s, i)
      /\ LastOf(p, Append(s, e)) = e.n
  BY PrevAppend, SequenceFacts
<1>2. ASSUME NEW i \in 1..Len(s) + 1 PROVE Prev(p, Append(s, e), i) <= Append(s, e)[i].n
  <2>1. CASE i = Len(s) + 1
    BY <1>1, <2>1 DEF LastOf
  <2>2. CASE i \in 1..Len(s)
    BY <1>1, <2>2 DEF Ascends
  <2>. QED
    BY <1>1, <2>1, <2>2
<1>. QED
  BY <1>1, <1>2 DEF Ascends

(* An ascending queue ascends from a lower number too. *)
LEMMA AscendLower ==
  ASSUME NEW S, \A x \in S : x.n \in Nat, NEW s \in Seq(S), NEW p \in Nat, NEW q \in Nat,
         Ascends(p, s), q <= p
  PROVE  /\ Ascends(q, s) /\ LastOf(q, s) <= LastOf(p, s)
         /\ LastOf(q, s) \in Nat /\ LastOf(p, s) \in Nat
<1>1. Len(s) \in Nat /\ \A i \in 1..Len(s) : s[i].n \in Nat
  OBVIOUS
<1>2. ASSUME NEW i \in 1..Len(s) + 1
      PROVE  Prev(q, s, i) <= Prev(p, s, i) /\ Prev(q, s, i) \in Nat /\ Prev(p, s, i) \in Nat
  <2>1. i # 1 => i - 1 \in 1..Len(s)
    BY <1>1
  <2>. QED
    BY <1>1, <2>1 DEF Prev
<1>3. ASSUME NEW i \in 1..Len(s) PROVE Prev(q, s, i) <= s[i].n
  <2>1. i \in 1..Len(s) + 1
    BY <1>1
  <2>2. Prev(p, s, i) <= s[i].n
    BY DEF Ascends
  <2>. QED
    BY <1>1, <1>2, <2>1, <2>2
<1>4. Len(s) + 1 \in 1..Len(s) + 1
  BY <1>1
<1>. QED
  BY <1>2, <1>3, <1>4 DEF Ascends, LastOf

(* Nothing in an ascending queue is below the number it starts from. *)
LEMMA AscendFrom ==
  ASSUME NEW S, \A x \in S : x.n \in Nat, NEW s \in Seq(S), NEW p \in Nat, Ascends(p, s)
  PROVE  \A i \in 1..Len(s) + 1 : p <= Prev(p, s, i)
<1>1. Len(s) \in Nat /\ \A i \in 1..Len(s) : s[i].n \in Nat
  OBVIOUS
<1>. DEFINE Bad == {i \in 1..Len(s) + 1 : ~ (p <= Prev(p, s, i))}
<1>. SUFFICES ASSUME Bad # {} PROVE FALSE
  OBVIOUS
<1>2. PICK i \in Bad : \A k \in Bad : i <= k
  <2>1. Bad \in SUBSET Nat
    OBVIOUS
  <2>. HIDE DEF Bad
  <2>. QED
    BY <2>1, NatMin
<1>3. i # 1 /\ i \in 1..Len(s) + 1
  BY DEF Prev
<1>4. i - 1 \in 1..Len(s) /\ i - 1 \in 1..Len(s) + 1
  BY <1>1, <1>3
<1>5. i - 1 \notin Bad
  BY <1>1, <1>2, <1>4
<1>6. p <= Prev(p, s, i - 1) /\ Prev(p, s, i - 1) <= s[i - 1].n
  BY <1>4, <1>5 DEF Ascends
<1>7. Prev(p, s, i - 1) \in Nat
  <2>1. i - 1 # 1 => i - 1 - 1 \in 1..Len(s)
    BY <1>1, <1>4
  <2>. QED
    BY <1>1, <2>1 DEF Prev
<1>8. Prev(p, s, i) = s[i - 1].n /\ s[i - 1].n \in Nat
  BY <1>1, <1>3, <1>4 DEF Prev
<1>. QED
  BY <1>6, <1>7, <1>8

-----------------------------------------------------------------------------
(* Write sets and batches. *)

Batch == [del : SUBSET Key, store : Rows]

(* A batch is built from any write set, and writing it gives rows. *)
LEMMA BatchTypes ==
  ASSUME NEW rows \in Rows
  PROVE  /\ \A b \in Batch : WriteBatch(rows, b) \in Rows
         /\ \A w \in WriteSet : /\ BuildBatch(w, rows) \in Batch
                               /\ ApplyWriteSet(rows, w) \in Rows
<1>1. \A w \in WriteSet : BuildBatch(w, rows) \in Batch
  BY DEF Batch, BuildBatch, WriteSet
<1>2. \A c \in Batch : WriteBatch(rows, c) \in Rows
  BY DEF Batch, WriteBatch, Rows
<1>. QED
  BY <1>1, <1>2 DEF ApplyWriteSet

(* What a block may do is a write set and no full replace. *)
LEMMA EffectFacts ==
  ASSUME NEW n \in Block, NEW e \in BlockEffects(n)
  PROVE  e \in WriteSet /\ ~ e.full
<1>1. n \in Val
  BY RowsCarryBlock DEF Block
<1>2. PICK f \in [Key -> {"keep", "store", "delete"}] :
        e = [full |-> FALSE,
             store |-> [k \in Key |-> IF f[k] = "store" THEN n ELSE Absent],
             del |-> {k \in Key : f[k] = "delete"}]
  BY DEF BlockEffects
<1>3. [k \in Key |-> IF f[k] = "store" THEN n ELSE Absent] \in Rows
  BY <1>1 DEF Rows
<1>. QED
  BY <1>2, <1>3 DEF WriteSet

(* The export of a memory is a write set. *)
LEMMA FullFacts ==
  ASSUME NEW rows \in Rows
  PROVE  FullWriteSet(rows) \in WriteSet
BY DEF FullWriteSet, WriteSet

(* Only a full replace depends on the tables it is built from, and a block  *)
(* applied twice changes nothing more.                                      *)
LEMMA NotFullFacts ==
  ASSUME NEW w \in WriteSet, ~ w.full, NEW r1 \in Rows, NEW r2 \in Rows
  PROVE  /\ BuildBatch(w, r1) = BuildBatch(w, r2)
         /\ WriteBatch(r1, BuildBatch(w, r2)) = ApplyWriteSet(r1, w)
         /\ ApplyWriteSet(ApplyWriteSet(r1, w), w) = ApplyWriteSet(r1, w)
<1>1. \A r : BuildBatch(w, r) = [del |-> w.del \union {}, store |-> w.store]
  BY DEF BuildBatch
<1>2. BuildBatch(w, r1) = BuildBatch(w, r2)
  BY <1>1
<1>3. WriteBatch(r1, BuildBatch(w, r2)) = ApplyWriteSet(r1, w)
  BY <1>2 DEF ApplyWriteSet
<1>. DEFINE b == [del |-> w.del \union {}, store |-> w.store]
<1>4. \A r : ApplyWriteSet(r, w) = WriteBatch(r, b)
  BY <1>1 DEF ApplyWriteSet
<1>5. \A k \in Key : WriteBatch(WriteBatch(r1, b), b)[k] = WriteBatch(r1, b)[k]
  BY DEF WriteBatch
<1>6. WriteBatch(WriteBatch(r1, b), b) = WriteBatch(r1, b)
  <2>. HIDE DEF b
  <2>. QED
    BY <1>5 DEF WriteBatch
<1>. QED
  BY <1>2, <1>3, <1>4, <1>6

(* A full write built from tables d leaves what it exports, written over    *)
(* those tables or over the export itself.                                  *)
LEMMA FullExact ==
  ASSUME NEW rows \in Rows, NEW d \in Rows, NEW p \in Rows, p = rows \/ p = d
  PROVE  WriteBatch(p, BuildBatch(FullWriteSet(rows), d)) = rows
<1>. DEFINE b == BuildBatch(FullWriteSet(rows), d)
<1>1. b.store = rows /\ b.del = {k \in Key : d[k] # Absent}
  BY DEF BuildBatch, FullWriteSet
<1>2. \A k \in Key : WriteBatch(p, b)[k] = rows[k]
  <2>. HIDE DEF b
  <2>. QED
    BY <1>1 DEF WriteBatch, Rows
<1>. QED
  <2>1. WriteBatch(p, b) = [k \in Key |-> WriteBatch(p, b)[k]]
    BY DEF WriteBatch
  <2>2. rows = [k \in Key |-> rows[k]]
    BY DEF Rows
  <2>. HIDE DEF b
  <2>3. [k \in Key |-> WriteBatch(p, b)[k]] = [k \in Key |-> rows[k]]
    BY <1>2
  <2>. QED
    BY <2>1, <2>2, <2>3 DEF b

(* Replaying saved blocks gives rows. *)
LEMMA ReplayedType ==
  ASSUME chain \in [Block -> WriteSet], NEW rows \in Rows, NEW S \in SUBSET Block
  PROVE  Replayed(rows, S) \in Rows
<1>. DEFINE About(k) == {n \in S : chain[n].store[k] # Absent \/ k \in chain[n].del}
            Last(k) == CHOOSE n \in About(k) : \A i \in About(k) : i <= n
<1>1. ASSUME NEW k \in Key, About(k) # {}
      PROVE  Last(k) \in About(k)
  <2>1. MaxBlock \in Nat /\ Block \subseteq 0..MaxBlock
    BY BoundsAssumption DEF Block
  <2>. HIDE DEF Block
  <2>2. \E n \in About(k) : \A i \in About(k) : i <= n
    <3>1. About(k) \in SUBSET (0..MaxBlock)
      BY <2>1
    <3>. HIDE DEF About
    <3>. QED
      BY <1>1, <2>1, <3>1, NatMax
  <2>. QED
    BY <2>2
<1>2. ASSUME NEW k \in Key
      PROVE  (IF About(k) = {} THEN rows[k] ELSE chain[Last(k)].store[k]) \in Val \union {Absent}
  <2>1. CASE About(k) = {}
    BY <2>1 DEF Rows
  <2>2. CASE About(k) # {}
    <3>1. Last(k) \in Block
      BY <1>1, <2>2
    <3>2. chain[Last(k)].store \in Rows
      BY <3>1 DEF WriteSet
    <3>. QED
      BY <2>2, <3>2 DEF Rows
  <2>. QED
    BY <2>1, <2>2
<1>3. Replayed(rows, S) = [k \in Key |-> IF About(k) = {} THEN rows[k] ELSE chain[Last(k)].store[k]]
  BY DEF Replayed
<1>. HIDE DEF About, Last
<1>. QED
  BY <1>2, <1>3 DEF Rows

-----------------------------------------------------------------------------
(* Counters and types. *)

(* The blocks lane is finite, and a committed group leaves it. *)
LEMMA LaneFacts ==
  ASSUME NEW B \in SUBSET Block
  PROVE  /\ IsFiniteSet(B) /\ Cardinality(B) \in Nat
         /\ Cardinality({}) = 0
         /\ \A x \in Block \ B : Cardinality(B \union {x}) = Cardinality(B) + 1
         /\ \A S \in SUBSET B : /\ Cardinality(S) \in Nat
                               /\ Cardinality(S) <= Cardinality(B)
                               /\ Cardinality(B \ S) = Cardinality(B) - Cardinality(S)
<1>1. IsFiniteSet(Block)
  BY FS_Interval, BoundsAssumption DEF Block
<1>2. IsFiniteSet(B)
  BY <1>1, FS_Subset
<1>3. \A x \in Block \ B : Cardinality(B \union {x}) = Cardinality(B) + 1
  BY <1>2, FS_AddElement
<1>4. ASSUME NEW S \in SUBSET B
      PROVE  /\ Cardinality(S) \in Nat /\ Cardinality(S) <= Cardinality(B)
             /\ Cardinality(B \ S) = Cardinality(B) - Cardinality(S)
  <2>1. B \intersect S = S
    OBVIOUS
  <2>2. IsFiniteSet(S) /\ Cardinality(S) <= Cardinality(B)
    BY <1>2, FS_Subset
  <2>3. Cardinality(B \ S) = Cardinality(B) - Cardinality(S)
    BY <1>2, <2>1, FS_Difference
  <2>. QED
    BY <2>2, <2>3, FS_CardinalityType
<1>. QED
  BY <1>2, <1>3, <1>4, FS_CardinalityType, FS_EmptySet

(* The type invariant by parts. *)
StreamType == /\ chain \in [Block -> WriteSet] /\ expect \in [Height -> Rows]
              /\ tip \in Height /\ last \in Height
WorkerType == /\ prepared \in Seq(Block) /\ mem \in Rows /\ head \in Height
              /\ ap \in [pc : {"idle", "got", "applied", "sending"}, n : Height]
Queued == [n : Block, ws : WriteSet]
Built == [n : Block, batch : Batch]
QueueType == iq \in Seq(Queued) /\ built \in Seq(Built) /\ pending \in Nat
LaneType == bq \in SUBSET Block /\ saved \in SUBSET Block
DiskType == disk \in Image /\ ckpt \in [Block -> Image]
CkType == ck \in [pc : {"idle", "wait", "force", "sending", "rewait", "clone", "done"},
                  n : Height, rows : Rows]
FlagType == /\ phase \in {"up", "down"} /\ cancel \in BOOLEAN
            /\ faults \in SUBSET Fault /\ crashes \in Nat

(* The parts make up the whole, before and after a step. *)
LEMMA TypeParts ==
  /\ TypeOK <=> /\ StreamType /\ WorkerType /\ QueueType /\ LaneType
                /\ DiskType /\ CkType /\ FlagType
  /\ TypeOK' <=> /\ StreamType' /\ WorkerType' /\ QueueType' /\ LaneType'
                 /\ DiskType' /\ CkType' /\ FlagType'
BY DEF TypeOK, StreamType, WorkerType, QueueType, LaneType, DiskType, CkType, FlagType,
       Queued, Built, Batch

(* Types, the counter, and what a process that is down has left, together. *)
L1 == CountersSound /\ DownInv /\ bq \subseteq 1..tip

(* The head of a recovery is the tables' or a block to replay, and no block *)
(* to replay is above it.                                                    *)
LEMMA LargestFacts ==
  ASSUME L1
  PROVE  LET h == Largest(ToReplay \union {disk.n})
         IN  h \in ToReplay \union {disk.n} /\ \A i \in ToReplay \union {disk.n} : i <= h
<1>1. LaneType /\ DiskType /\ MaxBlock \in Nat
  BY TypeParts, BoundsAssumption DEF L1, CountersSound
<1>. DEFINE A == ToReplay \union {disk.n}
<1>2. disk.n \in 0..MaxBlock /\ ToReplay \subseteq 0..MaxBlock
  <2>1. disk.n \in Height /\ ToReplay \subseteq Block
    BY <1>1 DEF LaneType, DiskType, Image, ToReplay
  <2>. QED
    BY <1>1, <2>1 DEF Block, Height
<1>3. A \in SUBSET (0..MaxBlock) /\ A # {}
  BY <1>2
<1>. HIDE DEF A
<1>4. \E n \in A : \A i \in A : i <= n
  BY <1>1, <1>3, NatMax
<1>5. Largest(A) \in A /\ \A i \in A : i <= Largest(A)
  BY <1>4 DEF Largest
<1>. QED
  BY <1>5 DEF A

(* Initially everything is empty. *)
LEMMA InitL1 == Init => L1
<1>. SUFFICES ASSUME Init PROVE L1
  OBVIOUS
<1>1. NoRows \in Rows /\ EmptyWriteSet \in WriteSet /\ ~ EmptyWriteSet.full
  BY DEF NoRows, Rows, EmptyWriteSet, WriteSet
<1>2. 0 \in Height /\ MaxBlock \in Nat
  BY BoundsAssumption DEF Height
<1>3. TypeOK
  <2>1. DiskType
    BY <1>1, <1>2 DEF Init, DiskType, Image, NoCkpt
  <2>2. CkType
    BY <1>1, <1>2 DEF Init, NoCheckpoint, CkType
  <2>3. StreamType /\ WorkerType
    BY <1>1, <1>2 DEF Init, StreamType, WorkerType
  <2>4. QueueType
    BY DEF Init, QueueType
  <2>5. LaneType /\ FlagType
    BY DEF Init, LaneType, FlagType
  <2>. QED
    BY <2>1, <2>2, <2>3, <2>4, <2>5, TypeParts
<1>4. PendingCountsWork
  BY LaneFacts DEF Init, PendingCountsWork, NoCheckpoint
<1>. QED
  BY <1>1, <1>3, <1>4 DEF Init, L1, CountersSound, DownInv, NoCheckpoint

(***************************************************************************)
(* Every step keeps the types and the count.  Each action changes a few    *)
(* parts of the type invariant and of the sum.                             *)
(***************************************************************************)
LEMMA NextL1 == L1 /\ [Next]_vars => L1'
<1>. SUFFICES ASSUME L1, [Next]_vars PROVE L1'
  OBVIOUS
<1>. USE DEF L1, CountersSound
<1>0. /\ StreamType /\ WorkerType /\ QueueType /\ LaneType
      /\ DiskType /\ CkType /\ FlagType
  BY TypeParts
<1>a. /\ MaxBlock \in Nat /\ Block = 1..MaxBlock /\ Height = 0..MaxBlock
      /\ Len(iq) \in Nat /\ Len(built) \in Nat /\ Cardinality(bq) \in Nat
  BY <1>0, LaneFacts, BoundsAssumption DEF Block, Height, QueueType, LaneType
<1>1. ASSUME NEW e \in BlockEffects(tip + 1), Decode(e) PROVE L1'
  <2>1. tip + 1 \in Block /\ tip + 1 \in Height /\ tip + 1 \notin bq /\ tip \in Nat
    BY <1>0, <1>1, <1>a DEF Decode, StreamType
  <2>2. e \in WriteSet /\ ~ e.full
    BY <2>1, EffectFacts
  <2>3. StreamType'
    <3>1. ApplyWriteSet(expect[last], e) \in Rows
      BY <1>0, <2>2, BatchTypes DEF StreamType
    <3>. QED
      BY <1>0, <1>1, <2>1, <2>2, <3>1 DEF Decode, StreamType
  <2>4. WorkerType'
    BY <1>0, <1>1, <2>1 DEF Decode, WorkerType, memory
  <2>5. QueueType' /\ LaneType'
    BY <1>0, <1>1, <2>1 DEF Decode, QueueType, LaneType, queues
  <2>6. DiskType' /\ CkType' /\ FlagType'
    BY <1>0, <1>1 DEF Decode, DiskType, CkType, FlagType, tables
  <2>7. PendingCountsWork'
    <3>1. Cardinality(bq') = Cardinality(bq) + 1
      BY <1>0, <1>1, <2>1, LaneFacts DEF Decode, LaneType
    <3>. QED
      BY <1>1, <1>a, <3>1 DEF Decode, PendingCountsWork, queues
  <2>8. DownInv' /\ bq' \subseteq 1..tip'
    BY <1>0, <1>1, <1>a, <2>1, <2>2 DEF Decode, DownInv, StreamType
  <2>. QED
    BY <2>3, <2>4, <2>5, <2>6, <2>7, <2>8, TypeParts
<1>2. CASE Take
  <2>1. Head(prepared) \in Block /\ Tail(prepared) \in Seq(Block)
    BY <1>0, <1>2, TailFacts DEF Take, WorkerType
  <2>2. WorkerType'
    BY <1>0, <1>2, <1>a, <2>1 DEF Take, WorkerType, memory
  <2>3. StreamType' /\ QueueType' /\ LaneType' /\ DiskType' /\ CkType' /\ FlagType'
    BY <1>0, <1>2 DEF Take, StreamType, QueueType, LaneType, DiskType, CkType, FlagType, stream,
                      queues, tables
  <2>4. PendingCountsWork'
    BY <1>2 DEF Take, PendingCountsWork, queues
  <2>5. DownInv' /\ bq' \subseteq 1..tip'
    BY <1>2, <2>1 DEF Take, DownInv, stream, queues
  <2>. QED
    BY <2>2, <2>3, <2>4, <2>5, TypeParts
<1>3. CASE ApplyBlock
  <2>1. ap.n \in Block /\ ap.n \in Height
    BY <1>3, <1>a DEF ApplyBlock, DownInv
  <2>2. ApplyWriteSet(mem, chain[ap.n]) \in Rows
    BY <1>0, <2>1, BatchTypes DEF StreamType, WorkerType
  <2>3. WorkerType'
    BY <1>0, <1>3, <2>1, <2>2 DEF ApplyBlock, WorkerType
  <2>4. StreamType' /\ QueueType' /\ LaneType' /\ DiskType' /\ CkType' /\ FlagType'
    BY <1>0, <1>3 DEF ApplyBlock, StreamType, QueueType, LaneType, DiskType, CkType, FlagType, stream,
                      queues, tables
  <2>5. PendingCountsWork'
    BY <1>0, <1>3 DEF ApplyBlock, PendingCountsWork, queues, WorkerType
  <2>6. DownInv' /\ bq' \subseteq 1..tip'
    BY <1>0, <1>3, <2>1 DEF ApplyBlock, DownInv, stream, queues, WorkerType
  <2>. QED
    BY <2>3, <2>4, <2>5, <2>6, TypeParts
<1>4. CASE CountWrite
  <2>1. WorkerType'
    BY <1>0, <1>4 DEF CountWrite, WorkerType, memory
  <2>5. QueueType'
    BY <1>0, <1>4 DEF CountWrite, QueueType, queues
  <2>2. StreamType' /\ LaneType' /\ DiskType' /\ CkType' /\ FlagType'
    BY <1>0, <1>4 DEF CountWrite, StreamType, LaneType, DiskType, CkType, FlagType, stream, tables
  <2>3. PendingCountsWork'
    BY <1>0, <1>4, <1>a DEF CountWrite, PendingCountsWork, queues, WorkerType
  <2>4. DownInv' /\ bq' \subseteq 1..tip'
    BY <1>0, <1>4 DEF CountWrite, DownInv, stream, queues, WorkerType
  <2>. QED
    BY <2>1, <2>2, <2>3, <2>4, <2>5, TypeParts
<1>5. CASE SendWrite
  <2>1. [n |-> ap.n, ws |-> chain[ap.n]] \in Queued
    BY <1>0, <1>5 DEF SendWrite, DownInv, StreamType, Queued
  <2>2. WorkerType' /\ QueueType'
    BY <1>0, <1>5, <2>1, AppendFacts DEF SendWrite, WorkerType, QueueType, memory
  <2>3. StreamType' /\ LaneType' /\ DiskType' /\ CkType' /\ FlagType'
    BY <1>0, <1>5 DEF SendWrite, StreamType, LaneType, DiskType, CkType, FlagType, stream, tables
  <2>4. PendingCountsWork'
    <3>1. Len(iq') = Len(iq) + 1
      BY <1>0, <1>5, <2>1, AppendFacts DEF SendWrite, QueueType
    <3>. QED
      BY <1>0, <1>5, <1>a, <3>1 DEF SendWrite, PendingCountsWork, WorkerType
  <2>5. DownInv' /\ bq' \subseteq 1..tip'
    BY <1>0, <1>5 DEF SendWrite, DownInv, stream, WorkerType, FlagType
  <2>. QED
    BY <2>2, <2>3, <2>4, <2>5, TypeParts
<1>6. ASSUME NEW S \in SUBSET bq, SaveBlocks(S) PROVE L1'
  <2>1. /\ Cardinality(S) \in Nat /\ Cardinality(S) <= Cardinality(bq)
        /\ Cardinality(bq') = Cardinality(bq) - Cardinality(S)
    BY <1>0, <1>6, LaneFacts DEF SaveBlocks, LaneType
  <2>2. PendingCountsWork' /\ pending' \in Nat
    BY <1>0, <1>6, <1>a, <2>1 DEF SaveBlocks, PendingCountsWork, queues, QueueType
  <2>3. QueueType'
    BY <1>0, <1>6, <2>2 DEF SaveBlocks, QueueType, queues
  <2>4. LaneType'
    BY <1>0, <1>6 DEF SaveBlocks, LaneType
  <2>5. FlagType'
    BY <1>0, <1>6 DEF SaveBlocks, FlagType, Fault
  <2>6. StreamType' /\ WorkerType' /\ DiskType' /\ CkType'
    BY <1>0, <1>6 DEF SaveBlocks, StreamType, WorkerType, DiskType, CkType, stream, memory, tables
  <2>7. DownInv' /\ bq' \subseteq 1..tip'
    BY <1>6 DEF SaveBlocks, DownInv, stream, queues
  <2>. QED
    BY <2>2, <2>3, <2>4, <2>5, <2>6, <2>7, TypeParts
<1>7. CASE Build
  <2>1. /\ Head(iq) \in Queued /\ Tail(iq) \in Seq(Queued) /\ Len(Tail(iq)) = Len(iq) - 1
    BY <1>0, <1>7, TailFacts DEF Build, QueueType
  <2>2. [n |-> Head(iq).n, batch |-> BuildBatch(Head(iq).ws, disk.rows)] \in Built
    BY <1>0, <2>1, BatchTypes DEF Queued, Built, DiskType, Image
  <2>3. built' \in Seq(Built) /\ Len(built') = Len(built) + 1
    BY <1>0, <1>7, <2>2, AppendFacts DEF Build, QueueType
  <2>4. QueueType'
    BY <1>0, <1>7, <2>1, <2>3 DEF Build, QueueType
  <2>5. StreamType' /\ WorkerType' /\ LaneType' /\ DiskType' /\ CkType' /\ FlagType'
    BY <1>0, <1>7 DEF Build, StreamType, WorkerType, LaneType, DiskType, CkType, FlagType,
                      stream, memory, tables
  <2>6. PendingCountsWork'
    BY <1>7, <1>a, <2>1, <2>3 DEF Build, PendingCountsWork
  <2>7. DownInv' /\ bq' \subseteq 1..tip'
    BY <1>0, <1>7 DEF Build, DownInv, stream, FlagType
  <2>. QED
    BY <2>4, <2>5, <2>6, <2>7, TypeParts
<1>8. CASE BuildFails
  <2>1. Tail(iq) \in Seq(Queued) /\ Len(Tail(iq)) = Len(iq) - 1 /\ Len(iq) > 0
    BY <1>0, <1>8, TailFacts DEF BuildFails, QueueType
  <2>2. PendingCountsWork' /\ pending' \in Nat
    BY <1>0, <1>8, <1>a, <2>1 DEF BuildFails, PendingCountsWork, QueueType
  <2>3. QueueType'
    BY <1>0, <1>8, <2>1, <2>2 DEF BuildFails, QueueType
  <2>4. FlagType'
    BY <1>0, <1>8 DEF BuildFails, FlagType, Fault
  <2>5. StreamType' /\ WorkerType' /\ LaneType' /\ DiskType' /\ CkType'
    BY <1>0, <1>8 DEF BuildFails, StreamType, WorkerType, LaneType, DiskType, CkType,
                      stream, memory, tables
  <2>6. DownInv' /\ bq' \subseteq 1..tip'
    BY <1>0, <1>8 DEF BuildFails, DownInv, stream, FlagType
  <2>. QED
    BY <2>2, <2>3, <2>4, <2>5, <2>6, TypeParts
<1>9. ASSUME built # <<>>, built' = Tail(built), pending' = pending - 1,
             DiskType', FlagType', UNCHANGED <<phase, stream, ap, prepared, memory, bq, saved, iq, ck>>
      PROVE  L1'
  <2>1. Tail(built) \in Seq(Built) /\ Len(Tail(built)) = Len(built) - 1 /\ Len(built) > 0
    BY <1>0, <1>9, TailFacts DEF QueueType
  <2>2. PendingCountsWork' /\ pending' \in Nat
    BY <1>0, <1>9, <1>a, <2>1 DEF PendingCountsWork, QueueType
  <2>3. QueueType'
    BY <1>0, <1>9, <2>1, <2>2 DEF QueueType
  <2>4. StreamType' /\ WorkerType' /\ LaneType' /\ CkType'
    BY <1>0, <1>9 DEF StreamType, WorkerType, LaneType, CkType, stream, memory
  <2>5. DownInv' /\ bq' \subseteq 1..tip'
    BY <1>0, <1>9 DEF DownInv, stream, FlagType
  <2>. QED
    BY <1>9, <2>2, <2>3, <2>4, <2>5, TypeParts
<1>10. CASE Write
  <2>1. Head(built) \in Built
    BY <1>0, <1>10, TailFacts DEF Write, QueueType
  <2>2. [n |-> Head(built).n, rows |-> WriteBatch(disk.rows, Head(built).batch)] \in Image
    BY <1>0, <1>a, <2>1, BatchTypes DEF Built, DiskType, Image
  <2>3. NoCkpt \in Image
    BY <1>a DEF NoCkpt, Image, NoRows, Rows
  <2>4. DiskType'
    BY <1>0, <1>10, <2>2, <2>3 DEF Write, DiskType, EpochImage
  <2>5. FlagType'
    BY <1>0, <1>10 DEF Write, FlagType, Fault
  <2>. QED
    BY <1>9, <1>10, <2>4, <2>5 DEF Write
<1>11. CASE WriteFails
  <2>1. DiskType' /\ FlagType'
    BY <1>0, <1>11 DEF WriteFails, DiskType, FlagType, Fault, tables
  <2>. QED
    BY <1>9, <1>11, <2>1 DEF WriteFails
<1>12. CASE Shutdown
  <2>1. /\ StreamType' /\ WorkerType' /\ QueueType' /\ LaneType'
        /\ DiskType' /\ CkType' /\ FlagType'
    BY <1>0, <1>12 DEF Shutdown, StreamType, WorkerType, QueueType, LaneType, DiskType, CkType, FlagType,
                       stream, memory, queues, tables
  <2>2. PendingCountsWork' /\ DownInv' /\ bq' \subseteq 1..tip'
    BY <1>12 DEF Shutdown, PendingCountsWork, DownInv, stream, queues
  <2>. QED
    BY <2>1, <2>2, TypeParts
<1>13. ASSUME CkType', ck.pc # "sending", ck'.pc # "sending", FlagType', DiskType',
              phase = "up", ck'.pc \notin {"idle", "done"} => ck'.n \in Block,
              UNCHANGED <<phase, stream, prepared, ap, memory, bq, saved, queues, pending>>
       PROVE  L1'
  <2>1. StreamType' /\ WorkerType' /\ QueueType' /\ LaneType'
    BY <1>0, <1>13 DEF StreamType, WorkerType, QueueType, LaneType, stream, memory, queues
  <2>2. PendingCountsWork' /\ DownInv' /\ bq' \subseteq 1..tip'
    BY <1>13 DEF PendingCountsWork, DownInv, stream, queues
  <2>. QED
    BY <1>13, <2>1, <2>2, TypeParts
<1>b. ck.pc # "idle" => phase = "up"
  BY <1>0 DEF DownInv, FlagType
<1>c. UNCHANGED tables => DiskType'
  BY <1>0 DEF DiskType, tables
<1>14. CASE CkBegin
  <2>5. NoRows \in Rows /\ 0 \in Height /\ head \in Height
    BY <1>0, <1>a DEF NoRows, Rows, WorkerType
  <2>1. CkType'
    <3>1. \/ ck' = [pc |-> "done", n |-> 0, rows |-> NoRows]
          \/ ck' = [pc |-> "wait", n |-> head, rows |-> NoRows]
      BY <1>14 DEF CkBegin, NoCheckpoint
    <3>. QED
      BY <2>5, <3>1 DEF CkType
  <2>2. ck'.pc \in {"wait", "done"} /\ (ck'.pc = "wait" => ck'.n \in Block)
    BY <1>0, <1>14, <1>a DEF CkBegin, NoCheckpoint, WorkerType
  <2>3. FlagType'
    BY <1>0, <1>14 DEF CkBegin, FlagType
  <2>4. phase = "up"
    BY <1>0, <1>14 DEF CkBegin, DownInv, FlagType
  <2>. QED
    BY <1>13, <1>14, <1>c, <2>1, <2>2, <2>3, <2>4 DEF CkBegin
<1>15. CASE CkIdle \/ CkBusy \/ CkRewait
  <2>1. CkType' /\ ck'.n = ck.n /\ ck'.pc \in {"force", "clone"} /\ ck.pc \in {"wait", "rewait"}
    BY <1>0, <1>15 DEF CkIdle, CkBusy, CkRewait, CkType
  <2>2. FlagType'
    BY <1>0, <1>15 DEF CkIdle, CkBusy, CkRewait, FlagType, Fault
  <2>3. ck'.n \in Block
    BY <2>1 DEF DownInv
  <2>. QED
    BY <1>13, <1>15, <1>b, <1>c, <2>1, <2>2, <2>3 DEF CkIdle, CkBusy, CkRewait
<1>16. CASE CkForce
  <2>1. CkType' /\ ck'.pc = "sending" /\ ck'.n = ck.n /\ ck.pc = "force"
    BY <1>0, <1>16 DEF CkForce, CkType, WorkerType
  <2>2. QueueType'
    BY <1>0, <1>16 DEF CkForce, QueueType, queues
  <2>3. StreamType' /\ WorkerType' /\ LaneType' /\ DiskType' /\ FlagType'
    BY <1>0, <1>16 DEF CkForce, StreamType, WorkerType, LaneType, DiskType, FlagType,
                       stream, memory, tables
  <2>4. PendingCountsWork'
    BY <1>16, <1>a, <2>1 DEF CkForce, PendingCountsWork, queues
  <2>5. DownInv' /\ bq' \subseteq 1..tip'
    BY <1>16, <1>b, <2>1 DEF CkForce, DownInv, stream, queues
  <2>. QED
    BY <2>1, <2>2, <2>3, <2>4, <2>5, TypeParts
<1>17. CASE CkSend
  <2>1. CkType' /\ ck'.pc = "rewait" /\ ck'.n = ck.n /\ ck.pc = "sending"
    BY <1>0, <1>17 DEF CkSend, CkType
  <2>2. [n |-> ck.n, ws |-> FullWriteSet(ck.rows)] \in Queued
    BY <1>0, <2>1, FullFacts DEF CkType, DownInv, Queued
  <2>3. QueueType' /\ Len(iq') = Len(iq) + 1
    BY <1>0, <1>17, <2>2, AppendFacts DEF CkSend, QueueType
  <2>4. StreamType' /\ WorkerType' /\ LaneType' /\ DiskType' /\ FlagType'
    BY <1>0, <1>17 DEF CkSend, StreamType, WorkerType, LaneType, DiskType, FlagType,
                       stream, memory, tables
  <2>5. PendingCountsWork'
    BY <1>17, <1>a, <2>1, <2>3 DEF CkSend, PendingCountsWork
  <2>6. DownInv' /\ bq' \subseteq 1..tip'
    BY <1>17, <1>b, <2>1 DEF CkSend, DownInv, stream
  <2>. QED
    BY <2>1, <2>3, <2>4, <2>5, <2>6, TypeParts
<1>18. CASE CkClone
  <2>1. CkType' /\ ck'.pc = "done" /\ ck.pc = "clone"
    BY <1>0, <1>18 DEF CkClone, CkType
  <2>2. NoCkpt \in Image
    BY <1>a DEF NoCkpt, Image, NoRows, Rows
  <2>3. DiskType'
    BY <1>0, <1>18, <2>2 DEF CkClone, DiskType
  <2>4. FlagType'
    BY <1>0, <1>18 DEF CkClone, FlagType, Fault
  <2>. QED
    BY <1>13, <1>18, <1>b, <2>1, <2>3, <2>4 DEF CkClone
<1>19. CASE GoDown /\ crashes' = crashes + 1 /\ UNCHANGED faults
  <2>1. NoRows \in Rows /\ 0 \in Height
    BY <1>a DEF NoRows, Rows
  <2>2. WorkerType'
    BY <1>19, <2>1 DEF GoDown, WorkerType
  <2>3. QueueType'
    BY <1>19 DEF GoDown, QueueType
  <2>4. CkType'
    BY <1>19, <2>1 DEF GoDown, CkType, NoCheckpoint
  <2>5. StreamType' /\ LaneType'
    BY <1>0, <1>19 DEF GoDown, StreamType, LaneType, stream
  <2>8. DiskType'
    BY <1>0, <1>19 DEF GoDown, DiskType, tables
  <2>9. FlagType'
    <3>1. faults' \in SUBSET Fault /\ crashes' \in Nat
      BY <1>0, <1>19 DEF FlagType
    <3>. QED
      BY <1>19, <3>1 DEF GoDown, FlagType
  <2>6. PendingCountsWork'
    BY <1>19, LaneFacts DEF GoDown, PendingCountsWork, NoCheckpoint
  <2>7. DownInv' /\ bq' \subseteq 1..tip'
    BY <1>19 DEF GoDown, DownInv, stream, NoCheckpoint
  <2>. QED
    BY <2>2, <2>3, <2>4, <2>5, <2>6, <2>7, <2>8, <2>9, TypeParts
<1>20. CASE Recover
  <2>1. ToReplay \in SUBSET Block /\ disk.n \in Height /\ disk.rows \in Rows
    BY <1>0 DEF ToReplay, LaneType, DiskType, Image
  <2>2. Replayed(disk.rows, ToReplay) \in Rows
    BY <1>0, <2>1, ReplayedType DEF StreamType
  <2>3. Largest(ToReplay \union {disk.n}) \in Height
    <3>1. Largest(ToReplay \union {disk.n}) \in ToReplay \union {disk.n}
      BY LargestFacts
    <3>2. Block \subseteq Height
      BY <1>a
    <3>. QED
      BY <2>1, <3>1, <3>2
  <2>4. WorkerType'
    BY <1>0, <1>20, <2>2, <2>3 DEF Recover, WorkerType
  <2>5. StreamType'
    BY <1>0, <1>20, <2>2, <2>3 DEF Recover, StreamType
  <2>6. QueueType' /\ LaneType'
    BY <1>0, <1>20 DEF Recover, QueueType, LaneType, queues
  <2>7. DiskType' /\ CkType'
    BY <1>0, <1>20 DEF Recover, DiskType, CkType, tables
  <2>8. FlagType'
    BY <1>0, <1>20 DEF Recover, FlagType, Fault
  <2>9. PendingCountsWork' /\ DownInv' /\ bq' \subseteq 1..tip'
    BY <1>20 DEF Recover, PendingCountsWork, DownInv, queues
  <2>. QED
    BY <2>4, <2>5, <2>6, <2>7, <2>8, <2>9, TypeParts
<1>21. CASE UNCHANGED vars
  <2>1. /\ StreamType' /\ WorkerType' /\ QueueType' /\ LaneType'
        /\ DiskType' /\ CkType' /\ FlagType'
    BY <1>0, <1>21 DEF vars, StreamType, WorkerType, QueueType, LaneType, DiskType, CkType, FlagType,
                       stream, memory, queues, tables
  <2>2. PendingCountsWork' /\ DownInv' /\ bq' \subseteq 1..tip'
    BY <1>21 DEF vars, PendingCountsWork, DownInv, stream, queues
  <2>. QED
    BY <2>1, <2>2, TypeParts
<1>. QED
  BY <1>1, <1>2, <1>3, <1>4, <1>5, <1>6, <1>7, <1>8, <1>10, <1>11, <1>12, <1>14, <1>15, <1>16,
     <1>17, <1>18, <1>19, <1>20, <1>21 DEF Next, Exit, Crash

(* The pending counter of every behaviour is exact, and every queue, table  *)
(* and counter keeps its type: no failure path leaks a count or takes one   *)
(* too many, whatever the number of blocks, keys, crashes and places.       *)
THEOREM CountersCorrect == Spec => []CountersSound
<1>1. L1 => CountersSound
  BY DEF L1
<1>. QED
  BY InitL1, NextL1, <1>1, PTL DEF Spec

-----------------------------------------------------------------------------
(* The order of the numbers on their way. *)

(* The numbers in the queues are block numbers. *)
Numbers ==
  /\ disk.n \in Nat /\ tip \in Nat /\ last \in Nat /\ head \in Nat /\ ap.n \in Nat
  /\ ck.n \in Nat
  /\ Len(built) \in Nat /\ \A i \in 1..Len(built) : built[i] \in Built /\ built[i].n \in Nat
  /\ Len(iq) \in Nat /\ \A i \in 1..Len(iq) : iq[i] \in Queued /\ iq[i].n \in Nat
  /\ Len(prepared) \in Nat /\ \A i \in 1..Len(prepared) : prepared[i] \in Nat
  /\ built = <<>> <=> Len(built) = 0
  /\ iq = <<>> <=> Len(iq) = 0
  /\ prepared = <<>> <=> Len(prepared) = 0

(* Before and after a step. *)
LEMMA NumbersType == (L1 => Numbers) /\ (L1' => Numbers')
<1>1. MaxBlock \in Nat /\ Block = 1..MaxBlock /\ Height = 0..MaxBlock
  BY BoundsAssumption DEF Block, Height
<1>0. \A x \in Built : x.n \in Nat
  BY <1>1 DEF Built
<1>b. \A x \in Queued : x.n \in Nat
  BY <1>1 DEF Queued
<1>2. \A s \in Seq(Built) : /\ Len(s) \in Nat /\ (s = <<>> <=> Len(s) = 0)
                            /\ \A i \in 1..Len(s) : s[i] \in Built
  BY SequenceFacts
<1>3. \A s \in Seq(Queued) : /\ Len(s) \in Nat /\ (s = <<>> <=> Len(s) = 0)
                             /\ \A i \in 1..Len(s) : s[i] \in Queued
  BY SequenceFacts
<1>4. \A s \in Seq(Block) : /\ Len(s) \in Nat /\ (s = <<>> <=> Len(s) = 0)
                            /\ \A i \in 1..Len(s) : s[i] \in Nat
  BY <1>1, SequenceFacts
<1>5. ASSUME L1 PROVE Numbers
  <2>1. StreamType /\ WorkerType /\ QueueType /\ DiskType /\ CkType
    BY <1>5, TypeParts DEF L1, CountersSound
  <2>2. disk.n \in Nat /\ tip \in Nat /\ last \in Nat /\ head \in Nat /\ ap.n \in Nat /\ ck.n \in Nat
    BY <1>1, <2>1 DEF StreamType, WorkerType, DiskType, Image, CkType
  <2>. QED
    BY <1>0, <1>b, <1>2, <1>3, <1>4, <2>1, <2>2 DEF Numbers, QueueType, WorkerType
<1>6. ASSUME L1' PROVE Numbers'
  <2>1. StreamType' /\ WorkerType' /\ QueueType' /\ DiskType' /\ CkType'
    BY <1>6, TypeParts DEF L1, CountersSound
  <2>2. disk'.n \in Nat /\ tip' \in Nat /\ last' \in Nat /\ head' \in Nat /\ ap'.n \in Nat /\ ck'.n \in Nat
    BY <1>1, <2>1 DEF StreamType, WorkerType, DiskType, Image, CkType
  <2>. QED
    BY <1>0, <1>b, <1>2, <1>3, <1>4, <2>1, <2>2 DEF Numbers, QueueType, WorkerType
<1>. QED
  BY <1>5, <1>6

(***************************************************************************)
(* What the actions do to the three queues, in terms of their elements.    *)
(***************************************************************************)
LEMMA QueueMoves ==
  ASSUME L1
  PROVE  /\ prepared # <<>> => /\ Len(prepared) > 0 /\ Head(prepared) = prepared[1]
                               /\ Len(Tail(prepared)) = Len(prepared) - 1
                               /\ \A i \in 1..Len(prepared) - 1 : Tail(prepared)[i] = prepared[i + 1]
         /\ iq # <<>> => /\ Len(iq) > 0 /\ Head(iq) = iq[1]
                         /\ Len(Tail(iq)) = Len(iq) - 1
                         /\ \A i \in 1..Len(iq) - 1 : Tail(iq)[i] = iq[i + 1]
         /\ built # <<>> => /\ Len(built) > 0 /\ Head(built) = built[1]
                            /\ Len(Tail(built)) = Len(built) - 1
                            /\ \A i \in 1..Len(built) - 1 : Tail(built)[i] = built[i + 1]
         /\ \A e \in Block : /\ Len(Append(prepared, e)) = Len(prepared) + 1
                              /\ \A i \in 1..Len(prepared) : Append(prepared, e)[i] = prepared[i]
                              /\ Append(prepared, e)[Len(prepared) + 1] = e
         /\ \A e \in Queued : /\ Len(Append(iq, e)) = Len(iq) + 1
                               /\ \A i \in 1..Len(iq) : Append(iq, e)[i] = iq[i]
                               /\ Append(iq, e)[Len(iq) + 1] = e
         /\ \A e \in Built : /\ Len(Append(built, e)) = Len(built) + 1
                              /\ \A i \in 1..Len(built) : Append(built, e)[i] = built[i]
                              /\ Append(built, e)[Len(built) + 1] = e
<1>1. prepared \in Seq(Block) /\ iq \in Seq(Queued) /\ built \in Seq(Built)
  BY TypeParts DEF L1, CountersSound, WorkerType, QueueType
<1>2. prepared # <<>> => /\ Len(prepared) > 0 /\ Head(prepared) = prepared[1]
                         /\ Len(Tail(prepared)) = Len(prepared) - 1
                         /\ \A i \in 1..Len(prepared) - 1 : Tail(prepared)[i] = prepared[i + 1]
  BY <1>1, TailFacts
<1>3. iq # <<>> => /\ Len(iq) > 0 /\ Head(iq) = iq[1]
                   /\ Len(Tail(iq)) = Len(iq) - 1
                   /\ \A i \in 1..Len(iq) - 1 : Tail(iq)[i] = iq[i + 1]
  BY <1>1, TailFacts
<1>4. built # <<>> => /\ Len(built) > 0 /\ Head(built) = built[1]
                      /\ Len(Tail(built)) = Len(built) - 1
                      /\ \A i \in 1..Len(built) - 1 : Tail(built)[i] = built[i + 1]
  BY <1>1, TailFacts
<1>5. \A e \in Block : /\ Len(Append(prepared, e)) = Len(prepared) + 1
                       /\ \A i \in 1..Len(prepared) : Append(prepared, e)[i] = prepared[i]
                       /\ Append(prepared, e)[Len(prepared) + 1] = e
  BY <1>1, AppendFacts
<1>6. \A e \in Queued : /\ Len(Append(iq, e)) = Len(iq) + 1
                        /\ \A i \in 1..Len(iq) : Append(iq, e)[i] = iq[i]
                        /\ Append(iq, e)[Len(iq) + 1] = e
  BY <1>1, AppendFacts
<1>7. \A e \in Built : /\ Len(Append(built, e)) = Len(built) + 1
                       /\ \A i \in 1..Len(built) : Append(built, e)[i] = built[i]
                       /\ Append(built, e)[Len(built) + 1] = e
  BY <1>1, AppendFacts
<1>. QED
  BY <1>2, <1>3, <1>4, <1>5, <1>6, <1>7

(* At the start every number is 0. *)
LEMMA InitOrdered == Init => Ordered
<1>. SUFFICES ASSUME Init PROVE Ordered
  OBVIOUS
<1>1. MaxBlock \in Nat
  BY BoundsAssumption
<1>2. LastBuilt = 0 /\ LastQueued = 0
  BY PrevEmpty DEF Init, LastQueued, LastBuilt
<1>3. QueuesOrdered
  BY <1>2, PrevEmpty DEF Init, QueuesOrdered
<1>4. LastTaken = 0 /\ LastPrepared = 0
  BY DEF Init, LastPrepared, LastTaken, PreparedPrev
<1>. QED
  BY <1>1, <1>3, <1>4 DEF Init, Ordered, Bounded, WorkerOrdered, CheckpointOrdered, NoCheckpoint,
         Block, Height

(* What the order of the queues depends on, given the order itself. *)
QueueFacts ==
  /\ built \in Seq(Built) /\ iq \in Seq(Queued)
  /\ LastBuilt \in Nat /\ LastQueued \in Nat
  /\ \A x \in Built : x.n \in Nat
  /\ \A x \in Queued : x.n \in Nat

(* The last number of a queue is a number. *)
LEMMA QueueFactsHold == L1 => QueueFacts
<1>. SUFFICES ASSUME L1 PROVE QueueFacts
  OBVIOUS
<1>1. built \in Seq(Built) /\ iq \in Seq(Queued)
  BY TypeParts DEF L1, CountersSound, QueueType
<1>2. Numbers
  BY NumbersType
<1>3. (\A x \in Built : x.n \in Nat) /\ (\A x \in Queued : x.n \in Nat)
  BY BoundsAssumption DEF Built, Queued, Block
<1>4. LastBuilt \in Nat
  BY <1>2 DEF LastBuilt, LastOf, Prev, Numbers
<1>5. LastQueued \in Nat
  BY <1>2, <1>4 DEF LastQueued, LastOf, Prev, Numbers
<1>. QED
  BY <1>1, <1>3, <1>4, <1>5 DEF QueueFacts

(* No step puts a number out of order: what leaves a queue at its front is  *)
(* at least what left it before, and what enters is at least what entered.  *)
LEMMA NextOrdered == L1 /\ L1' /\ Ordered /\ [Next]_vars => Ordered'
<1>. SUFFICES ASSUME L1, L1', Ordered, [Next]_vars PROVE Ordered'
  OBVIOUS
<1>0. Numbers /\ Numbers'
  BY NumbersType
<1>f. QueueFacts
  BY QueueFactsHold
<1>p. Bounded /\ QueuesOrdered /\ WorkerOrdered /\ CheckpointOrdered
  BY DEF Ordered
<1>t. /\ StreamType /\ WorkerType /\ QueueType /\ LaneType
      /\ DiskType /\ CkType /\ FlagType
  BY TypeParts DEF L1, CountersSound
<1>b. UNCHANGED <<tip, head, last, ap, prepared, iq, built, disk, saved>> => Bounded'
  BY <1>p DEF Bounded
<1>q. UNCHANGED <<iq, built, disk, head, phase>> => QueuesOrdered'
  BY <1>p DEF QueuesOrdered, LastQueued, LastBuilt
<1>w. UNCHANGED <<ap, prepared, head, last, phase>> => WorkerOrdered'
  BY <1>p DEF WorkerOrdered, PreparedPrev, LastPrepared, LastTaken
<1>c. UNCHANGED <<ck, head>> => CheckpointOrdered'
  BY <1>p DEF CheckpointOrdered
<1>1. ASSUME NEW e \in BlockEffects(tip + 1), Decode(e) PROVE Ordered'
  <2>1. tip + 1 \in Block
    BY <1>0, <1>1, BoundsAssumption DEF Decode, Block, Numbers
  <2>2. /\ Len(prepared') = Len(prepared) + 1 /\ prepared'[Len(prepared) + 1] = tip + 1
        /\ \A i \in 1..Len(prepared) : prepared'[i] = prepared[i]
    BY <1>1, <2>1, QueueMoves DEF Decode
  <2>3. Bounded'
    <3>1. \A i \in 1..Len(prepared') : prepared'[i] <= tip'
      BY <1>0, <1>1, <1>p, <2>2 DEF Decode, Bounded, Numbers
    <3>2. /\ \A i \in 1..Len(built') : built'[i].n <= head'
          /\ \A i \in 1..Len(iq') : iq'[i].n <= head'
      BY <1>1, <1>p DEF Decode, Bounded, queues, memory
    <3>3. disk'.n <= tip' /\ head' <= tip' /\ last' <= tip' /\ ap'.n <= tip'
      BY <1>0, <1>1, <1>p DEF Decode, Bounded, Numbers, memory, tables
    <3>4. saved' \subseteq 1..tip'
      BY <1>0, <1>1, <1>p DEF Decode, Bounded, Numbers
    <3>. QED
      BY <3>1, <3>2, <3>3, <3>4 DEF Bounded
  <2>4. WorkerOrdered'
    <3>1. LastPrepared <= tip
      BY <1>0, <1>1, <1>p DEF Decode, Bounded, WorkerOrdered, Numbers
    <3>2. ASSUME NEW i \in 1..Len(prepared') PROVE PreparedPrev(i)' < prepared'[i]
      <4>1. PreparedPrev(i)' = PreparedPrev(i)
        <5>1. i # 1 => i - 1 \in 1..Len(prepared)
          BY <1>0, <2>2 DEF Numbers
        <5>. QED
          BY <1>1, <2>2, <5>1 DEF Decode, PreparedPrev, LastTaken, memory
      <4>2. CASE i = Len(prepared) + 1
        <5>1. LastPrepared \in Nat
          BY <1>0, <1>1, <1>p DEF Numbers, WorkerOrdered, Decode
        <5>2. PreparedPrev(i)' = LastPrepared
          BY <4>1, <4>2 DEF LastPrepared
        <5>3. prepared'[i] = tip + 1 /\ tip \in Nat
          BY <1>0, <2>2, <4>2 DEF Numbers
        <5>. QED
          BY <3>1, <5>1, <5>2, <5>3
      <4>3. CASE i \in 1..Len(prepared)
        BY <1>p, <2>2, <4>1, <4>3 DEF WorkerOrdered
      <4>4. Len(prepared) \in Nat
        BY <1>0 DEF Numbers
      <4>5. i = Len(prepared) + 1 \/ i \in 1..Len(prepared)
        BY <2>2, <4>4
      <4>. QED
        BY <4>2, <4>3, <4>5
    <3>3. LastPrepared' = last'
      <4>1. Len(prepared') + 1 # 1 /\ Len(prepared') + 1 - 1 = Len(prepared) + 1
        BY <1>0, <2>2 DEF Numbers
      <4>. QED
        BY <1>1, <2>2, <4>1 DEF Decode, LastPrepared, PreparedPrev
    <3>. QED
      BY <1>1, <1>p, <3>2, <3>3 DEF Decode, WorkerOrdered, memory
  <2>. QED
    BY <1>1, <1>c, <1>q, <2>3, <2>4 DEF Decode, Ordered, memory, queues, tables
<1>2. CASE Take
  <2>1. /\ Len(prepared) > 0 /\ ap'.pc = "got" /\ ap'.n = prepared[1]
        /\ Len(prepared') = Len(prepared) - 1
        /\ \A i \in 1..Len(prepared) - 1 : prepared'[i] = prepared[i + 1]
    BY <1>2, QueueMoves DEF Take
  <2>2. Bounded'
    BY <1>0, <1>2, <1>p, <2>1 DEF Take, Bounded, Numbers, memory, queues, tables, stream
  <2>3. WorkerOrdered'
    <3>1. head' < ap'.n
      BY <1>0, <1>2, <1>p, <2>1 DEF Take, WorkerOrdered, PreparedPrev, LastTaken, Numbers, memory
    <3>a. ASSUME NEW i \in 1..Len(prepared) PROVE PreparedPrev(i)' = PreparedPrev(i + 1)
      <4>1. i + 1 # 1 /\ i + 1 - 1 = i /\ (i # 1 => i - 1 \in 1..Len(prepared) - 1 /\ i - 1 + 1 = i)
        BY <1>0 DEF Numbers
      <4>. QED
        BY <2>1, <4>1 DEF PreparedPrev, LastTaken
    <3>2. ASSUME NEW i \in 1..Len(prepared') PROVE PreparedPrev(i)' < prepared'[i]
      <4>1. i \in 1..Len(prepared) /\ i + 1 \in 1..Len(prepared) /\ i \in 1..Len(prepared) - 1
        BY <1>0, <2>1 DEF Numbers
      <4>2. PreparedPrev(i + 1) < prepared[i + 1]
        BY <1>p, <4>1 DEF WorkerOrdered
      <4>. QED
        BY <2>1, <3>a, <4>1, <4>2
    <3>3. phase' = "up" => LastPrepared' = last'
      <4>1. Len(prepared') + 1 = Len(prepared) /\ Len(prepared) \in 1..Len(prepared)
        BY <1>0, <2>1 DEF Numbers
      <4>. QED
        BY <1>2, <1>p, <3>a, <4>1 DEF Take, WorkerOrdered, LastPrepared, stream
    <3>. QED
      BY <2>1, <3>1, <3>2, <3>3 DEF WorkerOrdered
  <2>. QED
    BY <1>2, <1>c, <1>q, <2>2, <2>3 DEF Take, Ordered, memory, queues, tables
<1>3. CASE ApplyBlock
  <2>1. head' = ap.n /\ ap'.n = ap.n /\ ap'.pc = "applied" /\ ap.pc = "got" /\ head < ap.n
    BY <1>3, <1>p, <1>t DEF ApplyBlock, WorkerType, WorkerOrdered
  <2>2. Bounded'
    <3>a. built' = built /\ iq' = iq /\ head \in Nat /\ ap.n \in Nat
      BY <1>0, <1>3 DEF ApplyBlock, queues, Numbers
    <3>b. /\ \A i \in 1..Len(built) : built[i].n \in Nat /\ built[i].n <= head
          /\ \A i \in 1..Len(iq) : iq[i].n \in Nat /\ iq[i].n <= head
      BY <1>0, <1>p DEF Bounded, Numbers
    <3>1. /\ \A i \in 1..Len(built') : built'[i].n <= head'
          /\ \A i \in 1..Len(iq') : iq'[i].n <= head'
      BY <2>1, <3>a, <3>b
    <3>. QED
      BY <1>3, <1>p, <2>1, <3>1 DEF ApplyBlock, Bounded, tables, stream
  <2>3. WorkerOrdered'
    BY <1>3, <1>p, <2>1 DEF ApplyBlock, WorkerOrdered, PreparedPrev, LastPrepared, LastTaken, stream
  <2>4. QueuesOrdered'
    <3>1. LastBuilt' = LastBuilt /\ LastQueued' = LastQueued /\ LastQueued \in Nat
      BY <1>3, <1>f DEF ApplyBlock, LastQueued, LastBuilt, queues, tables, QueueFacts
    <3>. QED
      BY <1>0, <1>3, <1>p, <2>1, <3>1 DEF ApplyBlock, QueuesOrdered, queues, tables, Numbers
  <2>5. CheckpointOrdered'
    BY <1>0, <1>3, <1>p, <2>1 DEF ApplyBlock, GateFree, CheckpointOrdered, Numbers
  <2>. QED
    BY <2>2, <2>3, <2>4, <2>5 DEF Ordered
<1>4. CASE CountWrite
  <2>1. ap'.n = ap.n /\ ap'.pc = "sending" /\ ap.pc = "applied"
    BY <1>4, <1>t DEF CountWrite, WorkerType
  <2>2. Bounded'
    BY <1>4, <1>p, <2>1 DEF CountWrite, Bounded, queues, tables, stream, memory
  <2>3. WorkerOrdered'
    BY <1>4, <1>p, <2>1 DEF CountWrite, WorkerOrdered, PreparedPrev, LastPrepared, LastTaken, stream,
                            memory
  <2>. QED
    BY <1>4, <1>c, <1>q, <2>2, <2>3 DEF CountWrite, Ordered, memory, queues, tables
<1>i. ASSUME NEW w \in Queued, w.n = head, iq' = Append(iq, w), UNCHANGED <<built, disk, head, phase>>
      PROVE  QueuesOrdered'
  <2>1. phase = "up"
    <3>1. iq' # <<>>
      BY <1>i, <1>f, AppendFacts DEF QueueFacts
    <3>. QED
      BY <1>i, <1>t, <3>1 DEF L1, DownInv, FlagType
  <2>2. Ascends(LastBuilt, iq) /\ LastQueued <= w.n
    BY <1>i, <1>p, <2>1 DEF QueuesOrdered
  <2>3. Ascends(LastBuilt, iq') /\ LastOf(LastBuilt, iq') = head
    BY <1>i, <1>f, <2>2, AscendAppend DEF QueueFacts, LastQueued
  <2>4. LastBuilt' = LastBuilt
    BY <1>i DEF LastBuilt
  <2>. QED
    BY <1>0, <1>i, <1>p, <2>3, <2>4 DEF QueuesOrdered, LastQueued, Numbers
<1>5. CASE SendWrite
  <2>1. [n |-> ap.n, ws |-> chain[ap.n]] \in Queued /\ ap.n = head /\ ap.n \in Nat /\ head <= tip
    BY <1>0, <1>5, <1>p, <1>t DEF SendWrite, L1, DownInv, StreamType, Queued, WorkerOrdered, Bounded,
                                  Numbers
  <2>2. ap'.n = ap.n /\ ap'.pc = "idle" /\ ap.pc = "sending"
    BY <1>5, <1>t DEF SendWrite, WorkerType
  <2>3. QueuesOrdered'
    BY <1>5, <1>i, <2>1 DEF SendWrite, memory, tables
  <2>4. \A i \in 1..Len(iq') : iq'[i].n <= head
    BY <1>0, <1>5, <1>p, <2>1, QueueMoves DEF SendWrite, Bounded, Numbers
  <2>5. Bounded'
    BY <1>5, <1>p, <2>2, <2>4 DEF SendWrite, Bounded, tables, stream, memory
  <2>6. WorkerOrdered'
    BY <1>5, <1>p, <2>2 DEF SendWrite, WorkerOrdered, PreparedPrev, LastPrepared, LastTaken, stream,
                            memory
  <2>. QED
    BY <1>5, <1>c, <2>3, <2>5, <2>6 DEF SendWrite, Ordered, memory
<1>6. ASSUME NEW S \in SUBSET bq, SaveBlocks(S) PROVE Ordered'
  <2>1. saved' \subseteq 1..tip'
    BY <1>6, <1>p DEF SaveBlocks, Bounded, L1, stream
  <2>2. Bounded'
    BY <1>6, <1>p, <2>1 DEF SaveBlocks, Bounded, stream, memory, queues, tables
  <2>. QED
    BY <1>6, <1>c, <1>q, <1>w, <2>2 DEF SaveBlocks, Ordered, stream, memory, queues, tables
<1>7. CASE Build
  <2>. DEFINE b == [n |-> Head(iq).n, batch |-> BuildBatch(Head(iq).ws, disk.rows)]
  <2>1. /\ Len(iq) > 0 /\ Head(iq) = iq[1] /\ Len(iq') = Len(iq) - 1
        /\ \A i \in 1..Len(iq) - 1 : iq'[i] = iq[i + 1]
    BY <1>7, QueueMoves DEF Build
  <2>2. b \in Built /\ b.n = iq[1].n
    <3>1. iq[1] \in Queued /\ disk.rows \in Rows
      BY <1>0, <1>t, <2>1 DEF Numbers, DiskType, Image
    <3>2. BuildBatch(iq[1].ws, disk.rows) \in Batch /\ iq[1].n \in Block
      BY <3>1, BatchTypes DEF Queued
    <3>. QED
      BY <2>1, <3>2 DEF Built
  <2>. HIDE DEF b
  <2>3. /\ Len(built') = Len(built) + 1 /\ built'[Len(built) + 1] = b
        /\ \A i \in 1..Len(built) : built'[i] = built[i]
    BY <1>7, <2>2, QueueMoves DEF Build, b
  <2>4. Ascends(LastBuilt, iq) /\ Ascends(disk.n, built) /\ iq # <<>>
    BY <1>7, <1>p DEF QueuesOrdered, Build
  <2>5. LastBuilt <= iq[1].n /\ Ascends(iq[1].n, iq')
    <3>1. iq[1].n \in Nat /\ iq[1].n <= iq[1].n
      BY <1>0, <2>1 DEF Numbers
    <3>. QED
      BY <1>7, <1>f, <2>4, <3>1, AscendTail DEF Build, QueueFacts
  <2>6. Ascends(disk.n, built') /\ LastBuilt' = iq[1].n
    BY <1>7, <1>f, <2>2, <2>4, <2>5, AscendAppend DEF Build, b, LastBuilt, QueueFacts, tables
  <2>7. LastQueued' = LastQueued
    <3>1. LastOf(iq[1].n, Tail(iq)) = LastOf(LastBuilt, iq)
      BY <1>f, <2>4, PrevTail DEF QueueFacts
    <3>. QED
      BY <1>7, <2>6, <3>1 DEF LastQueued, Build
  <2>8. QueuesOrdered'
    BY <1>7, <1>p, <2>5, <2>6, <2>7 DEF Build, QueuesOrdered, memory, tables
  <2>9. Bounded'
    <3>1. ASSUME NEW i \in 1..Len(built') PROVE built'[i].n <= head
      <4>1. CASE i = Len(built) + 1
        <5>1. iq[1].n <= head
          BY <1>0, <1>p, <2>1 DEF Bounded, Numbers
        <5>. QED
          BY <2>2, <2>3, <4>1, <5>1
      <4>2. CASE i \in 1..Len(built)
        BY <1>p, <2>3, <4>2 DEF Bounded
      <4>3. Len(built) \in Nat
        BY <1>0 DEF Numbers
      <4>4. i = Len(built) + 1 \/ i \in 1..Len(built)
        BY <2>3, <4>3
      <4>. QED
        BY <4>1, <4>2, <4>4
    <3>2. ASSUME NEW i \in 1..Len(iq') PROVE iq'[i].n <= head
      <4>1. i + 1 \in 1..Len(iq) /\ i \in 1..Len(iq) - 1
        BY <1>0, <2>1 DEF Numbers
      <4>. QED
        BY <1>p, <2>1, <4>1 DEF Bounded
    <3>. QED
      BY <1>7, <1>p, <3>1, <3>2 DEF Build, Bounded, stream, memory, tables
  <2>. QED
    BY <1>7, <1>c, <1>w, <2>8, <2>9 DEF Build, Ordered, stream, memory
<1>8. CASE BuildFails
  <2>1. /\ Len(iq) > 0 /\ Len(iq') = Len(iq) - 1
        /\ \A i \in 1..Len(iq) - 1 : iq'[i] = iq[i + 1]
    BY <1>8, QueueMoves DEF BuildFails
  <2>2. LastBuilt' = LastBuilt /\ Ascends(LastBuilt, iq) /\ iq # <<>>
    BY <1>8, <1>p DEF BuildFails, QueuesOrdered, LastBuilt, tables
  <2>3. LastBuilt <= iq[1].n
    BY <1>0, <2>1, <2>2 DEF Ascends, Prev, Numbers
  <2>4. /\ Ascends(LastBuilt, iq') /\ LastOf(LastBuilt, iq') <= LastQueued
        /\ LastOf(LastBuilt, iq') \in Nat
    BY <1>8, <1>f, <2>2, <2>3, AscendTail DEF BuildFails, QueueFacts, LastQueued
  <2>5. LastQueued' = LastOf(LastBuilt, iq')
    BY <2>2 DEF LastQueued
  <2>6. QueuesOrdered'
    BY <1>0, <1>f, <1>8, <1>p, <2>2, <2>4, <2>5 DEF BuildFails, QueuesOrdered, memory, tables, Numbers,
                                                   QueueFacts
  <2>7. Bounded'
    BY <1>0, <1>8, <1>p, <2>1 DEF BuildFails, Bounded, Numbers, stream, memory, tables
  <2>. QED
    BY <1>8, <1>c, <1>w, <2>6, <2>7 DEF BuildFails, Ordered, stream, memory
<1>9. ASSUME built # <<>>, built' = Tail(built), disk'.n \in {disk.n, Head(built).n},
             UNCHANGED <<phase, stream, ap, prepared, memory, saved, iq, ck>>
      PROVE  Ordered'
  <2>1. /\ Len(built) > 0 /\ Head(built) = built[1] /\ Len(built') = Len(built) - 1
        /\ \A i \in 1..Len(built) - 1 : built'[i] = built[i + 1]
    BY <1>9, QueueMoves
  <2>2. Ascends(disk.n, built) /\ Ascends(LastBuilt, iq)
    BY <1>p DEF QueuesOrdered
  <2>3. disk.n <= built[1].n
    BY <1>0, <2>1, <2>2 DEF Ascends, Prev, Numbers
  <2>4. disk'.n <= built[1].n
    BY <1>0, <1>9, <2>1, <2>3 DEF Numbers
  <2>5. /\ Ascends(disk'.n, built') /\ LastBuilt' <= LastBuilt /\ LastBuilt' \in Nat
    BY <1>0, <1>9, <1>f, <2>2, <2>4, AscendTail DEF LastBuilt, Numbers, QueueFacts
  <2>6. /\ Ascends(LastBuilt', iq) /\ LastOf(LastBuilt', iq) <= LastQueued
        /\ LastOf(LastBuilt', iq) \in Nat
    BY <1>f, <2>2, <2>5, AscendLower DEF LastQueued, QueueFacts
  <2>7. LastQueued' = LastOf(LastBuilt', iq)
    BY <1>9 DEF LastQueued
  <2>8. QueuesOrdered'
    BY <1>0, <1>9, <1>f, <1>p, <2>5, <2>6, <2>7 DEF QueuesOrdered, memory, Numbers, QueueFacts
  <2>9. Bounded'
    BY <1>0, <1>9, <1>p, <2>1 DEF Bounded, Numbers, stream, memory
  <2>. QED
    BY <1>9, <1>c, <1>w, <2>8, <2>9 DEF Ordered, stream, memory
<1>10. CASE Write \/ WriteFails
  BY <1>9, <1>10 DEF Write, WriteFails, tables
<1>11. ASSUME UNCHANGED <<tip, last, head, ap, prepared, saved, iq, built, disk, phase>>,
              CheckpointOrdered'
       PROVE  Ordered'
  BY <1>11, <1>b, <1>q, <1>w DEF Ordered
<1>12. CASE Shutdown
  BY <1>11, <1>12, <1>c DEF Shutdown, stream, memory, queues, tables
<1>13. CASE CkBegin
  <2>1. \/ ck' = [pc |-> "done", n |-> 0, rows |-> NoRows]
        \/ ck' = [pc |-> "wait", n |-> head, rows |-> NoRows] /\ head # 0
    BY <1>13 DEF CkBegin, NoCheckpoint
  <2>2. CheckpointOrdered'
    BY <1>0, <1>13, <2>1 DEF CkBegin, CheckpointOrdered, memory, Numbers
  <2>. QED
    BY <1>11, <1>13, <2>2 DEF CkBegin, stream, memory, queues, tables
<1>14. CASE CkIdle \/ CkBusy \/ CkForce \/ CkRewait \/ CkClone
  <2>1. ck'.n = ck.n /\ ck.pc \notin {"idle", "done"} /\ ck'.pc # "idle"
    BY <1>14, <1>t DEF CkIdle, CkBusy, CkForce, CkRewait, CkClone, CkType
  <2>2. CheckpointOrdered'
    BY <1>0, <1>14, <1>p, <2>1 DEF CkIdle, CkBusy, CkForce, CkRewait, CkClone, CheckpointOrdered,
                                   memory, Numbers
  <2>. QED
    BY <1>11, <1>14, <2>2 DEF CkIdle, CkBusy, CkForce, CkRewait, CkClone, stream, memory, queues, tables
<1>15. CASE CkSend
  <2>1. ck'.n = ck.n /\ ck.pc = "sending" /\ ck'.pc = "rewait" /\ ck.n = head /\ head <= tip
    BY <1>15, <1>p, <1>t DEF CkSend, CkType, CheckpointOrdered, Bounded
  <2>2. [n |-> ck.n, ws |-> FullWriteSet(ck.rows)] \in Queued
    BY <1>t, <2>1, FullFacts DEF CkType, L1, DownInv, Queued
  <2>3. QueuesOrdered'
    BY <1>15, <1>i, <2>1, <2>2 DEF CkSend, memory, tables
  <2>4. \A i \in 1..Len(iq') : iq'[i].n <= head
    BY <1>0, <1>15, <1>p, <2>1, <2>2, QueueMoves DEF CkSend, Bounded, Numbers
  <2>5. Bounded'
    BY <1>15, <1>p, <2>4 DEF CkSend, Bounded, tables, stream, memory
  <2>6. CheckpointOrdered'
    BY <1>15, <1>p, <2>1 DEF CkSend, CheckpointOrdered, memory
  <2>. QED
    BY <1>15, <1>w, <2>3, <2>5, <2>6 DEF CkSend, Ordered, stream, memory
<1>16. CASE GoDown
  <2>1. Bounded'
    BY <1>0, <1>16, <1>p DEF GoDown, Bounded, Numbers, stream, tables
  <2>. QED
    BY <1>0, <1>16, <2>1, PrevEmpty DEF GoDown, Ordered, QueuesOrdered, WorkerOrdered,
                             CheckpointOrdered, NoCheckpoint, Numbers
<1>17. CASE Recover
  <2>1. iq' = <<>> /\ built' = <<>> /\ prepared' = <<>> /\ ap'.pc = "idle" /\ ck'.pc = "idle"
    BY <1>17 DEF Recover, L1, DownInv, queues
  <2>2. head' \in ToReplay \union {disk.n} /\ disk.n <= head'
    BY <1>17, LargestFacts DEF Recover
  <2>3. head' <= tip
    BY <1>0, <1>p, <2>2 DEF ToReplay, Bounded, Numbers
  <2>4. Bounded'
    BY <1>0, <1>17, <1>p, <2>1, <2>3 DEF Recover, Bounded, Numbers, tables
  <2>5. QueuesOrdered'
    BY <1>17, <2>1, <2>2, PrevEmpty DEF Recover, QueuesOrdered, LastQueued, LastBuilt, tables
  <2>6. WorkerOrdered' /\ CheckpointOrdered'
    BY <1>0, <1>17, <1>p, <2>1 DEF Recover, WorkerOrdered, CheckpointOrdered, LastPrepared, LastTaken,
                                   PreparedPrev, Numbers
  <2>. QED
    BY <2>4, <2>5, <2>6 DEF Ordered
<1>18. CASE UNCHANGED vars
  BY <1>11, <1>18, <1>c DEF vars, stream, memory, queues, tables
<1>. QED
  BY <1>1, <1>2, <1>3, <1>4, <1>5, <1>6, <1>7, <1>8, <1>10, <1>12, <1>13, <1>14, <1>15, <1>16,
     <1>17, <1>18 DEF Next, Exit, Crash

(* The block number of the tables only grows, over write failures, crashes  *)
(* and the full writes of a shutdown, in every behaviour.                   *)
THEOREM DiskHeadNeverBack == Spec => DiskHeadMonotonic
<1>1. L1 /\ Ordered /\ [Next]_vars => [disk'.n >= disk.n]_vars
  <2>. SUFFICES ASSUME L1, Ordered, [Next]_vars PROVE disk'.n >= disk.n
    OBVIOUS
  <2>0. Numbers
    BY NumbersType
  <2>1. CASE Write
    <3>1. Len(built) > 0 /\ disk'.n = built[1].n
      BY <2>1, QueueMoves DEF Write
    <3>2. disk.n <= built[1].n
      BY <2>0, <3>1 DEF Ordered, QueuesOrdered, Ascends, Prev, Numbers
    <3>. QED
      BY <2>0, <3>1, <3>2 DEF Numbers
  <2>2. CASE UNCHANGED disk
    BY <2>0, <2>2 DEF Numbers
  <2>. QED
    BY <2>1, <2>2 DEF Next, vars, tables, Decode, Take, ApplyBlock, CountWrite, SendWrite, SaveBlocks,
       Build, BuildFails, WriteFails, Shutdown, CkBegin, CkIdle, CkBusy, CkForce, CkSend, CkRewait,
       CkClone, Exit, Crash, GoDown, Recover
<1>. QED
  BY InitL1, NextL1, InitOrdered, NextOrdered, <1>1, PTL DEF Spec, DiskHeadMonotonic

-----------------------------------------------------------------------------
(* What a shutdown has saved. *)

(* Faults are never forgotten. *)
LEMMA FaultsGrow == L1 /\ [Next]_vars => faults \subseteq faults'
BY DEF Next, vars, tables, Decode, Take, ApplyBlock, CountWrite, SendWrite, SaveBlocks,
       Build, BuildFails, Write, WriteFails, Shutdown, CkBegin, CkIdle, CkBusy, CkForce, CkSend,
       CkRewait, CkClone, Exit, Crash, GoDown, Recover

(* At the start nothing is claimed. *)
LEMMA InitCalm == Init => CalmInv
BY DEF Init, CalmInv, NoCheckpoint

(***************************************************************************)
(* The wait that ended with pending = 0 saw the queues empty, so the last  *)
(* queued number is on disk; and what the apply worker still had to queue  *)
(* is the same head again.                                                 *)
(***************************************************************************)
LEMMA NextCalm == L1 /\ L1' /\ Ordered /\ Ordered' /\ CalmInv /\ [Next]_vars => CalmInv'
<1>. SUFFICES ASSUME L1, L1', Ordered, Ordered', CalmInv, [Next]_vars, Calm' PROVE CalmInv'
  BY DEF CalmInv
<1>0. Numbers /\ Numbers' /\ QueueFacts
  BY NumbersType, QueueFactsHold
<1>t. /\ StreamType /\ WorkerType /\ QueueType /\ LaneType
      /\ DiskType /\ CkType /\ FlagType
  BY TypeParts DEF L1, CountersSound
<1>c. Calm /\ "io" \notin faults' /\ "timeout" \notin faults'
  BY FaultsGrow DEF Calm
<1>p. /\ ck.pc = "rewait" => LastQueued = ck.n
      /\ ck.pc = "clone" => disk.n = ck.n
      /\ (ck.pc = "done" /\ ck.n > 0) => disk.n >= ck.n /\ ckpt[ck.n].n = ck.n
  BY <1>c DEF CalmInv
<1>o. Bounded /\ QueuesOrdered /\ WorkerOrdered /\ CheckpointOrdered
  BY DEF Ordered
<1>g. ck.pc \notin {"idle", "done"} => ck.n = head
  BY <1>o DEF CheckpointOrdered
<1>1. ASSUME UNCHANGED <<iq, built, disk, ckpt, ck>> PROVE CalmInv'
  BY <1>1, <1>p DEF CalmInv, LastQueued, LastBuilt
<1>2. CASE \E e \in BlockEffects(tip + 1) : Decode(e)
  BY <1>1, <1>2 DEF Decode, queues, tables
<1>3. CASE Take \/ ApplyBlock \/ CountWrite \/ Shutdown \/ \E S \in SUBSET bq : SaveBlocks(S)
  BY <1>1, <1>3 DEF Take, ApplyBlock, CountWrite, Shutdown, SaveBlocks, queues, tables
<1>4. CASE SendWrite
  <2>1. [n |-> ap.n, ws |-> chain[ap.n]] \in Queued /\ ap.n = head
    BY <1>4, <1>o, <1>t DEF SendWrite, L1, DownInv, StreamType, Queued, WorkerOrdered
  <2>2. LastQueued' = head
    <3>1. LastOf(LastBuilt, iq') = ap.n
      BY <1>0, <1>4, <2>1, PrevAppend DEF SendWrite, QueueFacts
    <3>2. LastBuilt' = LastBuilt
      BY <1>4 DEF SendWrite, LastBuilt, tables
    <3>. QED
      BY <2>1, <3>1, <3>2 DEF LastQueued
  <2>3. ck'.pc = "rewait" => LastQueued' = ck'.n
    BY <1>4, <1>g, <2>2 DEF SendWrite
  <2>. QED
    BY <1>4, <1>p, <2>3 DEF SendWrite, CalmInv, tables
<1>5. CASE Build
  <2>1. [n |-> Head(iq).n, batch |-> BuildBatch(Head(iq).ws, disk.rows)] \in Built /\ iq # <<>>
    <3>1. iq # <<>> /\ Head(iq) \in Queued /\ disk.rows \in Rows
      BY <1>0, <1>5, <1>t, TailFacts DEF Build, QueueFacts, DiskType, Image
    <3>. QED
      BY <3>1, BatchTypes DEF Queued, Built
  <2>2. LastBuilt' = Head(iq).n
    BY <1>0, <1>5, <2>1, PrevAppend DEF Build, LastBuilt, QueueFacts, tables
  <2>3. LastQueued' = LastQueued
    <3>1. Head(iq) = iq[1]
      BY <1>0, <2>1, TailFacts DEF QueueFacts
    <3>2. LastOf(iq[1].n, Tail(iq)) = LastOf(LastBuilt, iq)
      BY <1>0, <2>1, PrevTail DEF QueueFacts
    <3>. QED
      BY <1>5, <2>2, <3>1, <3>2 DEF Build, LastQueued
  <2>. QED
    BY <1>5, <1>p, <2>3 DEF Build, CalmInv, tables
<1>6. CASE Write
  <2>1. Len(built) > 0 /\ built # <<>> /\ disk'.n = built[1].n /\ built[1].n \in Block /\ built' = Tail(built)
    <3>1. Len(built) > 0 /\ built # <<>> /\ disk'.n = built[1].n /\ built' = Tail(built)
      BY <1>6, QueueMoves DEF Write
    <3>. QED
      BY <1>0, <3>1 DEF Numbers, Built
  <2>2. disk.n <= built[1].n /\ built[1].n <= head
    BY <1>0, <1>o, <2>1 DEF QueuesOrdered, Ascends, Prev, Bounded, Numbers
  <2>3. LastQueued' = LastQueued
    <3>1. LastOf(disk'.n, built') = LastOf(disk.n, built)
      BY <1>0, <2>1, PrevTail DEF QueueFacts
    <3>. QED
      BY <1>6, <3>1 DEF Write, LastQueued, LastBuilt
  <2>4. ASSUME NEW n \in Block, ckpt[n].n = n PROVE ckpt'[n].n = n
    <3>1. \/ ckpt' = ckpt
          \/ ckpt' = [ckpt EXCEPT ![Head(built).n] =
                        [n |-> Head(built).n, rows |-> WriteBatch(disk.rows, Head(built).batch)]]
      BY <1>6, <1>c DEF Write, EpochImage
    <3>. QED
      BY <1>t, <2>4, <3>1 DEF DiskType
  <2>5. ck'.pc = "clone" => disk'.n = ck'.n
    BY <1>0, <1>6, <1>g, <1>p, <2>1, <2>2 DEF Write, Numbers
  <2>6. (ck'.pc = "done" /\ ck'.n > 0) => disk'.n >= ck'.n /\ ckpt'[ck'.n].n = ck'.n
    <3>. SUFFICES ASSUME ck.pc = "done", ck.n > 0 PROVE disk'.n >= ck.n /\ ckpt'[ck.n].n = ck.n
      BY <1>6 DEF Write
    <3>1. ck.n \in Block
      BY <1>t, BoundsAssumption DEF CkType, Block, Height
    <3>2. ckpt'[ck.n].n = ck.n
      BY <1>p, <2>4, <3>1
    <3>3. disk.n \in Nat /\ disk'.n \in Nat /\ ck.n \in Nat
      BY <1>0 DEF Numbers
    <3>. QED
      BY <1>p, <2>1, <2>2, <3>2, <3>3
  <2>. QED
    BY <1>6, <1>p, <2>3, <2>5, <2>6 DEF Write, CalmInv
<1>7. CASE BuildFails \/ WriteFails \/ CkBusy
  BY <1>7, <1>c DEF BuildFails, WriteFails, CkBusy
<1>8. CASE CkBegin
  <2>1. \/ ck' = [pc |-> "done", n |-> 0, rows |-> NoRows]
        \/ ck' = [pc |-> "wait", n |-> head, rows |-> NoRows] /\ head # 0
    BY <1>8 DEF CkBegin, NoCheckpoint
  <2>. QED
    BY <2>1 DEF CalmInv
<1>9. CASE CkIdle
  <2>1. ck'.n = ck.n /\ ck'.pc \in {"force", "clone"} /\ (ck'.pc = "clone" => disk.n = ck.n)
    BY <1>9, <1>t DEF CkIdle, CkType
  <2>. QED
    BY <1>9, <2>1 DEF CkIdle, CalmInv, tables
<1>10. CASE CkForce
  BY <1>10, <1>t DEF CkForce, CalmInv, CkType
<1>11. CASE CkSend
  <2>1. ck'.n = ck.n /\ ck.pc = "sending" /\ ck'.pc = "rewait"
    BY <1>11, <1>t DEF CkSend, CkType
  <2>2. [n |-> ck.n, ws |-> FullWriteSet(ck.rows)] \in Queued
    BY <1>t, <2>1, FullFacts DEF CkType, L1, DownInv, Queued
  <2>3. LastOf(LastBuilt, iq') = ck.n
    BY <1>0, <1>11, <2>2, PrevAppend DEF CkSend, QueueFacts
  <2>4. LastBuilt' = LastBuilt
    BY <1>11 DEF CkSend, LastBuilt, tables
  <2>. QED
    BY <2>1, <2>3, <2>4 DEF CalmInv, LastQueued
<1>12. CASE CkRewait
  <2>1. ck'.n = ck.n /\ ck.pc = "rewait" /\ ck'.pc = "clone" /\ disk' = disk
    BY <1>12, <1>t DEF CkRewait, CkType, tables
  <2>2. pending = 0
    BY <1>12, <1>c, <1>t DEF CkRewait, QueueType
  <2>3. Len(iq) = 0 /\ Len(built) = 0
    <3>1. Cardinality(bq) \in Nat
      BY <1>t, LaneFacts DEF LaneType
    <3>2. Len(iq) \in Nat /\ Len(built) \in Nat
      BY <1>0 DEF Numbers
    <3>. QED
      BY <2>2, <3>1, <3>2 DEF L1, CountersSound, PendingCountsWork
  <2>4. LastQueued = disk.n
    BY <1>0, <2>3, PrevEmpty DEF LastQueued, LastBuilt, Numbers
  <2>. QED
    BY <1>p, <2>1, <2>4 DEF CalmInv
<1>13. CASE CkClone
  <2>1. ck'.n = ck.n /\ ck.pc = "clone" /\ ck'.pc = "done" /\ disk' = disk /\ ck.n \in Block
    BY <1>13, <1>t DEF CkClone, CkType, L1, DownInv
  <2>2. ckpt' = [ckpt EXCEPT ![ck.n] = disk]
    BY <1>13, <1>c DEF CkClone
  <2>3. ckpt'[ck.n].n = ck.n /\ disk.n >= ck.n
    BY <1>0, <1>p, <1>t, <2>1, <2>2 DEF DiskType, Numbers
  <2>. QED
    BY <2>1, <2>3 DEF CalmInv
<1>14. CASE GoDown
  BY <1>14 DEF GoDown, CalmInv, NoCheckpoint
<1>15. CASE Recover
  BY <1>1, <1>15 DEF Recover, queues, tables
<1>16. CASE UNCHANGED vars
  BY <1>1, <1>16 DEF vars, queues, tables
<1>. QED
  BY <1>2, <1>3, <1>4, <1>5, <1>6, <1>7, <1>8, <1>9, <1>10, <1>11, <1>12, <1>13, <1>14,
     <1>15, <1>16 DEF Next, Exit, Crash

(* Once checkpoint_once has returned from a graceful shutdown with no failed *)
(* write and no wait that timed out, the head it read is in the tables and   *)
(* in its checkpoint, in every behaviour.                                    *)
THEOREM ShutdownCorrect == Spec => []ShutdownSavesHead
<1>1. CalmInv => ShutdownSavesHead
  BY DEF CalmInv, Calm, ShutdownSavesHead
<1>. QED
  BY InitL1, NextL1, InitOrdered, NextOrdered, InitCalm, NextCalm, <1>1, PTL DEF Spec

-----------------------------------------------------------------------------
(* What tables, queues and memory hold. *)

(* Every number the queues mention is a height the chain has reached. *)
InRange ==
  /\ disk.n \in 0..tip /\ head \in 0..tip /\ last \in 0..tip /\ ap.n \in 0..tip
  /\ LastBuilt \in 0..tip /\ LastQueued \in 0..tip
  /\ \A i \in 1..Len(built) : built[i].n \in 0..tip /\ Prev(disk.n, built, i) \in 0..tip
  /\ \A i \in 1..Len(iq) : iq[i].n \in 0..tip /\ Prev(LastBuilt, iq, i) \in 0..tip
  /\ \A i \in 1..Len(prepared) : prepared[i] \in 0..tip /\ PreparedPrev(i) \in 0..tip
  /\ 0..tip \subseteq Height

(* By the order of the numbers. *)
LEMMA InRangeHolds == L1 /\ Ordered => InRange
<1>. SUFFICES ASSUME L1, Ordered PROVE InRange
  OBVIOUS
<1>0. Numbers /\ QueueFacts /\ Bounded
  BY NumbersType, QueueFactsHold DEF Ordered
<1>1. disk.n \in 0..tip /\ head \in 0..tip /\ last \in 0..tip /\ ap.n \in 0..tip /\ LastTaken \in 0..tip
  BY <1>0 DEF Numbers, Bounded, LastTaken
<1>2. tip \in Height /\ 0..tip \subseteq Height
  <2>1. tip \in Height /\ MaxBlock \in Nat
    BY TypeParts, BoundsAssumption DEF L1, CountersSound, StreamType
  <2>. QED
    BY <2>1 DEF Height
<1>3. ASSUME NEW i \in 1..Len(built) PROVE built[i].n \in 0..tip
  BY <1>0 DEF Numbers, Bounded
<1>4. ASSUME NEW i \in 1..Len(built) + 1 PROVE Prev(disk.n, built, i) \in 0..tip
  <2>1. i # 1 => i - 1 \in 1..Len(built)
    BY <1>0 DEF Numbers
  <2>. QED
    BY <1>1, <1>3, <2>1 DEF Prev
<1>5. LastBuilt \in 0..tip
  <2>1. Len(built) + 1 \in 1..Len(built) + 1
    BY <1>0 DEF Numbers
  <2>. QED
    BY <1>4, <2>1 DEF LastBuilt, LastOf
<1>6. ASSUME NEW i \in 1..Len(iq) PROVE iq[i].n \in 0..tip
  BY <1>0 DEF Numbers, Bounded
<1>7. ASSUME NEW i \in 1..Len(iq) + 1 PROVE Prev(LastBuilt, iq, i) \in 0..tip
  <2>1. i # 1 => i - 1 \in 1..Len(iq)
    BY <1>0 DEF Numbers
  <2>. QED
    BY <1>5, <1>6, <2>1 DEF Prev
<1>8. LastQueued \in 0..tip
  <2>1. Len(iq) + 1 \in 1..Len(iq) + 1
    BY <1>0 DEF Numbers
  <2>. QED
    BY <1>7, <2>1 DEF LastQueued, LastOf
<1>9. ASSUME NEW i \in 1..Len(prepared) PROVE prepared[i] \in 0..tip
  BY <1>0 DEF Numbers, Bounded
<1>10. ASSUME NEW i \in 1..Len(prepared) PROVE PreparedPrev(i) \in 0..tip
  <2>1. i # 1 => i - 1 \in 1..Len(prepared)
    BY <1>0 DEF Numbers
  <2>. QED
    BY <1>1, <1>9, <2>1 DEF PreparedPrev
<1>11. \A i \in 1..Len(built) : i \in 1..Len(built) + 1
  BY <1>0 DEF Numbers
<1>12. \A i \in 1..Len(iq) : i \in 1..Len(iq) + 1
  BY <1>0 DEF Numbers
<1>. QED
  BY <1>1, <1>2, <1>3, <1>4, <1>5, <1>6, <1>7, <1>8, <1>9, <1>10, <1>11, <1>12 DEF InRange

(* What comes after the first batch has at least its number. *)
LEMMA FrontBelow ==
  ASSUME L1, Ordered, Write
  PROVE  /\ \A i \in 1..Len(built) : built[i].n >= disk'.n
         /\ \A i \in 1..Len(iq) + 1 : Prev(LastBuilt, iq, i) >= disk'.n
         /\ LastQueued >= disk'.n
<1>0. Numbers /\ QueueFacts /\ QueuesOrdered
  BY NumbersType, QueueFactsHold DEF Ordered
<1>1. built # <<>> /\ Len(built) \in Nat \ {0} /\ disk'.n = built[1].n /\ built[1].n \in Nat
  <2>1. built # <<>> /\ Len(built) > 0 /\ disk'.n = built[1].n
    BY QueueMoves DEF Write
  <2>. QED
    BY <1>0, <2>1 DEF Numbers
<1>2. Ascends(built[1].n, Tail(built)) /\ LastOf(built[1].n, Tail(built)) = LastBuilt
  <2>1. built[1].n <= built[1].n
    BY <1>1
  <2>. QED
    BY <1>0, <1>1, <2>1, AscendTail, PrevTail DEF QueueFacts, QueuesOrdered, LastBuilt, Numbers
<1>3. built[1].n <= LastBuilt
  <2>1. Tail(built) \in Seq(Built) /\ Len(Tail(built)) \in Nat
    BY <1>0, <1>1, TailFacts DEF QueueFacts
  <2>2. Len(Tail(built)) + 1 \in 1..Len(Tail(built)) + 1
    BY <2>1
  <2>3. built[1].n <= LastOf(built[1].n, Tail(built))
    BY <1>0, <1>1, <1>2, <2>1, <2>2, AscendFrom DEF QueueFacts, LastOf
  <2>. QED
    BY <1>2, <2>3
<1>4. \A i \in 1..Len(iq) + 1 : LastBuilt <= Prev(LastBuilt, iq, i)
  BY <1>0, AscendFrom DEF QueueFacts, QueuesOrdered
<1>5. \A i \in 1..Len(iq) + 1 : Prev(LastBuilt, iq, i) \in Nat
  <2>1. \A i \in 1..Len(iq) + 1 : i # 1 => i - 1 \in 1..Len(iq)
    BY <1>0 DEF Numbers
  <2>. QED
    BY <1>0, <2>1 DEF Prev, QueueFacts, Numbers
<1>6. Len(iq) + 1 \in 1..Len(iq) + 1 /\ LastBuilt \in Nat
  BY <1>0 DEF Numbers, QueueFacts
<1>7. \A i \in 1..Len(iq) + 1 : Prev(LastBuilt, iq, i) >= disk'.n
  BY <1>1, <1>3, <1>4, <1>5, <1>6
<1>8. ASSUME NEW i \in 1..Len(built) PROVE built[i].n >= disk'.n
  <2>1. /\ Tail(built) \in Seq(Built) /\ Len(Tail(built)) + 1 = Len(built)
    BY <1>0, <1>1, TailFacts DEF QueueFacts
  <2>2. built[1].n <= Prev(built[1].n, Tail(built), i)
    BY <1>0, <1>1, <1>2, <2>1, AscendFrom DEF QueueFacts
  <2>3. Prev(built[1].n, Tail(built), i) = Prev(disk.n, built, i + 1)
    BY <1>0, <1>1, PrevFront DEF QueueFacts
  <2>4. Prev(disk.n, built, i + 1) = built[i].n
    BY <1>0, <1>1, PrevTail DEF QueueFacts
  <2>5. built[i].n \in Nat
    BY <1>0 DEF Numbers
  <2>. QED
    BY <1>1, <2>2, <2>3, <2>4, <2>5
<1>. QED
  BY <1>6, <1>7, <1>8 DEF LastQueued, LastOf

(* A recovery that replays nothing leaves the tables' block as the head. *)
LEMMA QuietRecovery ==
  ASSUME L1, disk.rows = expect[disk.n], Recover, "replay" \notin faults'
  PROVE  mem' = disk.rows /\ head' = disk.n /\ last' = disk.n /\ expect' = expect
<1>1. ToReplay = {}
  BY DEF Recover
<1>2. disk.rows \in Rows /\ disk.n \in Height /\ expect \in [Height -> Rows]
  BY TypeParts DEF L1, CountersSound, DiskType, Image, StreamType
<1>3. Replayed(disk.rows, {}) = disk.rows
  <2>1. Replayed(disk.rows, {}) = [k \in Key |-> disk.rows[k]]
    BY DEF Replayed
  <2>. QED
    BY <1>2, <2>1 DEF Rows
<1>4. Largest(ToReplay \union {disk.n}) = disk.n
  BY <1>1, LargestFacts
<1>5. mem' = disk.rows /\ head' = disk.n /\ last' = disk.n
  BY <1>1, <1>3, <1>4 DEF Recover
<1>6. expect' = [expect EXCEPT ![disk.n] = expect[disk.n]]
  BY <1>5 DEF Recover
<1>. QED
  BY <1>2, <1>5, <1>6

(* At the start there is nothing but empty rows. *)
LEMMA InitClean == Init => CleanInv
<1>. SUFFICES ASSUME Init PROVE CleanInv
  OBVIOUS
<1>1. LastBuilt = 0 /\ LastQueued = 0 /\ 0 \in Height
  BY PrevEmpty, BoundsAssumption DEF Init, LastQueued, LastBuilt, Height
<1>2. CleanQueues
  BY <1>1 DEF Init, CleanQueues
<1>3. CleanWorker
  BY <1>1 DEF Init, CleanWorker
<1>4. CleanCheckpoint
  BY DEF Init, CleanCheckpoint, NoCheckpoint
<1>. QED
  BY <1>2, <1>3, <1>4 DEF CleanInv

(***************************************************************************)
(* Without a fault the queues are a chain of images: a step commits one    *)
(* link, adds one, or turns one from a write set into a batch.  The full   *)
(* write of a shutdown is exact because the tables cannot move between the *)
(* moment its keys are read and its commit, or already hold its block.     *)
(***************************************************************************)
LEMMA NextCleanQueues ==
  ASSUME L1, L1', Ordered, Ordered', CalmInv, Clean, Clean',
         CleanQueues, CleanWorker, CleanCheckpoint, [Next]_vars
  PROVE  CleanQueues'
<1>0. Numbers /\ Numbers' /\ QueueFacts /\ InRange
  BY NumbersType, QueueFactsHold, InRangeHolds
<1>t. /\ StreamType /\ WorkerType /\ QueueType /\ LaneType
      /\ DiskType /\ CkType /\ FlagType
  BY TypeParts DEF L1, CountersSound
<1>c. "io" \notin faults' /\ "timeout" \notin faults' /\ "replay" \notin faults'
  BY DEF Clean
<1>o. Bounded /\ QueuesOrdered /\ WorkerOrdered /\ CheckpointOrdered
  BY DEF Ordered
<1>d. disk.rows = expect[disk.n]
  BY DEF CleanQueues
<1>e. \A n \in 0..tip : expect[n] \in Rows
  BY <1>0, <1>t DEF StreamType, InRange
<1>1. ASSUME UNCHANGED <<iq, built, disk, ckpt, tip, expect>> PROVE CleanQueues'
  BY <1>1 DEF CleanQueues, QueuedExact, LastBuilt
<1>2. ASSUME NEW e \in BlockEffects(tip + 1), Decode(e) PROVE CleanQueues'
  <2>1. \A n \in 0..tip : expect'[n] = expect[n]
    BY <1>0, <1>2, <1>t DEF Decode, StreamType, InRange, Numbers
  <2>2. disk' = disk /\ built' = built /\ iq' = iq /\ ckpt' = ckpt /\ tip' = tip + 1 /\ LastBuilt' = LastBuilt
    BY <1>2 DEF Decode, queues, tables, LastBuilt
  <2>3. disk'.rows = expect'[disk'.n]
    BY <1>0, <1>d, <2>1, <2>2 DEF InRange
  <2>4. \A i \in 1..Len(built') :
          WriteBatch(expect'[Prev(disk'.n, built', i)], built'[i].batch) = expect'[built'[i].n]
    BY <1>0, <2>1, <2>2 DEF InRange, CleanQueues
  <2>5. ASSUME NEW i \in 1..Len(iq') PROVE QueuedExact(Prev(LastBuilt, iq, i), iq[i])'
    <3>1. QueuedExact(Prev(LastBuilt, iq, i), iq[i])
      BY <2>2 DEF CleanQueues
    <3>2. /\ expect'[Prev(LastBuilt, iq, i)] = expect[Prev(LastBuilt, iq, i)]
          /\ expect'[iq[i].n] = expect[iq[i].n]
      BY <1>0, <2>1, <2>2 DEF InRange
    <3>. QED
      BY <2>2, <3>1, <3>2 DEF QueuedExact
  <2>6. ASSUME NEW n \in Block PROVE (ckpt[n] = NoCkpt \/ (n <= tip /\ ckpt[n] = [n |-> n, rows |-> expect[n]]))'
    <3>1. ckpt[n] = NoCkpt \/ (n <= tip /\ ckpt[n] = [n |-> n, rows |-> expect[n]])
      BY DEF CleanQueues
    <3>2. n \in Nat /\ (n <= tip => n \in 0..tip) /\ tip \in Nat
      BY <1>0, BoundsAssumption DEF Block, Numbers
    <3>. QED
      BY <2>1, <2>2, <3>1, <3>2
  <2>. QED
    BY <2>3, <2>4, <2>5, <2>6 DEF CleanQueues
<1>3. CASE \/ Take \/ ApplyBlock \/ CountWrite \/ Shutdown \/ CkBegin \/ CkIdle \/ CkBusy \/ CkForce
           \/ CkRewait \/ \E S \in SUBSET bq : SaveBlocks(S)
  BY <1>1, <1>3 DEF Take, ApplyBlock, CountWrite, Shutdown, CkBegin, CkIdle, CkBusy, CkForce, CkRewait,
                    SaveBlocks, queues, tables, stream
<1>4. ASSUME NEW w \in Queued, iq' = Append(iq, w), QueuedExact(LastQueued, w),
             UNCHANGED <<built, disk, ckpt, tip, expect>>
      PROVE  CleanQueues'
  <2>1. /\ Len(iq') = Len(iq) + 1 /\ Len(iq) \in Nat /\ iq'[Len(iq) + 1] = w
        /\ \A i \in 1..Len(iq) : iq'[i] = iq[i]
        /\ \A i \in 1..Len(iq) + 1 : Prev(LastBuilt, iq', i) = Prev(LastBuilt, iq, i)
    <3>1. iq \in Seq(Queued) /\ Len(iq) \in Nat
      BY <1>0 DEF QueueFacts, Numbers
    <3>2. \A i \in 1..Len(iq) + 1 : Prev(LastBuilt, Append(iq, w), i) = Prev(LastBuilt, iq, i)
      BY <3>1, PrevAppend
    <3>. QED
      BY <1>4, <3>1, <3>2, AppendFacts
  <2>2. LastBuilt' = LastBuilt
    BY <1>4 DEF LastBuilt
  <2>3. ASSUME NEW i \in 1..Len(iq') PROVE QueuedExact(Prev(LastBuilt, iq', i), iq'[i])
    <3>1. CASE i = Len(iq) + 1
      BY <1>4, <2>1, <3>1 DEF LastQueued, LastOf
    <3>2. CASE i \in 1..Len(iq)
      BY <2>1, <3>2 DEF CleanQueues
    <3>3. i = Len(iq) + 1 \/ i \in 1..Len(iq)
      BY <2>1
    <3>. QED
      BY <3>1, <3>2, <3>3
  <2>4. \A i \in 1..Len(iq') : QueuedExact(Prev(LastBuilt, iq, i), iq[i])'
    BY <1>4, <2>2, <2>3 DEF QueuedExact
  <2>. QED
    BY <1>4, <2>4 DEF CleanQueues
<1>5. CASE SendWrite
  <2>1. [n |-> ap.n, ws |-> chain[ap.n]] \in Queued /\ ap.n = head /\ ap.pc = "sending" /\ ~ chain[ap.n].full
    BY <1>5, <1>o, <1>t DEF SendWrite, L1, DownInv, StreamType, Queued, WorkerOrdered
  <2>2. Step(LastQueued, head)
    BY <2>1 DEF CleanWorker
  <2>3. QueuedExact(LastQueued, [n |-> ap.n, ws |-> chain[ap.n]])
    BY <2>1, <2>2 DEF QueuedExact, Step
  <2>. QED
    BY <1>4, <1>5, <2>1, <2>3 DEF SendWrite, tables, stream
<1>6. CASE CkSend
  <2>1. ck.pc = "sending" /\ ck.n = head
    BY <1>6, <1>o DEF CkSend, CheckpointOrdered
  <2>2. [n |-> ck.n, ws |-> FullWriteSet(ck.rows)] \in Queued
    BY <1>t, <2>1, FullFacts DEF CkType, L1, DownInv, Queued
  <2>3. ck.rows = expect[ck.n] /\ LastQueued \in {disk.n, head}
    BY <2>1 DEF CleanCheckpoint
  <2>4. QueuedExact(LastQueued, [n |-> ck.n, ws |-> FullWriteSet(ck.rows)])
    BY <2>1, <2>3 DEF QueuedExact
  <2>. QED
    BY <1>4, <1>6, <2>2, <2>4 DEF CkSend, tables, stream
<1>7. CASE Build
  <2>. DEFINE w == iq[1]
              b == [n |-> w.n, batch |-> BuildBatch(w.ws, disk.rows)]
  <2>1. iq # <<>> /\ Len(iq) \in Nat \ {0} /\ Head(iq) = w /\ w \in Queued /\ 1 \in 1..Len(iq)
    BY <1>0, <1>7, TailFacts DEF Build, QueueFacts
  <2>2. QueuedExact(LastBuilt, w)
    BY <2>1 DEF CleanQueues, Prev
  <2>3. /\ w.ws \in WriteSet /\ w.n \in Block /\ disk.rows \in Rows
        /\ expect[LastBuilt] \in Rows /\ expect[w.n] \in Rows
    BY <1>0, <1>e, <1>t, <2>1 DEF InRange, Queued, DiskType, Image
  <2>4. WriteBatch(expect[LastBuilt], BuildBatch(w.ws, disk.rows)) = expect[w.n]
    <3>1. CASE ~ w.ws.full /\ ApplyWriteSet(expect[LastBuilt], w.ws) = expect[w.n]
      BY <2>3, <3>1, NotFullFacts
    <3>2. CASE w.ws = FullWriteSet(expect[w.n]) /\ (LastBuilt = w.n \/ LastBuilt = disk.n)
      BY <1>d, <2>3, <3>2, FullExact
    <3>. QED
      BY <2>2, <3>1, <3>2 DEF QueuedExact
  <2>5. b \in Built
    BY <2>3, BatchTypes DEF Built
  <2>6. built' = Append(built, b) /\ iq' = Tail(iq) /\ UNCHANGED <<disk, ckpt, tip, expect>>
    BY <1>7, <2>1 DEF Build, tables, stream
  <2>7. b.n = w.n /\ b.batch = BuildBatch(w.ws, disk.rows)
    OBVIOUS
  <2>. HIDE DEF b, w
  <2>8. /\ Len(built') = Len(built) + 1 /\ Len(built) \in Nat /\ built'[Len(built) + 1] = b
        /\ \A i \in 1..Len(built) : built'[i] = built[i]
        /\ \A i \in 1..Len(built) + 1 : Prev(disk.n, built', i) = Prev(disk.n, built, i)
        /\ LastOf(disk.n, built') = b.n
    <3>1. built \in Seq(Built) /\ Len(built) \in Nat
      BY <1>0 DEF QueueFacts, Numbers
    <3>. QED
      BY <2>5, <2>6, <3>1, PrevAppend
  <2>9. ASSUME NEW i \in 1..Len(built')
        PROVE  WriteBatch(expect[Prev(disk.n, built', i)], built'[i].batch) = expect[built'[i].n]
    <3>1. CASE i = Len(built) + 1
      BY <2>4, <2>7, <2>8, <3>1 DEF LastBuilt, LastOf
    <3>2. CASE i \in 1..Len(built)
      BY <2>8, <3>2 DEF CleanQueues
    <3>3. i = Len(built) + 1 \/ i \in 1..Len(built)
      BY <2>8
    <3>. QED
      BY <3>1, <3>2, <3>3
  <2>10. LastBuilt' = w.n
    BY <2>6, <2>7, <2>8 DEF LastBuilt
  <2>11. ASSUME NEW i \in 1..Len(iq') PROVE QueuedExact(Prev(w.n, iq', i), iq'[i])
    <3>1. /\ Len(iq') = Len(iq) - 1 /\ \A j \in 1..Len(iq) - 1 : iq'[j] = iq[j + 1]
          /\ \A j \in 1..Len(iq) : Prev(w.n, iq', j) = Prev(LastBuilt, iq, j + 1)
      <4>1. iq \in Seq(Queued) /\ iq # <<>> /\ w.n = iq[1].n
        BY <1>0, <2>1 DEF QueueFacts, w
      <4>2. Len(iq') = Len(iq) - 1 /\ \A j \in 1..Len(iq) - 1 : iq'[j] = iq[j + 1]
        BY <2>6, <4>1, TailFacts
      <4>3. \A j \in 1..Len(iq) : Prev(w.n, Tail(iq), j) = Prev(LastBuilt, iq, j + 1)
        BY <4>1, PrevFront
      <4>. QED
        BY <2>6, <4>2, <4>3
    <3>2. i \in 1..Len(iq) /\ i \in 1..Len(iq) - 1 /\ i + 1 \in 1..Len(iq)
      BY <2>1, <3>1
    <3>. QED
      BY <3>1, <3>2 DEF CleanQueues
  <2>12. \A i \in 1..Len(iq') : QueuedExact(Prev(LastBuilt, iq, i), iq[i])'
    BY <2>6, <2>10, <2>11 DEF QueuedExact
  <2>. QED
    BY <2>6, <2>9, <2>12 DEF CleanQueues
<1>8. CASE Write
  <2>1. /\ built # <<>> /\ Len(built) \in Nat \ {0} /\ Head(built) = built[1] /\ built[1] \in Built
        /\ 1 \in 1..Len(built)
    BY <1>0, <1>8, TailFacts DEF Write, QueueFacts
  <2>2. WriteBatch(disk.rows, built[1].batch) = expect[built[1].n]
    BY <1>d, <2>1 DEF CleanQueues, Prev
  <2>3. disk' = [n |-> built[1].n, rows |-> expect[built[1].n]]
    BY <1>8, <2>1, <2>2 DEF Write
  <2>4. UNCHANGED <<iq, tip, expect>> /\ built' = Tail(built)
    BY <1>8 DEF Write, stream
  <2>5. /\ Len(built') = Len(built) - 1 /\ \A j \in 1..Len(built) - 1 : built'[j] = built[j + 1]
        /\ \A j \in 1..Len(built) : Prev(disk'.n, built', j) = Prev(disk.n, built, j + 1)
        /\ LastBuilt' = LastBuilt
    <3>1. built \in Seq(Built) /\ built # <<>> /\ disk'.n = built[1].n
      BY <1>0, <2>1, <2>3 DEF QueueFacts
    <3>2. LastOf(disk'.n, built') = LastOf(disk.n, built)
      BY <2>4, <3>1, PrevTail
    <3>3. Len(built') = Len(built) - 1 /\ \A j \in 1..Len(built) - 1 : built'[j] = built[j + 1]
      BY <2>4, <3>1, TailFacts
    <3>4. \A j \in 1..Len(built) : Prev(disk'.n, Tail(built), j) = Prev(disk.n, built, j + 1)
      BY <3>1, PrevFront
    <3>. QED
      BY <2>4, <3>2, <3>3, <3>4 DEF LastBuilt
  <2>6. ASSUME NEW i \in 1..Len(built')
        PROVE  WriteBatch(expect[Prev(disk'.n, built', i)], built'[i].batch) = expect[built'[i].n]
    <3>1. i \in 1..Len(built) /\ i \in 1..Len(built) - 1 /\ i + 1 \in 1..Len(built)
      BY <2>1, <2>5
    <3>. QED
      BY <2>5, <3>1 DEF CleanQueues
  <2>7. ASSUME NEW i \in 1..Len(iq) PROVE Prev(LastBuilt, iq, i) = disk.n => disk'.n = disk.n
    <3>0. i \in 1..Len(iq) + 1
      BY <1>0 DEF Numbers
    <3>1. Prev(LastBuilt, iq, i) >= disk'.n
      BY <1>8, <3>0, FrontBelow
    <3>2. disk'.n >= disk.n
      BY <1>0, <1>o, <2>1, <2>3 DEF QueuesOrdered, Ascends, Prev, Numbers
    <3>3. disk.n \in Nat /\ disk'.n \in Nat
      BY <1>0 DEF Numbers
    <3>. QED
      BY <3>1, <3>2, <3>3
  <2>8. ASSUME NEW i \in 1..Len(iq') PROVE QueuedExact(Prev(LastBuilt, iq, i), iq[i])'
    <3>1. QueuedExact(Prev(LastBuilt, iq, i), iq[i])
      BY <2>4 DEF CleanQueues
    <3>. QED
      BY <2>4, <2>5, <2>7, <3>1 DEF QueuedExact
  <2>9. \A n \in Block : (ckpt[n] = NoCkpt \/ (n <= tip /\ ckpt[n] = [n |-> n, rows |-> expect[n]]))'
    <3>1. ckpt' = ckpt \/ ckpt' = [ckpt EXCEPT ![built[1].n] = disk']
      BY <1>8, <1>c, <2>1 DEF Write, EpochImage
    <3>2. built[1].n <= tip
      BY <1>0, <2>1 DEF InRange
    <3>. QED
      BY <1>t, <2>3, <2>4, <3>1, <3>2 DEF CleanQueues, DiskType
  <2>. QED
    BY <2>3, <2>4, <2>6, <2>8, <2>9 DEF CleanQueues
<1>9. CASE BuildFails \/ WriteFails
  BY <1>9, <1>c DEF BuildFails, WriteFails
<1>10. CASE CkClone
  <2>1. ck.pc = "clone" /\ disk.n = ck.n /\ ck.n \in Block /\ ck.n <= tip
    <3>1. Calm
      BY DEF Clean, Calm
    <3>. QED
      BY <1>0, <1>10, <1>o, <3>1 DEF CkClone, CalmInv, L1, DownInv, CheckpointOrdered, Bounded
  <2>2. ckpt' = [ckpt EXCEPT ![ck.n] = disk]
    BY <1>10, <1>c DEF CkClone
  <2>3. disk = [n |-> ck.n, rows |-> expect[ck.n]]
    BY <1>d, <1>t, <2>1 DEF DiskType, Image
  <2>4. UNCHANGED <<iq, built, disk, tip, expect>>
    BY <1>10 DEF CkClone, queues, stream
  <2>5. \A n \in Block : (ckpt[n] = NoCkpt \/ (n <= tip /\ ckpt[n] = [n |-> n, rows |-> expect[n]]))'
    BY <1>t, <2>1, <2>2, <2>3, <2>4 DEF CleanQueues, DiskType
  <2>. QED
    BY <2>4, <2>5 DEF CleanQueues, QueuedExact, LastBuilt
<1>11. CASE GoDown
  <2>1. built' = <<>> /\ iq' = <<>> /\ UNCHANGED <<disk, ckpt, tip, expect>>
    BY <1>11 DEF GoDown, stream, tables
  <2>. QED
    BY <2>1 DEF CleanQueues
<1>12. CASE Recover
  <2>1. expect' = expect
    BY <1>12, <1>c, <1>d, QuietRecovery
  <2>. QED
    BY <1>1, <1>12, <2>1 DEF Recover, queues, tables
<1>13. CASE UNCHANGED vars
  BY <1>1, <1>13 DEF vars, queues, tables, stream
<1>. QED
  BY <1>2, <1>3, <1>5, <1>6, <1>7, <1>8, <1>9, <1>10, <1>11, <1>12, <1>13 DEF Next, Exit, Crash

(***************************************************************************)
(* Without a fault the memory is the image of the head, and the blocks on  *)
(* their way to it continue it.  A full write may overtake the head's own  *)
(* write set, which then changes nothing when it follows.                  *)
(***************************************************************************)
LEMMA NextCleanWorker ==
  ASSUME L1, L1', Ordered, Ordered', Clean, Clean',
         CleanQueues, CleanWorker, CleanCheckpoint, [Next]_vars
  PROVE  CleanWorker' /\ CleanCheckpoint'
<1>0. Numbers /\ Numbers' /\ QueueFacts /\ InRange
  BY NumbersType, QueueFactsHold, InRangeHolds
<1>t. /\ StreamType /\ WorkerType /\ QueueType /\ LaneType
      /\ DiskType /\ CkType /\ FlagType
  BY TypeParts DEF L1, CountersSound
<1>c. "io" \notin faults' /\ "timeout" \notin faults' /\ "replay" \notin faults'
  BY DEF Clean
<1>o. Bounded /\ QueuesOrdered /\ WorkerOrdered /\ CheckpointOrdered
  BY DEF Ordered
<1>u. ap.pc # "idle" \/ ck.pc # "idle" => phase = "up"
  BY <1>t DEF L1, DownInv, FlagType
<1>1. ASSUME UNCHANGED <<expect, chain, phase, mem, head, ap, prepared>>, LastQueued' = LastQueued
      PROVE  CleanWorker'
  BY <1>1 DEF CleanWorker, Step, PreparedPrev, LastTaken
<1>2. ASSUME UNCHANGED <<expect, ck, head>>, LastQueued' = LastQueued, LastQueued = disk.n => disk'.n = disk.n
      PROVE  CleanCheckpoint'
  BY <1>2 DEF CleanCheckpoint
<1>3. UNCHANGED <<iq, built, disk>> => LastQueued' = LastQueued
  BY DEF LastQueued, LastBuilt
<1>4. ASSUME NEW e \in BlockEffects(tip + 1), Decode(e) PROVE CleanWorker' /\ CleanCheckpoint'
  <2>1. \A n \in 0..tip : expect'[n] = expect[n] /\ chain'[n] = chain[n]
    <3>1. tip + 1 \in Height /\ tip + 1 \in Block /\ \A n \in 0..tip : n # tip + 1
      BY <1>0, <1>4, BoundsAssumption DEF Decode, Height, Block, Numbers
    <3>. QED
      BY <1>0, <1>4, <1>t, <3>1 DEF Decode, StreamType, InRange
  <2>2. LastQueued' = LastQueued /\ UNCHANGED <<disk, ck, phase, mem, head, ap>> /\ phase = "up"
    BY <1>3, <1>4 DEF Decode, queues, tables, memory
  <2>3. \A p, n \in 0..tip : Step(p, n) => Step(p, n)'
    BY <2>1 DEF Step
  <2>4. mem' = expect'[head']
    BY <1>0, <2>1, <2>2 DEF CleanWorker, InRange
  <2>5. ap'.pc \in {"applied", "sending"} => Step(LastQueued, head)'
    BY <1>0, <2>2, <2>3 DEF CleanWorker, InRange
  <2>6. ap'.pc = "got" => Step(head, ap.n)'
    BY <1>0, <2>2, <2>3 DEF CleanWorker, InRange
  <2>7. tip + 1 \in Block /\ tip + 1 \in Height
    BY <1>0, <1>4, BoundsAssumption DEF Decode, Block, Height, Numbers
  <2>8. /\ Len(prepared') = Len(prepared) + 1 /\ prepared'[Len(prepared) + 1] = tip + 1
        /\ \A i \in 1..Len(prepared) : prepared'[i] = prepared[i]
    BY <1>4, <2>7, QueueMoves DEF Decode
  <2>9. ASSUME NEW i \in 1..Len(prepared') PROVE Step(PreparedPrev(i), prepared[i])'
    <3>0. Len(prepared) \in Nat
      BY <1>0 DEF Numbers
    <3>1. PreparedPrev(i)' = PreparedPrev(i)
      <4>1. i # 1 => i - 1 \in 1..Len(prepared)
        BY <2>8, <3>0
      <4>. QED
        BY <2>2, <2>8, <4>1 DEF PreparedPrev, LastTaken
    <3>2. CASE i = Len(prepared) + 1
      <4>1. PreparedPrev(i)' = last
        BY <1>o, <2>2, <3>1, <3>2 DEF WorkerOrdered, LastPrepared
      <4>2. chain'[tip + 1] = e /\ expect'[tip + 1] = ApplyWriteSet(expect[last], e)
        BY <1>4, <1>t, <2>7 DEF Decode, StreamType
      <4>3. expect'[last] = expect[last]
        BY <1>0, <2>1 DEF InRange
      <4>. QED
        BY <2>8, <3>2, <4>1, <4>2, <4>3 DEF Step
    <3>3. CASE i \in 1..Len(prepared)
      <4>1. Step(PreparedPrev(i), prepared[i]) /\ PreparedPrev(i) \in 0..tip /\ prepared[i] \in 0..tip
        BY <1>0, <3>3 DEF CleanWorker, InRange
      <4>. QED
        BY <2>1, <2>8, <3>1, <3>3, <4>1 DEF Step
    <3>4. i = Len(prepared) + 1 \/ i \in 1..Len(prepared)
      BY <2>8, <3>0
    <3>. QED
      BY <3>2, <3>3, <3>4
  <2>10. CleanWorker'
    BY <2>2, <2>4, <2>5, <2>6, <2>9 DEF CleanWorker
  <2>11. ck.pc \notin {"idle", "done"} => ck.n \in 0..tip
    BY <1>0, <1>o DEF CheckpointOrdered, InRange
  <2>12. CleanCheckpoint'
    BY <2>1, <2>2, <2>11 DEF CleanCheckpoint
  <2>. QED
    BY <2>10, <2>12
<1>5. CASE Take
  <2>1. /\ Len(prepared) > 0 /\ ap'.pc = "got" /\ ap'.n = prepared[1] /\ ap.pc = "idle"
        /\ Len(prepared') = Len(prepared) - 1 /\ Len(prepared) \in Nat
        /\ \A i \in 1..Len(prepared) - 1 : prepared'[i] = prepared[i + 1]
    BY <1>0, <1>5, QueueMoves DEF Take, Numbers
  <2>2. UNCHANGED <<expect, chain, phase, mem, head, ck, disk>> /\ LastQueued' = LastQueued
    BY <1>3, <1>5 DEF Take, stream, memory, queues, tables
  <2>3. Step(head, prepared[1])
    BY <2>1 DEF CleanWorker, PreparedPrev, LastTaken
  <2>4. ASSUME NEW i \in 1..Len(prepared') PROVE Step(PreparedPrev(i), prepared[i])'
    <3>1. i + 1 \in 1..Len(prepared) /\ i \in 1..Len(prepared) - 1
      BY <2>1
    <3>2. PreparedPrev(i)' = PreparedPrev(i + 1)
      <4>1. i + 1 # 1 /\ i + 1 - 1 = i /\ (i # 1 => i - 1 \in 1..Len(prepared) - 1 /\ i - 1 + 1 = i)
        BY <2>1
      <4>. QED
        BY <2>1, <4>1 DEF PreparedPrev, LastTaken
    <3>3. Step(PreparedPrev(i + 1), prepared[i + 1])
      BY <3>1 DEF CleanWorker
    <3>. QED
      BY <2>1, <2>2, <3>1, <3>2, <3>3 DEF Step
  <2>5. CleanWorker'
    BY <2>1, <2>2, <2>3, <2>4 DEF CleanWorker, Step
  <2>. QED
    BY <1>2, <2>2, <2>5
<1>6. CASE ApplyBlock
  <2>1. ap.pc = "got" /\ ap'.pc = "applied" /\ ap'.n = ap.n /\ head' = ap.n /\ phase = "up"
    BY <1>6, <1>t, <1>u DEF ApplyBlock, WorkerType
  <2>2. UNCHANGED <<expect, chain, phase, prepared, ck, disk>> /\ LastQueued' = LastQueued
    BY <1>3, <1>6 DEF ApplyBlock, stream, queues, tables
  <2>3. mem = expect[head] /\ LastQueued = head /\ Step(head, ap.n)
    BY <2>1 DEF CleanWorker
  <2>4. mem' = expect[ap.n]
    BY <1>6, <2>3 DEF ApplyBlock, Step
  <2>5. \A i : PreparedPrev(i)' = PreparedPrev(i)
    BY <2>1, <2>2 DEF PreparedPrev, LastTaken
  <2>6. CleanWorker'
    BY <2>1, <2>2, <2>3, <2>4, <2>5 DEF CleanWorker, Step
  <2>7. CleanCheckpoint'
    BY <1>6, <2>2 DEF ApplyBlock, GateFree, CleanCheckpoint
  <2>. QED
    BY <2>6, <2>7
<1>7. CASE CountWrite
  <2>1. ap.pc = "applied" /\ ap'.pc = "sending" /\ ap'.n = ap.n
    BY <1>7, <1>t DEF CountWrite, WorkerType
  <2>2. UNCHANGED <<expect, chain, phase, mem, head, prepared, ck, disk>> /\ LastQueued' = LastQueued
    BY <1>3, <1>7 DEF CountWrite, stream, queues, tables, memory
  <2>3. \A i : PreparedPrev(i)' = PreparedPrev(i)
    BY <2>1, <2>2 DEF PreparedPrev, LastTaken
  <2>4. CleanWorker'
    BY <2>1, <2>2, <2>3 DEF CleanWorker, Step
  <2>. QED
    BY <1>2, <2>2, <2>4
<1>8. CASE SendWrite
  <2>1. /\ [n |-> ap.n, ws |-> chain[ap.n]] \in Queued /\ ap.n = head
        /\ ap.pc = "sending" /\ ap'.pc = "idle" /\ ap'.n = ap.n
    BY <1>8, <1>o, <1>t DEF SendWrite, L1, DownInv, StreamType, Queued, WorkerOrdered, WorkerType
  <2>2. LastQueued' = head
    <3>1. LastOf(LastBuilt, iq') = ap.n
      BY <1>0, <1>8, <2>1, PrevAppend DEF SendWrite, QueueFacts
    <3>2. LastBuilt' = LastBuilt
      BY <1>8 DEF SendWrite, LastBuilt, tables
    <3>. QED
      BY <2>1, <3>1, <3>2 DEF LastQueued
  <2>3. UNCHANGED <<expect, chain, phase, mem, head, prepared, ck, disk>>
    BY <1>8 DEF SendWrite, stream, tables, memory
  <2>4. \A i : PreparedPrev(i)' = PreparedPrev(i)
    BY <2>1, <2>3 DEF PreparedPrev, LastTaken
  <2>5. CleanWorker'
    BY <2>1, <2>2, <2>3, <2>4 DEF CleanWorker, Step
  <2>6. CleanCheckpoint'
    BY <2>2, <2>3 DEF CleanCheckpoint
  <2>. QED
    BY <2>5, <2>6
<1>9. CASE Shutdown \/ \E S \in SUBSET bq : SaveBlocks(S)
  <2>1. UNCHANGED <<expect, chain, phase, mem, head, ap, prepared, ck, iq, built, disk>>
    BY <1>9 DEF Shutdown, SaveBlocks, stream, queues, tables, memory
  <2>. QED
    BY <1>1, <1>2, <1>3, <2>1
<1>10. CASE Build
  <2>1. [n |-> Head(iq).n, batch |-> BuildBatch(Head(iq).ws, disk.rows)] \in Built /\ iq # <<>>
    <3>1. iq # <<>> /\ Head(iq) \in Queued /\ disk.rows \in Rows
      BY <1>0, <1>10, <1>t, TailFacts DEF Build, QueueFacts, DiskType, Image
    <3>. QED
      BY <3>1, BatchTypes DEF Queued, Built
  <2>2. LastBuilt' = Head(iq).n
    BY <1>0, <1>10, <2>1, PrevAppend DEF Build, LastBuilt, QueueFacts, tables
  <2>3. LastQueued' = LastQueued
    <3>1. Head(iq) = iq[1]
      BY <1>0, <2>1, TailFacts DEF QueueFacts
    <3>2. LastOf(iq[1].n, Tail(iq)) = LastOf(LastBuilt, iq)
      BY <1>0, <2>1, PrevTail DEF QueueFacts
    <3>. QED
      BY <1>10, <2>2, <3>1, <3>2 DEF Build, LastQueued
  <2>4. UNCHANGED <<expect, chain, phase, mem, head, ap, prepared, ck, disk>>
    BY <1>10 DEF Build, stream, tables, memory
  <2>. QED
    BY <1>1, <1>2, <2>3, <2>4
<1>11. CASE Write
  <2>1. Len(built) > 0 /\ built # <<>> /\ disk'.n = built[1].n /\ built' = Tail(built)
    BY <1>11, QueueMoves DEF Write
  <2>2. LastQueued' = LastQueued
    <3>1. LastOf(disk'.n, built') = LastOf(disk.n, built)
      BY <1>0, <2>1, PrevTail DEF QueueFacts
    <3>. QED
      BY <1>11, <3>1 DEF Write, LastQueued, LastBuilt
  <2>3. LastQueued = disk.n => disk'.n = disk.n
    <3>1. LastQueued >= disk'.n
      BY <1>11, FrontBelow
    <3>2. disk'.n >= disk.n
      BY <1>0, <1>o, <2>1 DEF QueuesOrdered, Ascends, Prev, Numbers
    <3>3. disk.n \in Nat /\ disk'.n \in Nat
      BY <1>0 DEF Numbers
    <3>. QED
      BY <3>1, <3>2, <3>3
  <2>4. UNCHANGED <<expect, chain, phase, mem, head, ap, prepared, ck>>
    BY <1>11 DEF Write, stream, memory
  <2>. QED
    BY <1>1, <1>2, <2>2, <2>3, <2>4
<1>12. CASE BuildFails \/ WriteFails \/ CkBusy
  BY <1>12, <1>c DEF BuildFails, WriteFails, CkBusy
<1>13. CASE CkBegin \/ CkIdle \/ CkRewait \/ CkClone
  <2>1. UNCHANGED <<expect, chain, phase, mem, head, ap, prepared, iq, built, disk>>
    BY <1>13 DEF CkBegin, CkIdle, CkRewait, CkClone, stream, queues, tables, memory
  <2>2. ck'.pc # "sending" /\ (ck'.pc = "force" => pending = 0)
    <3>1. CASE CkBegin
      BY <3>1 DEF CkBegin, NoCheckpoint
    <3>2. CASE CkIdle \/ CkRewait \/ CkClone
      BY <1>t, <3>2 DEF CkIdle, CkRewait, CkClone, CkType
    <3>. QED
      BY <1>13, <3>1, <3>2
  <2>3. pending = 0 => LastQueued = disk.n
    <3>1. Cardinality(bq) \in Nat
      BY <1>t, LaneFacts DEF LaneType
    <3>2. Len(iq) \in Nat /\ Len(built) \in Nat
      BY <1>0 DEF Numbers
    <3>3. pending = 0 => Len(iq) = 0 /\ Len(built) = 0
      BY <3>1, <3>2 DEF L1, CountersSound, PendingCountsWork
    <3>4. (Len(iq) = 0 => iq = <<>>) /\ (Len(built) = 0 => built = <<>>)
      BY <1>0 DEF Numbers
    <3>. QED
      BY <3>3, <3>4, PrevEmpty DEF LastQueued, LastBuilt
  <2>4. CleanCheckpoint'
    BY <1>3, <2>1, <2>2, <2>3 DEF CleanCheckpoint
  <2>. QED
    BY <1>1, <1>3, <2>1, <2>4
<1>14. CASE CkForce
  <2>1. ck.pc = "force" /\ ck'.pc = "sending" /\ ck'.n = ck.n /\ ck'.rows = mem /\ phase = "up" /\ ck.n = head
    BY <1>14, <1>o, <1>t, <1>u DEF CkForce, CkType, CheckpointOrdered
  <2>2. UNCHANGED <<expect, chain, phase, mem, head, ap, prepared, iq, built, disk>>
    BY <1>14 DEF CkForce, stream, queues, tables, memory
  <2>3. CleanCheckpoint'
    BY <1>3, <2>1, <2>2 DEF CleanCheckpoint, CleanWorker
  <2>. QED
    BY <1>1, <1>3, <2>2, <2>3
<1>15. CASE CkSend
  <2>1. ck.pc = "sending" /\ ck'.pc = "rewait" /\ ck'.n = ck.n /\ ck.n = head
    BY <1>15, <1>o, <1>t DEF CkSend, CkType, CheckpointOrdered
  <2>2. [n |-> ck.n, ws |-> FullWriteSet(ck.rows)] \in Queued
    BY <1>t, <2>1, FullFacts DEF CkType, L1, DownInv, Queued
  <2>3. LastQueued' = head
    <3>1. LastOf(LastBuilt, iq') = ck.n
      BY <1>0, <1>15, <2>2, PrevAppend DEF CkSend, QueueFacts
    <3>2. LastBuilt' = LastBuilt
      BY <1>15 DEF CkSend, LastBuilt, tables
    <3>. QED
      BY <2>1, <3>1, <3>2 DEF LastQueued
  <2>4. UNCHANGED <<expect, chain, phase, mem, head, ap, prepared, disk>>
    BY <1>15 DEF CkSend, stream, tables, memory
  <2>5. ap.pc \in {"applied", "sending"} => Step(head, head)
    <3>. SUFFICES ASSUME ap.pc \in {"applied", "sending"} PROVE Step(head, head)
      OBVIOUS
    <3>1. Step(LastQueued, head)
      BY DEF CleanWorker
    <3>2. head \in Block
      BY <1>o DEF L1, DownInv, WorkerOrdered
    <3>3. chain[head] \in WriteSet /\ ~ chain[head].full /\ expect[LastQueued] \in Rows
      BY <1>0, <1>t, <3>2 DEF StreamType, L1, DownInv, InRange
    <3>4. ApplyWriteSet(ApplyWriteSet(expect[LastQueued], chain[head]), chain[head])
            = ApplyWriteSet(expect[LastQueued], chain[head])
      BY <3>3, NotFullFacts
    <3>. QED
      BY <3>1, <3>4 DEF Step
  <2>6. \A i : PreparedPrev(i)' = PreparedPrev(i)
    BY <2>4 DEF PreparedPrev, LastTaken
  <2>7. CleanWorker'
    BY <2>3, <2>4, <2>5, <2>6 DEF CleanWorker, Step
  <2>8. CleanCheckpoint'
    BY <2>1 DEF CleanCheckpoint
  <2>. QED
    BY <2>7, <2>8
<1>16. CASE GoDown
  BY <1>0, <1>16 DEF GoDown, CleanWorker, CleanCheckpoint, NoCheckpoint, Numbers
<1>17. CASE Recover
  <2>1. disk.rows = expect[disk.n]
    BY DEF CleanQueues
  <2>2. mem' = disk.rows /\ head' = disk.n /\ expect' = expect
    BY <1>17, <1>c, <2>1, QuietRecovery
  <2>3. iq' = <<>> /\ built' = <<>> /\ prepared' = <<>> /\ ap'.pc = "idle" /\ ck'.pc = "idle" /\ disk' = disk
    BY <1>17 DEF Recover, L1, DownInv, queues, tables
  <2>4. LastQueued' = disk.n
    BY <2>3, PrevEmpty DEF LastQueued, LastBuilt
  <2>5. CleanWorker'
    BY <2>1, <2>2, <2>3, <2>4 DEF CleanWorker
  <2>. QED
    BY <2>3, <2>5 DEF CleanCheckpoint
<1>18. CASE UNCHANGED vars
  <2>1. UNCHANGED <<expect, chain, phase, mem, head, ap, prepared, ck, iq, built, disk>>
    BY <1>18 DEF vars, stream, queues, tables, memory
  <2>. QED
    BY <1>1, <1>2, <1>3, <2>1
<1>. QED
  BY <1>4, <1>5, <1>6, <1>7, <1>8, <1>9, <1>10, <1>11, <1>12, <1>13, <1>14, <1>15, <1>16,
     <1>17, <1>18 DEF Next, Exit, Crash

(* The images stay exact. *)
LEMMA NextClean == L1 /\ L1' /\ Ordered /\ Ordered' /\ CalmInv /\ CleanInv /\ [Next]_vars => CleanInv'
<1>. SUFFICES ASSUME L1, L1', Ordered, Ordered', CalmInv, CleanInv, [Next]_vars, Clean'
              PROVE  CleanInv'
  BY DEF CleanInv
<1>1. Clean
  BY FaultsGrow DEF Clean
<1>2. CleanQueues /\ CleanWorker /\ CleanCheckpoint
  BY <1>1 DEF CleanInv
<1>. QED
  BY <1>1, <1>2, NextCleanQueues, NextCleanWorker DEF CleanInv

(* As long as no write failed, no wait timed out and nothing was replayed,  *)
(* the tables hold the memory of the block they name, and so does every     *)
(* ckpt--N directory, for every chain of blocks, every interleaving of the  *)
(* workers with a shutdown, and any number of crashes.                      *)
THEOREM ImagesCorrect == Spec => []ImagesExact
<1>1. CleanInv => ImagesExact
  BY DEF CleanInv, Clean, CleanQueues, ImagesExact, MirrorExact, CheckpointExact
<1>. QED
  BY InitL1, NextL1, InitOrdered, NextOrdered, InitCalm, NextCalm, InitClean, NextClean, <1>1, PTL
  DEF Spec

-----------------------------------------------------------------------------
(* What a restart recovers. *)

(***************************************************************************)
(* Replaying blocks d+1..h over the memory of block d gives the memory of  *)
(* block h, if each of them continues the one before it.  For a key, the   *)
(* last of them that says something about it decides, and no later block   *)
(* changes it: the smallest block that would is a contradiction.           *)
(***************************************************************************)
LEMMA ReplayExact ==
  ASSUME chain \in [Block -> WriteSet], expect \in [Height -> Rows],
         \A n \in Block : ~ chain[n].full,
         NEW d \in Height, NEW h \in Height, d <= h,
         \A j \in d + 1 .. h : Step(j - 1, j)
  PROVE  Replayed(expect[d], d + 1 .. h) = expect[h]
<1>0. MaxBlock \in Nat /\ d \in Nat /\ h \in Nat /\ h <= MaxBlock /\ Block = 1..MaxBlock /\ Height = 0..MaxBlock
  BY BoundsAssumption DEF Block, Height
<1>. DEFINE S == d + 1 .. h
            Says(n, k) == chain[n].store[k] # Absent \/ k \in chain[n].del
            About(k) == {n \in S : Says(n, k)}
            Last(k) == CHOOSE n \in About(k) : \A i \in About(k) : i <= n
<1>1. ASSUME NEW n \in S
      PROVE  /\ n \in Block /\ n \in Height /\ n - 1 \in Height
             /\ chain[n] \in WriteSet /\ expect[n] \in Rows /\ expect[n - 1] \in Rows
  <2>1. n \in Block /\ n \in Height /\ n - 1 \in Height
    BY <1>0
  <2>. QED
    BY <2>1
<1>2. ASSUME NEW n \in S, NEW k \in Key
      PROVE  expect[n][k] = IF Says(n, k) THEN chain[n].store[k] ELSE expect[n - 1][k]
  <2>1. expect[n] = WriteBatch(expect[n - 1], BuildBatch(chain[n], expect[n - 1]))
    BY DEF Step, ApplyWriteSet
  <2>2. BuildBatch(chain[n], expect[n - 1]) = [del |-> chain[n].del \union {}, store |-> chain[n].store]
    BY <1>1 DEF BuildBatch
  <2>3. expect[n][k] = IF chain[n].store[k] # Absent THEN chain[n].store[k]
                       ELSE IF k \in chain[n].del THEN Absent ELSE expect[n - 1][k]
    BY <2>1, <2>2 DEF WriteBatch
  <2>. QED
    BY <2>3
<1>3. ASSUME NEW k \in Key, NEW a \in d..h, \A n \in a + 1 .. h : ~ Says(n, k)
      PROVE  expect[h][k] = expect[a][k]
  <2>. DEFINE Bad == {j \in a..h : expect[j][k] # expect[a][k]}
  <2>. SUFFICES ASSUME Bad # {} PROVE FALSE
    BY <1>0
  <2>1. PICK j \in Bad : \A i \in Bad : j <= i
    <3>1. Bad \in SUBSET Nat
      BY <1>0
    <3>. HIDE DEF Bad
    <3>. QED
      BY <3>1, NatMin
  <2>2. j \in a + 1 .. h /\ j \in S /\ j - 1 \in a..h /\ ~ (j <= j - 1)
    BY <1>0
  <2>3. j - 1 \notin Bad
    BY <2>1, <2>2
  <2>4. expect[j][k] = expect[j - 1][k]
    BY <1>2, <1>3, <2>2
  <2>. QED
    BY <2>2, <2>3, <2>4
<1>4. ASSUME NEW k \in Key, About(k) # {}
      PROVE  Last(k) \in About(k) /\ \A i \in About(k) : i <= Last(k)
  <2>1. About(k) \in SUBSET (0..MaxBlock)
    BY <1>0
  <2>2. \E n \in About(k) : \A i \in About(k) : i <= n
    <3>. HIDE DEF About
    <3>. QED
      BY <1>0, <1>4, <2>1, NatMax
  <2>. QED
    BY <2>2
<1>5. ASSUME NEW k \in Key
      PROVE  (IF About(k) = {} THEN expect[d][k] ELSE chain[Last(k)].store[k]) = expect[h][k]
  <2>1. CASE About(k) = {}
    <3>1. d \in d..h /\ \A n \in d + 1 .. h : ~ Says(n, k)
      BY <1>0, <2>1
    <3>. QED
      BY <1>3, <2>1, <3>1
  <2>2. CASE About(k) # {}
    <3>1. Last(k) \in S /\ Says(Last(k), k) /\ \A i \in About(k) : i <= Last(k)
      BY <1>4, <2>2
    <3>. DEFINE m == Last(k)
    <3>. HIDE DEF Last
    <3>2. m \in d..h /\ m + 1 .. h \subseteq S /\ \A n \in m + 1 .. h : ~ (n <= m)
      BY <1>0, <3>1
    <3>3. \A n \in m + 1 .. h : ~ Says(n, k)
      BY <3>1, <3>2
    <3>4. expect[h][k] = expect[m][k]
      BY <1>3, <3>2, <3>3
    <3>5. expect[m][k] = chain[m].store[k]
      BY <1>2, <3>1
    <3>. QED
      BY <2>2, <3>4, <3>5
  <2>. QED
    BY <2>1, <2>2
<1>6. Replayed(expect[d], S) = [k \in Key |-> IF About(k) = {} THEN expect[d][k] ELSE chain[Last(k)].store[k]]
  BY DEF Replayed
<1>7. Replayed(expect[d], S) = [k \in Key |-> expect[h][k]]
  <2>. HIDE DEF About, Last
  <2>. QED
    BY <1>5, <1>6
<1>. QED
  BY <1>7 DEF Rows

(* At the start only block 0 is known. *)
LEMMA InitLink == Init => LinkInv
<1>. SUFFICES ASSUME Init PROVE LinkInv
  OBVIOUS
<1>1. 1..tip = {}
  BY DEF Init
<1>. QED
  BY <1>1 DEF Init, LinkInv, KnownOnTheWay, Linked, Known, Accepted

(***************************************************************************)
(* Without a fault nothing accepted is forgotten: what leaves the blocks   *)
(* lane is in the blocks table, and the number the tables leave behind is  *)
(* below everything that is still on its way.                              *)
(***************************************************************************)
LEMMA NextLink ==
  ASSUME L1, L1', Ordered, Ordered', Clean, Clean', CleanQueues, KnownOnTheWay, Linked, [Next]_vars
  PROVE  KnownOnTheWay' /\ Linked'
<1>0. Numbers /\ Numbers' /\ QueueFacts /\ InRange
  BY NumbersType, QueueFactsHold, InRangeHolds
<1>t. /\ StreamType /\ WorkerType /\ QueueType /\ LaneType
      /\ DiskType /\ CkType /\ FlagType
  BY TypeParts DEF L1, CountersSound
<1>c. "io" \notin faults' /\ "timeout" \notin faults' /\ "replay" \notin faults'
  BY DEF Clean
<1>o. Bounded /\ QueuesOrdered /\ WorkerOrdered /\ CheckpointOrdered
  BY DEF Ordered
<1>u. ap.pc # "idle" \/ ck.pc # "idle" => phase = "up"
  BY <1>t DEF L1, DownInv, FlagType
<1>1. ASSUME UNCHANGED <<built, iq, prepared, ap, phase, head>>, Known' = Known, Accepted' = Accepted
      PROVE  KnownOnTheWay'
  BY <1>1 DEF KnownOnTheWay
<1>2. ASSUME UNCHANGED <<tip, last, phase, chain, expect>>, Known' \subseteq Known PROVE Linked'
  BY <1>2 DEF Linked, Step
<1>3. UNCHANGED <<saved, bq, disk>> => Known' = Known /\ Accepted' = Accepted
  BY DEF Known, Accepted
<1>4. ASSUME NEW e \in BlockEffects(tip + 1), Decode(e) PROVE KnownOnTheWay' /\ Linked'
  <2>0. tip + 1 \in Block /\ tip + 1 \in Height /\ tip \in Nat
    BY <1>0, <1>4, BoundsAssumption DEF Decode, Block, Height, Numbers
  <2>1. Accepted' = Accepted \union {tip + 1} /\ Known' = Known \union {tip + 1}
    BY <1>4 DEF Decode, Accepted, Known, tables
  <2>2. /\ Len(prepared') = Len(prepared) + 1 /\ prepared'[Len(prepared) + 1] = tip + 1
        /\ \A i \in 1..Len(prepared) : prepared'[i] = prepared[i]
        /\ Len(prepared) \in Nat
    BY <1>0, <1>4, <2>0, QueueMoves DEF Decode, Numbers
  <2>3. \A i \in 1..Len(prepared') : prepared'[i] \in Accepted'
    <3>1. \A i \in 1..Len(prepared') : i = Len(prepared) + 1 \/ i \in 1..Len(prepared)
      BY <2>2
    <3>. QED
      BY <2>1, <2>2, <3>1 DEF KnownOnTheWay
  <2>4. KnownOnTheWay'
    BY <1>4, <2>1, <2>3 DEF Decode, KnownOnTheWay, queues, memory
  <2>5. \A n \in 0..tip : expect'[n] = expect[n] /\ chain'[n] = chain[n]
    BY <1>0, <1>4, <1>t, <2>0 DEF Decode, StreamType, InRange
  <2>6. ASSUME NEW n \in 1..tip', n - 1 \in Known' PROVE Step(n - 1, n)'
    <3>1. CASE n = tip + 1
      <4>1. n - 1 = tip /\ tip # tip + 1
        BY <2>0, <3>1
      <4>2. last = tip
        BY <1>4, <2>1, <2>6, <4>1 DEF Linked, Decode
      <4>3. chain'[n] = e /\ expect'[n] = ApplyWriteSet(expect[tip], e) /\ expect'[tip] = expect[tip]
        BY <1>4, <1>t, <2>0, <2>5, <3>1, <4>2 DEF Decode, StreamType
      <4>. QED
        BY <4>1, <4>3 DEF Step
    <3>2. CASE n \in 1..tip
      <4>1. n - 1 \in 0..tip /\ n \in 0..tip /\ n - 1 # tip + 1
        BY <2>0, <3>2
      <4>2. Step(n - 1, n)
        BY <2>1, <2>6, <3>2, <4>1 DEF Linked
      <4>. QED
        BY <2>5, <4>1, <4>2 DEF Step
    <3>3. n = tip + 1 \/ n \in 1..tip
      BY <1>4, <2>0 DEF Decode
    <3>. QED
      BY <3>1, <3>2, <3>3
  <2>7. last' = tip'
    BY <1>4 DEF Decode
  <2>8. Linked'
    BY <2>6, <2>7 DEF Linked
  <2>. QED
    BY <2>4, <2>8
<1>5. CASE Take
  <2>1. /\ Len(prepared) > 0 /\ ap'.pc = "got" /\ ap'.n = prepared[1]
        /\ Len(prepared') = Len(prepared) - 1 /\ Len(prepared) \in Nat
        /\ \A i \in 1..Len(prepared) - 1 : prepared'[i] = prepared[i + 1]
    BY <1>0, <1>5, QueueMoves DEF Take, Numbers
  <2>2. Known' = Known /\ Accepted' = Accepted
    BY <1>3, <1>5 DEF Take, tables
  <2>3. \A i \in 1..Len(prepared') : i \in 1..Len(prepared) - 1 /\ i + 1 \in 1..Len(prepared)
    BY <2>1
  <2>4. \A i \in 1..Len(prepared') : prepared'[i] \in Accepted'
    BY <2>1, <2>2, <2>3 DEF KnownOnTheWay
  <2>5. ap'.n \in Accepted'
    BY <2>1, <2>2 DEF KnownOnTheWay
  <2>6. KnownOnTheWay'
    BY <1>5, <2>2, <2>4, <2>5 DEF Take, KnownOnTheWay, queues, memory
  <2>. QED
    BY <1>2, <1>5, <2>2, <2>6 DEF Take, stream
<1>6. CASE ApplyBlock
  <2>1. ap'.pc = "applied" /\ head' = ap.n /\ ap.pc = "got"
    BY <1>6, <1>t DEF ApplyBlock, WorkerType
  <2>2. Known' = Known /\ Accepted' = Accepted /\ UNCHANGED <<built, iq, prepared>>
    BY <1>3, <1>6 DEF ApplyBlock, tables, queues
  <2>3. head' \in Known'
    BY <2>1, <2>2 DEF KnownOnTheWay, Known
  <2>4. KnownOnTheWay'
    BY <2>1, <2>2, <2>3 DEF KnownOnTheWay
  <2>. QED
    BY <1>2, <1>6, <2>2, <2>4 DEF ApplyBlock, stream
<1>7. CASE CountWrite
  <2>1. ap'.pc = "sending"
    BY <1>7, <1>t DEF CountWrite, WorkerType
  <2>2. Known' = Known /\ Accepted' = Accepted /\ UNCHANGED <<built, iq, prepared, head, phase>>
    BY <1>3, <1>7 DEF CountWrite, tables, queues, memory
  <2>3. KnownOnTheWay'
    BY <2>1, <2>2 DEF KnownOnTheWay
  <2>. QED
    BY <1>2, <1>7, <2>2, <2>3 DEF CountWrite, stream
<1>8. ASSUME NEW w \in Queued, w.n = head, phase = "up", iq' = Append(iq, w), ap'.pc = "got" => UNCHANGED ap,
             UNCHANGED <<phase, stream, prepared, head, bq, saved, built, disk>>
      PROVE  KnownOnTheWay' /\ Linked'
  <2>1. Known' = Known /\ Accepted' = Accepted
    BY <1>3, <1>8
  <2>2. /\ Len(iq') = Len(iq) + 1 /\ iq'[Len(iq) + 1] = w
        /\ \A i \in 1..Len(iq) : iq'[i] = iq[i]
        /\ Len(iq) \in Nat
    BY <1>0, <1>8, QueueMoves DEF Numbers
  <2>3. \A i \in 1..Len(iq') : i = Len(iq) + 1 \/ i \in 1..Len(iq)
    BY <2>2
  <2>4. \A i \in 1..Len(iq') : iq'[i].n \in Known'
    BY <1>8, <2>1, <2>2, <2>3 DEF KnownOnTheWay
  <2>5. KnownOnTheWay'
    BY <1>8, <2>1, <2>4 DEF KnownOnTheWay
  <2>. QED
    BY <1>2, <1>8, <2>1, <2>5 DEF stream
<1>9. CASE SendWrite
  <2>1. /\ [n |-> ap.n, ws |-> chain[ap.n]] \in Queued /\ ap.n = head
        /\ ap'.pc = "idle" /\ phase = "up"
    BY <1>9, <1>o, <1>t, <1>u DEF SendWrite, L1, DownInv, StreamType, Queued, WorkerOrdered, WorkerType
  <2>. QED
    BY <1>8, <1>9, <2>1 DEF SendWrite, memory, tables
<1>10. CASE CkSend
  <2>1. ck.pc = "sending" /\ ck.n = head /\ phase = "up"
    BY <1>10, <1>o, <1>u DEF CkSend, CheckpointOrdered
  <2>2. [n |-> ck.n, ws |-> FullWriteSet(ck.rows)] \in Queued
    BY <1>t, <2>1, FullFacts DEF CkType, L1, DownInv, Queued
  <2>. QED
    BY <1>8, <1>10, <2>1, <2>2 DEF CkSend, memory, tables
<1>11. ASSUME NEW S \in SUBSET bq, SaveBlocks(S) PROVE KnownOnTheWay' /\ Linked'
  <2>1. Accepted' = Accepted /\ Known' = Known
    BY <1>11, <1>c DEF SaveBlocks, Accepted, Known, tables
  <2>. QED
    BY <1>1, <1>2, <1>11, <2>1 DEF SaveBlocks, stream, memory, queues
<1>12. CASE Build
  <2>. DEFINE b == [n |-> Head(iq).n, batch |-> BuildBatch(Head(iq).ws, disk.rows)]
  <2>1. /\ iq # <<>> /\ Len(iq) \in Nat \ {0} /\ Head(iq) = iq[1] /\ Len(iq') = Len(iq) - 1
        /\ \A i \in 1..Len(iq) - 1 : iq'[i] = iq[i + 1]
    BY <1>0, <1>12, TailFacts DEF Build, QueueFacts
  <2>2. b \in Built /\ b.n = iq[1].n
    <3>1. iq[1] \in Queued /\ disk.rows \in Rows
      BY <1>0, <1>t, <2>1 DEF Numbers, DiskType, Image
    <3>2. BuildBatch(iq[1].ws, disk.rows) \in Batch /\ iq[1].n \in Block
      BY <3>1, BatchTypes DEF Queued
    <3>. QED
      BY <2>1, <3>2 DEF Built
  <2>. HIDE DEF b
  <2>3. /\ Len(built') = Len(built) + 1 /\ built'[Len(built) + 1] = b
        /\ \A i \in 1..Len(built) : built'[i] = built[i]
        /\ Len(built) \in Nat
    BY <1>0, <1>12, <2>2, QueueMoves DEF Build, b, Numbers
  <2>4. Known' = Known /\ Accepted' = Accepted
    BY <1>3, <1>12 DEF Build, tables
  <2>5. iq[1].n \in Known
    BY <2>1 DEF KnownOnTheWay
  <2>6. \A i \in 1..Len(built') : built'[i].n \in Known
    <3>1. \A i \in 1..Len(built') : i = Len(built) + 1 \/ i \in 1..Len(built)
      BY <2>3
    <3>. QED
      BY <2>2, <2>3, <2>5, <3>1 DEF KnownOnTheWay
  <2>7. \A i \in 1..Len(iq') : iq'[i].n \in Known
    <3>1. \A i \in 1..Len(iq') : i \in 1..Len(iq) - 1 /\ i + 1 \in 1..Len(iq)
      BY <2>1
    <3>. QED
      BY <2>1, <3>1 DEF KnownOnTheWay
  <2>8. KnownOnTheWay'
    BY <1>12, <2>4, <2>6, <2>7 DEF Build, KnownOnTheWay, memory
  <2>. QED
    BY <1>2, <1>12, <2>4, <2>8 DEF Build, stream
<1>13. CASE Write
  <2>1. /\ built # <<>> /\ Len(built) \in Nat \ {0} /\ built' = Tail(built) /\ disk'.n = built[1].n
        /\ Len(built') = Len(built) - 1
        /\ \A i \in 1..Len(built) - 1 : built'[i] = built[i + 1]
    BY <1>0, <1>13, TailFacts DEF Write, QueueFacts
  <2>2. built[1].n \in Known /\ Accepted' = Accepted
    BY <1>13, <2>1 DEF KnownOnTheWay, Write, Accepted
  <2>3. Known' \subseteq Known
    BY <2>1, <2>2 DEF Known
  <2>4. disk.n <= disk'.n /\ disk.n \in Nat /\ disk'.n \in Nat
    BY <1>0, <1>o, <2>1 DEF QueuesOrdered, Ascends, Prev, Numbers
  <2>5. ASSUME NEW x \in Known, x >= disk'.n, x \in Nat PROVE x \in Known'
    <3>1. x = disk.n => x = disk'.n
      BY <2>4, <2>5
    <3>. QED
      BY <2>2, <3>1 DEF Known
  <2>6. ASSUME NEW i \in 1..Len(built') PROVE built'[i].n \in Known'
    <3>1. i \in 1..Len(built) - 1 /\ i + 1 \in 1..Len(built)
      BY <2>1
    <3>2. built[i + 1].n \in Nat /\ built[i + 1].n \in Known
      BY <1>0, <3>1 DEF Numbers, KnownOnTheWay
    <3>3. built[i + 1].n >= disk'.n
      BY <1>13, <3>1, FrontBelow
    <3>. QED
      BY <2>1, <2>5, <3>1, <3>2, <3>3
  <2>7. ASSUME NEW i \in 1..Len(iq) PROVE iq[i].n \in Known'
    <3>1. i + 1 \in 1..Len(iq) + 1 /\ i + 1 # 1 /\ i + 1 - 1 = i
      BY <1>0 DEF Numbers
    <3>2. Prev(LastBuilt, iq, i + 1) >= disk'.n
      BY <1>13, <3>1, FrontBelow
    <3>3. iq[i].n >= disk'.n
      BY <3>1, <3>2 DEF Prev
    <3>4. iq[i].n \in Nat /\ iq[i].n \in Known
      BY <1>0 DEF Numbers, KnownOnTheWay
    <3>. QED
      BY <2>5, <3>3, <3>4
  <2>8. phase = "up" => head \in Known'
    <3>1. 1 \in 1..Len(built) /\ head \in Nat
      BY <1>0, <2>1 DEF Numbers
    <3>2. head >= disk'.n
      BY <1>o, <2>1, <2>4, <3>1 DEF Bounded
    <3>. QED
      BY <2>5, <3>1, <3>2 DEF KnownOnTheWay
  <2>9. KnownOnTheWay'
    BY <1>13, <2>2, <2>6, <2>7, <2>8 DEF Write, KnownOnTheWay, memory
  <2>. QED
    BY <1>2, <1>13, <2>3, <2>9 DEF Write, stream
<1>14. CASE BuildFails \/ WriteFails \/ CkBusy
  BY <1>14, <1>c DEF BuildFails, WriteFails, CkBusy
<1>15. CASE Shutdown \/ CkBegin \/ CkIdle \/ CkForce \/ CkRewait \/ CkClone
  <2>1. UNCHANGED <<phase, tip, last, chain, expect, prepared, ap, head, bq, saved, iq, built, disk>>
    BY <1>15 DEF Shutdown, CkBegin, CkIdle, CkForce, CkRewait, CkClone, stream, memory, queues, tables
  <2>. QED
    BY <1>1, <1>2, <1>3, <2>1
<1>16. CASE GoDown
  <2>1. Known' \subseteq Known
    BY <1>16 DEF GoDown, Known, Accepted, tables
  <2>2. UNCHANGED <<tip, last, chain, expect>> /\ phase' = "down"
    BY <1>16 DEF GoDown, stream
  <2>3. Linked'
    BY <2>1, <2>2 DEF Linked, Step
  <2>4. KnownOnTheWay'
    BY <1>16 DEF GoDown, KnownOnTheWay
  <2>. QED
    BY <2>3, <2>4
<1>17. CASE Recover
  <2>1. head' = disk.n /\ last' = disk.n /\ expect' = expect
    BY <1>17, <1>c, QuietRecovery DEF CleanQueues
  <2>2. iq' = <<>> /\ built' = <<>> /\ prepared' = <<>> /\ ap'.pc = "idle" /\ bq' = {} /\ disk' = disk
    BY <1>17 DEF Recover, L1, DownInv, queues, tables
  <2>3. Known' = saved \union {disk.n} /\ Known' \subseteq Known /\ UNCHANGED <<tip, chain>>
    BY <1>17, <2>2 DEF Recover, Known, Accepted
  <2>4. KnownOnTheWay'
    BY <2>1, <2>2, <2>3 DEF KnownOnTheWay
  <2>5. tip \in Known' => tip = disk.n
    <3>1. ToReplay = {}
      BY <1>17, <1>c DEF Recover
    <3>2. disk.n \in Nat /\ tip \in Nat /\ disk.n <= tip
      BY <1>0, <1>o DEF Numbers, Bounded
    <3>3. tip \in saved => ~ (tip > disk.n)
      BY <3>1 DEF ToReplay
    <3>. QED
      BY <2>3, <3>2, <3>3
  <2>6. Linked'
    BY <2>1, <2>3, <2>5 DEF Linked, Step
  <2>. QED
    BY <2>4, <2>6
<1>18. CASE UNCHANGED vars
  <2>1. UNCHANGED <<phase, tip, last, chain, expect, prepared, ap, head, bq, saved, iq, built, disk>>
    BY <1>18 DEF vars, stream, memory, queues, tables
  <2>. QED
    BY <1>1, <1>2, <1>3, <2>1
<1>. QED
  BY <1>4, <1>5, <1>6, <1>7, <1>9, <1>10, <1>11, <1>12, <1>13, <1>14, <1>15, <1>16, <1>17, <1>18
  DEF Next, Exit, Crash

(* The links stay. *)
LEMMA NextLinkInv == L1 /\ L1' /\ Ordered /\ Ordered' /\ CleanInv /\ LinkInv /\ [Next]_vars => LinkInv'
<1>. SUFFICES ASSUME L1, L1', Ordered, Ordered', CleanInv, LinkInv, [Next]_vars, Clean'
              PROVE  LinkInv'
  BY DEF LinkInv
<1>1. Clean
  BY FaultsGrow DEF Clean
<1>2. CleanQueues /\ KnownOnTheWay /\ Linked
  BY <1>1 DEF CleanInv, LinkInv
<1>. QED
  BY <1>1, <1>2, NextLink DEF LinkInv

(* The restart that replays for the first time, from a blocks table without *)
(* a hole, comes back with the memory that the block of its head left       *)
(* before the crash: nothing is lost, applied twice or applied out of order.*)
THEOREM RecoveryCorrect == Spec => RecoveryExact
<1>. DEFINE Recovered == (phase = "down" /\ phase' = "up" /\ faults \intersect {"io", "timeout", "replay"} = {}
                            /\ "hole" \notin faults') => mem' = expect[head']
<1>1. L1 /\ Ordered /\ CleanInv /\ LinkInv /\ [Next]_vars => [Recovered]_vars
  <2>. SUFFICES ASSUME L1, Ordered, CleanInv, LinkInv, [Next]_vars, phase = "down", phase' = "up", Clean,
                       "hole" \notin faults'
                PROVE  mem' = expect[head']
    BY DEF Clean
  <2>1. Recover
    BY DEF Next, vars, tables, Decode, Take, ApplyBlock, CountWrite, SendWrite, SaveBlocks,
       Build, BuildFails, Write, WriteFails, Shutdown, CkBegin, CkIdle, CkBusy, CkForce, CkSend, CkRewait,
       CkClone, Exit, Crash, GoDown
  <2>2. CleanQueues /\ Linked /\ Bounded /\ Numbers
    BY NumbersType DEF CleanInv, LinkInv, Ordered
  <2>3. /\ head' \in ToReplay \union {disk.n} /\ disk.n <= head'
        /\ \A i \in ToReplay : i <= head'
        /\ disk.n + 1 .. head' \subseteq saved
    BY <2>1, LargestFacts DEF Recover
  <2>4. disk.n \in Nat /\ tip \in Nat /\ saved \subseteq 1..tip /\ disk.n <= tip
    BY <2>2 DEF Numbers, Bounded
  <2>5. ToReplay = disk.n + 1 .. head' /\ head' \in 0..tip
    <3>1. head' \in 0..tip /\ head' \in Nat
      BY <2>3, <2>4 DEF ToReplay
    <3>2. \A n \in ToReplay : n \in Nat /\ n > disk.n /\ n <= head'
      BY <2>3, <2>4 DEF ToReplay
    <3>3. ToReplay \subseteq disk.n + 1 .. head'
      BY <2>4, <3>1, <3>2
    <3>4. \A n \in disk.n + 1 .. head' : n > disk.n /\ n \in saved
      BY <2>3, <2>4, <3>1
    <3>5. disk.n + 1 .. head' \subseteq ToReplay
      BY <3>4 DEF ToReplay
    <3>. QED
      BY <3>1, <3>3, <3>5
  <2>6. ASSUME NEW j \in disk.n + 1 .. head' PROVE Step(j - 1, j)
    <3>1. j \in 1..tip /\ (j - 1 = disk.n \/ j - 1 \in disk.n + 1 .. head')
      BY <2>3, <2>4, <2>5
    <3>. QED
      BY <2>2, <2>3, <3>1 DEF Linked, Known, Accepted
  <2>7. /\ chain \in [Block -> WriteSet] /\ expect \in [Height -> Rows] /\ disk.n \in Height
        /\ \A n \in Block : ~ chain[n].full
    BY TypeParts DEF L1, CountersSound, StreamType, DiskType, Image, DownInv
  <2>8. head' \in Height
    <3>1. tip \in Height /\ MaxBlock \in Nat
      BY TypeParts, BoundsAssumption DEF L1, CountersSound, StreamType
    <3>. QED
      BY <2>5, <3>1 DEF Height
  <2>9. Replayed(expect[disk.n], disk.n + 1 .. head') = expect[head']
    BY <2>3, <2>6, <2>7, <2>8, ReplayExact
  <2>. QED
    BY <2>1, <2>2, <2>5, <2>9 DEF Recover, CleanQueues
<1>. QED
  BY InitL1, NextL1, InitOrdered, NextOrdered, InitCalm, NextCalm, InitClean, NextClean, InitLink,
     NextLinkInv, <1>1, PTL DEF Spec, RecoveryExact
=============================================================================
