------------------------- MODULE LivePipelineProofs -------------------------
(***************************************************************************)
(* The indexer task is correct for every chain, every choice of what a     *)
(* block cancels, every capacity and threshold and any number of           *)
(* connections: its counters are exact, every block is in the index or it  *)
(* is known why not, the open orders are the chain's, the tables follow    *)
(* the memory, and the workers with their channels implement a queue.      *)
(***************************************************************************)
EXTENDS LivePipeline, SequenceTheorems, TLAPS

-----------------------------------------------------------------------------
(* Types and counters. *)

Job == [n : Block, mapped : BOOLEAN]

(* The type invariant by parts, with what the workers hold. *)
NodeType == tip \in Height /\ head \in Height /\ conns \in 0..MaxConns
FlagType == /\ link \in Link /\ wsEnd \in {"open", "error", "closed"}
            /\ connected \in BOOLEAN /\ catching_up \in BOOLEAN
            /\ secondary \in BOOLEAN /\ epoch_ckpt \in BOOLEAN
            /\ cancelled \in BOOLEAN /\ torn \in BOOLEAN
StreamType == ws \in Seq(Block) /\ buffer \in Seq(Block) /\ Len(buffer) <= BufferMax
RecvType == /\ recv.pc \in {"off", "idle", "send", "done"} /\ recv.n \in Height
            /\ recv.pc = "send" => recv.n \in Block
DecType == /\ dec.pc \in {"off", "idle", "got", "send", "done"} /\ dec.n \in Height
           /\ dec.pc \in {"got", "send"} => dec.n \in Block
           /\ dec.pc = "send" => dec.mapped \in BOOLEAN
AppType == /\ app.pc \in {"off", "idle", "got", "enqueue", "done"} /\ app.n \in Height
           /\ app.pc \in {"got", "enqueue"} => app.n \in Block
           /\ app.pc = "got" => app.mapped \in BOOLEAN /\ app.quiet \in BOOLEAN
           /\ app.pc = "enqueue" => app.ws \in WriteSet /\ app.ws.n = app.n
ChannelType == /\ raw \in Seq(Block) /\ Len(raw) <= RawCap
               /\ prepared \in Seq(Job) /\ Len(prepared) <= PreparedCap
CountType == decode_backlog \in Nat /\ apply_backlog \in Nat
MemType == mem \in State
TablesType == tables.n \in Height /\ tables.st \in State /\ tables = [n |-> tables.n, st |-> tables.st]
ImpType == /\ imp \in Import
           /\ Importing => imp.c \in Block /\ imp.c <= imp.k /\ imp.k <= imp.p /\ imp.p <= tip
                           /\ imp.t \in Block /\ imp.rows \subseteq (imp.c + 1)..imp.p
GhostType == /\ missed \subseteq Block /\ dropped \subseteq Block /\ twice \subseteq Block
             /\ overlap \subseteq Block /\ ahead \subseteq Block
             /\ inherited \subseteq Block /\ replayed \subseteq Block

Typed == /\ NodeType /\ FlagType /\ StreamType /\ RecvType /\ DecType /\ AppType /\ ChannelType
         /\ CountType /\ MemType /\ TablesType /\ ImpType /\ GhostType

(* The three workers run together, and only while run_once is in the live   *)
(* pipeline or has been dropped there by a shutdown.                        *)
Running == recv.pc # "off"

Phases ==
  /\ Running <=> dec.pc # "off"
  /\ Running <=> app.pc # "off"
  /\ link = "live" => Running
  /\ Running => link \in {"live", "stopped", "saved"}

(* The counters, with a worker that has ended: it leaves what it did not take. *)
Backlogs ==
  Running =>
    /\ decode_backlog >= (IF recv.pc = "send" THEN 1 ELSE 0)
    /\ dec.pc # "done" => decode_backlog = Len(raw) + (IF recv.pc = "send" THEN 1 ELSE 0)
    /\ apply_backlog >= (IF dec.pc = "send" THEN 1 ELSE 0)
    /\ app.pc # "done" => apply_backlog = Len(prepared) + (IF dec.pc = "send" THEN 1 ELSE 0)

(* The flags, from the first connection attempt on. *)
FlagsBack ==
  /\ link \in {"down", "hydrated", "subscribed"} => secondary /\ epoch_ckpt
  /\ link \in {"down", "hydrated", "subscribed", "live"} => ~ catching_up
  /\ (link = "live" /\ app.pc # "done" /\ apply_backlog < QuietAt) => secondary

L1 == Typed /\ Phases /\ Backlogs /\ FlagsBack

-----------------------------------------------------------------------------
(* Sequences. *)

(* Length and elements. *)
LEMMA SequenceFacts ==
  ASSUME NEW S, NEW s \in Seq(S)
  PROVE  /\ Len(s) \in Nat /\ (s = <<>> <=> Len(s) = 0)
         /\ \A i \in 1..Len(s) : s[i] \in S
OBVIOUS

(* Head and Tail. *)
LEMMA TailFacts ==
  ASSUME NEW S, NEW s \in Seq(S), s # <<>>
  PROVE  /\ Len(s) \in Nat \ {0}
         /\ Head(s) = s[1] /\ Head(s) \in S
         /\ Tail(s) \in Seq(S)
         /\ Len(Tail(s)) = Len(s) - 1
         /\ \A i \in 1..Len(s) - 1 : Tail(s)[i] = s[i + 1]
OBVIOUS

(* Append. *)
LEMMA AppendFacts ==
  ASSUME NEW S, NEW s \in Seq(S), NEW e \in S
  PROVE  /\ Len(s) \in Nat
         /\ Append(s, e) \in Seq(S) /\ Append(s, e) # <<>>
         /\ Len(Append(s, e)) = Len(s) + 1
         /\ \A i \in 1..Len(s) : Append(s, e)[i] = s[i]
         /\ Append(s, e)[Len(s) + 1] = e
OBVIOUS

(* The elements as a set. *)
LEMMA ToSetFacts ==
  ASSUME NEW S, NEW s \in Seq(S)
  PROVE  /\ ToSet(s) \subseteq S
         /\ ToSet(s) = {s[i] : i \in 1..Len(s)}
BY DEF ToSet

-----------------------------------------------------------------------------
(* The index. *)

(* The empty index, a peer's index, and an index after a block. *)
LEMMA StateTypes ==
  /\ \A h \in Height : Exact(h) \in State
  /\ \A h \in Height : OrdersAt(h) \subseteq Block
  /\ \A st \in State : \A w \in WriteSet : w.n \in Block => Written(st, w) \in State
<1>1. MaxBlock \in Nat
  BY PipelineBounds
<1>2. \A h \in Height : 1..h \subseteq Block /\ OrdersAt(h) \subseteq Block
  BY <1>1 DEF Height, Block, OrdersAt, OpenIn
<1>3. \A h \in Height : Exact(h) \in State
  BY <1>2 DEF Exact, State
<1>4. ASSUME NEW st \in State, NEW w \in WriteSet, w.n \in Block PROVE Written(st, w) \in State
  <2>1. st.done \subseteq Block /\ st.open \subseteq Block /\ st.book \subseteq Block
    BY DEF State
  <2>2. w.add \subseteq Block /\ w.levels \subseteq Block
    BY DEF WriteSet
  <2>3. (st.open \union w.add) \ w.del \subseteq Block
    BY <2>1, <2>2
  <2>4. ((IF w.hydrated THEN w.levels ELSE st.book) \union w.add) \ w.del \subseteq Block
    BY <2>1, <2>2
  <2>5. st.done \union {w.n} \subseteq Block
    BY <1>4, <2>1
  <2>. QED
    BY <2>3, <2>4, <2>5 DEF Written, State
<1>. QED
  BY <1>2, <1>3, <1>4

(* What a block does is a write set. *)
LEMMA WriteSetType ==
  ASSUME Typed, NEW n \in Block, NEW m \in BOOLEAN, NEW q \in BOOLEAN
  PROVE  WriteSetOf(n, m, q) \in WriteSet /\ WriteSetOf(n, m, q).n = n
<1>1. tip \in Height /\ Cancels[n] \in Height /\ n \in Height
  BY CancelsAssumption, PipelineBounds DEF Typed, NodeType, Block, Height
<1>2. OrdersAt(tip) \subseteq Block
  BY <1>1, StateTypes
<1>3. (IF m THEN {Cancels[n]} ELSE {}) \in SUBSET Height
  BY <1>1
<1>4. {n} \ mem.open \in SUBSET Block
  OBVIOUS
<1>5. (IF Cancels[n] # 0 /\ ~ m /\ ~ q THEN OrdersAt(tip) ELSE {}) \in SUBSET Block
  BY <1>2
<1>. QED
  BY <1>1, <1>3, <1>4, <1>5 DEF WriteSetOf, WriteSet

-----------------------------------------------------------------------------
(* Which actions change what. *)

(* The ends of run_once, all of them disconnections. *)
Drop == SubscribeFails \/ CatchupFails \/ ImportSnapshotFails \/ ImportFails \/ PipelineEnds

(* What every one of them does. *)
LEMMA Drops == Drop => Disconnected
BY DEF Drop, SubscribeFails, CatchupFails, ImportSnapshotFails, ImportFails, PipelineEnds

(* A variable changes only in the actions named here. *)
LEMMA Moves ==
  ASSUME [Next]_vars
  PROVE  /\ UNCHANGED <<tip, missed>> \/ Produce
         /\ UNCHANGED conns \/ HydrateAll
         /\ UNCHANGED ws \/ Produce \/ Subscribe \/ Drop \/ BufferBlock \/ ReceiveBlock
         /\ UNCHANGED wsEnd \/ (\E how \in {"error", "closed"} : StreamEnds(how)) \/ Subscribe
            \/ Drop
         /\ UNCHANGED recv \/ GoLive \/ FinishCatchup \/ PipelineEnds
            \/ ReceiveBlock \/ SendRaw \/ ReceiveEnds
         /\ UNCHANGED raw \/ GoLive \/ FinishCatchup \/ SendRaw \/ DecodeTake \/ DecodeEnds
         /\ UNCHANGED dec \/ GoLive \/ FinishCatchup \/ PipelineEnds
            \/ DecodeTake \/ PrepareBlock \/ SendPrepared \/ DecodeEnds
         /\ UNCHANGED prepared \/ GoLive \/ FinishCatchup \/ SendPrepared \/ ApplyTake \/ ApplyEnds
         /\ UNCHANGED app \/ GoLive \/ FinishCatchup \/ PipelineEnds
            \/ ApplyTake \/ ApplyBlock \/ EnqueueWrite \/ ApplyEnds
         /\ UNCHANGED decode_backlog \/ GoLive \/ FinishCatchup
            \/ ReceiveBlock \/ ReceiveEnds \/ DecodeTake
         /\ UNCHANGED apply_backlog \/ GoLive \/ FinishCatchup
            \/ PrepareBlock \/ DecodeEnds \/ ApplyTake
         /\ UNCHANGED head \/ ImportLiveBlock \/ FinishCatchup \/ ApplyBlock
         /\ UNCHANGED mem \/ HydrateAll \/ ImportSnapshot \/ ImportSnapshotFails
            \/ ImportPeerBlock \/ ImportLiveBlock \/ ApplyBlock
         /\ UNCHANGED tables \/ ImportSnapshot \/ FinishCatchup \/ EnqueueWrite \/ SaveAtShutdown
         /\ UNCHANGED buffer \/ Drop \/ BufferBlock \/ SkipBuffered \/ ImportLiveBlock
         /\ UNCHANGED imp \/ Drop \/ ImportPeerBlock \/ ImportLiveBlock \/ FinishCatchup
            \/ \E c, p \in Block : Downloaded(c, p)
         /\ UNCHANGED cancelled \/ Cancel
         /\ UNCHANGED dropped \/ Drop \/ BufferBlock \/ ImportSnapshot
         /\ UNCHANGED twice \/ ImportSnapshot \/ ImportPeerBlock \/ ImportLiveBlock \/ ApplyBlock
         /\ UNCHANGED overlap \/ \E c, p \in Block : Downloaded(c, p)
         /\ UNCHANGED ahead \/ ImportSnapshot \/ ImportPeerBlock \/ ImportLiveBlock \/ PrepareBlock
         /\ UNCHANGED inherited \/ ImportSnapshot \/ ImportSnapshotFails \/ ImportPeerBlock
         /\ UNCHANGED replayed \/ ImportSnapshot \/ FinishCatchup \/ SaveAtShutdown
         /\ UNCHANGED torn \/ ImportSnapshotFails \/ ImportFails \/ TaskStops
         /\ UNCHANGED link \/ HydrateAll \/ Subscribe \/ GoLive \/ StartCatchup \/ FinishCatchup
            \/ ImportSnapshot \/ Drop \/ TaskStops \/ SaveAtShutdown
            \/ \E c, p \in Block : Downloaded(c, p)
         /\ UNCHANGED <<connected, catching_up, secondary, epoch_ckpt>> \/ Drop \/ Subscribe
            \/ StartCatchup \/ FinishCatchup \/ ApplyTake
<1>. USE DEF Next, vars, node, stream, workers, flags, catchup, ghosts, Drop, Produce, StreamEnds,
     HydrateAll, Subscribe, SubscribeFails, GoLive, StartCatchup, BufferBlock, CatchupFails,
     Downloaded, ImportSnapshot, ImportSnapshotFails, ImportPeerBlock, ImportFails, SkipBuffered,
     ImportLiveBlock, FinishCatchup, ReceiveBlock, SendRaw, ReceiveEnds, DecodeTake, PrepareBlock,
     SendPrepared, DecodeEnds, ApplyTake, ApplyBlock, EnqueueWrite, ApplyEnds, PipelineEnds, Cancel,
     TaskStops, SaveAtShutdown, Disconnected
<1>1. UNCHANGED <<tip, missed>> \/ Produce
  OBVIOUS
<1>2. UNCHANGED conns \/ HydrateAll
  OBVIOUS
<1>3. UNCHANGED ws \/ Produce \/ Subscribe \/ Drop \/ BufferBlock \/ ReceiveBlock
  OBVIOUS
<1>4. UNCHANGED wsEnd \/ (\E how \in {"error", "closed"} : StreamEnds(how)) \/ Subscribe \/ Drop
  OBVIOUS
<1>5. UNCHANGED recv \/ GoLive \/ FinishCatchup \/ PipelineEnds \/ ReceiveBlock \/ SendRaw \/
      ReceiveEnds
  OBVIOUS
<1>6. UNCHANGED raw \/ GoLive \/ FinishCatchup \/ SendRaw \/ DecodeTake \/ DecodeEnds
  OBVIOUS
<1>7. UNCHANGED dec \/ GoLive \/ FinishCatchup \/ PipelineEnds \/ DecodeTake \/ PrepareBlock \/
      SendPrepared \/ DecodeEnds
  OBVIOUS
<1>8. UNCHANGED prepared \/ GoLive \/ FinishCatchup \/ SendPrepared \/ ApplyTake \/ ApplyEnds
  OBVIOUS
<1>9. UNCHANGED app \/ GoLive \/ FinishCatchup \/ PipelineEnds \/ ApplyTake \/ ApplyBlock \/
      EnqueueWrite \/ ApplyEnds
  OBVIOUS
<1>10. UNCHANGED decode_backlog \/ GoLive \/ FinishCatchup \/ ReceiveBlock \/ ReceiveEnds \/
      DecodeTake
  OBVIOUS
<1>11. UNCHANGED apply_backlog \/ GoLive \/ FinishCatchup \/ PrepareBlock \/ DecodeEnds \/ ApplyTake
  OBVIOUS
<1>12. UNCHANGED head \/ ImportLiveBlock \/ FinishCatchup \/ ApplyBlock
  OBVIOUS
<1>13. UNCHANGED mem \/ HydrateAll \/ ImportSnapshot \/ ImportSnapshotFails \/ ImportPeerBlock \/
      ImportLiveBlock \/ ApplyBlock
  OBVIOUS
<1>14. UNCHANGED tables \/ ImportSnapshot \/ FinishCatchup \/ EnqueueWrite \/ SaveAtShutdown
  OBVIOUS
<1>15. UNCHANGED buffer \/ Drop \/ BufferBlock \/ SkipBuffered \/ ImportLiveBlock
  OBVIOUS
<1>16. UNCHANGED imp \/ Drop \/ ImportPeerBlock \/ ImportLiveBlock \/ FinishCatchup \/ \E c, p \in
      Block : Downloaded(c, p)
  OBVIOUS
<1>17. UNCHANGED cancelled \/ Cancel
  OBVIOUS
<1>18. UNCHANGED dropped \/ Drop \/ BufferBlock \/ ImportSnapshot
  OBVIOUS
<1>19. UNCHANGED twice \/ ImportSnapshot \/ ImportPeerBlock \/ ImportLiveBlock \/ ApplyBlock
  OBVIOUS
<1>20. UNCHANGED overlap \/ \E c, p \in Block : Downloaded(c, p)
  OBVIOUS
<1>21. UNCHANGED ahead \/ ImportSnapshot \/ ImportPeerBlock \/ ImportLiveBlock \/ PrepareBlock
  OBVIOUS
<1>22. UNCHANGED torn \/ ImportSnapshotFails \/ ImportFails \/ TaskStops
  OBVIOUS
<1>23. UNCHANGED link \/ HydrateAll \/ Subscribe \/ GoLive \/ StartCatchup \/ FinishCatchup \/
      ImportSnapshot \/ Drop \/ TaskStops \/ SaveAtShutdown \/ \E c, p \in Block : Downloaded(c, p)
  OBVIOUS
<1>24. UNCHANGED <<connected, catching_up, secondary, epoch_ckpt>> \/ Drop \/ Subscribe \/
      StartCatchup \/ FinishCatchup \/ ApplyTake
  OBVIOUS
<1>25. UNCHANGED inherited \/ ImportSnapshot \/ ImportSnapshotFails \/ ImportPeerBlock
  OBVIOUS
<1>26. UNCHANGED replayed \/ ImportSnapshot \/ FinishCatchup \/ SaveAtShutdown
  OBVIOUS
<1>. QED
  BY <1>1, <1>2, <1>3, <1>4, <1>5, <1>6, <1>7, <1>8, <1>9, <1>10, <1>11, <1>12, <1>13, <1>14, <1>15,
     <1>16, <1>17, <1>18, <1>19, <1>20, <1>21, <1>22, <1>23, <1>24, <1>25, <1>26

(* An import takes over whatever the peer has. *)
LEMMA Imports ==
  ASSUME ImportSnapshot \/ ImportSnapshotFails
  PROVE  /\ link = "snapshot" /\ mem' \in State /\ Snapshot(mem', imp.c)
         /\ inherited' = inherited \union Faults(mem', imp.c)
         /\ ImportSnapshot => tables' = [n |-> imp.c, st |-> mem']
<1>1. ASSUME ImportSnapshot
      PROVE  /\ link = "snapshot" /\ mem' \in State /\ Snapshot(mem', imp.c)
             /\ inherited' = inherited \union Faults(mem', imp.c) /\ tables' = [n |-> imp.c, st |-> mem']
  BY <1>1 DEF ImportSnapshot
<1>2. ASSUME ImportSnapshotFails
      PROVE  /\ link = "snapshot" /\ mem' \in State /\ Snapshot(mem', imp.c)
             /\ inherited' = inherited \union Faults(mem', imp.c)
  BY <1>2 DEF ImportSnapshotFails
<1>3. ImportSnapshot /\ ImportSnapshotFails => FALSE
  BY DEF ImportSnapshot, ImportSnapshotFails, Disconnected
<1>. QED
  BY <1>1, <1>2, <1>3

(* The next row of the tail: what it adds, and which blocks the peer lacks before it. *)
LEMMA NextRow ==
  ASSUME L1, ImportPeerBlock
  PROVE  \E n \in Block :
           /\ link = "importing" /\ imp.k < imp.p /\ imp.k < n /\ n <= imp.p /\ n <= tip /\ n \in imp.rows
           /\ ReplayQuietly(n) /\ UNCHANGED <<tip, link>> /\ mem'.done = mem.done \union {n}
           /\ inherited' = inherited \union (imp.k + 1)..(n - 1) /\ (imp.k + 1)..(n - 1) \subseteq Block
           /\ imp' \in Import /\ imp'.c = imp.c /\ imp'.rows = imp.rows /\ imp'.p = imp.p
           /\ imp'.k = n /\ imp'.t = n
<1>1. PICK n \in imp.rows :
        /\ n > imp.k /\ ReplayQuietly(n) /\ imp' = [imp EXCEPT !.k = n, !.t = n]
        /\ inherited' = inherited \union (imp.k + 1)..(n - 1)
  BY DEF ImportPeerBlock
<1>2. link = "importing" /\ imp.k < imp.p /\ UNCHANGED <<tip, link>>
  BY DEF ImportPeerBlock, node
<1>3. imp \in Import /\ imp.rows \subseteq (imp.c + 1)..imp.p /\ imp.p <= tip /\ tip \in Height
  BY <1>2 DEF L1, Typed, ImpType, NodeType, Importing
<1>4. /\ imp.c \in Nat /\ imp.k \in Nat /\ imp.p \in Nat /\ tip \in Nat /\ MaxBlock \in Nat
      /\ tip <= MaxBlock
  BY <1>3, PipelineBounds DEF Import, Height
<1>5. n \in Nat /\ imp.k < n /\ n <= imp.p /\ n <= tip /\ n \in 1..MaxBlock
  BY <1>1, <1>3, <1>4
<1>6. (imp.k + 1)..(n - 1) \subseteq 1..MaxBlock
  BY <1>4, <1>5
<1>7. n \in Block /\ n \in Height
  BY <1>4, <1>5 DEF Block, Height
<1>8. /\ imp' \in Import /\ imp'.c = imp.c /\ imp'.rows = imp.rows /\ imp'.p = imp.p
      /\ imp'.k = n /\ imp'.t = n
  BY <1>1, <1>3, <1>7 DEF Import
<1>9. mem'.done = mem.done \union {n}
  BY <1>1 DEF ReplayQuietly, Written, WriteSetOf
<1>. QED
  BY <1>1, <1>2, <1>5, <1>6, <1>7, <1>8, <1>9 DEF Block

-----------------------------------------------------------------------------
(* Types, phases, counters and flags hold initially ... *)
LEMMA InitL1 == Init => L1
<1>. SUFFICES ASSUME Init PROVE L1
  OBVIOUS
<1>1. PICK s \in 0..2, h \in 0..2, t \in Height :
        /\ s <= h /\ h <= t /\ head = h /\ tip = t /\ missed = (h + 1)..t
        /\ mem = Exact(h) /\ tables = [n |-> s, st |-> Exact(s)] /\ replayed = (s + 1)..h
  BY DEF Init
<1>2. MaxBlock \in Nat /\ MaxConns \in Nat /\ RawCap \in Nat /\ PreparedCap \in Nat /\ BufferMax \in Nat
  BY PipelineBounds
<1>3. s \in Height /\ h \in Height /\ (h + 1)..t \subseteq Block /\ (s + 1)..h \subseteq Block
  BY <1>1, <1>2 DEF Height, Block
<1>4. Exact(s) \in State /\ Exact(h) \in State
  BY <1>3, StateTypes
<1>5. NodeType /\ FlagType
  <2>1. NodeType
    BY <1>1, <1>2, <1>3 DEF Init, NodeType
  <2>2. FlagType
    BY DEF Init, FlagType, Link
  <2>. QED
    BY <2>1, <2>2
<1>6. StreamType /\ ChannelType
  BY <1>2 DEF Init, StreamType, ChannelType
<1>7. RecvType /\ DecType /\ AppType /\ CountType
  BY <1>2 DEF Init, RecvType, DecType, AppType, CountType, Off, Height
<1>8. MemType /\ TablesType
  BY <1>1, <1>3, <1>4 DEF MemType, TablesType
<1>9. ImpType /\ GhostType
  BY <1>1, <1>2, <1>3 DEF Init, ImpType, GhostType, Importing, NoImport, Import, Height
<1>10. Phases /\ Backlogs /\ FlagsBack
  BY DEF Init, Phases, Backlogs, FlagsBack, Running, Off
<1>. QED
  BY <1>5, <1>6, <1>7, <1>8, <1>9, <1>10 DEF L1, Typed

(* ... the node's height, the head and the connections ... *)
LEMMA NextNode == L1 /\ [Next]_vars => NodeType' /\ FlagType'
<1>. SUFFICES ASSUME L1, [Next]_vars PROVE NodeType' /\ FlagType'
  OBVIOUS
<1>1. MaxBlock \in Nat /\ MaxConns \in Nat
  BY PipelineBounds
<1>2. tip' \in Height
  <2>1. CASE UNCHANGED <<tip, missed>>
    BY <2>1 DEF L1, Typed, NodeType
  <2>2. CASE Produce
    BY <1>1, <2>2 DEF L1, Typed, NodeType, Produce, Height
  <2>. QED
    BY <2>1, <2>2, Moves
<1>3. conns' \in 0..MaxConns
  <2>1. CASE UNCHANGED conns
    BY <2>1 DEF L1, Typed, NodeType
  <2>2. CASE HydrateAll
    BY <1>1, <2>2 DEF L1, Typed, NodeType, HydrateAll
  <2>. QED
    BY <2>1, <2>2, Moves
<1>4. head' \in Height
  <2>1. CASE UNCHANGED head
    BY <2>1 DEF L1, Typed, NodeType
  <2>2. CASE ImportLiveBlock
    <3>1. buffer \in Seq(Block) /\ buffer # <<>> /\ head' = Head(buffer)
      BY <2>2 DEF ImportLiveBlock, L1, Typed, StreamType
    <3>2. Head(buffer) \in Block
      BY <3>1, TailFacts
    <3>. QED
      BY <1>1, <3>1, <3>2 DEF Block, Height
  <2>3. CASE FinishCatchup
    BY <2>3 DEF FinishCatchup, L1, Typed, ImpType, Import
  <2>4. CASE ApplyBlock
    BY <2>4 DEF ApplyBlock, L1, Typed, AppType
  <2>. QED
    BY <2>1, <2>2, <2>3, <2>4, Moves
<1>5. link' \in Link /\ cancelled' \in BOOLEAN /\ torn' \in BOOLEAN
  <2>1. link' \in Link
    BY Moves, Drops DEF L1, Typed, FlagType, Link, HydrateAll, Subscribe, GoLive, StartCatchup,
       FinishCatchup, ImportSnapshot, Disconnected, TaskStops, SaveAtShutdown, Downloaded
  <2>2. cancelled' \in BOOLEAN
    BY Moves DEF L1, Typed, FlagType, Cancel
  <2>3. torn' \in BOOLEAN
    BY Moves DEF L1, Typed, FlagType, ImportSnapshotFails, ImportFails, TaskStops
  <2>. QED
    BY <2>1, <2>2, <2>3
<1>6. wsEnd' \in {"open", "error", "closed"}
  BY Moves, Drops DEF L1, Typed, FlagType, StreamEnds, Subscribe, Disconnected
<1>7. connected' \in BOOLEAN /\ catching_up' \in BOOLEAN /\ secondary' \in BOOLEAN
      /\ epoch_ckpt' \in BOOLEAN
  BY Moves, Drops DEF L1, Typed, FlagType, Disconnected, Subscribe, StartCatchup, FinishCatchup,
     ApplyTake
<1>. QED
  BY <1>2, <1>3, <1>4, <1>5, <1>6, <1>7 DEF NodeType, FlagType

(* ... the subscription and the catch-up's buffer ... *)
LEMMA NextStream == L1 /\ [Next]_vars => StreamType'
<1>. SUFFICES ASSUME L1, [Next]_vars PROVE StreamType'
  OBVIOUS
<1>1. MaxBlock \in Nat /\ BufferMax \in Nat \ {0}
  BY PipelineBounds
<1>2. ws \in Seq(Block) /\ buffer \in Seq(Block) /\ Len(buffer) <= BufferMax /\ tip \in Height
  BY DEF L1, Typed, StreamType, NodeType
<1>3. <<>> \in Seq(Block) /\ Len(<<>>) = 0
  OBVIOUS
<1>4. ws' \in Seq(Block)
  <2>1. CASE UNCHANGED ws
    BY <1>2, <2>1
  <2>2. CASE Produce
    <3>1. tip + 1 \in Block
      BY <1>1, <1>2, <2>2 DEF Produce, Height, Block
    <3>. QED
      BY <1>2, <2>2, <3>1, AppendFacts DEF Produce
  <2>3. CASE Subscribe \/ Drop
    BY <1>3, <2>3, Drops DEF Subscribe, Disconnected
  <2>4. CASE BufferBlock \/ ReceiveBlock
    BY <1>2, <2>4, TailFacts DEF BufferBlock, ReceiveBlock
  <2>. QED
    BY <2>1, <2>2, <2>3, <2>4, Moves
<1>5. buffer' \in Seq(Block) /\ Len(buffer') <= BufferMax
  <2>1. CASE UNCHANGED buffer
    BY <1>2, <2>1
  <2>2. CASE Drop
    BY <1>1, <1>3, <2>2, Drops DEF Disconnected
  <2>3. CASE SkipBuffered \/ ImportLiveBlock
    <3>1. buffer # <<>> /\ buffer' = Tail(buffer)
      BY <2>3 DEF SkipBuffered, ImportLiveBlock
    <3>2. Tail(buffer) \in Seq(Block) /\ Len(buffer) \in Nat /\ Len(Tail(buffer)) = Len(buffer) - 1
      BY <1>2, <3>1, TailFacts
    <3>. QED
      BY <1>1, <1>2, <3>1, <3>2
  <2>4. CASE BufferBlock
    <3>1. ws # <<>> /\ Head(ws) \in Block
      BY <1>2, <2>4, TailFacts DEF BufferBlock
    <3>2. CASE Len(buffer) >= BufferMax
      <4>1. Len(buffer) \in Nat /\ buffer # <<>>
        BY <1>1, <1>2, <3>2, SequenceFacts
      <4>2. Tail(buffer) \in Seq(Block) /\ Len(Tail(buffer)) = Len(buffer) - 1
        BY <1>2, <4>1, TailFacts
      <4>3. buffer' = Append(Tail(buffer), Head(ws))
        BY <2>4, <3>2 DEF BufferBlock
      <4>4. buffer' \in Seq(Block) /\ Len(buffer') = Len(Tail(buffer)) + 1
        BY <3>1, <4>2, <4>3, AppendFacts
      <4>. QED
        BY <1>1, <1>2, <4>1, <4>2, <4>4
    <3>3. CASE ~ (Len(buffer) >= BufferMax)
      <4>1. buffer' = Append(buffer, Head(ws))
        BY <2>4, <3>3 DEF BufferBlock
      <4>2. buffer' \in Seq(Block) /\ Len(buffer') = Len(buffer) + 1 /\ Len(buffer) \in Nat
        BY <1>2, <3>1, <4>1, AppendFacts
      <4>. QED
        BY <1>1, <3>3, <4>2
    <3>. QED
      BY <3>2, <3>3
  <2>. QED
    BY <2>1, <2>2, <2>3, <2>4, Moves
<1>. QED
  BY <1>4, <1>5 DEF StreamType

(* ... what the workers hold ... *)
LEMMA NextWorkers == L1 /\ [Next]_vars => RecvType' /\ DecType' /\ AppType'
<1>. SUFFICES ASSUME L1, [Next]_vars PROVE RecvType' /\ DecType' /\ AppType'
  OBVIOUS
<1>1. MaxBlock \in Nat /\ Block \subseteq Height /\ 0 \in Height
  BY PipelineBounds DEF Block, Height
<1>2. RecvType'
  <2>1. CASE UNCHANGED recv
    BY <2>1 DEF L1, Typed, RecvType
  <2>2. CASE GoLive \/ FinishCatchup \/ PipelineEnds \/ SendRaw \/ ReceiveEnds
    <3>1. recv' \in {Idle, Off, Ended}
      BY <2>2 DEF GoLive, FinishCatchup, StartPipeline, PipelineEnds, SendRaw, ReceiveEnds
    <3>. QED
      BY <1>1, <3>1 DEF RecvType, Idle, Off, Ended
  <2>3. CASE ReceiveBlock
    <3>1. recv' = [pc |-> "send", n |-> Head(ws)] /\ Head(ws) \in Block
      BY <2>3, TailFacts DEF ReceiveBlock, L1, Typed, StreamType
    <3>. QED
      BY <1>1, <3>1 DEF RecvType
  <2>. QED
    BY <2>1, <2>2, <2>3, Moves
<1>3. DecType'
  <2>1. CASE UNCHANGED dec
    BY <2>1 DEF L1, Typed, DecType
  <2>2. CASE GoLive \/ FinishCatchup \/ PipelineEnds \/ SendPrepared \/ DecodeEnds
    <3>1. dec' \in {Idle, Off, Ended}
      BY <2>2 DEF GoLive, FinishCatchup, StartPipeline, PipelineEnds, SendPrepared, DecodeEnds
    <3>. QED
      BY <1>1, <3>1 DEF DecType, Idle, Off, Ended
  <2>3. CASE DecodeTake
    <3>1. dec' = [pc |-> "got", n |-> Head(raw)] /\ Head(raw) \in Block
      BY <2>3, TailFacts DEF DecodeTake, L1, Typed, ChannelType
    <3>. QED
      BY <1>1, <3>1 DEF DecType
  <2>4. CASE PrepareBlock
    <3>1. dec' = [pc |-> "send", n |-> dec.n, mapped |-> Mapped(dec.n)] /\ dec.n \in Block
      BY <2>4 DEF PrepareBlock, L1, Typed, DecType
    <3>2. Mapped(dec.n) \in BOOLEAN
      BY DEF Mapped
    <3>. QED
      BY <1>1, <3>1, <3>2 DEF DecType
  <2>. QED
    BY <2>1, <2>2, <2>3, <2>4, Moves
<1>4. AppType'
  <2>1. CASE UNCHANGED app
    BY <2>1 DEF L1, Typed, AppType
  <2>2. CASE GoLive \/ FinishCatchup \/ PipelineEnds \/ EnqueueWrite \/ ApplyEnds
    <3>1. app' \in {Idle, Off, Ended}
      BY <2>2 DEF GoLive, FinishCatchup, StartPipeline, PipelineEnds, EnqueueWrite, ApplyEnds
    <3>. QED
      BY <1>1, <3>1 DEF AppType, Idle, Off, Ended
  <2>3. CASE ApplyTake
    <3>1. Head(prepared) \in Job
      BY <2>3, TailFacts DEF ApplyTake, L1, Typed, ChannelType
    <3>2. IsQuiet(apply_backlog) \in BOOLEAN
      BY DEF IsQuiet, L1, Typed, FlagType
    <3>3. app' = [pc |-> "got", n |-> Head(prepared).n, mapped |-> Head(prepared).mapped,
                  quiet |-> IsQuiet(apply_backlog)]
      BY <2>3 DEF ApplyTake
    <3>. QED
      BY <1>1, <3>1, <3>2, <3>3 DEF AppType, Job
  <2>4. CASE ApplyBlock
    <3>1. app.n \in Block /\ app.mapped \in BOOLEAN /\ app.quiet \in BOOLEAN
      BY <2>4 DEF ApplyBlock, L1, Typed, AppType
    <3>2. app' = [pc |-> "enqueue", n |-> app.n, ws |-> WriteSetOf(app.n, app.mapped, app.quiet)]
      BY <2>4 DEF ApplyBlock
    <3>3. /\ WriteSetOf(app.n, app.mapped, app.quiet) \in WriteSet
          /\ WriteSetOf(app.n, app.mapped, app.quiet).n = app.n
      BY <3>1, WriteSetType DEF L1
    <3>. QED
      BY <1>1, <3>1, <3>2, <3>3 DEF AppType
  <2>. QED
    BY <2>1, <2>2, <2>3, <2>4, Moves
<1>. QED
  BY <1>2, <1>3, <1>4

(* ... the channels between them ... *)
LEMMA NextChannels == L1 /\ [Next]_vars => ChannelType'
<1>. SUFFICES ASSUME L1, [Next]_vars PROVE ChannelType'
  OBVIOUS
<1>1. RawCap \in Nat /\ PreparedCap \in Nat
  BY PipelineBounds
<1>2. /\ raw \in Seq(Block) /\ Len(raw) <= RawCap
      /\ prepared \in Seq(Job) /\ Len(prepared) <= PreparedCap
  BY DEF L1, Typed, ChannelType
<1>3. raw' \in Seq(Block) /\ Len(raw') <= RawCap
  <2>1. CASE UNCHANGED raw
    BY <1>2, <2>1
  <2>2. CASE GoLive \/ FinishCatchup \/ DecodeEnds
    <3>1. raw' = <<>>
      BY <2>2 DEF GoLive, FinishCatchup, StartPipeline, DecodeEnds
    <3>. QED
      BY <1>1, <3>1
  <2>3. CASE SendRaw
    <3>1. raw' = Append(raw, recv.n) /\ recv.n \in Block /\ Len(raw) < RawCap
      BY <2>3 DEF SendRaw, L1, Typed, RecvType
    <3>2. Append(raw, recv.n) \in Seq(Block) /\ Len(Append(raw, recv.n)) = Len(raw) + 1 /\ Len(raw) \in Nat
      BY <1>2, <3>1, AppendFacts
    <3>. QED
      BY <1>1, <3>1, <3>2
  <2>4. CASE DecodeTake
    <3>1. raw # <<>> /\ raw' = Tail(raw)
      BY <2>4 DEF DecodeTake
    <3>2. Tail(raw) \in Seq(Block) /\ Len(raw) \in Nat /\ Len(Tail(raw)) = Len(raw) - 1
      BY <1>2, <3>1, TailFacts
    <3>. QED
      BY <1>1, <1>2, <3>1, <3>2
  <2>. QED
    BY <2>1, <2>2, <2>3, <2>4, Moves
<1>4. prepared' \in Seq(Job) /\ Len(prepared') <= PreparedCap
  <2>1. CASE UNCHANGED prepared
    BY <1>2, <2>1
  <2>2. CASE GoLive \/ FinishCatchup \/ ApplyEnds
    <3>1. prepared' = <<>>
      BY <2>2 DEF GoLive, FinishCatchup, StartPipeline, ApplyEnds
    <3>. QED
      BY <1>1, <3>1
  <2>3. CASE SendPrepared
    <3>1. /\ prepared' = Append(prepared, [n |-> dec.n, mapped |-> dec.mapped])
          /\ [n |-> dec.n, mapped |-> dec.mapped] \in Job /\ Len(prepared) < PreparedCap
      BY <2>3 DEF SendPrepared, L1, Typed, DecType, Job
    <3>2. prepared' \in Seq(Job) /\ Len(prepared') = Len(prepared) + 1 /\ Len(prepared) \in Nat
      BY <1>2, <3>1, AppendFacts
    <3>. QED
      BY <1>1, <3>1, <3>2
  <2>4. CASE ApplyTake
    <3>1. prepared # <<>> /\ prepared' = Tail(prepared)
      BY <2>4 DEF ApplyTake
    <3>2. Tail(prepared) \in Seq(Job) /\ Len(prepared) \in Nat /\ Len(Tail(prepared)) = Len(prepared) - 1
      BY <1>2, <3>1, TailFacts
    <3>. QED
      BY <1>1, <1>2, <3>1, <3>2
  <2>. QED
    BY <2>1, <2>2, <2>3, <2>4, Moves
<1>. QED
  BY <1>3, <1>4 DEF ChannelType

(* ... the phases of run_once and of the workers ... *)
LEMMA NextPhases == L1 /\ [Next]_vars => Phases'
<1>. SUFFICES ASSUME L1, [Next]_vars PROVE Phases'
  OBVIOUS
<1>. USE DEF L1, Phases, Running
<1>1. CASE GoLive \/ FinishCatchup
  BY <1>1 DEF GoLive, FinishCatchup, StartPipeline, Idle
<1>2. CASE PipelineEnds
  BY <1>2 DEF PipelineEnds, Disconnected, Off
<1>3. CASE UNCHANGED <<dec, app, link>> /\ (ReceiveBlock \/ SendRaw \/ ReceiveEnds)
  BY <1>3 DEF ReceiveBlock, SendRaw, ReceiveEnds, Idle, Ended
<1>4. CASE UNCHANGED <<recv, app, link>> /\ (DecodeTake \/ PrepareBlock \/ SendPrepared \/ DecodeEnds)
  BY <1>4 DEF DecodeTake, PrepareBlock, SendPrepared, DecodeEnds, Idle, Ended
<1>5. CASE UNCHANGED <<recv, dec, link>> /\ (ApplyTake \/ ApplyBlock \/ EnqueueWrite \/ ApplyEnds)
  BY <1>5 DEF ApplyTake, ApplyBlock, EnqueueWrite, ApplyEnds, Idle, Ended
<1>6. CASE UNCHANGED <<recv, dec, app>>
           /\ (UNCHANGED link \/ HydrateAll \/ Subscribe \/ StartCatchup \/ ImportSnapshot
               \/ SubscribeFails \/ CatchupFails \/ ImportSnapshotFails \/ ImportFails
               \/ \E c, p \in Block : Downloaded(c, p))
  BY <1>6 DEF HydrateAll, Subscribe, StartCatchup, ImportSnapshot, SubscribeFails, CatchupFails,
     ImportSnapshotFails, ImportFails, Downloaded, Disconnected
<1>7. CASE UNCHANGED <<recv, dec, app>> /\ (TaskStops \/ SaveAtShutdown)
  BY <1>7 DEF TaskStops, SaveAtShutdown
<1>8. /\ ReceiveBlock \/ SendRaw \/ ReceiveEnds => UNCHANGED <<dec, app, link>>
      /\ DecodeTake \/ PrepareBlock \/ SendPrepared \/ DecodeEnds => UNCHANGED <<recv, app, link>>
      /\ ApplyTake \/ ApplyBlock \/ EnqueueWrite \/ ApplyEnds => UNCHANGED <<recv, dec, link>>
  BY DEF ReceiveBlock, SendRaw, ReceiveEnds, DecodeTake, PrepareBlock, SendPrepared, DecodeEnds,
     ApplyTake, ApplyBlock, EnqueueWrite, ApplyEnds
<1>9. \/ GoLive \/ FinishCatchup \/ PipelineEnds \/ ReceiveBlock \/ SendRaw \/ ReceiveEnds
      \/ DecodeTake \/ PrepareBlock \/ SendPrepared \/ DecodeEnds
      \/ ApplyTake \/ ApplyBlock \/ EnqueueWrite \/ ApplyEnds
      \/ UNCHANGED <<recv, dec, app>>
  BY Moves
<1>10. \/ UNCHANGED link \/ HydrateAll \/ Subscribe \/ GoLive \/ StartCatchup \/ FinishCatchup
       \/ ImportSnapshot \/ Drop \/ TaskStops \/ SaveAtShutdown
       \/ \E c, p \in Block : Downloaded(c, p)
  BY Moves
<1>. QED
  BY <1>1, <1>2, <1>3, <1>4, <1>5, <1>6, <1>7, <1>8, <1>9, <1>10 DEF Drop

(* ... the counters ... *)
LEMMA NextBacklogs == L1 /\ [Next]_vars => CountType' /\ Backlogs'
<1>. SUFFICES ASSUME L1, [Next]_vars PROVE CountType' /\ Backlogs'
  OBVIOUS
<1>1. /\ raw \in Seq(Block) /\ prepared \in Seq(Job)
      /\ Len(raw) \in Nat /\ Len(prepared) \in Nat
      /\ decode_backlog \in Nat /\ apply_backlog \in Nat
  BY SequenceFacts DEF L1, Typed, ChannelType, CountType
<1>2. Running => /\ decode_backlog >= (IF recv.pc = "send" THEN 1 ELSE 0)
                 /\ dec.pc # "done" => decode_backlog = Len(raw) + (IF recv.pc = "send" THEN 1 ELSE 0)
                 /\ apply_backlog >= (IF dec.pc = "send" THEN 1 ELSE 0)
                 /\ app.pc # "done" => apply_backlog = Len(prepared) + (IF dec.pc = "send" THEN 1 ELSE 0)
  BY DEF L1, Backlogs
<1>. USE DEF CountType, Backlogs, Running, Idle, Ended, Off
<1>3. CASE GoLive \/ FinishCatchup
  <2>1. raw' = <<>> /\ prepared' = <<>> /\ decode_backlog' = 0 /\ apply_backlog' = 0
        /\ recv' = Idle /\ dec' = Idle /\ app' = Idle
    BY <1>3 DEF GoLive, FinishCatchup, StartPipeline
  <2>2. Len(raw') = 0 /\ Len(prepared') = 0
    BY <2>1
  <2>. QED
    BY <2>1, <2>2
<1>4. CASE PipelineEnds
  BY <1>1, <1>4 DEF PipelineEnds
<1>5. CASE ReceiveBlock
  <2>1. recv.pc = "idle" /\ recv'.pc = "send" /\ decode_backlog' = decode_backlog + 1
        /\ UNCHANGED <<raw, dec, prepared, app, apply_backlog>>
    BY <1>5 DEF ReceiveBlock
  <2>. QED
    BY <1>1, <1>2, <2>1
<1>6. CASE SendRaw
  <2>1. recv.n \in Block /\ raw' = Append(raw, recv.n)
    BY <1>6 DEF SendRaw, L1, Typed, RecvType
  <2>2. Len(raw') = Len(raw) + 1
    BY <1>1, <2>1, AppendFacts
  <2>. QED
    BY <1>1, <1>2, <1>6, <2>2 DEF SendRaw
<1>7. CASE ReceiveEnds
  BY <1>1, <1>2, <1>7 DEF ReceiveEnds
<1>8. CASE DecodeTake
  <2>1. Running
    BY <1>8 DEF DecodeTake, L1, Phases
  <2>2. Len(raw') = Len(raw) - 1 /\ Len(raw) # 0
    BY <1>1, <1>8, TailFacts DEF DecodeTake
  <2>3. dec.pc = "idle" /\ dec'.pc = "got" /\ decode_backlog' = decode_backlog - 1
        /\ UNCHANGED <<recv, prepared, app, apply_backlog>>
    BY <1>8 DEF DecodeTake
  <2>. QED
    BY <1>1, <1>2, <2>1, <2>2, <2>3
<1>9. CASE PrepareBlock
  BY <1>1, <1>2, <1>9 DEF PrepareBlock
<1>10. CASE SendPrepared
  <2>1. /\ [n |-> dec.n, mapped |-> dec.mapped] \in Job
        /\ prepared' = Append(prepared, [n |-> dec.n, mapped |-> dec.mapped])
    BY <1>10 DEF SendPrepared, L1, Typed, DecType, Job
  <2>2. Len(prepared') = Len(prepared) + 1
    BY <1>1, <2>1, AppendFacts
  <2>. QED
    BY <1>1, <1>2, <1>10, <2>2 DEF SendPrepared
<1>11. CASE DecodeEnds
  <2>1. Running
    BY <1>11 DEF DecodeEnds, L1, Phases
  <2>. QED
    BY <1>1, <1>2, <1>11, <2>1 DEF DecodeEnds
<1>12. CASE ApplyTake
  <2>1. Running
    BY <1>12 DEF ApplyTake, L1, Phases
  <2>2. Len(prepared') = Len(prepared) - 1 /\ Len(prepared) # 0
    BY <1>1, <1>12, TailFacts DEF ApplyTake
  <2>3. app.pc = "idle" /\ app'.pc = "got" /\ apply_backlog' = apply_backlog - 1
        /\ UNCHANGED <<recv, raw, dec, decode_backlog>>
    BY <1>12 DEF ApplyTake
  <2>. QED
    BY <1>1, <1>2, <2>1, <2>2, <2>3
<1>13. CASE ApplyBlock
  <2>1. app.pc = "got" /\ app'.pc = "enqueue"
        /\ UNCHANGED <<recv, raw, dec, prepared, decode_backlog, apply_backlog>>
    BY <1>13 DEF ApplyBlock
  <2>. QED
    BY <1>1, <1>2, <2>1
<1>14. CASE EnqueueWrite
  BY <1>1, <1>2, <1>14 DEF EnqueueWrite
<1>15. CASE ApplyEnds
  BY <1>1, <1>2, <1>15 DEF ApplyEnds
<1>16. CASE UNCHANGED <<recv, raw, dec, prepared, app, decode_backlog, apply_backlog>>
  BY <1>1, <1>2, <1>16
<1>. QED
  BY <1>3, <1>4, <1>5, <1>6, <1>7, <1>8, <1>9, <1>10, <1>11, <1>12, <1>13, <1>14, <1>15, <1>16, Moves

(* ... the index and its tables ... *)
LEMMA NextIndex == L1 /\ [Next]_vars => MemType' /\ TablesType'
<1>. SUFFICES ASSUME L1, [Next]_vars PROVE MemType' /\ TablesType'
  OBVIOUS
<1>1. mem \in State /\ tables.n \in Height /\ tables.st \in State
      /\ tables = [n |-> tables.n, st |-> tables.st] /\ tip \in Height /\ head \in Height
  BY DEF L1, Typed, MemType, TablesType, NodeType
<1>2. ASSUME NEW n \in Block, NEW m \in BOOLEAN, NEW q \in BOOLEAN
      PROVE  Written(mem, WriteSetOf(n, m, q)) \in State
  <2>1. WriteSetOf(n, m, q) \in WriteSet /\ WriteSetOf(n, m, q).n = n
    BY WriteSetType DEF L1
  <2>. QED
    BY <1>1, <2>1, StateTypes
<1>3. ASSUME NEW n \in Block PROVE Written(mem, WriteSetOf(n, Mapped(n), TRUE)) \in State
  <2>1. Mapped(n) \in BOOLEAN
    BY DEF Mapped
  <2>. QED
    BY <1>2, <2>1
<1>4. imp.c \in Height /\ imp.t \in Height
  BY DEF L1, Typed, ImpType, Import
<1>5. mem' \in State
  <2>1. CASE UNCHANGED mem
    BY <1>1, <2>1
  <2>2. CASE HydrateAll
    <3>1. OrdersAt(tip) \subseteq Block
      BY <1>1, StateTypes
    <3>2. [mem EXCEPT !.book = OrdersAt(tip)] \in State
      BY <1>1, <3>1 DEF State
    <3>. QED
      BY <1>1, <2>2, <3>2 DEF HydrateAll
  <2>3. CASE ImportSnapshot \/ ImportSnapshotFails
    BY <2>3, Imports
  <2>4. CASE ImportPeerBlock
    BY <1>3, <2>4, NextRow DEF ReplayQuietly
  <2>5. CASE ImportLiveBlock
    <3>1. Head(buffer) \in Block
      BY <2>5, TailFacts DEF ImportLiveBlock, L1, Typed, StreamType
    <3>. QED
      BY <1>3, <2>5, <3>1 DEF ImportLiveBlock, ReplayQuietly
  <2>6. CASE ApplyBlock
    <3>1. app.n \in Block /\ app.mapped \in BOOLEAN /\ app.quiet \in BOOLEAN
      BY <2>6 DEF ApplyBlock, L1, Typed, AppType
    <3>2. mem' = Written(mem, WriteSetOf(app.n, app.mapped, app.quiet))
      BY <2>6 DEF ApplyBlock
    <3>. QED
      BY <1>2, <3>1, <3>2
  <2>. QED
    BY <2>1, <2>2, <2>3, <2>4, <2>5, <2>6, Moves
<1>6. TablesType'
  <2>1. CASE UNCHANGED tables
    BY <1>1, <2>1 DEF TablesType
  <2>2. CASE ImportSnapshot
    <3>1. mem' \in State /\ tables' = [n |-> imp.c, st |-> mem']
      BY <2>2, Imports
    <3>. QED
      BY <1>4, <3>1 DEF TablesType
  <2>3. CASE FinishCatchup
    BY <1>1, <1>4, <2>3 DEF FinishCatchup, TablesType
  <2>4. CASE EnqueueWrite
    <3>1. app.ws \in WriteSet /\ app.ws.n \in Block /\ app.n \in Height
      BY <2>4 DEF EnqueueWrite, L1, Typed, AppType
    <3>2. Written(tables.st, app.ws) \in State
      BY <1>1, <3>1, StateTypes
    <3>. QED
      BY <2>4, <3>1, <3>2 DEF EnqueueWrite, TablesType
  <2>5. CASE SaveAtShutdown
    BY <1>1, <2>5 DEF SaveAtShutdown, TablesType
  <2>. QED
    BY <2>1, <2>2, <2>3, <2>4, <2>5, Moves
<1>. QED
  BY <1>5, <1>6 DEF MemType

(* ... the progress of an import ... *)
LEMMA NextImport == L1 /\ [Next]_vars => ImpType'
<1>. SUFFICES ASSUME L1, [Next]_vars PROVE ImpType'
  OBVIOUS
<1>1. MaxBlock \in Nat /\ tip \in Nat /\ Block \subseteq Height /\ 0 \in Height
  BY PipelineBounds DEF L1, Typed, NodeType, Block, Height
<1>2. /\ imp \in Import
      /\ Importing => imp.c \in Block /\ imp.c <= imp.k /\ imp.k <= imp.p /\ imp.p <= tip
                      /\ imp.t \in Block /\ imp.rows \subseteq (imp.c + 1)..imp.p
  BY DEF L1, Typed, ImpType
<1>3. imp.c \in Nat /\ imp.k \in Nat /\ imp.p \in Nat /\ imp.t \in Nat
  BY <1>1, <1>2 DEF Import, Height
<1>4. ASSUME UNCHANGED <<imp, tip>>, Importing' => Importing PROVE ImpType'
  BY <1>2, <1>4 DEF ImpType
<1>5. CASE Produce
  <2>1. tip' = tip + 1 /\ UNCHANGED <<imp, link>>
    BY <1>5 DEF Produce, catchup
  <2>2. Importing' = Importing
    BY <2>1 DEF Importing
  <2>. QED
    BY <1>1, <1>2, <1>3, <2>1, <2>2 DEF ImpType
<1>6. CASE Drop \/ FinishCatchup
  <2>1. imp' = NoImport /\ ~ Importing'
    BY <1>6, Drops DEF Disconnected, FinishCatchup, Importing
  <2>2. NoImport \in Import
    BY <1>1 DEF NoImport, Import
  <2>. QED
    BY <2>1, <2>2 DEF ImpType
<1>7. CASE \E c, p \in Block : Downloaded(c, p)
  <2>1. PICK c \in Block, p \in Block : Downloaded(c, p)
    BY <1>7
  <2>2. PICK rows \in SUBSET Block :
          /\ imp' = [c |-> c, rows |-> rows, k |-> c, p |-> p, t |-> c]
          /\ c <= p /\ p <= tip /\ rows \subseteq (c + 1)..p
    BY <2>1 DEF Downloaded, PeerServes
  <2>3. c \in Height /\ p \in Height /\ c \in Nat /\ tip' = tip
    BY <1>1, <2>1 DEF Block, Downloaded, node
  <2>4. imp' \in Import
    BY <2>2, <2>3 DEF Import
  <2>5. imp'.c = c /\ imp'.rows = rows /\ imp'.k = c /\ imp'.p = p /\ imp'.t = c
    BY <2>2
  <2>. QED
    BY <2>2, <2>3, <2>4, <2>5 DEF ImpType
<1>8. CASE ImportPeerBlock
  <2>1. PICK n \in Block :
          /\ link = "importing" /\ imp.k < n /\ n <= imp.p /\ UNCHANGED tip
          /\ imp' \in Import /\ imp'.c = imp.c /\ imp'.rows = imp.rows /\ imp'.p = imp.p
          /\ imp'.k = n /\ imp'.t = n
    BY <1>8, NextRow
  <2>2. Importing /\ n \in Nat
    BY <2>1 DEF Importing, Block
  <2>3. imp.c <= n
    BY <1>2, <1>3, <2>1, <2>2
  <2>. QED
    BY <1>2, <2>1, <2>2, <2>3 DEF ImpType
<1>9. CASE ImportLiveBlock
  <2>1. Importing /\ UNCHANGED tip /\ imp' = [imp EXCEPT !.t = Head(buffer)]
    BY <1>9 DEF ImportLiveBlock, Importing, node
  <2>2. Head(buffer) \in Block
    BY <1>9, TailFacts DEF ImportLiveBlock, L1, Typed, StreamType
  <2>3. /\ imp' \in Import /\ imp'.c = imp.c /\ imp'.rows = imp.rows /\ imp'.k = imp.k /\ imp'.p = imp.p
        /\ imp'.t = Head(buffer)
    BY <1>1, <1>2, <2>1, <2>2 DEF Import
  <2>. QED
    BY <1>2, <2>1, <2>2, <2>3 DEF ImpType
<1>10. CASE UNCHANGED <<imp, tip>> /\ ~ (\E c, p \in Block : Downloaded(c, p))
  <2>1. Importing' => Importing
    BY <1>10, Moves, Drops DEF Importing, HydrateAll, Subscribe, GoLive, StartCatchup, FinishCatchup,
       ImportSnapshot, Disconnected, TaskStops, SaveAtShutdown
  <2>. QED
    BY <1>4, <1>10, <2>1
<1>. QED
  BY <1>5, <1>6, <1>7, <1>8, <1>9, <1>10, Moves

(* ... the sets that record what happened to a block ... *)
LEMMA NextGhosts == L1 /\ [Next]_vars => GhostType'
<1>. SUFFICES ASSUME L1, [Next]_vars PROVE GhostType'
  OBVIOUS
<1>1. /\ MaxBlock \in Nat /\ tip \in Height /\ mem.done \subseteq Block
      /\ ws \in Seq(Block) /\ buffer \in Seq(Block)
      /\ missed \subseteq Block /\ dropped \subseteq Block /\ twice \subseteq Block
      /\ overlap \subseteq Block /\ ahead \subseteq Block
      /\ inherited \subseteq Block /\ replayed \subseteq Block
  BY PipelineBounds DEF L1, Typed, NodeType, GhostType, StreamType, MemType, State
<1>2. ToSet(ws) \subseteq Block /\ ToSet(buffer) \subseteq Block
  BY <1>1, ToSetFacts
<1>3. missed' \subseteq Block
  <2>1. CASE Produce
    <3>1. tip + 1 \in Block
      BY <1>1, <2>1 DEF Produce, Height, Block
    <3>. QED
      BY <1>1, <2>1, <3>1 DEF Produce
  <2>. QED
    BY <1>1, <2>1, Moves
<1>4. dropped' \subseteq Block
  <2>1. CASE Drop
    BY <1>1, <1>2, <2>1, Drops DEF Disconnected
  <2>2. CASE BufferBlock
    <3>1. Len(buffer) >= BufferMax => Head(buffer) \in Block
      <4>1. BufferMax \in Nat \ {0} /\ Len(buffer) \in Nat /\ (buffer = <<>> <=> Len(buffer) = 0)
        BY <1>1, PipelineBounds, SequenceFacts
      <4>2. Len(buffer) >= BufferMax => buffer # <<>>
        BY <4>1
      <4>. QED
        BY <1>1, <4>2, TailFacts
    <3>. QED
      BY <1>1, <2>2, <3>1 DEF BufferBlock
  <2>3. CASE ImportSnapshot
    BY <1>1, <2>3 DEF ImportSnapshot
  <2>. QED
    BY <1>1, <2>1, <2>2, <2>3, Moves
<1>5. overlap' \subseteq Block
  BY <1>1, <1>2, Moves DEF Downloaded
<1>6. twice' \subseteq Block /\ ahead' \subseteq Block
  <2>1. ASSUME NEW n \in Block, ReplayQuietly(n) PROVE twice' \subseteq Block /\ ahead' \subseteq Block
    BY <1>1, <2>1 DEF ReplayQuietly, Again
  <2>2. CASE ImportPeerBlock
    BY <2>1, <2>2, NextRow
  <2>3. CASE ImportLiveBlock
    <3>1. Head(buffer) \in Block
      BY <1>1, <2>3, TailFacts DEF ImportLiveBlock
    <3>. QED
      BY <2>1, <2>3, <3>1 DEF ImportLiveBlock
  <2>4. CASE ImportSnapshot
    BY <2>4 DEF ImportSnapshot
  <2>5. CASE ApplyBlock
    BY <1>1, <2>5 DEF ApplyBlock, Again, L1, Typed, AppType
  <2>6. CASE PrepareBlock
    BY <1>1, <2>6 DEF PrepareBlock, L1, Typed, DecType
  <2>7. CASE UNCHANGED <<twice, ahead>>
    BY <1>1, <2>7
  <2>. QED
    BY <2>2, <2>3, <2>4, <2>5, <2>6, <2>7, Moves
<1>7. inherited' \subseteq Block /\ replayed' \subseteq Block
  <2>1. ImportSnapshot \/ ImportSnapshotFails => inherited' \subseteq Block
    <3>1. imp.c \in Height /\ 1..imp.c \subseteq Block
      BY <1>1 DEF L1, Typed, ImpType, Import, Height, Block
    <3>2. \A st : Faults(st, imp.c) \subseteq 1..imp.c
      BY DEF Faults
    <3>. QED
      BY <1>1, <3>1, <3>2, Imports
  <2>2. ImportSnapshot \/ FinishCatchup \/ SaveAtShutdown => replayed' \subseteq Block
    BY <1>1 DEF ImportSnapshot, FinishCatchup, SaveAtShutdown
  <2>3. ImportPeerBlock => inherited' \subseteq Block
    BY <1>1, NextRow
  <2>. QED
    BY <1>1, <2>1, <2>2, <2>3, Moves
<1>. QED
  BY <1>3, <1>4, <1>5, <1>6, <1>7 DEF GhostType

(* ... the flags ... *)
LEMMA NextFlags == L1 /\ [Next]_vars => FlagsBack'
<1>. SUFFICES ASSUME L1, [Next]_vars PROVE FlagsBack'
  OBVIOUS
<1>1. /\ link \in {"down", "hydrated", "subscribed"} => secondary /\ epoch_ckpt
      /\ link \in {"down", "hydrated", "subscribed", "live"} => ~ catching_up
      /\ (link = "live" /\ app.pc # "done" /\ apply_backlog < QuietAt) => secondary
      /\ apply_backlog \in Nat /\ QuietAt \in Nat \ {0}
  BY PipelineBounds DEF L1, FlagsBack, Typed, CountType
<1>2. link' \in {"down", "hydrated", "subscribed"} => secondary' /\ epoch_ckpt'
  <2>1. CASE Drop
    BY <2>1, Drops DEF Disconnected
  <2>2. CASE HydrateAll \/ Subscribe
    BY <1>1, <2>2 DEF HydrateAll, Subscribe, flags
  <2>3. CASE GoLive \/ StartCatchup \/ FinishCatchup \/ ImportSnapshot \/ TaskStops \/ SaveAtShutdown
             \/ \E c, p \in Block : Downloaded(c, p)
    BY <2>3 DEF GoLive, StartCatchup, FinishCatchup, ImportSnapshot, TaskStops, SaveAtShutdown,
       Downloaded
  <2>4. CASE UNCHANGED link /\ UNCHANGED <<connected, catching_up, secondary, epoch_ckpt>>
    BY <1>1, <2>4
  <2>5. CASE UNCHANGED link /\ ApplyTake
    <3>1. link \in {"live", "stopped", "saved"}
      BY <2>5 DEF ApplyTake, L1, Phases, Running
    <3>. QED
      BY <2>5, <3>1
  <2>. QED
    BY <2>1, <2>2, <2>3, <2>4, <2>5, Moves
<1>3. link' \in {"down", "hydrated", "subscribed", "live"} => ~ catching_up'
  <2>1. CASE Drop
    BY <2>1, Drops DEF Disconnected
  <2>2. CASE HydrateAll \/ Subscribe \/ GoLive
    BY <1>1, <2>2 DEF HydrateAll, Subscribe, GoLive, flags
  <2>3. CASE StartCatchup \/ FinishCatchup \/ ImportSnapshot \/ TaskStops \/ SaveAtShutdown
             \/ \E c, p \in Block : Downloaded(c, p)
    BY <2>3 DEF StartCatchup, FinishCatchup, ImportSnapshot, TaskStops, SaveAtShutdown, Downloaded
  <2>4. CASE UNCHANGED link /\ (UNCHANGED <<connected, catching_up, secondary, epoch_ckpt>> \/ ApplyTake)
    BY <1>1, <2>4 DEF ApplyTake
  <2>. QED
    BY <2>1, <2>2, <2>3, <2>4, Moves
<1>4. (link' = "live" /\ app'.pc # "done" /\ apply_backlog' < QuietAt) => secondary'
  <2>. SUFFICES ASSUME link' = "live", app'.pc # "done", apply_backlog' < QuietAt PROVE secondary'
    OBVIOUS
  <2>1. CASE FinishCatchup
    BY <2>1 DEF FinishCatchup
  <2>2. CASE GoLive
    BY <1>1, <2>2 DEF GoLive, flags
  <2>3. CASE ApplyTake
    <3>1. link = "live" /\ ~ catching_up /\ apply_backlog - 1 < QuietAt
      BY <1>1, <2>3 DEF ApplyTake
    <3>2. ~ IsQuiet(apply_backlog)
      BY <1>1, <3>1 DEF IsQuiet
    <3>. QED
      BY <2>3, <3>2 DEF ApplyTake
  <2>4. CASE DecodeEnds
    <3>1. link = "live" /\ UNCHANGED <<app, secondary>>
      BY <2>4 DEF DecodeEnds, flags
    <3>2. CASE UNCHANGED apply_backlog
      BY <1>1, <3>1, <3>2
    <3>3. CASE app.pc = "done"
      BY <3>1, <3>3
    <3>. QED
      BY <2>4, <3>2, <3>3 DEF DecodeEnds
  <2>5. CASE PrepareBlock
    <3>1. UNCHANGED <<link, app, secondary>> /\ apply_backlog' = apply_backlog + 1
      BY <2>5 DEF PrepareBlock, flags
    <3>2. apply_backlog < QuietAt
      BY <1>1, <3>1
    <3>. QED
      BY <1>1, <3>1, <3>2
  <2>6. CASE UNCHANGED <<link, apply_backlog, secondary>> /\ app.pc # "done"
    BY <1>1, <2>6
  <2>7. ~ PipelineEnds /\ ~ ApplyEnds /\ ~ Drop
    BY Drops DEF PipelineEnds, ApplyEnds, Disconnected, Ended
  <2>8. ~ HydrateAll /\ ~ Subscribe /\ ~ StartCatchup /\ ~ ImportSnapshot /\ ~ TaskStops /\ ~ SaveAtShutdown
        /\ ~ (\E c, p \in Block : Downloaded(c, p))
    BY DEF HydrateAll, Subscribe, StartCatchup, ImportSnapshot, TaskStops, SaveAtShutdown, Downloaded
  <2>9. ApplyBlock \/ EnqueueWrite => app.pc # "done"
    BY DEF ApplyBlock, EnqueueWrite
  <2>10. ReceiveBlock \/ ReceiveEnds \/ DecodeTake => UNCHANGED apply_backlog
    BY DEF ReceiveBlock, ReceiveEnds, DecodeTake
  <2>11. GoLive \/ FinishCatchup \/ ApplyTake \/ UNCHANGED <<connected, catching_up, secondary, epoch_ckpt>>
    BY <2>7, <2>8, Moves
  <2>12. GoLive \/ FinishCatchup \/ UNCHANGED link
    BY <2>7, <2>8, Moves
  <2>13. GoLive \/ FinishCatchup \/ ApplyTake \/ app.pc # "done"
    BY <2>7, <2>9, Moves
  <2>14. GoLive \/ FinishCatchup \/ ApplyTake \/ PrepareBlock \/ DecodeEnds \/ UNCHANGED apply_backlog
    BY <2>10, Moves
  <2>. QED
    BY <2>1, <2>2, <2>3, <2>4, <2>5, <2>6, <2>11, <2>12, <2>13, <2>14
<1>. QED
  BY <1>2, <1>3, <1>4 DEF FlagsBack

(* ... and in every step. *)
LEMMA NextL1 == L1 /\ [Next]_vars => L1'
BY NextNode, NextStream, NextWorkers, NextChannels, NextPhases, NextBacklogs, NextIndex, NextImport,
   NextGhosts, NextFlags DEF L1, Typed

(* What the workers hold fits the channels, the counters of pipeline.rs are   *)
(* exact whatever ends first, and no connection leaves a flag behind, for     *)
(* every capacity, threshold and number of connections (WorkersInOrder).      *)
THEOREM WorkersCorrect == Spec => []WorkersInOrder
<1>1. L1 => WorkersInOrder
  <2>. SUFFICES ASSUME L1 PROVE WorkersInOrder
    OBVIOUS
  <2>1. \A i \in 1..Len(prepared) : prepared[i] \in [n : Block, mapped : BOOLEAN]
    BY SequenceFacts DEF L1, Typed, ChannelType, Job
  <2>2. tables \in [n : Height, st : State]
    BY DEF L1, Typed, TablesType
  <2>3. TypeOK
    BY <2>1, <2>2 DEF TypeOK, L1, Typed, NodeType, FlagType, StreamType, RecvType, DecType, AppType,
       ChannelType, CountType, MemType, ImpType, GhostType
  <2>4. BacklogExact
    BY DEF BacklogExact, L1, Phases, Backlogs
  <2>5. SecondaryBackOn
    BY DEF SecondaryBackOn, L1, FlagsBack
  <2>. QED
    BY <2>3, <2>4, <2>5 DEF WorkersInOrder
<1>. QED
  BY <1>1, InitL1, NextL1, PTL DEF Spec

-----------------------------------------------------------------------------
(* What the workers and a connection leave behind. *)

(* A worker that has ended, or does not run, leaves an empty channel; a worker *)
(* ends before the one that feeds it only at a shutdown.                       *)
Channels ==
  /\ dec.pc \in {"off", "done"} => raw = <<>>
  /\ app.pc \in {"off", "done"} => prepared = <<>>
  /\ (app.pc = "done" /\ dec.pc # "done") => cancelled
  /\ (dec.pc = "done" /\ recv.pc # "done") => cancelled

(* There is a subscription from Subscribe on, a buffer during a catch-up, and a *)
(* catch-up on the first connection, before any block was applied live.         *)
Subscription ==
  /\ link \in {"down", "hydrated"} => ws = <<>> /\ wsEnd # "open"
  /\ link \in {"down", "hydrated", "subscribed", "live"} \/ Running => buffer = <<>>
  /\ conns = 0 => link \in {"down", "stopped", "saved"}
  /\ link \in {"buffering", "snapshot", "importing"} => conns = 1
  /\ (conns = 0 \/ (conns = 1 /\ link \in {"hydrated", "subscribed", "buffering", "snapshot"}))
       => twice = {} /\ ~ Running

(* Nothing is left behind at the start ... *)
LEMMA InitLeft == Init => Channels /\ Subscription
BY DEF Init, Channels, Subscription, Running, Off

(* ... nor by the workers ... *)
LEMMA NextLeftInChannels == L1 /\ Channels /\ [Next]_vars => Channels'
<1>. SUFFICES ASSUME L1, Channels, [Next]_vars PROVE Channels'
  OBVIOUS
<1>. USE DEF Channels, Idle, Off, Ended
<1>1. /\ dec.pc \in {"off", "done"} => raw = <<>>
      /\ app.pc \in {"off", "done"} => prepared = <<>>
      /\ (app.pc = "done" /\ dec.pc # "done") => cancelled
      /\ (dec.pc = "done" /\ recv.pc # "done") => cancelled
      /\ dec.pc = "off" <=> app.pc = "off"
      /\ dec.pc = "off" <=> recv.pc = "off"
  BY DEF L1, Phases, Running
<1>2. CASE GoLive \/ FinishCatchup
  BY <1>2 DEF GoLive, FinishCatchup, StartPipeline
<1>3. CASE PipelineEnds
  BY <1>1, <1>3 DEF PipelineEnds, Disconnected
<1>4. CASE ReceiveBlock \/ SendRaw \/ ReceiveEnds
  BY <1>1, <1>4 DEF ReceiveBlock, SendRaw, ReceiveEnds
<1>5. CASE DecodeTake
  <2>1. dec.pc = "idle" /\ dec'.pc = "got" /\ UNCHANGED <<recv, prepared, app, cancelled>>
    BY <1>5 DEF DecodeTake
  <2>. QED
    BY <1>1, <2>1
<1>6. CASE PrepareBlock
  BY <1>1, <1>6 DEF PrepareBlock
<1>7. CASE SendPrepared
  BY <1>1, <1>7 DEF SendPrepared
<1>8. CASE DecodeEnds
  BY <1>1, <1>8 DEF DecodeEnds
<1>9. CASE ApplyTake
  BY <1>1, <1>9 DEF ApplyTake
<1>10. CASE ApplyBlock \/ EnqueueWrite
  BY <1>1, <1>10 DEF ApplyBlock, EnqueueWrite
<1>11. CASE ApplyEnds
  BY <1>1, <1>11 DEF ApplyEnds
<1>12. CASE Cancel
  BY <1>1, <1>12 DEF Cancel, workers
<1>13. CASE UNCHANGED <<recv, raw, dec, prepared, app, cancelled>>
  BY <1>1, <1>13
<1>. QED
  BY <1>2, <1>3, <1>4, <1>5, <1>6, <1>7, <1>8, <1>9, <1>10, <1>11, <1>12, <1>13, Moves

(* ... nor by a connection. *)
LEMMA NextLeftByConnection == L1 /\ Subscription /\ [Next]_vars => Subscription'
<1>. SUFFICES ASSUME L1, Subscription, [Next]_vars PROVE Subscription'
  OBVIOUS
<1>1. /\ link \in {"down", "hydrated"} => ws = <<>> /\ wsEnd # "open"
      /\ link \in {"down", "hydrated", "subscribed", "live"} \/ Running => buffer = <<>>
      /\ conns = 0 => link \in {"down", "stopped", "saved"}
      /\ link \in {"buffering", "snapshot", "importing"} => conns = 1
      /\ (conns = 0 \/ (conns = 1 /\ link \in {"hydrated", "subscribed", "buffering", "snapshot"}))
           => twice = {} /\ ~ Running
      /\ Running => link \in {"live", "stopped", "saved"}
      /\ link = "live" => Running
      /\ conns \in Nat /\ (recv.pc = "off" <=> app.pc = "off")
  BY PipelineBounds DEF Subscription, L1, Phases, Typed, NodeType, Running
<1>2. link' \in {"down", "hydrated"} => ws' = <<>> /\ wsEnd' # "open"
  <2>. SUFFICES ASSUME link' \in {"down", "hydrated"} PROVE ws' = <<>> /\ wsEnd' # "open"
    OBVIOUS
  <2>1. CASE Drop
    BY <2>1, Drops DEF Disconnected
  <2>2. CASE HydrateAll
    BY <1>1, <2>2 DEF HydrateAll, stream
  <2>3. CASE UNCHANGED link
    <3>1. ws = <<>> /\ wsEnd # "open" /\ ~ Running
      BY <1>1, <2>3
    <3>2. ~ Subscribe /\ ~ BufferBlock /\ ~ ReceiveBlock
      BY <2>3, <3>1 DEF Subscribe, BufferBlock, ReceiveBlock
    <3>3. ws' = ws \/ Drop
      BY <3>1, <3>2, Moves DEF Produce, Subscribed
    <3>4. wsEnd' = wsEnd \/ Drop
      BY <3>1, <3>2, Moves DEF StreamEnds, Subscribed
    <3>. QED
      BY <2>1, <3>1, <3>3, <3>4
  <2>. QED
    BY <2>1, <2>2, <2>3, Moves DEF Subscribe, GoLive, StartCatchup, FinishCatchup, ImportSnapshot,
       TaskStops, SaveAtShutdown, Downloaded
<1>3. Running' = Running \/ GoLive \/ FinishCatchup \/ PipelineEnds
  <2>1. ReceiveBlock \/ SendRaw \/ ReceiveEnds => Running' = Running
    BY DEF ReceiveBlock, SendRaw, ReceiveEnds, Running, Idle, Ended
  <2>. QED
    BY <2>1, Moves DEF Running
<1>4. link' \in {"down", "hydrated", "subscribed", "live"} \/ Running' => buffer' = <<>>
  <2>. SUFFICES ASSUME link' \in {"down", "hydrated", "subscribed", "live"} \/ Running'
                PROVE buffer' = <<>>
    OBVIOUS
  <2>1. CASE Drop
    BY <2>1, Drops DEF Disconnected
  <2>2. CASE FinishCatchup
    BY <2>2 DEF FinishCatchup
  <2>3. CASE HydrateAll \/ Subscribe \/ GoLive
    BY <1>1, <2>3 DEF HydrateAll, Subscribe, GoLive, catchup
  <2>4. CASE StartCatchup \/ ImportSnapshot \/ TaskStops \/ SaveAtShutdown
             \/ \E c, p \in Block : Downloaded(c, p)
    BY <1>1, <2>4 DEF StartCatchup, ImportSnapshot, TaskStops, SaveAtShutdown, Downloaded, catchup,
       workers, Running
  <2>5. CASE UNCHANGED link /\ ~ Drop /\ ~ GoLive /\ ~ FinishCatchup
    <3>1. buffer = <<>> /\ link \notin {"buffering", "snapshot", "importing"}
      BY <1>1, <1>3, <2>5 DEF Drop
    <3>. QED
      BY <2>5, <3>1, Moves DEF BufferBlock, SkipBuffered, ImportLiveBlock
  <2>. QED
    BY <2>1, <2>2, <2>3, <2>4, <2>5, Moves
<1>5. link' \in {"buffering", "snapshot", "importing"} => conns' = 1
  BY <1>1, Moves, Drops DEF HydrateAll, Subscribe, GoLive, StartCatchup, FinishCatchup,
     ImportSnapshot, Disconnected, TaskStops, SaveAtShutdown, Downloaded
<1>6. (conns' = 0 \/ (conns' = 1 /\ link' \in {"hydrated", "subscribed", "buffering", "snapshot"}))
        => twice' = {} /\ ~ Running'
  <2>. SUFFICES ASSUME conns' = 0 \/ (conns' = 1 /\ link' \in {"hydrated", "subscribed", "buffering", "snapshot"})
                PROVE twice' = {} /\ ~ Running'
    OBVIOUS
  <2>1. CASE HydrateAll
    <3>1. conns' = conns + 1 /\ UNCHANGED <<twice, recv>>
      BY <2>1 DEF HydrateAll, ghosts, workers
    <3>2. conns = 0
      BY <1>1, <3>1
    <3>. QED
      BY <1>1, <3>1, <3>2 DEF Running
  <2>2. CASE conns' = conns
    <3>1. CASE conns = 0
      <4>1. link \notin {"buffering", "snapshot", "importing", "live"} /\ app.pc = "off" /\ ~ Running
            /\ twice = {}
        BY <1>1, <3>1 DEF Running
      <4>2. ~ ImportSnapshot /\ ~ ImportPeerBlock /\ ~ ImportLiveBlock /\ ~ ApplyBlock /\ ~ FinishCatchup
        BY <4>1 DEF ImportSnapshot, ImportPeerBlock, ImportLiveBlock, ApplyBlock, FinishCatchup
      <4>3. twice' = {}
        BY <4>1, <4>2, Moves
      <4>4. ~ GoLive
        BY <1>1, <3>1 DEF GoLive
      <4>. QED
        BY <1>3, <4>1, <4>2, <4>3, <4>4 DEF PipelineEnds
    <3>2. CASE conns = 1 /\ link' \in {"hydrated", "subscribed", "buffering", "snapshot"}
      <4>1. link \in {"hydrated", "subscribed", "buffering", "snapshot"}
        <5>1. ~ HydrateAll
          BY <1>1, <2>2 DEF HydrateAll
        <5>. QED
          BY <3>2, <5>1, Moves, Drops DEF Subscribe, GoLive, StartCatchup, FinishCatchup,
             ImportSnapshot, Disconnected, TaskStops, SaveAtShutdown, Downloaded
      <4>2. twice = {} /\ ~ Running /\ app.pc = "off"
        BY <1>1, <3>2, <4>1 DEF Running
      <4>3. ~ ImportSnapshot /\ ~ ImportPeerBlock /\ ~ ImportLiveBlock /\ ~ ApplyBlock /\ ~ GoLive
            /\ ~ FinishCatchup
        BY <3>2, <4>1, <4>2 DEF ImportSnapshot, ImportPeerBlock, ImportLiveBlock, ApplyBlock, GoLive,
           FinishCatchup
      <4>4. twice' = {}
        BY <4>2, <4>3, Moves
      <4>. QED
        BY <1>3, <4>2, <4>3, <4>4 DEF PipelineEnds
    <3>. QED
      BY <1>1, <2>2, <3>1, <3>2
  <2>. QED
    BY <2>1, <2>2, Moves
<1>7. conns' = 0 => link' \in {"down", "stopped", "saved"}
  <2>. SUFFICES ASSUME conns' = 0 PROVE link' \in {"down", "stopped", "saved"}
    OBVIOUS
  <2>1. ~ HydrateAll
    BY <1>1 DEF HydrateAll
  <2>2. link \in {"down", "stopped", "saved"}
    BY <1>1, <2>1, Moves
  <2>. QED
    BY <2>1, <2>2, Moves, Drops DEF Subscribe, GoLive, StartCatchup, FinishCatchup,
       ImportSnapshot, Disconnected, TaskStops, SaveAtShutdown, Downloaded
<1>. QED
  BY <1>2, <1>4, <1>5, <1>6, <1>7 DEF Subscription

-----------------------------------------------------------------------------
(* The line of blocks between the node and the index. *)

Elements(s) == {s[i] : i \in 1..Len(s)}
Rising(s) == \A i, j \in 1..Len(s) : i < j => s[i] < s[j]
Below(A, B) == \A a \in A, b \in B : a < b
Numbers(jobs) == [i \in 1..Len(jobs) |-> jobs[i].n]

AtApply == IF app.pc = "got" THEN {app.n} ELSE {}
InPrepared == Elements(Numbers(prepared))
AtDecode == IF dec.pc \in {"got", "send"} THEN {dec.n} ELSE {}
InRaw == Elements(raw)
AtRecv == IF recv.pc = "send" THEN {recv.n} ELSE {}
InWs == Elements(ws)
InBuffer == Elements(buffer)

InPipeline == AtApply \union InPrepared \union AtDecode \union InRaw \union AtRecv
Waiting == InPipeline \union InWs \union InBuffer

(* A sequence of block numbers without its first, and with one more. *)
LEMMA ElementsFacts ==
  /\ Elements(<<>>) = {} /\ Rising(<<>>)
  /\ \A s \in Seq(Block) : Elements(s) \subseteq Block /\ Elements(s) = ToSet(s)
  /\ \A s \in Seq(Block) : s # <<>> =>
       /\ Elements(s) = {Head(s)} \union Elements(Tail(s))
       /\ Rising(s) => Rising(Tail(s)) /\ Below({Head(s)}, Elements(Tail(s)))
  /\ \A s \in Seq(Block), e \in Block :
       /\ Elements(Append(s, e)) = Elements(s) \union {e}
       /\ Rising(s) /\ Below(Elements(s), {e}) => Rising(Append(s, e))
<1>1. Elements(<<>>) = {} /\ Rising(<<>>)
  BY DEF Elements, Rising
<1>2. ASSUME NEW s \in Seq(Block) PROVE Elements(s) \subseteq Block /\ Elements(s) = ToSet(s)
  BY SequenceFacts, ToSetFacts DEF Elements
<1>3. ASSUME NEW s \in Seq(Block), s # <<>>
      PROVE  /\ Elements(s) = {Head(s)} \union Elements(Tail(s))
             /\ Rising(s) => Rising(Tail(s)) /\ Below({Head(s)}, Elements(Tail(s)))
  <2>1. /\ Len(s) \in Nat \ {0} /\ Head(s) = s[1] /\ Len(Tail(s)) = Len(s) - 1
        /\ \A i \in 1..Len(s) - 1 : Tail(s)[i] = s[i + 1]
    BY <1>3, TailFacts
  <2>2. \A i \in 1..Len(s) - 1 : i + 1 \in 1..Len(s)
    BY <2>1
  <2>3. \A i \in 1..Len(s) : i = 1 \/ i - 1 \in 1..Len(s) - 1
    BY <2>1
  <2>4. Elements(s) \subseteq {Head(s)} \union Elements(Tail(s))
    <3>1. ASSUME NEW i \in 1..Len(s), i # 1 PROVE s[i] \in Elements(Tail(s))
      <4>1. i - 1 \in 1..Len(s) - 1 /\ (i - 1) + 1 = i
        BY <2>1, <2>3, <3>1
      <4>2. Tail(s)[i - 1] = s[i]
        BY <2>1, <4>1
      <4>. QED
        BY <2>1, <4>1, <4>2 DEF Elements
    <3>. QED
      BY <2>1, <3>1 DEF Elements
  <2>5. {Head(s)} \union Elements(Tail(s)) \subseteq Elements(s)
    <3>1. 1 \in 1..Len(s)
      BY <2>1
    <3>. QED
      BY <2>1, <2>2, <3>1 DEF Elements
  <2>6. ASSUME Rising(s) PROVE Rising(Tail(s)) /\ Below({Head(s)}, Elements(Tail(s)))
    <3>1. ASSUME NEW i \in 1..Len(Tail(s)), NEW j \in 1..Len(Tail(s)), i < j
          PROVE  Tail(s)[i] < Tail(s)[j]
      <4>1. i + 1 \in 1..Len(s) /\ j + 1 \in 1..Len(s) /\ i + 1 < j + 1
        BY <2>1, <3>1
      <4>2. Tail(s)[i] = s[i + 1] /\ Tail(s)[j] = s[j + 1]
        BY <2>1
      <4>. QED
        BY <2>6, <4>1, <4>2 DEF Rising
    <3>2. ASSUME NEW j \in 1..Len(Tail(s)) PROVE s[1] < Tail(s)[j]
      <4>1. j + 1 \in 1..Len(s) /\ 1 \in 1..Len(s) /\ 1 < j + 1 /\ Tail(s)[j] = s[j + 1]
        BY <2>1
      <4>. QED
        BY <2>6, <4>1 DEF Rising
    <3>. QED
      BY <2>1, <3>1, <3>2 DEF Rising, Below, Elements
  <2>. QED
    BY <2>4, <2>5, <2>6
<1>4. ASSUME NEW s \in Seq(Block), NEW e \in Block
      PROVE  /\ Elements(Append(s, e)) = Elements(s) \union {e}
             /\ Rising(s) /\ Below(Elements(s), {e}) => Rising(Append(s, e))
  <2>. DEFINE t == Append(s, e)
  <2>1. /\ Len(s) \in Nat /\ Len(t) = Len(s) + 1
        /\ \A i \in 1..Len(s) : t[i] = s[i]
        /\ t[Len(s) + 1] = e
    BY AppendFacts
  <2>2. \A i \in 1..Len(t) : i \in 1..Len(s) \/ i = Len(s) + 1
    BY <2>1
  <2>3. Len(s) + 1 \in 1..Len(t) /\ \A i \in 1..Len(s) : i \in 1..Len(t)
    BY <2>1
  <2>. HIDE DEF t
  <2>4. Elements(t) \subseteq Elements(s) \union {e}
    BY <2>1, <2>2 DEF Elements
  <2>5. Elements(s) \union {e} \subseteq Elements(t)
    BY <2>1, <2>3 DEF Elements
  <2>6. ASSUME Rising(s), Below(Elements(s), {e}) PROVE Rising(t)
    <3>. SUFFICES ASSUME NEW i \in 1..Len(t), NEW j \in 1..Len(t), i < j PROVE t[i] < t[j]
      BY DEF Rising
    <3>1. i \in 1..Len(s)
      BY <2>1, <2>2
    <3>2. CASE j \in 1..Len(s)
      BY <2>1, <2>6, <3>1, <3>2 DEF Rising
    <3>3. CASE j = Len(s) + 1
      BY <2>1, <2>6, <3>1, <3>3 DEF Below, Elements
    <3>. QED
      BY <2>2, <3>2, <3>3
  <2>. QED
    BY <2>4, <2>5, <2>6 DEF t
<1>. QED
  BY <1>1, <1>2, <1>3, <1>4

(* The numbers of the prepared blocks. *)
LEMMA NumbersFacts ==
  ASSUME NEW s \in Seq(Job)
  PROVE  /\ Numbers(s) \in Seq(Block) /\ (Numbers(s) = <<>> <=> s = <<>>)
         /\ s # <<>> => /\ Numbers(Tail(s)) = Tail(Numbers(s))
                        /\ Head(Numbers(s)) = Head(s).n
         /\ \A e \in Job : Numbers(Append(s, e)) = Append(Numbers(s), e.n)
<1>1. Len(s) \in Nat /\ \A i \in 1..Len(s) : s[i] \in Job /\ s[i].n \in Block
  <2>1. Len(s) \in Nat /\ \A i \in 1..Len(s) : s[i] \in Job
    BY SequenceFacts
  <2>2. \A j \in Job : j.n \in Block
    BY DEF Job
  <2>. QED
    BY <2>1, <2>2
<1>2. Numbers(s) \in Seq(Block) /\ Len(Numbers(s)) = Len(s)
  BY <1>1 DEF Numbers
<1>3. Numbers(s) = <<>> <=> s = <<>>
  BY <1>1, <1>2, SequenceFacts
<1>4. ASSUME s # <<>> PROVE Numbers(Tail(s)) = Tail(Numbers(s)) /\ Head(Numbers(s)) = Head(s).n
  <2>1. /\ Len(s) \in Nat \ {0} /\ Head(s) = s[1] /\ Tail(s) \in Seq(Job) /\ Len(Tail(s)) = Len(s) - 1
        /\ \A i \in 1..Len(s) - 1 : Tail(s)[i] = s[i + 1]
    BY <1>4, TailFacts
  <2>2. \A i \in 1..Len(s) : Numbers(s)[i] = s[i].n
    BY DEF Numbers
  <2>3. /\ Head(Numbers(s)) = Numbers(s)[1]
        /\ Tail(Numbers(s)) \in Seq(Block) /\ Len(Tail(Numbers(s))) = Len(s) - 1
        /\ \A i \in 1..Len(s) - 1 : Tail(Numbers(s))[i] = Numbers(s)[i + 1]
    BY <1>2, <1>3, <1>4, TailFacts
  <2>4. \A i \in 1..Len(s) - 1 : i + 1 \in 1..Len(s)
    BY <2>1
  <2>5. 1 \in 1..Len(s)
    BY <2>1
  <2>6. Numbers(Tail(s)) = [i \in 1..Len(s) - 1 |-> s[i + 1].n]
    BY <2>1 DEF Numbers
  <2>7. Tail(Numbers(s)) = [i \in 1..Len(s) - 1 |-> s[i + 1].n]
    <3>1. Tail(Numbers(s)) = [i \in 1..Len(s) - 1 |-> Tail(Numbers(s))[i]]
      <4>. DEFINE u == Tail(Numbers(s))
      <4>1. u \in Seq(Block) /\ Len(u) = Len(s) - 1
        BY <2>3
      <4>. HIDE DEF u
      <4>2. u = [i \in 1..Len(u) |-> u[i]]
        BY <4>1
      <4>. QED
        BY <4>1, <4>2 DEF u
    <3>. QED
      BY <2>2, <2>3, <2>4, <3>1
  <2>. QED
    BY <2>1, <2>2, <2>3, <2>5, <2>6, <2>7
<1>5. ASSUME NEW e \in Job PROVE Numbers(Append(s, e)) = Append(Numbers(s), e.n)
  <2>. DEFINE t == Append(s, e)
              u == Append(Numbers(s), e.n)
  <2>1. /\ t \in Seq(Job) /\ Len(t) = Len(s) + 1
        /\ \A i \in 1..Len(s) : t[i] = s[i]
        /\ t[Len(s) + 1] = e
    BY AppendFacts
  <2>2. e.n \in Block
    BY DEF Job
  <2>3. /\ u \in Seq(Block) /\ Len(u) = Len(s) + 1
        /\ \A i \in 1..Len(s) : u[i] = Numbers(s)[i]
        /\ u[Len(s) + 1] = e.n
    BY <1>2, <2>2, AppendFacts
  <2>4. \A i \in 1..Len(s) + 1 : i \in 1..Len(s) \/ i = Len(s) + 1
    BY <1>1
  <2>. HIDE DEF t, u
  <2>5. \A i \in 1..Len(s) + 1 : u[i] = t[i].n
    BY <2>1, <2>3, <2>4 DEF Numbers
  <2>6. u = [i \in 1..Len(s) + 1 |-> u[i]]
    BY <2>3
  <2>7. Numbers(t) = [i \in 1..Len(s) + 1 |-> t[i].n]
    BY <2>1 DEF Numbers
  <2>. QED
    BY <2>5, <2>6, <2>7 DEF t, u
<1>. QED
  BY <1>2, <1>3, <1>4, <1>5

Line == <<AtApply, InPrepared, AtDecode, InRaw, AtRecv, InWs, InBuffer>>

(* How each action moves blocks along the line. *)
LEMMA LineMoves ==
  ASSUME L1, Channels, Subscription, [Next]_vars
  PROVE
  /\ Produce => /\ tip + 1 \in Block
                /\ InWs' = IF Subscribed THEN InWs \union {tip + 1} ELSE InWs
                /\ UNCHANGED <<AtApply, InPrepared, AtDecode, InRaw, AtRecv, InBuffer>>
  /\ BufferBlock => /\ Head(ws) \in Block /\ InWs = {Head(ws)} \union InWs'
                    /\ UNCHANGED <<AtApply, InPrepared, AtDecode, InRaw, AtRecv>>
                    /\ \/ InBuffer' = InBuffer \union {Head(ws)} /\ dropped' = dropped
                       \/ /\ Head(buffer) \in InBuffer /\ InBuffer' \union {Head(buffer)} = InBuffer \union {Head(ws)}
                          /\ dropped' = dropped \union {Head(buffer)}
  /\ SkipBuffered \/ ImportLiveBlock =>
       /\ Head(buffer) \in Block /\ InBuffer = {Head(buffer)} \union InBuffer'
       /\ UNCHANGED <<AtApply, InPrepared, AtDecode, InRaw, AtRecv, InWs>>
  /\ ReceiveBlock => /\ Head(ws) \in Block /\ InWs = {Head(ws)} \union InWs'
                     /\ AtRecv = {} /\ AtRecv' = {Head(ws)}
                     /\ UNCHANGED <<AtApply, InPrepared, AtDecode, InRaw, InBuffer>>
  /\ SendRaw => /\ recv.n \in Block /\ AtRecv = {recv.n} /\ AtRecv' = {}
                /\ InRaw' = InRaw \union {recv.n}
                /\ UNCHANGED <<AtApply, InPrepared, AtDecode, InWs, InBuffer>>
  /\ ReceiveEnds => /\ AtRecv' = {}
                    /\ UNCHANGED <<AtApply, InPrepared, AtDecode, InRaw, InWs, InBuffer>>
  /\ DecodeTake => /\ Head(raw) \in Block /\ InRaw = {Head(raw)} \union InRaw'
                   /\ AtDecode = {} /\ AtDecode' = {Head(raw)}
                   /\ UNCHANGED <<AtApply, InPrepared, AtRecv, InWs, InBuffer>>
  /\ SendPrepared => /\ dec.n \in Block /\ AtDecode = {dec.n} /\ AtDecode' = {}
                     /\ InPrepared' = InPrepared \union {dec.n}
                     /\ UNCHANGED <<AtApply, InRaw, AtRecv, InWs, InBuffer>>
  /\ DecodeEnds => /\ AtDecode' = {} /\ InRaw' = {}
                   /\ UNCHANGED <<AtApply, InPrepared, AtRecv, InWs, InBuffer>>
  /\ ApplyTake => /\ Head(prepared).n \in Block
                  /\ InPrepared = {Head(prepared).n} \union InPrepared'
                  /\ AtApply = {} /\ AtApply' = {Head(prepared).n}
                  /\ UNCHANGED <<AtDecode, InRaw, AtRecv, InWs, InBuffer>>
  /\ ApplyBlock => /\ app.n \in Block /\ AtApply = {app.n} /\ AtApply' = {}
                   /\ UNCHANGED <<InPrepared, AtDecode, InRaw, AtRecv, InWs, InBuffer>>
  /\ ApplyEnds => /\ InPrepared' = {}
                  /\ UNCHANGED <<AtApply, AtDecode, InRaw, AtRecv, InWs, InBuffer>>
  /\ Drop => /\ InPipeline = {} /\ InPipeline' = {} /\ InWs' = {} /\ InBuffer' = {}
             /\ dropped' = dropped \union InWs \union InBuffer
             /\ UNCHANGED <<AtApply, InPrepared, AtDecode, InRaw, AtRecv>>
  /\ \/ UNCHANGED Line \/ Produce \/ BufferBlock \/ SkipBuffered \/ ImportLiveBlock
     \/ ReceiveBlock \/ SendRaw \/ ReceiveEnds \/ DecodeTake \/ SendPrepared \/ DecodeEnds
     \/ ApplyTake \/ ApplyBlock \/ ApplyEnds \/ Drop
<1>1. /\ ws \in Seq(Block) /\ buffer \in Seq(Block) /\ raw \in Seq(Block) /\ prepared \in Seq(Job)
      /\ tip \in Height /\ MaxBlock \in Nat
  BY PipelineBounds DEF L1, Typed, StreamType, ChannelType, NodeType
<1>. DEFINE UnPipe == UNCHANGED <<AtApply, InPrepared, AtDecode, InRaw, AtRecv>>
<1>2. /\ UNCHANGED app => UNCHANGED AtApply
      /\ UNCHANGED prepared => UNCHANGED InPrepared
      /\ UNCHANGED dec => UNCHANGED AtDecode
      /\ UNCHANGED raw => UNCHANGED InRaw
      /\ UNCHANGED recv => UNCHANGED AtRecv
      /\ UNCHANGED ws => UNCHANGED InWs
      /\ UNCHANGED buffer => UNCHANGED InBuffer
  BY DEF AtApply, InPrepared, AtDecode, InRaw, AtRecv, InWs, InBuffer
<1>3. UNCHANGED workers => UnPipe
  BY <1>2 DEF workers
<1>4. ASSUME Produce
      PROVE  /\ tip + 1 \in Block
             /\ InWs' = IF Subscribed THEN InWs \union {tip + 1} ELSE InWs
             /\ UnPipe /\ UNCHANGED InBuffer
  <2>1. tip + 1 \in Block
    BY <1>1, <1>4 DEF Produce, Height, Block
  <2>2. UNCHANGED workers /\ UNCHANGED buffer
    BY <1>4 DEF Produce, catchup
  <2>3. ws' = IF Subscribed THEN Append(ws, tip + 1) ELSE ws
    BY <1>4 DEF Produce
  <2>. QED
    BY <1>1, <1>2, <1>3, <2>1, <2>2, <2>3, ElementsFacts DEF InWs
<1>5. ASSUME BufferBlock
      PROVE  /\ Head(ws) \in Block /\ InWs = {Head(ws)} \union InWs'
             /\ UnPipe
             /\ \/ InBuffer' = InBuffer \union {Head(ws)} /\ dropped' = dropped
                \/ /\ Head(buffer) \in InBuffer /\ InBuffer' \union {Head(buffer)} = InBuffer \union {Head(ws)}
                   /\ dropped' = dropped \union {Head(buffer)}
  <2>1. ws # <<>> /\ ws' = Tail(ws) /\ UNCHANGED workers
    BY <1>5 DEF BufferBlock
  <2>2. Head(ws) \in Block /\ InWs = {Head(ws)} \union InWs'
    BY <1>1, <2>1, TailFacts, ElementsFacts DEF InWs
  <2>3. CASE Len(buffer) >= BufferMax
    <3>1. BufferMax \in Nat \ {0} /\ Len(buffer) \in Nat /\ (buffer = <<>> <=> Len(buffer) = 0)
      BY <1>1, PipelineBounds, SequenceFacts
    <3>2. buffer # <<>>
      BY <2>3, <3>1
    <3>3. buffer' = Append(Tail(buffer), Head(ws)) /\ dropped' = dropped \union {Head(buffer)}
      BY <1>5, <2>3 DEF BufferBlock
    <3>4. Tail(buffer) \in Seq(Block)
      BY <1>1, <3>2, TailFacts
    <3>5. InBuffer = {Head(buffer)} \union Elements(Tail(buffer))
      BY <1>1, <3>2, ElementsFacts DEF InBuffer
    <3>6. InBuffer' = Elements(Tail(buffer)) \union {Head(ws)}
      BY <2>2, <3>3, <3>4, ElementsFacts DEF InBuffer
    <3>. QED
      BY <1>3, <2>1, <2>2, <3>3, <3>5, <3>6
  <2>4. CASE ~ (Len(buffer) >= BufferMax)
    <3>1. buffer' = Append(buffer, Head(ws)) /\ dropped' = dropped
      BY <1>5, <2>4 DEF BufferBlock
    <3>2. InBuffer' = InBuffer \union {Head(ws)}
      BY <1>1, <2>2, <3>1, ElementsFacts DEF InBuffer
    <3>. QED
      BY <1>3, <2>1, <2>2, <3>1, <3>2
  <2>. QED
    BY <2>3, <2>4
<1>6. ASSUME SkipBuffered \/ ImportLiveBlock
      PROVE  /\ Head(buffer) \in Block /\ InBuffer = {Head(buffer)} \union InBuffer'
             /\ UnPipe /\ UNCHANGED InWs
  <2>1. buffer # <<>> /\ buffer' = Tail(buffer) /\ UNCHANGED workers /\ UNCHANGED ws
    BY <1>6 DEF SkipBuffered, ImportLiveBlock, stream
  <2>. QED
    BY <1>1, <1>2, <1>3, <2>1, TailFacts, ElementsFacts DEF InBuffer
<1>7. ASSUME ReceiveBlock
      PROVE  /\ Head(ws) \in Block /\ InWs = {Head(ws)} \union InWs'
             /\ AtRecv = {} /\ AtRecv' = {Head(ws)}
             /\ UNCHANGED <<AtApply, InPrepared, AtDecode, InRaw, InBuffer>>
  <2>1. /\ ws # <<>> /\ ws' = Tail(ws) /\ recv.pc = "idle" /\ recv' = [pc |-> "send", n |-> Head(ws)]
        /\ UNCHANGED <<app, prepared, dec, raw, buffer>>
    BY <1>7 DEF ReceiveBlock, catchup
  <2>2. Head(ws) \in Block /\ InWs = {Head(ws)} \union InWs'
    BY <1>1, <2>1, TailFacts, ElementsFacts DEF InWs
  <2>3. AtRecv = {} /\ AtRecv' = {Head(ws)}
    BY <2>1 DEF AtRecv
  <2>. QED
    BY <1>2, <2>1, <2>2, <2>3
<1>8. ASSUME SendRaw
      PROVE  /\ recv.n \in Block /\ AtRecv = {recv.n} /\ AtRecv' = {}
             /\ InRaw' = InRaw \union {recv.n}
             /\ UNCHANGED <<AtApply, InPrepared, AtDecode, InWs, InBuffer>>
  <2>1. /\ recv.pc = "send" /\ recv' = Idle /\ recv.n \in Block /\ raw' = Append(raw, recv.n)
        /\ UNCHANGED <<app, prepared, dec, ws, buffer>>
    BY <1>8 DEF SendRaw, L1, Typed, RecvType, stream, catchup
  <2>2. InRaw' = InRaw \union {recv.n}
    BY <1>1, <2>1, ElementsFacts DEF InRaw
  <2>3. AtRecv = {recv.n} /\ AtRecv' = {}
    BY <2>1 DEF AtRecv, Idle
  <2>. QED
    BY <1>2, <2>1, <2>2, <2>3
<1>9. ASSUME ReceiveEnds
      PROVE  AtRecv' = {} /\ UNCHANGED <<AtApply, InPrepared, AtDecode, InRaw, InWs, InBuffer>>
  <2>1. recv' = Ended /\ UNCHANGED <<app, prepared, dec, raw, ws, buffer>>
    BY <1>9 DEF ReceiveEnds, stream, catchup
  <2>2. AtRecv' = {}
    BY <2>1 DEF AtRecv, Ended
  <2>. QED
    BY <1>2, <2>1, <2>2
<1>10. ASSUME DecodeTake
       PROVE  /\ Head(raw) \in Block /\ InRaw = {Head(raw)} \union InRaw'
              /\ AtDecode = {} /\ AtDecode' = {Head(raw)}
              /\ UNCHANGED <<AtApply, InPrepared, AtRecv, InWs, InBuffer>>
  <2>1. /\ raw # <<>> /\ raw' = Tail(raw) /\ dec.pc = "idle" /\ dec' = [pc |-> "got", n |-> Head(raw)]
        /\ UNCHANGED <<app, prepared, recv, ws, buffer>>
    BY <1>10 DEF DecodeTake, stream, catchup
  <2>2. Head(raw) \in Block /\ InRaw = {Head(raw)} \union InRaw'
    BY <1>1, <2>1, TailFacts, ElementsFacts DEF InRaw
  <2>3. AtDecode = {} /\ AtDecode' = {Head(raw)}
    BY <2>1 DEF AtDecode
  <2>. QED
    BY <1>2, <2>1, <2>2, <2>3
<1>11. ASSUME SendPrepared
       PROVE  /\ dec.n \in Block /\ AtDecode = {dec.n} /\ AtDecode' = {}
              /\ InPrepared' = InPrepared \union {dec.n}
              /\ UNCHANGED <<AtApply, InRaw, AtRecv, InWs, InBuffer>>
  <2>1. /\ dec.pc = "send" /\ dec' = Idle /\ dec.n \in Block /\ dec.mapped \in BOOLEAN
        /\ prepared' = Append(prepared, [n |-> dec.n, mapped |-> dec.mapped])
        /\ UNCHANGED <<app, raw, recv, ws, buffer>>
    BY <1>11 DEF SendPrepared, L1, Typed, DecType, stream, catchup
  <2>2. [n |-> dec.n, mapped |-> dec.mapped] \in Job
    BY <2>1 DEF Job
  <2>3. Numbers(prepared)' = Append(Numbers(prepared), dec.n) /\ Numbers(prepared) \in Seq(Block)
    BY <1>1, <2>1, <2>2, NumbersFacts
  <2>4. InPrepared' = InPrepared \union {dec.n}
    BY <2>1, <2>3, ElementsFacts DEF InPrepared
  <2>5. AtDecode = {dec.n} /\ AtDecode' = {}
    BY <2>1 DEF AtDecode, Idle
  <2>. QED
    BY <1>2, <2>1, <2>4, <2>5
<1>12. ASSUME DecodeEnds
       PROVE  /\ AtDecode' = {} /\ InRaw' = {}
              /\ UNCHANGED <<AtApply, InPrepared, AtRecv, InWs, InBuffer>>
  <2>1. dec' = Ended /\ raw' = <<>> /\ UNCHANGED <<app, prepared, recv, ws, buffer>>
    BY <1>12 DEF DecodeEnds, stream, catchup
  <2>2. AtDecode' = {} /\ InRaw' = {}
    BY <2>1, ElementsFacts DEF AtDecode, InRaw, Ended
  <2>. QED
    BY <1>2, <2>1, <2>2
<1>13. ASSUME ApplyTake
       PROVE  /\ Head(prepared).n \in Block
              /\ InPrepared = {Head(prepared).n} \union InPrepared'
              /\ AtApply = {} /\ AtApply' = {Head(prepared).n}
              /\ UNCHANGED <<AtDecode, InRaw, AtRecv, InWs, InBuffer>>
  <2>1. /\ prepared # <<>> /\ prepared' = Tail(prepared)
        /\ app.pc = "idle" /\ app'.pc = "got" /\ app'.n = Head(prepared).n
        /\ UNCHANGED <<dec, raw, recv, ws, buffer>>
    BY <1>13 DEF ApplyTake, stream, catchup
  <2>2. /\ Numbers(prepared) \in Seq(Block) /\ Numbers(prepared) # <<>>
        /\ Numbers(prepared)' = Tail(Numbers(prepared)) /\ Head(Numbers(prepared)) = Head(prepared).n
    BY <1>1, <2>1, NumbersFacts
  <2>3. Head(prepared).n \in Block /\ InPrepared = {Head(prepared).n} \union InPrepared'
    BY <2>2, TailFacts, ElementsFacts DEF InPrepared
  <2>4. AtApply = {} /\ AtApply' = {Head(prepared).n}
    BY <2>1 DEF AtApply
  <2>. QED
    BY <1>2, <2>1, <2>3, <2>4
<1>14. ASSUME ApplyBlock
       PROVE  /\ app.n \in Block /\ AtApply = {app.n} /\ AtApply' = {}
              /\ UNCHANGED <<InPrepared, AtDecode, InRaw, AtRecv, InWs, InBuffer>>
  <2>1. /\ app.pc = "got" /\ app.n \in Block /\ app'.pc = "enqueue"
        /\ UNCHANGED <<prepared, dec, raw, recv, ws, buffer>>
    BY <1>14 DEF ApplyBlock, L1, Typed, AppType, stream, catchup
  <2>2. AtApply = {app.n} /\ AtApply' = {}
    BY <2>1 DEF AtApply
  <2>. QED
    BY <1>2, <2>1, <2>2
<1>15. ASSUME ApplyEnds
       PROVE  InPrepared' = {} /\ UNCHANGED <<AtApply, AtDecode, InRaw, AtRecv, InWs, InBuffer>>
  <2>1. /\ app.pc = "idle" /\ app' = Ended /\ prepared' = <<>>
        /\ UNCHANGED <<dec, raw, recv, ws, buffer>>
    BY <1>15 DEF ApplyEnds, stream, catchup
  <2>2. AtApply' = AtApply
    BY <2>1 DEF AtApply, Ended
  <2>3. Numbers(prepared)' = <<>>
    BY <2>1 DEF Numbers
  <2>4. InPrepared' = {}
    BY <2>3, ElementsFacts DEF InPrepared
  <2>. QED
    BY <1>2, <2>1, <2>2, <2>4
<1>16. ASSUME recv.pc \in {"off", "done"}, dec.pc \in {"off", "done"}, app.pc \in {"off", "done"}
       PROVE  AtApply = {} /\ InPrepared = {} /\ AtDecode = {} /\ InRaw = {} /\ AtRecv = {}
  <2>1. raw = <<>> /\ prepared = <<>>
    BY <1>16 DEF Channels
  <2>2. Numbers(prepared) = <<>>
    BY <2>1 DEF Numbers
  <2>. QED
    BY <1>16, <2>1, <2>2, ElementsFacts DEF AtApply, InPrepared, AtDecode, InRaw, AtRecv
<1>17. ASSUME Drop
       PROVE  /\ InPipeline = {} /\ InPipeline' = {} /\ InWs' = {} /\ InBuffer' = {}
              /\ dropped' = dropped \union InWs \union InBuffer /\ UnPipe
  <2>1. InWs' = {} /\ InBuffer' = {} /\ dropped' = dropped \union InWs \union InBuffer
    BY <1>1, <1>17, Drops, ElementsFacts DEF Disconnected, InWs, InBuffer
  <2>2. CASE PipelineEnds
    <3>1. AtApply = {} /\ InPrepared = {} /\ AtDecode = {} /\ InRaw = {} /\ AtRecv = {}
      BY <1>16, <2>2 DEF PipelineEnds
    <3>2. AtApply' = {} /\ AtDecode' = {} /\ AtRecv' = {} /\ UNCHANGED <<raw, prepared>>
      BY <2>2 DEF PipelineEnds, Off, AtApply, AtDecode, AtRecv
    <3>. QED
      BY <1>2, <2>1, <3>1, <3>2 DEF InPipeline
  <2>3. CASE SubscribeFails \/ CatchupFails \/ ImportSnapshotFails \/ ImportFails
    <3>1. UNCHANGED workers /\ ~ Running
      BY <2>3 DEF SubscribeFails, CatchupFails, ImportSnapshotFails, ImportFails, L1, Phases
    <3>2. AtApply = {} /\ InPrepared = {} /\ AtDecode = {} /\ InRaw = {} /\ AtRecv = {}
      BY <1>16, <3>1 DEF L1, Phases, Running
    <3>. QED
      BY <1>3, <2>1, <3>1, <3>2 DEF InPipeline
  <2>. QED
    BY <1>17, <2>2, <2>3 DEF Drop
<1>18. ASSUME GoLive \/ FinishCatchup PROVE UNCHANGED Line
  <2>1. /\ UNCHANGED <<ws, buffer>> /\ raw' = <<>> /\ prepared' = <<>>
        /\ recv' = Idle /\ dec' = Idle /\ app' = Idle /\ ~ Running
    BY <1>18 DEF GoLive, FinishCatchup, StartPipeline, stream, catchup, L1, Phases
  <2>2. AtApply = {} /\ InPrepared = {} /\ AtDecode = {} /\ InRaw = {} /\ AtRecv = {}
    BY <1>16, <2>1 DEF L1, Phases, Running
  <2>3. Numbers(prepared)' = <<>>
    BY <2>1 DEF Numbers
  <2>4. AtApply' = {} /\ InPrepared' = {} /\ AtDecode' = {} /\ InRaw' = {} /\ AtRecv' = {}
    BY <2>1, <2>3, ElementsFacts DEF AtApply, InPrepared, AtDecode, InRaw, AtRecv, Idle
  <2>. QED
    BY <1>2, <2>1, <2>2, <2>4 DEF Line
<1>19. ASSUME Subscribe PROVE UNCHANGED Line
  <2>1. UNCHANGED workers /\ UNCHANGED <<ws, buffer>>
    BY <1>19 DEF Subscribe, Subscription, catchup
  <2>. QED
    BY <1>2, <1>3, <2>1 DEF Line
<1>20. ASSUME PrepareBlock \/ EnqueueWrite PROVE UNCHANGED Line
  <2>1. UNCHANGED <<prepared, raw, recv, ws, buffer, AtApply, AtDecode>>
    BY <1>20 DEF PrepareBlock, EnqueueWrite, AtApply, AtDecode, Idle, stream, catchup
  <2>. QED
    BY <1>2, <2>1 DEF Line
<1>21. \/ UNCHANGED Line \/ Produce \/ BufferBlock \/ SkipBuffered \/ ImportLiveBlock
       \/ ReceiveBlock \/ SendRaw \/ ReceiveEnds \/ DecodeTake \/ SendPrepared \/ DecodeEnds
       \/ ApplyTake \/ ApplyBlock \/ ApplyEnds \/ Drop
  <2>1. CASE UNCHANGED <<app, prepared, dec, raw, recv, ws, buffer>>
    BY <1>2, <2>1 DEF Line
  <2>. QED
    BY <1>18, <1>19, <1>20, <2>1, Moves DEF Drop
<1>. QED
  BY <1>4, <1>5, <1>6, <1>7, <1>8, <1>9, <1>10, <1>11, <1>12, <1>13, <1>14, <1>15, <1>17, <1>21

-----------------------------------------------------------------------------
(* Blocks wait in the order of their numbers, in and across the queues, and *)
(* none is newer than the chain.                                            *)
Sorted == Rising(ws) /\ Rising(raw) /\ Rising(buffer) /\ Rising(Numbers(prepared))

Lined ==
  /\ Below(AtApply, InPrepared \union AtDecode \union InRaw \union AtRecv \union InWs)
  /\ Below(InPrepared, AtDecode \union InRaw \union AtRecv \union InWs)
  /\ Below(AtDecode, InRaw \union AtRecv \union InWs)
  /\ Below(InRaw, AtRecv \union InWs)
  /\ Below(AtRecv \union InBuffer, InWs)

Produced == Waiting \subseteq 1..tip

L2 == Channels /\ Subscription /\ Sorted /\ Lined /\ Produced

(* Nothing waits at the start ... *)
LEMMA InitL2 == Init => L2
<1>. SUFFICES ASSUME Init PROVE L2
  OBVIOUS
<1>1. ws = <<>> /\ raw = <<>> /\ buffer = <<>> /\ prepared = <<>> /\ recv = Off /\ dec = Off /\ app = Off
  BY DEF Init
<1>2. Numbers(prepared) = <<>>
  BY <1>1 DEF Numbers
<1>3. AtApply = {} /\ InPrepared = {} /\ AtDecode = {} /\ InRaw = {} /\ AtRecv = {} /\ InWs = {}
      /\ InBuffer = {}
  BY <1>1, <1>2, ElementsFacts DEF AtApply, InPrepared, AtDecode, InRaw, AtRecv, InWs, InBuffer, Off
<1>4. Sorted
  BY <1>1, <1>2, ElementsFacts DEF Sorted
<1>. QED
  BY <1>3, <1>4, InitLeft DEF L2, Lined, Below, Produced, Waiting, InPipeline

(* Only the node adds blocks to the line. *)
LEMMA WaitingShrinks ==
  ASSUME L1, L2, [Next]_vars
  PROVE  /\ ~ Produce => Waiting' \subseteq Waiting
         /\ Produce => Waiting' \subseteq Waiting \union {tip + 1} /\ Waiting \subseteq Waiting'
<1>1. Channels /\ Subscription
  BY DEF L2
<1>. USE DEF Waiting, InPipeline
<1>2. CASE Produce
  BY <1>1, <1>2, LineMoves
<1>3. CASE UNCHANGED Line
  BY <1>3 DEF Line
<1>4. CASE BufferBlock
  BY <1>1, <1>4, LineMoves
<1>5. CASE SkipBuffered \/ ImportLiveBlock
  BY <1>1, <1>5, LineMoves
<1>6. CASE ReceiveBlock
  BY <1>1, <1>6, LineMoves
<1>7. CASE SendRaw
  BY <1>1, <1>7, LineMoves
<1>8. CASE ReceiveEnds
  BY <1>1, <1>8, LineMoves
<1>9. CASE DecodeTake
  BY <1>1, <1>9, LineMoves
<1>10. CASE SendPrepared
  BY <1>1, <1>10, LineMoves
<1>11. CASE DecodeEnds
  BY <1>1, <1>11, LineMoves
<1>12. CASE ApplyTake
  BY <1>1, <1>12, LineMoves
<1>13. CASE ApplyBlock
  BY <1>1, <1>13, LineMoves
<1>14. CASE ApplyEnds
  BY <1>1, <1>14, LineMoves
<1>15. CASE Drop
  BY <1>1, <1>15, LineMoves
<1>. HIDE DEF Waiting, InPipeline
<1>. QED
  BY <1>1, <1>2, <1>3, <1>4, <1>5, <1>6, <1>7, <1>8, <1>9, <1>10, <1>11, <1>12, <1>13, <1>14, <1>15, LineMoves

(* ... blocks come from the node and go down the line one at a time ... *)
LEMMA NextProduced == L1 /\ L2 /\ [Next]_vars => Produced'
<1>. SUFFICES ASSUME L1, L2, [Next]_vars PROVE Produced'
  OBVIOUS
<1>1. Waiting \subseteq 1..tip /\ tip \in Nat
  BY DEF L2, Produced, L1, Typed, NodeType, Height
<1>2. CASE Produce
  <2>1. tip' = tip + 1 /\ Waiting' \subseteq Waiting \union {tip + 1}
    BY <1>2, WaitingShrinks DEF Produce
  <2>2. 1..tip \union {tip + 1} \subseteq 1..tip + 1
    BY <1>1
  <2>. QED
    BY <1>1, <2>1, <2>2 DEF Produced
<1>3. CASE ~ Produce
  <2>1. tip' = tip /\ Waiting' \subseteq Waiting
    BY <1>3, Moves, WaitingShrinks
  <2>. QED
    BY <1>1, <2>1 DEF Produced
<1>. QED
  BY <1>2, <1>3

(* ... each queue stays sorted ... *)
LEMMA NextSorted == L1 /\ L2 /\ [Next]_vars => Sorted'
<1>. SUFFICES ASSUME L1, L2, [Next]_vars PROVE Sorted'
  OBVIOUS
<1>1. /\ ws \in Seq(Block) /\ buffer \in Seq(Block) /\ raw \in Seq(Block) /\ prepared \in Seq(Job)
      /\ Numbers(prepared) \in Seq(Block)
      /\ Rising(ws) /\ Rising(raw) /\ Rising(buffer) /\ Rising(Numbers(prepared))
  BY NumbersFacts DEF L1, Typed, StreamType, ChannelType, L2, Sorted
<1>2. Rising(<<>>)
  BY ElementsFacts
<1>3. Rising(ws')
  <2>1. CASE UNCHANGED ws
    BY <1>1, <2>1
  <2>2. CASE Produce
    <3>1. CASE ~ Subscribed
      BY <1>1, <2>2, <3>1 DEF Produce
    <3>2. CASE Subscribed
      <4>1. ws' = Append(ws, tip + 1) /\ tip \in Nat /\ tip + 1 \in Block
        BY <2>2, <3>2, LineMoves, PipelineBounds DEF Produce, L1, Typed, NodeType, Height, L2
      <4>2. Elements(ws) \subseteq 1..tip
        BY DEF L2, Produced, Waiting, InWs
      <4>3. Below(Elements(ws), {tip + 1})
        BY <4>1, <4>2 DEF Below
      <4>. QED
        BY <1>1, <4>1, <4>3, ElementsFacts
    <3>. QED
      BY <3>1, <3>2
  <2>3. CASE Subscribe \/ Drop
    BY <1>2, <2>3, Drops DEF Subscribe, Disconnected
  <2>4. CASE BufferBlock \/ ReceiveBlock
    BY <1>1, <2>4, ElementsFacts DEF BufferBlock, ReceiveBlock
  <2>. QED
    BY <2>1, <2>2, <2>3, <2>4, Moves
<1>4. Rising(raw')
  <2>1. CASE UNCHANGED raw
    BY <1>1, <2>1
  <2>2. CASE GoLive \/ FinishCatchup \/ DecodeEnds
    BY <1>2, <2>2 DEF GoLive, FinishCatchup, StartPipeline, DecodeEnds
  <2>3. CASE SendRaw
    <3>1. raw' = Append(raw, recv.n) /\ recv.n \in Block /\ AtRecv = {recv.n}
      BY <2>3, LineMoves DEF SendRaw, L2
    <3>2. Below(Elements(raw), {recv.n})
      BY <3>1 DEF L2, Lined, Below, InRaw
    <3>. QED
      BY <1>1, <3>1, <3>2, ElementsFacts
  <2>4. CASE DecodeTake
    BY <1>1, <2>4, ElementsFacts DEF DecodeTake
  <2>. QED
    BY <2>1, <2>2, <2>3, <2>4, Moves
<1>5. Rising(Numbers(prepared'))
  <2>1. CASE UNCHANGED prepared
    <3>1. prepared' = prepared
      BY <2>1
    <3>. QED
      BY <1>1, <3>1
  <2>2. CASE GoLive \/ FinishCatchup \/ ApplyEnds
    <3>1. prepared' = <<>>
      BY <2>2 DEF GoLive, FinishCatchup, StartPipeline, ApplyEnds
    <3>2. Numbers(prepared') = <<>>
      BY <3>1 DEF Numbers
    <3>. QED
      BY <1>2, <3>2
  <2>3. CASE SendPrepared
    <3>1. /\ prepared' = Append(prepared, [n |-> dec.n, mapped |-> dec.mapped])
          /\ dec.n \in Block /\ dec.mapped \in BOOLEAN /\ AtDecode = {dec.n}
      BY <2>3, LineMoves DEF SendPrepared, L2, L1, Typed, DecType
    <3>2. [n |-> dec.n, mapped |-> dec.mapped] \in Job
      BY <3>1 DEF Job
    <3>3. Numbers(prepared') = Append(Numbers(prepared), dec.n)
      BY <1>1, <3>1, <3>2, NumbersFacts
    <3>4. Below(Elements(Numbers(prepared)), {dec.n})
      BY <3>1 DEF L2, Lined, Below, InPrepared
    <3>5. Rising(Append(Numbers(prepared), dec.n))
      <4>1. Numbers(prepared) \in Seq(Block) /\ dec.n \in Block /\ Rising(Numbers(prepared))
        BY <1>1, <3>1
      <4>. QED
        BY <3>4, <4>1, ElementsFacts
    <3>. QED
      BY <3>3, <3>5
  <2>4. CASE ApplyTake
    <3>1. prepared # <<>> /\ prepared' = Tail(prepared)
      BY <2>4 DEF ApplyTake
    <3>2. Numbers(prepared) # <<>> /\ Numbers(prepared') = Tail(Numbers(prepared))
      BY <1>1, <3>1, NumbersFacts
    <3>. QED
      BY <1>1, <3>2, ElementsFacts
  <2>. QED
    BY <2>1, <2>2, <2>3, <2>4, Moves
<1>6. Rising(buffer')
  <2>1. CASE UNCHANGED buffer
    BY <1>1, <2>1
  <2>2. CASE Drop
    BY <1>2, <2>2, Drops DEF Disconnected
  <2>3. CASE SkipBuffered \/ ImportLiveBlock
    BY <1>1, <2>3, ElementsFacts DEF SkipBuffered, ImportLiveBlock
  <2>4. CASE BufferBlock
    <3>1. Head(ws) \in Block /\ Head(ws) \in InWs
      BY <2>4, LineMoves DEF L2
    <3>2. Below(Elements(buffer), {Head(ws)})
      BY <3>1 DEF L2, Lined, Below, InBuffer
    <3>3. CASE Len(buffer) >= BufferMax
      <4>1. BufferMax \in Nat \ {0} /\ Len(buffer) \in Nat /\ (buffer = <<>> <=> Len(buffer) = 0)
        BY <1>1, PipelineBounds, SequenceFacts
      <4>2. buffer # <<>>
        BY <3>3, <4>1
      <4>3. buffer' = Append(Tail(buffer), Head(ws))
        BY <2>4, <3>3 DEF BufferBlock
      <4>4. Tail(buffer) \in Seq(Block) /\ Rising(Tail(buffer)) /\ Elements(Tail(buffer)) \subseteq Elements(buffer)
        BY <1>1, <4>2, TailFacts, ElementsFacts
      <4>5. Below(Elements(Tail(buffer)), {Head(ws)})
        BY <3>2, <4>4 DEF Below
      <4>. QED
        BY <3>1, <4>3, <4>4, <4>5, ElementsFacts
    <3>4. CASE ~ (Len(buffer) >= BufferMax)
      <4>1. buffer' = Append(buffer, Head(ws))
        BY <2>4, <3>4 DEF BufferBlock
      <4>. QED
        BY <1>1, <3>1, <3>2, <4>1, ElementsFacts
    <3>. QED
      BY <3>3, <3>4
  <2>. QED
    BY <2>1, <2>2, <2>3, <2>4, Moves
<1>. QED
  BY <1>3, <1>4, <1>5, <1>6 DEF Sorted

(* ... and so does the whole line. *)
LEMMA NextLined == L1 /\ L2 /\ [Next]_vars => Lined'
<1>. SUFFICES ASSUME L1, L2, [Next]_vars PROVE Lined'
  OBVIOUS
<1>1. /\ Channels /\ Subscription /\ Waiting \subseteq 1..tip /\ tip \in Nat
      /\ Rising(ws) /\ Rising(raw) /\ Rising(Numbers(prepared))
      /\ ws \in Seq(Block) /\ raw \in Seq(Block) /\ prepared \in Seq(Job)
  BY DEF L2, Produced, Sorted, L1, Typed, NodeType, Height, StreamType, ChannelType
<1>2. /\ Below(AtApply, InPrepared \union AtDecode \union InRaw \union AtRecv \union InWs)
      /\ Below(InPrepared, AtDecode \union InRaw \union AtRecv \union InWs)
      /\ Below(AtDecode, InRaw \union AtRecv \union InWs)
      /\ Below(InRaw, AtRecv \union InWs)
      /\ Below(AtRecv \union InBuffer, InWs)
  BY DEF L2, Lined
<1>. USE DEF Lined, Below
<1>3. CASE Produce
  <2>1. InWs' \subseteq InWs \union {tip + 1} /\ UNCHANGED <<AtApply, InPrepared, AtDecode, InRaw, AtRecv, InBuffer>>
    BY <1>1, <1>3, LineMoves
  <2>2. \A b \in Waiting : b < tip + 1
    BY <1>1
  <2>3. \A b \in AtApply \union InPrepared \union AtDecode \union InRaw \union AtRecv \union InBuffer : b < tip + 1
    BY <2>2 DEF Waiting, InPipeline
  <2>. QED
    BY <1>2, <2>1, <2>3
<1>4. CASE BufferBlock
  <2>1. /\ InWs = {Head(ws)} \union InWs' /\ UNCHANGED <<AtApply, InPrepared, AtDecode, InRaw, AtRecv>>
        /\ InBuffer' \subseteq InBuffer \union {Head(ws)}
    BY <1>1, <1>4, LineMoves
  <2>2. \A b \in InWs' : Head(ws) < b
    BY <1>1, <1>4, ElementsFacts DEF BufferBlock, InWs
  <2>. QED
    BY <1>2, <2>1, <2>2
<1>5. CASE SkipBuffered \/ ImportLiveBlock
  <2>1. InBuffer' \subseteq InBuffer /\ UNCHANGED <<AtApply, InPrepared, AtDecode, InRaw, AtRecv, InWs>>
    BY <1>1, <1>5, LineMoves
  <2>. QED
    BY <1>2, <2>1
<1>6. CASE ReceiveBlock
  <2>1. /\ InWs = {Head(ws)} \union InWs' /\ AtRecv' = {Head(ws)}
        /\ UNCHANGED <<AtApply, InPrepared, AtDecode, InRaw, InBuffer>>
    BY <1>1, <1>6, LineMoves
  <2>2. \A b \in InWs' : Head(ws) < b
    BY <1>1, <1>6, ElementsFacts DEF ReceiveBlock, InWs
  <2>. QED
    BY <1>2, <2>1, <2>2
<1>7. CASE SendRaw
  <2>1. /\ AtRecv = {recv.n} /\ AtRecv' = {} /\ InRaw' = InRaw \union {recv.n}
        /\ UNCHANGED <<AtApply, InPrepared, AtDecode, InWs, InBuffer>>
    BY <1>1, <1>7, LineMoves
  <2>. QED
    BY <1>2, <2>1
<1>8. CASE ReceiveEnds
  <2>1. AtRecv' = {} /\ UNCHANGED <<AtApply, InPrepared, AtDecode, InRaw, InWs, InBuffer>>
    BY <1>1, <1>8, LineMoves
  <2>. QED
    BY <1>2, <2>1
<1>9. CASE DecodeTake
  <2>1. /\ InRaw = {Head(raw)} \union InRaw' /\ AtDecode' = {Head(raw)}
        /\ UNCHANGED <<AtApply, InPrepared, AtRecv, InWs, InBuffer>>
    BY <1>1, <1>9, LineMoves
  <2>2. \A b \in InRaw' : Head(raw) < b
    BY <1>1, <1>9, ElementsFacts DEF DecodeTake, InRaw
  <2>. QED
    BY <1>2, <2>1, <2>2
<1>10. CASE SendPrepared
  <2>1. /\ AtDecode = {dec.n} /\ AtDecode' = {} /\ InPrepared' = InPrepared \union {dec.n}
        /\ UNCHANGED <<AtApply, InRaw, AtRecv, InWs, InBuffer>>
    BY <1>1, <1>10, LineMoves
  <2>. QED
    BY <1>2, <2>1
<1>11. CASE DecodeEnds
  <2>1. AtDecode' = {} /\ InRaw' = {} /\ UNCHANGED <<AtApply, InPrepared, AtRecv, InWs, InBuffer>>
    BY <1>1, <1>11, LineMoves
  <2>. QED
    BY <1>2, <2>1
<1>12. CASE ApplyTake
  <2>1. /\ InPrepared = {Head(prepared).n} \union InPrepared' /\ AtApply' = {Head(prepared).n}
        /\ UNCHANGED <<AtDecode, InRaw, AtRecv, InWs, InBuffer>>
    BY <1>1, <1>12, LineMoves
  <2>2. prepared # <<>> /\ prepared' = Tail(prepared)
    BY <1>12 DEF ApplyTake
  <2>3. /\ Numbers(prepared) \in Seq(Block) /\ Numbers(prepared) # <<>>
        /\ Numbers(prepared)' = Tail(Numbers(prepared)) /\ Head(Numbers(prepared)) = Head(prepared).n
    BY <1>1, <2>2, NumbersFacts
  <2>4. \A b \in InPrepared' : Head(prepared).n < b
    BY <1>1, <2>3, ElementsFacts DEF InPrepared
  <2>. QED
    BY <1>2, <2>1, <2>4
<1>13. CASE ApplyBlock
  <2>1. AtApply' = {} /\ UNCHANGED <<InPrepared, AtDecode, InRaw, AtRecv, InWs, InBuffer>>
    BY <1>1, <1>13, LineMoves
  <2>. QED
    BY <1>2, <2>1
<1>14. CASE ApplyEnds
  <2>1. InPrepared' = {} /\ UNCHANGED <<AtApply, AtDecode, InRaw, AtRecv, InWs, InBuffer>>
    BY <1>1, <1>14, LineMoves
  <2>. QED
    BY <1>2, <2>1
<1>15. CASE Drop
  <2>1. InPipeline' = {} /\ InWs' = {} /\ InBuffer' = {}
    BY <1>1, <1>15, LineMoves
  <2>. QED
    BY <2>1 DEF InPipeline
<1>16. CASE UNCHANGED Line
  BY <1>2, <1>16 DEF Line
<1>. QED
  BY <1>1, <1>3, <1>4, <1>5, <1>6, <1>7, <1>8, <1>9, <1>10, <1>11, <1>12, <1>13, <1>14, <1>15, <1>16,
     LineMoves

(* The whole layer is inductive. *)
LEMMA NextL2 == L1 /\ L2 /\ [Next]_vars => L2'
BY NextLeftInChannels, NextLeftByConnection, NextProduced, NextSorted, NextLined DEF L2

-----------------------------------------------------------------------------
(* Orders and levels.  st is an index, tw the blocks it has twice, ah those  *)
(* looked up too early, h the height of the chain.                           *)

Within(st, h) == st.done \subseteq 1..h /\ st.open \subseteq st.done /\ st.book \subseteq 1..h

(* Orders in the index that no such block created or cancelled. *)
Calm(done, tw, ah) == done \ Touched(tw \union ah)

(* Such an order is open unless its cancellation is in the index. *)
OpenRight(st, tw, ah) ==
  \A b \in Calm(st.done, tw, ah) : b \in st.open <=> \A c \in st.done : Cancels[c] # b

(* Its level is gone when its cancellation is in the index, and there while the *)
(* chain has no cancellation; in between a hydration may have been first.       *)
BookRight(book, done, tw, ah, h) ==
  \A b \in Calm(done, tw, ah) :
    /\ (\E c \in done : Cancels[c] = b) => b \notin book
    /\ (\A c \in 1..h : Cancels[c] # b) => b \in book

(* What prepare_block found for block n is still right: m. *)
LookupRight(n, m, st, tw, ah) ==
  n \notin ah =>
    /\ Cancels[n] = 0 \/ Cancels[n] \in st.done
    /\ (~ m /\ Cancels[n] # 0 /\ Cancels[n] \notin tw) => Cancels[n] \notin st.open

(* The cancelled order is in the index. *)
Closed(done, tw, ah) == \A c \in done \ (tw \union ah) : Cancels[c] = 0 \/ Cancels[c] \in done

(* w is the write set of block n, for the lookup m. *)
Effect(w, n, m, st, h) ==
  /\ w.n = n /\ w.add = {n} \ st.open /\ w.del = (IF m THEN {Cancels[n]} ELSE {})
  /\ w.levels = IF w.hydrated THEN OrdersAt(h) ELSE {}

Levels(book, w) == ((IF w.hydrated THEN w.levels ELSE book) \union w.add) \ w.del
TwiceWith(n, st, tw) == tw \union (IF n \in st.done THEN {n} ELSE {})

(* Block n is about to be applied; ah2 includes the block if it was looked up early. *)
Applies(h, st, w, tw, ah, ah2, n, m) ==
  /\ h \in Height /\ st \in State /\ w \in WriteSet /\ n \in Block /\ m \in BOOLEAN /\ n <= h
  /\ tw \subseteq Block /\ ah \subseteq ah2 /\ ah2 \subseteq Block
  /\ Within(st, h) /\ OpenRight(st, tw, ah) /\ Closed(st.done, tw, ah)
  /\ LookupRight(n, m, st, tw, ah2) /\ Effect(w, n, m, st, h)

Applied(h, st, w, tw, ah, ah2, n) ==
  LET st2 == Written(st, w)
      tw2 == TwiceWith(n, st, tw)
  IN  /\ Within(st2, h) /\ OpenRight(st2, tw2, ah2) /\ Closed(st2.done, tw2, ah2)
      /\ \A book : BookRight(book, st.done, tw, ah, h) =>
           BookRight(Levels(book, w), st2.done, tw2, ah2, h)
      /\ \A k \in Block : \A mk \in BOOLEAN : LookupRight(k, mk, st, tw, ah) =>
           LookupRight(k, mk, st2, tw2, ah2)

(* A block that is applied, quietly or not, for the first time or again, keeps *)
(* all of this, for any book that had it before: the memory's or the tables'.  *)
LEMMA BlockApplied ==
  ASSUME NEW h, NEW st, NEW w, NEW tw, NEW ah, NEW ah2, NEW n, NEW m,
         Applies(h, st, w, tw, ah, ah2, n, m)
  PROVE  Applied(h, st, w, tw, ah, ah2, n)
<1>0. /\ h \in Height /\ st \in State /\ w \in WriteSet /\ n \in Block /\ m \in BOOLEAN /\ n <= h
      /\ tw \subseteq Block /\ ah \subseteq ah2 /\ ah2 \subseteq Block
      /\ Within(st, h) /\ OpenRight(st, tw, ah) /\ Closed(st.done, tw, ah)
      /\ LookupRight(n, m, st, tw, ah2) /\ Effect(w, n, m, st, h)
  BY DEF Applies
<1>. USE <1>0
<1>. DEFINE tw2 == TwiceWith(n, st, tw)
            done2 == st.done \union {n}
            open2 == (st.open \union w.add) \ w.del
            book2 == ((IF w.hydrated THEN w.levels ELSE st.book) \union w.add) \ w.del
<1>. USE DEF Effect
<1>1. /\ Written(st, w) = [done |-> done2, open |-> open2, book |-> book2]
      /\ Written(st, w).done = done2 /\ Written(st, w).open = open2 /\ Written(st, w).book = book2
  BY DEF Written
<1>2. /\ h \in Nat /\ MaxBlock \in Nat /\ n \in 1..h /\ 1..h \subseteq Block /\ n \in Nat \ {0}
      /\ \A c \in Block : Cancels[c] \in Nat /\ Cancels[c] <= c
  BY PipelineBounds, CancelsAssumption DEF Height, Block
<1>3. st.done \subseteq 1..h /\ st.open \subseteq st.done /\ st.book \subseteq 1..h
  BY DEF Within
<1>4. OrdersAt(h) \subseteq 1..h /\ \A b \in 1..h : b \in OrdersAt(h) <=> \A c \in 1..h : Cancels[c] # b
  BY DEF OrdersAt, OpenIn
<1>5. w.add \subseteq {n} /\ w.del \subseteq {Cancels[n]} /\ w.levels \subseteq 1..h
  BY <1>4
<1>6. done2 \subseteq 1..h /\ open2 \subseteq done2 /\ book2 \subseteq 1..h
  BY <1>2, <1>3, <1>5
<1>. HIDE DEF tw2
<1>7. tw \subseteq tw2 /\ (n \in st.done => n \in tw2)
  BY DEF tw2, TwiceWith
(* An order that is calm afterwards is new or was calm before. *)
<1>8. ASSUME NEW b \in Calm(done2, tw2, ah2)
      PROVE  /\ b \in done2 /\ b \notin tw2 \union ah2 /\ \A c \in tw2 \union ah2 : Cancels[c] # b
             /\ b # n => b \in Calm(st.done, tw, ah)
             /\ b = n => n \notin st.done
  BY <1>7 DEF Calm, Touched
<1>9. ASSUME NEW b \in Calm(done2, tw2, ah2), b = n
      PROVE  Cancels[n] # n /\ \A c \in done2 : Cancels[c] # n
  <2>1. n \notin st.done /\ n \notin ah2 /\ \A c \in ah2 : Cancels[c] # n
    BY <1>8, <1>9
  <2>2. Cancels[n] # n
    BY <1>2, <2>1 DEF LookupRight
  <2>3. ASSUME NEW c \in st.done PROVE Cancels[c] # n
    <3>1. c \in tw \union ah => Cancels[c] # n
      BY <1>7, <1>8, <1>9
    <3>. QED
      BY <1>2, <2>1, <3>1 DEF Closed
  <2>. QED
    BY <2>2, <2>3
<1>10. Closed(done2, tw2, ah2)
  BY <1>7 DEF Closed, LookupRight
<1>11. ASSUME NEW b \in Calm(done2, tw2, ah2)
       PROVE  b \in open2 <=> \A c \in done2 : Cancels[c] # b
  <2>1. CASE b = n
    <3>1. n \notin st.open
      BY <1>3, <1>8, <2>1
    <3>2. n \in open2
      BY <1>9, <2>1, <3>1
    <3>. QED
      BY <1>9, <2>1, <3>2
  <2>2. CASE b # n
    <3>1. b \in st.done /\ b \in 1..h /\ (b \in st.open <=> \A c \in st.done : Cancels[c] # b)
      BY <1>3, <1>8, <2>2 DEF OpenRight, Calm
    <3>2. CASE Cancels[n] # b
      BY <1>5, <2>2, <3>1, <3>2
    <3>3. CASE Cancels[n] = b
      <4>1. n \notin ah2 /\ b \notin tw /\ b # 0
        <5>1. b \notin tw2 /\ \A c \in ah2 : Cancels[c] # b
          BY <1>8
        <5>2. b # 0
          BY <1>2, <3>1
        <5>. QED
          BY <1>7, <3>3, <5>1, <5>2
      <4>2. CASE m
        BY <3>3, <4>2
      <4>3. CASE ~ m
        <5>1. b \notin st.open
          BY <3>3, <4>1, <4>3 DEF LookupRight
        <5>. QED
          BY <1>5, <2>2, <3>3, <5>1
      <4>. QED
        BY <4>2, <4>3
    <3>. QED
      BY <3>2, <3>3
  <2>. QED
    BY <2>1, <2>2
<1>12. ASSUME NEW book, BookRight(book, st.done, tw, ah, h), NEW b \in Calm(done2, tw2, ah2)
       PROVE  LET bk == ((IF w.hydrated THEN w.levels ELSE book) \union w.add) \ w.del
              IN  /\ (\E c \in done2 : Cancels[c] = b) => b \notin bk
                  /\ (\A c \in 1..h : Cancels[c] # b) => b \in bk
  <2>. DEFINE base == IF w.hydrated THEN w.levels ELSE book
              bk == (base \union w.add) \ w.del
  <2>. SUFFICES /\ (\E c \in done2 : Cancels[c] = b) => b \notin bk
                /\ (\A c \in 1..h : Cancels[c] # b) => b \in bk
    OBVIOUS
  <2>1. CASE b = n
    <3>1. n \notin st.open
      BY <1>3, <1>8, <2>1
    <3>2. n \in bk
      BY <1>9, <2>1, <3>1
    <3>. QED
      BY <1>9, <2>1, <3>2
  <2>2. CASE b # n
    <3>1. /\ b \in st.done /\ b \in Calm(st.done, tw, ah) /\ b \in 1..h
          /\ (b \in st.open <=> \A c \in st.done : Cancels[c] # b)
      BY <1>3, <1>8, <2>2 DEF OpenRight, Calm
    <3>2. /\ (\E c \in st.done : Cancels[c] = b) => b \notin base
          /\ (\A c \in 1..h : Cancels[c] # b) => b \in base
      <4>1. CASE w.hydrated
        BY <1>3, <1>4, <3>1, <4>1
      <4>2. CASE ~ w.hydrated
        BY <1>12, <3>1, <4>2 DEF BookRight
      <4>. QED
        BY <4>1, <4>2
    <3>. HIDE DEF base
    <3>3. CASE Cancels[n] # b
      BY <1>5, <2>2, <3>2, <3>3
    <3>4. CASE Cancels[n] = b
      <4>1. n \notin ah2 /\ b \notin tw /\ b # 0
        <5>1. b \notin tw2 /\ \A c \in ah2 : Cancels[c] # b
          BY <1>8
        <5>2. b # 0
          BY <1>2, <3>1
        <5>. QED
          BY <1>7, <3>4, <5>1, <5>2
      <4>2. CASE m
        BY <1>2, <3>4, <4>2
      <4>3. CASE ~ m
        <5>1. b \notin st.open
          BY <3>4, <4>1, <4>3 DEF LookupRight
        <5>2. b \notin base
          BY <3>1, <3>2, <5>1
        <5>. QED
          BY <1>2, <1>5, <2>2, <3>4, <5>2
      <4>. QED
        BY <4>2, <4>3
    <3>. QED
      BY <3>3, <3>4
  <2>. QED
    BY <2>1, <2>2
<1>13. ASSUME NEW k \in Block, NEW mk \in BOOLEAN, LookupRight(k, mk, st, tw, ah)
       PROVE  k \notin ah2 =>
                /\ Cancels[k] = 0 \/ Cancels[k] \in done2
                /\ (~ mk /\ Cancels[k] # 0 /\ Cancels[k] \notin tw2) => Cancels[k] \notin open2
  <2>. SUFFICES ASSUME k \notin ah2
                PROVE  /\ Cancels[k] = 0 \/ Cancels[k] \in done2
                       /\ (~ mk /\ Cancels[k] # 0 /\ Cancels[k] \notin tw2) => Cancels[k] \notin open2
    OBVIOUS
  <2>1. /\ Cancels[k] = 0 \/ Cancels[k] \in st.done
        /\ (~ mk /\ Cancels[k] # 0 /\ Cancels[k] \notin tw) => Cancels[k] \notin st.open
    BY <1>13 DEF LookupRight
  <2>. QED
    BY <1>5, <1>7, <2>1
<1>14. Within(Written(st, w), h)
  BY <1>1, <1>6 DEF Within
<1>15. OpenRight(Written(st, w), tw2, ah2)
  BY <1>1, <1>11 DEF OpenRight
<1>16. \A book : BookRight(book, st.done, tw, ah, h) =>
         BookRight(Levels(book, w), done2, tw2, ah2, h)
  BY <1>12 DEF BookRight, Levels
<1>17. \A k \in Block : \A mk \in BOOLEAN : LookupRight(k, mk, st, tw, ah) =>
         LookupRight(k, mk, Written(st, w), tw2, ah2)
  BY <1>1, <1>13 DEF LookupRight
<1>. QED
  BY <1>1, <1>10, <1>14, <1>15, <1>16, <1>17 DEF tw2, Applied

(* An index without gaps is right, whatever happened before. *)
LEMMA ExactRight ==
  ASSUME NEW h \in Height, NEW t \in Height, h <= t, NEW tw \in SUBSET Block, NEW ah \in SUBSET Block
  PROVE  /\ Within(Exact(h), t) /\ OpenRight(Exact(h), tw, ah) /\ Closed(Exact(h).done, tw, ah)
         /\ BookRight(Exact(h).book, Exact(h).done, tw, ah, t)
<1>1. Exact(h).done = 1..h /\ Exact(h).open = OrdersAt(h) /\ Exact(h).book = OrdersAt(h)
  BY DEF Exact
<1>2. h \in Nat /\ t \in Nat /\ MaxBlock \in Nat /\ 1..h \subseteq 1..t /\ 1..h \subseteq Block
  BY PipelineBounds DEF Height, Block
<1>3. OrdersAt(h) \subseteq 1..h /\ \A b \in 1..h : b \in OrdersAt(h) <=> \A c \in 1..h : Cancels[c] # b
  BY DEF OrdersAt, OpenIn
<1>4. \A c \in 1..h : Cancels[c] = 0 \/ Cancels[c] \in 1..h
  <2>1. \A c \in Block : Cancels[c] \in Nat /\ Cancels[c] <= c
    BY <1>2, CancelsAssumption DEF Height
  <2>. QED
    BY <1>2, <2>1
<1>5. Within(Exact(h), t)
  BY <1>1, <1>2, <1>3 DEF Within
<1>6. OpenRight(Exact(h), tw, ah)
  BY <1>1, <1>3 DEF OpenRight, Calm
<1>7. Closed(Exact(h).done, tw, ah)
  BY <1>1, <1>4 DEF Closed
<1>8. BookRight(OrdersAt(h), 1..h, tw, ah, t)
  BY <1>2, <1>3 DEF BookRight, Calm
<1>. QED
  BY <1>1, <1>5, <1>6, <1>7, <1>8

(* A snapshot is right but for the peer's faults. *)
LEMMA SnapshotRight ==
  ASSUME NEW st \in State, NEW c \in Height, NEW t \in Height, c <= t, Snapshot(st, c),
         NEW tw \in SUBSET Block, NEW ah \in SUBSET Block, Faults(st, c) \subseteq tw
  PROVE  /\ Within(st, t) /\ OpenRight(st, tw, ah) /\ Closed(st.done, tw, ah)
         /\ BookRight(st.book, st.done, tw, ah, t)
<1>1. c \in Nat /\ t \in Nat /\ 1..c \subseteq 1..t
  BY PipelineBounds DEF Height
<1>2. /\ c \in st.done /\ st.done \subseteq 1..c
      /\ OpenIn(st.done) \subseteq st.open /\ st.open \subseteq st.done
      /\ (st.book = st.open \/ st.book = OrdersAt(c))
  BY DEF Snapshot
<1>3. /\ \A b \in st.done : b \in OpenIn(st.done) <=> \A e \in st.done : Cancels[e] # b
      /\ OrdersAt(c) \subseteq 1..c
      /\ \A b \in 1..c : b \in OrdersAt(c) <=> \A e \in 1..c : Cancels[e] # b
  BY DEF OpenIn, OrdersAt
<1>4. ASSUME NEW b \in st.done, b \notin tw
      PROVE  Cancels[b] \in st.done \union {0} /\ (b \in st.open => b \in OpenIn(st.done))
  BY <1>2, <1>4 DEF Faults
<1>5. Within(st, t)
  BY <1>1, <1>2, <1>3 DEF Within
<1>6. OpenRight(st, tw, ah)
  BY <1>2, <1>3, <1>4 DEF OpenRight, Calm, Touched
<1>7. Closed(st.done, tw, ah)
  BY <1>4 DEF Closed
<1>8. BookRight(st.book, st.done, tw, ah, t)
  <2>. SUFFICES ASSUME NEW b \in Calm(st.done, tw, ah)
                PROVE  /\ (\E e \in st.done : Cancels[e] = b) => b \notin st.book
                       /\ (\A e \in 1..t : Cancels[e] # b) => b \in st.book
    BY DEF BookRight
  <2>1. b \in st.done /\ b \notin tw
    BY DEF Calm, Touched
  <2>2. CASE st.book = st.open
    BY <1>1, <1>2, <1>3, <1>4, <2>1, <2>2
  <2>3. CASE st.book = OrdersAt(c)
    BY <1>1, <1>2, <1>3, <2>1, <2>3
  <2>. QED
    BY <1>2, <2>2, <2>3
<1>. QED
  BY <1>5, <1>6, <1>7, <1>8

(* Blocks that the memory has taken twice, or from a peer that had them wrong. *)
Wrong == twice \union inherited

(* Orders and levels are right in the memory, and so is every lookup under way. *)
Lookups ==
  /\ \A i \in 1..Len(prepared) :
       LookupRight(prepared[i].n, prepared[i].mapped, mem, Wrong, ahead)
  /\ dec.pc = "send" => LookupRight(dec.n, dec.mapped, mem, Wrong, ahead)
  /\ app.pc = "got" => LookupRight(app.n, app.mapped, mem, Wrong, ahead)

OrdersRight ==
  /\ Within(mem, tip) /\ OpenRight(mem, Wrong, ahead) /\ Closed(mem.done, Wrong, ahead)
  /\ BookRight(mem.book, mem.done, Wrong, ahead, tip)

L3 == OrdersRight /\ Lookups

(* They are right at the start ... *)
LEMMA InitL3 == Init => L3
<1>. SUFFICES ASSUME Init PROVE L3
  OBVIOUS
<1>1. PICK s \in 0..2, h \in 0..2, t \in Height : h <= t /\ tip = t /\ mem = Exact(h)
  BY DEF Init
<1>2. h \in Height
  BY <1>1, PipelineBounds DEF Height
<1>3. Wrong \in SUBSET Block /\ ahead \in SUBSET Block
  BY DEF Init, Wrong
<1>4. OrdersRight
  BY <1>1, <1>2, <1>3, ExactRight DEF OrdersRight
<1>5. prepared = <<>> /\ dec = Off /\ app = Off
  BY DEF Init
<1>6. Lookups
  BY <1>5 DEF Lookups, Off
<1>. QED
  BY <1>4, <1>6 DEF L3

(* ... after a block that was replayed or applied ... *)
LEMMA MemoryApplied ==
  ASSUME L1, OrdersRight, UNCHANGED tip, ahead' \in SUBSET Block, ahead \subseteq ahead',
         NEW n \in Block, NEW m \in BOOLEAN, NEW q \in BOOLEAN, n <= tip,
         LookupRight(n, m, mem, Wrong, ahead'),
         mem' = Written(mem, WriteSetOf(n, m, q)), Wrong' = Wrong \union Again(n)
  PROVE  /\ OrdersRight'
         /\ \A k \in Block : \A mk \in BOOLEAN : LookupRight(k, mk, mem, Wrong, ahead) =>
              LookupRight(k, mk, mem', Wrong', ahead')
         /\ \A R \in SUBSET Block : \A book : BookRight(book, mem.done, Wrong \union R, ahead, tip) =>
              BookRight(Levels(book, WriteSetOf(n, m, q)), mem'.done, Wrong' \union R, ahead', tip')
<1>. DEFINE w == WriteSetOf(n, m, q)
<1>1. tip \in Height /\ mem \in State /\ w \in WriteSet /\ Wrong \in SUBSET Block /\ ahead \in SUBSET Block
  BY WriteSetType DEF L1, Typed, NodeType, MemType, GhostType, Wrong
<1>2. Effect(w, n, m, mem, tip)
  BY DEF WriteSetOf, Effect
<1>3. /\ Within(mem, tip) /\ OpenRight(mem, Wrong, ahead) /\ Closed(mem.done, Wrong, ahead)
      /\ BookRight(mem.book, mem.done, Wrong, ahead, tip)
  BY DEF OrdersRight
<1>4. mem' = Written(mem, w) /\ Wrong' = TwiceWith(n, mem, Wrong) /\ tip' = tip
  BY DEF Again, TwiceWith
<1>. HIDE DEF w
<1>5. /\ Within(mem', tip) /\ OpenRight(mem', Wrong', ahead') /\ Closed(mem'.done, Wrong', ahead')
      /\ \A book : BookRight(book, mem.done, Wrong, ahead, tip) =>
           BookRight(Levels(book, w), mem'.done, Wrong', ahead', tip)
      /\ \A k \in Block : \A mk \in BOOLEAN : LookupRight(k, mk, mem, Wrong, ahead) =>
           LookupRight(k, mk, mem', Wrong', ahead')
  <2>1. Applies(tip, mem, w, Wrong, ahead, ahead', n, m)
    BY <1>1, <1>2, <1>3 DEF Applies
  <2>2. Applied(tip, mem, w, Wrong, ahead, ahead', n)
    BY <2>1, BlockApplied
  <2>. QED
    BY <1>4, <2>2 DEF Applied
<1>6. mem'.book = Levels(mem.book, w)
  BY <1>4 DEF Written, Levels
<1>7. BookRight(mem'.book, mem'.done, Wrong', ahead', tip)
  BY <1>3, <1>5, <1>6
<1>8. OrdersRight'
  BY <1>4, <1>5, <1>7 DEF OrdersRight
(* The same for a book that lacks further blocks R. *)
<1>9. ASSUME NEW R \in SUBSET Block, NEW book, BookRight(book, mem.done, Wrong \union R, ahead, tip)
      PROVE  BookRight(Levels(book, w), mem'.done, Wrong' \union R, ahead', tip)
  <2>. DEFINE tw == Wrong \union R
  <2>1. Calm(mem.done, tw, ahead) \subseteq Calm(mem.done, Wrong, ahead)
    BY DEF Calm, Touched
  <2>2. OpenRight(mem, tw, ahead) /\ Closed(mem.done, tw, ahead) /\ LookupRight(n, m, mem, tw, ahead')
    <3>1. OpenRight(mem, tw, ahead)
      BY <1>3, <2>1 DEF OpenRight
    <3>2. Closed(mem.done, tw, ahead)
      BY <1>3 DEF Closed
    <3>3. LookupRight(n, m, mem, tw, ahead')
      BY DEF LookupRight
    <3>. QED
      BY <3>1, <3>2, <3>3
  <2>3. tw \in SUBSET Block /\ TwiceWith(n, mem, tw) = Wrong' \union R
    BY <1>1, <1>4 DEF TwiceWith
  <2>4. BookRight(book, mem.done, tw, ahead, tip)
    BY <1>9
  <2>. HIDE DEF tw
  <2>5. Applies(tip, mem, w, tw, ahead, ahead', n, m)
    BY <1>1, <1>2, <1>3, <2>2, <2>3 DEF Applies
  <2>6. Applied(tip, mem, w, tw, ahead, ahead', n)
    BY <2>5, BlockApplied
  <2>. QED
    BY <1>4, <2>3, <2>4, <2>6 DEF Applied
<1>. QED
  BY <1>4, <1>5, <1>8, <1>9 DEF w


(* ... when the chain grows, or a block turns out to be looked up early ... *)
LEMMA StaysRight ==
  ASSUME NEW st, NEW h, NEW h2, NEW tw, NEW ah, NEW ah2, h \in Nat, h2 \in Nat, h <= h2, ah \subseteq ah2
  PROVE  /\ Within(st, h) => Within(st, h2)
         /\ OpenRight(st, tw, ah) => OpenRight(st, tw, ah2)
         /\ Closed(st.done, tw, ah) => Closed(st.done, tw, ah2)
         /\ \A book : BookRight(book, st.done, tw, ah, h) => BookRight(book, st.done, tw, ah2, h2)
<1>1. 1..h \subseteq 1..h2
  OBVIOUS
<1>2. Calm(st.done, tw, ah2) \subseteq Calm(st.done, tw, ah)
  BY DEF Calm, Touched
<1>3. Within(st, h) => Within(st, h2)
  BY <1>1 DEF Within
<1>4. OpenRight(st, tw, ah) => OpenRight(st, tw, ah2)
  BY <1>2 DEF OpenRight
<1>5. Closed(st.done, tw, ah) => Closed(st.done, tw, ah2)
  BY DEF Closed
<1>6. \A book : BookRight(book, st.done, tw, ah, h) => BookRight(book, st.done, tw, ah2, h2)
  BY <1>1, <1>2 DEF BookRight
<1>. QED
  BY <1>3, <1>4, <1>5, <1>6

(* What a replayed or applied block meets. *)
LEMMA ApplyingTypes ==
  ASSUME L1, L2
  PROVE  /\ tip \in Nat /\ mem \in State /\ Wrong \in SUBSET Block /\ ahead \in SUBSET Block
         /\ buffer # <<>> => Head(buffer) \in Block /\ Head(buffer) <= tip
         /\ app.pc = "got" => app.n \in Block /\ app.n <= tip /\ app.mapped \in BOOLEAN /\ app.quiet \in BOOLEAN
<1>1. tip \in Nat /\ mem \in State /\ Wrong \in SUBSET Block /\ ahead \in SUBSET Block /\ tip \in Height
  BY PipelineBounds DEF L1, Typed, NodeType, MemType, GhostType, Height, Wrong
<1>2. ASSUME buffer # <<>> PROVE Head(buffer) \in Block /\ Head(buffer) <= tip
  <2>1. buffer \in Seq(Block)
    BY DEF L1, Typed, StreamType
  <2>2. Head(buffer) \in Block /\ Head(buffer) \in Elements(buffer)
    BY <1>2, <2>1, TailFacts, ElementsFacts
  <2>3. Head(buffer) \in 1..tip
    BY <2>2 DEF L2, Produced, Waiting, InBuffer
  <2>. QED
    BY <1>1, <2>2, <2>3
<1>3. ASSUME app.pc = "got"
      PROVE  app.n \in Block /\ app.n <= tip /\ app.mapped \in BOOLEAN /\ app.quiet \in BOOLEAN
  <2>1. app.n \in 1..tip
    BY <1>3 DEF L2, Produced, Waiting, InPipeline, AtApply
  <2>. QED
    BY <1>1, <1>3, <2>1 DEF L1, Typed, AppType
<1>. QED
  BY <1>1, <1>2, <1>3

(* ... for a block that is prepared and replayed in one go ... *)
LEMMA ReplayApplied ==
  ASSUME L1, L2, OrdersRight, UNCHANGED tip, inherited \subseteq inherited', inherited' \in SUBSET Block,
         NEW n \in Block, n <= tip, ReplayQuietly(n)
  PROVE  OrdersRight'
<1>. DEFINE w == WriteSetOf(n, Mapped(n), TRUE)
            tw == twice \union inherited'
<1>1. /\ ahead' = (IF NotYetIndexed(n) THEN ahead \union {n} ELSE ahead)
      /\ tip \in Nat /\ tip \in Height /\ mem \in State /\ Wrong \in SUBSET Block /\ ahead \in SUBSET Block
  BY ApplyingTypes DEF ReplayQuietly, L1, Typed, NodeType
<1>2. ahead' \in SUBSET Block /\ ahead \subseteq ahead'
  BY <1>1
<1>3. Mapped(n) \in BOOLEAN
  BY DEF Mapped
<1>4. w \in WriteSet /\ Effect(w, n, Mapped(n), mem, tip)
  <2>1. w \in WriteSet
    BY <1>3, WriteSetType DEF L1
  <2>2. Effect(w, n, Mapped(n), mem, tip)
    BY DEF WriteSetOf, Effect
  <2>. QED
    BY <2>1, <2>2
<1>5. tw \in SUBSET Block /\ Wrong \subseteq tw
  BY <1>1 DEF Wrong
<1>6. mem' = Written(mem, w) /\ Wrong' = TwiceWith(n, mem, tw)
  BY DEF ReplayQuietly, Wrong, Again, TwiceWith
<1>7. Calm(mem.done, tw, ahead) \subseteq Calm(mem.done, Wrong, ahead)
  BY <1>5 DEF Calm, Touched
<1>8. /\ Within(mem, tip) /\ OpenRight(mem, Wrong, ahead) /\ Closed(mem.done, Wrong, ahead)
      /\ BookRight(mem.book, mem.done, Wrong, ahead, tip)
  BY DEF OrdersRight
<1>. HIDE DEF w, tw
<1>9. OpenRight(mem, tw, ahead) /\ Closed(mem.done, tw, ahead) /\ BookRight(mem.book, mem.done, tw, ahead, tip)
  <2>1. OpenRight(mem, tw, ahead)
    BY <1>7, <1>8 DEF OpenRight
  <2>2. Closed(mem.done, tw, ahead)
    BY <1>5, <1>8 DEF Closed
  <2>3. BookRight(mem.book, mem.done, tw, ahead, tip)
    BY <1>7, <1>8 DEF BookRight
  <2>. QED
    BY <2>1, <2>2, <2>3
<1>10. LookupRight(n, Mapped(n), mem, tw, ahead')
  BY <1>1 DEF LookupRight, NotYetIndexed, Mapped
<1>11. Applied(tip, mem, w, tw, ahead, ahead', n)
  <2>1. Applies(tip, mem, w, tw, ahead, ahead', n, Mapped(n))
    BY <1>1, <1>2, <1>3, <1>4, <1>5, <1>8, <1>9, <1>10 DEF Applies
  <2>. QED
    BY <2>1, BlockApplied
<1>12. mem'.book = Levels(mem.book, w)
  BY <1>6 DEF Written, Levels
<1>. QED
  BY <1>6, <1>9, <1>11, <1>12 DEF Applied, OrdersRight

(* ... and in every other step. *)
LEMMA NextOrdersRight == L1 /\ L2 /\ L3 /\ [Next]_vars => OrdersRight'
<1>. SUFFICES ASSUME L1, L2, L3, [Next]_vars PROVE OrdersRight'
  OBVIOUS
<1>1. OrdersRight /\ Lookups
  BY DEF L3
<1>2. tip \in Nat /\ tip \in Height /\ mem \in State /\ Wrong \in SUBSET Block /\ ahead \in SUBSET Block
  BY ApplyingTypes DEF L1, Typed, NodeType
<1>3. CASE Produce
  <2>1. tip' = tip + 1 /\ UNCHANGED <<mem, Wrong, ahead>> /\ tip <= tip + 1 /\ tip + 1 \in Nat
    BY <1>2, <1>3 DEF Produce, ghosts, Wrong
  <2>. QED
    BY <1>1, <1>2, <2>1, StaysRight DEF OrdersRight
<1>4. CASE HydrateAll
  <2>1. UNCHANGED <<tip, Wrong, ahead>> /\ (mem' = mem \/ mem' = [mem EXCEPT !.book = OrdersAt(tip)])
    BY <1>4 DEF HydrateAll, node, ghosts, Wrong
  <2>2. CASE mem' = mem
    BY <1>1, <2>1, <2>2 DEF OrdersRight
  <2>3. CASE mem' = [mem EXCEPT !.book = OrdersAt(tip)]
    <3>1. mem'.done = mem.done /\ mem'.open = mem.open /\ mem'.book = OrdersAt(tip)
      BY <1>2, <2>3 DEF State
    <3>2. OrdersAt(tip) \subseteq 1..tip
          /\ \A b \in 1..tip : b \in OrdersAt(tip) <=> \A c \in 1..tip : Cancels[c] # b
      BY DEF OrdersAt, OpenIn
    <3>3. mem.done \subseteq 1..tip
      BY <1>1 DEF OrdersRight, Within
    <3>4. BookRight(OrdersAt(tip), mem.done, Wrong, ahead, tip)
      BY <3>2, <3>3 DEF BookRight, Calm
    <3>5. Within(mem', tip)
      BY <1>1, <3>1, <3>2 DEF OrdersRight, Within
    <3>6. OpenRight(mem', Wrong, ahead) /\ Closed(mem'.done, Wrong, ahead)
      BY <1>1, <3>1 DEF OrdersRight, OpenRight
    <3>. QED
      BY <2>1, <3>1, <3>4, <3>5, <3>6 DEF OrdersRight
  <2>. QED
    BY <2>1, <2>2, <2>3
<1>5. CASE ImportSnapshot \/ ImportSnapshotFails
  <2>1. mem' \in State /\ Snapshot(mem', imp.c) /\ Faults(mem', imp.c) \subseteq inherited' /\ UNCHANGED tip
    BY <1>5, Imports DEF ImportSnapshot, ImportSnapshotFails, Disconnected, node
  <2>2. Wrong' \in SUBSET Block /\ ahead' \in SUBSET Block /\ Faults(mem', imp.c) \subseteq Wrong'
    BY <2>1, NextGhosts DEF GhostType, Wrong
  <2>3. imp.c \in Height /\ imp.c <= tip
    <3>1. Importing
      BY <1>5 DEF ImportSnapshot, ImportSnapshotFails, Importing
    <3>2. imp.c \in Height /\ imp.k \in Height /\ imp.p \in Height /\ imp.c <= imp.k /\ imp.k <= imp.p /\ imp.p <= tip
      BY <3>1 DEF L1, Typed, ImpType, Import
    <3>. QED
      BY <1>2, <3>2, PipelineBounds DEF Height
  <2>. QED
    BY <1>2, <2>1, <2>2, <2>3, SnapshotRight DEF OrdersRight
<1>6. CASE ImportPeerBlock
  <2>1. PICK n \in Block :
          /\ UNCHANGED tip /\ ReplayQuietly(n) /\ n <= tip
          /\ inherited' = inherited \union (imp.k + 1)..(n - 1) /\ (imp.k + 1)..(n - 1) \subseteq Block
    BY <1>6, NextRow
  <2>2. inherited \subseteq inherited' /\ inherited' \in SUBSET Block
    BY <2>1, NextGhosts DEF GhostType
  <2>. QED
    BY <1>1, <2>1, <2>2, ReplayApplied
<1>7. CASE ImportLiveBlock
  <2>1. UNCHANGED <<tip, inherited>> /\ ReplayQuietly(Head(buffer)) /\ Head(buffer) \in Block /\ Head(buffer) <= tip
    BY <1>7, ApplyingTypes DEF ImportLiveBlock, node
  <2>2. inherited \subseteq inherited' /\ inherited' \in SUBSET Block
    BY <2>1, NextGhosts DEF GhostType
  <2>. QED
    BY <1>1, <2>1, <2>2, ReplayApplied
<1>8. CASE ApplyBlock
  <2>1. /\ app.n \in Block /\ app.n <= tip /\ app.mapped \in BOOLEAN /\ app.quiet \in BOOLEAN
        /\ UNCHANGED <<tip, ahead>> /\ Wrong' = Wrong \union Again(app.n)
        /\ mem' = Written(mem, WriteSetOf(app.n, app.mapped, app.quiet))
    BY <1>8, ApplyingTypes DEF ApplyBlock, node, Wrong
  <2>2. LookupRight(app.n, app.mapped, mem, Wrong, ahead')
    BY <1>1, <1>8, <2>1 DEF Lookups, ApplyBlock
  <2>3. ahead' \in SUBSET Block /\ ahead \subseteq ahead'
    BY <1>2, <2>1
  <2>. QED
    BY <1>1, <2>1, <2>2, <2>3, MemoryApplied
<1>9. CASE PrepareBlock
  <2>1. UNCHANGED <<tip, mem, Wrong>> /\ ahead \subseteq ahead'
    BY <1>9 DEF PrepareBlock, node, Wrong
  <2>2. tip <= tip /\ Within(mem, tip) /\ OpenRight(mem, Wrong, ahead) /\ Closed(mem.done, Wrong, ahead)
        /\ BookRight(mem.book, mem.done, Wrong, ahead, tip)
    BY <1>1, <1>2 DEF OrdersRight
  <2>3. OpenRight(mem, Wrong, ahead') /\ Closed(mem.done, Wrong, ahead')
        /\ BookRight(mem.book, mem.done, Wrong, ahead', tip)
    BY <1>2, <2>1, <2>2, StaysRight
  <2>. QED
    BY <2>1, <2>2, <2>3 DEF OrdersRight
<1>10. CASE UNCHANGED <<tip, mem, Wrong, ahead>>
  BY <1>1, <1>10 DEF OrdersRight
<1>. QED
  BY <1>3, <1>4, <1>5, <1>6, <1>7, <1>8, <1>9, <1>10, Moves DEF Wrong

(* A lookup stays right while its block is on its way to the index ... *)
LEMMA NextLookups == L1 /\ L2 /\ L3 /\ [Next]_vars => Lookups'
<1>. SUFFICES ASSUME L1, L2, L3, [Next]_vars PROVE Lookups'
  OBVIOUS
<1>. DEFINE Ok(n, m) == LookupRight(n, m, mem, Wrong, ahead)
            Ok2(n, m) == LookupRight(n, m, mem', Wrong', ahead')
<1>1. /\ OrdersRight /\ \A i \in 1..Len(prepared) : Ok(prepared[i].n, prepared[i].mapped)
      /\ dec.pc = "send" => Ok(dec.n, dec.mapped)
      /\ app.pc = "got" => Ok(app.n, app.mapped)
  BY DEF L3, Lookups
<1>2. /\ prepared \in Seq(Job) /\ tip \in Nat
      /\ \A i \in 1..Len(prepared) : prepared[i].n \in Block /\ prepared[i].mapped \in BOOLEAN
      /\ dec.pc = "send" => dec.n \in Block /\ dec.mapped \in BOOLEAN
      /\ app.pc = "got" => app.n \in Block /\ app.mapped \in BOOLEAN
  <2>1. prepared \in Seq(Job) /\ \A j \in Job : j.n \in Block /\ j.mapped \in BOOLEAN
    BY DEF L1, Typed, ChannelType, Job
  <2>2. \A i \in 1..Len(prepared) : prepared[i] \in Job
    BY <2>1, SequenceFacts
  <2>3. /\ dec.pc = "send" => dec.n \in Block /\ dec.mapped \in BOOLEAN
        /\ app.pc = "got" => app.n \in Block /\ app.mapped \in BOOLEAN
    BY DEF L1, Typed, DecType, AppType
  <2>. QED
    BY <2>1, <2>2, <2>3, ApplyingTypes
<1>3. ASSUME prepared' = <<>>, dec'.pc # "send", app'.pc # "got" PROVE Lookups'
  <2>1. Len(prepared') = 0
    BY <1>3
  <2>. QED
    BY <1>3, <2>1 DEF Lookups
<1>4. CASE GoLive \/ FinishCatchup
  BY <1>3, <1>4 DEF GoLive, FinishCatchup, StartPipeline, Idle
<1>5. CASE Drop \/ ImportSnapshot \/ ImportPeerBlock \/ ImportLiveBlock \/ HydrateAll
  <2>1. CASE PipelineEnds
    <3>1. prepared' = <<>> /\ dec' = Off /\ app' = Off
      BY <2>1 DEF PipelineEnds, L2, Channels
    <3>. QED
      BY <1>3, <3>1 DEF Off
  <2>2. CASE ~ PipelineEnds
    <3>1. link \notin {"live", "stopped", "saved"} /\ UNCHANGED <<prepared, dec, app>>
      BY <1>5, <2>2 DEF Drop, SubscribeFails, CatchupFails, ImportSnapshotFails, ImportFails,
         ImportSnapshot, ImportPeerBlock, ImportLiveBlock, HydrateAll, workers
    <3>2. dec.pc = "off" /\ app.pc = "off"
      BY <3>1 DEF L1, Phases, Running
    <3>3. prepared = <<>>
      BY <3>2 DEF L2, Channels
    <3>. QED
      BY <1>3, <3>1, <3>2, <3>3
  <2>. QED
    BY <2>1, <2>2
<1>6. CASE ApplyBlock
  <2>1. /\ app.n \in Block /\ app.n <= tip /\ app.mapped \in BOOLEAN /\ app.quiet \in BOOLEAN
        /\ UNCHANGED <<tip, ahead>> /\ Wrong' = Wrong \union Again(app.n)
        /\ mem' = Written(mem, WriteSetOf(app.n, app.mapped, app.quiet))
    BY <1>6, ApplyingTypes DEF ApplyBlock, node, Wrong
  <2>2. LookupRight(app.n, app.mapped, mem, Wrong, ahead')
    BY <1>1, <1>6, <2>1 DEF ApplyBlock
  <2>3. ahead' \in SUBSET Block /\ ahead \subseteq ahead'
    BY <2>1, ApplyingTypes
  <2>4. \A k \in Block : \A mk \in BOOLEAN : Ok(k, mk) => Ok2(k, mk)
    BY <1>1, <2>1, <2>2, <2>3, MemoryApplied
  <2>5. UNCHANGED <<prepared, dec>> /\ app'.pc = "enqueue"
    BY <1>6 DEF ApplyBlock
  <2>. HIDE DEF Ok, Ok2
  <2>6. \A i \in 1..Len(prepared) : Ok2(prepared[i].n, prepared[i].mapped)
    BY <1>1, <1>2, <2>4
  <2>7. dec.pc = "send" => Ok2(dec.n, dec.mapped)
    BY <1>1, <1>2, <2>4
  <2>. QED
    BY <2>5, <2>6, <2>7 DEF Lookups, Ok2
<1>7. CASE PrepareBlock
  <2>1. /\ UNCHANGED <<mem, Wrong, prepared, app>> /\ ahead \subseteq ahead'
        /\ dec' = [pc |-> "send", n |-> dec.n, mapped |-> Mapped(dec.n)]
        /\ ahead' = IF NotYetIndexed(dec.n) THEN ahead \union {dec.n} ELSE ahead
    BY <1>7 DEF PrepareBlock, Wrong
  <2>2. \A n, m : Ok(n, m) => Ok2(n, m)
    BY <2>1 DEF LookupRight
  <2>3. Ok2(dec.n, Mapped(dec.n))
    BY <2>1 DEF LookupRight, NotYetIndexed, Mapped
  <2>. HIDE DEF Ok, Ok2
  <2>4. \A i \in 1..Len(prepared) : Ok2(prepared[i].n, prepared[i].mapped)
    BY <1>1, <2>2
  <2>5. app.pc = "got" => Ok2(app.n, app.mapped)
    BY <1>1, <2>2
  <2>6. dec'.n = dec.n /\ dec'.mapped = Mapped(dec.n)
    BY <2>1
  <2>. QED
    BY <2>1, <2>3, <2>4, <2>5, <2>6 DEF Lookups, Ok2
<1>8. ASSUME UNCHANGED <<mem, Wrong, ahead>>
      PROVE  \A n, m : Ok2(n, m) <=> Ok(n, m)
  BY <1>8
<1>9. CASE SendPrepared
  <2>. DEFINE job == [n |-> dec.n, mapped |-> dec.mapped]
  <2>1. /\ UNCHANGED <<mem, Wrong, ahead, app>> /\ dec.pc = "send" /\ dec' = Idle
        /\ prepared' = Append(prepared, job)
    BY <1>9 DEF SendPrepared, ghosts, Wrong
  <2>2. job \in Job
    BY <1>2, <2>1 DEF Job
  <2>3. /\ Len(prepared) \in Nat /\ Len(prepared') = Len(prepared) + 1
        /\ \A i \in 1..Len(prepared) : prepared'[i] = prepared[i]
        /\ prepared'[Len(prepared) + 1] = job
    BY <1>2, <2>1, <2>2, AppendFacts
  <2>4. \A i \in 1..Len(prepared') : i \in 1..Len(prepared) \/ i = Len(prepared) + 1
    BY <2>3
  <2>5. job.n = dec.n /\ job.mapped = dec.mapped /\ Ok(dec.n, dec.mapped)
    BY <1>1, <2>1
  <2>. HIDE DEF Ok, Ok2, job
  <2>6. \A i \in 1..Len(prepared') : Ok(prepared'[i].n, prepared'[i].mapped)
    BY <1>1, <2>3, <2>4, <2>5
  <2>. QED
    BY <1>1, <1>8, <2>1, <2>6 DEF Lookups, Idle, Ok, Ok2
<1>10. CASE ApplyTake
  <2>1. /\ UNCHANGED <<mem, Wrong, ahead, dec>> /\ prepared # <<>> /\ prepared' = Tail(prepared)
        /\ app'.n = Head(prepared).n /\ app'.mapped = Head(prepared).mapped
    BY <1>10 DEF ApplyTake, ghosts, Wrong
  <2>2. /\ Len(prepared) \in Nat \ {0} /\ Head(prepared) = prepared[1]
        /\ Len(prepared') = Len(prepared) - 1
        /\ \A i \in 1..Len(prepared) - 1 : prepared'[i] = prepared[i + 1]
    BY <1>2, <2>1, TailFacts
  <2>3. 1 \in 1..Len(prepared) /\ \A i \in 1..Len(prepared) - 1 : i + 1 \in 1..Len(prepared)
    BY <2>2
  <2>. HIDE DEF Ok, Ok2
  <2>4. \A i \in 1..Len(prepared') : Ok(prepared'[i].n, prepared'[i].mapped)
    BY <1>1, <2>2, <2>3
  <2>5. Ok(app'.n, app'.mapped)
    BY <1>1, <2>1, <2>2, <2>3
  <2>. QED
    BY <1>1, <1>8, <2>1, <2>4, <2>5 DEF Lookups, Ok, Ok2
<1>11. CASE DecodeTake \/ DecodeEnds
  <2>1. UNCHANGED <<mem, Wrong, ahead, prepared, app>> /\ dec'.pc # "send"
    BY <1>11 DEF DecodeTake, DecodeEnds, ghosts, Ended, Wrong
  <2>. QED
    BY <1>1, <2>1 DEF Lookups
<1>12. CASE EnqueueWrite
  <2>1. UNCHANGED <<mem, Wrong, ahead, prepared, dec>> /\ app'.pc # "got"
    BY <1>12 DEF EnqueueWrite, ghosts, Idle, Wrong
  <2>. QED
    BY <1>1, <2>1 DEF Lookups
<1>13. CASE ApplyEnds
  <2>1. UNCHANGED <<mem, Wrong, ahead, dec>> /\ app'.pc # "got" /\ prepared' = <<>>
    BY <1>13 DEF ApplyEnds, ghosts, Ended, Wrong
  <2>2. Len(prepared') = 0
    BY <2>1
  <2>. QED
    BY <1>1, <2>1, <2>2 DEF Lookups
<1>14. CASE UNCHANGED <<mem, Wrong, ahead, prepared, dec, app>>
  BY <1>1, <1>14 DEF Lookups
<1>. QED
  BY <1>4, <1>5, <1>6, <1>7, <1>9, <1>10, <1>11, <1>12, <1>13, <1>14, Moves DEF Drop, Wrong

(* ... so the layer is inductive. *)
LEMMA NextL3 == L1 /\ L2 /\ L3 /\ [Next]_vars => L3'
BY NextOrdersRight, NextLookups DEF L3

(* Whatever the decode worker looked up while apply was behind, however often   *)
(* the task reconnected and whatever a catch-up brought: with every block of    *)
(* the index applied once and none looked up before the order it cancels, the   *)
(* open orders are the chain's (OpenOrdersExact).                               *)
THEOREM OpenOrdersCorrect == Spec => []OpenOrdersExact
<1>1. L1 /\ L3 => OpenOrdersExact
  <2>. SUFFICES ASSUME L1, L3, mem.done = 1..head, twice = {}, ahead = {}, inherited = {} PROVE mem.open = OrdersAt(head)
    BY DEF OpenOrdersExact
  <2>1. Calm(mem.done, Wrong, ahead) = mem.done
    BY DEF Calm, Touched, Wrong
  <2>2. \A b \in mem.done : b \in mem.open <=> \A c \in mem.done : Cancels[c] # b
    BY <2>1 DEF L3, OrdersRight, OpenRight
  <2>3. mem.open \subseteq 1..head
    BY DEF L3, OrdersRight, Within
  <2>. QED
    BY <2>2, <2>3 DEF OrdersAt, OpenIn
<1>. QED
  BY <1>1, InitL1, NextL1, InitL2, NextL2, InitL3, NextL3, PTL DEF Spec

-----------------------------------------------------------------------------
(* The tables. *)

Synced == link # "importing" /\ ~ torn

(* t has the memory's blocks and open orders but for what was replayed, and *)
(* levels as right as the memory's.                                         *)
Follows(t) == /\ mem.done = t.done \union replayed
              /\ mem.open \ Touched(replayed) = t.open \ Touched(replayed)
              /\ BookRight(t.book, mem.done, Wrong \union replayed, ahead, tip) /\ t.book \subseteq 1..tip

(* Between a block and its write set the tables are one write behind. *)
TablesInv ==
  /\ app.pc = "enqueue" => Written(mem, app.ws) = mem /\ app.n = head
  /\ Synced => /\ app.pc # "enqueue" => Follows(tables.st) /\ (tables.n = head \/ head \in replayed)
               /\ app.pc = "enqueue" => Follows(Written(tables.st, app.ws))

(* Writing the same again changes nothing. *)
LEMMA WrittenTwice ==
  ASSUME NEW st, NEW w PROVE Written(Written(st, w), w) = Written(st, w)
<1>. DEFINE u == Written(st, w)
<1>1. /\ u.done = st.done \union {w.n} /\ u.open = (st.open \union w.add) \ w.del
      /\ u.book = ((IF w.hydrated THEN w.levels ELSE st.book) \union w.add) \ w.del
      /\ u = [done |-> u.done, open |-> u.open, book |-> u.book]
  BY DEF Written
<1>. HIDE DEF u
<1>2. u.done \union {w.n} = u.done
  BY <1>1
<1>3. (u.open \union w.add) \ w.del = u.open
  BY <1>1
<1>4. ((IF w.hydrated THEN w.levels ELSE u.book) \union w.add) \ w.del = u.book
  BY <1>1
<1>5. Written(u, w) = [done |-> u.done, open |-> u.open, book |-> u.book]
  BY <1>2, <1>3, <1>4 DEF Written
<1>. QED
  BY <1>1, <1>5 DEF u

(* The memory follows itself, with nothing left to write. *)
LEMMA MemoryFollows == L3' /\ replayed' = {} => Follows(mem)'
<1>. SUFFICES ASSUME L3', replayed' = {} PROVE Follows(mem)'
  OBVIOUS
<1>1. BookRight(mem'.book, mem'.done, Wrong', ahead', tip') /\ mem'.book \subseteq 1..tip'
  BY DEF L3, OrdersRight, Within
<1>2. Wrong' \union replayed' = Wrong' /\ mem'.done \union replayed' = mem'.done
  OBVIOUS
<1>. QED
  BY <1>1, <1>2 DEF Follows

(* The recovered tables are the memory before the replay ... *)
LEMMA InitTables == Init => TablesInv
<1>. SUFFICES ASSUME Init PROVE TablesInv
  OBVIOUS
<1>1. PICK s \in 0..2, h \in 0..2, t \in Height :
        /\ s <= h /\ h <= t /\ head = h /\ tip = t /\ mem = Exact(h)
        /\ tables = [n |-> s, st |-> Exact(s)] /\ replayed = (s + 1)..h
  BY DEF Init
<1>2. app.pc = "off"
  BY DEF Init, Off
<1>3. tables.n = head \/ head \in replayed
  BY <1>1
<1>4. /\ mem.done = 1..h /\ mem.open = OrdersAt(h)
      /\ tables.st.done = 1..s /\ tables.st.open = OrdersAt(s) /\ tables.st.book = OrdersAt(s)
  BY <1>1 DEF Exact
<1>5. /\ OrdersAt(s) \subseteq 1..s /\ OrdersAt(h) \subseteq 1..h
      /\ \A b \in 1..s : b \in OrdersAt(s) <=> \A c \in 1..s : Cancels[c] # b
      /\ \A b \in 1..h : b \in OrdersAt(h) <=> \A c \in 1..h : Cancels[c] # b
  BY DEF OrdersAt, OpenIn
<1>6. /\ 1..h = 1..s \union (s + 1)..h /\ 1..h \subseteq 1..tip /\ 1..s \subseteq 1..h
  BY <1>1, PipelineBounds DEF Height
<1>7. \A b : b \notin Touched(replayed) => b \notin replayed /\ \A c \in replayed : Cancels[c] # b
  BY DEF Touched
<1>8. mem.done = tables.st.done \union replayed
  BY <1>1, <1>4, <1>6
<1>9. mem.open \ Touched(replayed) = tables.st.open \ Touched(replayed)
  BY <1>1, <1>4, <1>5, <1>6, <1>7
<1>10. BookRight(OrdersAt(s), 1..h, Wrong \union replayed, ahead, tip)
  <2>. SUFFICES ASSUME NEW b \in Calm(1..h, Wrong \union replayed, ahead)
                PROVE  /\ (\E c \in 1..h : Cancels[c] = b) => b \notin OrdersAt(s)
                       /\ (\A c \in 1..tip : Cancels[c] # b) => b \in OrdersAt(s)
    BY DEF BookRight
  <2>1. b \in 1..h /\ b \notin replayed /\ \A c \in replayed : Cancels[c] # b
    BY DEF Calm, Touched
  <2>. QED
    BY <1>1, <1>5, <1>6, <2>1
<1>11. Follows(tables.st)
  BY <1>4, <1>5, <1>6, <1>8, <1>9, <1>10 DEF Follows
<1>. QED
  BY <1>2, <1>3, <1>11 DEF TablesInv

(* ... and every action keeps them so, or one write behind. *)
LEMMA NextTables == L1 /\ L2 /\ L3 /\ L3' /\ TablesInv /\ [Next]_vars => TablesInv'
<1>. SUFFICES ASSUME L1, L2, L3, L3', TablesInv, [Next]_vars PROVE TablesInv'
  OBVIOUS
<1>1. /\ app.pc = "enqueue" => Written(mem, app.ws) = mem /\ app.n = head
      /\ Synced => /\ app.pc # "enqueue" => Follows(tables.st) /\ (tables.n = head \/ head \in replayed)
                   /\ app.pc = "enqueue" => Follows(Written(tables.st, app.ws))
  BY DEF TablesInv
<1>2. tip \in Nat /\ replayed \in SUBSET Block /\ (replayed' = {} => Follows(mem)')
  BY ApplyingTypes, MemoryFollows DEF L1, Typed, GhostType
<1>3. Synced' => Synced \/ FinishCatchup
  <2>1. torn => torn'
    BY Moves DEF ImportSnapshotFails, ImportFails, TaskStops
  <2>2. CASE link = "importing"
    <3>1. Drop => torn'
      BY <2>2 DEF Drop, SubscribeFails, CatchupFails, ImportSnapshotFails, ImportFails, PipelineEnds
    <3>. QED
      BY <2>2, <3>1, Moves DEF Synced, HydrateAll, Subscribe, GoLive, StartCatchup, ImportSnapshot,
         TaskStops, SaveAtShutdown, Downloaded
  <2>. QED
    BY <2>1, <2>2 DEF Synced
(* A step that leaves the index, the tables and the apply worker's write alone. *)
<1>4. ASSUME UNCHANGED <<Wrong, replayed>>, mem'.done = mem.done, mem'.open = mem.open,
             tip' \in Nat, tip <= tip', ahead \subseteq ahead', NEW t, Follows(t)
      PROVE  /\ mem'.done = t.done \union replayed'
             /\ mem'.open \ Touched(replayed') = t.open \ Touched(replayed')
             /\ BookRight(t.book, mem'.done, Wrong' \union replayed', ahead', tip') /\ t.book \subseteq 1..tip'
  <2>. DEFINE bk == t.book
              tw == Wrong \union replayed
  <2>1. 1..tip \subseteq 1..tip'
    BY <1>2, <1>4
  <2>2. BookRight(bk, mem.done, tw, ahead, tip) => BookRight(bk, mem.done, tw, ahead', tip')
    <3>1. Calm(mem.done, tw, ahead') \subseteq Calm(mem.done, tw, ahead)
      BY <1>4 DEF Calm, Touched
    <3>. HIDE DEF bk, tw
    <3>. QED
      BY <2>1, <3>1 DEF BookRight
  <2>3. /\ mem.done = t.done \union replayed /\ mem.open \ Touched(replayed) = t.open \ Touched(replayed)
        /\ BookRight(bk, mem.done, tw, ahead, tip) /\ bk \subseteq 1..tip
    BY <1>4 DEF Follows
  <2>4. Touched(replayed') = Touched(replayed) /\ Wrong' \union replayed' = tw
    BY <1>4
  <2>. HIDE DEF bk, tw
  <2>5. BookRight(bk, mem'.done, Wrong' \union replayed', ahead', tip') /\ bk \subseteq 1..tip'
    BY <1>4, <2>1, <2>2, <2>3, <2>4
  <2>. QED
    BY <1>4, <2>3, <2>4, <2>5 DEF bk
<1>5. ASSUME UNCHANGED <<tables, head, Wrong, replayed>>, mem'.done = mem.done, mem'.open = mem.open,
             app.pc = "enqueue" => mem' = mem /\ app' = app, app'.pc = "enqueue" => app.pc = "enqueue",
             Synced' => Synced, tip' \in Nat, tip <= tip', ahead \subseteq ahead'
      PROVE  TablesInv'
  <2>1. CASE app.pc # "enqueue"
    <3>1. Follows(tables.st) => Follows(tables.st)'
      BY <1>4, <1>5 DEF Follows
    <3>. QED
      BY <1>1, <1>5, <2>1, <3>1 DEF TablesInv
  <2>2. CASE app.pc = "enqueue"
    <3>. DEFINE t == Written(tables.st, app.ws)
    <3>1. Written(tables'.st, app'.ws) = t
      BY <1>5, <2>2
    <3>. HIDE DEF t
    <3>2. Follows(t) => Follows(Written(tables.st, app.ws))'
      BY <1>4, <1>5, <3>1 DEF Follows
    <3>. QED
      BY <1>1, <1>5, <2>2, <3>2 DEF TablesInv, t
  <2>. QED
    BY <2>1, <2>2
<1>6. CASE Produce
  <2>1. tip' = tip + 1 /\ UNCHANGED <<tables, head, Wrong, replayed, mem, app, ahead, link, torn>>
    BY <1>6 DEF Produce, workers, ghosts, Wrong
  <2>2. Synced' = Synced /\ tip' \in Nat /\ tip <= tip'
    BY <1>2, <2>1 DEF Synced
  <2>. QED
    BY <1>5, <2>1, <2>2
<1>7. CASE HydrateAll
  <2>1. /\ UNCHANGED <<tip, tables, head, Wrong, replayed, app, ahead, torn>> /\ link = "down"
        /\ (mem' = mem \/ mem' = [mem EXCEPT !.book = OrdersAt(tip)])
    BY <1>7 DEF HydrateAll, node, workers, ghosts, Wrong
  <2>2. mem'.done = mem.done /\ mem'.open = mem.open
    <3>1. mem \in State
      BY ApplyingTypes
    <3>. QED
      BY <2>1, <3>1 DEF State
  <2>3. app.pc = "off" /\ (Synced' => Synced)
    BY <2>1 DEF L1, Phases, Running, Synced
  <2>. QED
    BY <1>2, <1>5, <2>1, <2>2, <2>3
<1>8. CASE ImportSnapshot \/ ImportSnapshotFails \/ ImportPeerBlock \/ ImportLiveBlock
  <2>1. app' = app /\ link \notin {"live", "stopped", "saved"}
    BY <1>8 DEF ImportSnapshot, ImportSnapshotFails, ImportPeerBlock, ImportLiveBlock, workers
  <2>2. app.pc = "off"
    BY <2>1 DEF L1, Phases, Running
  <2>3. ~ Synced'
    BY <1>8 DEF ImportSnapshot, ImportSnapshotFails, ImportPeerBlock, ImportLiveBlock, Synced
  <2>. QED
    BY <2>1, <2>2, <2>3 DEF TablesInv
<1>9. CASE FinishCatchup
  <2>1. tables'.n = head' /\ tables'.st = mem' /\ app'.pc # "enqueue" /\ replayed' = {}
    BY <1>9 DEF FinishCatchup, StartPipeline, Idle
  <2>2. Follows(tables.st)'
    BY <1>2, <2>1 DEF Follows
  <2>. QED
    BY <2>1, <2>2 DEF TablesInv
<1>10. CASE ApplyBlock
  <2>. DEFINE w == WriteSetOf(app.n, app.mapped, app.quiet)
              t == tables.st
              u == Written(t, w)
  <2>1. /\ app.pc = "got" /\ app.n \in Block /\ app.n <= tip /\ app.mapped \in BOOLEAN /\ app.quiet \in BOOLEAN
        /\ UNCHANGED <<tip, ahead, tables, link, torn, replayed>> /\ Wrong' = Wrong \union Again(app.n)
        /\ mem' = Written(mem, w) /\ app' = [pc |-> "enqueue", n |-> app.n, ws |-> w] /\ head' = app.n
    BY <1>10, ApplyingTypes DEF ApplyBlock, node, Wrong
  <2>2. LookupRight(app.n, app.mapped, mem, Wrong, ahead')
    BY <2>1 DEF L3, Lookups
  <2>3. ahead' \in SUBSET Block /\ ahead \subseteq ahead'
    BY <2>1, ApplyingTypes
  <2>4. \A book : BookRight(book, mem.done, Wrong \union replayed, ahead, tip) =>
          BookRight(Levels(book, w), mem'.done, Wrong' \union replayed, ahead', tip')
    BY <1>2, <2>1, <2>2, <2>3, MemoryApplied DEF L3
  <2>5. /\ Effect(w, app.n, app.mapped, mem, tip)
        /\ OrdersAt(tip) \subseteq 1..tip
        /\ app.n \in 1..tip
    <3>1. Effect(w, app.n, app.mapped, mem, tip)
      BY <2>1 DEF WriteSetOf, Effect
    <3>2. OrdersAt(tip) \subseteq 1..tip
      BY DEF OrdersAt, OpenIn
    <3>3. app.n \in 1..tip
      BY <1>2, <2>1, PipelineBounds DEF Block
    <3>. QED
      BY <3>1, <3>2, <3>3
  <2>. HIDE DEF w
  <2>6. Written(mem', w) = mem'
    BY <2>1, WrittenTwice
  <2>7. ASSUME Synced PROVE Follows(Written(tables.st, app.ws))'
    <3>. DEFINE T == Touched(replayed)
    <3>1. /\ mem.done = t.done \union replayed /\ mem.open \ T = t.open \ T
          /\ BookRight(t.book, mem.done, Wrong \union replayed, ahead, tip) /\ t.book \subseteq 1..tip
      BY <1>1, <2>1, <2>7 DEF Follows
    <3>. HIDE DEF T
    <3>2. mem'.done = u.done \union replayed /\ mem'.open \ T = u.open \ T /\ u.book = Levels(t.book, w)
      <4>1. u.done = t.done \union {w.n} /\ u.open = (t.open \union w.add) \ w.del
        BY DEF Written
      <4>2. mem'.done = mem.done \union {w.n} /\ mem'.open = (mem.open \union w.add) \ w.del
        BY <2>1 DEF Written
      <4>3. u.book = Levels(t.book, w)
        BY DEF Written, Levels
      <4>. QED
        BY <3>1, <4>1, <4>2, <4>3
    <3>3. BookRight(u.book, mem'.done, Wrong' \union replayed, ahead', tip')
      BY <2>4, <3>1, <3>2
    <3>4. u.book \subseteq 1..tip'
      BY <2>1, <2>5, <3>1, <3>2 DEF Levels, Effect
    <3>5. Written(tables'.st, app'.ws) = u
      BY <2>1
    <3>. HIDE DEF u, t
    <3>. QED
      BY <2>1, <3>2, <3>3, <3>4, <3>5 DEF Follows, T
  <2>8. Synced' => Synced
    BY <2>1 DEF Synced
  <2>. QED
    BY <2>1, <2>6, <2>7, <2>8 DEF TablesInv
<1>11. CASE EnqueueWrite
  <2>1. /\ app.pc = "enqueue" /\ UNCHANGED <<tip, mem, head, Wrong, replayed, ahead, link, torn>>
        /\ app' = Idle /\ tables'.n = app.n /\ tables'.st = Written(tables.st, app.ws)
    BY <1>11 DEF EnqueueWrite, node, ghosts, Wrong
  <2>2. Synced' = Synced
    BY <2>1 DEF Synced
  <2>3. Synced => Follows(tables.st)'
    BY <1>1, <2>1 DEF Follows
  <2>. QED
    BY <1>1, <2>1, <2>2, <2>3 DEF TablesInv, Idle
<1>12. CASE SaveAtShutdown
  <2>1. /\ link = "stopped" /\ UNCHANGED <<tip, mem, head, Wrong, ahead, torn, app>>
        /\ \/ tables' = tables /\ replayed' = replayed
           \/ tables'.n = head /\ tables'.st = mem /\ replayed' = {}
        /\ link' = "saved"
    BY <1>12 DEF SaveAtShutdown, node, workers, Wrong
  <2>2. Synced' => Synced
    BY <2>1 DEF Synced
  <2>3. CASE tables' = tables /\ replayed' = replayed
    BY <1>2, <1>5, <2>1, <2>2, <2>3
  <2>4. CASE tables'.n = head /\ tables'.st = mem /\ replayed' = {}
    <3>1. Follows(tables.st)'
      BY <1>2, <2>1, <2>4 DEF Follows
    <3>2. app.pc = "enqueue" => Written(tables'.st, app'.ws) = mem'
      BY <1>1, <2>1, <2>4
    <3>3. app.pc = "enqueue" => Follows(Written(tables.st, app.ws))'
      BY <1>2, <2>4, <3>2 DEF Follows
    <3>. QED
      BY <1>1, <2>1, <2>4, <3>1, <3>3 DEF TablesInv
  <2>. QED
    BY <2>1, <2>3, <2>4
<1>13. CASE PrepareBlock
  <2>1. UNCHANGED <<tip, mem, head, Wrong, replayed, tables, app, link, torn>> /\ ahead \subseteq ahead'
    BY <1>13 DEF PrepareBlock, node, Wrong
  <2>2. Synced' = Synced
    BY <2>1 DEF Synced
  <2>. QED
    BY <1>2, <1>5, <2>1, <2>2
<1>14. CASE UNCHANGED <<tip, mem, head, Wrong, replayed, ahead, tables>> /\ ~ FinishCatchup
            /\ (GoLive \/ PipelineEnds \/ ApplyTake \/ ApplyEnds)
  <2>1. app.pc # "enqueue" /\ app'.pc # "enqueue"
    BY <1>14 DEF GoLive, PipelineEnds, ApplyTake, ApplyEnds, StartPipeline, Idle, Off, Ended,
       L1, Phases, Running
  <2>. QED
    BY <1>2, <1>3, <1>5, <1>14, <2>1
<1>15. CASE UNCHANGED <<tip, mem, head, Wrong, replayed, ahead, tables, app>> /\ ~ FinishCatchup
  BY <1>2, <1>3, <1>5, <1>15
<1>. QED
  BY <1>6, <1>7, <1>8, <1>9, <1>10, <1>11, <1>12, <1>13, <1>14, <1>15, Moves DEF Wrong

(* Between two blocks the tables hold the memory's open orders and its head,    *)
(* and a level differs only where a block was lost, doubled or prepared too     *)
(* early (TablesMirror), through catch-ups, reconnects and the shutdown write.  *)
THEOREM TablesCorrect == Spec => []TablesMirror
<1>1. L1 /\ L3 /\ TablesInv => TablesMirror
  <2>. SUFFICES ASSUME L1, L3, TablesInv, Settled, app.pc # "enqueue"
                PROVE  /\ mem.done = tables.st.done \union replayed
                       /\ mem.open \ Touched(replayed) = tables.st.open \ Touched(replayed)
                       /\ tables.n = head \/ head \in replayed
                       /\ (mem.book \union tables.st.book) \ (mem.book \intersect tables.st.book)
                            \subseteq Touched(Disturbed \union replayed \union ((Block \ mem.done) \intersect 1..tip))
    BY DEF TablesMirror, TablesFollow, StaleLevelsAreDisturbed
  <2>1. Follows(tables.st) /\ (tables.n = head \/ head \in replayed)
    BY DEF TablesInv, Synced, Settled, Importing
  <2>. DEFINE D == Disturbed \union replayed \union ((Block \ mem.done) \intersect 1..tip)
  <2>2. ASSUME NEW b \in (mem.book \union tables.st.book) \ (mem.book \intersect tables.st.book),
               b \notin Touched(D)
        PROVE  FALSE
    <3>1. b \in 1..tip /\ 1..tip \subseteq Block
      <4>1. b \in 1..tip
        BY <2>1, <2>2 DEF Follows, L3, OrdersRight, Within
      <4>2. 1..tip \subseteq Block
        BY PipelineBounds DEF L1, Typed, NodeType, Height, Block
      <4>. QED
        BY <4>1, <4>2
    <3>2. \A c \in 1..tip : c \in mem.done \/ c \in D
      BY <3>1
    <3>3. b \notin D /\ \A c \in D : Cancels[c] # b
      BY <2>2 DEF Touched
    <3>4. Wrong \union replayed \union ahead \subseteq D
      BY DEF Disturbed, Wrong
    <3>. HIDE DEF D
    <3>5. b \in Calm(mem.done, Wrong, ahead) /\ b \in Calm(mem.done, Wrong \union replayed, ahead)
      BY <3>1, <3>2, <3>3, <3>4 DEF Calm, Touched
    <3>6. BookRight(mem.book, mem.done, Wrong, ahead, tip)
      BY DEF L3, OrdersRight
    <3>7. BookRight(tables.st.book, mem.done, Wrong \union replayed, ahead, tip)
      BY <2>1 DEF Follows
    <3>8. CASE \E c \in 1..tip : Cancels[c] = b
      <4>1. \E c \in mem.done : Cancels[c] = b
        BY <3>2, <3>3, <3>8
      <4>. QED
        BY <2>2, <3>5, <3>6, <3>7, <4>1 DEF BookRight
    <3>9. CASE \A c \in 1..tip : Cancels[c] # b
      BY <2>2, <3>5, <3>6, <3>7, <3>9 DEF BookRight
    <3>. QED
      BY <3>8, <3>9
  <2>3. mem.done = tables.st.done \union replayed /\ mem.open \ Touched(replayed) = tables.st.open \ Touched(replayed)
    BY <2>1 DEF Follows
  <2>. QED
    BY <2>1, <2>2, <2>3
<1>. QED
  BY <1>1, InitL1, NextL1, InitL2, NextL2, InitL3, NextL3, InitTables, NextTables, PTL DEF Spec

-----------------------------------------------------------------------------
(* Blocks that come twice. *)

(* Which of the blocks that wait the index may have already. *)
FreshOrOverlap ==
  Running \/ link \in {"down", "hydrated", "subscribed", "buffering"} => Waiting \intersect mem.done \subseteq overlap

(* While a catch-up is imported: what its tail will bring or has brought. *)
ImportOverlap ==
  /\ link = "snapshot" => imp.k = imp.c /\ imp.t = imp.c
  /\ Importing => /\ \A b \in InWs : b <= imp.p => b \in overlap
                  /\ \A b \in InBuffer : b < imp.c => b \in overlap
  /\ link = "importing" => /\ \A b \in Waiting \intersect mem.done : b <= imp.p
                           /\ \A b \in InBuffer \intersect mem.done : b < imp.c \/ b \in AppliedDigests
                           /\ imp.k < imp.p => mem.done \subseteq 1..imp.k

Overlaps == TwiceOnlyByOverlap /\ FreshOrOverlap /\ ImportOverlap

(* The block that is taken into the index waits no longer. *)
LEMMA TakenOnce ==
  ASSUME L1, L2, [Next]_vars
  PROVE  /\ ApplyBlock => /\ Waiting = Waiting' \union {app.n} /\ \A b \in Waiting' : app.n < b
                          /\ app.n \in Waiting /\ Running
         /\ SkipBuffered \/ ImportLiveBlock =>
              /\ Waiting = Waiting' \union {Head(buffer)} /\ \A b \in Waiting' : Head(buffer) < b
              /\ Head(buffer) \in InBuffer /\ ~ Running
<1>1. Channels /\ Subscription /\ Lined /\ Rising(buffer) /\ buffer \in Seq(Block)
  BY DEF L2, Sorted, L1, Typed, StreamType
<1>2. ASSUME ApplyBlock
      PROVE  /\ Waiting = Waiting' \union {app.n} /\ \A b \in Waiting' : app.n < b
             /\ app.n \in Waiting /\ Running
  <2>1. /\ AtApply = {app.n} /\ AtApply' = {}
        /\ UNCHANGED <<InPrepared, AtDecode, InRaw, AtRecv, InWs, InBuffer>>
    BY <1>1, <1>2, LineMoves
  <2>2. Running
    BY <1>2 DEF ApplyBlock, L1, Phases
  <2>3. InBuffer = {}
    BY <1>1, <2>2, ElementsFacts DEF Subscription, InBuffer
  <2>4. Below(AtApply, InPrepared \union AtDecode \union InRaw \union AtRecv \union InWs)
    BY <1>1 DEF Lined
  <2>5. Waiting' = InPrepared \union AtDecode \union InRaw \union AtRecv \union InWs
    BY <2>1, <2>3 DEF Waiting, InPipeline
  <2>6. \A b \in Waiting' : app.n < b
    BY <2>1, <2>4, <2>5 DEF Below
  <2>7. Waiting = Waiting' \union {app.n}
    BY <2>1, <2>3, <2>5 DEF Waiting, InPipeline
  <2>. QED
    BY <2>2, <2>6, <2>7
<1>3. ASSUME SkipBuffered \/ ImportLiveBlock
      PROVE  /\ Waiting = Waiting' \union {Head(buffer)} /\ \A b \in Waiting' : Head(buffer) < b
             /\ Head(buffer) \in InBuffer /\ ~ Running
  <2>1. /\ InBuffer = {Head(buffer)} \union InBuffer'
        /\ UNCHANGED <<AtApply, InPrepared, AtDecode, InRaw, AtRecv, InWs>>
    BY <1>1, <1>3, LineMoves
  <2>2. link = "importing" /\ buffer # <<>> /\ buffer' = Tail(buffer)
    BY <1>3 DEF SkipBuffered, ImportLiveBlock
  <2>3. ~ Running /\ InPipeline = {}
    <3>1. recv.pc = "off" /\ dec.pc = "off" /\ app.pc = "off"
      BY <2>2 DEF L1, Phases, Running
    <3>2. raw = <<>> /\ Numbers(prepared) = <<>>
      BY <1>1, <3>1 DEF Channels, Numbers
    <3>. QED
      BY <3>1, <3>2, ElementsFacts DEF Running, InPipeline, AtApply, InPrepared, AtDecode, InRaw, AtRecv
  <2>4. \A b \in InBuffer' : Head(buffer) < b
    BY <1>1, <2>2, ElementsFacts DEF InBuffer, Below
  <2>5. \A b \in InWs : Head(buffer) < b
    BY <1>1, <2>1 DEF Lined, Below
  <2>6. InPipeline' = InPipeline
    BY <2>1 DEF InPipeline
  <2>. QED
    BY <2>1, <2>3, <2>4, <2>5, <2>6 DEF Waiting
<1>. QED
  BY <1>2, <1>3

(* What becomes of the blocks in the index. *)
LEMMA DoneMoves ==
  ASSUME L1, L2, [Next]_vars
  PROVE  /\ ApplyBlock => mem'.done = mem.done \union {app.n}
         /\ ImportPeerBlock => mem.done \subseteq mem'.done
         /\ ImportLiveBlock => mem'.done = mem.done \union {Head(buffer)}
         /\ ImportSnapshot \/ ImportSnapshotFails =>
              mem'.done \subseteq 1..imp.c /\ 1..imp.c \subseteq mem'.done \union inherited'
         /\ \/ ApplyBlock \/ ImportPeerBlock \/ ImportLiveBlock \/ ImportSnapshot \/ ImportSnapshotFails
            \/ mem'.done = mem.done
<1>1. \A n : Written(mem, WriteSetOf(n, Mapped(n), TRUE)).done = mem.done \union {n}
  BY DEF Written, WriteSetOf
<1>2. ApplyBlock => mem'.done = mem.done \union {app.n}
  BY DEF ApplyBlock, Written, WriteSetOf
<1>3. ImportPeerBlock => mem.done \subseteq mem'.done
  BY NextRow
<1>4. ImportLiveBlock => mem'.done = mem.done \union {Head(buffer)}
  <2>1. ImportLiveBlock => mem' = Written(mem, WriteSetOf(Head(buffer), Mapped(Head(buffer)), TRUE))
    BY DEF ImportLiveBlock, ReplayQuietly
  <2>. QED
    BY <1>1, <2>1
<1>5. ImportSnapshot \/ ImportSnapshotFails =>
        mem'.done \subseteq 1..imp.c /\ 1..imp.c \subseteq mem'.done \union inherited'
  BY Imports DEF Snapshot, Faults
<1>6. HydrateAll => mem'.done = mem.done
  <2>1. mem \in State
    BY ApplyingTypes
  <2>. QED
    BY <2>1 DEF HydrateAll, State
<1>. QED
  BY <1>2, <1>3, <1>4, <1>5, <1>6, Moves

(* Nothing overlaps at the start ... *)
LEMMA InitOverlaps == Init => Overlaps
<1>. SUFFICES ASSUME Init PROVE Overlaps
  OBVIOUS
<1>1. link = "down" /\ twice = {} /\ ws = <<>> /\ buffer = <<>> /\ raw = <<>> /\ prepared = <<>>
      /\ recv.pc = "off" /\ dec.pc = "off" /\ app.pc = "off"
  BY DEF Init, Off
<1>2. Numbers(prepared) = <<>>
  BY <1>1 DEF Numbers
<1>3. Waiting = {}
  BY <1>1, <1>2, ElementsFacts DEF Waiting, InPipeline, AtApply, InPrepared, AtDecode, InRaw, AtRecv, InWs, InBuffer
<1>. QED
  BY <1>1, <1>3 DEF Overlaps, TwiceOnlyByOverlap, FreshOrOverlap, ImportOverlap, Importing

(* ... a block is applied again only if the catch-up brought it ... *)
LEMMA NextTwice == L1 /\ L2 /\ Overlaps /\ [Next]_vars => TwiceOnlyByOverlap'
<1>. SUFFICES ASSUME L1, L2, Overlaps, [Next]_vars PROVE twice' \subseteq overlap'
  BY DEF TwiceOnlyByOverlap
<1>1. twice \subseteq overlap /\ FreshOrOverlap /\ ImportOverlap
  BY DEF Overlaps, TwiceOnlyByOverlap
<1>2. CASE \E c, p \in Block : Downloaded(c, p)
  <2>1. link = "buffering" /\ twice' = twice
    BY <1>2 DEF Downloaded
  <2>2. twice = {}
    BY <2>1 DEF L2, Subscription
  <2>. QED
    BY <2>1, <2>2
<1>3. CASE UNCHANGED overlap
  <2>1. CASE ImportSnapshot
    BY <2>1 DEF ImportSnapshot
  <2>2. CASE ImportPeerBlock
    <3>1. PICK n \in Block : link = "importing" /\ imp.k < imp.p /\ imp.k < n /\ twice' = twice \union Again(n)
      BY <2>2, NextRow DEF ReplayQuietly
    <3>2. mem.done \subseteq 1..imp.k /\ imp.k \in Nat
      BY <1>1, <3>1 DEF ImportOverlap, L1, Typed, ImpType, Import, Height
    <3>3. n \notin mem.done
      BY <3>1, <3>2 DEF Block
    <3>. QED
      BY <1>1, <1>3, <3>1, <3>3 DEF Again
  <2>3. CASE ImportLiveBlock
    <3>. DEFINE h == Head(buffer)
    <3>1. /\ link = "importing" /\ h \notin AppliedDigests /\ buffer # <<>>
          /\ twice' = twice \union Again(h)
      BY <2>3 DEF ImportLiveBlock, ReplayQuietly
    <3>2. h \in InBuffer /\ h \in Waiting /\ h \in Block
      BY <2>3, <3>1, TakenOnce, ApplyingTypes
    <3>3. Importing
      BY <3>1 DEF Importing
    <3>. HIDE DEF h
    <3>4. ASSUME h \in mem.done PROVE h \in overlap
      BY <1>1, <3>1, <3>2, <3>3, <3>4 DEF ImportOverlap
    <3>. QED
      BY <1>1, <1>3, <3>1, <3>4 DEF Again
  <2>4. CASE ApplyBlock
    <3>1. app.n \in Waiting /\ Running /\ twice' = twice \union Again(app.n)
      BY <2>4, TakenOnce DEF ApplyBlock
    <3>. QED
      BY <1>1, <1>3, <3>1 DEF FreshOrOverlap, Again
  <2>5. CASE UNCHANGED twice
    BY <1>1, <1>3, <2>5
  <2>. QED
    BY <2>1, <2>2, <2>3, <2>4, <2>5, Moves
<1>. QED
  BY <1>2, <1>3, Moves

(* ... what waits is new or overlaps ... *)
LEMMA NextFresh == L1 /\ L2 /\ L3 /\ Overlaps /\ [Next]_vars => FreshOrOverlap'
<1>. SUFFICES ASSUME L1, L2, L3, Overlaps, [Next]_vars,
                     (Running \/ link \in {"down", "hydrated", "subscribed", "buffering"})'
              PROVE  Waiting' \intersect mem'.done \subseteq overlap'
  BY DEF FreshOrOverlap
<1>. DEFINE Gate == Running \/ link \in {"down", "hydrated", "subscribed", "buffering"}
<1>1. FreshOrOverlap /\ ImportOverlap /\ mem.done \subseteq 1..tip /\ tip \in Nat
  BY ApplyingTypes DEF Overlaps, L3, OrdersRight, Within
<1>2. CASE \E c, p \in Block : Downloaded(c, p)
  <2>1. link = "buffering" /\ link' = "snapshot" /\ recv' = recv
    BY <1>2 DEF Downloaded, workers
  <2>. QED
    BY <2>1 DEF L1, Phases, Running
<1>3. CASE Drop
  <2>1. InPipeline' = {} /\ InWs' = {} /\ InBuffer' = {}
    BY <1>3, LineMoves DEF L2
  <2>. QED
    BY <2>1 DEF Waiting
<1>4. CASE FinishCatchup
  <2>1. /\ link = "importing" /\ imp.k = imp.p /\ buffer = <<>> /\ UNCHANGED <<mem, overlap>>
    BY <1>4 DEF FinishCatchup, ghosts
  <2>2. ~ Running /\ Importing
    BY <2>1 DEF L1, Phases, Importing
  <2>3. InPipeline = {} /\ InBuffer = {}
    <3>1. recv.pc = "off" /\ dec.pc = "off" /\ app.pc = "off"
      BY <2>2 DEF L1, Phases, Running
    <3>2. raw = <<>> /\ Numbers(prepared) = <<>>
      BY <3>1 DEF L2, Channels, Numbers
    <3>. QED
      BY <2>1, <3>1, <3>2, ElementsFacts
         DEF InBuffer, InPipeline, AtApply, InPrepared, AtDecode, InRaw, AtRecv
  <2>4. ~ Produce
    BY <2>1, <1>4 DEF Produce, FinishCatchup
  <2>5. Waiting' \subseteq Waiting
    BY <2>4, WaitingShrinks
  <2>6. \A b \in Waiting \intersect mem.done : b \in overlap
    BY <1>1, <2>1, <2>2, <2>3 DEF ImportOverlap, Waiting
  <2>. QED
    BY <2>1, <2>5, <2>6
<1>5. CASE UNCHANGED overlap /\ Gate
  <2>1. Waiting \intersect mem.done \subseteq overlap
    BY <1>1, <1>5 DEF FreshOrOverlap
  <2>2. CASE Produce
    <3>1. Waiting' \subseteq Waiting \union {tip + 1} /\ mem' = mem
      BY <2>2, WaitingShrinks DEF Produce
    <3>2. tip + 1 \notin mem.done
      BY <1>1
    <3>. QED
      BY <1>5, <2>1, <3>1, <3>2
  <2>3. CASE ApplyBlock
    <3>1. /\ mem'.done = mem.done \union {app.n} /\ Waiting' \subseteq Waiting
          /\ \A b \in Waiting' : app.n < b
      BY <2>3, TakenOnce, DoneMoves
    <3>2. app.n \in Nat
      BY DEF L1, Typed, AppType, Height
    <3>3. app.n \notin Waiting'
      BY <3>1, <3>2
    <3>. QED
      BY <1>5, <2>1, <3>1, <3>3
  <2>4. CASE ImportSnapshot \/ ImportPeerBlock \/ ImportLiveBlock
    <3>1. link \in {"snapshot", "importing"}
      BY <2>4 DEF ImportSnapshot, ImportPeerBlock, ImportLiveBlock
    <3>. QED
      BY <1>5, <3>1 DEF L1, Phases
  <2>5. CASE ImportSnapshotFails
    BY <1>3, <2>5 DEF Drop
  <2>6. CASE ~ Produce /\ mem'.done = mem.done
    BY <1>5, <2>1, <2>6, WaitingShrinks
  <2>. QED
    BY <2>2, <2>3, <2>4, <2>5, <2>6, DoneMoves, Moves
<1>6. Gate \/ Drop \/ FinishCatchup
  <2>. SUFFICES ASSUME ~ Gate, ~ Drop, ~ FinishCatchup PROVE FALSE
    OBVIOUS
  <2>1. link \in {"snapshot", "importing", "stopped", "saved"} /\ ~ Running
    <3>1. link \in Link /\ (link = "live" => Running)
      BY DEF L1, Typed, FlagType, Phases
    <3>. QED
      BY <3>1 DEF Link
  <2>2. ~ Running'
    BY <2>1, Moves DEF GoLive, ReceiveBlock, SendRaw, ReceiveEnds, Running, Drop
  <2>3. link' \in {"snapshot", "importing", "stopped", "saved"}
    BY <2>1, Moves DEF HydrateAll, Subscribe, GoLive, StartCatchup, ImportSnapshot, TaskStops,
       SaveAtShutdown, Downloaded
  <2>. QED
    BY <2>2, <2>3
<1>. QED
  BY <1>2, <1>3, <1>4, <1>5, <1>6, Moves

(* ... and an import knows what it has brought. *)
LEMMA NextImported == L1 /\ L2 /\ L3 /\ Overlaps /\ [Next]_vars => ImportOverlap'
<1>. SUFFICES ASSUME L1, L2, L3, Overlaps, [Next]_vars PROVE ImportOverlap'
  OBVIOUS
<1>1. ImportOverlap /\ mem.done \subseteq 1..tip /\ tip \in Nat /\ link \in Link
  BY ApplyingTypes DEF Overlaps, L3, OrdersRight, Within, L1, Typed, FlagType
<1>2. CASE \E c, p \in Block : Downloaded(c, p)
  <2>1. PICK c \in Block, p \in Block : Downloaded(c, p)
    BY <1>2
  <2>2. /\ link' = "snapshot" /\ UNCHANGED <<ws, buffer>>
        /\ \E rows : imp' = [c |-> c, rows |-> rows, k |-> c, p |-> p, t |-> c]
        /\ overlap' = {b \in ToSet(buffer) : b < c} \union {b \in ToSet(ws) : b <= p}
    BY <2>1 DEF Downloaded, stream
  <2>3. InWs' = ToSet(ws) /\ InBuffer' = ToSet(buffer)
    BY <2>2, ElementsFacts DEF InWs, InBuffer, L1, Typed, StreamType
  <2>4. imp'.c = c /\ imp'.p = p /\ imp'.k = c /\ imp'.t = c
    BY <2>2
  <2>. QED
    BY <2>2, <2>3, <2>4 DEF ImportOverlap, Importing
<1>3. CASE Drop
  BY <1>3, Drops DEF Disconnected, ImportOverlap, Importing
<1>4. CASE ~ Importing'
  BY <1>4 DEF ImportOverlap, Importing
<1>5. ASSUME ~ Drop, Importing, Importing'
      PROVE  ImportOverlap'
  <2>1. /\ imp \in Import
        /\ imp.c <= imp.k /\ imp.k <= imp.p /\ imp.p <= tip
        /\ imp.c \in Nat /\ imp.k \in Nat /\ imp.p \in Nat
    BY <1>5 DEF L1, Typed, ImpType, Import, Height
  <2>2. ~ FinishCatchup /\ ~ \E c, p \in Block : Downloaded(c, p)
    BY <1>5 DEF FinishCatchup, Downloaded, Importing
  <2>3. /\ overlap' = overlap /\ imp'.c = imp.c /\ imp'.rows = imp.rows /\ imp'.p = imp.p
        /\ UNCHANGED imp \/ ImportPeerBlock \/ ImportLiveBlock
        /\ AppliedDigests' = AppliedDigests
    <3>1. UNCHANGED imp \/ ImportPeerBlock \/ ImportLiveBlock
      BY <1>5, <2>2, Moves
    <3>2. imp'.c = imp.c /\ imp'.rows = imp.rows /\ imp'.p = imp.p
      <4>1. ImportLiveBlock => imp' = [imp EXCEPT !.t = Head(buffer)]
        BY DEF ImportLiveBlock
      <4>. QED
        BY <2>1, <3>1, <4>1, NextRow DEF Import
    <3>. QED
      BY <1>5, <2>2, <3>1, <3>2, Moves DEF AppliedDigests
  <2>4. /\ \A b \in InWs : b <= imp.p => b \in overlap
        /\ \A b \in InBuffer : b < imp.c => b \in overlap
    BY <1>1, <1>5 DEF ImportOverlap
  <2>5. ~ Running
    BY <1>5 DEF L1, Phases, Importing
  <2>6. InWs' \subseteq InWs \union {tip + 1} /\ InBuffer' \subseteq InBuffer
    <3>1. ~ BufferBlock /\ ~ ReceiveBlock /\ ~ SendRaw /\ ~ ReceiveEnds /\ ~ DecodeTake
          /\ ~ SendPrepared /\ ~ DecodeEnds /\ ~ ApplyTake /\ ~ ApplyBlock /\ ~ ApplyEnds
      BY <1>5, <2>5 DEF BufferBlock, ReceiveBlock, SendRaw, ReceiveEnds, DecodeTake, SendPrepared,
         DecodeEnds, ApplyTake, ApplyBlock, ApplyEnds, L1, Phases, Running, Importing
    <3>2. \/ UNCHANGED Line \/ Produce \/ SkipBuffered \/ ImportLiveBlock
      BY <1>5, <3>1, LineMoves DEF L2
    <3>3. CASE UNCHANGED Line
      BY <3>3 DEF Line
    <3>4. CASE Produce
      BY <3>4, LineMoves DEF L2
    <3>5. CASE SkipBuffered \/ ImportLiveBlock
      BY <3>5, LineMoves DEF L2
    <3>. QED
      BY <3>2, <3>3, <3>4, <3>5
  <2>7. /\ \A b \in InWs' : b <= imp'.p => b \in overlap'
        /\ \A b \in InBuffer' : b < imp'.c => b \in overlap'
    <3>1. ~ (tip + 1 <= imp.p)
      BY <1>1, <2>1
    <3>. QED
      BY <2>3, <2>4, <2>6, <3>1
  <2>8. ASSUME link' = "snapshot" PROVE imp'.k = imp'.c /\ imp'.t = imp'.c
    <3>1. link = "snapshot"
      BY <1>5, <2>2, <2>8, Moves DEF HydrateAll, Subscribe, GoLive, StartCatchup, ImportSnapshot,
         TaskStops, SaveAtShutdown
    <3>2. UNCHANGED imp
      BY <2>3, <3>1 DEF ImportPeerBlock, ImportLiveBlock
    <3>. QED
      BY <1>1, <3>1, <3>2 DEF ImportOverlap
  <2>9. ASSUME link' = "importing"
        PROVE  /\ \A b \in Waiting' \intersect mem'.done : b <= imp'.p
               /\ \A b \in InBuffer' \intersect mem'.done : b < imp'.c \/ b \in AppliedDigests'
               /\ imp'.k < imp'.p => mem'.done \subseteq 1..imp'.k
    <3>1. CASE ImportSnapshot
      <4>1. link = "snapshot" /\ UNCHANGED imp /\ mem'.done \subseteq 1..imp.c
        BY <3>1, DoneMoves DEF ImportSnapshot, catchup
      <4>2. imp.k = imp.c
        BY <1>1, <4>1 DEF ImportOverlap
      <4>3. \A b \in 1..imp.c : b <= imp.p /\ (b < imp.c \/ b \in AppliedDigests)
        BY <2>1 DEF AppliedDigests
      <4>. QED
        BY <2>3, <4>1, <4>2, <4>3
    <3>2. ~ ImportSnapshot => link = "importing"
      BY <1>5, <2>2, <2>9, Moves DEF HydrateAll, Subscribe, GoLive, StartCatchup, TaskStops, SaveAtShutdown
    <3>3. link = "importing" => /\ \A b \in Waiting \intersect mem.done : b <= imp.p
                                /\ \A b \in InBuffer \intersect mem.done : b < imp.c \/ b \in AppliedDigests
                                /\ imp.k < imp.p => mem.done \subseteq 1..imp.k
      BY <1>1 DEF ImportOverlap
    <3>4. CASE ImportPeerBlock
      <4>1. PICK n \in Block :
              /\ link = "importing" /\ imp.k < imp.p /\ imp.k < n /\ n <= imp.p /\ n \in imp.rows
              /\ mem'.done = mem.done \union {n} /\ imp'.k = n /\ imp'.p = imp.p
        BY <3>4, NextRow
      <4>2. n \in Nat /\ n \in 1..n /\ 1..imp.k \subseteq 1..n
        BY <2>1, <4>1 DEF Block
      <4>3. mem'.done \subseteq 1..n
        BY <3>3, <4>1, <4>2
      <4>4. \A b \in mem'.done : b <= imp.p
        BY <2>1, <4>1, <4>2, <4>3
      <4>5. n \in AppliedDigests
        BY <4>1 DEF AppliedDigests
      <4>6. \A b \in InBuffer' \intersect mem'.done : b < imp'.c \/ b \in AppliedDigests'
        BY <2>3, <2>6, <3>3, <4>1, <4>5
      <4>. QED
        BY <4>1, <4>3, <4>4, <4>6
    <3>5. CASE ImportLiveBlock
      <4>1. /\ link = "importing" /\ imp.k = imp.p /\ mem'.done = mem.done \union {Head(buffer)}
            /\ imp' = [imp EXCEPT !.t = Head(buffer)] /\ buffer # <<>>
        BY <3>5, DoneMoves DEF ImportLiveBlock
      <4>2. imp'.k = imp.k /\ imp'.p = imp.p
        BY <2>1, <4>1
      <4>3. Waiting' \subseteq Waiting /\ Head(buffer) \notin Waiting'
        <5>1. Waiting' \subseteq Waiting /\ \A b \in Waiting' : Head(buffer) < b
          BY <3>5, TakenOnce
        <5>2. Head(buffer) \in Nat
          BY <4>1, ApplyingTypes DEF Block
        <5>. QED
          BY <5>1, <5>2
      <4>4. InBuffer' \subseteq Waiting'
        BY DEF Waiting
      <4>5. \A b \in InBuffer' \intersect mem'.done : b < imp'.c \/ b \in AppliedDigests'
        BY <2>3, <2>6, <3>3, <4>1, <4>3, <4>4
      <4>. QED
        BY <2>1, <3>3, <4>1, <4>2, <4>3, <4>5
    <3>6. CASE Produce
      <4>1. Waiting' \subseteq Waiting \union {tip + 1} /\ UNCHANGED <<mem, imp, link>>
        BY <3>6, WaitingShrinks DEF Produce, catchup
      <4>2. tip + 1 \notin mem.done
        BY <1>1
      <4>3. tip + 1 \notin InBuffer'
        <5>1. InBuffer' = InBuffer /\ InBuffer \subseteq 1..tip
          BY <3>6, LineMoves DEF L2, Produced, Waiting
        <5>. QED
          BY <1>1, <5>1
      <4>. QED
        BY <2>3, <2>6, <2>9, <3>3, <4>1, <4>2, <4>3
    <3>7. CASE ~ Produce /\ ~ ImportSnapshot /\ ~ ImportPeerBlock /\ ~ ImportLiveBlock
      <4>1. Waiting' \subseteq Waiting /\ UNCHANGED imp /\ mem'.done = mem.done
        <5>1. ~ ApplyBlock
          BY <2>5 DEF ApplyBlock, L1, Phases, Running
        <5>2. ~ ImportSnapshotFails
          BY <1>5 DEF Drop
        <5>. QED
          BY <2>3, <3>7, <5>1, <5>2, WaitingShrinks, DoneMoves
      <4>. QED
        BY <2>3, <2>6, <3>2, <3>3, <3>7, <4>1
    <3>. QED
      BY <3>1, <3>4, <3>5, <3>6, <3>7
  <2>. QED
    BY <2>7, <2>8, <2>9 DEF ImportOverlap
<1>6. Importing' => Importing \/ Drop \/ \E c, p \in Block : Downloaded(c, p)
  BY Moves DEF Importing, HydrateAll, Subscribe, GoLive, StartCatchup, FinishCatchup, ImportSnapshot,
     TaskStops, SaveAtShutdown
<1>. QED
  BY <1>2, <1>3, <1>4, <1>5, <1>6

(* So the layer is inductive. *)
LEMMA NextOverlaps == L1 /\ L2 /\ L3 /\ Overlaps /\ [Next]_vars => Overlaps'
BY NextTwice, NextFresh, NextImported DEF Overlaps

-----------------------------------------------------------------------------
(* Every block is accounted for. *)

(* In the index st, or known to be lost. *)
Explained(st) == st.done \union missed \union dropped \union inherited

(* The tail of the peer's blocks that is still to be replayed. *)
ToImport == IF link = "importing" THEN (imp.k + 1)..imp.p ELSE {}

Accounted == Explained(mem) \union Waiting \union ToImport

(* A shutdown that has reached the workers: they may forget blocks now. *)
Stopping == cancelled /\ (Running \/ link \in {"down", "stopped", "saved"})

(* Blocks that are still going to be applied. *)
WillApply ==
  AtApply \union InPrepared \union IF dec.pc = "done" \/ app.pc = "done" THEN {} ELSE AtDecode \union InRaw \union AtRecv

IndexExplained ==
  link # "importing" => /\ 1..head \subseteq Explained(mem)
                        /\ 1..tables.n \subseteq Explained(tables.st) \union replayed
ImportExplained ==
  link = "importing" => 1..imp.k \subseteq Explained(mem) /\ 1..imp.t \subseteq Explained(mem)

(* Unless an import was torn; after a shutdown only up to the blocks that are  *)
(* still applied.                                                              *)
Account ==
  ~ torn => /\ IndexExplained /\ ImportExplained
            /\ ~ Stopping => 1..tip \subseteq Accounted
            /\ \A x \in WillApply : 1..x \subseteq Accounted

(* All that recovery found is explained ... *)
LEMMA InitAccount == Init => Account
<1>. SUFFICES ASSUME Init PROVE Account
  OBVIOUS
<1>1. /\ link = "down" /\ ~ cancelled /\ recv.pc = "off" /\ dec.pc = "off" /\ app.pc = "off"
      /\ prepared = <<>> /\ raw = <<>>
  BY DEF Init, Off
<1>2. PICK s \in 0..2, h \in 0..2, t \in Height :
        /\ h <= t /\ head = h /\ tip = t /\ missed = (h + 1)..t
        /\ mem = Exact(h) /\ tables = [n |-> s, st |-> Exact(s)]
  BY DEF Init
<1>3. mem.done = 1..head /\ tables.st.done = 1..tables.n
  BY <1>2 DEF Exact
<1>4. 1..tip \subseteq 1..head \union missed
  BY <1>2, PipelineBounds DEF Height
<1>5. Numbers(prepared) = <<>>
  BY <1>1 DEF Numbers
<1>6. WillApply = {}
  BY <1>1, <1>5, ElementsFacts DEF WillApply, AtApply, InPrepared, AtDecode, InRaw, AtRecv
<1>. QED
  BY <1>1, <1>3, <1>4, <1>6 DEF Account, IndexExplained, ImportExplained, Accounted, Explained

(* ... a shutdown, once it has reached the workers, is not undone ... *)
LEMMA StoppingStays == L1 /\ [Next]_vars /\ Stopping => Stopping'
<1>. SUFFICES ASSUME L1, [Next]_vars, Stopping PROVE Stopping'
  OBVIOUS
<1>1. cancelled /\ cancelled'
  BY Moves DEF Stopping, Cancel
<1>2. Running => Running' \/ link' = "down"
  <2>1. PipelineEnds => link' = "down"
    BY DEF PipelineEnds, Disconnected
  <2>2. GoLive \/ FinishCatchup \/ SendRaw => recv'.pc = "idle"
    BY DEF GoLive, FinishCatchup, SendRaw, StartPipeline, Idle
  <2>3. (ReceiveBlock => recv'.pc = "send") /\ (ReceiveEnds => recv'.pc = "done")
    BY DEF ReceiveBlock, ReceiveEnds, Ended
  <2>. QED
    BY <2>1, <2>2, <2>3, Moves DEF Running
<1>3. link \in {"down", "stopped", "saved"} => link' \in {"down", "stopped", "saved"}
  BY <1>1, Moves, Drops DEF HydrateAll, Subscribe, GoLive, StartCatchup, FinishCatchup, ImportSnapshot,
     TaskStops, SaveAtShutdown, Downloaded, Disconnected
<1>. QED
  BY <1>1, <1>2, <1>3 DEF Stopping

(* ... what is known to be lost stays known ... *)
LEMMA LossesStay ==
  ASSUME L1, L2, [Next]_vars
  PROVE  missed \subseteq missed' /\ dropped \subseteq dropped' /\ inherited \subseteq inherited'
<1>1. missed \subseteq missed' /\ inherited \subseteq inherited'
  BY Moves, Imports, NextRow DEF Produce
<1>2. CASE BufferBlock
  BY <1>1, <1>2 DEF BufferBlock
<1>3. CASE ImportSnapshot
  BY <1>1, <1>3 DEF ImportSnapshot
<1>4. CASE Drop
  BY <1>1, <1>4, Drops DEF Disconnected
<1>. QED
  BY <1>1, <1>2, <1>3, <1>4, Moves

(* ... no block is lost on the way, but by a shutdown, and then only ones that *)
(* come after all that will be applied ...                                     *)
LEMMA WaitingKept ==
  ASSUME L1, L2, [Next]_vars
  PROVE  \A y \in Waiting :
           \/ y \in Waiting' \/ y \in dropped'
           \/ ApplyBlock /\ y = app.n
           \/ (SkipBuffered \/ ImportLiveBlock) /\ y = Head(buffer)
           \/ Stopping' /\ \A x \in WillApply' : x < y
<1>1. Channels /\ Subscription /\ Lined
  BY DEF L2
<1>2. /\ Below(AtApply, InPrepared \union AtDecode \union InRaw \union AtRecv \union InWs)
      /\ Below(InPrepared, AtDecode \union InRaw \union AtRecv \union InWs)
  BY <1>1 DEF Lined
<1>. DEFINE Ok == Waiting \subseteq Waiting' \union dropped'
<1>3. CASE UNCHANGED Line
  BY <1>3 DEF Line, Waiting, InPipeline
<1>4. CASE Produce
  BY <1>4, WaitingShrinks
<1>5. CASE BufferBlock
  <2>1. Ok
    BY <1>1, <1>5, LineMoves DEF Waiting, InPipeline
  <2>. QED
    BY <2>1
<1>6. CASE SkipBuffered \/ ImportLiveBlock \/ ApplyBlock
  BY <1>6, TakenOnce
<1>7. CASE ReceiveBlock
  BY <1>1, <1>7, LineMoves DEF Waiting, InPipeline
<1>8. CASE SendRaw
  BY <1>1, <1>8, LineMoves DEF Waiting, InPipeline
<1>9. CASE DecodeTake
  BY <1>1, <1>9, LineMoves DEF Waiting, InPipeline
<1>10. CASE SendPrepared
  BY <1>1, <1>10, LineMoves DEF Waiting, InPipeline
<1>11. CASE ApplyTake
  BY <1>1, <1>11, LineMoves DEF Waiting, InPipeline
<1>12. CASE Drop
  <2>1. Ok
    BY <1>1, <1>12, LineMoves DEF Waiting
  <2>. QED
    BY <2>1
<1>13. CASE ReceiveEnds
  <2>1. /\ AtRecv' = {} /\ UNCHANGED <<AtApply, InPrepared, AtDecode, InRaw, InWs, InBuffer>>
    BY <1>1, <1>13, LineMoves
  <2>2. Waiting \subseteq Waiting' \union AtRecv
    BY <2>1 DEF Waiting, InPipeline
  <2>3. /\ recv.pc = "idle" \/ (recv.pc = "send" /\ dec.pc = "done")
        /\ UNCHANGED <<dec, app, cancelled>> /\ Running'
    BY <1>13 DEF ReceiveEnds, Ended, Running
  <2>4. CASE recv.pc = "idle"
    BY <2>2, <2>4 DEF AtRecv
  <2>5. CASE dec.pc = "done" /\ recv.pc = "send"
    <3>1. Stopping'
      BY <1>1, <2>3, <2>5 DEF Channels, Stopping
    <3>2. WillApply' = AtApply \union InPrepared
      BY <2>1, <2>3, <2>5 DEF WillApply
    <3>3. \A y \in AtRecv, x \in WillApply' : x < y
      BY <1>2, <3>2 DEF Below
    <3>. QED
      BY <2>2, <3>1, <3>3
  <2>. QED
    BY <2>3, <2>4, <2>5
<1>14. CASE DecodeEnds
  <2>1. /\ AtDecode' = {} /\ InRaw' = {} /\ UNCHANGED <<AtApply, InPrepared, AtRecv, InWs, InBuffer>>
    BY <1>1, <1>14, LineMoves
  <2>2. Waiting \subseteq Waiting' \union AtDecode \union InRaw
    BY <2>1 DEF Waiting, InPipeline
  <2>3. /\ \/ dec.pc = "idle" /\ raw = <<>>
           \/ dec.pc = "idle" /\ cancelled
           \/ dec.pc = "send" /\ app.pc = "done"
        /\ dec'.pc = "done" /\ UNCHANGED <<recv, app, cancelled>>
    BY <1>14 DEF DecodeEnds, Ended
  <2>4. CASE dec.pc = "idle" /\ raw = <<>>
    BY <2>2, <2>4, ElementsFacts DEF AtDecode, InRaw
  <2>5. CASE ~ (dec.pc = "idle" /\ raw = <<>>)
    <3>1. Stopping'
      BY <1>1, <2>3, <2>5 DEF Channels, Stopping, Running, L1, Phases
    <3>2. WillApply' = AtApply \union InPrepared
      BY <2>1, <2>3 DEF WillApply
    <3>3. \A y \in AtDecode \union InRaw, x \in WillApply' : x < y
      BY <1>2, <3>2 DEF Below
    <3>. QED
      BY <2>2, <3>1, <3>3
  <2>. QED
    BY <2>4, <2>5
<1>15. CASE ApplyEnds
  <2>1. InPrepared' = {} /\ UNCHANGED <<AtApply, AtDecode, InRaw, AtRecv, InWs, InBuffer>>
    BY <1>1, <1>15, LineMoves
  <2>2. Waiting \subseteq Waiting' \union InPrepared
    BY <2>1 DEF Waiting, InPipeline
  <2>3. /\ prepared = <<>> \/ cancelled
        /\ app.pc = "idle" /\ app'.pc = "done" /\ UNCHANGED <<recv, dec, cancelled>>
    BY <1>15 DEF ApplyEnds, Ended
  <2>4. CASE prepared = <<>>
    <3>1. Numbers(prepared) = <<>>
      BY <2>4 DEF Numbers
    <3>. QED
      BY <2>2, <3>1, ElementsFacts DEF InPrepared
  <2>5. CASE cancelled
    <3>1. Stopping'
      BY <2>3, <2>5 DEF Stopping, Running, L1, Phases
    <3>2. WillApply' = {}
      BY <2>1, <2>3 DEF WillApply, AtApply
    <3>. QED
      BY <2>2, <3>1, <3>2
  <2>. QED
    BY <2>3, <2>4, <2>5
<1>. QED
  BY <1>1, <1>3, <1>4, <1>5, <1>6, <1>7, <1>8, <1>9, <1>10, <1>11, <1>12, <1>13, <1>14, <1>15, LineMoves

(* ... a torn import stays torn, and an import that is not ends with the head ... *)
LEMMA TornStays ==
  ASSUME L1, [Next]_vars, ~ torn'
  PROVE  /\ ~ torn /\ ~ ImportSnapshotFails /\ ~ ImportFails
         /\ link = "importing" => link' = "importing" \/ FinishCatchup
         /\ link' = "importing" => link = "importing" \/ ImportSnapshot
<1>1. ~ torn /\ ~ ImportSnapshotFails /\ ~ ImportFails /\ (TaskStops => link # "importing")
  <2>1. ~ ImportSnapshotFails /\ ~ ImportFails
    BY DEF ImportSnapshotFails, ImportFails
  <2>2. torn \in BOOLEAN
    BY DEF L1, Typed, FlagType
  <2>3. TaskStops => ~ torn /\ link # "importing"
    BY <2>2 DEF TaskStops
  <2>4. UNCHANGED torn \/ TaskStops
    BY <2>1, Moves
  <2>. QED
    BY <2>1, <2>3, <2>4
<1>2. link = "importing" => ~ Drop
  BY <1>1 DEF Drop, SubscribeFails, CatchupFails, PipelineEnds
<1>3. link = "importing" => link' = "importing" \/ FinishCatchup
  BY <1>1, <1>2, Moves DEF HydrateAll, Subscribe, GoLive, StartCatchup, ImportSnapshot, SaveAtShutdown,
     Downloaded
<1>4. link' = "importing" => link = "importing" \/ ImportSnapshot
  BY Moves, Drops DEF HydrateAll, Subscribe, GoLive, StartCatchup, FinishCatchup, SaveAtShutdown,
     Downloaded, TaskStops, Disconnected
<1>. QED
  BY <1>1, <1>3, <1>4

(* ... a block accounted for remains so, unless the shutdown forgets it ... *)
LEMMA AccountKept ==
  ASSUME L1, L2, Overlaps, Account, [Next]_vars, ~ torn'
  PROVE  /\ \A y \in Accounted : y \in Accounted' \/ (Stopping' /\ \A x \in WillApply' : x < y)
         /\ link = "importing" \/ link' # "importing" =>
              Explained(mem) \subseteq Explained(mem)'
<1>1. /\ ~ torn /\ ~ ImportSnapshotFails
      /\ link = "importing" => link' = "importing" \/ FinishCatchup
      /\ link' = "importing" => link = "importing" \/ ImportSnapshot
  BY TornStays
<1>2. missed \subseteq missed' /\ dropped \subseteq dropped' /\ inherited \subseteq inherited'
  BY LossesStay
<1>3. /\ imp \in Import
      /\ imp.c \in Nat /\ imp.k \in Nat /\ imp.p \in Nat
      /\ Importing => imp.c <= imp.k /\ imp.k <= imp.p /\ imp.rows \subseteq (imp.c + 1)..imp.p
  BY DEF L1, Typed, ImpType, Import, Height
<1>4. ~ ImportSnapshot => mem.done \subseteq mem'.done
  BY <1>1, DoneMoves
<1>5. ~ ImportSnapshot => Explained(mem) \subseteq Explained(mem)'
  BY <1>2, <1>4 DEF Explained
<1>6. ASSUME ImportSnapshot PROVE mem.done \subseteq Accounted'
  <2>1. /\ link = "snapshot" /\ link' = "importing" /\ UNCHANGED imp
        /\ dropped' = dropped \union (mem.done \ 1..imp.p) /\ 1..imp.c \subseteq mem'.done \union inherited'
    BY <1>6, DoneMoves DEF ImportSnapshot, catchup
  <2>2. imp.k = imp.c
    BY <2>1 DEF Overlaps, ImportOverlap
  <2>3. ToImport' = (imp.c + 1)..imp.p
    BY <2>1, <2>2 DEF ToImport
  <2>4. 1..imp.p \subseteq 1..imp.c \union (imp.c + 1)..imp.p
    BY <1>3
  <2>. QED
    BY <2>1, <2>3, <2>4 DEF Accounted, Explained
<1>7. Explained(mem) \subseteq Accounted'
  BY <1>2, <1>5, <1>6 DEF Accounted, Explained
<1>8. ASSUME NEW y \in Waiting
      PROVE  y \in Accounted' \/ (Stopping' /\ \A x \in WillApply' : x < y)
  <2>1. CASE y \in Waiting' \/ y \in dropped'
    BY <2>1 DEF Accounted, Explained
  <2>2. CASE (ApplyBlock /\ y = app.n) \/ (ImportLiveBlock /\ y = Head(buffer))
    BY <2>2, DoneMoves DEF Accounted, Explained
  <2>3. CASE SkipBuffered /\ y = Head(buffer)
    <3>1. link = "importing" /\ imp.k = imp.p /\ y \in imp.c..imp.p /\ ~ ImportSnapshot
      <4>1. link = "importing" /\ imp.k = imp.p /\ y \in {imp.c} \union imp.rows /\ ~ ImportSnapshot
        BY <2>3 DEF SkipBuffered, AppliedDigests, ImportSnapshot
      <4>2. imp.c <= imp.p /\ imp.rows \subseteq (imp.c + 1)..imp.p
        BY <1>3, <4>1 DEF Importing
      <4>. QED
        BY <1>3, <4>1, <4>2
    <3>2. 1..imp.k \subseteq Explained(mem)
      BY <1>1, <3>1 DEF Account, ImportExplained
    <3>3. imp.c \in Block
      BY <3>1 DEF L1, Typed, ImpType, Importing
    <3>4. y \in 1..imp.k
      BY <1>3, <3>1, <3>3 DEF Block
    <3>. QED
      BY <1>7, <3>2, <3>4
  <2>. QED
    BY <2>1, <2>2, <2>3, WaitingKept
<1>9. ToImport \subseteq Accounted'
  <2>1. CASE link # "importing"
    BY <2>1 DEF ToImport
  <2>2. CASE FinishCatchup
    <3>1. imp.k = imp.p
      BY <2>2 DEF FinishCatchup
    <3>2. ToImport = {}
      BY <1>3, <3>1 DEF ToImport
    <3>. QED
      BY <3>2
  <2>3. CASE ImportPeerBlock
    <3>1. PICK n \in Block :
            /\ link = "importing" /\ UNCHANGED link /\ imp.k < n /\ n <= imp.p
            /\ mem'.done = mem.done \union {n} /\ imp'.k = n /\ imp'.p = imp.p
            /\ inherited' = inherited \union (imp.k + 1)..(n - 1)
      BY <2>3, NextRow
    <3>2. n \in Nat
      BY DEF Block
    <3>3. ToImport' = (n + 1)..imp.p
      BY <3>1 DEF ToImport
    <3>4. (imp.k + 1)..imp.p \subseteq (imp.k + 1)..(n - 1) \union {n} \union (n + 1)..imp.p
      BY <1>3, <3>1, <3>2
    <3>. QED
      BY <3>1, <3>3, <3>4 DEF ToImport, Accounted, Explained
  <2>4. CASE link = "importing" /\ link' = "importing" /\ ~ ImportPeerBlock
    <3>1. ~ Drop /\ ~ FinishCatchup /\ ~ \E c, p \in Block : Downloaded(c, p)
      BY <2>4, Drops DEF Disconnected, FinishCatchup, Downloaded
    <3>2. imp'.k = imp.k /\ imp'.p = imp.p
      <4>1. ImportLiveBlock => imp' = [imp EXCEPT !.t = Head(buffer)]
        BY DEF ImportLiveBlock
      <4>. QED
        BY <1>3, <2>4, <3>1, <4>1, Moves DEF Import
    <3>. QED
      BY <2>4, <3>2 DEF ToImport, Accounted
  <2>. QED
    BY <1>1, <2>1, <2>2, <2>3, <2>4
<1>10. link = "importing" \/ link' # "importing" =>
         Explained(mem) \subseteq Explained(mem)'
  BY <1>5 DEF ImportSnapshot
<1>. QED
  BY <1>7, <1>8, <1>9, <1>10 DEF Accounted

(* ... only a block that is received before the shutdown is still to be applied ... *)
LEMMA WillApplyMoves ==
  ASSUME L1, L2, [Next]_vars
  PROVE  /\ \A x \in WillApply' : x \in WillApply \/ (ReceiveBlock /\ x = Head(ws))
         /\ WillApply \subseteq Waiting
<1>1. Channels /\ Subscription
  BY DEF L2
<1>2. WillApply \subseteq Waiting
  BY DEF WillApply, Waiting, InPipeline
<1>3. CASE UNCHANGED <<AtApply, InPrepared, AtDecode, InRaw, AtRecv>>
  <2>1. (dec.pc = "done" \/ app.pc = "done") => (dec'.pc = "done" \/ app'.pc = "done") \/ WillApply' = {}
    <3>1. CASE GoLive \/ FinishCatchup
      BY <3>1 DEF GoLive, FinishCatchup, L1, Phases
    <3>2. CASE PipelineEnds
      <4>1. InPipeline' = {}
        BY <1>1, <3>2, LineMoves DEF Drop
      <4>. QED
        BY <4>1 DEF WillApply, InPipeline
    <3>3. CASE ~ GoLive /\ ~ FinishCatchup /\ ~ PipelineEnds
      <4>1. app.pc = "done" => app'.pc = "done"
        BY <3>3, Moves DEF ApplyTake, ApplyBlock, EnqueueWrite, ApplyEnds
      <4>2. dec.pc = "done" => dec'.pc = "done"
        BY <3>3, Moves DEF DecodeTake, PrepareBlock, SendPrepared, DecodeEnds
      <4>. QED
        BY <4>1, <4>2
    <3>. QED
      BY <3>1, <3>2, <3>3
  <2>. QED
    BY <1>2, <1>3, <2>1 DEF WillApply
<1>4. CASE ReceiveBlock
  <2>1. AtRecv' = {Head(ws)} /\ UNCHANGED <<AtApply, InPrepared, AtDecode, InRaw, dec, app>>
    BY <1>1, <1>4, LineMoves DEF ReceiveBlock
  <2>. QED
    BY <1>2, <1>4, <2>1 DEF WillApply
<1>5. CASE SendRaw
  <2>1. /\ AtRecv = {recv.n} /\ AtRecv' = {} /\ InRaw' = InRaw \union {recv.n}
        /\ UNCHANGED <<AtApply, InPrepared, AtDecode, dec, app>>
    BY <1>1, <1>5, LineMoves DEF SendRaw
  <2>. QED
    BY <1>2, <2>1 DEF WillApply
<1>6. CASE ReceiveEnds
  <2>1. AtRecv' = {} /\ UNCHANGED <<AtApply, InPrepared, AtDecode, InRaw, dec, app>>
    BY <1>1, <1>6, LineMoves DEF ReceiveEnds
  <2>. QED
    BY <1>2, <2>1 DEF WillApply
<1>7. CASE DecodeTake
  <2>1. /\ InRaw = {Head(raw)} \union InRaw' /\ AtDecode' = {Head(raw)} /\ dec.pc = "idle"
        /\ UNCHANGED <<AtApply, InPrepared, AtRecv, app>>
    BY <1>1, <1>7, LineMoves DEF DecodeTake
  <2>. QED
    BY <1>2, <2>1 DEF WillApply
<1>8. CASE SendPrepared
  <2>1. /\ AtDecode = {dec.n} /\ AtDecode' = {} /\ InPrepared' = InPrepared \union {dec.n}
        /\ UNCHANGED <<AtApply, InRaw, AtRecv, app>> /\ dec.pc = "send" /\ app.pc # "done"
    BY <1>1, <1>8, LineMoves DEF SendPrepared
  <2>. QED
    BY <1>2, <2>1 DEF WillApply
<1>9. CASE DecodeEnds
  <2>1. dec'.pc = "done" /\ UNCHANGED <<AtApply, InPrepared>>
    BY <1>1, <1>9, LineMoves DEF DecodeEnds, Ended
  <2>. QED
    BY <1>2, <2>1 DEF WillApply
<1>10. CASE ApplyTake
  <2>1. /\ InPrepared = {Head(prepared).n} \union InPrepared' /\ AtApply' = {Head(prepared).n}
        /\ UNCHANGED <<AtDecode, InRaw, AtRecv, dec>> /\ app.pc = "idle"
    BY <1>1, <1>10, LineMoves DEF ApplyTake
  <2>. QED
    BY <1>2, <2>1 DEF WillApply
<1>11. CASE ApplyBlock
  <2>1. AtApply' = {} /\ UNCHANGED <<InPrepared, AtDecode, InRaw, AtRecv, dec>> /\ app.pc = "got"
    BY <1>1, <1>11, LineMoves DEF ApplyBlock
  <2>. QED
    BY <1>2, <2>1 DEF WillApply
<1>12. CASE ApplyEnds
  <2>1. InPrepared' = {} /\ UNCHANGED AtApply /\ app'.pc = "done"
    BY <1>1, <1>12, LineMoves DEF ApplyEnds, Ended
  <2>. QED
    BY <1>2, <2>1 DEF WillApply
<1>13. CASE Produce \/ BufferBlock \/ SkipBuffered \/ ImportLiveBlock \/ Drop \/ UNCHANGED Line
  <2>1. UNCHANGED <<AtApply, InPrepared, AtDecode, InRaw, AtRecv>>
    BY <1>1, <1>13, LineMoves DEF Line
  <2>. QED
    BY <1>3, <2>1
<1>. QED
  BY <1>1, <1>4, <1>5, <1>6, <1>7, <1>8, <1>9, <1>10, <1>11, <1>12, <1>13, LineMoves

(* ... the block taken next is the first that is not explained ... *)
LEMMA TakenExplained ==
  ASSUME L1, L2, L3, Overlaps, Account, [Next]_vars, ~ torn'
  PROVE  /\ ApplyBlock => 1..app.n \subseteq Explained(mem)'
         /\ ImportLiveBlock => 1..Head(buffer) \subseteq Explained(mem)'
<1>1. /\ missed \subseteq missed' /\ dropped \subseteq dropped' /\ inherited \subseteq inherited'
      /\ ~ torn /\ tip \in Nat
  BY LossesStay, TornStays, ApplyingTypes
<1>2. ASSUME ApplyBlock PROVE 1..app.n \subseteq Explained(mem)'
  <2>1. /\ Waiting = Waiting' \union {app.n} /\ \A b \in Waiting' : app.n < b
        /\ mem'.done = mem.done \union {app.n} /\ Running /\ app.pc = "got"
    BY <1>2, TakenOnce, DoneMoves DEF ApplyBlock
  <2>2. app.n \in WillApply /\ app.n \in Nat
    BY <2>1 DEF WillApply, AtApply, L1, Typed, AppType, Height
  <2>3. ToImport = {}
    BY <2>1 DEF ToImport, L1, Phases
  <2>4. 1..app.n \subseteq Explained(mem) \union Waiting
    BY <1>1, <2>2, <2>3 DEF Account, Accounted
  <2>5. Waiting' \subseteq Nat
    <3>1. Waiting' \subseteq Waiting /\ Waiting \subseteq 1..tip
      BY <2>1 DEF L2, Produced
    <3>. QED
      BY <1>1, <3>1
  <2>6. \A y \in 1..app.n : y \in Explained(mem) \/ y = app.n
    BY <2>1, <2>2, <2>4, <2>5
  <2>. QED
    BY <1>1, <2>1, <2>6 DEF Explained
<1>3. ASSUME ImportLiveBlock PROVE 1..Head(buffer) \subseteq Explained(mem)'
  <2>. DEFINE h == Head(buffer)
  <2>1. /\ link = "importing" /\ imp.k = imp.p /\ buffer # <<>>
        /\ Waiting = Waiting' \union {h} /\ \A b \in Waiting' : h < b
        /\ mem'.done = mem.done \union {h} /\ ~ Running
    BY <1>3, TakenOnce, DoneMoves DEF ImportLiveBlock
  <2>2. h \in Nat /\ h <= tip
    BY <2>1, ApplyingTypes DEF Block
  <2>3. ToImport = {}
    <3>1. imp.k \in Nat
      BY DEF L1, Typed, ImpType, Import, Height
    <3>. QED
      BY <2>1, <3>1 DEF ToImport
  <2>4. 1..tip \subseteq Explained(mem) \union Waiting
    BY <1>1, <2>1, <2>3 DEF Account, Accounted, Stopping
  <2>5. Waiting' \subseteq Nat
    <3>1. Waiting' \subseteq Waiting /\ Waiting \subseteq 1..tip
      BY <2>1 DEF L2, Produced
    <3>. QED
      BY <1>1, <3>1
  <2>. HIDE DEF h
  <2>6. \A y \in 1..h : y \in Explained(mem) \/ y = h
    BY <1>1, <2>1, <2>2, <2>4, <2>5
  <2>7. 1..h \subseteq Explained(mem)'
    BY <1>1, <2>1, <2>6 DEF Explained
  <2>. QED
    BY <2>7 DEF h
<1>. QED
  BY <1>2, <1>3

(* ... so the account holds after every step. *)
LEMMA NextAccount ==
  L1 /\ L2 /\ L3 /\ Overlaps /\ Account /\ TablesInv /\ TablesInv' /\ [Next]_vars => Account'
<1>. SUFFICES ASSUME L1, L2, L3, Overlaps, Account, TablesInv, TablesInv', [Next]_vars, ~ torn'
              PROVE  /\ IndexExplained' /\ ImportExplained'
                     /\ ~ Stopping' => 1..tip' \subseteq Accounted'
                     /\ \A x \in WillApply' : 1..x \subseteq Accounted'
  BY DEF Account
<1>1. /\ ~ torn /\ ~ ImportSnapshotFails
      /\ link = "importing" => link' = "importing" \/ FinishCatchup
      /\ link' = "importing" => link = "importing" \/ ImportSnapshot
  BY TornStays
<1>2. /\ IndexExplained /\ ImportExplained
      /\ ~ Stopping => 1..tip \subseteq Accounted
      /\ \A x \in WillApply : 1..x \subseteq Accounted
  BY <1>1 DEF Account
<1>3. /\ \A y \in Accounted : y \in Accounted' \/ (Stopping' /\ \A x \in WillApply' : x < y)
      /\ link = "importing" \/ link' # "importing" =>
           Explained(mem) \subseteq Explained(mem)'
  BY AccountKept
<1>4. tip \in Nat /\ missed \subseteq missed' /\ dropped \subseteq dropped' /\ inherited \subseteq inherited'
  BY ApplyingTypes, LossesStay
<1>5. ASSUME ~ Stopping' PROVE 1..tip' \subseteq Accounted'
  <2>1. 1..tip \subseteq Accounted'
    BY <1>2, <1>3, <1>5, StoppingStays
  <2>2. CASE Produce
    <3>1. tip' = tip + 1 /\ (missed' = missed \union {tip + 1} \/ tip + 1 \in InWs')
      <4>1. Subscribed => tip + 1 \in InWs'
        BY <2>2, LineMoves DEF L2
      <4>. QED
        BY <2>2, <4>1 DEF Produce
    <3>2. tip + 1 \in Accounted'
      BY <3>1 DEF Accounted, Explained, Waiting
    <3>3. 1..tip + 1 \subseteq 1..tip \union {tip + 1}
      BY <1>4
    <3>. QED
      BY <2>1, <3>1, <3>2, <3>3
  <2>3. CASE tip' = tip
    BY <2>1, <2>3
  <2>. QED
    BY <2>2, <2>3, Moves
<1>6. ASSUME NEW x \in WillApply' PROVE 1..x \subseteq Accounted'
  <2>1. CASE x \in WillApply
    <3>1. 1..x \subseteq Accounted /\ x \in Nat
      <4>1. x \in 1..tip
        BY <2>1, WillApplyMoves DEF L2, Produced
      <4>. QED
        BY <1>2, <1>4, <2>1, <4>1
    <3>2. \A y \in 1..x : ~ (x < y)
      BY <3>1
    <3>. QED
      BY <1>3, <1>6, <3>1, <3>2
  <2>2. CASE ReceiveBlock /\ x = Head(ws)
    <3>1. ~ cancelled' /\ tip' = tip
      BY <2>2 DEF ReceiveBlock, node
    <3>2. 1..tip \subseteq Accounted'
      BY <1>5, <3>1 DEF Stopping
    <3>3. x \in 1..tip
      <4>1. x \in InWs
        BY <2>2, LineMoves DEF L2
      <4>. QED
        BY <4>1 DEF L2, Produced, Waiting
    <3>. QED
      BY <1>4, <3>2, <3>3
  <2>. QED
    BY <1>6, <2>1, <2>2, WillApplyMoves
<1>7. ImportExplained'
  <2>. SUFFICES ASSUME link' = "importing"
                PROVE  1..imp'.k \subseteq Explained(mem)' /\ 1..imp'.t \subseteq Explained(mem)'
    BY DEF ImportExplained
  <2>1. imp \in Import /\ imp.k \in Nat
    BY DEF L1, Typed, ImpType, Import, Height
  <2>2. CASE ImportSnapshot
    <3>1. link = "snapshot" /\ UNCHANGED imp /\ 1..imp.c \subseteq mem'.done \union inherited'
      BY <2>2, DoneMoves DEF ImportSnapshot, catchup
    <3>2. imp.k = imp.c /\ imp.t = imp.c
      BY <3>1 DEF Overlaps, ImportOverlap
    <3>. QED
      BY <3>1, <3>2 DEF Explained
  <2>3. CASE link = "importing"
    <3>1. 1..imp.k \subseteq Explained(mem) /\ 1..imp.t \subseteq Explained(mem)
      BY <1>2, <2>3 DEF ImportExplained
    <3>2. Explained(mem) \subseteq Explained(mem)' /\ ~ ImportSnapshot /\ ~ ApplyBlock
      BY <1>3, <2>3 DEF ImportSnapshot, ApplyBlock, L1, Phases, Running
    <3>3. CASE ImportPeerBlock
      <4>1. PICK n \in Block :
              /\ imp.k < n /\ mem'.done = mem.done \union {n} /\ imp'.k = n /\ imp'.t = n
              /\ inherited' = inherited \union (imp.k + 1)..(n - 1)
        BY <3>3, NextRow
      <4>2. 1..n \subseteq 1..imp.k \union (imp.k + 1)..(n - 1) \union {n}
        BY <2>1, <4>1 DEF Block
      <4>3. 1..n \subseteq Explained(mem)'
        BY <3>1, <3>2, <4>1, <4>2 DEF Explained
      <4>. QED
        BY <4>1, <4>3
    <3>4. CASE ImportLiveBlock
      <4>1. mem'.done = mem.done \union {Head(buffer)} /\ imp' = [imp EXCEPT !.t = Head(buffer)]
        BY <3>4, DoneMoves DEF ImportLiveBlock
      <4>2. imp'.k = imp.k /\ imp'.t = Head(buffer)
        BY <2>1, <4>1 DEF Import
      <4>. QED
        BY <3>1, <3>2, <3>4, <4>2, TakenExplained
    <3>5. CASE ~ ImportPeerBlock /\ ~ ImportLiveBlock
      <4>1. ~ Drop /\ ~ FinishCatchup /\ ~ \E c, p \in Block : Downloaded(c, p)
        BY <2>3, Drops DEF Disconnected, FinishCatchup, Downloaded
      <4>2. UNCHANGED imp /\ mem'.done = mem.done
        BY <1>1, <3>2, <3>5, <4>1, Moves, DoneMoves
      <4>. QED
        BY <3>1, <3>2, <4>2
    <3>. QED
      BY <3>3, <3>4, <3>5
  <2>. QED
    BY <1>1, <2>2, <2>3
<1>8. IndexExplained'
  <2>. SUFFICES ASSUME link' # "importing"
                PROVE  /\ 1..head' \subseteq Explained(mem)'
                       /\ 1..tables'.n \subseteq Explained(tables.st)' \union replayed'
    BY DEF IndexExplained
  <2>1. CASE link = "importing"
    <3>1. FinishCatchup
      BY <1>1, <2>1
    <3>2. head' = imp.t /\ tables'.n = imp.t /\ tables'.st = mem /\ mem' = mem
      BY <3>1 DEF FinishCatchup
    <3>3. 1..imp.t \subseteq Explained(mem)'
      BY <1>2, <1>3, <2>1 DEF ImportExplained
    <3>. QED
      BY <3>2, <3>3 DEF Explained
  <2>2. CASE link # "importing"
    <3>1. /\ 1..head \subseteq Explained(mem) /\ 1..tables.n \subseteq Explained(tables.st) \union replayed
          /\ Explained(mem) \subseteq Explained(mem)'
      BY <1>2, <1>3, <2>2 DEF IndexExplained
    <3>2. ~ ImportLiveBlock /\ ~ FinishCatchup /\ ~ ImportSnapshot
      BY <2>2 DEF ImportLiveBlock, FinishCatchup, ImportSnapshot
    <3>3. 1..head' \subseteq Explained(mem)'
      <4>1. CASE ApplyBlock
        <5>1. head' = app.n
          BY <4>1 DEF ApplyBlock
        <5>. QED
          BY <4>1, <5>1, TakenExplained
      <4>2. CASE head' = head
        BY <3>1, <4>2
      <4>. QED
        BY <3>2, <4>1, <4>2, Moves
    <3>4. CASE UNCHANGED <<tables, replayed>>
      BY <1>4, <3>1, <3>3, <3>4 DEF Explained
    <3>5. CASE EnqueueWrite
      <4>1. app'.pc # "enqueue" /\ Synced'
        BY <3>5 DEF EnqueueWrite, Idle, Synced
      <4>2. tables'.n = head' /\ mem'.done = tables'.st.done \union replayed'
        BY <3>5, <4>1 DEF TablesInv, Follows, EnqueueWrite
      <4>. QED
        BY <3>3, <4>2 DEF Explained
    <3>6. CASE SaveAtShutdown
      <4>1. UNCHANGED <<tables, replayed>> \/ (tables'.n = head' /\ tables'.st = mem')
        BY <3>6 DEF SaveAtShutdown
      <4>. QED
        BY <3>3, <3>4, <4>1 DEF Explained
    <3>. QED
      BY <3>2, <3>4, <3>5, <3>6, Moves
  <2>. QED
    BY <2>1, <2>2
<1>. QED
  BY <1>5, <1>6, <1>7, <1>8

(* However often the connection is lost, whatever the catch-up buffer and the  *)
(* peers do, and wherever a shutdown strikes: every block below the head, and   *)
(* below the label of the tables, is in the index or known to be lost, and only *)
(* a block that a catch-up brought while the subscription still held it is      *)
(* applied twice (BlocksAccounted).                                             *)
THEOREM BlocksCorrect == Spec => []BlocksAccounted
<1>1. Overlaps /\ Account => BlocksAccounted
  <2>. SUFFICES ASSUME Overlaps, Account PROVE AppliedOrExplained
    BY DEF BlocksAccounted, Overlaps
  <2>. QED
    BY DEF Account, IndexExplained, Explained, AppliedOrExplained, Settled, Importing
<1>. QED
  BY <1>1, InitL1, NextL1, InitL2, NextL2, InitL3, NextL3, InitTables, NextTables, InitOverlaps,
     NextOverlaps, InitAccount, NextAccount, PTL DEF Spec

-----------------------------------------------------------------------------
(* The queue that the workers and channels implement. *)

Hand(w, pcs) == IF w.pc \in pcs THEN <<w.n>> ELSE <<>>

(* Pending as a function of the workers a, d, v and the channels p, r. *)
Queue(a, p, d, r, v) ==
  IF a.pc = "done" THEN <<>>
  ELSE IF d.pc = "done" THEN Hand(a, {"got"}) \o Numbers(p)
  ELSE ((Hand(a, {"got"}) \o Numbers(p)) \o (Hand(d, {"got", "send"}) \o r)) \o Hand(v, {"send"})

(* It is that. *)
LEMMA PendingIsQueue ==
  /\ Pending = Queue(app, prepared, dec, raw, recv)
  /\ Pending' = Queue(app', prepared', dec', raw', recv')
<1>1. Pending = Queue(app, prepared, dec, raw, recv)
  BY DEF Pending, Queue, Hand, Numbers
<1>2. Pending' = Queue(app', prepared', dec', raw', recv')
  BY DEF Pending, Queue, Hand, Numbers
<1>. QED
  BY <1>1, <1>2

(* Concatenations of block numbers. *)
LEMMA Associative == \A s, t, u \in Seq(Block) : (s \o t) \o u = s \o (t \o u)
BY ConcatAssociative

(* What else is used of them. *)
LEMMA ConcatFacts ==
  /\ \A s, t \in Seq(Block) : s \o t \in Seq(Block)
  /\ \A s \in Seq(Block) : s \o <<>> = s /\ <<>> \o s = s
  /\ \A s \in Seq(Block), e \in Block : Append(s, e) = s \o <<e>> /\ <<e>> \in Seq(Block)
  /\ \A s \in Seq(Block) : s # <<>> => s = <<Head(s)>> \o Tail(s) /\ Head(s) \in Block /\ Tail(s) \in Seq(Block)
  /\ \A s \in Seq(Block), e \in Block :
       <<e>> \o s # <<>> /\ Head(<<e>> \o s) = e /\ Tail(<<e>> \o s) = s
  /\ \A s, t \in Seq(Block) : Len(s) \in 0..Len(s \o t) /\ SubSeq(s \o t, 1, Len(s)) = s
<1>1. \A s, t \in Seq(Block) : s \o t \in Seq(Block)
  BY ConcatProperties
<1>3. \A s \in Seq(Block) : s \o <<>> = s /\ <<>> \o s = s
  BY ConcatEmptySeq
<1>4. \A s \in Seq(Block), e \in Block : Append(s, e) = s \o <<e>> /\ <<e>> \in Seq(Block)
  BY AppendIsConcat
<1>5. ASSUME NEW s \in Seq(Block), s # <<>>
      PROVE  s = <<Head(s)>> \o Tail(s) /\ Head(s) \in Block /\ Tail(s) \in Seq(Block)
  <2>1. /\ Len(s) \in Nat \ {0} /\ Head(s) = s[1] /\ Len(Tail(s)) = Len(s) - 1
        /\ \A i \in 1..Len(s) - 1 : Tail(s)[i] = s[i + 1]
        /\ Head(s) \in Block /\ Tail(s) \in Seq(Block)
    BY <1>5, TailFacts
  <2>. DEFINE u == <<Head(s)>>
              v == Tail(s)
  <2>2. u \in Seq(Block) /\ Len(u) = 1 /\ u[1] = Head(s) /\ v \in Seq(Block)
    BY <1>4, <2>1
  <2>3. /\ u \o v \in Seq(Block) /\ Len(u \o v) = Len(u) + Len(v)
        /\ \A i \in 1..Len(u) + Len(v) : (u \o v)[i] = IF i <= Len(u) THEN u[i] ELSE v[i - Len(u)]
    BY <2>2, ConcatProperties
  <2>4. Len(u \o v) = Len(s) /\ \A i \in 1..Len(s) : s[i] = (u \o v)[i]
    <3>1. Len(v) = Len(s) - 1 /\ \A i \in 1..Len(s) - 1 : v[i] = s[i + 1]
      BY <2>1
    <3>. HIDE DEF u, v
    <3>2. ASSUME NEW i \in 1..Len(s) PROVE s[i] = (u \o v)[i]
      <4>1. (u \o v)[i] = IF i <= 1 THEN u[1] ELSE v[i - 1]
        BY <2>1, <2>2, <2>3, <3>1
      <4>. QED
        BY <2>1, <2>2, <3>1, <4>1
    <3>. QED
      BY <2>1, <2>2, <2>3, <3>1, <3>2
  <2>5. s = u \o v
    BY <2>3, <2>4, SeqEqual
  <2>. QED
    BY <2>1, <2>5
<1>6. ASSUME NEW s \in Seq(Block), NEW e \in Block
      PROVE  <<e>> \o s # <<>> /\ Head(<<e>> \o s) = e /\ Tail(<<e>> \o s) = s
  <2>. DEFINE u == <<e>>
              w == u \o s
  <2>1. u \in Seq(Block) /\ Len(u) = 1 /\ u[1] = e /\ Len(s) \in Nat
    BY <1>4
  <2>2. /\ w \in Seq(Block) /\ Len(w) = Len(u) + Len(s)
        /\ \A i \in 1..Len(u) + Len(s) : w[i] = IF i <= Len(u) THEN u[i] ELSE s[i - Len(u)]
    BY <2>1, ConcatProperties
  <2>. HIDE DEF u, w
  <2>3. w # <<>>
    BY <2>1, <2>2
  <2>4. /\ Head(w) = w[1] /\ Tail(w) \in Seq(Block) /\ Len(Tail(w)) = Len(w) - 1
        /\ \A i \in 1..Len(w) - 1 : Tail(w)[i] = w[i + 1]
    BY <2>2, <2>3, TailFacts
  <2>5. Head(w) = e
    BY <2>1, <2>2, <2>4
  <2>6. Len(Tail(w)) = Len(s) /\ \A i \in 1..Len(s) : Tail(w)[i] = s[i]
    BY <2>1, <2>2, <2>4
  <2>7. Tail(w) = s
    BY <2>4, <2>6, SeqEqual
  <2>. QED
    BY <2>3, <2>5, <2>7 DEF u, w
<1>7. ASSUME NEW s \in Seq(Block), NEW t \in Seq(Block)
      PROVE  Len(s) \in 0..Len(s \o t) /\ SubSeq(s \o t, 1, Len(s)) = s
  <2>. DEFINE w == s \o t
              x == SubSeq(w, 1, Len(s))
  <2>1. /\ Len(s) \in Nat /\ Len(t) \in Nat /\ w \in Seq(Block) /\ Len(w) = Len(s) + Len(t)
        /\ \A i \in 1..Len(s) + Len(t) : w[i] = IF i <= Len(s) THEN s[i] ELSE t[i - Len(s)]
    BY ConcatProperties
  <2>. HIDE DEF w
  <2>2. \A i \in 1..Len(s) : w[i] = s[i] /\ w[i] \in Block
    BY <2>1
  <2>3. /\ x \in Seq(Block) /\ Len(x) = Len(s)
        /\ \A i \in 1..Len(s) : x[i] = w[i]
    BY <2>1, <2>2, SubSeqProperties
  <2>. HIDE DEF x
  <2>4. x = s
    BY <2>2, <2>3, SeqEqual
  <2>. QED
    BY <2>1, <2>4 DEF w, x
<1>. QED
  BY <1>1, <1>3, <1>4, <1>5, <1>6, <1>7

(* What the workers hold, as parts of the queue. *)
LEMMA PartTypes ==
  ASSUME L1
  PROVE  /\ Hand(app, {"got"}) \in Seq(Block) /\ Numbers(prepared) \in Seq(Block)
         /\ Hand(dec, {"got", "send"}) \in Seq(Block) /\ raw \in Seq(Block)
         /\ Hand(recv, {"send"}) \in Seq(Block) /\ <<>> \in Seq(Block)
<1>1. app.pc = "got" => app.n \in Block
  BY DEF L1, Typed, AppType
<1>2. dec.pc \in {"got", "send"} => dec.n \in Block
  BY DEF L1, Typed, DecType
<1>3. recv.pc = "send" => recv.n \in Block
  BY DEF L1, Typed, RecvType
<1>4. raw \in Seq(Block) /\ prepared \in Seq(Job)
  BY DEF L1, Typed, ChannelType
<1>5. Numbers(prepared) \in Seq(Block)
  BY <1>4, NumbersFacts
<1>. QED
  BY <1>1, <1>2, <1>3, <1>4, <1>5 DEF Hand

(* A pipeline that does not run has nothing pending. *)
LEMMA NothingPending ==
  /\ L1 /\ L2 /\ ~ Running => Pending = <<>>
  /\ L1' /\ L2' /\ ~ Running' => Pending' = <<>>
<1>1. L1 /\ L2 /\ ~ Running => Pending = <<>>
  <2>. SUFFICES ASSUME L1, L2, ~ Running PROVE Queue(app, prepared, dec, raw, recv) = <<>>
    BY PendingIsQueue
  <2>1. recv.pc = "off" /\ dec.pc = "off" /\ app.pc = "off"
    BY DEF L1, Phases, Running
  <2>2. raw = <<>> /\ Numbers(prepared) = <<>>
    BY <2>1 DEF L2, Channels, Numbers
  <2>3. /\ Hand(app, {"got"}) = <<>> /\ Hand(dec, {"got", "send"}) = <<>> /\ Hand(recv, {"send"}) = <<>>
    BY <2>1 DEF Hand
  <2>4. <<>> \o <<>> = <<>>
    BY PartTypes, ConcatFacts
  <2>. QED
    BY <2>1, <2>2, <2>3, <2>4 DEF Queue
<1>2. (L1 /\ L2 /\ ~ Running => Pending = <<>>)'
  BY <1>1, PTL
<1>. QED
  BY <1>1, <1>2

(* What each step of a worker does to the pending blocks: the receive worker ... *)
LEMMA ReceivePending ==
  ASSUME L1, L2, [Next]_vars
  PROVE  /\ ReceiveBlock => Pending' = Pending \/ (Head(ws) \in Block /\ Pending' = Append(Pending, Head(ws)))
         /\ SendRaw \/ ReceiveEnds => Pending' = Pending
<1>. DEFINE A == Hand(app, {"got"})
            P == Numbers(prepared)
            D == Hand(dec, {"got", "send"})
            V == Hand(recv, {"send"})
<1>1. A \in Seq(Block) /\ P \in Seq(Block) /\ D \in Seq(Block) /\ raw \in Seq(Block) /\ V \in Seq(Block)
  BY PartTypes
<1>2. /\ A \o P \in Seq(Block) /\ D \o raw \in Seq(Block) /\ (A \o P) \o (D \o raw) \in Seq(Block)
  <2>. HIDE DEF A, P, D
  <2>. QED
    BY <1>1, ConcatFacts
<1>3. Pending = IF app.pc = "done" THEN <<>> ELSE IF dec.pc = "done" THEN A \o P
                ELSE ((A \o P) \o (D \o raw)) \o V
  BY PendingIsQueue DEF Queue
<1>4. ASSUME ReceiveBlock
      PROVE  Pending' = Pending \/ (Head(ws) \in Block /\ Pending' = Append(Pending, Head(ws)))
  <2>1. /\ UNCHANGED <<app, prepared, dec, raw>> /\ recv.pc = "idle" /\ ws # <<>>
        /\ recv' = [pc |-> "send", n |-> Head(ws)]
    BY <1>4 DEF ReceiveBlock
  <2>2. Head(ws) \in Block
    BY <1>4, LineMoves DEF L2
  <2>3. V = <<>> /\ Hand(recv', {"send"}) = <<Head(ws)>>
    BY <2>1 DEF Hand
  <2>4. Pending' = IF app.pc = "done" THEN <<>> ELSE IF dec.pc = "done" THEN A \o P
                   ELSE ((A \o P) \o (D \o raw)) \o <<Head(ws)>>
    BY <2>1, <2>3, PendingIsQueue DEF Queue
  <2>. HIDE DEF A, P, D, V
  <2>5. /\ ((A \o P) \o (D \o raw)) \o V = (A \o P) \o (D \o raw)
        /\ Append((A \o P) \o (D \o raw), Head(ws)) = ((A \o P) \o (D \o raw)) \o <<Head(ws)>>
    BY <1>2, <2>2, <2>3, ConcatFacts
  <2>. QED
    BY <1>3, <2>2, <2>4, <2>5
<1>5. ASSUME SendRaw PROVE Pending' = Pending
  <2>1. /\ UNCHANGED <<app, prepared, dec>> /\ recv.pc = "send" /\ dec.pc # "done"
        /\ raw' = Append(raw, recv.n) /\ recv' = Idle
    BY <1>5 DEF SendRaw
  <2>2. recv.n \in Block
    BY <1>5, LineMoves DEF L2
  <2>3. V = <<recv.n>> /\ Hand(recv', {"send"}) = <<>>
    BY <2>1 DEF Hand, Idle
  <2>4. Pending' = IF app.pc = "done" THEN <<>> ELSE ((A \o P) \o (D \o Append(raw, recv.n))) \o <<>>
    BY <2>1, <2>3, PendingIsQueue DEF Queue
  <2>. HIDE DEF A, P, D, V
  <2>5. Append(raw, recv.n) = raw \o V /\ D \o (raw \o V) = (D \o raw) \o V
    <3>1. Append(raw, recv.n) = raw \o V
      BY <1>1, <2>2, <2>3, ConcatFacts
    <3>2. D \o (raw \o V) = (D \o raw) \o V
      BY <1>1, Associative, Zenon
    <3>. QED
      BY <3>1, <3>2
  <2>6. (A \o P) \o ((D \o raw) \o V) = ((A \o P) \o (D \o raw)) \o V /\ ((A \o P) \o (D \o raw)) \o V \in Seq(Block)
    <3>1. (A \o P) \o ((D \o raw) \o V) = ((A \o P) \o (D \o raw)) \o V
      <4>. DEFINE x == A \o P
                  y == D \o raw
      <4>1. x \in Seq(Block) /\ y \in Seq(Block) /\ V \in Seq(Block)
        BY <1>1, <1>2
      <4>. HIDE DEF x, y
      <4>2. x \o (y \o V) = (x \o y) \o V
        BY <4>1, Associative, Zenon
      <4>. QED
        BY <4>2 DEF x, y
    <3>2. ((A \o P) \o (D \o raw)) \o V \in Seq(Block)
      BY <1>1, <1>2, ConcatFacts
    <3>. QED
      BY <3>1, <3>2
  <2>7. (((A \o P) \o (D \o raw)) \o V) \o <<>> = ((A \o P) \o (D \o raw)) \o V
    BY <2>6, ConcatFacts
  <2>. QED
    BY <1>3, <2>1, <2>4, <2>5, <2>6, <2>7
<1>6. ASSUME ReceiveEnds PROVE Pending' = Pending
  <2>1. /\ UNCHANGED <<app, prepared, dec, raw>> /\ recv' = Ended
        /\ recv.pc = "idle" \/ dec.pc = "done"
    BY <1>6 DEF ReceiveEnds
  <2>2. Hand(recv', {"send"}) = <<>> /\ (recv.pc = "idle" => V = <<>>)
    BY <2>1 DEF Hand, Ended
  <2>3. Pending' = IF app.pc = "done" THEN <<>> ELSE IF dec.pc = "done" THEN A \o P
                   ELSE ((A \o P) \o (D \o raw)) \o <<>>
    BY <2>1, <2>2, PendingIsQueue DEF Queue
  <2>. HIDE DEF A, P, D, V
  <2>. QED
    BY <1>3, <2>1, <2>2, <2>3
<1>. QED
  BY <1>4, <1>5, <1>6

(* ... the decode worker ... *)
LEMMA DecodePending ==
  ASSUME L1, L2, [Next]_vars
  PROVE  /\ DecodeTake \/ PrepareBlock \/ SendPrepared => Pending' = Pending
         /\ DecodeEnds => \/ Pending' = Pending
                          \/ cancelled /\ \E k \in 0..Len(Pending) : Pending' = SubSeq(Pending, 1, k)
<1>. DEFINE A == Hand(app, {"got"})
            P == Numbers(prepared)
            D == Hand(dec, {"got", "send"})
            V == Hand(recv, {"send"})
<1>1. /\ A \in Seq(Block) /\ P \in Seq(Block) /\ D \in Seq(Block) /\ raw \in Seq(Block) /\ V \in Seq(Block)
      /\ <<>> \in Seq(Block)
  BY PartTypes
<1>2. /\ A \o P \in Seq(Block) /\ D \o raw \in Seq(Block) /\ (D \o raw) \o V \in Seq(Block)
  <2>. HIDE DEF A, P, D, V
  <2>. QED
    BY <1>1, ConcatFacts
<1>3. Pending = IF app.pc = "done" THEN <<>> ELSE IF dec.pc = "done" THEN A \o P
                ELSE ((A \o P) \o (D \o raw)) \o V
  BY PendingIsQueue DEF Queue
<1>4. ASSUME DecodeTake PROVE Pending' = Pending
  <2>1. /\ UNCHANGED <<app, prepared, recv>> /\ dec.pc = "idle" /\ raw # <<>> /\ raw' = Tail(raw)
        /\ dec' = [pc |-> "got", n |-> Head(raw)]
    BY <1>4 DEF DecodeTake
  <2>2. D = <<>> /\ Hand(dec', {"got", "send"}) = <<Head(raw)>> /\ dec'.pc = "got"
    BY <2>1 DEF Hand
  <2>3. Pending' = IF app.pc = "done" THEN <<>> ELSE ((A \o P) \o (<<Head(raw)>> \o Tail(raw))) \o V
    BY <2>1, <2>2, PendingIsQueue DEF Queue
  <2>. HIDE DEF A, P, D, V
  <2>4. <<Head(raw)>> \o Tail(raw) = raw /\ D \o raw = raw
    BY <1>1, <2>1, <2>2, ConcatFacts
  <2>. QED
    BY <1>3, <2>1, <2>3, <2>4
<1>5. ASSUME PrepareBlock PROVE Pending' = Pending
  <2>1. UNCHANGED <<app, prepared, raw, recv>> /\ dec.pc = "got" /\ dec'.pc = "send" /\ dec'.n = dec.n
    BY <1>5 DEF PrepareBlock
  <2>2. Hand(dec', {"got", "send"}) = D
    BY <2>1 DEF Hand
  <2>. QED
    BY <2>1, <2>2, PendingIsQueue DEF Queue
<1>6. ASSUME SendPrepared PROVE Pending' = Pending
  <2>1. /\ UNCHANGED <<app, raw, recv>> /\ dec.pc = "send" /\ app.pc # "done"
        /\ prepared' = Append(prepared, [n |-> dec.n, mapped |-> dec.mapped]) /\ dec' = Idle
        /\ dec.mapped \in BOOLEAN /\ dec.n \in Block /\ prepared \in Seq(Job)
    BY <1>6 DEF SendPrepared, L1, Typed, DecType, ChannelType
  <2>2. [n |-> dec.n, mapped |-> dec.mapped] \in Job
    BY <2>1 DEF Job
  <2>3. Numbers(prepared') = Append(P, dec.n)
    BY <2>1, <2>2, NumbersFacts
  <2>4. D = <<dec.n>> /\ Hand(dec', {"got", "send"}) = <<>> /\ dec'.pc = "idle"
    BY <2>1 DEF Hand, Idle
  <2>5. Pending' = ((A \o Append(P, dec.n)) \o (<<>> \o raw)) \o V
    BY <2>1, <2>3, <2>4, PendingIsQueue DEF Queue
  <2>. HIDE DEF A, P, D, V
  <2>6. A \o Append(P, dec.n) = (A \o P) \o D /\ <<>> \o raw = raw
    <3>1. Append(P, dec.n) = P \o D /\ <<>> \o raw = raw
      BY <1>1, <2>1, <2>4, ConcatFacts
    <3>2. A \o (P \o D) = (A \o P) \o D
      <4>1. A \in Seq(Block) /\ P \in Seq(Block) /\ D \in Seq(Block)
        BY <1>1
      <4>. QED
        BY <4>1, Associative, Zenon
    <3>. QED
      BY <3>1, <3>2
  <2>7. ((A \o P) \o D) \o raw = (A \o P) \o (D \o raw)
    <3>. DEFINE x == A \o P
    <3>1. x \in Seq(Block) /\ D \in Seq(Block) /\ raw \in Seq(Block)
      BY <1>1, <1>2
    <3>. HIDE DEF x
    <3>2. (x \o D) \o raw = x \o (D \o raw)
      BY <3>1, Associative, Zenon
    <3>. QED
      BY <3>2 DEF x
  <2>. QED
    BY <1>3, <2>1, <2>5, <2>6, <2>7
<1>7. ASSUME DecodeEnds
      PROVE  \/ Pending' = Pending
             \/ cancelled /\ \E k \in 0..Len(Pending) : Pending' = SubSeq(Pending, 1, k)
  <2>1. /\ UNCHANGED <<app, prepared, recv>> /\ dec'.pc = "done"
        /\ \/ dec.pc = "idle" /\ raw = <<>> /\ recv.pc = "done"
           \/ dec.pc = "idle" /\ cancelled
           \/ app.pc = "done"
    BY <1>7 DEF DecodeEnds, Ended
  <2>2. Pending' = IF app.pc = "done" THEN <<>> ELSE A \o P
    BY <2>1, PendingIsQueue DEF Queue
  <2>3. CASE dec.pc = "idle" /\ raw = <<>> /\ recv.pc = "done"
    <3>1. D = <<>> /\ V = <<>>
      BY <2>3 DEF Hand
    <3>. HIDE DEF A, P, D, V
    <3>2. D \o raw = <<>> /\ (A \o P) \o <<>> = A \o P
      BY <1>1, <1>2, <2>3, <3>1, ConcatFacts
    <3>. QED
      BY <1>3, <2>2, <2>3, <3>1, <3>2
  <2>4. CASE dec.pc = "idle" /\ cancelled /\ app.pc # "done"
    <3>. DEFINE s == A \o P
                t == (D \o raw) \o V
    <3>. HIDE DEF A, P, D, V
    <3>1. Pending = s \o t
      <4>1. ((A \o P) \o (D \o raw)) \o V = s \o t
        <5>. DEFINE y == D \o raw
        <5>1. s \in Seq(Block) /\ y \in Seq(Block) /\ V \in Seq(Block)
          BY <1>1, <1>2
        <5>. HIDE DEF s, y
        <5>2. (s \o y) \o V = s \o (y \o V)
          BY <5>1, Associative, Zenon
        <5>. QED
          BY <5>2 DEF s, y
      <4>. QED
        BY <1>3, <2>4, <4>1
    <3>2. Len(s) \in 0..Len(s \o t) /\ SubSeq(s \o t, 1, Len(s)) = s
      BY <1>2, ConcatFacts
    <3>. HIDE DEF s, t
    <3>3. Pending' = s
      BY <2>2, <2>4 DEF s
    <3>. QED
      BY <2>4, <3>1, <3>2, <3>3
  <2>5. CASE app.pc = "done"
    BY <1>3, <2>2, <2>5
  <2>. QED
    BY <2>1, <2>3, <2>4, <2>5
<1>. QED
  BY <1>4, <1>5, <1>6, <1>7

(* ... and the apply worker. *)
LEMMA ApplyPending ==
  ASSUME L1, L2, [Next]_vars
  PROVE  /\ ApplyTake \/ EnqueueWrite => Pending' = Pending
         /\ ApplyBlock => Pending # <<>> /\ Head(Pending) = app.n /\ Pending' = Tail(Pending)
         /\ ApplyEnds => Pending' = <<>> /\ (Pending = <<>> \/ cancelled)
<1>. DEFINE A == Hand(app, {"got"})
            P == Numbers(prepared)
            D == Hand(dec, {"got", "send"})
            V == Hand(recv, {"send"})
<1>1. /\ A \in Seq(Block) /\ P \in Seq(Block) /\ D \in Seq(Block) /\ raw \in Seq(Block) /\ V \in Seq(Block)
      /\ <<>> \in Seq(Block)
  BY PartTypes
<1>2. D \o raw \in Seq(Block) /\ P \o (D \o raw) \in Seq(Block) /\ (P \o (D \o raw)) \o V \in Seq(Block)
  <2>. HIDE DEF A, P, D, V
  <2>. QED
    BY <1>1, ConcatFacts
<1>3. Pending = IF app.pc = "done" THEN <<>> ELSE IF dec.pc = "done" THEN A \o P
                ELSE ((A \o P) \o (D \o raw)) \o V
  BY PendingIsQueue DEF Queue
<1>4. ASSUME ApplyTake PROVE Pending' = Pending
  <2>1. /\ UNCHANGED <<dec, raw, recv>> /\ app.pc = "idle" /\ prepared # <<>> /\ prepared' = Tail(prepared)
        /\ app'.pc = "got" /\ app'.n = Head(prepared).n /\ prepared \in Seq(Job)
    BY <1>4 DEF ApplyTake, L1, Typed, ChannelType
  <2>2. P # <<>> /\ Numbers(prepared') = Tail(P) /\ Head(P) = Head(prepared).n
    BY <2>1, NumbersFacts
  <2>3. A = <<>> /\ Hand(app', {"got"}) = <<Head(P)>>
    BY <2>1, <2>2 DEF Hand
  <2>4. Pending' = IF dec.pc = "done" THEN <<Head(P)>> \o Tail(P)
                   ELSE ((<<Head(P)>> \o Tail(P)) \o (D \o raw)) \o V
    BY <2>1, <2>2, <2>3, PendingIsQueue DEF Queue
  <2>. HIDE DEF A, P, D, V
  <2>5. <<Head(P)>> \o Tail(P) = P /\ A \o P = P
    BY <1>1, <2>2, <2>3, ConcatFacts
  <2>. QED
    BY <1>3, <2>1, <2>4, <2>5
<1>5. ASSUME EnqueueWrite PROVE Pending' = Pending
  <2>1. UNCHANGED <<prepared, dec, raw, recv>> /\ app.pc = "enqueue" /\ app'.pc = "idle"
    BY <1>5 DEF EnqueueWrite, Idle
  <2>2. Hand(app', {"got"}) = A
    BY <2>1 DEF Hand
  <2>. QED
    BY <2>1, <2>2, PendingIsQueue DEF Queue
<1>6. ASSUME ApplyBlock PROVE Pending # <<>> /\ Head(Pending) = app.n /\ Pending' = Tail(Pending)
  <2>1. UNCHANGED <<prepared, dec, raw, recv>> /\ app.pc = "got" /\ app'.pc = "enqueue"
    BY <1>6 DEF ApplyBlock
  <2>2. A = <<app.n>> /\ Hand(app', {"got"}) = <<>> /\ app.n \in Block
    BY <2>1 DEF Hand, L1, Typed, AppType
  <2>3. Pending' = IF dec.pc = "done" THEN <<>> \o P ELSE ((<<>> \o P) \o (D \o raw)) \o V
    BY <2>1, <2>2, PendingIsQueue DEF Queue
  <2>. DEFINE y == D \o raw
              rest == IF dec.pc = "done" THEN P ELSE (P \o y) \o V
  <2>. HIDE DEF A, P, D, V
  <2>4. rest \in Seq(Block) /\ Pending' = rest
    BY <1>1, <1>2, <2>3, ConcatFacts
  <2>5. Pending = A \o rest
    <3>1. y \in Seq(Block) /\ A \in Seq(Block) /\ P \in Seq(Block)
      BY <1>1, <1>2
    <3>2. Pending = IF dec.pc = "done" THEN A \o P ELSE ((A \o P) \o y) \o V
      BY <1>3, <2>1
    <3>. HIDE DEF y
    <3>3. (A \o P) \o y = A \o (P \o y)
      BY <3>1, Associative, Zenon
    <3>. DEFINE x == P \o y
    <3>4. x \in Seq(Block) /\ A \in Seq(Block) /\ V \in Seq(Block)
      BY <1>1, <3>1, ConcatFacts
    <3>. HIDE DEF x
    <3>5. (A \o x) \o V = A \o (x \o V)
      BY <3>4, Associative, Zenon
    <3>. QED
      BY <3>2, <3>3, <3>5 DEF x
  <2>. HIDE DEF rest
  <2>. QED
    BY <2>2, <2>4, <2>5, ConcatFacts
<1>7. ASSUME ApplyEnds PROVE Pending' = <<>> /\ (Pending = <<>> \/ cancelled)
  <2>1. app'.pc = "done" /\ app.pc = "idle" /\ ((prepared = <<>> /\ dec.pc = "done") \/ cancelled)
    BY <1>7 DEF ApplyEnds, Ended
  <2>2. Pending' = <<>>
    BY <2>1, PendingIsQueue DEF Queue
  <2>3. CASE prepared = <<>> /\ dec.pc = "done"
    <3>1. A = <<>> /\ P = <<>> /\ <<>> \o <<>> = <<>>
      BY <1>1, <2>1, <2>3, ConcatFacts DEF Hand, Numbers
    <3>. QED
      BY <1>3, <2>2, <2>3, <3>1
  <2>. QED
    BY <2>1, <2>2, <2>3
<1>. QED
  BY <1>4, <1>5, <1>6, <1>7

(* The pending blocks are a sequence of blocks. *)
LEMMA PendingTypes == L1 => Pending \in Seq(Block) /\ Len(Pending) \in Nat
<1>. SUFFICES ASSUME L1 PROVE Pending \in Seq(Block)
  BY LenProperties
<1>. DEFINE A == Hand(app, {"got"})
            P == Numbers(prepared)
            D == Hand(dec, {"got", "send"})
            V == Hand(recv, {"send"})
<1>1. /\ A \in Seq(Block) /\ P \in Seq(Block) /\ D \in Seq(Block) /\ raw \in Seq(Block) /\ V \in Seq(Block)
      /\ <<>> \in Seq(Block)
  BY PartTypes
<1>2. Pending = IF app.pc = "done" THEN <<>> ELSE IF dec.pc = "done" THEN A \o P
                ELSE ((A \o P) \o (D \o raw)) \o V
  BY PendingIsQueue DEF Queue
<1>. HIDE DEF A, P, D, V
<1>3. A \o P \in Seq(Block) /\ D \o raw \in Seq(Block)
  BY <1>1, ConcatFacts
<1>4. (A \o P) \o (D \o raw) \in Seq(Block)
  BY <1>3, ConcatFacts
<1>5. ((A \o P) \o (D \o raw)) \o V \in Seq(Block)
  BY <1>1, <1>4, ConcatFacts
<1>. QED
  BY <1>1, <1>2, <1>3, <1>5

(* A pipeline starts empty. *)
LEMMA StartsEmpty ==
  ASSUME app'.pc = "idle", dec'.pc = "idle", recv'.pc = "idle", raw' = <<>>, prepared' = <<>>
  PROVE  Pending' = <<>>
<1>1. Numbers(prepared') = <<>>
  BY DEF Numbers
<1>2. Hand(app', {"got"}) = <<>> /\ Hand(dec', {"got", "send"}) = <<>> /\ Hand(recv', {"send"}) = <<>>
  BY DEF Hand
<1>3. <<>> \in Seq(Block)
  OBVIOUS
<1>4. <<>> \o <<>> = <<>>
  BY <1>3, ConcatFacts
<1>. QED
  BY <1>1, <1>2, <1>4, PendingIsQueue DEF Queue

(* Every step of the pipeline is a step of the queue, or none. *)
LEMMA QueueStep == L1 /\ L2 /\ L1' /\ L2' /\ [Next]_vars => [BQ!QNext]_(BQ!qvars)
<1>. SUFFICES ASSUME L1, L2, L1', L2', [Next]_vars PROVE BQ!QNext \/ UNCHANGED <<Pending, head, cancelled>>
  BY DEF BQ!qvars
<1>1. CASE ReceiveBlock
  <2>1. UNCHANGED <<head, cancelled>>
    BY <1>1 DEF ReceiveBlock
  <2>2. \/ Pending' = Pending
        \/ Head(ws) \in Block /\ Pending' = Append(Pending, Head(ws))
    BY <1>1, ReceivePending
  <2>. QED
    BY <2>1, <2>2 DEF BQ!QNext, BQ!Accept
<1>2. CASE SendRaw \/ ReceiveEnds \/ DecodeTake \/ PrepareBlock \/ SendPrepared \/ ApplyTake \/ EnqueueWrite
  <2>1. UNCHANGED <<head, cancelled>>
    BY <1>2 DEF SendRaw, ReceiveEnds, DecodeTake, PrepareBlock, SendPrepared, ApplyTake, EnqueueWrite
  <2>. QED
    BY <1>2, <2>1, ReceivePending, DecodePending, ApplyPending
<1>3. CASE DecodeEnds
  <2>1. UNCHANGED <<head, cancelled>>
    BY <1>3 DEF DecodeEnds
  <2>2. \/ Pending' = Pending
        \/ cancelled /\ \E k \in 0..Len(Pending) : Pending' = SubSeq(Pending, 1, k)
    BY <1>3, DecodePending
  <2>. QED
    BY <2>1, <2>2 DEF BQ!QNext, BQ!Forget
<1>4. CASE ApplyBlock
  <2>1. head' = app.n /\ UNCHANGED cancelled
    BY <1>4 DEF ApplyBlock
  <2>2. Pending # <<>> /\ Head(Pending) = app.n /\ Pending' = Tail(Pending)
    BY <1>4, ApplyPending
  <2>. QED
    BY <2>1, <2>2 DEF BQ!QNext, BQ!ApplyFirst
<1>5. CASE ApplyEnds
  <2>1. UNCHANGED <<head, cancelled>>
    BY <1>5 DEF ApplyEnds
  <2>2. Pending' = <<>> /\ (Pending = <<>> \/ cancelled)
    BY <1>5, ApplyPending
  <2>3. Pending' = SubSeq(Pending, 1, 0) /\ 0 \in 0..Len(Pending)
    <3>1. SubSeq(Pending, 1, 0) = <<>>
      BY SubSeqEmpty
    <3>2. Len(Pending) \in Nat
      BY PendingTypes
    <3>. QED
      BY <2>2, <3>1, <3>2
  <2>. QED
    BY <2>1, <2>2, <2>3 DEF BQ!QNext, BQ!Forget
<1>6. CASE GoLive \/ PipelineEnds
  <2>1. UNCHANGED <<head, cancelled>>
    BY <1>6 DEF GoLive, PipelineEnds, Disconnected
  <2>2. Pending = <<>> /\ Pending' = <<>>
    <3>1. CASE GoLive
      <4>1. ~ Running /\ app'.pc = "idle" /\ dec'.pc = "idle" /\ recv'.pc = "idle" /\ raw' = <<>> /\ prepared' = <<>>
        BY <3>1 DEF GoLive, StartPipeline, Idle, L1, Phases
      <4>. QED
        BY <4>1, NothingPending, StartsEmpty
    <3>2. CASE PipelineEnds
      <4>1. app.pc = "done" /\ ~ Running'
        BY <3>2 DEF PipelineEnds, Off, Running
      <4>2. Pending = <<>>
        BY <4>1, PendingIsQueue DEF Queue
      <4>. QED
        BY <4>1, <4>2, NothingPending
    <3>. QED
      BY <1>6, <3>1, <3>2
  <2>. QED
    BY <2>1, <2>2
<1>7. CASE FinishCatchup \/ ImportLiveBlock
  <2>1. UNCHANGED cancelled /\ link = "importing"
    BY <1>7 DEF FinishCatchup, ImportLiveBlock
  <2>2. Pending = <<>>
    BY <2>1, NothingPending DEF L1, Phases
  <2>3. Pending' = <<>>
    <3>1. CASE FinishCatchup
      <4>1. app'.pc = "idle" /\ dec'.pc = "idle" /\ recv'.pc = "idle" /\ raw' = <<>> /\ prepared' = <<>>
        BY <3>1 DEF FinishCatchup, StartPipeline, Idle
      <4>. QED
        BY <4>1, StartsEmpty
    <3>2. CASE ImportLiveBlock
      <4>1. UNCHANGED <<app, prepared, dec, raw, recv>>
        BY <3>2 DEF ImportLiveBlock, workers
      <4>. QED
        BY <2>2, <4>1, PendingIsQueue
    <3>. QED
      BY <1>7, <3>1, <3>2
  <2>4. head' \in Block
    <3>1. CASE FinishCatchup
      BY <2>1, <3>1 DEF FinishCatchup, L1, Typed, ImpType, Importing
    <3>2. CASE ImportLiveBlock
      <4>1. Head(buffer) \in Block
        BY <3>2, LineMoves DEF L2
      <4>. QED
        BY <3>2, <4>1 DEF ImportLiveBlock
    <3>. QED
      BY <1>7, <3>1, <3>2
  <2>. QED
    BY <2>1, <2>2, <2>3, <2>4 DEF BQ!QNext, BQ!Adopt
<1>8. CASE Cancel
  <2>1. cancelled' = TRUE /\ UNCHANGED <<head, app, prepared, dec, raw, recv>>
    BY <1>8 DEF Cancel, workers
  <2>2. Pending' = Pending
    BY <2>1, PendingIsQueue
  <2>. QED
    BY <2>1, <2>2 DEF BQ!QNext, BQ!Stop
<1>9. CASE UNCHANGED <<head, cancelled, app, prepared, dec, raw, recv>>
  BY <1>9, PendingIsQueue
<1>. QED
  BY <1>1, <1>2, <1>3, <1>4, <1>5, <1>6, <1>7, <1>8, <1>9, Moves

(* Three workers, two bounded channels, reconnects and catch-ups implement one *)
(* queue: blocks are applied in the order they were received, none is passed   *)
(* over before a shutdown, a shutdown forgets only the last ones, and the head *)
(* moves past a block in no other way (PipelineIsAQueue).                      *)
THEOREM PipelineImplementsQueue == Spec => PipelineIsAQueue
<1>1. Init => BQ!QInit
  <2>. SUFFICES ASSUME Init PROVE Pending = <<>> /\ head \in Nat /\ cancelled = FALSE
    BY DEF BQ!QInit
  <2>1. L1 /\ L2
    BY InitL1, InitL2
  <2>2. ~ Running /\ cancelled = FALSE
    BY DEF Init, Off, Running
  <2>. QED
    BY <2>1, <2>2, NothingPending DEF L1, Typed, NodeType, Height
<1>. QED
  BY <1>1, InitL1, NextL1, InitL2, NextL2, QueueStep, PTL DEF Spec, PipelineIsAQueue, BQ!QSpec
=============================================================================
