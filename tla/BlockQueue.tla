----------------------------- MODULE BlockQueue -----------------------------
(***************************************************************************)
(* What the live pipeline promises (the comment at the top of              *)
(* indexer/pipeline.rs): three workers and two bounded channels behave     *)
(* like one queue of receipt blocks.  A block enters at the end, is        *)
(* applied when it is the first, and leaves in no other way, except that a *)
(* shutdown may forget the last ones.  A catch-up moves the head only      *)
(* while nothing is queued.                                                *)
(***************************************************************************)
EXTENDS Naturals, Sequences

CONSTANT Block          \* block numbers

VARIABLES queue,        \* blocks received and not yet applied
          last,         \* IndexedBlockHead.block_num
          stopping      \* the cancellation token has fired

qvars == <<queue, last, stopping>>

QInit == queue = <<>> /\ last \in Nat /\ stopping = FALSE

Accept(b) == queue' = Append(queue, b) /\ UNCHANGED <<last, stopping>>

ApplyFirst ==
  /\ queue # <<>>
  /\ last' = Head(queue) /\ queue' = Tail(queue) /\ UNCHANGED stopping

Adopt(h) ==
  /\ queue = <<>>
  /\ last' = h /\ UNCHANGED <<queue, stopping>>

Stop == stopping' = TRUE /\ UNCHANGED <<queue, last>>

Forget(k) ==
  /\ stopping
  /\ queue' = SubSeq(queue, 1, k) /\ UNCHANGED <<last, stopping>>

QNext ==
  \/ \E b \in Block : Accept(b)
  \/ ApplyFirst
  \/ \E h \in Block : Adopt(h)
  \/ Stop
  \/ \E k \in 0..Len(queue) : Forget(k)

QSpec == QInit /\ [][QNext]_qvars
=============================================================================
