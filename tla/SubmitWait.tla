----------------------------- MODULE SubmitWait -----------------------------
(***************************************************************************)
(* POST /api/tx/submit: from the HTTP request to the receipt               *)
(* (submit_queue.rs, submit_wait.rs, mempool_client.rs).                   *)
(*                                                                         *)
(*   submit()        puts a job on a bounded queue and awaits its answer   *)
(*   ingress task    one job at a time: register a waiter under the digest *)
(*                   of the transaction, push the bytes to the mempool     *)
(*                   client, await its answer, spawn a receipt-wait task   *)
(*   mempool sender  one request at a time over one connection, a failed   *)
(*                   send is retried once over a new connection            *)
(*   process_block   completes the waiter of every transaction of a block  *)
(*   receipt wait    receipt, closed channel or timeout, then the answer   *)
(*                                                                         *)
(* Several requests may carry the same signed transaction, hence the same  *)
(* digest.  The node is external: it may put a delivered transaction in a  *)
(* block at any later time, or never.                                      *)
(***************************************************************************)
EXTENDS Naturals, Sequences, FiniteSets

CONSTANTS Request,     \* HTTP submit requests
          Digest,      \* transaction digests
          DigestOf,    \* the digest of the transaction a request carries
          QueueCap,    \* capacity of the submit queue
          MaxInject,   \* bound: copies of a transaction sent by inject()
          None         \* no request

ASSUME DigestAssumption == DigestOf \in [Request -> Digest]
ASSUME NoneAssumption == None \notin Request
ASSUME CapAssumption == QueueCap \in Nat \ {0} /\ MaxInject \in Nat

VARIABLES
  stage,      \* where each request is
  outcome,    \* the answer computed for the request
  queue,      \* the submit queue
  pending,    \* SubmitWaitRegistry.pending: digest -> the request waiting
  chan,       \* the receipt oneshot of each request
  wire,       \* mempool sender: the attempt it is on
  injected,   \* copies of each transaction pushed by inject()
  delivered,  \* copies of each transaction that reached the node
  included    \* how many times blocks with the digest have been applied

vars == <<stage, outcome, queue, pending, chan, wire, injected, delivered, included>>

(* "new"       not yet sent by a client                                    *)
(* "enqueue"   awaiting room in the submit queue                           *)
(* "queued"    in the submit queue                                         *)
(* "sending"   taken by the ingress task, registered, in the mempool client*)
(* "waiting"   a receipt-wait task polls the oneshot                       *)
(* "cleanup"   the wait ended without a receipt, cancel not yet called     *)
(* "answered"  respond_to.send done                                        *)
Stage == {"new", "enqueue", "queued", "sending", "waiting", "cleanup", "answered"}
Outcome == {"none", "receipt", "mempool_error", "dropped", "timeout"}

(* State of the oneshot: its sender is held, it carries a receipt, or the sender is gone. *)
Channel == {"open", "receipt", "closed"}

TypeOK ==
  /\ stage \in [Request -> Stage]
  /\ outcome \in [Request -> Outcome]
  /\ queue \in Seq(Request)
  /\ pending \in [Digest -> Request \union {None}]
  /\ chan \in [Request -> Channel]
  /\ wire \in 0..2
  /\ injected \in [Digest -> Nat]
  /\ delivered \in [Digest -> Nat]
  /\ included \in [Digest -> Nat]

Init ==
  /\ stage = [r \in Request |-> "new"]
  /\ outcome = [r \in Request |-> "none"]
  /\ queue = <<>>
  /\ pending = [d \in Digest |-> None]
  /\ chan = [r \in Request |-> "open"]
  /\ wire = 0
  /\ injected = [d \in Digest |-> 0]
  /\ delivered = [d \in Digest |-> 0]
  /\ included = [d \in Digest |-> 0]

-----------------------------------------------------------------------------
(* SubmitQueue::submit is called ... *)
Submit(r) ==
  /\ stage[r] = "new"
  /\ stage' = [stage EXCEPT ![r] = "enqueue"]
  /\ UNCHANGED <<outcome, queue, pending, chan, wire, injected, delivered, included>>

(* ... and its send goes through once there is room. *)
Enqueue(r) ==
  /\ stage[r] = "enqueue" /\ Len(queue) < QueueCap
  /\ stage' = [stage EXCEPT ![r] = "queued"]
  /\ queue' = Append(queue, r)
  /\ UNCHANGED <<outcome, pending, chan, wire, injected, delivered, included>>

IngressFree == \A r \in Request : stage[r] # "sending"

(* The channels once the sender stored for d, if any, has been dropped. *)
DropSender(d) ==
  [r \in Request |-> IF pending[d] = r /\ chan[r] = "open" THEN "closed" ELSE chan[r]]

(***************************************************************************)
(* Ingress task: recv, then register.  DashMap::insert replaces, and so    *)
(* drops, a sender registered earlier under the same digest.               *)
(***************************************************************************)
Register ==
  /\ IngressFree /\ queue # <<>>
  /\ LET r == Head(queue)
         d == DigestOf[r]
     IN /\ stage' = [stage EXCEPT ![r] = "sending"]
        /\ chan' = DropSender(d)
        /\ pending' = [pending EXCEPT ![d] = r]
  /\ queue' = Tail(queue)
  /\ wire' = 1
  /\ UNCHANGED <<outcome, injected, delivered, included>>

(* A copy of the transaction may or may not have reached the node. *)
MayReachNode(d) ==
  \/ UNCHANGED delivered
  \/ delivered' = [delivered EXCEPT ![d] = @ + 1]

(* SubmitQueue::inject: the bytes go to the mempool and no waiter is registered. *)
Inject(d) ==
  /\ injected[d] < MaxInject
  /\ injected' = [injected EXCEPT ![d] = @ + 1]
  /\ MayReachNode(d)
  /\ UNCHANGED <<stage, outcome, queue, pending, chan, wire, included>>

(* Mutant of SendRetry: the failed first attempt cancels the waiter. *)
SendRetryCancels(r) ==
  /\ stage[r] = "sending" /\ wire = 1
  /\ wire' = 2
  /\ chan' = DropSender(DigestOf[r])
  /\ pending' = [pending EXCEPT ![DigestOf[r]] = None]
  /\ MayReachNode(DigestOf[r])
  /\ UNCHANGED <<stage, outcome, queue, injected, included>>

(* send_on_connection: the first send failed, a second one follows over a   *)
(* new connection.  The bytes of the first may have gone out.               *)
SendRetry(r) ==
  /\ stage[r] = "sending" /\ wire = 1
  /\ wire' = 2
  /\ MayReachNode(DigestOf[r])
  /\ UNCHANGED <<stage, outcome, queue, pending, chan, injected, included>>

(* The send succeeded: a receipt-wait task is spawned. *)
SendOk(r) ==
  /\ stage[r] = "sending"
  /\ stage' = [stage EXCEPT ![r] = "waiting"]
  /\ wire' = 0
  /\ delivered' = [delivered EXCEPT ![DigestOf[r]] = @ + 1]
  /\ UNCHANGED <<outcome, queue, pending, chan, injected, included>>

(* The connect, or the second send, failed: cancel and answer. *)
SendFails(r) ==
  /\ stage[r] = "sending"
  /\ stage' = [stage EXCEPT ![r] = "answered"]
  /\ outcome' = [outcome EXCEPT ![r] = "mempool_error"]
  /\ wire' = 0
  /\ chan' = DropSender(DigestOf[r])
  /\ pending' = [pending EXCEPT ![DigestOf[r]] = None]
  /\ (wire = 2 /\ MayReachNode(DigestOf[r])) \/ UNCHANGED delivered
  /\ UNCHANGED <<queue, injected, included>>

(* Mutant of Complete: only a waiter that is already parked is woken. *)
CompleteParked(d) ==
  /\ included[d] < delivered[d]
  /\ included' = [included EXCEPT ![d] = @ + 1]
  /\ chan' = [r \in Request |->
                IF pending[d] = r /\ chan[r] = "open" /\ stage[r] = "waiting"
                THEN "receipt" ELSE chan[r]]
  /\ pending' = [pending EXCEPT ![d] = None]
  /\ UNCHANGED <<stage, outcome, queue, wire, injected, delivered>>

(***************************************************************************)
(* process_prepared_block: the block that holds the transaction is applied *)
(* and complete() removes the entry and sends on the oneshot.  The send is *)
(* lost when the wait task has already given up its receiver.              *)
(***************************************************************************)
Complete(d) ==
  /\ included[d] < delivered[d]
  /\ included' = [included EXCEPT ![d] = @ + 1]
  /\ chan' = [r \in Request |->
                IF pending[d] = r /\ chan[r] = "open" THEN "receipt" ELSE chan[r]]
  /\ pending' = [pending EXCEPT ![d] = None]
  /\ UNCHANGED <<stage, outcome, queue, wire, injected, delivered>>

(* wait_for_receipt: the receipt arrived, also if it did before the task was spawned. *)
Receive(r) ==
  /\ stage[r] = "waiting" /\ chan[r] = "receipt"
  /\ stage' = [stage EXCEPT ![r] = "answered"]
  /\ outcome' = [outcome EXCEPT ![r] = "receipt"]
  /\ UNCHANGED <<queue, pending, chan, wire, injected, delivered, included>>

(* Mutant of Dropped: the task polls the closed channel again. *)
DroppedIgnored(r) ==
  /\ stage[r] = "waiting" /\ chan[r] = "closed"
  /\ UNCHANGED vars

(* wait_for_receipt: the sender was dropped. *)
Dropped(r) ==
  /\ stage[r] = "waiting" /\ chan[r] = "closed"
  /\ stage' = [stage EXCEPT ![r] = "cleanup"]
  /\ outcome' = [outcome EXCEPT ![r] = "dropped"]
  /\ UNCHANGED <<queue, pending, chan, wire, injected, delivered, included>>

(* wait_for_receipt: the timer fired first; the receiver is gone from here on. *)
Timeout(r) ==
  /\ stage[r] = "waiting" /\ chan[r] = "open"
  /\ stage' = [stage EXCEPT ![r] = "cleanup"]
  /\ outcome' = [outcome EXCEPT ![r] = "timeout"]
  /\ chan' = [chan EXCEPT ![r] = "closed"]
  /\ UNCHANGED <<queue, pending, wire, injected, delivered, included>>

(* Mutant of Cleanup: the wait task answers without calling cancel. *)
CleanupWithoutCancel(r) ==
  /\ stage[r] = "cleanup"
  /\ stage' = [stage EXCEPT ![r] = "answered"]
  /\ UNCHANGED <<outcome, queue, pending, chan, wire, injected, delivered, included>>

(* submit_wait.cancel(digest), whoever the entry belongs to, then the answer. *)
Cleanup(r) ==
  /\ stage[r] = "cleanup"
  /\ stage' = [stage EXCEPT ![r] = "answered"]
  /\ chan' = DropSender(DigestOf[r])
  /\ pending' = [pending EXCEPT ![DigestOf[r]] = None]
  /\ UNCHANGED <<outcome, queue, wire, injected, delivered, included>>

Next ==
  \/ \E r \in Request : \/ Submit(r) \/ Enqueue(r)
                        \/ SendRetry(r) \/ SendOk(r) \/ SendFails(r)
                        \/ Receive(r) \/ Dropped(r) \/ Timeout(r) \/ Cleanup(r)
  \/ Register
  \/ \E d \in Digest : Inject(d) \/ Complete(d)

Spec == Init /\ [][Next]_vars

(* The tasks are scheduled by tokio, send_on_connection tries a second time  *)
(* at once and the timer fires.  Nothing is assumed of the clients, of the   *)
(* node, or of a TCP send: it has no timeout and may never return.           *)
Fairness ==
  /\ WF_vars(Register)
  /\ \A r \in Request :
       /\ WF_vars(Enqueue(r))
       /\ WF_vars(Receive(r) \/ Dropped(r) \/ Timeout(r))
       /\ WF_vars(Cleanup(r))

FairSpec == Spec /\ Fairness

-----------------------------------------------------------------------------
(* Registered with the registry, not yet answered. *)
Live == {"sending", "waiting", "cleanup"}

(* Another request carries the transaction of r and has reached the ingress task. *)
Duplicated(r) ==
  \E s \in Request \ {r} : /\ DigestOf[s] = DigestOf[r]
                           /\ stage[s] \in Live \union {"answered"}

(***************************************************************************)
(* The registry holds no entry for a request that has been answered, and   *)
(* none under a foreign digest: whatever ends a request (receipt, failed   *)
(* send, timeout, replaced waiter) also removes its entry from the DashMap,*)
(* which nothing else would ever shrink.                                   *)
(***************************************************************************)
NoLeakedWaiter ==
  \A d \in Digest : pending[d] # None =>
    /\ DigestOf[pending[d]] = d
    /\ stage[pending[d]] \in Live

(***************************************************************************)
(* No lost wakeup.  When r is the only carrier of its transaction to reach *)
(* the ingress task and nobody injected it, a block with that transaction  *)
(* applied at any time before the timeout leaves its receipt with r: while *)
(* the send is still in progress, before the wait task exists, or later.   *)
(***************************************************************************)
NoLostReceipt ==
  \A r \in Request :
    /\ stage[r] \in {"sending", "waiting"}
    /\ ~Duplicated(r)
    /\ injected[DigestOf[r]] = 0
    /\ included[DigestOf[r]] > 0
    => chan[r] = "receipt"

(***************************************************************************)
(* "submit waiter dropped" is answered only to a request whose transaction *)
(* was submitted by another request as well: neither a failed first send   *)
(* attempt nor any other transaction takes a waiter away.                  *)
(***************************************************************************)
DroppedOnlyByDuplicate ==
  \A r \in Request : outcome[r] = "dropped" => Duplicated(r)

(***************************************************************************)
(* Every submission is answered, whatever the node does, provided that     *)
(* every call to the mempool client returns (the ingress task is serial,   *)
(* so one send that hangs holds up all later requests).                    *)
(***************************************************************************)
Answered ==
  (\A s \in Request : []<>(stage[s] # "sending"))
    => \A r \in Request : stage[r] = "enqueue" ~> stage[r] = "answered"

=============================================================================
