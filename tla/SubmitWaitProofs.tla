-------------------------- MODULE SubmitWaitProofs --------------------------
(***************************************************************************)
(* The submit path is correct for any number of requests and transactions: *)
(* type correctness, no leaked registry entry, no lost receipt, and no     *)
(* waiter dropped but by a duplicate.                                      *)
(***************************************************************************)
EXTENDS SubmitWait, TLAPS

(* The request has not reached the ingress task. *)
Early == {"new", "enqueue", "queued"}

(* The queue holds each queued request once. *)
QueueInv ==
  /\ \A i \in 1..Len(queue) : stage[queue[i]] = "queued"
  /\ \A i, j \in 1..Len(queue) : queue[i] = queue[j] => i = j

EarlyInv ==
  \A r \in Request : stage[r] \in Early => chan[r] = "open" /\ outcome[r] = "none"

(* An entry belongs to a request that still waits for it, or has timed out  *)
(* and is about to cancel it.                                               *)
EntryInv ==
  \A d \in Digest : pending[d] # None =>
    /\ DigestOf[pending[d]] = d
    /\ \/ stage[pending[d]] \in {"sending", "waiting"} /\ chan[pending[d]] = "open"
       \/ stage[pending[d]] = "cleanup" /\ chan[pending[d]] = "closed"

(* A request whose sender is alive is the one registered. *)
ParkedInv ==
  \A r \in Request :
    stage[r] \in {"sending", "waiting"} /\ chan[r] = "open" => pending[DigestOf[r]] = r

(* Only a duplicate makes a sender go away under its request. *)
ClosedInv ==
  \A r \in Request :
    \/ stage[r] \in {"sending", "waiting"} /\ chan[r] = "closed"
    \/ outcome[r] = "dropped"
    => Duplicated(r)

(* A block holds only what was delivered, and nothing is delivered before   *)
(* a request with it reaches the ingress task or somebody injects it.       *)
DeliveryInv ==
  \A d \in Digest :
    /\ included[d] <= delivered[d]
    /\ injected[d] = 0 /\ (\A s \in Request : DigestOf[s] = d => stage[s] \in Early)
       => delivered[d] = 0

(* A sole carrier whose oneshot is still empty has not been in a block. *)
SoleInv ==
  \A r \in Request :
    /\ stage[r] \in {"sending", "waiting"} /\ chan[r] = "open"
    /\ ~Duplicated(r) /\ injected[DigestOf[r]] = 0
    => included[DigestOf[r]] = 0

IInv == /\ TypeOK /\ QueueInv /\ EarlyInv /\ EntryInv /\ ParkedInv
        /\ ClosedInv /\ DeliveryInv /\ SoleInv

-----------------------------------------------------------------------------
(* The initial state satisfies the inductive invariant. *)
LEMMA InitIInv == Init => IInv
  BY DigestAssumption, NoneAssumption
  DEF Init, IInv, TypeOK, QueueInv, EarlyInv, EntryInv, ParkedInv, ClosedInv,
      DeliveryInv, SoleInv, Stage, Outcome, Channel, Early, Live

(* A copy that may have gone out raises the count of its transaction by one at most. *)
LEMMA ReachFacts ==
  ASSUME TypeOK, NEW d \in Digest, MayReachNode(d) \/ UNCHANGED delivered
  PROVE  /\ delivered' \in [Digest -> Nat]
         /\ \A e \in Digest : delivered'[e] >= delivered[e]
         /\ \A e \in Digest \ {d} : delivered'[e] = delivered[e]
  <1>1. CASE UNCHANGED delivered
    BY <1>1 DEF TypeOK
  <1>2. CASE delivered' = [delivered EXCEPT ![d] = @ + 1]
    BY <1>2 DEF TypeOK
  <1> QED BY <1>1, <1>2 DEF MayReachNode

(* Dropping the sender stored for d closes the open oneshot of its owner only. *)
LEMMA DropFacts ==
  ASSUME TypeOK, NEW d \in Digest
  PROVE  /\ DropSender(d) \in [Request -> Channel]
         /\ \A r \in Request : pending[d] # r => DropSender(d)[r] = chan[r]
         /\ \A r \in Request : pending[d] = r => DropSender(d)[r] # "open"
         /\ \A r \in Request : chan[r] # "open" => DropSender(d)[r] = chan[r]
  BY DEF TypeOK, DropSender, Channel

(* Every step of the submit path keeps the types. *)
LEMMA NextTypeOK == TypeOK /\ [Next]_vars => TypeOK'
  <1> SUFFICES ASSUME TypeOK, [Next]_vars PROVE TypeOK'
    OBVIOUS
  <1> USE DigestAssumption, NoneAssumption DEF TypeOK, Stage, Outcome, Channel
  <1>1. ASSUME NEW r \in Request, Submit(r) PROVE TypeOK'
    BY <1>1 DEF Submit
  <1>2. ASSUME NEW r \in Request, Enqueue(r) PROVE TypeOK'
    BY <1>2 DEF Enqueue
  <1>3. ASSUME NEW r \in Request, SendRetry(r) PROVE TypeOK'
    <2>1. delivered' \in [Digest -> Nat]
      BY <1>3, ReachFacts, DigestOf[r] \in Digest DEF SendRetry
    <2> QED BY <1>3, <2>1 DEF SendRetry
  <1>4. ASSUME NEW r \in Request, SendOk(r) PROVE TypeOK'
    BY <1>4 DEF SendOk
  <1>5. ASSUME NEW r \in Request, SendFails(r) PROVE TypeOK'
    <2>1. delivered' \in [Digest -> Nat]
      BY <1>5, ReachFacts, DigestOf[r] \in Digest DEF SendFails
    <2>2. chan' \in [Request -> Channel]
      BY <1>5, DropFacts, DigestOf[r] \in Digest DEF SendFails
    <2>3. pending' \in [Digest -> Request \union {None}]
      BY <1>5 DEF SendFails
    <2>4. stage' \in [Request -> Stage] /\ outcome' \in [Request -> Outcome]
      BY <1>5 DEF SendFails
    <2> QED BY <1>5, <2>1, <2>2, <2>3, <2>4 DEF SendFails
  <1>6. ASSUME NEW r \in Request, Receive(r) PROVE TypeOK'
    BY <1>6 DEF Receive
  <1>7. ASSUME NEW r \in Request, Dropped(r) PROVE TypeOK'
    BY <1>7 DEF Dropped
  <1>8. ASSUME NEW r \in Request, Timeout(r) PROVE TypeOK'
    BY <1>8 DEF Timeout
  <1>9. ASSUME NEW r \in Request, Cleanup(r) PROVE TypeOK'
    <2>1. chan' \in [Request -> Channel]
      BY <1>9, DropFacts, DigestOf[r] \in Digest DEF Cleanup
    <2> QED BY <1>9, <2>1 DEF Cleanup
  <1>10. CASE Register
    <2>1. Head(queue) \in Request /\ Tail(queue) \in Seq(Request)
      BY <1>10 DEF Register
    <2>2. chan' \in [Request -> Channel]
      BY <1>10, <2>1, DropFacts, DigestOf[Head(queue)] \in Digest DEF Register
    <2> QED BY <1>10, <2>1, <2>2 DEF Register
  <1>11. ASSUME NEW d \in Digest, Inject(d) PROVE TypeOK'
    <2>1. delivered' \in [Digest -> Nat]
      BY <1>11, ReachFacts DEF Inject
    <2>2. injected' \in [Digest -> Nat]
      BY <1>11 DEF Inject
    <2> QED BY <1>11, <2>1, <2>2 DEF Inject
  <1>12. ASSUME NEW d \in Digest, Complete(d) PROVE TypeOK'
    BY <1>12 DEF Complete
  <1>13. CASE UNCHANGED vars
    BY <1>13 DEF vars
  <1> QED BY <1>1, <1>2, <1>3, <1>4, <1>5, <1>6, <1>7, <1>8, <1>9, <1>10,
             <1>11, <1>12, <1>13 DEF Next

(* The requests that have reached the ingress task never go back. *)
LEMMA Forward ==
  ASSUME IInv, [Next]_vars
  PROVE  \A r \in Request : stage[r] \notin Early => stage'[r] \notin Early
  <1> SUFFICES ASSUME NEW r \in Request, stage[r] \notin Early PROVE stage'[r] \notin Early
    OBVIOUS
  <1>1. CASE Register
    <2>1. Head(queue) = queue[1] /\ 1 \in 1..Len(queue)
      BY <1>1 DEF Register, IInv, TypeOK
    <2> QED BY <1>1, <2>1 DEF Register, IInv, TypeOK, Early
  <1>2. CASE \E s \in Request : \/ Submit(s) \/ Enqueue(s) \/ SendRetry(s) \/ SendOk(s)
                                \/ SendFails(s) \/ Receive(s) \/ Dropped(s)
                                \/ Timeout(s) \/ Cleanup(s)
    BY <1>2 DEF IInv, TypeOK, Early, Submit, Enqueue, SendRetry, SendOk, SendFails,
                Receive, Dropped, Timeout, Cleanup
  <1>3. CASE \E d \in Digest : Inject(d) \/ Complete(d)
    BY <1>3 DEF Inject, Complete
  <1>4. CASE UNCHANGED vars
    BY <1>4 DEF vars
  <1> QED BY <1>1, <1>2, <1>3, <1>4 DEF Next

(* A duplicated transaction stays duplicated. *)
LEMMA DupStable ==
  ASSUME IInv, [Next]_vars
  PROVE  \A r \in Request : Duplicated(r) => Duplicated(r)'
  BY Forward, NextTypeOK DEF IInv, TypeOK, Duplicated, Live, Early, Stage

(* A copy sent for a request that is past the queue keeps DeliveryInv. *)
LEMMA DeliverFacts ==
  ASSUME DeliveryInv, TypeOK, TypeOK', NEW r \in Request,
         stage[r] \notin Early, stage'[r] \notin Early,
         \A q \in Request \ {r} : stage'[q] = stage[q],
         \A e \in Digest : delivered'[e] >= delivered[e],
         \A e \in Digest \ {DigestOf[r]} : delivered'[e] = delivered[e],
         injected' = injected, included' = included
  PROVE  DeliveryInv'
  <1> SUFFICES ASSUME NEW e \in Digest
               PROVE  /\ included[e] <= delivered'[e]
                      /\ injected[e] = 0
                         /\ (\A s \in Request : DigestOf[s] = e => stage'[s] \in Early)
                         => delivered'[e] = 0
    BY DEF DeliveryInv
  <1>1. /\ included[e] \in Nat /\ delivered[e] \in Nat /\ delivered'[e] \in Nat
        /\ included[e] <= delivered[e] /\ delivered[e] <= delivered'[e]
    BY DEF TypeOK, DeliveryInv
  <1>2. included[e] <= delivered'[e]
    BY <1>1
  <1>3. CASE e = DigestOf[r]
    BY <1>2, <1>3
  <1>4. CASE e # DigestOf[r]
    BY <1>2, <1>4 DEF DeliveryInv
  <1> QED BY <1>3, <1>4

(* A failed send and the end of a wait both cancel the entry of the digest and answer. *)
LEMMA CancelFacts ==
  ASSUME IInv, TypeOK', NEW r \in Request,
         stage[r] \in {"sending", "cleanup"},
         stage' = [stage EXCEPT ![r] = "answered"],
         \A q \in Request \ {r} : outcome'[q] = outcome[q],
         outcome'[r] \in {outcome[r], "mempool_error"},
         chan' = DropSender(DigestOf[r]),
         pending' = [pending EXCEPT ![DigestOf[r]] = None],
         \A q \in Request : Duplicated(q) => Duplicated(q)'
  PROVE  EarlyInv' /\ EntryInv' /\ ParkedInv' /\ ClosedInv'
  <1> DEFINE d == DigestOf[r]
  <1>1. d \in Digest /\ None \notin Request /\ TypeOK
    BY DigestAssumption, NoneAssumption DEF IInv
  <1>2. /\ \A q \in Request : pending[d] # q => chan'[q] = chan[q]
        /\ \A q \in Request : pending[d] = q => chan'[q] # "open"
        /\ \A q \in Request : chan[q] # "open" => chan'[q] = chan[q]
    BY <1>1, DropFacts
  <1>3. stage'[r] = "answered" /\ \A q \in Request \ {r} : stage'[q] = stage[q]
    BY <1>1 DEF TypeOK
  <1>4. pending'[d] = None /\ \A e \in Digest \ {d} : pending'[e] = pending[e]
    BY <1>1 DEF TypeOK
  <1>5. \A e \in Digest : pending[e] \in Request \union {None}
    BY <1>1 DEF TypeOK
  <1>6. \A q \in Request : DigestOf[q] \in Digest
    BY DigestAssumption
  <1> HIDE DEF d
  <1>7. EarlyInv'
    <2> SUFFICES ASSUME NEW q \in Request, stage'[q] \in Early
                 PROVE  chan'[q] = "open" /\ outcome'[q] = "none"
      BY DEF EarlyInv
    <2>1. q # r /\ stage[q] \in Early
      BY <1>3 DEF Early
    <2>2. pending[d] # q
      BY <2>1, <1>1 DEF IInv, EntryInv, Early
    <2> QED BY <2>1, <2>2, <1>2 DEF IInv, EarlyInv
  <1>8. EntryInv'
    <2> SUFFICES ASSUME NEW e \in Digest, pending'[e] # None
                 PROVE  /\ DigestOf[pending'[e]] = e
                        /\ \/ stage'[pending'[e]] \in {"sending", "waiting"}
                              /\ chan'[pending'[e]] = "open"
                           \/ stage'[pending'[e]] = "cleanup" /\ chan'[pending'[e]] = "closed"
      BY DEF EntryInv
    <2>1. e # d /\ pending'[e] = pending[e] /\ pending[e] \in Request
      BY <1>4, <1>5
    <2>2. DigestOf[pending[e]] = e
      BY <2>1 DEF IInv, EntryInv
    <2>3. pending[e] # r /\ pending[d] # pending[e]
      BY <2>1, <2>2, <1>1 DEF IInv, EntryInv, d
    <2> QED BY <2>1, <2>2, <2>3, <1>2, <1>3 DEF IInv, EntryInv
  <1>9. ParkedInv'
    <2> SUFFICES ASSUME NEW q \in Request, stage'[q] \in {"sending", "waiting"},
                        chan'[q] = "open"
                 PROVE  pending'[DigestOf[q]] = q
      BY DEF ParkedInv
    <2>1. q # r /\ stage[q] = stage'[q] /\ chan[q] = "open" /\ pending[d] # q
      BY <1>2, <1>3
    <2>2. pending[DigestOf[q]] = q
      BY <2>1 DEF IInv, ParkedInv
    <2> QED BY <2>1, <2>2, <1>4, <1>6
  <1>10. ClosedInv'
    <2> SUFFICES ASSUME NEW q \in Request,
                        \/ stage'[q] \in {"sending", "waiting"} /\ chan'[q] = "closed"
                        \/ outcome'[q] = "dropped"
                 PROVE  Duplicated(q)'
      BY DEF ClosedInv
    <2>1. CASE outcome'[q] = "dropped"
      BY <2>1 DEF IInv, ClosedInv
    <2>2. CASE stage'[q] \in {"sending", "waiting"} /\ chan'[q] = "closed"
      <3>1. q # r /\ stage[q] = stage'[q]
        BY <2>2, <1>3
      <3>2. CASE pending[d] = q
        <4>1. DigestOf[q] = d
          BY <3>2, <1>1 DEF IInv, EntryInv
        <4> QED BY <4>1, <3>1, <1>3 DEF Duplicated, d
      <3>3. CASE pending[d] # q
        BY <3>1, <3>3, <2>2, <1>2 DEF IInv, ClosedInv
      <3> QED BY <3>2, <3>3
    <2> QED BY <2>1, <2>2
  <1> QED BY <1>7, <1>8, <1>9, <1>10

(* Every step keeps the inductive invariant. *)
LEMMA NextIInv == IInv /\ [Next]_vars => IInv'
  <1> SUFFICES ASSUME IInv, [Next]_vars PROVE IInv'
    OBVIOUS
  <1>t. TypeOK /\ TypeOK'
    BY NextTypeOK DEF IInv
  <1>d. \A r \in Request : DigestOf[r] \in Digest /\ r # None
    BY DigestAssumption, NoneAssumption
  <1>s. \A r \in Request : Duplicated(r) => Duplicated(r)'
    BY DupStable
  <1>1. ASSUME NEW r \in Request, Submit(r) PROVE IInv'
    <2>1. QueueInv'
      BY <1>1, <1>t, <1>d, <1>s DEF Submit, IInv, TypeOK, QueueInv
    <2>2. EarlyInv'
      BY <1>1, <1>t, <1>d, <1>s DEF Submit, IInv, TypeOK, EarlyInv, Early
    <2>3. EntryInv'
      BY <1>1, <1>t, <1>d, <1>s DEF Submit, IInv, TypeOK, EntryInv, EarlyInv, Early
    <2>4. ParkedInv'
      BY <1>1, <1>t, <1>d, <1>s DEF Submit, IInv, TypeOK, ParkedInv, EntryInv, EarlyInv, Early
    <2>5. ClosedInv'
      BY <1>1, <1>t, <1>d, <1>s DEF Submit, IInv, TypeOK, ClosedInv
    <2>6. DeliveryInv'
      BY <1>1, <1>t, <1>d, <1>s DEF Submit, IInv, TypeOK, DeliveryInv, Early
    <2>7. SoleInv'
      BY <1>1, <1>t, <1>d, <1>s DEF Submit, IInv, TypeOK, SoleInv, DeliveryInv, EarlyInv, Early
    <2> QED BY <1>t, <2>1, <2>2, <2>3, <2>4, <2>5, <2>6, <2>7 DEF IInv
  <1>2. ASSUME NEW r \in Request, Enqueue(r) PROVE IInv'
    <2>1. QueueInv'
      BY <1>2, <1>t, <1>d, <1>s DEF Enqueue, IInv, TypeOK, QueueInv
    <2>2. EarlyInv'
      BY <1>2, <1>t, <1>d, <1>s DEF Enqueue, IInv, TypeOK, EarlyInv, Early
    <2>3. EntryInv'
      BY <1>2, <1>t, <1>d, <1>s DEF Enqueue, IInv, TypeOK, EntryInv, EarlyInv, Early
    <2>4. ParkedInv'
      BY <1>2, <1>t, <1>d, <1>s DEF Enqueue, IInv, TypeOK, ParkedInv, EntryInv, EarlyInv, Early
    <2>5. ClosedInv'
      BY <1>2, <1>t, <1>d, <1>s DEF Enqueue, IInv, TypeOK, ClosedInv
    <2>6. DeliveryInv'
      BY <1>2, <1>t, <1>d, <1>s DEF Enqueue, IInv, TypeOK, DeliveryInv, Early
    <2>7. SoleInv'
      BY <1>2, <1>t, <1>d, <1>s DEF Enqueue, IInv, TypeOK, SoleInv, DeliveryInv, EarlyInv, Early
    <2> QED BY <1>t, <2>1, <2>2, <2>3, <2>4, <2>5, <2>6, <2>7 DEF IInv
  <1>3. ASSUME NEW r \in Request, SendRetry(r) PROVE IInv'
    <2>1. QueueInv'
      BY <1>3, <1>t, <1>d, <1>s DEF SendRetry, IInv, TypeOK, QueueInv
    <2>2. EarlyInv'
      BY <1>3, <1>t, <1>d, <1>s DEF SendRetry, IInv, TypeOK, EarlyInv, Early
    <2>3. EntryInv'
      BY <1>3, <1>t, <1>d, <1>s DEF SendRetry, IInv, TypeOK, EntryInv, EarlyInv, Early
    <2>4. ParkedInv'
      BY <1>3, <1>t, <1>d, <1>s DEF SendRetry, IInv, TypeOK, ParkedInv, EntryInv, EarlyInv, Early
    <2>5. ClosedInv'
      BY <1>3, <1>t, <1>d, <1>s DEF SendRetry, IInv, TypeOK, ClosedInv
    <2>6. DeliveryInv'
      <3>1. /\ \A e \in Digest : delivered'[e] >= delivered[e]
            /\ \A e \in Digest \ {DigestOf[r]} : delivered'[e] = delivered[e]
        BY <1>3, <1>t, <1>d, ReachFacts DEF SendRetry
      <3>2. stage' = stage /\ injected' = injected /\ included' = included /\ stage[r] = "sending"
        BY <1>3 DEF SendRetry
      <3> QED BY <3>1, <3>2, <1>t, DeliverFacts DEF IInv, Early
    <2>7. SoleInv'
      BY <1>3, <1>t, <1>d, <1>s DEF SendRetry, IInv, TypeOK, SoleInv, DeliveryInv, EarlyInv, Early
    <2> QED BY <1>t, <2>1, <2>2, <2>3, <2>4, <2>5, <2>6, <2>7 DEF IInv
  <1>4. ASSUME NEW r \in Request, SendOk(r) PROVE IInv'
    <2>1. QueueInv'
      BY <1>4, <1>t, <1>d, <1>s DEF SendOk, IInv, TypeOK, QueueInv
    <2>2. EarlyInv'
      BY <1>4, <1>t, <1>d, <1>s DEF SendOk, IInv, TypeOK, EarlyInv, Early
    <2>3. EntryInv'
      BY <1>4, <1>t, <1>d, <1>s DEF SendOk, IInv, TypeOK, EntryInv, EarlyInv, Early
    <2>4. ParkedInv'
      BY <1>4, <1>t, <1>d, <1>s DEF SendOk, IInv, TypeOK, ParkedInv, EntryInv, EarlyInv, Early
    <2>5. ClosedInv'
      BY <1>4, <1>t, <1>d, <1>s DEF SendOk, IInv, TypeOK, ClosedInv
    <2>6. DeliveryInv'
      BY <1>4, <1>t, <1>d, <1>s DEF SendOk, IInv, TypeOK, DeliveryInv, Early
    <2>7. SoleInv'
      BY <1>4, <1>t, <1>d, <1>s DEF SendOk, IInv, TypeOK, SoleInv, DeliveryInv, EarlyInv, Early
    <2> QED BY <1>t, <2>1, <2>2, <2>3, <2>4, <2>5, <2>6, <2>7 DEF IInv
  <1>5. ASSUME NEW r \in Request, SendFails(r) PROVE IInv'
    <2>1. QueueInv'
      BY <1>5, <1>t, queue' = queue, stage[r] = "sending",
         stage' = [stage EXCEPT ![r] = "answered"] DEF SendFails, IInv, TypeOK, QueueInv
    <2>2. outcome' = [outcome EXCEPT ![r] = "mempool_error"]
      BY <1>5 DEF SendFails
    <2>3. EarlyInv' /\ EntryInv' /\ ParkedInv' /\ ClosedInv'
      BY <1>5, <1>t, <1>s, <2>2, CancelFacts DEF SendFails, TypeOK
    <2>4. /\ delivered' \in [Digest -> Nat]
          /\ \A e \in Digest : delivered'[e] >= delivered[e]
          /\ \A e \in Digest \ {DigestOf[r]} : delivered'[e] = delivered[e]
      BY <1>5, <1>t, <1>d, ReachFacts DEF SendFails
    <2>5. /\ stage[r] = "sending" /\ stage'[r] = "answered"
          /\ \A q \in Request \ {r} : stage'[q] = stage[q]
          /\ injected' = injected /\ included' = included
      BY <1>5, <1>t DEF SendFails, TypeOK
    <2>6. DeliveryInv'
      BY <1>t, <2>4, <2>5, DeliverFacts DEF IInv, Early
    <2>7. \A q \in Request : chan'[q] = "open" => chan[q] = "open"
      BY <1>5, <1>t, <1>d, DropFacts DEF SendFails
    <2>8. SoleInv'
      BY <1>t, <1>d, <1>s, <2>5, <2>7 DEF IInv, SoleInv
    <2> QED BY <1>t, <2>1, <2>3, <2>6, <2>8 DEF IInv
  <1>6. ASSUME NEW r \in Request, Receive(r) PROVE IInv'
    <2>1. QueueInv'
      BY <1>6, <1>t, <1>d, <1>s DEF Receive, IInv, TypeOK, QueueInv
    <2>2. EarlyInv'
      BY <1>6, <1>t, <1>d, <1>s DEF Receive, IInv, TypeOK, EarlyInv, Early
    <2>3. EntryInv'
      BY <1>6, <1>t, <1>d, <1>s DEF Receive, IInv, TypeOK, EntryInv, EarlyInv, Early
    <2>4. ParkedInv'
      BY <1>6, <1>t, <1>d, <1>s DEF Receive, IInv, TypeOK, ParkedInv, EntryInv, EarlyInv, Early
    <2>5. ClosedInv'
      BY <1>6, <1>t, <1>d, <1>s DEF Receive, IInv, TypeOK, ClosedInv
    <2>6. DeliveryInv'
      BY <1>6, <1>t, <1>d, <1>s DEF Receive, IInv, TypeOK, DeliveryInv, Early
    <2>7. SoleInv'
      BY <1>6, <1>t, <1>d, <1>s DEF Receive, IInv, TypeOK, SoleInv, DeliveryInv, EarlyInv, Early
    <2> QED BY <1>t, <2>1, <2>2, <2>3, <2>4, <2>5, <2>6, <2>7 DEF IInv
  <1>7. ASSUME NEW r \in Request, Dropped(r) PROVE IInv'
    <2>1. QueueInv'
      BY <1>7, <1>t, <1>d, <1>s DEF Dropped, IInv, TypeOK, QueueInv
    <2>2. EarlyInv'
      BY <1>7, <1>t, <1>d, <1>s DEF Dropped, IInv, TypeOK, EarlyInv, Early
    <2>3. EntryInv'
      BY <1>7, <1>t, <1>d, <1>s DEF Dropped, IInv, TypeOK, EntryInv, EarlyInv, Early
    <2>4. ParkedInv'
      BY <1>7, <1>t, <1>d, <1>s DEF Dropped, IInv, TypeOK, ParkedInv, EntryInv, EarlyInv, Early
    <2>5. ClosedInv'
      BY <1>7, <1>t, <1>d, <1>s DEF Dropped, IInv, TypeOK, ClosedInv
    <2>6. DeliveryInv'
      BY <1>7, <1>t, <1>d, <1>s DEF Dropped, IInv, TypeOK, DeliveryInv, Early
    <2>7. SoleInv'
      BY <1>7, <1>t, <1>d, <1>s DEF Dropped, IInv, TypeOK, SoleInv, DeliveryInv, EarlyInv, Early
    <2> QED BY <1>t, <2>1, <2>2, <2>3, <2>4, <2>5, <2>6, <2>7 DEF IInv
  <1>8. ASSUME NEW r \in Request, Timeout(r) PROVE IInv'
    <2>1. QueueInv'
      BY <1>8, <1>t, <1>d, <1>s DEF Timeout, IInv, TypeOK, QueueInv
    <2>2. EarlyInv'
      BY <1>8, <1>t, <1>d, <1>s DEF Timeout, IInv, TypeOK, EarlyInv, Early
    <2>3. EntryInv'
      BY <1>8, <1>t, <1>d, <1>s DEF Timeout, IInv, TypeOK, EntryInv, EarlyInv, Early
    <2>4. ParkedInv'
      BY <1>8, <1>t, <1>d, <1>s DEF Timeout, IInv, TypeOK, ParkedInv, EntryInv, EarlyInv, Early
    <2>5. ClosedInv'
      BY <1>8, <1>t, <1>d, <1>s DEF Timeout, IInv, TypeOK, ClosedInv
    <2>6. DeliveryInv'
      BY <1>8, <1>t, <1>d, <1>s DEF Timeout, IInv, TypeOK, DeliveryInv, Early
    <2>7. SoleInv'
      BY <1>8, <1>t, <1>d, <1>s DEF Timeout, IInv, TypeOK, SoleInv, DeliveryInv, EarlyInv, Early
    <2> QED BY <1>t, <2>1, <2>2, <2>3, <2>4, <2>5, <2>6, <2>7 DEF IInv
  <1>9. ASSUME NEW r \in Request, Cleanup(r) PROVE IInv'
    <2>1. QueueInv'
      BY <1>9, <1>t DEF Cleanup, IInv, TypeOK, QueueInv
    <2>2. EarlyInv' /\ EntryInv' /\ ParkedInv' /\ ClosedInv'
      BY <1>9, <1>t, <1>s, CancelFacts DEF Cleanup
    <2>3. DeliveryInv'
      BY <1>9, <1>t, <1>d DEF Cleanup, IInv, TypeOK, DeliveryInv, Early
    <2>4. /\ stage'[r] = "answered" /\ \A q \in Request \ {r} : stage'[q] = stage[q]
          /\ injected' = injected /\ included' = included
      BY <1>9, <1>t DEF Cleanup, TypeOK
    <2>5. \A q \in Request : chan'[q] = "open" => chan[q] = "open"
      BY <1>9, <1>t, <1>d, DropFacts DEF Cleanup
    <2>6. SoleInv'
      BY <1>t, <1>d, <1>s, <2>4, <2>5 DEF IInv, SoleInv
    <2> QED BY <1>t, <2>1, <2>2, <2>3, <2>6 DEF IInv
  <1>10. CASE Register
    <2> DEFINE r == Head(queue)
               d == DigestOf[r]
    <2>1. /\ r = queue[1] /\ r \in Request /\ d \in Digest /\ Len(queue) \in Nat \ {0}
          /\ Len(queue') = Len(queue) - 1
          /\ \A i \in 1..Len(queue') : queue'[i] = queue[i + 1] /\ i + 1 \in 1..Len(queue)
      BY <1>10, <1>t, <1>d DEF Register, TypeOK
    <2>2. stage[r] = "queued" /\ chan[r] = "open" /\ outcome[r] = "none"
      BY <2>1 DEF IInv, QueueInv, EarlyInv, Early
    <2>3. /\ stage'[r] = "sending" /\ \A q \in Request \ {r} : stage'[q] = stage[q]
          /\ pending'[d] = r /\ \A e \in Digest \ {d} : pending'[e] = pending[e]
          /\ outcome' = outcome /\ injected' = injected
          /\ delivered' = delivered /\ included' = included
      BY <1>10, <1>t, <2>1 DEF Register, TypeOK
    <2>4. /\ \A q \in Request : pending[d] # q => chan'[q] = chan[q]
          /\ \A q \in Request : pending[d] = q => chan'[q] # "open"
          /\ \A q \in Request : chan[q] # "open" => chan'[q] = chan[q]
      BY <1>10, <1>t, <2>1, DropFacts DEF Register
    <2>5. \A e \in Digest : pending[e] # r /\ pending[e] \in Request \union {None}
      <3> HIDE DEF r, d
      <3>1. \A e \in Digest : pending[e] \in Request \union {None}
        BY <1>t DEF TypeOK
      <3> QED BY <3>1, <1>d, <2>1, <2>2 DEF IInv, EntryInv
    <2> HIDE DEF r, d
    <2>6. QueueInv'
      <3>1. \A i \in 1..Len(queue') : queue[i + 1] # r /\ queue[i + 1] \in Request
        BY <1>t, <2>1 DEF IInv, QueueInv, TypeOK
      <3> QED BY <2>1, <2>3, <3>1 DEF IInv, QueueInv
    <2>7. EarlyInv'
      BY <1>t, <1>d, <2>1, <2>2, <2>3, <2>4, <2>5 DEF IInv, EarlyInv, EntryInv, Early
    <2>8. EntryInv'
      BY <1>t, <1>d, <2>1, <2>2, <2>3, <2>4, <2>5 DEF IInv, EntryInv, d
    <2>9. ParkedInv'
      BY <1>t, <1>d, <2>1, <2>2, <2>3, <2>4, <2>5 DEF IInv, ParkedInv, d
    <2>10. ClosedInv'
      <3> SUFFICES ASSUME NEW q \in Request,
                          \/ stage'[q] \in {"sending", "waiting"} /\ chan'[q] = "closed"
                          \/ outcome'[q] = "dropped"
                   PROVE  Duplicated(q)'
        BY DEF ClosedInv
      <3>1. q # r
        BY <2>1, <2>2, <2>3, <2>4, <2>5
      <3>2. CASE pending[d] = q
        <4>1. DigestOf[q] = d
          BY <3>2, <2>1, <1>d DEF IInv, EntryInv
        <4> QED BY <4>1, <3>1, <2>1, <2>3 DEF Duplicated, Live, d
      <3>3. CASE pending[d] # q
        BY <3>1, <3>3, <1>s, <2>3, <2>4 DEF IInv, ClosedInv
      <3> QED BY <3>2, <3>3
    <2>11. DeliveryInv'
      BY <1>t, <1>d, <2>1, <2>2, <2>3 DEF IInv, DeliveryInv, Early
    <2>12. SoleInv'
      <3> SUFFICES ASSUME NEW q \in Request,
                          stage'[q] \in {"sending", "waiting"}, chan'[q] = "open",
                          ~Duplicated(q)', injected'[DigestOf[q]] = 0
                   PROVE  included'[DigestOf[q]] = 0
        BY DEF SoleInv
      <3>1. CASE q = r
        <4>1. \A s \in Request : DigestOf[s] = d => stage[s] \in Early
          BY <3>1, <1>t, <2>2, <2>3 DEF Duplicated, Live, Early, d, TypeOK, Stage
        <4>2. delivered[d] = 0 /\ included[d] <= delivered[d]
          BY <3>1, <4>1, <2>1, <2>3 DEF IInv, DeliveryInv, d
        <4> QED BY <3>1, <4>2, <1>t, <2>1, <2>3 DEF d, TypeOK
      <3>2. CASE q # r
        BY <3>2, <1>s, <2>3, <2>4 DEF IInv, SoleInv
      <3> QED BY <3>1, <3>2
    <2> QED BY <1>t, <2>6, <2>7, <2>8, <2>9, <2>10, <2>11, <2>12 DEF IInv
  <1>11. ASSUME NEW d \in Digest, Inject(d) PROVE IInv'
    <2>1. QueueInv'
      BY <1>11, <1>t, <1>d, <1>s DEF Inject, IInv, TypeOK, QueueInv
    <2>2. EarlyInv'
      BY <1>11, <1>t, <1>d, <1>s DEF Inject, IInv, TypeOK, EarlyInv, Early
    <2>3. EntryInv'
      BY <1>11, <1>t, <1>d, <1>s DEF Inject, IInv, TypeOK, EntryInv, EarlyInv, Early
    <2>4. ParkedInv'
      BY <1>11, <1>t, <1>d, <1>s DEF Inject, IInv, TypeOK, ParkedInv, EntryInv, EarlyInv, Early
    <2>5. ClosedInv'
      BY <1>11, <1>t, <1>d, <1>s DEF Inject, IInv, TypeOK, ClosedInv
    <2>6. DeliveryInv'
      <3>1. /\ \A e \in Digest : delivered'[e] >= delivered[e]
            /\ \A e \in Digest \ {d} : delivered'[e] = delivered[e]
        BY <1>11, <1>t, ReachFacts DEF Inject
      <3>2. /\ stage' = stage /\ included' = included
            /\ injected'[d] # 0 /\ \A e \in Digest \ {d} : injected'[e] = injected[e]
        BY <1>11, <1>t DEF Inject, TypeOK
      <3> QED BY <3>1, <3>2, <1>t, <1>d DEF IInv, TypeOK, DeliveryInv, Early
    <2>7. SoleInv'
      BY <1>11, <1>t, <1>d, <1>s DEF Inject, IInv, TypeOK, SoleInv, DeliveryInv, EarlyInv, Early
    <2> QED BY <1>t, <2>1, <2>2, <2>3, <2>4, <2>5, <2>6, <2>7 DEF IInv
  <1>12. ASSUME NEW d \in Digest, Complete(d) PROVE IInv'
    <2>1. QueueInv'
      BY <1>12, <1>t, <1>d, <1>s DEF Complete, IInv, TypeOK, QueueInv
    <2>2. EarlyInv'
      <3>1. \A q \in Request : stage[q] \in Early => pending[d] # q
        BY <1>12, <1>d DEF IInv, EntryInv, Early
      <3> QED BY <1>12, <1>t, <3>1 DEF Complete, IInv, TypeOK, EarlyInv
    <2>3. EntryInv'
      BY <1>12, <1>t, <1>d, <1>s DEF Complete, IInv, TypeOK, EntryInv, EarlyInv, Early
    <2>4. ParkedInv'
      BY <1>12, <1>t, <1>d, <1>s DEF Complete, IInv, TypeOK, ParkedInv, EntryInv, EarlyInv, Early
    <2>5. ClosedInv'
      BY <1>12, <1>t, <1>d, <1>s DEF Complete, IInv, TypeOK, ClosedInv
    <2>6. DeliveryInv'
      BY <1>12, <1>t, <1>d, <1>s DEF Complete, IInv, TypeOK, DeliveryInv, Early
    <2>7. SoleInv'
      <3>1. /\ stage' = stage /\ injected' = injected
            /\ \A q \in Request : chan'[q] = "open" => chan[q] = "open" /\ pending[d] # q
            /\ \A e \in Digest \ {d} : included'[e] = included[e]
        BY <1>12, <1>t DEF Complete, TypeOK
      <3> QED BY <3>1, <1>12, <1>t, <1>d, <1>s DEF IInv, SoleInv, ParkedInv
    <2> QED BY <1>t, <2>1, <2>2, <2>3, <2>4, <2>5, <2>6, <2>7 DEF IInv
  <1>13. CASE UNCHANGED vars
    <2>1. QueueInv'
      BY <1>13, <1>t, <1>d, <1>s DEF vars, IInv, TypeOK, QueueInv
    <2>2. EarlyInv'
      BY <1>13, <1>t, <1>d, <1>s DEF vars, IInv, TypeOK, EarlyInv, Early
    <2>3. EntryInv'
      BY <1>13, <1>t, <1>d, <1>s DEF vars, IInv, TypeOK, EntryInv, EarlyInv, Early
    <2>4. ParkedInv'
      BY <1>13, <1>t, <1>d, <1>s DEF vars, IInv, TypeOK, ParkedInv, EntryInv, EarlyInv, Early
    <2>5. ClosedInv'
      BY <1>13, <1>t, <1>d, <1>s DEF vars, IInv, TypeOK, ClosedInv
    <2>6. DeliveryInv'
      BY <1>13, <1>t, <1>d, <1>s DEF vars, IInv, TypeOK, DeliveryInv, Early
    <2>7. SoleInv'
      BY <1>13, <1>t, <1>d, <1>s DEF vars, IInv, TypeOK, SoleInv, DeliveryInv, EarlyInv, Early
    <2> QED BY <1>t, <2>1, <2>2, <2>3, <2>4, <2>5, <2>6, <2>7 DEF IInv
  <1> QED BY <1>1, <1>2, <1>3, <1>4, <1>5, <1>6, <1>7, <1>8, <1>9, <1>10,
             <1>11, <1>12, <1>13 DEF Next

-----------------------------------------------------------------------------
(* The inductive invariant holds in every reachable state. *)
LEMMA InvariantIInv == Spec => []IInv
  BY InitIInv, NextIInv, PTL DEF Spec

(***************************************************************************)
(* The state of the submit path is well typed in every reachable state:    *)
(* the mempool client never makes a third attempt.                         *)
(***************************************************************************)
THEOREM SubmitTypeCorrect == Spec => []TypeOK
  <1>1. IInv => TypeOK
    BY DEF IInv
  <1> QED BY <1>1, InvariantIInv, PTL

(***************************************************************************)
(* SubmitWaitRegistry never keeps an entry of a request that was answered. *)
(***************************************************************************)
THEOREM RegistryDoesNotLeak == Spec => []NoLeakedWaiter
  <1>1. IInv => NoLeakedWaiter
    BY DEF IInv, EntryInv, NoLeakedWaiter, Live
  <1> QED BY <1>1, InvariantIInv, PTL

(***************************************************************************)
(* The sole carrier of a transaction gets the receipt of every block that  *)
(* commits it before the timeout, even if it is applied before the send    *)
(* has been acknowledged.                                                  *)
(***************************************************************************)
THEOREM ReceiptsAreNotLost == Spec => []NoLostReceipt
  <1>1. IInv => NoLostReceipt
    <2> SUFFICES ASSUME IInv, NEW r \in Request,
                        stage[r] \in {"sending", "waiting"}, ~Duplicated(r),
                        injected[DigestOf[r]] = 0, included[DigestOf[r]] > 0
                 PROVE  chan[r] = "receipt"
      BY DEF NoLostReceipt
    <2>1. chan[r] # "open"
      BY DEF IInv, SoleInv
    <2>2. chan[r] # "closed"
      BY DEF IInv, ClosedInv
    <2> QED BY <2>1, <2>2 DEF IInv, TypeOK, Channel
  <1> QED BY <1>1, InvariantIInv, PTL

(***************************************************************************)
(* A waiter is dropped only when its transaction was submitted twice.      *)
(***************************************************************************)
THEOREM OnlyDuplicatesDrop == Spec => []DroppedOnlyByDuplicate
  <1>1. IInv => DroppedOnlyByDuplicate
    BY DEF IInv, ClosedInv, DroppedOnlyByDuplicate
  <1> QED BY <1>1, InvariantIInv, PTL

=============================================================================
