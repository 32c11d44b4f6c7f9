------------------------------ MODULE Sessions ------------------------------
(***************************************************************************)
(* One WebSocket connection and its subscriptions, on every channel except *)
(* orderbook_delta (module BookFeed).  Three kinds of channel:             *)
(*   "mark"  oracle, quote, bars, paper.house, paper.stake: the handler    *)
(*           sends a snapshot, then subscribes; each message is a state;   *)
(*   "user"  user, paper.user (paper.positions, paper.activity: no filter):*)
(*           no snapshot; each message is an event;                        *)
(*   "state" paper.user.state: subscribes, then sends a snapshot; every    *)
(*           message makes the task read the state again.                  *)
(* A message is the number of the change it tells of.  A key is what the   *)
(* client calls the subscription, in the client's own spelling; keys of    *)
(* one stream differ in spelling only.                                     *)
(***************************************************************************)
EXTENDS Naturals, Sequences, FiniteSets, SequencesExt

CONSTANTS Key,
          Feed,       \* key -> [kind, topics: broadcast channels, stream]
          Filtered,   \* topics that carry messages about other users
          Droppable,  \* topics whose publishers a catch-up drops
          Unsaid,     \* topics of states that may change without a message
          Mixes,      \* bounds: [keys, pubs, reqs]: keys that one client uses,
                      \* changes of what they show, requests of the client
          Cap,        \* capacity of a broadcast channel
          MaxTasks    \* bound: tasks at a time

Kind(k) == Feed[k].kind
Topics(k) == Feed[k].topics
Topic == UNION {Topics(k) : k \in Key}
Stream(k) == {j \in Key : Feed[j].stream = Feed[k].stream}
Task == 1..MaxTasks

ASSUME SessionsAssumption ==
  /\ Cap \in Nat \ {0} /\ MaxTasks \in Nat
  /\ \A k \in Key : Kind(k) \in {"mark", "user", "state"} /\ Topics(k) # {}
  /\ Droppable \subseteq Topic /\ Filtered \subseteq Topic /\ Unsaid \subseteq Topic
  /\ \A mix \in Mixes : mix.keys \subseteq Key

VARIABLES
  mine,     \* one of Mixes
  clock,    \* changes so far
  now,      \* key -> last change of what the key shows
  conn,     \* "open" | "closed"
  req,      \* the request in handle_request: [key, pc, rx]; pc "none": none
  tasks,    \* WsSession::tasks: key -> task, 0: none
  task,     \* spawned tasks: [st, key, rx, val]
  out,      \* outbound queue: [key, id]
  got,      \* what the client has: all events, the last state of a key: [key, id]
  reqs, imported,
  behind,   \* ghost: keys whose client may show an old state until the next message
  twice,    \* ghost: events published while two receivers of the stream existed
  owed      \* ghost: <<key, event>> published to a subscription, not dropped since

vars == <<mine, clock, now, conn, req, tasks, task, out, got, reqs, imported, behind, twice, owed>>
feed == <<mine, clock, now, imported>>

NoReq == [pc |-> "none"]
NoTask == [st |-> "none"]
Open == [buf |-> <<>>, lag |-> FALSE, open |-> TRUE]

Alive(i) == task[i].st \notin {"none", "ended"}
Ids(q) == {q[n].id : n \in 1..Len(q)}

Init ==
  /\ mine \in Mixes /\ clock = 0 /\ now = [k \in Key |-> 0]
  /\ conn = "open" /\ req = NoReq
  /\ tasks = [k \in Key |-> 0] /\ task = [i \in Task |-> NoTask]
  /\ out = <<>> /\ got = <<>> /\ reqs = 0 /\ imported = FALSE
  /\ behind = {} /\ twice = {} /\ owed = {}

-----------------------------------------------------------------------------
(* The publishing side *)

(* broadcast::Sender::send for one receiver: a full one loses its oldest. *)
Received(rx, m) ==
  IF ~ rx.open THEN rx
  ELSE IF Len(rx.buf) < Cap THEN [rx EXCEPT !.buf = Append(@, m)]
       ELSE [rx EXCEPT !.buf = Append(Tail(@), m), !.lag = TRUE]

(* The sender of topic t puts m into the receivers of tasks ... *)
Published(t, m) ==
  [i \in Task |-> IF Alive(i) /\ t \in DOMAIN task[i].rx
                  THEN [task[i] EXCEPT !.rx[t] = Received(@, m)] ELSE task[i]]

(* ... and into the one the handler of a request has just got. *)
PublishedToHandler(t, m) ==
  IF req.pc # "none" /\ t \in DOMAIN req.rx THEN [req EXCEPT !.rx[t] = Received(@, m)] ELSE req

HasRx(k) == req.pc \in {"install", "snap"} /\ req.key = k /\ req.rx # <<>>
Dying(k) == \E i \in Task : task[i].st = "dying" /\ task[i].key = k

(* Lost from the full receiver of k's task when one more message comes. *)
Overrun(k, t) ==
  IF tasks[k] # 0 /\ Alive(tasks[k]) /\ Len(task[tasks[k]].rx[t].buf) = Cap
  THEN {Head(task[tasks[k]].rx[t].buf).id} ELSE {}

(* A change is made and its message sent; to: it is about the client's user. *)
Publish(t, to) ==
  /\ clock < mine.pubs /\ clock' = clock + 1
  /\ t \in UNION {Topics(k) : k \in mine.keys} /\ (to \/ t \in Filtered)
  /\ LET m == [id |-> clock', to |-> to]
         concerned == {k \in Key : t \in Topics(k)}
         subscribed == {k \in concerned : tasks[k] # 0}
     IN  /\ now' = [k \in Key |-> IF k \in concerned /\ to THEN clock' ELSE now[k]]
         /\ task' = Published(t, m) /\ req' = PublishedToHandler(t, m)
         /\ behind' =
              IF ~ to THEN behind
              ELSE LET missed == {k \in concerned :
                                    Dying(k) \/ (req.pc = "rx" /\ req.key = k /\ Kind(k) = "mark")}
                       heard == {k \in concerned :
                                   HasRx(k) \/ (k \in subscribed /\ ~ (req.pc # "none" /\ req.key = k))}
                   IN  (behind \ heard) \union missed
         /\ twice' =
              IF \E k \in concerned :
                   \/ Dying(k)
                   \/ Cardinality(Stream(k) \intersect subscribed) > 1
                   \/ HasRx(k) /\ Stream(k) \intersect subscribed # {}
              THEN twice \union {clock'} ELSE twice
         /\ owed' = (owed \ {<<k, n>> : k \in subscribed, n \in UNION {Overrun(j, t) : j \in subscribed}})
                      \union {<<k, clock'>> : k \in {j \in subscribed : to /\ Kind(j) = "user"}}
  /\ UNCHANGED <<mine, conn, tasks, out, got, reqs, imported>>

(* A change without a message: a live block applied quietly changes paper.house, *)
(* paper.stake and quote, a rehydration of the book changes quote.               *)
ChangeUnsaid(t) ==
  /\ clock < mine.pubs /\ clock' = clock + 1
  /\ t \in Unsaid /\ t \in UNION {Topics(k) : k \in mine.keys}
  /\ LET shown == {k \in Key : t \in Topics(k) /\ Kind(k) # "user"}
     IN  /\ now' = [k \in Key |-> IF k \in shown THEN clock' ELSE now[k]]
         /\ behind' = behind \union shown
  /\ UNCHANGED <<mine, conn, req, tasks, task, out, got, reqs, imported, twice, owed>>

(* A catch-up: clear_all drops publishers, and what the index shows is *)
(* replaced without a message.                                         *)
Import ==
  /\ ~ imported /\ imported' = TRUE
  /\ clock < mine.pubs /\ clock' = clock + 1
  /\ LET Closed(rx) == [t \in DOMAIN rx |-> IF t \in Droppable THEN [rx[t] EXCEPT !.open = FALSE] ELSE rx[t]]
         shown == {k \in Key : Kind(k) # "user"}
     IN  /\ now' = [k \in Key |-> IF k \in shown THEN clock' ELSE now[k]]
         /\ task' = [i \in Task |-> IF Alive(i) THEN [task[i] EXCEPT !.rx = Closed(@)] ELSE task[i]]
         /\ req' = IF req.pc # "none" THEN [req EXCEPT !.rx = Closed(@)] ELSE req
         /\ behind' = behind \union shown
  /\ UNCHANGED <<mine, conn, tasks, out, got, reqs, twice, owed>>

-----------------------------------------------------------------------------
(* The connection: handle_socket and handle_request *)

(* Mutant of Steps: paper.user.state takes its snapshot first. *)
StepsAllAlike(kind) == IF kind = "user" THEN <<"rx", "install">> ELSE <<"snap", "rx", "install">>

(* The order of the steps in handle_subscribe of a channel of states, ... *)
MarkSteps == <<"snap", "rx", "install">>

(* ... of a channel of events, ... *)
UserSteps == <<"rx", "install">>

(* ... and of paper.user.state. *)
StateSteps == <<"rx", "snap", "install">>

Steps(kind) ==
  CASE kind = "mark" -> MarkSteps
    [] kind = "user" -> UserSteps
    [] kind = "state" -> StateSteps

After(kind, pc) ==
  LET s == Steps(kind) IN s[1 + CHOOSE n \in 1..Len(s) : s[n] = pc]

Subscribe(k) ==
  /\ conn = "open" /\ req = NoReq /\ reqs < mine.reqs /\ reqs' = reqs + 1
  /\ k \in mine.keys
  /\ req' = [key |-> k, pc |-> Steps(Kind(k))[1], rx |-> <<>>]
  /\ UNCHANGED <<feed, conn, tasks, task, out, got, behind, twice, owed>>

(* What the client has once it receives m. *)
Shows(m) ==
  IF Kind(m.key) = "user" THEN Append(got, m)
  ELSE Append(SelectSeq(got, LAMBDA x : x.key # m.key), m)

(* Older messages of the key still on their way will follow the snapshot. *)
UnderWay(k) ==
  \/ \E n \in 1..Len(out) : out[n].key = k
  \/ \E i \in Task : Alive(i) /\ task[i].key = k
       /\ (task[i].st # "idle" \/ \E t \in DOMAIN task[i].rx : task[i].rx[t].buf # <<>>)

(* The snapshot goes straight to the socket, past the outbound queue. *)
Snapshot ==
  /\ req.pc = "snap"
  /\ got' = IF now[req.key] = 0 THEN got ELSE Shows([key |-> req.key, id |-> now[req.key]])
  /\ behind' = IF UnderWay(req.key) THEN behind \union {req.key} ELSE behind \ {req.key}
  /\ req' = [req EXCEPT !.pc = After(Kind(req.key), "snap")]
  /\ UNCHANGED <<feed, conn, tasks, task, out, reqs, twice, owed>>

GetReceiver ==
  /\ req.pc = "rx"
  /\ req' = [req EXCEPT !.pc = After(Kind(req.key), "rx"), !.rx = [t \in Topics(req.key) |-> Open]]
  /\ UNCHANGED <<feed, conn, tasks, task, out, got, reqs, behind, twice, owed>>

(* JoinHandle::abort: a task that is being polled stops at its next await. *)
Aborted(tk) == IF tk.st \in {"running", "dying"} THEN [tk EXCEPT !.st = "dying"] ELSE NoTask

(* WsSession::cancel for a set of keys. *)
CancelledTasks(keys) ==
  [i \in Task |-> IF \E k \in keys : tasks[k] = i THEN Aborted(task[i]) ELSE task[i]]

(* Events a cancelled task has not read are dropped with its receiver. *)
Unread(keys) ==
  {<<k, n>> : k \in keys,
     n \in UNION {UNION {Ids(task[i].rx[t].buf) : t \in DOMAIN task[i].rx} :
                    i \in {tasks[k] : k \in {j \in keys : tasks[j] # 0 /\ Alive(tasks[j])}}}}

(* WsSession::subscribe_*: the old task is cancelled, the new one spawned. *)
Install ==
  LET k == req.key
      after == CancelledTasks({k})
      free == {i \in Task : after[i].st = "none"}
      new == CHOOSE i \in free : \A j \in free : i <= j
  IN  /\ req.pc = "install" /\ free # {}
      /\ task' = [after EXCEPT ![new] = [st |-> "idle", key |-> k, rx |-> req.rx, val |-> 0]]
      /\ tasks' = [tasks EXCEPT ![k] = new]
      /\ behind' = IF UnderWay(k) /\ Kind(k) # "user" THEN behind \union {k} ELSE behind
      /\ owed' = owed \ Unread({k})
      /\ req' = NoReq
      /\ UNCHANGED <<feed, conn, out, got, reqs, twice>>

(* cancel_channel ignores the case. *)
Matching(k) == Stream(k)

Unsubscribe(k) ==
  /\ conn = "open" /\ req = NoReq /\ reqs < mine.reqs /\ reqs' = reqs + 1
  /\ tasks[k] # 0
  /\ task' = CancelledTasks(Matching(k))
  /\ tasks' = [j \in Key |-> IF j \in Matching(k) THEN 0 ELSE tasks[j]]
  /\ owed' = owed \ Unread(Matching(k))
  /\ UNCHANGED <<feed, conn, req, out, got, behind, twice>>

(* The loop takes one message of the outbound queue. *)
Deliver ==
  /\ conn = "open" /\ req = NoReq /\ out # <<>>
  /\ got' = Shows(Head(out)) /\ out' = Tail(out)
  /\ UNCHANGED <<feed, conn, req, tasks, task, reqs, behind, twice, owed>>

(* The socket closes or a send fails: the session is dropped, its tasks go on. *)
Close ==
  /\ conn = "open" /\ conn' = "closed"
  /\ req' = NoReq /\ out' = <<>> /\ tasks' = [k \in Key |-> 0] /\ owed' = {} /\ behind' = {}
  /\ task' = [i \in Task |-> IF task[i].st = "ended" THEN NoTask ELSE task[i]]
  /\ UNCHANGED <<feed, got, reqs, twice>>

-----------------------------------------------------------------------------
(* A subscription task: the loop spawned by WsSession::subscribe_* *)

News(rx) == rx.lag \/ rx.buf # <<>> \/ ~ rx.open
HasNews(i) == \E t \in DOMAIN task[i].rx : News(task[i].rx[t])
Polled(i) == task[i].st \in {"running", "dying"}

(* A task that has returned stays in WsSession::tasks until it is replaced. *)
Ended(i) == IF \E k \in Key : tasks[k] = i THEN [task[i] EXCEPT !.st = "ended"] ELSE NoTask

(* An await: the runtime drops an aborted task there. *)
Awaiting(i, tk) == IF task[i].st = "dying" THEN NoTask ELSE [tk EXCEPT !.st = "refreshing"]

TaskStep(i, tk) ==
  /\ task' = [task EXCEPT ![i] = tk]
  /\ UNCHANGED <<feed, conn, req, tasks, got, reqs, behind, twice, owed>>

Wake(i) ==
  /\ task[i].st = "idle" /\ HasNews(i)
  /\ TaskStep(i, [task[i] EXCEPT !.st = "running"]) /\ UNCHANGED out

Park(i) ==
  /\ Polled(i) /\ ~ HasNews(i)
  /\ TaskStep(i, IF task[i].st = "dying" THEN NoTask ELSE [task[i] EXCEPT !.st = "idle"])
  /\ UNCHANGED out

(* The cooperative budget of an aborted task is used up. *)
Dies(i) ==
  /\ task[i].st = "dying" /\ HasNews(i)
  /\ TaskStep(i, NoTask) /\ UNCHANGED out

(* Mutant of AfterLag: an Err of any kind ends the loop. *)
AfterLagEnds(i, t) == Ended(i)

(* Lagged: only paper.user.state does something about it. *)
AfterLag(i, t) ==
  LET tk == [task[i] EXCEPT !.rx[t].lag = FALSE]
  IN  IF Kind(tk.key) = "state" THEN Awaiting(i, tk) ELSE tk

TakeLag(i, t) ==
  /\ Polled(i) /\ t \in DOMAIN task[i].rx /\ task[i].rx[t].lag
  /\ TaskStep(i, AfterLag(i, t)) /\ UNCHANGED out

(* Mutant of AfterSend: the result of the send is ignored. *)
AfterSendIgnored(i, tk) == tk

(* The send fails once the connection is gone, and the loop ends. *)
AfterSend(i, tk) == IF conn = "closed" THEN Ended(i) ELSE tk

Sent(k, n) == IF conn = "closed" THEN out ELSE Append(out, [key |-> k, id |-> n])

(* The message is about another user: continue. *)
AfterOther(i, tk) == tk

TakeMessage(i, t) ==
  /\ Polled(i) /\ t \in DOMAIN task[i].rx /\ ~ task[i].rx[t].lag /\ task[i].rx[t].buf # <<>>
  /\ LET m == Head(task[i].rx[t].buf)
         tk == [task[i] EXCEPT !.rx[t].buf = Tail(@)]
     IN  \/ ~ m.to /\ TaskStep(i, AfterOther(i, tk)) /\ UNCHANGED out
         \/ /\ m.to /\ Kind(tk.key) = "state"
            /\ TaskStep(i, Awaiting(i, tk)) /\ UNCHANGED out
         \/ /\ m.to /\ Kind(tk.key) # "state"
            /\ TaskStep(i, AfterSend(i, tk)) /\ out' = Sent(tk.key, m.id)

TakeClosed(i, t) ==
  /\ Polled(i) /\ t \in DOMAIN task[i].rx
  /\ LET rx == task[i].rx[t] IN ~ rx.lag /\ rx.buf = <<>> /\ ~ rx.open
  /\ TaskStep(i, Ended(i)) /\ UNCHANGED out

(* A chain query that fails is replaced by zeros, the state before the first *)
(* change.                                                                   *)
paper_stake_view(k, ok) == IF ok THEN now[k] ELSE 0

(* paper_user_state: chain queries, then the index. *)
ReadState(i, ok) ==
  /\ task[i].st = "refreshing"
  /\ task' = [task EXCEPT ![i] = [@ EXCEPT !.st = "sending", !.val = paper_stake_view(task[i].key, ok)]]
  /\ behind' = IF ok THEN behind ELSE behind \union {task[i].key}
  /\ UNCHANGED <<feed, conn, req, tasks, out, got, reqs, twice, owed>>

SendState(i) ==
  /\ task[i].st = "sending"
  /\ TaskStep(i, AfterSend(i, [task[i] EXCEPT !.st = "running", !.val = 0]))
  /\ out' = Sent(task[i].key, task[i].val)

TaskNext(i) ==
  \/ Wake(i) \/ Park(i) \/ Dies(i)
  \/ \E t \in Topic : TakeLag(i, t) \/ TakeMessage(i, t) \/ TakeClosed(i, t)
  \/ \E ok \in BOOLEAN : ReadState(i, ok)
  \/ SendState(i)

Handler == Snapshot \/ GetReceiver \/ Install

Next ==
  \/ \E t \in Topic, to \in BOOLEAN : Publish(t, to)
  \/ \E t \in Unsaid : ChangeUnsaid(t)
  \/ Import \/ Close \/ Deliver \/ Handler
  \/ \E k \in Key : Subscribe(k) \/ Unsubscribe(k)
  \/ \E i \in Task : TaskNext(i)

Spec == Init /\ [][Next]_vars

(* The runtime polls what can go on; the client goes on reading. *)
Fairness == WF_vars(Deliver) /\ WF_vars(Handler) /\ \A i \in Task : WF_vars(TaskNext(i))

FairSpec == Spec /\ Fairness

-----------------------------------------------------------------------------
(* Properties *)

(* Receivers within the capacity, tasks where the session says they are. *)
TypeOK ==
  /\ clock \in 0..mine.pubs /\ conn \in {"open", "closed"}
  /\ req.pc \in {"none", "snap", "rx", "install"}
  /\ \A k \in Key : tasks[k] # 0 => task[tasks[k]].key = k /\ task[tasks[k]].st # "none"
  /\ \A i \in Task : Alive(i) =>
       \A t \in DOMAIN task[i].rx : Len(task[i].rx[t].buf) <= Cap

Shown(k) ==
  LET seen == {n \in 1..Len(got) : got[n].key = k}
  IN  IF seen = {} THEN 0 ELSE got[CHOOSE n \in seen : TRUE].id

Settled(k) ==
  /\ req = NoReq /\ \A n \in 1..Len(out) : out[n].key # k
  /\ \A i \in Task : Alive(i) /\ task[i].key = k => task[i].st = "idle" /\ ~ HasNews(i)

(* A client with a live subscription and nothing under way shows the current  *)
(* state, even after a lag; it can be behind, until the next message, only    *)
(* through a change between snapshot and subscription, messages that followed *)
(* a newer snapshot, a quiet block or rehydration, which change the state     *)
(* without a message, a catch-up or a failed chain query.                     *)
SettledIsCurrent ==
  \A k \in Key :
    (Kind(k) # "user" /\ tasks[k] # 0 /\ Alive(tasks[k]) /\ Settled(k) /\ k \notin behind)
      => Shown(k) = now[k]

(* What the client sees of the events of one user. *)
EventsOf(k) == SelectSeq(got, LAMBDA m : m.key \in Stream(k))

(* Events reach the client in order and once, except those published while  *)
(* the connection had two receivers: two spellings of one user, or the old  *)
(* and the new task of a repeated subscription.                             *)
EventsOnceInOrder ==
  \A k \in Key : Kind(k) = "user" =>
    LET e == EventsOf(k)
    IN  \A n, j \in 1..Len(e) :
          n < j => e[n].id < e[j].id \/ e[n].id \in twice \/ e[j].id \in twice

(* An event published to a subscription is received, queued or still to be *)
(* read: only a full receiver or the end of the subscription loses it.     *)
EventsAccounted ==
  \A o \in owed :
    \/ [key |-> o[1], id |-> o[2]] \in Range(got) \union Range(out)
    \/ tasks[o[1]] # 0 /\ Alive(tasks[o[1]])
         /\ \E t \in Topics(o[1]) : o[2] \in Ids(task[tasks[o[1]]].rx[t].buf)

(* A subscription that still stands dies only when a catch-up drops its *)
(* publisher; nobody tells the client.                                  *)
DiesOnlyByImport ==
  \A k \in Key :
    (tasks[k] # 0 /\ ~ Alive(tasks[k])) => imported /\ Topics(k) \intersect Droppable # {}

(* After an unsubscription in any spelling the client hears nothing more *)
(* of the stream, unless it subscribes again.                            *)
Silent(k) ==
  /\ \A i \in Task : Alive(i) => task[i].key \notin Stream(k)
  /\ \A n \in 1..Len(out) : out[n].key \notin Stream(k)

UnsubscribedFallsSilent ==
  (conn = "open" /\ reqs = mine.reqs /\ req = NoReq)
    ~> (conn = "closed" \/ \A k \in Key : Silent(k) \/ \E j \in Stream(k) : tasks[j] # 0)

Matches(i) ==
  \E t \in DOMAIN task[i].rx : \E n \in 1..Len(task[i].rx[t].buf) : task[i].rx[t].buf[n].to

(* A task left behind by a closed connection ends with a message that it   *)
(* would forward and that no later one pushes out of its full receiver;    *)
(* nothing else tells it that the connection is gone.                      *)
OrphanEnds ==
  \A i \in Task : (conn = "closed" /\ clock = mine.pubs /\ Alive(i) /\ Matches(i)) ~> ~ Alive(i)

(* A client that stays subscribed gets everything there is to get. *)
ViewSettles ==
  []<>(\A k \in Key : tasks[k] = 0 \/ ~ Alive(tasks[k]) \/ Settled(k))

(* A subscription shows what its messages told last, which is the current state *)
(* unless that changed without one, and only a catch-up ends it unasked.        *)
ViewIsCurrent == TypeOK /\ SettledIsCurrent /\ DiesOnlyByImport

(* No event is lost, repeated or out of order without a known cause. *)
EventsDelivered == EventsOnceInOrder /\ EventsAccounted

(* Tasks of cancelled and closed subscriptions end, the others catch up. *)
SessionProgress == UnsubscribedFallsSilent /\ OrphanEnds /\ ViewSettles
=============================================================================
