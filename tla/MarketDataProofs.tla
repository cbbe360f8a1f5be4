-------------------------- MODULE MarketDataProofs --------------------------
(***************************************************************************)
(* Market data: the cache and its background cycles (MarketCache), the     *)
(* life of the worker that runs them (WorkerLifecycle), and the requests   *)
(* that both send (RequestPacing).                                         *)
(*                                                                         *)
(* The cache, for every set of keys, scans and workers and every period,   *)
(* backoff, retention and batch size: type correctness, the currency of    *)
(* fresh data when the stale fallback is off, what a cache answer fits,    *)
(* that prune reaches every managed snapshot and spares what a scan is     *)
(* waiting for, and that no key is parked.                                 *)
(*                                                                         *)
(* The worker, for any number of start and stop calls, at once or one      *)
(* after another, in any order around the loop's turns: but for loops that *)
(* overlapping stops dropped it has one at most and its status tells the   *)
(* truth about it (LoopTracked), and when a stop returns no loop is left   *)
(* that there was when it came (StopIsEffective).                          *)
(*                                                                         *)
(* Requests, for any calls, weights, retries, backoff and Retry-After      *)
(* headers, and both providers: type correctness, and that they are paced. *)
(***************************************************************************)
EXTENDS MarketCache, WorkerLifecycle, RequestPacing, FiniteSetTheorems, TLAPS

----------------------------------------------------------------------------
(* The worker *)

USE RequestAssumption

----------------------------------------------------------------------------
(* The ready queue *)

Item == [task : {"loop"}, of : StartRequest] \cup [task : {"request"}, of : Request]

In(x, q) == \E i \in DOMAIN q : q[i] = x
Distinct(q) == \A i, j \in DOMAIN q : q[i] = q[j] => i = j

\* Who has had its turn is in the queue no more.
LEMMA TailIn ==
  ASSUME NEW X, NEW q \in Seq(X), q # <<>>, Distinct(q)
  PROVE  /\ Tail(q) \in Seq(X) /\ Distinct(Tail(q)) /\ Head(q) \in X
         /\ In(Head(q), q)
         /\ \A x : In(x, Tail(q)) <=> In(x, q) /\ x # Head(q)
<1>1. /\ Tail(q) \in Seq(X) /\ Len(Tail(q)) = Len(q) - 1 /\ Len(q) \in Nat /\ Len(q) >= 1
      /\ DOMAIN q = 1 .. Len(q) /\ DOMAIN Tail(q) = 1 .. Len(q) - 1
      /\ Head(q) = q[1] /\ q[1] \in X
      /\ \A i \in 1 .. Len(q) - 1 : Tail(q)[i] = q[i + 1]
  OBVIOUS
<1>2. Distinct(Tail(q))
  BY <1>1 DEF Distinct
<1>3. ASSUME NEW x, In(x, Tail(q))
      PROVE  In(x, q) /\ x # Head(q)
  BY <1>1, <1>3 DEF In, Distinct
<1>4. ASSUME NEW x, In(x, q), x # Head(q)
      PROVE  In(x, Tail(q))
  <2>1. PICK i \in 1 .. Len(q) : q[i] = x
    BY <1>1, <1>4 DEF In
  <2>2. i - 1 \in 1 .. Len(q) - 1 /\ Tail(q)[i - 1] = x
    BY <1>1, <1>4, <2>1
  <2> QED
    BY <1>1, <2>2 DEF In
<1> QED
  BY <1>1, <1>2, <1>3, <1>4 DEF In

\* Who joins the queue is in it, once.
LEMMA AppendIn ==
  ASSUME NEW X, NEW q \in Seq(X), NEW e \in X, Distinct(q), ~In(e, q)
  PROVE  /\ Append(q, e) \in Seq(X) /\ Distinct(Append(q, e))
         /\ \A x : In(x, Append(q, e)) <=> In(x, q) \/ x = e
<1>1. /\ Append(q, e) \in Seq(X) /\ Len(q) \in Nat
      /\ DOMAIN q = 1 .. Len(q) /\ DOMAIN Append(q, e) = 1 .. Len(q) + 1
      /\ Append(q, e)[Len(q) + 1] = e
      /\ \A i \in 1 .. Len(q) : Append(q, e)[i] = q[i]
  OBVIOUS
<1>2. Distinct(Append(q, e))
  BY <1>1 DEF Distinct, In
<1>3. \A x : In(x, Append(q, e)) <=> In(x, q) \/ x = e
  BY <1>1 DEF In
<1> QED
  BY <1>1, <1>2, <1>3

\* So is everyone of a queue that joins it.
LEMMA ConcatIn ==
  ASSUME NEW X, NEW q \in Seq(X), NEW p \in Seq(X), Distinct(q), Distinct(p),
         \A x : ~(In(x, q) /\ In(x, p))
  PROVE  /\ q \o p \in Seq(X) /\ Distinct(q \o p)
         /\ \A x : In(x, q \o p) <=> In(x, q) \/ In(x, p)
<1>1. /\ q \o p \in Seq(X) /\ Len(q) \in Nat /\ Len(p) \in Nat
      /\ DOMAIN q = 1 .. Len(q) /\ DOMAIN p = 1 .. Len(p)
      /\ DOMAIN (q \o p) = 1 .. Len(q) + Len(p)
      /\ \A i \in 1 .. Len(q) : (q \o p)[i] = q[i]
      /\ \A i \in Len(q) + 1 .. Len(q) + Len(p) : (q \o p)[i] = p[i - Len(q)]
  OBVIOUS
<1>2. \A i \in DOMAIN (q \o p) : \/ i \in DOMAIN q /\ (q \o p)[i] = q[i]
                                 \/ i - Len(q) \in DOMAIN p /\ (q \o p)[i] = p[i - Len(q)]
  BY <1>1
<1>3. ASSUME NEW i \in DOMAIN (q \o p), NEW j \in DOMAIN (q \o p), (q \o p)[i] = (q \o p)[j]
      PROVE  i = j
  <2>1. i \in Int /\ j \in Int
    BY <1>1
  <2>2. CASE i \in DOMAIN q /\ (q \o p)[i] = q[i] /\ j \in DOMAIN q /\ (q \o p)[j] = q[j]
    BY <1>3, <2>2 DEF Distinct
  <2>3. CASE /\ i - Len(q) \in DOMAIN p /\ (q \o p)[i] = p[i - Len(q)]
             /\ j - Len(q) \in DOMAIN p /\ (q \o p)[j] = p[j - Len(q)]
    <3>1. i - Len(q) = j - Len(q)
      BY <1>3, <2>3 DEF Distinct
    <3> QED
      BY <1>1, <2>1, <3>1
  <2>4. CASE /\ i \in DOMAIN q /\ (q \o p)[i] = q[i]
             /\ j - Len(q) \in DOMAIN p /\ (q \o p)[j] = p[j - Len(q)]
    BY <1>3, <2>4 DEF In
  <2>5. CASE /\ j \in DOMAIN q /\ (q \o p)[j] = q[j]
             /\ i - Len(q) \in DOMAIN p /\ (q \o p)[i] = p[i - Len(q)]
    BY <1>3, <2>5 DEF In
  <2> QED
    BY <1>2, <2>2, <2>3, <2>4, <2>5
<1>4. ASSUME NEW x, In(x, q) \/ In(x, p)
      PROVE  In(x, q \o p)
  <2>1. CASE In(x, q)
    BY <1>1, <2>1 DEF In
  <2>2. CASE In(x, p)
    <3>1. PICK i \in 1 .. Len(p) : p[i] = x
      BY <1>1, <2>2 DEF In
    <3>2. i + Len(q) \in DOMAIN (q \o p) /\ (q \o p)[i + Len(q)] = x
      BY <1>1, <3>1
    <3> QED
      BY <3>2 DEF In
  <2> QED
    BY <1>4, <2>1, <2>2
<1>5. ASSUME NEW x, In(x, q \o p)
      PROVE  In(x, q) \/ In(x, p)
  BY <1>2, <1>5 DEF In
<1> QED
  BY <1>1, <1>3, <1>4, <1>5 DEF Distinct

----------------------------------------------------------------------------
(* The invariant *)

\* A loop is queued only while it lives, a call only while it is under way, and
\* neither twice.
QueueSound == /\ Distinct(ready)
              /\ \A r \in StartRequest : Queued(Runs(r)) => Live(r)
              /\ \A r \in Request : Queued(Handles(r)) => UnderWay(r)

\* A loop is the work of a start that is done.
Born == \A r \in StartRequest :
  /\ loop[r].pc # "none" => request[r] = "done"
  /\ loop[r].pc = "none" => ~loop[r].cancelled /\ loop[r].waiters = <<>>

\* A stop sees, and drops, only loops that were created, and one stop at a time
\* drops none.
Histories == /\ \A s \in StopRequest : seen[s] \subseteq Created
             /\ lost \subseteq Created /\ current \notin lost
             /\ ~overlapped => lost = {}

OneStop == ~overlapped => \A s, t \in StopRequest : UnderWay(s) /\ UnderWay(t) => s = t

\* A loop that lives is the one the worker knows, or was dropped.
Known == \A r \in StartRequest : Live(r) => current = r \/ r \in lost

\* While the one stop waits no other loop is started, as the worker keeps the task;
\* and the stop goes on when that task has ended, not before.
Awaited == ~overlapped => \A s \in StopRequest : request[s] = "awaiting" =>
  /\ current # None
  /\ Queued(Handles(s)) => ~Live(current)

\* A stop waits for one loop that lives, or for its turn.
Waiters(r) == loop[r].waiters
Waiting == \A r \in StartRequest : Live(r) =>
  /\ Distinct(Waiters(r))
  /\ \A s \in StopRequest : In(s, Waiters(r)) =>
       /\ request[s] = "awaiting" /\ ~Queued(Handles(s))
       /\ \A q \in StartRequest : Live(q) /\ In(s, Waiters(q)) => q = r

\* A loop that a waiting stop found and that still lives is the one it waits for.
Ending == \A s \in StopRequest, r \in StartRequest :
  request[s] = "awaiting" /\ r \in seen[s] \ lost /\ Live(r) => In(s, Waiters(r))

\* Only a stop that waits for it ends a loop or takes its permission to run.
Unasked == current # None /\ (\A s \in StopRequest : request[s] # "awaiting") =>
  running /\ Live(current) /\ ~loop[current].cancelled

\* The inductive invariant.  The status alone says nothing of what a loop that
\* was cancelled does next: Waiting, Ending and Unasked tell when it may end and
\* who goes on then, and QueueSound that it has no turn after that.
Inductive == /\ WorkerTypeOK /\ QueueSound /\ Born /\ Histories /\ OneStop /\ Known
             /\ Awaited /\ Waiting /\ Ending /\ Unasked

\* What each task of the queue is.
LEMMA Tasks ==
  /\ \A r \in StartRequest : Runs(r) \in Item
  /\ \A r \in Request : Handles(r) \in Item
  /\ \A r, q \in Request : Handles(r) = Handles(q) => r = q
  /\ \A r, q \in StartRequest : Runs(r) = Runs(q) => r = q
  /\ \A r \in StartRequest, q \in Request : Runs(r) # Handles(q)
BY DEF Item, Runs, Handles, Request

\* A call arrives.
LEMMA ArriveStep ==
  ASSUME Inductive, NEW r \in Request, Arrive(r)
  PROVE  Inductive'
<1>1. /\ request[r] = "idle" /\ request' = [request EXCEPT ![r] = "arrived"]
      /\ ready' = Append(ready, Handles(r)) /\ UNCHANGED <<running, current, loop, lost>>
      /\ request \in [Request -> {"idle", "arrived", "awaiting", "done", "failed"}]
      /\ ready \in Seq(Item) /\ seen \in [StopRequest -> SUBSET StartRequest]
  BY Tasks DEF Arrive, Inductive, WorkerTypeOK, Item
<1>2. ~In(Handles(r), ready)
  BY <1>1 DEF Inductive, QueueSound, UnderWay, Queued, In
<1>3. /\ ready' \in Seq(Item) /\ Distinct(ready')
      /\ \A x : Queued(x)' <=> Queued(x) \/ x = Handles(r)
  BY <1>1, <1>2, AppendIn, Tasks DEF Inductive, QueueSound, Queued, In
<1>4. /\ seen' \in [StopRequest -> SUBSET StartRequest] /\ overlapped' \in BOOLEAN
      /\ \A s \in StopRequest : seen'[s] \subseteq Created /\ (s # r => seen'[s] = seen[s])
      /\ overlapped => overlapped'
  <2>1. Created \in SUBSET StartRequest /\ overlapped \in BOOLEAN
        /\ \A s \in StopRequest : seen[s] \subseteq Created
    BY DEF Inductive, WorkerTypeOK, Histories, Created
  <2>2. CASE r \in StopRequest
    <3>1. seen' = [seen EXCEPT ![r] = Created]
          /\ overlapped' = (overlapped \/ \E s \in StopRequest : UnderWay(s))
      BY <2>2 DEF Arrive
    <3> QED
      BY <1>1, <2>1, <3>1
  <2>3. CASE r \notin StopRequest
    <3>1. UNCHANGED <<overlapped, seen>>
      BY <2>3 DEF Arrive
    <3> QED
      BY <1>1, <2>1, <3>1
  <2> QED
    BY <2>2, <2>3
<1>5. WorkerTypeOK'
  BY <1>1, <1>3, <1>4 DEF Inductive, WorkerTypeOK, Item
<1>6. QueueSound'
  BY <1>1, <1>3, Tasks DEF Inductive, QueueSound, Live, UnderWay
<1>7. Born'
  BY <1>1 DEF Inductive, Born, Request
<1>8. Histories'
  BY <1>1, <1>4 DEF Inductive, Histories, Created
<1>9. OneStop'
  BY <1>1 DEF Inductive, OneStop, UnderWay, Arrive, Request
<1>10. Known' /\ Unasked'
  BY <1>1 DEF Inductive, Known, Unasked, Live, Request
<1>11. Awaited'
  BY <1>1, <1>3, <1>4, Tasks DEF Inductive, Awaited, Live, Request
<1>12. Waiting'
  BY <1>1, <1>3, Tasks DEF Inductive, Waiting, Waiters, Live, Request
<1>13. Ending'
  BY <1>1, <1>4 DEF Inductive, Ending, Waiters, Live, Request
<1> QED
  BY <1>5, <1>6, <1>7, <1>8, <1>9, <1>10, <1>11, <1>12, <1>13 DEF Inductive

\* What a loop awaits is done.
LEMMA EventStep ==
  ASSUME Inductive, NEW r \in StartRequest, Event(r)
  PROVE  Inductive'
<1>1. /\ Live(r) /\ ready' = Append(ready, Runs(r)) /\ ready \in Seq(Item) /\ ~In(Runs(r), ready)
      /\ UNCHANGED <<running, current, loop, request, history>>
  BY DEF Event, Inductive, WorkerTypeOK, Item, Live, Queued, In
<1>2. /\ ready' \in Seq(Item) /\ Distinct(ready')
      /\ \A x : Queued(x)' <=> Queued(x) \/ x = Runs(r)
  BY <1>1, AppendIn, Tasks DEF Inductive, QueueSound, Queued, In
<1>3. WorkerTypeOK' /\ Born' /\ Histories' /\ OneStop' /\ Known' /\ Unasked'
  BY <1>1, <1>2 DEF Inductive, WorkerTypeOK, Item, Born, Histories, history, Created, OneStop, UnderWay,
                    Known, Live, Unasked
<1>4. QueueSound'
  BY <1>1, <1>2, Tasks DEF Inductive, QueueSound, Live, UnderWay
<1>5. Awaited' /\ Waiting' /\ Ending'
  BY <1>1, <1>2, Tasks DEF Inductive, Awaited, Waiting, Waiters, Ending, history, Live, Request
<1> QED
  BY <1>3, <1>4, <1>5 DEF Inductive

\* Who has its turn is queued no more.
LEMMA TurnLeaves ==
  ASSUME WorkerTypeOK, QueueSound, NEW x, Turn(x)
  PROVE  /\ x \in Item /\ Queued(x) /\ Tail(ready) \in Seq(Item) /\ Distinct(Tail(ready))
         /\ \A y : In(y, Tail(ready)) <=> Queued(y) /\ y # x
<1>1. ready \in Seq(Item) /\ ready # <<>> /\ x = Head(ready) /\ Distinct(ready)
  BY DEF WorkerTypeOK, Item, Turn, QueueSound
<1> QED
  BY <1>1, TailIn DEF Queued, In

\* A start that finds a task, seeds and creates one, or fails.
LEMMA StartStep ==
  ASSUME Inductive, NEW r \in StartRequest, Start(r)
  PROVE  Inductive'
<1>1. /\ Turn(Handles(r)) /\ request[r] = "arrived" /\ Handles(r) \in Item
      /\ WorkerTypeOK /\ QueueSound /\ Born /\ loop[r].pc = "none"
      /\ request \in [Request -> {"idle", "arrived", "awaiting", "done", "failed"}]
      /\ loop \in [StartRequest -> Loop] /\ r \in Request /\ r \notin StopRequest
  BY Tasks DEF Start, Inductive, WorkerTypeOK, Born, Request
<1>2. /\ Tail(ready) \in Seq(Item) /\ Distinct(Tail(ready))
      /\ \A y : In(y, Tail(ready)) <=> Queued(y) /\ y # Handles(r)
  BY <1>1, TurnLeaves
<1>3. /\ \A s \in StopRequest : request'[s] = request[s] /\ UnderWay(s)' = UnderWay(s)
      /\ UNCHANGED <<overlapped, seen, lost>>
  BY <1>1 DEF Start, Request, UnderWay, history
<1>4. OneStop'
  BY <1>3 DEF Inductive, OneStop
<1>5. CASE UNCHANGED <<loop, current>> /\ ready' = Tail(ready)
  <2>1. /\ request'[r] \in {"done", "failed"} /\ \A q \in Request : q # r => request'[q] = request[q]
        /\ current # None => request'[r] = "done" /\ running' = running
    BY <1>1 DEF Start
  <2>2. \A y : Queued(y)' <=> Queued(y) /\ y # Handles(r)
    BY <1>2, <1>5 DEF Queued, In
  <2>3. WorkerTypeOK'
    BY <1>1, <1>2, <1>3, <1>5 DEF WorkerTypeOK, Item, Start
  <2>4. QueueSound'
    BY <1>1, <1>2, <1>5, <2>1, <2>2, Tasks DEF QueueSound, Live, UnderWay
  <2>5. Born' /\ Known' /\ Histories'
    BY <1>1, <1>3, <1>5, <2>1 DEF Born, Known, Histories, Created, Live, Request, Inductive
  <2>6. Awaited' /\ Waiting' /\ Ending'
    BY <1>3, <1>5, <2>2 DEF Inductive, Awaited, Waiting, Waiters, Ending, Live
  <2>7. Unasked'
    BY <1>3, <1>5, <2>1 DEF Inductive, Unasked, Live
  <2> QED
    BY <1>4, <2>3, <2>4, <2>5, <2>6, <2>7 DEF Inductive
<1>6. CASE /\ current = None /\ running' = TRUE /\ current' = r
           /\ loop' = [loop EXCEPT ![r].pc = "new"]
           /\ request' = [request EXCEPT ![r] = "done"]
           /\ ready' = Append(Tail(ready), Runs(r))
  <2>1. /\ loop'[r] = [loop[r] EXCEPT !.pc = "new"] /\ loop' \in [StartRequest -> Loop]
        /\ \A q \in StartRequest : q # r => loop'[q] = loop[q]
        /\ loop'[r].pc = "new" /\ loop'[r].cancelled = loop[r].cancelled /\ loop'[r].waiters = loop[r].waiters
    <3>1. loop[r] \in Loop /\ DOMAIN loop = StartRequest
      BY <1>1
    <3>2. /\ loop'[r] = [loop[r] EXCEPT !.pc = "new"]
          /\ \A q \in StartRequest : q # r => loop'[q] = loop[q]
      BY <1>1, <1>6
    <3>3. loop'[r] \in Loop /\ loop'[r].pc = "new" /\ loop'[r].cancelled = loop[r].cancelled
          /\ loop'[r].waiters = loop[r].waiters
      BY <3>1, <3>2 DEF Loop
    <3>4. loop' \in [StartRequest -> Loop]
      BY <1>1, <1>6, <3>2, <3>3
    <3> QED
      BY <3>2, <3>3, <3>4
  <2>2. /\ ~Live(r) /\ ~Queued(Runs(r)) /\ r \notin Created
        /\ \A q \in StartRequest : Live(q) => q \in lost
    BY <1>1, <1>6 DEF Live, QueueSound, Inductive, Known, Created, Request
  <2>3. /\ ready' \in Seq(Item) /\ Distinct(ready')
        /\ \A y : Queued(y)' <=> (Queued(y) /\ y # Handles(r)) \/ y = Runs(r)
    <3>1. ~In(Runs(r), Tail(ready))
      BY <1>2, <2>2
    <3>2. Runs(r) \in Item
      BY Tasks
    <3>3. /\ Append(Tail(ready), Runs(r)) \in Seq(Item) /\ Distinct(Append(Tail(ready), Runs(r)))
          /\ \A x : In(x, Append(Tail(ready), Runs(r))) <=> In(x, Tail(ready)) \/ x = Runs(r)
      BY <1>2, <3>1, <3>2, AppendIn
    <3>4. \A y : Queued(y)' <=> In(y, Append(Tail(ready), Runs(r)))
      BY <1>6 DEF Queued, In
    <3> QED
      BY <1>2, <1>6, <3>3, <3>4
  <2>4. Live(r)' /\ \A q \in StartRequest : Live(q)' <=> q = r \/ Live(q)
    BY <2>1, <2>2 DEF Live
  <2>5. WorkerTypeOK'
    BY <1>1, <1>3, <1>6, <2>1, <2>3 DEF WorkerTypeOK, Item
  <2>6. QueueSound'
    BY <1>1, <1>6, <2>2, <2>3, <2>4, Tasks DEF QueueSound, UnderWay
  <2>7. Born' /\ Known'
    BY <1>1, <1>3, <1>6, <2>1, <2>2, <2>4 DEF Born, Known, Request
  <2>8. Histories'
    BY <1>1, <1>3, <1>6, <2>1, <2>2 DEF Inductive, Histories, Created
  <2>9. Awaited'
    <3>1. ~overlapped => \A s \in StopRequest : request'[s] # "awaiting"
      BY <1>3, <1>6 DEF Inductive, Awaited
    <3> QED
      BY <1>3, <3>1 DEF Awaited
  <2>10. Waiting'
    <3>1. loop'[r].waiters = <<>> /\ DOMAIN <<>> = {}
      BY <1>1, <2>1 DEF Born
    <3>2. \A s : ~In(s, loop'[r].waiters)
      BY <3>1 DEF In
    <3>3. Distinct(loop'[r].waiters)
      BY <3>1 DEF Distinct
    <3>4. ASSUME NEW q \in StartRequest, Live(q)', q # r
          PROVE  /\ Live(q) /\ loop'[q].waiters = loop[q].waiters
      BY <2>1, <2>4, <3>4
    <3>5. \A s \in StopRequest : Queued(Handles(s))' => Queued(Handles(s))
      BY <2>3, Tasks DEF Request
    <3> QED
      BY <1>3, <3>2, <3>3, <3>4, <3>5 DEF Inductive, Waiting, Waiters
  <2>12. Ending'
    BY <1>3, <2>1, <2>2, <2>4 DEF Inductive, Histories, Ending, Waiters
  <2>11. Unasked'
    BY <1>1, <1>6, <2>1, <2>4 DEF Unasked, Born
  <2> QED
    BY <1>4, <2>5, <2>6, <2>7, <2>8, <2>9, <2>10, <2>11, <2>12 DEF Inductive
<1> QED
  BY <1>5, <1>6 DEF Start

\* A loop's turn leaves the queue to the others.
LEMMA ContinueStep ==
  ASSUME Inductive, NEW r \in StartRequest, Continue(r)
  PROVE  Inductive'
<1>1. /\ Turn(Runs(r)) /\ WorkerTypeOK /\ QueueSound /\ loop \in [StartRequest -> Loop]
      /\ ready' = Tail(ready) /\ UNCHANGED <<running, current, request, overlapped, seen, lost>>
  BY DEF Continue, Inductive, WorkerTypeOK, history
<1>2. /\ Queued(Runs(r)) /\ ready' \in Seq(Item) /\ Distinct(ready')
      /\ \A y : Queued(y)' <=> Queued(y) /\ y # Runs(r)
  BY <1>1, TurnLeaves DEF Queued, In
<1>3. /\ Live(r) /\ loop'[r].pc \in {"working", "sleeping"} /\ loop' \in [StartRequest -> Loop]
      /\ loop'[r].cancelled = loop[r].cancelled /\ loop'[r].waiters = loop[r].waiters
      /\ \A q \in StartRequest : q # r => loop'[q] = loop[q]
  <2>1. Live(r) /\ loop[r] \in Loop /\ r \in DOMAIN loop
    BY <1>1, <1>2 DEF QueueSound
  <2>2. ASSUME NEW pc \in {"working", "sleeping"}, loop' = [loop EXCEPT ![r].pc = pc]
        PROVE  /\ loop'[r].pc = pc /\ loop' \in [StartRequest -> Loop]
               /\ loop'[r].cancelled = loop[r].cancelled /\ loop'[r].waiters = loop[r].waiters
               /\ \A q \in StartRequest : q # r => loop'[q] = loop[q]
    <3>1. loop'[r] = [loop[r] EXCEPT !.pc = pc] /\ \A q \in StartRequest : q # r => loop'[q] = loop[q]
      BY <1>1, <2>2
    <3>2. loop'[r] \in Loop /\ loop'[r].pc = pc /\ loop'[r].cancelled = loop[r].cancelled
          /\ loop'[r].waiters = loop[r].waiters
      BY <2>1, <3>1 DEF Loop
    <3> QED
      BY <1>1, <2>2, <3>1, <3>2
  <2>3. CASE UNCHANGED loop /\ loop[r].pc = "working"
    BY <1>1, <2>1, <2>3
  <2>4. \/ loop' = [loop EXCEPT ![r].pc = "sleeping"] \/ loop' = [loop EXCEPT ![r].pc = "working"]
        \/ UNCHANGED loop /\ loop[r].pc = "working"
    BY DEF Continue
  <2> QED
    BY <2>1, <2>2, <2>3, <2>4
<1>4. \A q \in StartRequest : /\ Live(q)' = Live(q) /\ (loop'[q].pc = "none" <=> loop[q].pc = "none")
                              /\ loop'[q].cancelled = loop[q].cancelled
                              /\ loop'[q].waiters = loop[q].waiters
  BY <1>3 DEF Live
<1>5. WorkerTypeOK'
  BY <1>1, <1>2, <1>3, <1>4 DEF WorkerTypeOK, Item
<1>6. QueueSound'
  BY <1>1, <1>2, <1>4 DEF QueueSound, UnderWay
<1>7. Born' /\ Histories' /\ OneStop' /\ Known'
  BY <1>1, <1>4 DEF Inductive, Born, Histories, Created, OneStop, UnderWay, Known
<1>8. current # None => current \in StartRequest
  BY DEF Inductive, WorkerTypeOK
<1>9. Awaited' /\ Unasked'
  BY <1>1, <1>2, <1>4, <1>8 DEF Inductive, Awaited, Unasked
<1>10. Waiting' /\ Ending'
  BY <1>1, <1>2, <1>4 DEF Inductive, Waiting, Waiters, Ending
<1> QED
  BY <1>5, <1>6, <1>7, <1>9, <1>10 DEF Inductive

\* A stop that finds no loop, or cancels one and waits.
LEMMA StopStep ==
  ASSUME Inductive, NEW r \in StopRequest, Stop(r)
  PROVE  Inductive'
<1>1. /\ Turn(Handles(r)) /\ request[r] = "arrived" /\ Handles(r) \in Item /\ running' = FALSE
      /\ WorkerTypeOK /\ QueueSound /\ Born /\ Histories /\ OneStop /\ Known /\ Awaited /\ Waiting
      /\ Ending /\ UNCHANGED <<overlapped, seen, lost>>
      /\ request \in [Request -> {"idle", "arrived", "awaiting", "done", "failed"}]
      /\ loop \in [StartRequest -> Loop] /\ r \in Request /\ r \notin StartRequest
      /\ current \in StartRequest \cup {None}
  BY Tasks DEF Stop, Inductive, WorkerTypeOK, Request, history
<1>2. /\ Tail(ready) \in Seq(Item) /\ Distinct(Tail(ready))
      /\ \A y : In(y, Tail(ready)) <=> Queued(y) /\ y # Handles(r)
  BY <1>1, TurnLeaves
<1>3. ~overlapped => \A s \in StopRequest : s # r => ~UnderWay(s)
  BY <1>1 DEF OneStop, UnderWay
<1>4. ~overlapped => \A s \in StopRequest : request[s] # "awaiting"
  BY <1>1, <1>3 DEF UnderWay
<1>5. CASE /\ ~HasLiveTask /\ current' = None
           /\ request' = [request EXCEPT ![r] = "done"]
           /\ ready' = Tail(ready) /\ UNCHANGED loop
  <2>1. \A y : Queued(y)' <=> Queued(y) /\ y # Handles(r)
    BY <1>2, <1>5 DEF Queued, In
  <2>2. \A q \in StartRequest : Live(q) => q \in lost
    BY <1>1, <1>5 DEF Known, HasLiveTask
  <2>3. WorkerTypeOK'
    BY <1>1, <1>2, <1>5 DEF WorkerTypeOK, Item
  <2>4. QueueSound' /\ Born'
    BY <1>1, <1>2, <1>5, <2>1, Tasks DEF QueueSound, Born, Live, UnderWay, Request
  <2>5. OneStop'
    BY <1>1, <1>3, <1>5 DEF OneStop, UnderWay
  <2>6. Known' /\ Awaited' /\ Unasked' /\ Ending'
    BY <1>1, <1>4, <1>5, <2>2 DEF Known, Awaited, Unasked, Ending, Live
  <2>7. Waiting'
    BY <1>1, <1>5, <2>1 DEF Waiting, Waiters, Live
  <2>8. Histories'
    BY <1>1, <1>5, RequestAssumption DEF Histories, Created, Request
  <2> QED
    BY <2>3, <2>4, <2>5, <2>6, <2>7, <2>8 DEF Inductive
<1>6. CASE /\ HasLiveTask
           /\ request' = [request EXCEPT ![r] = "awaiting"]
           /\ loop' = [loop EXCEPT ![current].cancelled = TRUE,
                                   ![current].waiters = Append(@, r)]
           /\ \/ ready' = Append(Tail(ready), Runs(current)) /\ ~Queued(Runs(current))
              \/ ready' = Tail(ready)
           /\ UNCHANGED current
  <2>1. current \in StartRequest /\ Live(current) /\ current # None
    BY <1>1, <1>6, RequestAssumption DEF HasLiveTask, Request
  <2>2. /\ loop'[current] = [loop[current] EXCEPT !.cancelled = TRUE, !.waiters = Append(@, r)]
        /\ \A q \in StartRequest : q # current => loop'[q] = loop[q]
    BY <1>1, <1>6, <2>1
  <2>3. /\ loop[current] \in Loop /\ loop[current].waiters \in Seq(StopRequest)
        /\ loop'[current] \in Loop /\ loop'[current].pc = loop[current].pc
        /\ loop'[current].waiters = Append(loop[current].waiters, r)
    <3>1. loop[current] \in Loop /\ loop[current].waiters \in Seq(StopRequest)
      BY <1>1, <2>1 DEF Loop
    <3>2. Append(loop[current].waiters, r) \in Seq(StopRequest)
      BY <3>1
    <3>3. loop'[current] = [pc |-> loop[current].pc, cancelled |-> TRUE,
                            waiters |-> Append(loop[current].waiters, r)]
      BY <2>2, <3>1 DEF Loop
    <3>4. /\ loop'[current].pc = loop[current].pc
          /\ loop'[current].waiters = Append(loop[current].waiters, r)
      BY <3>3
    <3>5. loop'[current] \in Loop
      BY <3>1, <3>2, <3>3 DEF Loop
    <3> QED
      BY <3>1, <3>4, <3>5
  <2>4. loop' \in [StartRequest -> Loop] /\ \A q \in StartRequest : loop'[q].pc = loop[q].pc
    BY <1>1, <1>6, <2>1, <2>2, <2>3
  <2>5. \A q \in StartRequest : Live(q)' = Live(q)
    BY <2>4 DEF Live
  <2>6. ASSUME NEW q \in StartRequest, Live(q)
        PROVE  ~In(r, Waiters(q))
    BY <1>1, <2>6 DEF Waiting
  <2>7. /\ Distinct(Append(Waiters(current), r))
        /\ \A x : In(x, Append(Waiters(current), r)) <=> In(x, Waiters(current)) \/ x = r
    <3>1. Distinct(Waiters(current)) /\ ~In(r, Waiters(current)) /\ Waiters(current) \in Seq(StopRequest)
      BY <1>1, <2>1, <2>3, <2>6 DEF Waiting, Waiters
    <3> QED
      BY <3>1, AppendIn
  <2>8. /\ ready' \in Seq(Item) /\ Distinct(ready')
        /\ \A y : Queued(y)' => (Queued(y) /\ y # Handles(r)) \/ y = Runs(current)
    <3>1. CASE ready' = Tail(ready)
      BY <1>2, <3>1 DEF Queued, In
    <3>2. CASE ready' = Append(Tail(ready), Runs(current)) /\ ~Queued(Runs(current))
      <4>1. Runs(current) \in Item /\ ~In(Runs(current), Tail(ready))
        BY <1>2, <2>1, <3>2, Tasks
      <4>2. /\ Append(Tail(ready), Runs(current)) \in Seq(Item)
            /\ Distinct(Append(Tail(ready), Runs(current)))
            /\ \A x : In(x, Append(Tail(ready), Runs(current))) <=> In(x, Tail(ready)) \/ x = Runs(current)
        BY <1>2, <4>1, AppendIn
      <4>3. \A y : Queued(y)' <=> In(y, Append(Tail(ready), Runs(current)))
        BY <3>2 DEF Queued, In
      <4> QED
        BY <1>2, <3>2, <4>2, <4>3
    <3> QED
      BY <1>6, <3>1, <3>2
  <2>9. WorkerTypeOK'
    BY <1>1, <1>6, <2>1, <2>4, <2>8 DEF WorkerTypeOK, Item
  <2>10. QueueSound'
    BY <1>1, <1>6, <2>1, <2>5, <2>8, Tasks DEF QueueSound, UnderWay
  <2>11. Born' /\ Known'
    BY <1>1, <1>6, <2>1, <2>2, <2>4, <2>5 DEF Born, Known, Live, Request
  <2>12. OneStop'
    BY <1>1, <1>3, <1>6 DEF OneStop, UnderWay
  <2>13. \A s \in StopRequest : request'[s] = "awaiting" <=> s = r \/ request[s] = "awaiting"
    BY <1>1, <1>6
  <2>14. ~Queued(Handles(r))'
    BY <1>1, <2>1, <2>8, Tasks
  <2>15. Awaited' /\ Unasked'
    <3>1. ~overlapped => \A s \in StopRequest : request'[s] = "awaiting" => s = r
      BY <1>4, <2>13
    <3> QED
      BY <1>1, <1>6, <2>1, <2>13, <2>14, <3>1 DEF Awaited, Unasked
  <2>16. \A s : In(s, loop'[current].waiters) <=> In(s, Waiters(current)) \/ s = r
    BY <2>3, <2>7 DEF Waiters
  <2>17. Waiting'
    <3>1. \A s \in StopRequest : s # r => (Queued(Handles(s))' => Queued(Handles(s)))
      BY <1>1, <2>1, <2>8, Tasks DEF Request
    <3>2. ASSUME NEW q \in StartRequest, q # current
          PROVE  loop'[q].waiters = loop[q].waiters
      BY <2>2, <3>2
    <3>3. \A q \in StartRequest, s \in StopRequest : Live(q) =>
            (In(s, loop'[q].waiters) <=> In(s, Waiters(q)) \/ (q = current /\ s = r))
      BY <2>16, <3>2 DEF Waiters
    <3>4. ASSUME NEW q \in StartRequest, Live(q)
          PROVE  Distinct(loop'[q].waiters)
      BY <1>1, <2>3, <2>7, <3>2, <3>4 DEF Waiting, Waiters
    <3>5. ASSUME NEW q \in StartRequest, Live(q), NEW s \in StopRequest, In(s, loop'[q].waiters)
          PROVE  /\ request'[s] = "awaiting" /\ ~Queued(Handles(s))'
                 /\ \A p \in StartRequest : Live(p) /\ In(s, loop'[p].waiters) => p = q
      <4>1. CASE s = r
        BY <2>1, <2>6, <2>13, <2>14, <3>3, <3>5, <4>1
      <4>2. CASE s # r
        BY <1>1, <2>13, <3>1, <3>3, <3>5, <4>2 DEF Waiting
      <4> QED
        BY <4>1, <4>2
    <3> QED
      BY <2>5, <3>4, <3>5 DEF Waiting, Waiters
  <2>18. Ending'
    <3> SUFFICES ASSUME NEW s \in StopRequest, NEW q \in StartRequest,
                        request'[s] = "awaiting", q \in seen[s] \ lost, Live(q)
                 PROVE  In(s, loop'[q].waiters)
      BY <1>1, <2>5 DEF Ending, Waiters
    <3>1. q = current
      BY <1>1 DEF Known
    <3>2. s = r \/ In(s, Waiters(q))
      BY <1>1, <2>13 DEF Ending
    <3> QED
      BY <2>16, <3>1, <3>2
  <2>19. Histories'
    BY <1>1, <1>6, <2>4 DEF Histories, Created
  <2> QED
    BY <2>9, <2>10, <2>11, <2>12, <2>15, <2>17, <2>18, <2>19 DEF Inductive
<1> QED
  BY <1>5, <1>6 DEF Stop

\* ... and goes on when that loop has ended, to drop the worker's task: another one
\* only if stops overlap.
LEMMA StoppedStep ==
  ASSUME Inductive, NEW r \in StopRequest, Stopped(r)
  PROVE  Inductive'
<1>1. /\ Turn(Handles(r)) /\ request[r] = "awaiting" /\ Handles(r) \in Item
      /\ WorkerTypeOK /\ QueueSound /\ Born /\ Histories /\ OneStop /\ Known /\ Awaited /\ Waiting
      /\ Ending /\ current' = None /\ request' = [request EXCEPT ![r] = "done"]
      /\ ready' = Tail(ready) /\ UNCHANGED <<running, loop, overlapped, seen>>
      /\ lost' = lost \cup {q \in StartRequest : q = current /\ Live(q)}
      /\ request \in [Request -> {"idle", "arrived", "awaiting", "done", "failed"}]
      /\ r \in Request /\ r \notin StartRequest
  BY Tasks DEF Stopped, Inductive, WorkerTypeOK, Request
<1>2. /\ Queued(Handles(r)) /\ ready' \in Seq(Item) /\ Distinct(ready')
      /\ \A y : Queued(y)' <=> Queued(y) /\ y # Handles(r)
  BY <1>1, TurnLeaves DEF Queued, In
<1>3. ~overlapped => lost' = {}
  <2> SUFFICES ASSUME ~overlapped PROVE lost' = {}
    OBVIOUS
  <2>1. ~Live(current)
    BY <1>1, <1>2 DEF Awaited
  <2> QED
    BY <1>1, <2>1 DEF Histories
<1>4. ~overlapped => \A s \in StopRequest : s # r => ~UnderWay(s)
  BY <1>1 DEF OneStop, UnderWay
<1>5. WorkerTypeOK'
  BY <1>1, <1>2 DEF WorkerTypeOK, Item
<1>6. QueueSound' /\ Born'
  BY <1>1, <1>2, Tasks DEF QueueSound, Born, Live, UnderWay, Request
<1>7. OneStop' /\ (~overlapped => \A s \in StopRequest : request'[s] # "awaiting")
  BY <1>1, <1>4 DEF OneStop, UnderWay
<1>8. Known' /\ Awaited' /\ Unasked'
  BY <1>1, <1>7 DEF Known, Awaited, Unasked, Live
<1>9. Waiting'
  <2>1. \A q \in StartRequest : Live(q) => ~In(r, Waiters(q))
    BY <1>1, <1>2 DEF Waiting
  <2> QED
    BY <1>1, <1>2, <2>1 DEF Waiting, Waiters, Live
<1>10. Ending'
  BY <1>1 DEF Ending, Waiters, Live, Request
<1>11. Histories'
  <2>1. None \notin lost'
    BY <1>1, RequestAssumption DEF Histories, Created, Request
  <2>2. lost' \subseteq Created
    BY <1>1 DEF Histories, Created, Live
  <2> QED
    BY <1>1, <1>3, <2>1, <2>2 DEF Histories, Created
<1> QED
  BY <1>5, <1>6, <1>7, <1>8, <1>9, <1>10, <1>11 DEF Inductive

\* A loop ends: who waited for it is ready.
LEMMA EndStep ==
  ASSUME Inductive, NEW r \in StartRequest, End(r)
  PROVE  Inductive'
<1> DEFINE w == Waiters(r)
           p == [i \in DOMAIN w |-> Handles(w[i])]
<1>1. /\ Turn(Runs(r)) /\ Runs(r) \in Item
      /\ WorkerTypeOK /\ QueueSound /\ Born /\ Histories /\ OneStop /\ Known /\ Awaited /\ Waiting
      /\ Ending /\ Unasked
      /\ loop' = [loop EXCEPT ![r].pc = "done"] /\ ready' = Tail(ready) \o p
      /\ UNCHANGED <<running, current, request, overlapped, seen, lost>>
      /\ loop \in [StartRequest -> Loop] /\ loop[r] \in Loop
  BY Tasks DEF End, Inductive, WorkerTypeOK, Waiters, history
<1>2. /\ Queued(Runs(r)) /\ Tail(ready) \in Seq(Item) /\ Distinct(Tail(ready))
      /\ \A y : In(y, Tail(ready)) <=> Queued(y) /\ y # Runs(r)
  BY <1>1, TurnLeaves
<1>3. Live(r)
  BY <1>1, <1>2 DEF QueueSound
<1>4. /\ loop'[r].pc = "done" /\ loop' \in [StartRequest -> Loop]
      /\ loop'[r].cancelled = loop[r].cancelled /\ loop'[r].waiters = loop[r].waiters
      /\ \A q \in StartRequest : q # r => loop'[q] = loop[q]
  <2>1. loop'[r] = [loop[r] EXCEPT !.pc = "done"] /\ \A q \in StartRequest : q # r => loop'[q] = loop[q]
    BY <1>1
  <2>2. loop'[r] \in Loop /\ loop'[r].pc = "done" /\ loop'[r].cancelled = loop[r].cancelled
        /\ loop'[r].waiters = loop[r].waiters
    BY <1>1, <2>1 DEF Loop
  <2> QED
    BY <1>1, <2>1, <2>2
<1>5. \A q \in StartRequest : Live(q)' <=> q # r /\ Live(q)
  BY <1>4 DEF Live
<1>6. w \in Seq(StopRequest) /\ DOMAIN w = 1 .. Len(w) /\ Len(w) \in Nat
      /\ \A i \in DOMAIN w : w[i] \in StopRequest
  BY <1>1 DEF Waiters, Loop
<1>7. /\ Distinct(w)
      /\ \A s \in StopRequest : In(s, w) => request[s] = "awaiting" /\ ~Queued(Handles(s))
  BY <1>1, <1>3 DEF Waiting
<1>8. /\ p \in Seq(Item) /\ DOMAIN p = DOMAIN w
      /\ \A i \in DOMAIN w : p[i] = Handles(w[i])
  BY <1>6, Tasks DEF Request
<1>9. Distinct(p)
  BY <1>6, <1>7, <1>8, Tasks DEF Distinct, Request
<1>10. \A x : In(x, p) => \E s \in StopRequest : In(s, w) /\ x = Handles(s)
  BY <1>6, <1>8 DEF In
<1>11. \A x : ~(In(x, Tail(ready)) /\ In(x, p))
  BY <1>2, <1>7, <1>10
<1>12. /\ Tail(ready) \o p \in Seq(Item) /\ Distinct(Tail(ready) \o p)
       /\ \A x : In(x, Tail(ready) \o p) <=> In(x, Tail(ready)) \/ In(x, p)
  <2> HIDE DEF p, w
  <2> QED
    BY <1>2, <1>8, <1>9, <1>11, ConcatIn
<1>13. /\ ready' \in Seq(Item) /\ Distinct(ready')
       /\ \A y : Queued(y)' => \/ Queued(y) /\ y # Runs(r)
                              \/ \E s \in StopRequest : In(s, w) /\ request[s] = "awaiting" /\ y = Handles(s)
  <2>1. \A y : Queued(y)' <=> In(y, Tail(ready) \o p)
    BY <1>1 DEF Queued, In
  <2> HIDE DEF p, w
  <2> QED
    BY <1>1, <1>2, <1>7, <1>10, <1>12, <2>1
<1>14. \A q \in StartRequest : (loop'[q].pc = "none" <=> loop[q].pc = "none")
                               /\ loop'[q].cancelled = loop[q].cancelled
                               /\ loop'[q].waiters = loop[q].waiters
  BY <1>3, <1>4 DEF Live
<1> HIDE DEF p, w
<1>15. WorkerTypeOK'
  BY <1>1, <1>4, <1>13, <1>14 DEF WorkerTypeOK, Item
<1>16. QueueSound'
  <2>1. \A q \in StartRequest : Queued(Runs(q))' => Live(q)'
    BY <1>1, <1>5, <1>13, Tasks DEF QueueSound, Request
  <2>2. \A q \in Request : Queued(Handles(q))' => UnderWay(q)'
    BY <1>1, <1>13, Tasks DEF QueueSound, UnderWay, Request
  <2> QED
    BY <1>13, <2>1, <2>2 DEF QueueSound
<1>17. Born' /\ Histories' /\ OneStop' /\ Known' /\ Ending'
  BY <1>1, <1>5, <1>14 DEF Born, Histories, Created, OneStop, UnderWay, Known, Ending, Waiters
<1>18. Waiting'
  <2> SUFFICES ASSUME NEW q \in StartRequest, q # r, Live(q), NEW s \in StopRequest, In(s, Waiters(q))
               PROVE  ~Queued(Handles(s))'
    BY <1>1, <1>5, <1>14 DEF Waiting, Waiters
  <2>1. ~In(s, w)
    BY <1>1, <1>3 DEF Waiting, w
  <2>2. ~Queued(Handles(s))
    BY <1>1 DEF Waiting
  <2> QED
    BY <1>13, <2>1, <2>2, Tasks DEF Request
<1>19. Awaited'
  \* One stop at a time has dropped no loop, so the loop that ends is the worker's.
  <2> SUFFICES ASSUME ~overlapped, NEW s \in StopRequest, request[s] = "awaiting"
               PROVE  current # None /\ ~(loop'[current].pc \notin {"none", "done"})
    BY <1>1 DEF Awaited, Live
  <2>1. current # None
    BY <1>1 DEF Awaited
  <2>2. r = current
    BY <1>1, <1>3 DEF Known, Histories
  <2> QED
    BY <1>4, <2>1, <2>2
<1>20. Unasked'
  \* A loop that nobody waits for neither was cancelled nor found itself stopped.
  <2> SUFFICES ASSUME current # None, \A s \in StopRequest : request[s] # "awaiting"
               PROVE  running /\ loop'[current].pc \notin {"none", "done"} /\ ~loop'[current].cancelled
    BY <1>1 DEF Unasked, Live
  <2>1. running /\ Live(current) /\ ~loop[current].cancelled /\ current \in StartRequest
    BY <1>1 DEF Unasked, WorkerTypeOK
  <2>2. current # r
    BY <2>1 DEF End
  <2> QED
    BY <1>4, <1>14, <2>1, <2>2 DEF Live
<1> QED
  BY <1>15, <1>16, <1>17, <1>18, <1>19, <1>20 DEF Inductive

\* The queue, the loops, the stops that wait for them and the worker's task fit
\* together, also when stops overlap (market_data_worker.py:45-72).
THEOREM InductiveHolds == WorkerSpec => []Inductive
<1>1. WorkerInit => Inductive
  <2> SUFFICES ASSUME WorkerInit
               PROVE  Inductive
    OBVIOUS
  <2>1. WorkerTypeOK
    <3>1. [pc |-> "none", cancelled |-> FALSE, waiters |-> <<>>] \in Loop
      BY DEF Loop
    <3>2. loop \in [StartRequest -> Loop]
      BY <3>1 DEF WorkerInit
    <3>3. /\ running \in BOOLEAN /\ current = None
          /\ request \in [Request -> {"idle", "arrived", "awaiting", "done", "failed"}]
          /\ ready = <<>> /\ overlapped \in BOOLEAN
          /\ seen \in [StopRequest -> SUBSET StartRequest] /\ lost \in SUBSET StartRequest
      BY DEF WorkerInit
    <3>4. ready \in Seq([task : {"loop"}, of : StartRequest] \cup [task : {"request"}, of : Request])
      BY <3>3
    <3> QED
      BY <3>2, <3>3, <3>4 DEF WorkerTypeOK
  <2>2. /\ QueueSound /\ Born /\ Histories /\ OneStop /\ Known /\ Awaited /\ Waiting
        /\ Ending /\ Unasked
    BY RequestAssumption DEF WorkerInit, QueueSound, Distinct, Queued, Born, Histories, OneStop, UnderWay,
                             Known, Live, Awaited, Waiting, Ending, Unasked, Request
  <2> QED
    BY <2>1, <2>2 DEF Inductive
<1>2. Inductive /\ [WorkerNext]_workerVars => Inductive'
  <2> SUFFICES ASSUME Inductive, [WorkerNext]_workerVars
               PROVE  Inductive'
    OBVIOUS
  <2>1. CASE UNCHANGED workerVars
    BY <2>1 DEF workerVars, Inductive, WorkerTypeOK, QueueSound, Queued, Born, Histories, Created, OneStop,
                UnderWay, Known, Live, Awaited, Waiting, Waiters, Ending, Unasked
  <2>2. ASSUME NEW r \in Request, Arrive(r)
        PROVE  Inductive'
    BY <2>2, ArriveStep
  <2>3. ASSUME NEW r \in StartRequest, Start(r) \/ LoopStep(r)
        PROVE  Inductive'
    BY <2>3, StartStep, EventStep, ContinueStep, EndStep DEF LoopStep
  <2>4. ASSUME NEW r \in StopRequest, Stop(r) \/ Stopped(r)
        PROVE  Inductive'
    BY <2>4, StopStep, StoppedStep
  <2> QED
    BY <2>1, <2>2, <2>3, <2>4 DEF WorkerNext
<1> QED
  BY <1>1, <1>2, PTL DEF WorkerSpec

\* There is one loop at most that was not dropped, and while no stop is under way
\* the status says whether there is one.
LEMMA Tracks ==
  ASSUME Inductive
  PROVE  LoopTracked
<1>1. WorkerTypeOK
  BY DEF Inductive
<1>2. OneLoop
  BY DEF Inductive, Known, Histories, OneLoop
<1>3. StatusTruthful
  <2> SUFFICES ASSUME \A s \in StopRequest : ~UnderWay(s)
               PROVE  StatusRunning <=> \E r \in StartRequest \ lost : Live(r)
    BY DEF StatusTruthful
  <2>1. current # None => running /\ Live(current) /\ current \in StartRequest \ lost
    BY <1>1 DEF Inductive, Unasked, UnderWay, WorkerTypeOK, Histories
  <2>2. \A r \in StartRequest \ lost : Live(r) => current = r
    BY DEF Inductive, Known
  <2> QED
    BY <2>1, <2>2, RequestAssumption DEF StatusRunning, Request
<1> QED
  BY <1>1, <1>2, <1>3 DEF LoopTracked

\* Whatever the order of starts and stops, also of stops at once: every loop that
\* lives is the worker's task or one that overlapping stops dropped, and but for
\* those the status tells of it (market_data_worker.py: start, stop and _run).
THEOREM LoopTrackedHolds == WorkerSpec => []LoopTracked
<1>1. WorkerSpec => []Inductive
  BY InductiveHolds
<1>2. Inductive => LoopTracked
  BY Tracks
<1> QED
  BY <1>1, <1>2, PTL

\* A stop that has not returned yet returns only once no loop lives that it found,
\* but for those that were dropped.
LEMMA StopReturns ==
  ASSUME Inductive, [WorkerNext]_workerVars, NEW s \in StopRequest,
         request[s] # "done", request'[s] = "done"
  PROVE  /\ loop' = loop /\ lost \subseteq lost'
         /\ \A r \in seen[s] \ lost : ~Live(r)
<1>1. request \in [Request -> {"idle", "arrived", "awaiting", "done", "failed"}]
      /\ WorkerTypeOK /\ QueueSound /\ Histories /\ Known /\ Waiting /\ Ending
      /\ s \in Request /\ s \notin StartRequest /\ seen[s] \subseteq StartRequest
  BY DEF Inductive, WorkerTypeOK, Request
<1>2. ASSUME NEW r \in Request, Arrive(r)
      PROVE  FALSE
  BY <1>1, <1>2 DEF Arrive
<1>3. ASSUME NEW r \in StartRequest, Start(r) \/ LoopStep(r)
      PROVE  FALSE
  BY <1>1, <1>3 DEF Start, LoopStep, Event, Continue, End
<1>4. ASSUME NEW r \in StopRequest, Stop(r)
      PROVE  /\ loop' = loop /\ lost' = lost
             /\ \A q \in seen[s] \ lost : ~Live(q)
  <2>1. loop' = loop /\ ~HasLiveTask /\ lost' = lost
    BY <1>1, <1>4 DEF Stop, history
  <2> QED
    BY <1>1, <2>1 DEF Known, HasLiveTask
<1>5. ASSUME NEW r \in StopRequest, Stopped(r)
      PROVE  /\ loop' = loop /\ lost \subseteq lost'
             /\ \A q \in seen[s] \ lost : ~Live(q)
  <2>1. /\ Turn(Handles(r)) /\ request[r] = "awaiting" /\ r \in Request
        /\ loop' = loop /\ lost \subseteq lost' /\ r = s
    BY <1>1, <1>5 DEF Stopped, Request
  <2>2. Queued(Handles(s))
    BY <1>1, <2>1, TurnLeaves
  <2> QED
    BY <1>1, <2>1, <2>2 DEF Waiting, Ending
<1>6. ~UNCHANGED workerVars
  BY DEF workerVars
<1> QED
  BY <1>2, <1>3, <1>4, <1>5, <1>6 DEF WorkerNext

\* When a stop returns, whatever starts and stops came before it or while it waited,
\* no loop that it found is still there, but for those that overlapping stops dropped
\* (market_data_worker.py: stop awaits the task).
THEOREM StopIsEffectiveHolds == WorkerSpec => StopIsEffective
<1> DEFINE Effective ==
             \A s \in StopRequest : request[s] # "done" /\ request'[s] = "done"
               => \A r \in seen[s] \ lost' : loop'[r].pc = "done"
<1>1. WorkerSpec => []Inductive
  BY InductiveHolds
<1>2. Inductive /\ [WorkerNext]_workerVars => [Effective]_workerVars
  <2> SUFFICES ASSUME Inductive, [WorkerNext]_workerVars
               PROVE  Effective
    OBVIOUS
  <2>1. \A s \in StopRequest : \A r \in seen[s] : r \in StartRequest /\ loop[r].pc # "none"
    BY DEF Inductive, Histories, Created
  <2> QED
    BY <2>1, StopReturns DEF Live
<1>3. WorkerSpec => [][Effective]_workerVars
  BY <1>1, <1>2, PTL DEF WorkerSpec
<1> QED
  BY <1>3 DEF StopIsEffective

----------------------------------------------------------------------------
(* The pace of requests *)

USE TaskAssumption, WeightAssumption, RetryAssumption

\* A call that waits to be retried has an attempt left.
RetriesLeft == \A t \in Task : task[t].pc \in {"pushing", "backing"} => task[t].attempt < Retries

\* The lock is held by the one call that sleeps towards its slot.
LockHeldBySleeper == \A t \in Task : holder = t <=> task[t].pc = "sleeping"

\* The next request time covers what is owed, and a sleeper sleeps until then.
Covered == /\ owed <= until
           /\ \A t \in Task : task[t].pc = "sleeping" => until <= task[t].sleep

\* The inductive invariant.  A sleeper decided when to send before its sleep;
\* what keeps that right is the lock, which keeps everyone else from moving the
\* next request time meanwhile.
PacingInductive == PacingTypeOK /\ RetriesLeft /\ LockHeldBySleeper /\ Covered

----------------------------------------------------------------------------
(* Type correctness *)

\* A call that ends or goes back to the queue is still a call.
LEMMA TaskType ==
  ASSUME PacingTypeOK, NEW t \in Task
  PROVE  /\ \A r \in {"none", "ok", "failed", "closed", "cancelled"} :
              CallEnded(t, r) \in TaskState
         /\ InLine(t) \in TaskState
         /\ AfterReset(task[t]) \in TaskState
         /\ \/ AfterReset(task[t]).pc = "done"
            \/ AfterReset(task[t]).pc = "backing" /\ AfterReset(task[t]).attempt < Retries
<1>1. task[t] \in TaskState
  BY DEF PacingTypeOK
<1>2. \A r \in {"none", "ok", "failed", "closed", "cancelled"} : CallEnded(t, r) \in TaskState
  BY <1>1 DEF CallEnded, TaskState
<1>3. InLine(t) \in TaskState
  BY <1>1 DEF InLine, TaskState
<1>4. AfterReset(task[t]) \in TaskState
  BY <1>1 DEF AfterReset, TaskState
<1>5. \/ AfterReset(task[t]).pc = "done"
      \/ AfterReset(task[t]).pc = "backing" /\ AfterReset(task[t]).attempt < Retries
  BY <1>1 DEF AfterReset, TaskState
<1> QED
  BY <1>2, <1>3, <1>4, <1>5

\* What a queue holds.
LEMMA QueueType ==
  ASSUME PacingTypeOK, NEW t \in Task
  PROVE  /\ Append(queue, t) \in Seq(Task)
         /\ LeaveQueue(t) => queue' \in Seq(Task)
         /\ queue # <<>> => Tail(queue) \in Seq(Task)
<1>1. queue \in Seq(Task)
  BY DEF PacingTypeOK
<1>2. ASSUME NEW i \in DOMAIN queue
      PROVE  SubSeq(queue, 1, i - 1) \o SubSeq(queue, i + 1, Len(queue)) \in Seq(Task)
  BY <1>1
<1>3. LeaveQueue(t) => queue' \in Seq(Task)
  BY <1>1, <1>2 DEF LeaveQueue
<1>4. Append(queue, t) \in Seq(Task)
  BY <1>1
<1>5. queue # <<>> => Tail(queue) \in Seq(Task)
  BY <1>1
<1> QED
  BY <1>3, <1>4, <1>5

\* Taking a slot and sending.
LEMMA SendType ==
  ASSUME PacingTypeOK, NEW t \in Task, Send(t)
  PROVE  /\ task' \in [Task -> TaskState]
         /\ until' \in Nat /\ owed' \in Nat
         /\ holder' \in Task \cup {NoTask}
<1>1. task[t] \in TaskState /\ Weight[t] \in Nat /\ until \in Nat /\ owed \in Nat
  BY DEF PacingTypeOK
<1>2. [task[t] EXCEPT !.pc = "inflight", !.sleep = 0] \in TaskState
  BY <1>1 DEF TaskState
<1>3. CallEnded(t, "closed") \in TaskState
  BY TaskType
<1>4. task' \in [Task -> TaskState]
  BY <1>2, <1>3 DEF Send, PacingTypeOK
<1> QED
  BY <1>1, <1>4 DEF Send, Larger

LEMMA PacingTypeStep == PacingTypeOK /\ RetriesLeft /\ [PacingNext]_pacingVars => PacingTypeOK'
<1> SUFFICES ASSUME PacingTypeOK, RetriesLeft, [PacingNext]_pacingVars PROVE PacingTypeOK'
  OBVIOUS
<1>1. CASE PacingTick
  <2>1. \A t \in Task : task[t] \in TaskState
    BY DEF PacingTypeOK
  <2>2. \A n \in Nat : Less(n) \in Nat
    BY DEF Less
  <2>3. \A t \in Task : [task[t] EXCEPT !.sleep = Less(@)] \in TaskState
    BY <2>1, <2>2 DEF TaskState
  <2> QED
    BY <1>1, <2>1, <2>2, <2>3 DEF PacingTick, PacingTypeOK
<1>2. ASSUME NEW t \in Task, StartCall(t) \/ Step(t) \/ Cancel(t)
      PROVE  PacingTypeOK'
  <2>0. task[t] \in TaskState
    BY DEF PacingTypeOK
  <2>1. CASE StartCall(t)
    <3>1. [task[t] EXCEPT !.pc = "getting"] \in TaskState
      BY <2>0 DEF TaskState
    <3> QED
      BY <2>1, <3>1 DEF StartCall, PacingTypeOK
  <2>2. CASE GetClient(t)
    <3>1. \A c \in {"open", "closed"} : [InLine(t) EXCEPT !.cl = c] \in TaskState
      BY <2>0 DEF InLine, TaskState
    <3> QED
      BY <2>2, <3>1, QueueType DEF GetClient, PacingTypeOK
  <2>3. CASE Acquire(t)
    <3>1. [task[t] EXCEPT !.pc = "sleeping", !.sleep = until] \in TaskState
      BY <2>0 DEF TaskState, PacingTypeOK
    <3>2. queue' \in Seq(Task)
      BY <2>3, QueueType DEF Acquire, First
    <3>3. CASE until = 0
      BY <2>3, <3>2, <3>3, SendType DEF Acquire, PacingTypeOK
    <3>4. CASE until # 0
      BY <2>3, <3>1, <3>2, <3>4 DEF Acquire, PacingTypeOK
    <3> QED
      BY <3>3, <3>4
  <2>4. CASE Wake(t)
    BY <2>4, SendType DEF Wake, PacingTypeOK
  <2>5. CASE Succeed(t)
    BY <2>5, TaskType DEF Succeed, PacingTypeOK
  <2>6. CASE Refuse(t)
    BY <2>6, TaskType DEF Refuse, PacingTypeOK
  <2>7. CASE Reject(t)
    <3>1. [task[t] EXCEPT !.pc = "backing", !.sleep = RetryBackoff] \in TaskState
      BY <2>0 DEF TaskState
    <3>2. \A d \in RetryAfter : [task[t] EXCEPT !.pc = "pushing", !.sleep = d] \in TaskState
      BY <2>0 DEF TaskState
    <3> QED
      BY <2>7, <3>1, <3>2, QueueType, ZenonT(40) DEF Reject, PacingTypeOK
  <2>8. CASE PushBack(t)
    <3>1. task[t].sleep \in Nat
      BY <2>0 DEF TaskState
    <3>2. [task[t] EXCEPT !.pc = "backing", !.sleep = Larger(RetryBackoff, task[t].sleep)]
            \in TaskState
      BY <2>0, <3>1 DEF TaskState, Larger
    <3>3. Larger(until, task[t].sleep) \in Nat /\ Larger(owed, task[t].sleep) \in Nat
      BY <3>1 DEF Larger, PacingTypeOK
    <3>4. queue' \in Seq(Task)
      BY <2>8, QueueType DEF PushBack, First
    <3> QED
      BY <2>8, <3>2, <3>3, <3>4 DEF PushBack, PacingTypeOK
  <2>9. CASE Break(t)
    <3>1. [task[t] EXCEPT !.pc = "broken"] \in TaskState
      BY <2>0 DEF TaskState
    <3> QED
      BY <2>9, <3>1, TaskType DEF Break, PacingTypeOK
  <2>10. CASE CloseStart(t)
    <3>1. \A u \in Task : /\ task[u] \in TaskState
                          /\ [task[u] EXCEPT !.pc = "awaiting"] \in TaskState
                          /\ [task[u] EXCEPT !.pc = "closing", !.cl = "closed"] \in TaskState
                          /\ [task[u] EXCEPT !.cl = "closed"] \in TaskState
      BY ZenonT(40) DEF PacingTypeOK, TaskState
    <3>2. task' \in [Task -> TaskState]
      <4>1. CASE client = "none"
        BY <2>10, <4>1, TaskType DEF CloseStart, PacingTypeOK
      <4>2. CASE client = "closing"
        BY <2>10, <3>1, <4>2 DEF CloseStart, PacingTypeOK
      <4>3. CASE client \notin {"none", "closing"}
        BY <2>10, <3>1, <4>3 DEF CloseStart
      <4> QED
        BY <4>1, <4>2, <4>3
    <3> QED
      BY <2>10, <3>2 DEF CloseStart, PacingTypeOK
  <2>11. CASE CloseEnd(t)
    <3>1. \A u \in Task : AfterReset(task[u]) \in TaskState /\ task[u] \in TaskState
      BY TaskType DEF PacingTypeOK
    <3> QED
      BY <2>11, <3>1 DEF CloseEnd, PacingTypeOK
  <2>12. CASE Retry(t)
    <3>1. task[t].attempt + 1 \in 1 .. Retries
      BY <2>0, <2>12 DEF Retry, RetriesLeft, TaskState
    <3>2. \A p \in {"getting", "queued"} :
            [task[t] EXCEPT !.pc = p, !.attempt = @ + 1] \in TaskState
      BY <2>0, <3>1 DEF TaskState
    <3> QED
      BY <2>12, <3>2, QueueType, ZenonT(40) DEF Retry, PacingTypeOK
  <2>13. CASE Cancel(t)
    <3>1. \A u \in Task : task[u] \in TaskState
                          /\ [task[u] EXCEPT !.pc = "broken"] \in TaskState
      BY ZenonT(40) DEF PacingTypeOK, TaskState
    <3> QED
      BY <2>13, <3>1, TaskType, QueueType DEF Cancel, PacingTypeOK
  <2> QED
    BY <1>2, <2>1, <2>2, <2>3, <2>4, <2>5, <2>6, <2>7, <2>8, <2>9, <2>10, <2>11, <2>12,
       <2>13 DEF Step
<1>3. CASE UNCHANGED pacingVars
  BY <1>3 DEF pacingVars, PacingTypeOK
<1> QED
  BY <1>1, <1>2, <1>3 DEF PacingNext

----------------------------------------------------------------------------
(* What the steps with several outcomes do *)

\* Only the call itself moves.
Alone(t) == \A u \in Task : u # t => task'[u] = task[u]

LEMMA SendEffect ==
  ASSUME PacingTypeOK, NEW t \in Task, Send(t)
  PROVE  Alone(t) /\ task'[t].pc \in {"inflight", "done"}
<1>1. task \in [Task -> TaskState] /\ task[t] \in TaskState
  BY DEF PacingTypeOK
<1>2. Alone(t)
  BY <1>1 DEF Alone, Send
<1>3. CASE task[t].cl = "open"
  BY <1>1, <1>2, <1>3 DEF Send, TaskState
<1>4. CASE task[t].cl # "open"
  BY <1>1, <1>2, <1>4 DEF Send, CallEnded, TaskState
<1> QED
  BY <1>3, <1>4

LEMMA SleepEffect ==
  ASSUME PacingTypeOK, NEW t \in Task, Acquire(t), until # 0
  PROVE  /\ Alone(t)
         /\ task'[t].pc = "sleeping" /\ task'[t].sleep = until
         /\ holder = NoTask /\ holder' = t
         /\ UNCHANGED <<until, owed>>
<1>1. task \in [Task -> TaskState] /\ task[t] \in TaskState
  BY DEF PacingTypeOK
<1>2. task' = [task EXCEPT ![t].pc = "sleeping", ![t].sleep = until]
  BY DEF Acquire
<1>3. Alone(t)
  BY <1>1, <1>2 DEF Alone
<1>4. task'[t].pc = "sleeping" /\ task'[t].sleep = until
  BY <1>1, <1>2 DEF TaskState
<1> QED
  BY <1>3, <1>4 DEF Acquire, First

LEMMA RejectEffect ==
  ASSUME PacingTypeOK, NEW t \in Task, Reject(t)
  PROVE  /\ Alone(t)
         /\ task[t].pc = "inflight" /\ task'[t].pc \in {"pushing", "backing"}
         /\ task'[t].attempt < Retries
         /\ UNCHANGED <<until, holder, owed>>
<1>1. task \in [Task -> TaskState] /\ task[t] \in TaskState
  BY DEF PacingTypeOK
<1>2. CASE task' = [task EXCEPT ![t].pc = "backing", ![t].sleep = RetryBackoff]
  BY <1>1, <1>2 DEF Alone, Reject, TaskState
<1>3. ASSUME NEW d \in RetryAfter,
             task' = [task EXCEPT ![t].pc = "pushing", ![t].sleep = d]
      PROVE  /\ Alone(t)
             /\ task[t].pc = "inflight" /\ task'[t].pc \in {"pushing", "backing"}
             /\ task'[t].attempt < Retries
  BY <1>1, <1>3 DEF Alone, Reject, TaskState
<1>4. UNCHANGED <<until, holder, owed>>
  BY DEF Reject
<1> QED
  BY <1>2, <1>3, <1>4 DEF Reject

LEMMA RetryEffect ==
  ASSUME PacingTypeOK, NEW t \in Task, Retry(t)
  PROVE  /\ Alone(t)
         /\ task[t].pc = "backing" /\ task'[t].pc \in {"getting", "queued"}
         /\ UNCHANGED <<until, holder, owed>>
<1>1. task \in [Task -> TaskState] /\ task[t] \in TaskState
  BY DEF PacingTypeOK
<1>2. CASE Resets
  BY <1>1, <1>2 DEF Alone, Retry, TaskState
<1>3. CASE ~Resets
  BY <1>1, <1>3 DEF Alone, Retry, TaskState
<1> QED
  BY <1>2, <1>3

LEMMA CloseStartEffect ==
  ASSUME PacingTypeOK, NEW t \in Task, CloseStart(t)
  PROVE  /\ \A u \in Task : u # t => /\ task'[u].pc = task[u].pc
                                     /\ task'[u].sleep = task[u].sleep
                                     /\ task'[u].attempt = task[u].attempt
         /\ task[t].pc = "broken"
         /\ \/ task'[t].pc \in {"closing", "awaiting", "done"}
            \/ task'[t].pc = "backing" /\ task'[t].attempt < Retries
         /\ UNCHANGED <<until, holder, owed>>
<1>1. task \in [Task -> TaskState] /\ \A u \in Task : task[u] \in TaskState
  BY DEF PacingTypeOK
<1>2. CASE task' = [task EXCEPT ![t] = AfterReset(task[t])]
  BY <1>1, <1>2, TaskType DEF CloseStart
<1>3. CASE task' = [task EXCEPT ![t].pc = "awaiting"]
  BY <1>1, <1>3 DEF CloseStart, TaskState
<1>4. CASE task' = [u \in Task |->
                      IF u = t THEN [task[u] EXCEPT !.pc = "closing", !.cl = "closed"]
                      ELSE IF task[u].cl = "open" THEN [task[u] EXCEPT !.cl = "closed"]
                      ELSE task[u]]
  BY <1>1, <1>4 DEF CloseStart, TaskState
<1> QED
  BY <1>2, <1>3, <1>4 DEF CloseStart

LEMMA CloseEndEffect ==
  ASSUME PacingTypeOK, NEW t \in Task, CloseEnd(t)
  PROVE  /\ \A u \in Task :
              \/ task'[u] = task[u] /\ u # t
              \/ /\ task[u].pc \in {"closing", "awaiting"}
                 /\ \/ task'[u].pc = "done"
                    \/ task'[u].pc = "backing" /\ task'[u].attempt < Retries
         /\ until' = 0 /\ owed' = 0 /\ UNCHANGED holder
BY TaskType DEF CloseEnd

----------------------------------------------------------------------------
(* The invariant *)

LEMMA InvInit == PacingInit => PacingInductive
BY DEF PacingInit, PacingInductive, PacingTypeOK, TaskState, RetriesLeft, LockHeldBySleeper, Covered

LEMMA RetriesStep == PacingTypeOK /\ RetriesLeft /\ [PacingNext]_pacingVars => RetriesLeft'
<1> SUFFICES ASSUME PacingTypeOK, RetriesLeft, [PacingNext]_pacingVars PROVE RetriesLeft'
  OBVIOUS
<1>0. \A t \in Task : task[t] \in TaskState
  BY DEF PacingTypeOK
<1>1. CASE PacingTick
  BY <1>0, <1>1 DEF PacingTick, RetriesLeft, PacingTypeOK, TaskState
<1>2. ASSUME NEW t \in Task, StartCall(t) \/ Step(t) \/ Cancel(t)
      PROVE  RetriesLeft'
  <2>1. CASE StartCall(t) \/ GetClient(t) \/ Succeed(t) \/ Refuse(t) \/ Reject(t) \/ PushBack(t)
             \/ Break(t) \/ Retry(t)
    <3>1. CASE StartCall(t)
      BY <1>0, <3>1 DEF StartCall, RetriesLeft, PacingTypeOK, TaskState
    <3>2. CASE GetClient(t)
      BY <1>0, <3>2 DEF GetClient, InLine, RetriesLeft, PacingTypeOK, TaskState
    <3>3. CASE Succeed(t)
      BY <1>0, <3>3 DEF Succeed, CallEnded, RetriesLeft, PacingTypeOK, TaskState
    <3>4. CASE Refuse(t)
      BY <1>0, <3>4 DEF Refuse, CallEnded, RetriesLeft, PacingTypeOK, TaskState
    <3>5. CASE Reject(t)
      BY <3>5, RejectEffect DEF Alone, RetriesLeft
    <3>6. CASE PushBack(t)
      BY <1>0, <3>6 DEF PushBack, RetriesLeft, PacingTypeOK, TaskState
    <3>7. CASE Break(t)
      BY <1>0, <3>7 DEF Break, CallEnded, RetriesLeft, PacingTypeOK, TaskState
    <3>8. CASE Retry(t)
      BY <3>8, RetryEffect DEF Alone, RetriesLeft
    <3> QED
      BY <2>1, <3>1, <3>2, <3>3, <3>4, <3>5, <3>6, <3>7, <3>8
  <2>2. CASE Acquire(t) \/ Wake(t)
    <3>1. CASE Send(t)
      BY <3>1, SendEffect DEF Alone, RetriesLeft
    <3>2. CASE Acquire(t) /\ until # 0
      BY <3>2, SleepEffect DEF Alone, RetriesLeft
    <3> QED
      BY <2>2, <3>1, <3>2 DEF Acquire, Wake
  <2>3. CASE CloseStart(t)
    BY <2>3, CloseStartEffect DEF RetriesLeft
  <2>4. CASE CloseEnd(t)
    BY <2>4, CloseEndEffect DEF RetriesLeft
  <2>5. CASE Cancel(t)
    BY <1>0, <2>5 DEF Cancel, CallEnded, RetriesLeft, PacingTypeOK, TaskState
  <2> QED
    BY <1>2, <2>1, <2>2, <2>3, <2>4, <2>5 DEF Step
<1>3. CASE UNCHANGED pacingVars
  BY <1>3 DEF pacingVars, RetriesLeft
<1> QED
  BY <1>1, <1>2, <1>3 DEF PacingNext

LEMMA LockStep == PacingTypeOK /\ LockHeldBySleeper /\ [PacingNext]_pacingVars => LockHeldBySleeper'
<1> SUFFICES ASSUME PacingTypeOK, LockHeldBySleeper, [PacingNext]_pacingVars PROVE LockHeldBySleeper'
  OBVIOUS
<1>0. \A t \in Task : task[t] \in TaskState
  BY DEF PacingTypeOK
<1>1. CASE PacingTick
  BY <1>0, <1>1 DEF PacingTick, LockHeldBySleeper, PacingTypeOK, TaskState
<1>2. ASSUME NEW t \in Task, StartCall(t) \/ Step(t) \/ Cancel(t)
      PROVE  LockHeldBySleeper'
  <2>1. CASE StartCall(t) \/ GetClient(t) \/ Succeed(t) \/ Refuse(t) \/ Reject(t) \/ PushBack(t)
             \/ Break(t) \/ Retry(t)
    <3>1. CASE StartCall(t)
      BY <1>0, <3>1 DEF StartCall, LockHeldBySleeper, PacingTypeOK, TaskState
    <3>2. CASE GetClient(t)
      BY <1>0, <3>2 DEF GetClient, InLine, LockHeldBySleeper, PacingTypeOK, TaskState
    <3>3. CASE Succeed(t)
      BY <1>0, <3>3 DEF Succeed, CallEnded, LockHeldBySleeper, PacingTypeOK, TaskState
    <3>4. CASE Refuse(t)
      BY <1>0, <3>4 DEF Refuse, CallEnded, LockHeldBySleeper, PacingTypeOK, TaskState
    <3>5. CASE Reject(t)
      BY <3>5, RejectEffect DEF Alone, LockHeldBySleeper
    <3>6. CASE PushBack(t)
      BY <1>0, <3>6 DEF PushBack, LockHeldBySleeper, PacingTypeOK, TaskState
    <3>7. CASE Break(t)
      BY <1>0, <3>7 DEF Break, CallEnded, LockHeldBySleeper, PacingTypeOK, TaskState
    <3>8. CASE Retry(t)
      BY <3>8, RetryEffect DEF Alone, LockHeldBySleeper
    <3> QED
      BY <2>1, <3>1, <3>2, <3>3, <3>4, <3>5, <3>6, <3>7, <3>8
  <2>2. CASE Acquire(t) \/ Wake(t)
    <3>1. CASE Send(t)
      <4>1. holder \in {t, NoTask}
        BY <2>2 DEF Acquire, Wake, First, LockHeldBySleeper
      <4> QED
        BY <3>1, <4>1, SendEffect DEF Alone, Send, LockHeldBySleeper
    <3>2. CASE Acquire(t) /\ until # 0
      BY <3>2, SleepEffect DEF Alone, LockHeldBySleeper
    <3> QED
      BY <2>2, <3>1, <3>2 DEF Acquire, Wake
  <2>3. CASE CloseStart(t) \/ CloseEnd(t)
    <3>1. CASE CloseStart(t)
      BY <3>1, CloseStartEffect DEF LockHeldBySleeper
    <3>2. CASE CloseEnd(t)
      BY <3>2, CloseEndEffect DEF LockHeldBySleeper
    <3> QED
      BY <2>3, <3>1, <3>2
  <2>4. CASE Cancel(t)
    BY <1>0, <2>4 DEF Cancel, CallEnded, LockHeldBySleeper, PacingTypeOK, TaskState
  <2> QED
    BY <1>2, <2>1, <2>2, <2>3, <2>4 DEF Step
<1>3. CASE UNCHANGED pacingVars
  BY <1>3 DEF pacingVars, LockHeldBySleeper
<1> QED
  BY <1>1, <1>2, <1>3 DEF PacingNext

LEMMA CoveredStep == PacingInductive /\ [PacingNext]_pacingVars => Covered'
<1> SUFFICES ASSUME PacingInductive, [PacingNext]_pacingVars PROVE Covered'
  OBVIOUS
<1>0. /\ \A t \in Task : task[t] \in TaskState
      /\ until \in Nat /\ owed \in Nat
  BY DEF PacingInductive, PacingTypeOK
<1>1. CASE PacingTick
  <2>1. \A a, b \in Nat : a <= b => Less(a) <= Less(b)
    BY DEF Less
  <2>2. \A t \in Task : task[t].sleep \in Nat
    BY <1>0 DEF TaskState
  <2> QED
    BY <1>0, <1>1, <2>1, <2>2 DEF PacingTick, PacingInductive, Covered, PacingTypeOK, TaskState
<1>2. ASSUME NEW t \in Task, StartCall(t) \/ Step(t) \/ Cancel(t)
      PROVE  Covered'
  <2>1. CASE StartCall(t) \/ GetClient(t) \/ Succeed(t) \/ Refuse(t) \/ Reject(t)
             \/ Break(t) \/ Retry(t)
    <3>1. CASE StartCall(t)
      BY <1>0, <3>1 DEF StartCall, PacingInductive, Covered, PacingTypeOK, TaskState
    <3>2. CASE GetClient(t)
      BY <1>0, <3>2 DEF GetClient, InLine, PacingInductive, Covered, PacingTypeOK, TaskState
    <3>3. CASE Succeed(t)
      BY <1>0, <3>3 DEF Succeed, CallEnded, PacingInductive, Covered, PacingTypeOK, TaskState
    <3>4. CASE Refuse(t)
      BY <1>0, <3>4 DEF Refuse, CallEnded, PacingInductive, Covered, PacingTypeOK, TaskState
    <3>5. CASE Reject(t)
      BY <1>0, <3>5, RejectEffect DEF Alone, PacingInductive, Covered
    <3>6. CASE Break(t)
      BY <1>0, <3>6 DEF Break, CallEnded, PacingInductive, Covered, PacingTypeOK, TaskState
    <3>7. CASE Retry(t)
      BY <1>0, <3>7, RetryEffect DEF Alone, PacingInductive, Covered
    <3> QED
      BY <2>1, <3>1, <3>2, <3>3, <3>4, <3>5, <3>6, <3>7
  \* Nobody else sleeps when a call sends or pushes back.
  <2>2. ASSUME Send(t), holder \in {t, NoTask}
        PROVE  Covered'
    <3>1. \A u \in Task : u # t => task[u].pc # "sleeping"
      BY <2>2 DEF PacingInductive, LockHeldBySleeper
    <3>2. task'[t].pc # "sleeping" /\ \A u \in Task : u # t => task'[u] = task[u]
      BY <2>2, SendEffect DEF Alone, PacingInductive
    <3>3. owed' <= until'
      BY <1>0, <2>2 DEF Send, Larger, PacingInductive, Covered
    <3> QED
      BY <3>1, <3>2, <3>3 DEF Covered
  <2>3. CASE Acquire(t)
    <3>1. CASE until = 0
      BY <2>2, <2>3, <3>1 DEF Acquire, First
    <3>2. CASE until # 0
      BY <1>0, <2>3, <3>2, SleepEffect DEF Alone, PacingInductive, Covered
    <3> QED
      BY <3>1, <3>2
  <2>4. CASE Wake(t)
    BY <2>2, <2>4 DEF Wake, PacingInductive, LockHeldBySleeper
  <2>5. CASE PushBack(t)
    <3>1. \A u \in Task : task'[u].pc # "sleeping"
      BY <1>0, <2>5 DEF PushBack, First, PacingInductive, LockHeldBySleeper, PacingTypeOK, TaskState
    <3>2. owed' <= until'
      <4>1. task[t].sleep \in Nat
        BY <1>0 DEF TaskState
      <4> QED
        BY <1>0, <2>5, <4>1 DEF PushBack, Larger, PacingInductive, Covered
    <3> QED
      BY <3>1, <3>2 DEF Covered
  <2>6. CASE CloseStart(t) \/ CloseEnd(t)
    <3>1. CASE CloseStart(t)
      <4>1. task'[t].pc # "sleeping" /\ UNCHANGED <<until, owed>>
        BY <3>1, CloseStartEffect DEF PacingInductive
      <4>2. \A u \in Task : u # t => task'[u].pc = task[u].pc /\ task'[u].sleep = task[u].sleep
        BY <3>1, CloseStartEffect DEF PacingInductive
      <4> QED
        BY <4>1, <4>2 DEF PacingInductive, Covered
    <3>2. CASE CloseEnd(t)
      <4>1. until' = 0 /\ owed' = 0
        BY <3>2, CloseEndEffect DEF PacingInductive
      <4>2. \A u \in Task : task'[u].pc = "sleeping" => task'[u] = task[u]
        BY <3>2, CloseEndEffect DEF PacingInductive
      <4>3. \A u \in Task : task[u].sleep \in Nat
        BY <1>0 DEF TaskState
      <4> QED
        BY <4>1, <4>2, <4>3 DEF Covered
    <3> QED
      BY <2>6, <3>1, <3>2
  <2>7. CASE Cancel(t)
    BY <1>0, <2>7 DEF Cancel, CallEnded, PacingInductive, Covered, PacingTypeOK, TaskState
  <2> QED
    BY <1>2, <2>1, <2>3, <2>4, <2>5, <2>6, <2>7 DEF Step
<1>3. CASE UNCHANGED pacingVars
  BY <1>3 DEF pacingVars, PacingInductive, Covered
<1> QED
  BY <1>1, <1>2, <1>3 DEF PacingNext

LEMMA Invariance == PacingSpec => []PacingInductive
<1>1. PacingInductive /\ [PacingNext]_pacingVars => PacingInductive'
  BY PacingTypeStep, RetriesStep, LockStep, CoveredStep DEF PacingInductive
<1> QED
  BY InvInit, <1>1, PTL DEF PacingSpec

\* Every variable keeps its type; above all, no call makes more attempts than
\* DOWNLOAD_RETRIES.
THEOREM PacingTypeCorrect == PacingSpec => []PacingTypeOK
<1>1. PacingInductive => PacingTypeOK
  BY DEF PacingInductive
<1> QED
  BY Invariance, <1>1, PTL

----------------------------------------------------------------------------
(* Pacing *)

LEMMA PacedStep ==
  PacingInductive /\ [PacingNext]_pacingVars =>
    [\A t \in Task : task[t].pc # "inflight" /\ task'[t].pc = "inflight" => owed = 0]_pacingVars
<1> SUFFICES ASSUME PacingInductive, PacingNext, NEW t \in Task,
                    task[t].pc # "inflight", task'[t].pc = "inflight"
             PROVE  owed = 0
  OBVIOUS
<1>0. /\ \A u \in Task : task[u] \in TaskState
      /\ until \in Nat /\ owed \in Nat
  BY DEF PacingInductive, PacingTypeOK
<1>1. CASE PacingTick
  BY <1>0, <1>1 DEF PacingTick, PacingInductive, PacingTypeOK, TaskState
<1>2. ASSUME NEW u \in Task, StartCall(u) \/ Step(u) \/ Cancel(u)
      PROVE  owed = 0
  <2>1. CASE StartCall(u) \/ GetClient(u) \/ Succeed(u) \/ Refuse(u) \/ Reject(u) \/ PushBack(u)
             \/ Break(u) \/ Retry(u)
    <3>1. CASE StartCall(u)
      BY <1>0, <3>1 DEF StartCall, PacingInductive, PacingTypeOK, TaskState
    <3>2. CASE GetClient(u)
      BY <1>0, <3>2 DEF GetClient, InLine, PacingInductive, PacingTypeOK, TaskState
    <3>3. CASE Succeed(u)
      BY <1>0, <3>3 DEF Succeed, CallEnded, PacingInductive, PacingTypeOK, TaskState
    <3>4. CASE Refuse(u)
      BY <1>0, <3>4 DEF Refuse, CallEnded, PacingInductive, PacingTypeOK, TaskState
    <3>5. CASE Reject(u)
      BY <3>5, RejectEffect DEF Alone, PacingInductive
    <3>6. CASE PushBack(u)
      BY <1>0, <3>6 DEF PushBack, PacingInductive, PacingTypeOK, TaskState
    <3>7. CASE Break(u)
      BY <1>0, <3>7 DEF Break, CallEnded, PacingInductive, PacingTypeOK, TaskState
    <3>8. CASE Retry(u)
      BY <3>8, RetryEffect DEF Alone, PacingInductive
    <3> QED
      BY <2>1, <3>1, <3>2, <3>3, <3>4, <3>5, <3>6, <3>7, <3>8
  \* A call that sends at once finds nothing owed ...
  <2>2. CASE Acquire(u)
    <3>1. until = 0
      BY <2>2, SleepEffect DEF Alone, PacingInductive
    <3> QED
      BY <1>0, <3>1 DEF PacingInductive, Covered
  \* ... and a sleeper has slept it off.
  <2>3. CASE Wake(u)
    <3>1. until <= 0
      BY <1>0, <2>3 DEF Wake, PacingInductive, Covered
    <3> QED
      BY <1>0, <3>1 DEF PacingInductive, Covered
  <2>4. CASE CloseStart(u) \/ CloseEnd(u)
    <3>1. CASE CloseStart(u)
      BY <3>1, CloseStartEffect DEF PacingInductive
    <3>2. CASE CloseEnd(u)
      BY <3>2, CloseEndEffect DEF PacingInductive
    <3> QED
      BY <2>4, <3>1, <3>2
  <2>5. CASE Cancel(u)
    BY <1>0, <2>5 DEF Cancel, CallEnded, PacingInductive, PacingTypeOK, TaskState
  <2> QED
    BY <1>2, <2>1, <2>2, <2>3, <2>4, <2>5 DEF Step
<1> QED
  BY <1>1, <1>2 DEF PacingNext

\* No request is sent before the interval of the last one and every pushed-back
\* Retry-After have passed, whatever the calls' number, weights and headers.
THEOREM PacedHolds == PacingSpec => Paced
<1>1. PacingSpec => []PacingInductive /\ [][PacingNext]_pacingVars
  BY Invariance, PTL DEF PacingSpec
<1> QED
  BY <1>1, PacedStep, PTL DEF Paced

----------------------------------------------------------------------------
(* The cache *)

USE KeyAssumption, NumberAssumption, StaleAssumption, HistoryAssumption,
    RefitAssumption, NoRowAssumption

----------------------------------------------------------------------------
(* Operators *)

\* The next boundary is a natural number, and lies ahead.
LEMMA BoundaryNat == ASSUME NEW t \in Time PROVE Boundary(t) \in Nat
BY CloseAssumption DEF Boundary

LEMMA BoundaryAhead == ASSUME NEW t \in Time PROVE t < Boundary(t)
BY CloseAssumption DEF Boundary, Time

\* A provider answer is a snapshot of now that fits.
LEMMA AnswerType ==
  ASSUME TypeOK, NEW k \in Key, NEW limit \in 1 .. Deep, NEW answer \in Answers(k, limit)
  PROVE  /\ answer \in Snapshot
         /\ answer # NoRow
         /\ answer.asof = now
         /\ answer.next = Boundary(now)
         /\ answer.fits = 2
<1>1. now \in Time /\ now \in Nat /\ Boundary(now) \in Nat
  BY BoundaryNat DEF TypeOK, Time
<1>2. Least(limit, History[k]) \in 1 .. Deep
  BY DEF Least
<1>3. PICK wait \in Settling[k] :
        answer = [asof |-> now, depth |-> Least(limit, History[k]), next |-> Boundary(now),
                  settles |-> now + wait, fits |-> 2]
  BY DEF Answers
<1>4. now + wait \in Nat
  BY <1>1, SettlingAssumption
<1>5. answer \in Snapshot
  BY <1>1, <1>2, <1>3, <1>4 DEF Snapshot, Fit
<1> QED
  BY <1>3, <1>5

\* What the store's operations leave in the tables.
LEMMA RegisteredType ==
  ASSUME TypeOK, NEW keys \in SUBSET Key, NEW next \in [Key -> Nat]
  PROVE  /\ Registered(keys, next) \in [Key -> Interest \cup {NoRow}]
         /\ \A k \in Key : interest[k] # NoRow => Registered(keys, next)[k] # NoRow
<1>1. ASSUME NEW k \in Key, k \in keys
      PROVE  Registered(keys, next)[k] \in Interest
  <2>1. next[k] \in Nat /\ now \in Time
    BY DEF TypeOK
  <2>2. interest[k] # NoRow => interest[k].next \in Nat
    BY DEF TypeOK, Interest
  <2>3. (IF interest[k] = NoRow THEN next[k] ELSE Least(interest[k].next, next[k])) \in Nat
    BY <2>1, <2>2 DEF Least
  <2> QED
    BY <1>1, <2>1, <2>3 DEF Registered, Interest
<1>2. \A k \in Key : k \notin keys => Registered(keys, next)[k] = interest[k]
  BY DEF Registered
<1> QED
  BY <1>1, <1>2 DEF Registered, TypeOK

LEMMA RescheduledType ==
  ASSUME TypeOK, NEW keys \in SUBSET Key, NEW next \in [Key -> Nat]
  PROVE  /\ Rescheduled(keys, next) \in [Key -> Interest \cup {NoRow}]
         /\ \A k \in Key : interest[k] # NoRow => Rescheduled(keys, next)[k] # NoRow
BY DEF Rescheduled, Interest, TypeOK

LEMMA StoredType ==
  ASSUME TypeOK, NEW items \in [Key -> Snapshot \cup {NoRow}], StoreSnapshots(items)
  PROVE  /\ cache' \in [Key -> Row \cup {NoRow}]
         /\ interest' \in [Key -> Interest \cup {NoRow}]
         /\ \A k \in Key : /\ interest[k] # NoRow => interest'[k] # NoRow
                           /\ items[k] # NoRow => /\ interest'[k] # NoRow
                                                  /\ cache'[k] # NoRow
                                                  /\ cache'[k].snap = items[k]
                           /\ items[k] = NoRow => cache'[k] = cache[k]
<1>1. now \in Time
  BY DEF TypeOK
<1>2. ASSUME NEW k \in Key, items[k] # NoRow
      PROVE  /\ StoredCache(items)[k] \in Row
             /\ StoredInterest(items)[k] \in Interest
             /\ StoredCache(items)[k].snap = items[k]
  <2>1. items[k] \in Snapshot /\ items[k].next \in Nat
    BY <1>2 DEF Snapshot
  <2>2. interest[k] # NoRow => interest[k].requested \in Time
    BY DEF TypeOK, Interest
  <2> QED
    BY <1>1, <1>2, <2>1, <2>2 DEF StoredCache, StoredInterest, Row, Interest
<1>3. \A k \in Key : items[k] = NoRow =>
        StoredCache(items)[k] = cache[k] /\ StoredInterest(items)[k] = interest[k]
  BY DEF StoredCache, StoredInterest
<1>4. cache' = StoredCache(items) /\ interest' = StoredInterest(items)
  BY DEF StoreSnapshots
<1>5. StoredCache(items) \in [Key -> Row \cup {NoRow}]
  BY <1>2, <1>3 DEF StoredCache, TypeOK
<1>6. StoredInterest(items) \in [Key -> Interest \cup {NoRow}]
  BY <1>2, <1>3 DEF StoredInterest, TypeOK
<1>7. \A k \in Key : StoredInterest(items)[k] = NoRow => items[k] = NoRow /\ interest[k] = NoRow
  BY <1>2, <1>3
<1> QED
  BY <1>2, <1>3, <1>4, <1>5, <1>6, <1>7

LEMMA OnlyType ==
  ASSUME NEW k \in Key, NEW snap \in Snapshot \cup {NoRow}
  PROVE  Only(k, snap) \in [Key -> Snapshot \cup {NoRow}]
BY DEF Only

----------------------------------------------------------------------------
(* Type correctness *)

LEMMA ScanTypeStep ==
  ASSUME TypeOK, NEW s \in Scan,
         \/ StartScan(s) \/ Quote(s) \/ Peek(s) \/ Lookup(s) \/ Register(s) \/ FetchOk(s)
         \/ Store(s) \/ FetchFail(s) \/ Restale(s) \/ BackOffScan(s) \/ CancelScan(s)
  PROVE  TypeOK'
<1> DEFINE r == scan[s]
<1>0. /\ r \in ScanState
      /\ r.key \in Key /\ r.limit \in 1 .. Deep /\ r.t0 \in Nat /\ r.t0 \in Time
      /\ now \in Time /\ 1 \in 1 .. Deep
      /\ r.seen \in Row \cup {NoRow} /\ r.got \in Snapshot \cup {NoRow}
  BY DEF TypeOK, ScanState, Time
<1>1. cache[r.key] # NoRow => cache[r.key].snap \in Snapshot
  BY <1>0 DEF TypeOK, Row
<1>2. r.seen # NoRow => r.seen.snap \in Snapshot
  BY <1>0 DEF Row
<1>3. Ended(s, "done") \in ScanState /\ Ended(s, "cancelled") \in ScanState
  <2>1. 0 \in Time
    BY DEF Time
  <2>2. ASSUME NEW pc \in {"done", "cancelled"}
        PROVE  [r EXCEPT !.pc = pc, !.t0 = 0, !.seen = NoRow, !.got = NoRow] \in ScanState
    <3> HIDE DEF r
    <3> QED
      BY <1>0, <2>1 DEF ScanState
  <2> QED
    BY <2>2 DEF Ended
<1>4. /\ \A d \in 1 .. Deep : Answers(r.key, d) \subseteq Snapshot
      /\ Boundary(r.t0) \in Nat /\ r.t0 + Backoff \in Nat
  BY <1>0, AnswerType, BoundaryNat
<1>5. CASE StartScan(s) \/ Quote(s) \/ Peek(s) \/ Lookup(s) \/ FetchOk(s) \/ CancelScan(s)
  <2>1. UNCHANGED <<now, cache, interest, worker>>
    BY <1>5 DEF StartScan, Quote, Peek, Lookup, FetchOk, CancelScan
  <2>2. scan' \in [Scan -> ScanState]
    <3>1. CASE StartScan(s)
      <4>1. \A pc \in {"lookup", "quoting"} : [r EXCEPT !.pc = pc, !.t0 = now] \in ScanState
        <5> HIDE DEF r
        <5> QED
          BY <1>0 DEF ScanState
      <4>2. \E pc \in {"lookup", "quoting"} :
              scan' = [scan EXCEPT ![s] = [r EXCEPT !.pc = pc, !.t0 = now]]
        BY <3>1, Zenon DEF StartScan
      <4>3. \A x \in ScanState : [scan EXCEPT ![s] = x] \in [Scan -> ScanState]
        BY DEF TypeOK
      <4> HIDE DEF r
      <4> QED
        BY <4>1, <4>2, <4>3
    <3>2. CASE Quote(s)
      <4>1. \A answer \in Answers(r.key, 1) :
              [r EXCEPT !.pc = "done", !.got = answer, !.source = "live_provider"] \in ScanState
        <5>1. \A answer \in Answers(r.key, 1) : answer \in Snapshot
          BY <1>0, <1>4
        <5> HIDE DEF r
        <5> QED
          BY <1>0, <5>1 DEF ScanState, Sources
      <4>2. \A pc \in {"refetching", "peeking", "lookup"} : [r EXCEPT !.pc = pc] \in ScanState
        <5> HIDE DEF r
        <5> QED
          BY <1>0 DEF ScanState
      <4>3. \/ scan' = [scan EXCEPT ![s] = Ended(s, "done")]
            \/ \E answer \in Answers(r.key, 1) :
                 scan' = [scan EXCEPT ![s] =
                   [r EXCEPT !.pc = "done", !.got = answer, !.source = "live_provider"]]
            \/ \E pc \in {"refetching", "peeking", "lookup"} :
                 scan' = [scan EXCEPT ![s] = [r EXCEPT !.pc = pc]]
        BY <3>2, ZenonT(40) DEF Quote, Unquoted
      <4>4. \A x \in ScanState : [scan EXCEPT ![s] = x] \in [Scan -> ScanState]
        BY DEF TypeOK
      <4> HIDE DEF r
      <4>5. \E x \in ScanState : scan' = [scan EXCEPT ![s] = x]
        BY <1>3, <4>1, <4>2, <4>3
      <4> QED
        BY <4>4, <4>5
    <3>3. CASE Peek(s)
      BY <1>0, <1>1, <1>3, <3>3, SMTT(30) DEF Peek, Unquoted, Hit, TypeOK, ScanState, Sources
    <3>4. CASE Lookup(s)
      BY <1>0, <1>1, <3>4 DEF Lookup, Hit, TypeOK, ScanState, Sources
    <3>5. CASE FetchOk(s)
      <4>1. \A answer \in Answers(r.key, r.limit) :
              [r EXCEPT !.pc = "storing", !.seen = NoRow, !.got = answer] \in ScanState
        <5>1. \A answer \in Answers(r.key, r.limit) : answer \in Snapshot
          BY <1>0, <1>4
        <5> HIDE DEF r
        <5> QED
          BY <1>0, <5>1 DEF ScanState
      <4>2. \E answer \in Answers(r.key, r.limit) :
              scan' = [scan EXCEPT ![s] =
                [r EXCEPT !.pc = "storing", !.seen = NoRow, !.got = answer]]
        <5> DEFINE next(answer) ==
              [scan EXCEPT ![s].pc = "storing", ![s].seen = NoRow, ![s].got = answer]
        <5>1. \E answer \in Answers(scan[s].key, scan[s].limit) : scan' = next(answer)
          BY <3>5 DEF FetchOk
        <5>2. \A answer : next(answer) =
                [scan EXCEPT ![s] = [r EXCEPT !.pc = "storing", !.seen = NoRow, !.got = answer]]
          BY DEF TypeOK
        <5> QED
          BY <5>1, <5>2, Zenon
      <4>3. \A x \in ScanState : [scan EXCEPT ![s] = x] \in [Scan -> ScanState]
        BY DEF TypeOK
      <4> HIDE DEF r
      <4> QED
        BY <4>1, <4>2, <4>3
    <3>6. CASE CancelScan(s)
      BY <1>3, <3>6 DEF CancelScan, TypeOK
    <3> QED
      BY <1>5, <3>1, <3>2, <3>3, <3>4, <3>5, <3>6
  <2> QED
    BY <2>1, <2>2 DEF TypeOK
<1>6. CASE Register(s)
  <2> DEFINE next == [k \in Key |-> IF r.got # NoRow THEN Boundary(r.t0) ELSE r.t0]
  <2>1. next \in [Key -> Nat]
    BY <1>0, <1>4
  <2>2. interest' = Registered({r.key}, next)
    BY <1>6 DEF Register
  <2>3. interest' \in [Key -> Interest \cup {NoRow}]
    <3> HIDE DEF next
    <3> QED
      BY <1>0, <2>1, <2>2, RegisteredType
  <2>4. scan' \in [Scan -> ScanState]
    BY <1>0, <1>6 DEF Register, TypeOK, ScanState, Sources
  <2> QED
    BY <1>6, <2>3, <2>4 DEF Register, TypeOK
<1>7. CASE Store(s) \/ Restale(s)
  <2>1. StoreSnapshots(Only(r.key, r.got))
    BY <1>7 DEF Store, Restale
  <2>2. /\ cache' \in [Key -> Row \cup {NoRow}]
        /\ interest' \in [Key -> Interest \cup {NoRow}]
    BY <1>0, <2>1, OnlyType, StoredType
  <2>3. scan' \in [Scan -> ScanState]
    BY <1>0, <1>7 DEF Store, Restale, TypeOK, ScanState, Sources
  <2> QED
    BY <1>7, <2>2, <2>3 DEF Store, Restale, TypeOK
<1>8. CASE FetchFail(s)
  <2>1. ASSUME StaleUsable(r.seen, r.limit, r.t0)
        PROVE  [r.seen.snap EXCEPT !.depth = r.limit, !.next = r.t0 + Backoff] \in Snapshot
    BY <1>0, <1>2, <1>4, <2>1 DEF StaleUsable, Snapshot
  <2>2. scan' \in [Scan -> ScanState]
    BY <1>0, <1>3, <1>8, <2>1 DEF FetchFail, TypeOK, ScanState
  <2> QED
    BY <1>8, <2>2 DEF FetchFail, TypeOK
<1>9. CASE BackOffScan(s)
  <2>1. [k \in Key |-> r.t0 + Backoff] \in [Key -> Nat]
    BY <1>4
  <2>2. interest' \in [Key -> Interest \cup {NoRow}]
    BY <1>0, <1>9, <2>1, RescheduledType DEF BackOffScan
  <2>3. scan' \in [Scan -> ScanState]
    BY <1>3, <1>9 DEF BackOffScan, TypeOK
  <2> QED
    BY <1>9, <2>2, <2>3 DEF BackOffScan, TypeOK
<1> QED
  BY <1>5, <1>6, <1>7, <1>8, <1>9

LEMMA IdleWorkerType == IdleWorker \in WorkerState
<1>1. 0 \in Time /\ 0 \in Nat
  BY DEF Time
<1> QED
  BY <1>1 DEF IdleWorker, WorkerState

LEMMA WorkerTypeStep ==
  ASSUME TypeOK, NEW w \in Worker,
         \/ BeginCycle(w) \/ Seed(w) \/ PickDue(w) \/ SkipUnmanaged(w) \/ Check(w)
         \/ Reschedule(w) \/ (\E k \in Key : FetchOne(w, k)) \/ StoreItems(w)
         \/ BackOffWorker(w) \/ Prune(w) \/ AbortCycle(w)
  PROVE  TypeOK'
<1> DEFINE r == worker[w]
<1>0. /\ r \in WorkerState
      /\ r.keys \in SUBSET Key /\ r.failed \in SUBSET Key
      /\ r.plan \in [Key -> Nat] /\ r.items \in [Key -> Snapshot \cup {NoRow}]
      /\ r.t0 \in Nat /\ now \in Time /\ now \in Nat
      /\ IdleWorker \in WorkerState
  BY IdleWorkerType DEF TypeOK, WorkerState, Time
<1>1. \A k \in Key : cache[k] # NoRow => cache[k].snap.next \in Nat
  BY DEF TypeOK, Row, Snapshot
<1>2. IdleWorker.plan \in [Key -> Nat] /\ IdleWorker.items \in [Key -> Snapshot \cup {NoRow}]
  BY <1>0 DEF IdleWorker
<1>3. CASE BeginCycle(w)
  <2> DEFINE plan == [k \in Key |-> IF WorkerMisses(cache[k], now) THEN now
                                    ELSE cache[k].snap.next]
  <2>1. plan \in [Key -> Nat]
    BY <1>0, <1>1 DEF WorkerMisses
  <2>2. worker' \in [Worker -> WorkerState]
    <3>1. \/ worker' = [worker EXCEPT ![w] = [r EXCEPT !.pc = "seeding", !.plan = plan]]
          \/ worker' = [worker EXCEPT ![w] = [r EXCEPT !.pc = "picking"]]
      BY <1>3 DEF BeginCycle, TypeOK
    <3>2. /\ [r EXCEPT !.pc = "seeding", !.plan = plan] \in WorkerState
          /\ [r EXCEPT !.pc = "picking"] \in WorkerState
      <4> HIDE DEF r, plan
      <4> QED
        BY <1>0, <2>1 DEF WorkerState
    <3> HIDE DEF r, plan
    <3> QED
      BY <3>1, <3>2 DEF TypeOK
  <2> QED
    BY <1>3, <2>2 DEF BeginCycle, TypeOK
<1>4. CASE Seed(w)
  <2>1. interest' \in [Key -> Interest \cup {NoRow}]
    BY <1>0, <1>4, RegisteredType DEF Seed
  <2>2. [IdleWorker EXCEPT !.pc = "picking"] \in WorkerState
    BY <1>0 DEF WorkerState
  <2>3. worker' \in [Worker -> WorkerState]
    BY <1>4, <2>2 DEF Seed, TypeOK
  <2> QED
    BY <1>4, <2>1, <2>3 DEF Seed, TypeOK
<1>5. CASE PickDue(w)
  <2>1. PICK batch \in DueBatches :
          worker' = [worker EXCEPT
            ![w].pc = IF batch \subseteq Managed THEN "checking" ELSE "skipping",
            ![w].t0 = now, ![w].keys = batch \cap Managed]
    BY <1>5 DEF PickDue
  <2>2. batch \cap Managed \in SUBSET Key
    OBVIOUS
  <2>3. worker' \in [Worker -> WorkerState]
    BY <1>0, <2>1, <2>2 DEF TypeOK, WorkerState
  <2> QED
    BY <1>5, <2>3 DEF PickDue, TypeOK
<1>6. CASE SkipUnmanaged(w)
  <2>1. worker' \in [Worker -> WorkerState]
    BY <1>0, <1>6 DEF SkipUnmanaged, TypeOK, WorkerState
  <2> QED
    BY <1>6, <2>1 DEF SkipUnmanaged, TypeOK
<1>7. CASE Check(w)
  <2> DEFINE miss == {k \in r.keys : WorkerMisses(cache[k], r.t0)}
             plan == [k \in Key |-> IF k \in r.keys \ miss THEN cache[k].snap.next ELSE 0]
  <2>1. miss \in SUBSET Key /\ r.keys \ miss \in SUBSET Key
    BY <1>0
  <2>2. plan \in [Key -> Nat]
    BY <1>0, <1>1 DEF WorkerMisses
  <2>3. worker' = [worker EXCEPT
           ![w].pc = IF r.keys = {} THEN "pruning" ELSE "rescheduling",
           ![w].keys = miss, ![w].failed = r.keys \ miss, ![w].plan = plan]
    BY <1>7 DEF Check
  <2>4. worker' \in [Worker -> WorkerState]
    <3> HIDE DEF miss, plan
    <3> QED
      BY <1>0, <2>1, <2>2, <2>3 DEF TypeOK, WorkerState
  <2> QED
    BY <1>7, <2>4 DEF Check, TypeOK
<1>8. CASE Reschedule(w)
  <2>1. interest' \in [Key -> Interest \cup {NoRow}]
    BY <1>0, <1>8, RescheduledType DEF Reschedule
  <2>2. worker' \in [Worker -> WorkerState]
    BY <1>0, <1>2, <1>8 DEF Reschedule, TypeOK, WorkerState
  <2> QED
    BY <1>8, <2>1, <2>2 DEF Reschedule, TypeOK
<1>9. ASSUME NEW k \in Key, FetchOne(w, k)
      PROVE  TypeOK'
  <2>1. \A answer \in Answers(k, Deep) : answer \in Snapshot
    BY AnswerType
  <2>2. r.failed \cup {k} \in SUBSET Key
    BY <1>0
  <2> DEFINE items(answer) == [r.items EXCEPT ![k] = answer]
  <2>3. \A answer \in Answers(k, Deep) : items(answer) \in [Key -> Snapshot \cup {NoRow}]
    BY <1>0, <2>1
  <2>4. \/ \E answer \in Answers(k, Deep) :
              worker' = [worker EXCEPT ![w] = [r EXCEPT !.items = items(answer)]]
        \/ worker' = [worker EXCEPT ![w] = [r EXCEPT !.failed = r.failed \cup {k}]]
    BY <1>9 DEF FetchOne, TypeOK
  <2>5. worker' \in [Worker -> WorkerState]
    <3>1. /\ \A its \in [Key -> Snapshot \cup {NoRow}] : [r EXCEPT !.items = its] \in WorkerState
          /\ [r EXCEPT !.failed = r.failed \cup {k}] \in WorkerState
      <4> HIDE DEF r
      <4> QED
        BY <1>0, <2>2 DEF WorkerState
    <3>2. \A answer \in Answers(k, Deep) : [r EXCEPT !.items = items(answer)] \in WorkerState
      <4> HIDE DEF r, items
      <4> QED
        BY <2>3, <3>1
    <3> HIDE DEF r, items
    <3> QED
      BY <2>2, <2>4, <3>1, <3>2, ZenonT(40) DEF TypeOK
  <2> QED
    BY <1>9, <2>5 DEF FetchOne, TypeOK
<1>10. CASE StoreItems(w)
  <2>1. /\ cache' \in [Key -> Row \cup {NoRow}]
        /\ interest' \in [Key -> Interest \cup {NoRow}]
    BY <1>0, <1>10, StoredType DEF StoreItems
  <2>2. worker' \in [Worker -> WorkerState]
    <3>1. \E pc \in {"pruning", "backing"} :
            worker' = [worker EXCEPT ![w] = [r EXCEPT !.pc = pc, !.items = IdleWorker.items]]
      BY <1>10 DEF StoreItems, TypeOK
    <3>2. \A pc \in {"pruning", "backing"} :
            [r EXCEPT !.pc = pc, !.items = IdleWorker.items] \in WorkerState
      <4> HIDE DEF r
      <4> QED
        BY <1>0, <1>2 DEF WorkerState
    <3> HIDE DEF r
    <3> QED
      BY <3>1, <3>2 DEF TypeOK
  <2> QED
    BY <1>10, <2>1, <2>2 DEF StoreItems, TypeOK
<1>11. CASE BackOffWorker(w)
  <2>1. [k \in Key |-> r.t0 + Backoff] \in [Key -> Nat]
    BY <1>0
  <2>2. interest' \in [Key -> Interest \cup {NoRow}]
    BY <1>0, <1>11, <2>1, RescheduledType DEF BackOffWorker
  <2>3. worker' \in [Worker -> WorkerState]
    BY <1>0, <1>11 DEF BackOffWorker, TypeOK, WorkerState
  <2> QED
    BY <1>11, <2>2, <2>3 DEF BackOffWorker, TypeOK
<1>12. CASE Prune(w) \/ AbortCycle(w)
  <2>1. /\ cache' \in [Key -> Row \cup {NoRow}]
        /\ interest' \in [Key -> Interest \cup {NoRow}]
    BY <1>12 DEF Prune, AbortCycle, TypeOK
  <2>2. worker' \in [Worker -> WorkerState]
    BY <1>0, <1>12 DEF Prune, AbortCycle, TypeOK
  <2> QED
    BY <1>12, <2>1, <2>2 DEF Prune, AbortCycle, TypeOK
<1> QED
  BY <1>3, <1>4, <1>5, <1>6, <1>7, <1>8, <1>9, <1>10, <1>11, <1>12

LEMMA TypeStep ==
  ASSUME TypeOK, [Next]_vars
  PROVE  TypeOK'
<1>1. CASE UNCHANGED vars
  BY <1>1 DEF TypeOK, vars
<1>2. ASSUME NEW fit \in Refit, Restart(fit)
      PROVE  TypeOK'
  <2>1. ASSUME NEW k \in Key, cache[k] # NoRow
        PROVE  [cache[k] EXCEPT !.snap.fits = Least(cache[k].snap.fits, fit)] \in Row
    <3>1. cache[k] \in Row /\ cache[k].snap \in Snapshot /\ cache[k].snap.fits \in Fit
      BY <2>1 DEF TypeOK, Row, Snapshot
    <3>2. Least(cache[k].snap.fits, fit) \in Fit
      BY <3>1 DEF Least
    <3>3. [cache[k].snap EXCEPT !.fits = Least(cache[k].snap.fits, fit)] \in Snapshot
      BY <3>1, <3>2 DEF Snapshot
    <3> QED
      BY <3>1, <3>3 DEF Row
  <2>2. cache' \in [Key -> Row \cup {NoRow}]
    BY <1>2, <2>1 DEF Restart, TypeOK
  <2>3. ASSUME NEW s \in Scan
        PROVE  Ended(s, "cancelled") \in ScanState
    <3>1. scan[s] \in ScanState /\ 0 \in Time
      BY DEF TypeOK, Time
    <3> QED
      BY <3>1 DEF Ended, ScanState
  <2>4. scan' \in [Scan -> ScanState]
    BY <1>2, <2>3 DEF Restart, TypeOK
  <2> QED
    BY <1>2, <2>2, <2>4, IdleWorkerType DEF Restart, TypeOK
<1>3. CASE Tick
  BY <1>3 DEF Tick, TypeOK, Time
<1> QED
  BY <1>1, <1>2, <1>3, ScanTypeStep, WorkerTypeStep DEF Next

LEMMA TypeInit == Init => TypeOK
<1> SUFFICES ASSUME Init PROVE TypeOK
  OBVIOUS
<1>1. 0 \in Time
  BY DEF Time
<1>2. scan \in [Scan -> ScanState]
  BY <1>1 DEF Init, ScanState, Sources
<1> QED
  BY <1>1, <1>2, IdleWorkerType DEF Init, TypeOK

\* Every variable keeps its type.
THEOREM TypeCorrect == Spec => []TypeOK
BY TypeInit, TypeStep, PTL DEF Spec

----------------------------------------------------------------------------
(* Steps of one scan *)

ScanStep(s) == \/ StartScan(s) \/ Quote(s) \/ Peek(s) \/ Lookup(s) \/ Register(s)
               \/ FetchOk(s) \/ Store(s) \/ FetchFail(s) \/ Restale(s)
               \/ BackOffScan(s) \/ CancelScan(s)
WorkerStep(w) == \/ BeginCycle(w) \/ Seed(w) \/ PickDue(w) \/ SkipUnmanaged(w) \/ Check(w)
                 \/ Reschedule(w) \/ (\E k \in Key : FetchOne(w, k)) \/ StoreItems(w)
                 \/ BackOffWorker(w) \/ Prune(w) \/ AbortCycle(w)

\* A step of one scan leaves the other scans and the workers alone.
LEMMA OtherScans ==
  ASSUME TypeOK, NEW s \in Scan, ScanStep(s)
  PROVE  /\ \A q \in Scan : q # s => scan'[q] = scan[q]
         /\ now' = now /\ worker' = worker
<1>1. \E x : scan' = [scan EXCEPT ![s] = x]
  BY ZenonT(40) DEF TypeOK, ScanStep, StartScan, Quote, Unquoted, Peek, Lookup, Register, FetchOk,
         Store, FetchFail, Restale, BackOffScan, CancelScan
<1> QED
  BY <1>1 DEF TypeOK, ScanStep, StartScan, Quote, Unquoted, Peek, Lookup, Register, FetchOk,
              Store, FetchFail, Restale, BackOffScan, CancelScan

\* What a step of the quick path makes of a scan.
Quoted(r, answer) == [r EXCEPT !.pc = "done", !.got = answer, !.source = "live_provider"]
LEMMA QuoteShape ==
  ASSUME TypeOK, NEW s \in Scan, Quote(s)
  PROVE  \/ scan' = [scan EXCEPT ![s] = Ended(s, "done")]
         \/ \E answer \in Answers(scan[s].key, 1) : scan'[s] = Quoted(scan[s], answer)
         \/ \E pc \in {"refetching", "peeking", "lookup"} : scan'[s] = [scan[s] EXCEPT !.pc = pc]
<1>1. CASE \E answer \in Answers(scan[s].key, 1) : scan' = [scan EXCEPT ![s] = Quoted(scan[s], answer)]
  BY <1>1 DEF TypeOK
<1>2. CASE \E pc \in {"refetching", "peeking", "lookup"} :
             scan' = [scan EXCEPT ![s] = [scan[s] EXCEPT !.pc = pc]]
  BY <1>2 DEF TypeOK
<1>3. \/ scan' = [scan EXCEPT ![s] = Ended(s, "done")]
      \/ \E answer \in Answers(scan[s].key, 1) : scan' = [scan EXCEPT ![s] = Quoted(scan[s], answer)]
      \/ \E pc \in {"refetching", "peeking", "lookup"} :
           scan' = [scan EXCEPT ![s] = [scan[s] EXCEPT !.pc = pc]]
  BY ZenonT(40) DEF Quote, Unquoted, Quoted
<1> QED
  BY <1>1, <1>2, <1>3

LEMMA QuoteFields ==
  ASSUME TypeOK, NEW s \in Scan, Quote(s)
  PROVE  \/ scan'[s] = Ended(s, "done")
         \/ /\ scan'[s].pc \in {"done", "refetching", "peeking", "lookup"}
            /\ scan'[s].t0 = scan[s].t0
<1>1. scan[s] \in ScanState
  BY DEF TypeOK
<1>2. CASE \E answer \in Answers(scan[s].key, 1) : scan'[s] = Quoted(scan[s], answer)
  BY <1>1, <1>2 DEF Quoted, ScanState
<1>3. CASE \E pc \in {"refetching", "peeking", "lookup"} : scan'[s] = [scan[s] EXCEPT !.pc = pc]
  BY <1>1, <1>3 DEF ScanState
<1>4. CASE scan' = [scan EXCEPT ![s] = Ended(s, "done")]
  BY <1>4 DEF TypeOK
<1> QED
  BY <1>2, <1>3, <1>4, QuoteShape

\* A worker's step leaves the other workers and the scans alone, and its answers
\* are kept, dropped, or joined by one.
LEMMA WorkerItems ==
  ASSUME TypeOK, NEW w \in Worker, WorkerStep(w)
  PROVE  /\ \A v \in Worker : v # w => worker'[v] = worker[v]
         /\ \/ worker'[w].items \in {worker[w].items, IdleWorker.items}
            \/ \E k \in Key : \E answer \in Answers(k, Deep) :
                  worker'[w].items = [worker[w].items EXCEPT ![k] = answer]
<1> DEFINE r == worker[w]
<1>0. r \in WorkerState
  BY DEF TypeOK
<1>2. \A v \in Worker : v # w => worker'[v] = worker[v]
  <2>1. CASE BeginCycle(w) \/ Seed(w) \/ SkipUnmanaged(w)
    BY <2>1 DEF TypeOK, BeginCycle, Seed, SkipUnmanaged
  <2>2. CASE PickDue(w)
    BY <2>2 DEF TypeOK, PickDue
  <2>3. CASE Check(w)
    BY <2>3 DEF TypeOK, Check
  <2>4. CASE Reschedule(w)
    BY <2>4 DEF TypeOK, Reschedule
  <2>5. CASE \E k \in Key : FetchOne(w, k)
    BY <2>5 DEF TypeOK, FetchOne
  <2>6. CASE StoreItems(w)
    BY <2>6 DEF TypeOK, StoreItems
  <2>7. CASE BackOffWorker(w) \/ Prune(w) \/ AbortCycle(w)
    BY <2>7 DEF TypeOK, BackOffWorker, Prune, AbortCycle
  <2> QED
    BY <2>1, <2>2, <2>3, <2>4, <2>5, <2>6, <2>7 DEF WorkerStep
<1>3. CASE BeginCycle(w)
  BY <1>0, <1>3 DEF BeginCycle, TypeOK, WorkerState
<1>4. CASE PickDue(w)
  <2>1. PICK batch \in DueBatches :
          worker' = [worker EXCEPT
            ![w].pc = IF batch \subseteq Managed THEN "checking" ELSE "skipping",
            ![w].t0 = now, ![w].keys = batch \cap Managed]
    BY <1>4 DEF PickDue
  <2>2. worker'[w].items = r.items
    BY <1>0, <2>1 DEF TypeOK, WorkerState
  <2> QED
    BY <1>2, <2>2
<1>5. CASE SkipUnmanaged(w)
  BY <1>0, <1>2, <1>5 DEF SkipUnmanaged, TypeOK, WorkerState
<1>6. CASE Check(w)
  <2>1. worker'[w].items = r.items
    BY <1>0, <1>6 DEF Check, TypeOK, WorkerState
  <2> QED
    BY <1>2, <2>1
<1>7. CASE Reschedule(w)
  <2>1. worker'[w].items = r.items
    BY <1>0, <1>7 DEF Reschedule, TypeOK, WorkerState
  <2> QED
    BY <1>2, <2>1
<1>8. ASSUME NEW k \in Key, FetchOne(w, k)
      PROVE  \/ worker'[w].items = r.items
             \/ \E answer \in Answers(k, Deep) : worker'[w].items = [r.items EXCEPT ![k] = answer]
  <2>1. \/ \E answer \in Answers(k, Deep) : worker' = [worker EXCEPT ![w].items[k] = answer]
        \/ worker' = [worker EXCEPT ![w].failed = r.failed \cup {k}]
    BY <1>8 DEF FetchOne
  <2> QED
    BY <1>0, <2>1 DEF TypeOK, WorkerState
<1>9. CASE BackOffWorker(w)
  BY <1>0, <1>2, <1>9 DEF BackOffWorker, TypeOK, WorkerState
<1>10. CASE StoreItems(w)
  <2>1. worker'[w].items = IdleWorker.items
    BY <1>0, <1>10 DEF StoreItems, TypeOK, WorkerState
  <2> QED
    BY <1>2, <2>1
<1>11. CASE Seed(w)
  <2>1. worker'[w] = [IdleWorker EXCEPT !.pc = "picking"]
    BY <1>11 DEF Seed, TypeOK
  <2>2. worker'[w].items = IdleWorker.items
    BY <2>1, IdleWorkerType DEF WorkerState
  <2> QED
    BY <1>2, <2>2
<1>12. CASE Prune(w) \/ AbortCycle(w)
  BY <1>2, <1>12 DEF Prune, AbortCycle, TypeOK
<1> QED
  BY <1>2, <1>3, <1>4, <1>5, <1>6, <1>7, <1>8, <1>9, <1>10, <1>11, <1>12 DEF WorkerStep

----------------------------------------------------------------------------
(* What answers fit *)

\* A cached answer has the provider, depth and completed days asked for.
Whole(r, t) ==
  r.got # NoRow /\ r.got.fits = 2 /\ r.got.depth >= r.limit /\ r.got.settles <= t

\* Nothing has answered yet.
Undecided == {"new", "quoting", "refetching", "peeking", "lookup"}

\* A scan on its way to an answer has what the answer must fit already.
FitOf(r, t) ==
  /\ r.pc \in {"quoting", "refetching", "peeking"} => r.limit = 1
  /\ r.pc \in Undecided => r.got = NoRow
  /\ r.pc \in {"storing", "restaling"} => r.got.fits = 2
  /\ r.pc = "registering" /\ r.got # NoRow => Whole(r, t)
  /\ r.pc = "restaling" => Whole(r, t)
  /\ r.pc # "done" => r.source = "none"
  /\ r.pc = "done" /\ r.source # "none" => r.got.fits = 2 /\ (r.source = "live_provider" \/ Whole(r, t))

FitInv == \A s \in Scan : FitOf(scan[s], now)

LEMMA FitStep ==
  ASSUME TypeOK, FitInv, [Next]_vars
  PROVE  FitInv'
<1>1. CASE scan' = scan /\ now' \in {now, now + 1}
  <2> SUFFICES ASSUME NEW q \in Scan PROVE FitOf(scan[q], now')
    BY <1>1 DEF FitInv
  <2> DEFINE r == scan[q]
  <2>1. FitOf(r, now) /\ now \in Nat /\ r.got \in Snapshot \cup {NoRow}
    BY DEF FitInv, TypeOK, ScanState, Time
  <2>2. r.got # NoRow => r.got.settles \in Nat
    BY <2>1 DEF Snapshot
  <2>3. Whole(r, now) => Whole(r, now')
    <3> HIDE DEF r
    <3> QED
      BY <1>1, <2>1, <2>2 DEF Whole
  <2>4. FitOf(r, now')
    <3> HIDE DEF r
    <3> QED
      BY <2>1, <2>3 DEF FitOf
  <2> QED
    BY <2>4
<1>2. ASSUME NEW s \in Scan, ScanStep(s)
      PROVE  FitInv'
  <2> DEFINE r == scan[s]
  <2>0. /\ FitOf(r, now) /\ r \in ScanState /\ r.key \in Key /\ 1 \in 1 .. Deep
        /\ r.limit \in 1 .. Deep /\ r.limit \in Nat
    BY DEF FitInv, TypeOK, ScanState
  <2>1. \A d \in 1 .. Deep : \A answer \in Answers(r.key, d) : answer.fits = 2
    BY <2>0, AnswerType
  <2>3. r.pc # "done" => FitOf(Ended(s, "done"), now)
    <3>1. Ended(s, "done").pc = "done" /\ Ended(s, "done").source = r.source
      BY <2>0 DEF Ended, ScanState
    <3> HIDE DEF r
    <3> QED
      BY <2>0, <3>1 DEF FitOf, Undecided
  <2>2. FitOf(scan'[s], now)
    <3>1. CASE StartScan(s)
      BY <2>0, <3>1 DEF StartScan, FitOf, Undecided, TypeOK, ScanState
    <3>2. CASE Quote(s)
      <4>1. CASE scan' = [scan EXCEPT ![s] = Ended(s, "done")]
        BY <2>3, <3>2, <4>1 DEF Quote, TypeOK
      <4>2. ASSUME NEW answer \in Answers(r.key, 1), scan'[s] = Quoted(r, answer)
            PROVE  FitOf(scan'[s], now)
        <5>1. answer.fits = 2
          BY <2>0, <2>1
        <5>2. /\ scan'[s].pc = "done" /\ scan'[s].got = answer
              /\ scan'[s].source = "live_provider"
          BY <2>0, <4>2 DEF Quoted, ScanState
        <5> HIDE DEF r
        <5> QED
          BY <5>1, <5>2 DEF FitOf, Undecided
      <4>3. ASSUME NEW pc \in {"refetching", "peeking", "lookup"}, scan'[s] = [r EXCEPT !.pc = pc]
            PROVE  FitOf(scan'[s], now)
        BY <2>0, <3>2, <4>3 DEF Quote, FitOf, Undecided, ScanState
      <4> QED
        BY <3>2, <4>1, <4>2, <4>3, QuoteShape
    <3>3. CASE Peek(s)
      <4>1. CASE scan' = [scan EXCEPT ![s] = Ended(s, "done")]
        BY <2>3, <3>3, <4>1 DEF Peek, TypeOK
      <4>2. CASE scan' # [scan EXCEPT ![s] = Ended(s, "done")]
        BY <2>0, <3>3, <4>2 DEF Peek, Unquoted, Hit, Compatible, Whole, FitOf, Undecided, TypeOK, ScanState
      <4> QED
        BY <4>1, <4>2
    <3>4. CASE Lookup(s)
      <4> DEFINE row == cache[r.key]
      <4>1. r.pc = "lookup" /\ r.got = NoRow /\ r.source = "none"
        BY <2>0, <3>4 DEF Lookup, FitOf, Undecided
      <4>2. \/ /\ Hit(row, r.limit, r.t0)
               /\ \/ scan'[s] = [r EXCEPT !.pc = "registering", !.got = row.snap]
                  \/ scan'[s] = [r EXCEPT !.pc = "done", !.got = row.snap, !.source = "fresh_cache"]
            \/ scan'[s] = [r EXCEPT !.pc = "registering", !.seen = row]
            \/ scan'[s] = [r EXCEPT !.pc = "fetching"]
        BY <3>4 DEF Lookup, TypeOK
      <4>3. ASSUME Hit(row, r.limit, r.t0)
            PROVE  /\ row.snap.fits = 2 /\ row.snap.depth >= r.limit /\ row.snap.settles <= now
                   /\ row.snap # NoRow
        <5>1. row.snap \in Snapshot
          BY <2>0, <4>3 DEF Hit, TypeOK, Row
        <5> HIDE DEF r, row
        <5> QED
          BY <4>3, <5>1, NoRowAssumption DEF Hit, Compatible
      <4> HIDE DEF r, row
      <4>4. CASE /\ Hit(row, r.limit, r.t0)
                 /\ scan'[s] = [r EXCEPT !.pc = "registering", !.got = row.snap]
        BY <2>0, <4>1, <4>3, <4>4 DEF Whole, FitOf, Undecided, ScanState
      <4>5. CASE /\ Hit(row, r.limit, r.t0)
                 /\ scan'[s] = [r EXCEPT !.pc = "done", !.got = row.snap, !.source = "fresh_cache"]
        BY <2>0, <4>1, <4>3, <4>5 DEF Whole, FitOf, Undecided, ScanState
      <4>6. CASE scan'[s] = [r EXCEPT !.pc = "registering", !.seen = row]
        BY <2>0, <4>1, <4>6 DEF Whole, FitOf, Undecided, ScanState
      <4>7. CASE scan'[s] = [r EXCEPT !.pc = "fetching"]
        BY <2>0, <4>1, <4>7 DEF Whole, FitOf, Undecided, ScanState
      <4> QED
        BY <4>2, <4>4, <4>5, <4>6, <4>7
    <3>5. CASE Register(s)
      BY <2>0, <3>5 DEF Register, Whole, FitOf, Undecided, TypeOK, ScanState
    <3>6. CASE FetchOk(s)
      BY <2>0, <2>1, <3>6 DEF FetchOk, FitOf, Undecided, TypeOK, ScanState
    <3>7. CASE Store(s) \/ Restale(s)
      BY <2>0, <3>7 DEF Store, Restale, Whole, FitOf, Undecided, TypeOK, ScanState
    <3>8. CASE FetchFail(s)
      <4> DEFINE stale == [r.seen.snap EXCEPT !.depth = r.limit, !.next = r.t0 + Backoff]
      <4>1. StaleUsable(r.seen, r.limit, r.t0) =>
              stale # NoRow /\ stale.fits = 2 /\ stale.depth = r.limit /\ stale.settles <= now
        <5> SUFFICES ASSUME StaleUsable(r.seen, r.limit, r.t0)
                     PROVE  stale # NoRow /\ stale.fits = 2 /\ stale.depth = r.limit /\ stale.settles <= now
          OBVIOUS
        <5>1. r.seen.snap \in Snapshot
          BY <2>0 DEF StaleUsable, ScanState, Row
        <5>2. r.t0 + Backoff \in Nat
          BY <2>0 DEF ScanState, Time
        <5>3. stale \in Snapshot
          BY <2>0, <5>1, <5>2 DEF Snapshot
        <5> QED
          BY <5>1, <5>3 DEF StaleUsable, Compatible, Snapshot
      <4>0. r.pc = "fetching" /\ r.source = "none"
        BY <2>0, <3>8 DEF FetchFail, FitOf
      <4>2. CASE scan'[s] = Ended(s, "done")
        <5>1. scan'[s].pc = "done" /\ scan'[s].source = r.source
          BY <2>0, <4>2 DEF Ended, ScanState
        <5> HIDE DEF r
        <5> QED
          BY <4>0, <5>1 DEF FitOf, Undecided
      <4>3. CASE scan'[s] = [r EXCEPT !.pc = "backing", !.seen = NoRow]
        <5>1. scan'[s].pc = "backing" /\ scan'[s].source = r.source
          BY <2>0, <4>3 DEF ScanState
        <5> HIDE DEF r
        <5> QED
          BY <4>0, <5>1 DEF FitOf, Undecided
      <4>4. CASE /\ StaleUsable(r.seen, r.limit, r.t0)
                 /\ scan'[s] = [r EXCEPT !.pc = "restaling", !.seen = NoRow, !.got = stale]
        <5>1. stale # NoRow /\ stale.fits = 2 /\ stale.depth = r.limit /\ stale.settles <= now
          BY <4>1, <4>4
        <5>3. /\ scan'[s].pc = "restaling" /\ scan'[s].got = stale
              /\ scan'[s].limit = r.limit /\ scan'[s].source = r.source
          <6> HIDE DEF r, stale
          <6> QED
            BY <2>0, <4>4 DEF ScanState
        <5> HIDE DEF r, stale
        <5> QED
          BY <2>0, <4>0, <5>1, <5>3 DEF FitOf, Undecided, Whole
      <4> DEFINE back == [r EXCEPT !.pc = "backing", !.seen = NoRow]
                 fall == [r EXCEPT !.pc = "restaling", !.seen = NoRow, !.got = stale]
      <4>5. \/ scan' = [scan EXCEPT ![s] = Ended(s, "done")]
            \/ StaleUsable(r.seen, r.limit, r.t0) /\ scan' = [scan EXCEPT ![s] = fall]
            \/ scan' = [scan EXCEPT ![s] = back]
        BY <3>8 DEF FetchFail, TypeOK
      <4>6. \/ scan'[s] = Ended(s, "done")
            \/ StaleUsable(r.seen, r.limit, r.t0) /\ scan'[s] = fall
            \/ scan'[s] = back
        <5> HIDE DEF r, fall, back
        <5> QED
          BY <4>5 DEF TypeOK
      <4> QED
        BY <4>2, <4>3, <4>4, <4>6
    <3>9. CASE BackOffScan(s) \/ CancelScan(s)
      <4>1. r.source = "none"
        BY <2>0, <3>9 DEF BackOffScan, CancelScan, FitOf
      <4>2. \E pc \in {"done", "cancelled"} : scan'[s] = Ended(s, pc)
        BY <3>9 DEF BackOffScan, CancelScan, TypeOK
      <4>3. scan'[s].pc \in {"done", "cancelled"} /\ scan'[s].source = r.source
        BY <2>0, <4>2 DEF Ended, ScanState
      <4> HIDE DEF r
      <4> QED
        BY <4>1, <4>3 DEF FitOf, Undecided
    <3> QED
      BY <1>2, <3>1, <3>2, <3>3, <3>4, <3>5, <3>6, <3>7, <3>8, <3>9 DEF ScanStep
  <2> QED
    BY <1>2, <2>2, OtherScans DEF FitInv
<1>3. ASSUME NEW fit \in Refit, Restart(fit)
      PROVE  FitInv'
  <2> SUFFICES ASSUME NEW s \in Scan PROVE FitOf(scan'[s], now)
    BY <1>3 DEF FitInv, Restart
  <2>1. FitOf(scan[s], now) /\ scan[s] \in ScanState
    BY DEF FitInv, TypeOK
  <2>2. CASE scan'[s] = scan[s]
    BY <2>1, <2>2
  <2>3. CASE scan[s].pc # "done" /\ scan'[s] = Ended(s, "cancelled")
    <3>1. scan'[s].pc = "cancelled" /\ scan'[s].source = scan[s].source
      BY <2>1, <2>3 DEF Ended, ScanState
    <3> QED
      BY <2>1, <2>3, <3>1 DEF FitOf, Undecided
  <2> QED
    BY <1>3, <2>2, <2>3 DEF Restart
<1>4. ASSUME NEW w \in Worker, WorkerStep(w)
      PROVE  scan' = scan /\ now' = now
  BY <1>4 DEF WorkerStep, BeginCycle, Seed, PickDue, SkipUnmanaged, Check, Reschedule,
              FetchOne, StoreItems, BackOffWorker, Prune, AbortCycle
<1> QED
  BY <1>1, <1>2, <1>3, <1>4 DEF Next, Tick, vars, ScanStep, WorkerStep

\* A scan answered from the cache got the depth, provider and session policy it
\* asked for, whatever was stored, restaled, restarted or pruned meanwhile.
THEOREM CacheAnswersFitHolds == Spec => []CacheAnswersFit
<1>1. Init => FitInv
  BY DEF Init, FitInv, FitOf, Undecided
<1>2. TypeOK /\ FitInv /\ [Next]_vars => FitInv'
  BY FitStep
<1>3. FitInv => CacheAnswersFit
  BY DEF FitInv, FitOf, Whole, CacheAnswersFit, Answered
<1> QED
  BY <1>1, <1>2, <1>3, TypeCorrect, PTL DEF Spec

----------------------------------------------------------------------------
(* Rows prune can reach *)

\* No interest row of a managed key is lost.
Keeps == \A k \in Managed : interest[k] # NoRow => interest'[k] # NoRow

LEMMA PrunableStep ==
  ASSUME TypeOK, ManagedRowsPrunable, [Next]_vars
  PROVE  ManagedRowsPrunable'
<1>0. \A k \in Managed : k \in Key /\ (cache[k] # NoRow => interest[k] # NoRow)
  BY DEF ManagedRowsPrunable
<1>1. CASE cache' = cache /\ interest' = interest
  BY <1>1 DEF ManagedRowsPrunable
<1>2. CASE cache' = cache /\ Keeps
  BY <1>2, <1>0 DEF ManagedRowsPrunable, Keeps
<1>3. ASSUME NEW items \in [Key -> Snapshot \cup {NoRow}], StoreSnapshots(items)
      PROVE  ManagedRowsPrunable'
  <2>1. \A k \in Key : /\ interest[k] # NoRow => interest'[k] # NoRow
                       /\ items[k] # NoRow => interest'[k] # NoRow
                       /\ items[k] = NoRow => cache'[k] = cache[k]
    BY <1>3, StoredType
  <2> QED
    BY <1>0, <2>1 DEF ManagedRowsPrunable
<1>4. ASSUME NEW s \in Scan, ScanStep(s)
      PROVE  ManagedRowsPrunable'
  <2> DEFINE r == scan[s]
  <2>0. /\ r.key \in Key /\ r.t0 \in Nat /\ r.t0 + Backoff \in Nat /\ Boundary(r.t0) \in Nat
        /\ r.got \in Snapshot \cup {NoRow}
    BY BoundaryNat DEF TypeOK, ScanState, Time
  <2>1. CASE Register(s)
    <3> DEFINE next == [k \in Key |-> IF r.got # NoRow THEN Boundary(r.t0) ELSE r.t0]
    <3>1. next \in [Key -> Nat]
      BY <2>0
    <3>2. interest' = Registered({r.key}, next) /\ cache' = cache
      BY <2>1 DEF Register
    <3> HIDE DEF next
    <3>3. Keeps
      BY <2>0, <3>1, <3>2, RegisteredType DEF Keeps
    <3> QED
      BY <1>2, <3>2, <3>3
  <2>2. CASE BackOffScan(s)
    <3>1. [k \in Key |-> r.t0 + Backoff] \in [Key -> Nat]
      BY <2>0
    <3>2. Keeps /\ cache' = cache
      BY <2>0, <2>2, <3>1, RescheduledType DEF BackOffScan, Keeps
    <3> QED
      BY <1>2, <3>2
  <2>3. CASE Store(s) \/ Restale(s)
    <3>1. StoreSnapshots(Only(r.key, r.got))
      BY <2>3 DEF Store, Restale
    <3> QED
      BY <1>3, <2>0, <3>1, OnlyType
  <2>4. CASE StartScan(s) \/ Quote(s) \/ Peek(s) \/ Lookup(s) \/ FetchOk(s) \/ FetchFail(s)
             \/ CancelScan(s)
    BY <1>1, <2>4 DEF StartScan, Quote, Peek, Lookup, FetchOk, FetchFail, CancelScan
  <2> QED
    BY <1>4, <2>1, <2>2, <2>3, <2>4 DEF ScanStep
<1>5. ASSUME NEW w \in Worker, WorkerStep(w)
      PROVE  ManagedRowsPrunable'
  <2> DEFINE r == worker[w]
  <2>0. /\ r.plan \in [Key -> Nat] /\ r.items \in [Key -> Snapshot \cup {NoRow}]
        /\ r.failed \in SUBSET Key /\ r.t0 + Backoff \in Nat
    BY DEF TypeOK, WorkerState, Time
  <2>1. CASE Seed(w)
    <3>1. Keeps /\ cache' = cache
      BY <2>0, <2>1, RegisteredType DEF Seed, Keeps
    <3> QED
      BY <1>2, <3>1
  <2>2. CASE Reschedule(w) \/ BackOffWorker(w)
    <3>1. [k \in Key |-> r.t0 + Backoff] \in [Key -> Nat]
      BY <2>0
    <3>2. Keeps /\ cache' = cache
      BY <2>0, <2>2, <3>1, RescheduledType DEF Reschedule, BackOffWorker, Keeps
    <3> QED
      BY <1>2, <3>2
  <2>3. CASE SkipUnmanaged(w)
    <3>1. Keeps /\ cache' = cache
      BY <2>3 DEF SkipUnmanaged, Keeps
    <3> QED
      BY <1>2, <3>1
  <2>4. CASE StoreItems(w)
    BY <1>3, <2>0, <2>4 DEF StoreItems
  <2>5. CASE Prune(w)
    BY <1>0, <2>5 DEF Prune, ManagedRowsPrunable
  <2>6. CASE BeginCycle(w) \/ PickDue(w) \/ Check(w) \/ (\E k \in Key : FetchOne(w, k))
             \/ AbortCycle(w)
    BY <1>1, <2>6 DEF BeginCycle, PickDue, Check, FetchOne, AbortCycle
  <2> QED
    BY <1>5, <2>1, <2>2, <2>3, <2>4, <2>5, <2>6 DEF WorkerStep
<1>6. ASSUME NEW fit \in Refit, Restart(fit)
      PROVE  ManagedRowsPrunable'
  BY <1>0, <1>6 DEF Restart, ManagedRowsPrunable
<1> QED
  BY <1>1, <1>4, <1>5, <1>6 DEF Next, Tick, vars, ScanStep, WorkerStep

\* Every snapshot of a managed key has an interest row, so prune reaches it once
\* nobody has asked for it within the retention.
THEOREM ManagedRowsPrunableHolds == Spec => []ManagedRowsPrunable
<1>1. Init => ManagedRowsPrunable
  BY DEF Init, ManagedRowsPrunable
<1>2. TypeOK /\ ManagedRowsPrunable /\ [Next]_vars => ManagedRowsPrunable'
  BY PrunableStep
<1> QED
  BY <1>1, <1>2, TypeCorrect, PTL DEF Spec

----------------------------------------------------------------------------
(* Fresh data, when the stale fallback is off *)

\* A snapshot is due at the bar boundary after its provider answered: nothing
\* moves it, since only the stale fallback does.
Dated(snap) == snap.next = Boundary(snap.asof)

CurrentOf(r, t) ==
  /\ r.t0 <= t
  /\ r.pc # "restaling"
  /\ r.seen # NoRow => Dated(r.seen.snap)
  /\ r.pc \in Undecided => r.got = NoRow
  /\ r.pc = "registering" /\ r.got # NoRow => r.t0 < Boundary(r.got.asof)
  /\ r.pc = "storing" => r.got # NoRow /\ Dated(r.got) /\ r.t0 <= r.got.asof
  /\ r.pc # "done" => r.source = "none"
  /\ r.pc = "done" /\ r.source \notin {"none", "stale_cache"} => r.t0 < Boundary(r.got.asof)

CurrentInv ==
  /\ \A k \in Key : cache[k] # NoRow => Dated(cache[k].snap)
  /\ \A w \in Worker, k \in Key : worker[w].items[k] # NoRow => Dated(worker[w].items[k])
  /\ \A s \in Scan : CurrentOf(scan[s], now)

\* What the fields of a scan must be after a step, for CurrentOf to be kept.
LEMMA CurrentScanStep ==
  ASSUME TypeOK, CurrentInv, AllowStale = FALSE, NEW s \in Scan, ScanStep(s)
  PROVE  CurrentOf(scan'[s], now)
<1> DEFINE r == scan[s]
<1>0. /\ CurrentOf(r, now) /\ r \in ScanState /\ r.key \in Key /\ 1 \in 1 .. Deep
      /\ r.limit \in 1 .. Deep /\ r.t0 \in Nat /\ now \in Nat /\ 0 \in Nat
      /\ now < Boundary(now) /\ Boundary(now) \in Nat
      /\ r.seen # NoRow => r.seen.snap \in Snapshot
      /\ r.got \in Snapshot \cup {NoRow}
  BY BoundaryNat, BoundaryAhead DEF CurrentInv, TypeOK, ScanState, Time, Row
<1>1. ASSUME NEW row \in Row, Dated(row.snap), NEW limit \in Nat, Hit(row, limit, r.t0)
      PROVE  r.t0 < Boundary(row.snap.asof)
  <2>1. row.snap.next \in Nat
    BY DEF Row, Snapshot
  <2> QED
    BY <1>0, <1>1, <2>1 DEF Hit, Due, Dated
<1>2. \A d \in 1 .. Deep : \A answer \in Answers(r.key, d) :
        answer # NoRow /\ Dated(answer) /\ answer.asof = now
  BY <1>0, AnswerType DEF Dated
<1>3. /\ cache[r.key] \in Row \cup {NoRow}
      /\ cache[r.key] # NoRow => Dated(cache[r.key].snap)
  BY <1>0 DEF CurrentInv, TypeOK
<1>4. CASE StartScan(s)
  <2>1. /\ scan'[s].pc \in {"lookup", "quoting"} /\ scan'[s].t0 = now /\ scan'[s].got = r.got
        /\ scan'[s].seen = r.seen /\ scan'[s].source = r.source /\ r.pc = "new"
    BY <1>0, <1>4 DEF StartScan, TypeOK, ScanState
  <2> HIDE DEF r
  <2> QED
    BY <1>0, <2>1 DEF CurrentOf, Undecided
<1>12. ASSUME NEW pc \in {"done", "cancelled"}, r.pc # "done"
       PROVE  CurrentOf(Ended(s, pc), now)
  <2>1. /\ Ended(s, pc).pc = pc /\ Ended(s, pc).t0 = 0 /\ Ended(s, pc).seen = NoRow
        /\ Ended(s, pc).got = NoRow /\ Ended(s, pc).source = r.source
    BY <1>0 DEF Ended, ScanState
  <2> HIDE DEF r
  <2> QED
    BY <1>0, <1>12, <2>1 DEF CurrentOf, Undecided
<1>13. CASE Quote(s)
  <2>1. r.pc \in {"quoting", "refetching"}
    BY <1>13 DEF Quote
  <2>2. CASE scan'[s] = Ended(s, "done")
    BY <1>12, <2>1, <2>2
  <2>3. CASE scan'[s] # Ended(s, "done")
    <3>1. /\ scan'[s].t0 = r.t0 /\ scan'[s].seen = r.seen
          /\ \/ /\ scan'[s].pc = "done" /\ scan'[s].got \in Answers(r.key, 1)
             \/ /\ scan'[s].pc \in {"refetching", "peeking", "lookup"}
                /\ scan'[s].source = r.source /\ scan'[s].got = r.got
      <4>1. CASE \E answer \in Answers(r.key, 1) : scan'[s] = Quoted(r, answer)
        BY <1>0, <4>1 DEF Quoted, ScanState
      <4>2. CASE \E pc \in {"refetching", "peeking", "lookup"} : scan'[s] = [r EXCEPT !.pc = pc]
        BY <1>0, <4>2 DEF ScanState
      <4>3. scan' # [scan EXCEPT ![s] = Ended(s, "done")]
        BY <2>3 DEF TypeOK
      <4> QED
        BY <1>13, <4>1, <4>2, <4>3, QuoteShape
    <3>2. \A answer \in Answers(r.key, 1) : answer.asof = now
      BY <1>0, <1>2
    <3> HIDE DEF r
    <3> QED
      BY <1>0, <2>1, <3>1, <3>2 DEF CurrentOf, Undecided
  <2> QED
    BY <2>2, <2>3
<1>6. CASE Peek(s)
  <2>1. r.pc = "peeking"
    BY <1>6 DEF Peek
  <2>2. CASE scan'[s] = Ended(s, "done")
    BY <1>12, <2>1, <2>2
  <2>3. CASE scan'[s] # Ended(s, "done")
    <3>1. /\ scan'[s].t0 = r.t0 /\ scan'[s].seen = r.seen
          /\ \/ /\ scan'[s].pc = "done" /\ scan'[s].got = cache[r.key].snap
                /\ Hit(cache[r.key], 1, r.t0)
             \/ scan'[s].pc = "lookup" /\ scan'[s].source = r.source /\ scan'[s].got = r.got
      BY <1>0, <1>6, <2>3 DEF Peek, Unquoted, TypeOK, ScanState
    <3>2. Hit(cache[r.key], 1, r.t0) => r.t0 < Boundary(cache[r.key].snap.asof)
      <4>1. Hit(cache[r.key], 1, r.t0) => cache[r.key] # NoRow
        BY DEF Hit
      <4> QED
        BY <1>1, <1>3, <4>1
    <3> HIDE DEF r
    <3> QED
      BY <1>0, <2>1, <3>1, <3>2 DEF CurrentOf, Undecided
  <2> QED
    BY <2>2, <2>3
<1>7. CASE Lookup(s)
  <2>1. /\ scan'[s].t0 = r.t0
        /\ r.pc = "lookup"
        /\ \/ /\ scan'[s].pc \in {"registering", "done"} /\ scan'[s].got = cache[r.key].snap
              /\ Hit(cache[r.key], r.limit, r.t0) /\ scan'[s].seen = r.seen
              /\ scan'[s].pc = "registering" => scan'[s].source = r.source
           \/ /\ scan'[s].pc = "registering" /\ scan'[s].seen = cache[r.key]
              /\ scan'[s].got = r.got /\ scan'[s].source = r.source
           \/ scan'[s].pc = "fetching" /\ scan'[s].source = r.source
              /\ scan'[s].seen = r.seen
    BY <1>0, <1>7 DEF Lookup, TypeOK, ScanState
  <2>2. Hit(cache[r.key], r.limit, r.t0) => r.t0 < Boundary(cache[r.key].snap.asof)
    <3>1. Hit(cache[r.key], r.limit, r.t0) => cache[r.key] # NoRow
      BY DEF Hit
    <3> QED
      BY <1>0, <1>1, <1>3, <3>1
  <2> HIDE DEF r
  <2> QED
    BY <1>0, <1>3, <2>1, <2>2 DEF CurrentOf, Undecided
<1>8. CASE Register(s)
  <2>1. /\ scan'[s].t0 = r.t0
        /\ r.pc = "registering"
        /\ scan'[s].seen = r.seen
        /\ \/ scan'[s].pc = "done" /\ scan'[s].got = r.got /\ r.got # NoRow
           \/ scan'[s].pc = "fetching" /\ scan'[s].source = r.source
    BY <1>0, <1>8 DEF Register, TypeOK, ScanState
  <2> HIDE DEF r
  <2> QED
    BY <1>0, <2>1 DEF CurrentOf, Undecided
<1>9. CASE FetchOk(s)
  <2>1. /\ scan'[s].t0 = r.t0 /\ scan'[s].seen = NoRow /\ scan'[s].pc = "storing"
        /\ scan'[s].got \in Answers(r.key, r.limit) /\ scan'[s].source = r.source
        /\ r.pc # "done"
    BY <1>0, <1>9 DEF FetchOk, TypeOK, ScanState
  <2> HIDE DEF r
  <2> QED
    BY <1>0, <1>2, <2>1 DEF CurrentOf, Undecided
<1>10. CASE Store(s)
  <2>1. /\ scan'[s].t0 = r.t0 /\ scan'[s].seen = r.seen /\ scan'[s].pc = "done"
        /\ scan'[s].got = r.got /\ r.pc = "storing"
    BY <1>0, <1>10 DEF Store, TypeOK, ScanState
  <2>2. r.t0 < Boundary(r.got.asof)
    <3>1. r.got \in Snapshot /\ r.t0 <= r.got.asof
      BY <1>0, <2>1 DEF CurrentOf, Undecided
    <3>2. r.got.asof \in Time /\ r.got.asof \in Nat
      BY <3>1 DEF Snapshot, Time
    <3>3. r.got.asof < Boundary(r.got.asof) /\ Boundary(r.got.asof) \in Nat
      BY <3>2, BoundaryAhead, BoundaryNat
    <3> QED
      BY <1>0, <3>1, <3>2, <3>3
  <2> HIDE DEF r
  <2> QED
    BY <1>0, <2>1, <2>2 DEF CurrentOf, Undecided
<1>11. CASE FetchFail(s) \/ BackOffScan(s) \/ CancelScan(s)
  <2>1. r.pc # "done" /\ r.source = "none"
    BY <1>0, <1>11 DEF FetchFail, BackOffScan, CancelScan, CurrentOf
  <2>2. \/ \E pc \in {"done", "cancelled"} : scan'[s] = Ended(s, pc)
        \/ /\ scan'[s].pc = "backing" /\ scan'[s].seen = NoRow
           /\ scan'[s].t0 = r.t0 /\ scan'[s].source = r.source
    BY <1>0, <1>11 DEF FetchFail, StaleUsable, BackOffScan, CancelScan, TypeOK, ScanState
  <2>3. CASE scan'[s].pc = "backing" /\ scan'[s].seen = NoRow
             /\ scan'[s].t0 = r.t0 /\ scan'[s].source = r.source
    <3> HIDE DEF r
    <3> QED
      BY <1>0, <2>1, <2>3 DEF CurrentOf, Undecided
  <2> QED
    BY <1>12, <2>1, <2>2, <2>3
<1>14. ~ Restale(s)
  BY <1>0 DEF Restale, CurrentOf
<1> QED
  BY <1>4, <1>13, <1>6, <1>7, <1>8, <1>9, <1>10, <1>11, <1>14 DEF ScanStep

LEMMA CurrentStep ==
  ASSUME TypeOK, CurrentInv, AllowStale = FALSE, [Next]_vars
  PROVE  CurrentInv'
<1> DEFINE Cached == \A k \in Key : cache'[k] # NoRow => Dated(cache'[k].snap)
           Fetched == \A w \in Worker, k \in Key :
                        worker'[w].items[k] # NoRow => Dated(worker'[w].items[k])
<1>1. ASSUME NEW items \in [Key -> Snapshot \cup {NoRow}], StoreSnapshots(items),
             \A k \in Key : items[k] # NoRow => Dated(items[k])
      PROVE  Cached
  <2>1. \A k \in Key : /\ items[k] # NoRow => cache'[k].snap = items[k]
                       /\ items[k] = NoRow => cache'[k] = cache[k]
    BY <1>1, StoredType
  <2> QED
    BY <1>1, <2>1 DEF CurrentInv
<1>2. CASE UNCHANGED vars
  BY <1>2 DEF vars, CurrentInv
<1>3. CASE Tick
  <2>1. now' = now + 1 /\ UNCHANGED <<cache, scan, worker>> /\ now \in Nat
    BY <1>3 DEF Tick, TypeOK, Time
  <2>2. \A s \in Scan : scan[s].t0 \in Nat
    BY DEF TypeOK, ScanState, Time
  <2> QED
    BY <2>1, <2>2 DEF CurrentInv, CurrentOf, Undecided
<1>4. ASSUME NEW s \in Scan, ScanStep(s)
      PROVE  CurrentInv'
  <2> DEFINE r == scan[s]
  <2>1. \A q \in Scan : CurrentOf(scan'[q], now)
    BY <1>4, OtherScans, CurrentScanStep DEF CurrentInv
  <2>2. Cached
    <3>1. CASE Store(s) \/ Restale(s)
      <4>0. /\ r.key \in Key /\ r.got \in Snapshot \cup {NoRow}
            /\ StoreSnapshots(Only(r.key, r.got))
        BY <3>1 DEF Store, Restale, TypeOK, ScanState
      <4>1. Only(r.key, r.got) \in [Key -> Snapshot \cup {NoRow}]
        BY <4>0, OnlyType
      <4>2. Dated(r.got)
        BY <3>1 DEF Store, Restale, CurrentInv, CurrentOf
      <4>3. \A k \in Key : Only(r.key, r.got)[k] # NoRow => Only(r.key, r.got)[k] = r.got
        BY DEF Only
      <4> HIDE DEF r
      <4> QED
        BY <1>1, <4>0, <4>1, <4>2, <4>3
    <3>2. CASE ~ (Store(s) \/ Restale(s))
      <4>1. cache' = cache
        BY <1>4, <3>2 DEF ScanStep, StartScan, Quote, Peek, Lookup, Register, FetchOk,
                          FetchFail, BackOffScan, CancelScan
      <4> QED
        BY <4>1 DEF CurrentInv
    <3> QED
      BY <3>1, <3>2
  <2> QED
    BY <1>4, <2>1, <2>2, OtherScans DEF CurrentInv
<1>5. ASSUME NEW w \in Worker, WorkerStep(w)
      PROVE  CurrentInv'
  <2> DEFINE r == worker[w]
  <2>0. /\ r.items \in [Key -> Snapshot \cup {NoRow}]
        /\ \A k \in Key : r.items[k] # NoRow => Dated(r.items[k])
        /\ \A k \in Key : IdleWorker.items[k] = NoRow
    BY DEF TypeOK, WorkerState, CurrentInv, IdleWorker
  <2>1. scan' = scan /\ now' = now
    BY <1>5 DEF WorkerStep, BeginCycle, Seed, PickDue, SkipUnmanaged, Check, Reschedule,
                FetchOne, StoreItems, BackOffWorker, Prune, AbortCycle
  <2>2. Cached
    <3>1. CASE StoreItems(w)
      BY <1>1, <2>0, <3>1 DEF StoreItems
    <3>2. CASE Prune(w)
      BY <3>2 DEF Prune, CurrentInv
    <3>3. CASE cache' = cache
      BY <3>3 DEF CurrentInv
    <3> QED
      BY <1>5, <3>1, <3>2, <3>3
         DEF WorkerStep, BeginCycle, Seed, PickDue, SkipUnmanaged, Check, Reschedule,
             FetchOne, BackOffWorker, AbortCycle
  <2>3. Fetched
    <3>1. \A k \in Key : \A answer \in Answers(k, Deep) : Dated(answer)
      BY AnswerType DEF Dated
    <3>2. \A k \in Key : worker'[w].items[k] # NoRow => Dated(worker'[w].items[k])
      <4>1. CASE worker'[w].items = r.items
        BY <2>0, <4>1
      <4>2. CASE worker'[w].items = IdleWorker.items
        BY <2>0, <4>2
      <4>3. ASSUME NEW j \in Key, NEW answer \in Answers(j, Deep),
                   worker'[w].items = [r.items EXCEPT ![j] = answer]
            PROVE  \A k \in Key : worker'[w].items[k] # NoRow => Dated(worker'[w].items[k])
        <5> HIDE DEF r
        <5> QED
          BY <2>0, <3>1, <4>3
      <4> QED
        BY <1>5, <4>1, <4>2, <4>3, WorkerItems
    <3> QED
      BY <1>5, <3>2, WorkerItems DEF CurrentInv
  <2> QED
    BY <2>1, <2>2, <2>3 DEF CurrentInv
<1>6. ASSUME NEW fit \in Refit, Restart(fit)
      PROVE  CurrentInv'
  <2>1. Cached
    <3> SUFFICES ASSUME NEW k \in Key, cache'[k] # NoRow PROVE Dated(cache'[k].snap)
      OBVIOUS
    <3>1. /\ cache[k] # NoRow
          /\ cache'[k] = [cache[k] EXCEPT !.snap.fits = Least(cache[k].snap.fits, fit)]
      BY <1>6 DEF Restart
    <3>2. cache[k] \in Row /\ cache[k].snap \in Snapshot
      BY <3>1 DEF TypeOK, Row
    <3>3. cache'[k].snap.next = cache[k].snap.next /\ cache'[k].snap.asof = cache[k].snap.asof
      BY <3>1, <3>2 DEF Row, Snapshot
    <3> QED
      BY <3>1, <3>3 DEF CurrentInv, Dated
  <2>2. Fetched
    BY <1>6 DEF Restart, IdleWorker
  <2>3. ASSUME NEW s \in Scan
        PROVE  CurrentOf(scan'[s], now)
    <3>1. scan[s] \in ScanState /\ CurrentOf(scan[s], now) /\ now \in Nat
      BY DEF TypeOK, CurrentInv, Time
    <3>2. CASE scan'[s] = scan[s]
      BY <3>1, <3>2
    <3>3. CASE scan[s].pc # "done" /\ scan'[s] = Ended(s, "cancelled")
      <4>1. /\ scan'[s].pc = "cancelled" /\ scan'[s].t0 = 0 /\ scan'[s].seen = NoRow
            /\ scan'[s].source = scan[s].source
            /\ scan'[s].got = NoRow
        BY <3>1, <3>3 DEF Ended, ScanState
      <4> QED
        BY <3>1, <3>3, <4>1 DEF CurrentOf, Undecided
    <3> QED
      BY <1>6, <3>2, <3>3 DEF Restart
  <2>4. now' = now
    BY <1>6 DEF Restart
  <2> QED
    BY <2>1, <2>2, <2>3, <2>4 DEF CurrentInv
<1> QED
  BY <1>2, <1>3, <1>4, <1>5, <1>6 DEF Next, ScanStep, WorkerStep

\* With the stale fallback off, data handed out as live or fresh is of the bar
\* the scan started in, under every order of fetches, stores and restarts.
THEOREM FreshIsCurrentHolds == ASSUME AllowStale = FALSE PROVE Spec => []FreshIsCurrent
<1>1. Init => CurrentInv
  BY DEF Init, CurrentInv, CurrentOf, Undecided, IdleWorker
<1>2. TypeOK /\ CurrentInv /\ [Next]_vars => CurrentInv'
  BY CurrentStep
<1>3. CurrentInv => FreshIsCurrent
  BY DEF CurrentInv, CurrentOf, FreshIsCurrent, Answered
<1> QED
  BY <1>1, <1>2, <1>3, TypeCorrect, PTL DEF Spec

----------------------------------------------------------------------------
(* Nothing is parked *)

\* Not later than the next bar boundary, or one backoff.
Soon(t) == t <= Boundary(now) \/ t <= now + Backoff

\* What a scan will store, and the clock its backoff counts from.
SoonScan(r) == /\ r.t0 <= now
               /\ r.pc \in {"storing", "restaling"} /\ r.got # NoRow => Soon(r.got.next)

\* What a worker's cycle will store, and the times it has planned.
SoonWorker(r) == /\ r.t0 <= now
                 /\ \A k \in Key : /\ Soon(r.plan[k])
                                   /\ r.items[k] # NoRow => Soon(r.items[k].next)

\* Every time that is, or may yet become, a key's next refresh is soon.  The
\* times are read in one step and written in a later one, so they have to be
\* soon while they are carried, too.
SoonInv == /\ \A k \in Key : /\ cache[k] # NoRow => Soon(cache[k].snap.next)
                             /\ interest[k] # NoRow => Soon(interest[k].next)
           /\ \A s \in Scan : SoonScan(scan[s])
           /\ \A w \in Worker : SoonWorker(worker[w])

\* A later clock has a later boundary.
LEMMA BoundaryMonotone ==
  ASSUME NEW a \in Time, NEW b \in Time, a <= b
  PROVE  Boundary(a) <= Boundary(b)
<1>1. Close[a] <= Close[b] /\ Close[a] \in Nat /\ Close[b] \in Nat
  BY CloseAssumption
<1> QED
  BY <1>1 DEF Boundary

\* The times that are planned: at once, at a boundary, after a backoff.
LEMMA SoonTimes ==
  ASSUME TypeOK, NEW t \in Time, t <= now
  PROVE  Soon(t) /\ Soon(Boundary(t)) /\ Soon(t + Backoff) /\ Soon(0)
<1>1. now \in Nat /\ now \in Time
  BY DEF TypeOK, Time
<1>2. Boundary(t) <= Boundary(now)
  BY <1>1, BoundaryMonotone
<1> QED
  BY <1>1, <1>2 DEF Soon

\* What the store's operations write is soon if what they are given is.
LEMMA SoonWritten ==
  ASSUME TypeOK, SoonInv
  PROVE  /\ \A keys \in SUBSET Key, next \in [Key -> Nat] :
              (\A k \in Key : Soon(next[k])) =>
                \A k \in Key :
                  /\ Registered(keys, next)[k] # NoRow => Soon(Registered(keys, next)[k].next)
                  /\ Rescheduled(keys, next)[k] # NoRow => Soon(Rescheduled(keys, next)[k].next)
         /\ \A items \in [Key -> Snapshot \cup {NoRow}] :
              (\A k \in Key : items[k] # NoRow => Soon(items[k].next)) =>
                \A k \in Key :
                  /\ StoredCache(items)[k] # NoRow => Soon(StoredCache(items)[k].snap.next)
                  /\ StoredInterest(items)[k] # NoRow => Soon(StoredInterest(items)[k].next)
<1>1. ASSUME NEW keys \in SUBSET Key, NEW next \in [Key -> Nat], NEW k \in Key, Soon(next[k])
      PROVE  /\ Registered(keys, next)[k] # NoRow => Soon(Registered(keys, next)[k].next)
             /\ Rescheduled(keys, next)[k] # NoRow => Soon(Rescheduled(keys, next)[k].next)
  <2>1. interest[k] # NoRow => Soon(interest[k].next)
    BY DEF SoonInv
  <2>2. CASE k \notin keys
    BY <2>1, <2>2 DEF Registered, Rescheduled
  <2>3. CASE k \in keys
    BY <1>1, <2>1, <2>3 DEF Registered, Rescheduled, Least
  <2> QED
    BY <2>2, <2>3
<1>2. ASSUME NEW items \in [Key -> Snapshot \cup {NoRow}], NEW k \in Key,
             items[k] # NoRow => Soon(items[k].next)
      PROVE  /\ StoredCache(items)[k] # NoRow => Soon(StoredCache(items)[k].snap.next)
             /\ StoredInterest(items)[k] # NoRow => Soon(StoredInterest(items)[k].next)
  <2>1. /\ cache[k] # NoRow => Soon(cache[k].snap.next)
        /\ interest[k] # NoRow => Soon(interest[k].next)
    BY DEF SoonInv
  <2> QED
    BY <1>2, <2>1 DEF StoredCache, StoredInterest
<1> QED
  BY <1>1, <1>2

\* A step of a scan.
LEMMA SoonScanStep ==
  ASSUME TypeOK, SoonInv, NEW s \in Scan, ScanStep(s)
  PROVE  SoonInv'
<1> DEFINE r == scan[s]
<1>0. /\ r \in ScanState /\ r.key \in Key /\ r.limit \in 1 .. Deep /\ 1 \in 1 .. Deep
      /\ r.t0 \in Nat /\ now \in Nat /\ r.t0 <= now /\ SoonScan(r)
      /\ r.t0 \in Time /\ now \in Time
      /\ r.got \in Snapshot \cup {NoRow}
  BY DEF TypeOK, ScanState, Time, SoonInv, SoonScan
<1>1. /\ Soon(r.t0) /\ Soon(Boundary(r.t0)) /\ Soon(r.t0 + Backoff) /\ Soon(Boundary(now))
      /\ Boundary(r.t0) \in Nat /\ r.t0 + Backoff \in Nat
  BY <1>0, SoonTimes, BoundaryNat
<1>2. UNCHANGED <<now, worker>> /\ \A q \in Scan : q # s => scan'[q] = scan[q]
  BY OtherScans
<1>3. SoonScan(scan'[s])
  <2>1. ASSUME NEW pc, scan'[s] = Ended(s, pc)
        PROVE  SoonScan(scan'[s])
    <3>1. scan'[s].t0 = 0 /\ scan'[s].got = NoRow
      BY <1>0, <2>1 DEF Ended, ScanState
    <3> QED
      BY <1>0, <3>1 DEF SoonScan
  <2>2. ASSUME scan'[s].t0 \in {r.t0, now}, scan'[s].pc \notin {"storing", "restaling"}
        PROVE  SoonScan(scan'[s])
    BY <1>0, <2>2 DEF SoonScan
  <2>3. CASE StartScan(s)
    <3>1. scan'[s].t0 = now /\ scan'[s].pc \in {"lookup", "quoting"}
      BY <1>0, <2>3 DEF StartScan, TypeOK, ScanState
    <3> QED
      BY <2>2, <3>1
  <2>4. CASE Quote(s)
    <3>1. \/ scan'[s] = Ended(s, "done")
          \/ scan'[s].t0 = r.t0 /\ scan'[s].pc \in {"done", "refetching", "peeking", "lookup"}
      BY <1>0, <2>4, QuoteFields
    <3> QED
      BY <2>1, <2>2, <3>1
  <2>10. CASE Peek(s)
    <3>1. \/ scan'[s] = Ended(s, "done")
          \/ scan'[s].t0 = r.t0 /\ scan'[s].pc \in {"done", "lookup"}
      BY <1>0, <2>10 DEF Peek, Unquoted, TypeOK, ScanState
    <3> QED
      BY <2>1, <2>2, <3>1
  <2>5. CASE Lookup(s) \/ Register(s)
    <3>1. scan'[s].t0 = r.t0 /\ scan'[s].pc \in {"registering", "done", "fetching"}
      BY <1>0, <2>5 DEF Lookup, Register, TypeOK, ScanState
    <3> QED
      BY <2>2, <3>1
  <2>6. CASE FetchOk(s)
    <3>1. scan'[s].t0 = r.t0 /\ scan'[s].got \in Answers(r.key, r.limit)
      BY <1>0, <2>6 DEF FetchOk, TypeOK, ScanState
    <3>2. \A answer \in Answers(r.key, r.limit) : answer.next = Boundary(now)
      BY <1>0, AnswerType
    <3> HIDE DEF r
    <3> QED
      BY <1>0, <1>1, <3>1, <3>2 DEF SoonScan
  <2>7. CASE Store(s) \/ Restale(s)
    <3>1. scan'[s].t0 = r.t0 /\ scan'[s].pc = "done"
      BY <1>0, <2>7 DEF Store, Restale, TypeOK, ScanState
    <3> QED
      BY <2>2, <3>1
  <2>8. CASE FetchFail(s)
    <3> DEFINE stale == [r.seen.snap EXCEPT !.depth = r.limit, !.next = r.t0 + Backoff]
               fall == [r EXCEPT !.pc = "restaling", !.seen = NoRow, !.got = stale]
               back == [r EXCEPT !.pc = "backing", !.seen = NoRow]
    <3>1. \/ scan' = [scan EXCEPT ![s] = Ended(s, "done")]
          \/ StaleUsable(r.seen, r.limit, r.t0) /\ scan' = [scan EXCEPT ![s] = fall]
          \/ scan' = [scan EXCEPT ![s] = back]
      BY <2>8 DEF FetchFail, TypeOK
    <3>2. CASE scan' = [scan EXCEPT ![s] = Ended(s, "done")]
      BY <2>1, <3>2 DEF TypeOK
    <3>3. CASE scan' = [scan EXCEPT ![s] = back]
      <4>1. scan'[s].t0 = r.t0 /\ scan'[s].pc = "backing"
        BY <1>0, <3>3 DEF TypeOK, ScanState
      <4> QED
        BY <2>2, <4>1
    <3>4. CASE StaleUsable(r.seen, r.limit, r.t0) /\ scan' = [scan EXCEPT ![s] = fall]
      <4>1. r.seen.snap \in Snapshot
        BY <1>0, <3>4 DEF StaleUsable, ScanState, Row
      <4>2. stale.next = r.t0 + Backoff
        BY <4>1 DEF Snapshot
      <4>3. scan'[s].t0 = r.t0 /\ scan'[s].got = stale
        <5> HIDE DEF r, stale
        <5> QED
          BY <1>0, <3>4 DEF TypeOK, ScanState, r
      <4> HIDE DEF r, stale
      <4> QED
        BY <1>0, <1>1, <4>2, <4>3 DEF SoonScan
    <3> QED
      BY <3>1, <3>2, <3>3, <3>4
  <2>9. CASE BackOffScan(s) \/ CancelScan(s)
    <3>1. \E pc \in {"done", "cancelled"} : scan'[s] = Ended(s, pc)
      BY <2>9 DEF BackOffScan, CancelScan, TypeOK
    <3> QED
      BY <2>1, <3>1
  <2> QED
    BY <2>3, <2>4, <2>5, <2>6, <2>7, <2>8, <2>9, <2>10 DEF ScanStep
<1>4. \A k \in Key : /\ cache'[k] # NoRow => Soon(cache'[k].snap.next)
                     /\ interest'[k] # NoRow => Soon(interest'[k].next)
  <2>1. CASE Register(s)
    <3> DEFINE next == [k \in Key |-> IF r.got # NoRow THEN Boundary(r.t0) ELSE r.t0]
    <3>1. next \in [Key -> Nat] /\ \A k \in Key : Soon(next[k])
      BY <1>0, <1>1
    <3>2. interest' = Registered({r.key}, next) /\ cache' = cache /\ {r.key} \in SUBSET Key
      BY <1>0, <2>1 DEF Register
    <3> HIDE DEF next
    <3> QED
      BY <3>1, <3>2, SoonWritten DEF SoonInv
  <2>2. CASE BackOffScan(s)
    <3> DEFINE next == [k \in Key |-> r.t0 + Backoff]
    <3>1. next \in [Key -> Nat] /\ \A k \in Key : Soon(next[k])
      BY <1>1
    <3>2. interest' = Rescheduled({r.key}, next) /\ cache' = cache /\ {r.key} \in SUBSET Key
      BY <1>0, <2>2 DEF BackOffScan
    <3> HIDE DEF next
    <3> QED
      BY <3>1, <3>2, SoonWritten DEF SoonInv
  <2>3. CASE Store(s) \/ Restale(s)
    <3> DEFINE items == Only(r.key, r.got)
    <3>1. items \in [Key -> Snapshot \cup {NoRow}]
      BY <1>0, OnlyType
    <3>2. r.got # NoRow => Soon(r.got.next)
      BY <1>0, <2>3 DEF Store, Restale, SoonScan
    <3>3. \A k \in Key : items[k] # NoRow => Soon(items[k].next)
      BY <3>2 DEF Only
    <3>4. cache' = StoredCache(items) /\ interest' = StoredInterest(items)
      BY <2>3 DEF Store, Restale, StoreSnapshots
    <3> HIDE DEF items
    <3> QED
      BY <3>1, <3>3, <3>4, SoonWritten
  <2>4. CASE StartScan(s) \/ Quote(s) \/ Peek(s) \/ Lookup(s) \/ FetchOk(s) \/ FetchFail(s)
             \/ CancelScan(s)
    <3>1. UNCHANGED <<cache, interest>>
      BY <2>4 DEF StartScan, Quote, Peek, Lookup, FetchOk, FetchFail, CancelScan
    <3> QED
      BY <3>1 DEF SoonInv
  <2> QED
    BY <2>1, <2>2, <2>3, <2>4 DEF ScanStep
<1> QED
  BY <1>2, <1>3, <1>4 DEF SoonInv, SoonScan, SoonWorker, Soon

\* A step of a worker's cycle.
LEMMA SoonWorkerStep ==
  ASSUME TypeOK, SoonInv, NEW w \in Worker, WorkerStep(w)
  PROVE  SoonInv'
<1> DEFINE r == worker[w]
<1>0. /\ r \in WorkerState /\ r.keys \in SUBSET Key /\ r.failed \in SUBSET Key
      /\ r.plan \in [Key -> Nat] /\ r.items \in [Key -> Snapshot \cup {NoRow}]
      /\ r.t0 \in Nat /\ now \in Nat /\ r.t0 <= now /\ SoonWorker(r)
      /\ r.t0 \in Time /\ now \in Time
  BY DEF TypeOK, WorkerState, Time, SoonInv, SoonWorker
<1>1. /\ Soon(now) /\ Soon(0) /\ Soon(r.t0 + Backoff) /\ r.t0 + Backoff \in Nat
      /\ Soon(Boundary(now))
      /\ \A k \in Key : \A answer \in Answers(k, Deep) : answer.next = Boundary(now)
  BY <1>0, SoonTimes, AnswerType
<1>2. UNCHANGED <<now, scan>>
  BY DEF WorkerStep, BeginCycle, Seed, PickDue, SkipUnmanaged, Check, Reschedule,
         FetchOne, StoreItems, BackOffWorker, Prune, AbortCycle
<1>3. SoonWorker(IdleWorker)
  BY <1>0, <1>1 DEF SoonWorker, IdleWorker
<1>4. \A k \in Key : worker'[w].items[k] # NoRow => Soon(worker'[w].items[k].next)
  <2>1. CASE worker'[w].items = r.items
    BY <1>0, <2>1 DEF SoonWorker
  <2>2. CASE worker'[w].items = IdleWorker.items
    BY <2>2 DEF IdleWorker
  <2>3. ASSUME NEW j \in Key, NEW answer \in Answers(j, Deep),
                   worker'[w].items = [r.items EXCEPT ![j] = answer]
        PROVE  \A k \in Key : worker'[w].items[k] # NoRow => Soon(worker'[w].items[k].next)
    <3> HIDE DEF r
    <3> QED
      BY <1>0, <1>1, <2>3 DEF SoonWorker
  <2> QED
    BY <2>1, <2>2, <2>3, WorkerItems
<1>5. worker'[w].t0 \in {0, r.t0, now} /\ \A k \in Key : Soon(worker'[w].plan[k])
  <2>1. IdleWorker.t0 = 0 /\ IdleWorker.plan = [k \in Key |-> 0]
    BY DEF IdleWorker
  <2>2. ASSUME worker'[w].t0 \in {0, r.t0, now}, worker'[w].plan \in {r.plan, IdleWorker.plan}
        PROVE  worker'[w].t0 \in {0, r.t0, now} /\ \A k \in Key : Soon(worker'[w].plan[k])
    BY <1>0, <1>1, <2>1, <2>2 DEF SoonWorker
  <2>3. CASE BeginCycle(w)
    <3> DEFINE plan == [k \in Key |-> IF WorkerMisses(cache[k], now) THEN now
                                      ELSE cache[k].snap.next]
    <3>1. \A k \in Key : Soon(plan[k])
      BY <1>1 DEF WorkerMisses, SoonInv
    <3>2. CASE worker' = [worker EXCEPT ![w] = [r EXCEPT !.pc = "seeding", !.plan = plan]]
      <4>1. worker'[w].t0 = r.t0 /\ worker'[w].plan = plan
        <5> HIDE DEF plan
        <5> QED
          BY <1>0, <3>2 DEF TypeOK, WorkerState
      <4> QED
        BY <3>1, <4>1
    <3>3. CASE worker' = [worker EXCEPT ![w] = [r EXCEPT !.pc = "picking"]]
      BY <1>0, <2>2, <3>3 DEF TypeOK, WorkerState
    <3> QED
      BY <2>3, <3>2, <3>3 DEF BeginCycle, TypeOK
  <2>4. CASE Seed(w)
    <3>1. worker'[w] = [IdleWorker EXCEPT !.pc = "picking"]
      BY <2>4 DEF Seed, TypeOK
    <3>2. worker'[w].t0 = 0 /\ worker'[w].plan = IdleWorker.plan
      BY <2>1, <3>1, IdleWorkerType DEF WorkerState
    <3> QED
      BY <2>2, <3>2
  <2>5. CASE PickDue(w)
    <3>1. PICK batch \in DueBatches :
            worker' = [worker EXCEPT
              ![w].pc = IF batch \subseteq Managed THEN "checking" ELSE "skipping",
              ![w].t0 = now, ![w].keys = batch \cap Managed]
      BY <2>5 DEF PickDue
    <3>2. worker'[w].t0 = now /\ worker'[w].plan = r.plan
      BY <1>0, <3>1 DEF TypeOK, WorkerState
    <3> QED
      BY <2>2, <3>2
  <2>6. CASE Check(w)
    <3> DEFINE miss == {k \in r.keys : WorkerMisses(cache[k], r.t0)}
               plan == [k \in Key |-> IF k \in r.keys \ miss THEN cache[k].snap.next ELSE 0]
    <3>1. \A k \in Key : Soon(plan[k])
      BY <1>1 DEF WorkerMisses, SoonInv
    <3>2. worker'[w].t0 = r.t0 /\ worker'[w].plan = plan
      <4>1. worker' = [worker EXCEPT
              ![w].pc = IF r.keys = {} THEN "pruning" ELSE "rescheduling",
              ![w].keys = miss, ![w].failed = r.keys \ miss, ![w].plan = plan]
        BY <2>6 DEF Check
      <4> HIDE DEF miss, plan
      <4> QED
        BY <1>0, <4>1 DEF TypeOK, WorkerState
    <3> QED
      BY <3>1, <3>2
  <2>7. CASE Reschedule(w)
    <3>1. worker'[w].t0 = r.t0 /\ worker'[w].plan = IdleWorker.plan
      BY <1>0, <2>7 DEF Reschedule, TypeOK, WorkerState
    <3> QED
      BY <2>2, <3>1
  <2>8. CASE SkipUnmanaged(w) \/ BackOffWorker(w)
    <3>1. worker'[w].t0 = r.t0 /\ worker'[w].plan = r.plan
      BY <1>0, <2>8 DEF SkipUnmanaged, BackOffWorker, TypeOK, WorkerState
    <3> QED
      BY <2>2, <3>1
  <2>9. CASE StoreItems(w)
    <3>1. worker'[w].t0 = r.t0 /\ worker'[w].plan = r.plan
      BY <1>0, <2>9 DEF StoreItems, TypeOK, WorkerState
    <3> QED
      BY <2>2, <3>1
  <2>10. ASSUME NEW k \in Key, FetchOne(w, k)
         PROVE  worker'[w].t0 \in {0, r.t0, now} /\ \A j \in Key : Soon(worker'[w].plan[j])
    <3>1. worker'[w].t0 = r.t0 /\ worker'[w].plan = r.plan
      BY <1>0, <2>10 DEF FetchOne, TypeOK, WorkerState
    <3> QED
      BY <2>2, <3>1
  <2>11. CASE Prune(w) \/ AbortCycle(w)
    <3>1. worker'[w] = IdleWorker
      BY <2>11 DEF Prune, AbortCycle, TypeOK
    <3> QED
      BY <2>1, <2>2, <3>1
  <2> QED
    BY <2>3, <2>4, <2>5, <2>6, <2>7, <2>8, <2>9, <2>10, <2>11 DEF WorkerStep
<1>6. \A k \in Key : /\ cache'[k] # NoRow => Soon(cache'[k].snap.next)
                     /\ interest'[k] # NoRow => Soon(interest'[k].next)
  <2>1. CASE Seed(w)
    <3>1. interest' = Registered(Managed, r.plan) /\ cache' = cache /\ Managed \in SUBSET Key
      BY <2>1 DEF Seed
    <3> QED
      BY <1>0, <3>1, SoonWritten DEF SoonInv, SoonWorker
  <2>2. CASE Reschedule(w)
    <3>1. interest' = Rescheduled(r.failed, r.plan) /\ cache' = cache
      BY <2>2 DEF Reschedule
    <3> QED
      BY <1>0, <3>1, SoonWritten DEF SoonInv, SoonWorker
  <2>3. CASE BackOffWorker(w)
    <3> DEFINE next == [k \in Key |-> r.t0 + Backoff]
    <3>1. next \in [Key -> Nat] /\ \A k \in Key : Soon(next[k])
      BY <1>1
    <3>2. interest' = Rescheduled(r.failed, next) /\ cache' = cache
      BY <2>3 DEF BackOffWorker
    <3> HIDE DEF next
    <3> QED
      BY <1>0, <3>1, <3>2, SoonWritten DEF SoonInv
  <2>4. CASE StoreItems(w)
    <3>1. cache' = StoredCache(r.items) /\ interest' = StoredInterest(r.items)
      BY <2>4 DEF StoreItems, StoreSnapshots
    <3> QED
      BY <1>0, <3>1, SoonWritten DEF SoonWorker
  <2>5. CASE SkipUnmanaged(w) \/ Prune(w)
    BY <2>5 DEF SkipUnmanaged, Prune, SoonInv
  <2>6. CASE BeginCycle(w) \/ PickDue(w) \/ Check(w) \/ (\E k \in Key : FetchOne(w, k))
             \/ AbortCycle(w)
    <3>1. UNCHANGED <<cache, interest>>
      BY <2>6 DEF BeginCycle, PickDue, Check, FetchOne, AbortCycle
    <3> QED
      BY <3>1 DEF SoonInv
  <2> QED
    BY <2>1, <2>2, <2>3, <2>4, <2>5, <2>6 DEF WorkerStep
<1>7. SoonWorker(worker'[w])
  BY <1>0, <1>4, <1>5 DEF SoonWorker
<1>8. \A v \in Worker : v # w => worker'[v] = worker[v]
  BY WorkerItems
<1> QED
  BY <1>2, <1>6, <1>7, <1>8 DEF SoonInv, SoonScan, SoonWorker, Soon

\* What was soon stays soon as the clock goes on, and a restart keeps the tables.
LEMMA SoonStep ==
  ASSUME TypeOK, SoonInv, [Next]_vars
  PROVE  SoonInv'
<1>1. CASE UNCHANGED vars
  BY <1>1 DEF vars, SoonInv, SoonScan, SoonWorker, Soon
<1>2. CASE Tick
  <2>1. /\ now' = now + 1 /\ UNCHANGED <<cache, interest, scan, worker>> /\ now \in Nat
        /\ now \in Time /\ now + 1 \in Time
    BY <1>2 DEF Tick, TypeOK, Time
  <2>2. Boundary(now) <= Boundary(now + 1) /\ Boundary(now) \in Nat /\ Boundary(now + 1) \in Nat
    BY <2>1, BoundaryMonotone, BoundaryNat
  <2>3. \A t \in Nat : Soon(t) => t <= Boundary(now + 1) \/ t <= now + 1 + Backoff
    BY <2>1, <2>2 DEF Soon
  <2>4. \A t \in Nat : Soon(t) => Soon(t)'
    BY <2>1, <2>3 DEF Soon
  <2>5. /\ \A k \in Key : /\ cache[k] # NoRow => cache[k].snap.next \in Nat
                          /\ interest[k] # NoRow => interest[k].next \in Nat
        /\ \A s \in Scan : scan[s].t0 \in Nat /\ (scan[s].got # NoRow => scan[s].got.next \in Nat)
        /\ \A w \in Worker :
             /\ worker[w].t0 \in Nat
             /\ \A k \in Key :
                  /\ worker[w].plan[k] \in Nat
                  /\ worker[w].items[k] # NoRow => worker[w].items[k].next \in Nat
    BY DEF TypeOK, Row, Interest, Snapshot, ScanState, WorkerState, Time
  <2>6. \A s \in Scan : SoonScan(scan[s])'
    BY <2>1, <2>4, <2>5 DEF SoonInv, SoonScan
  <2>7. ASSUME NEW w \in Worker
        PROVE  SoonWorker(worker[w])'
    <3>1. SoonWorker(worker[w]) /\ worker[w].t0 \in Nat
      BY <2>5 DEF SoonInv
    <3>2. (worker[w].t0 <= now)'
      BY <2>1, <3>1 DEF SoonWorker
    <3>3. ASSUME NEW k \in Key
          PROVE  /\ Soon(worker[w].plan[k])'
                 /\ worker[w].items[k] # NoRow => Soon(worker[w].items[k].next)'
      <4>1. /\ worker[w].plan[k] \in Nat
            /\ worker[w].items[k] # NoRow => worker[w].items[k].next \in Nat
        BY <2>5
      <4>2. Soon(worker[w].plan[k])'
        BY <2>1, <2>4, <3>1, <4>1 DEF SoonWorker
      <4>3. worker[w].items[k] # NoRow => Soon(worker[w].items[k].next)'
        BY <2>1, <2>4, <3>1, <4>1 DEF SoonWorker
      <4> QED
        BY <4>2, <4>3
    <3> QED
      BY <2>1, <3>2, <3>3 DEF SoonWorker
  <2> QED
    BY <2>1, <2>4, <2>5, <2>6, <2>7 DEF SoonInv
<1>3. ASSUME NEW fit \in Refit, Restart(fit)
      PROVE  SoonInv'
  <2>1. now' = now /\ interest' = interest /\ now \in Nat /\ Soon(0)
    BY <1>3, SoonTimes DEF Restart, TypeOK, Time
  <2>2. ASSUME NEW k \in Key, cache'[k] # NoRow
        PROVE  Soon(cache'[k].snap.next)
    <3>1. /\ cache[k] # NoRow
          /\ cache'[k] = [cache[k] EXCEPT !.snap.fits = Least(cache[k].snap.fits, fit)]
      BY <1>3, <2>2 DEF Restart
    <3>2. cache[k] \in Row /\ cache[k].snap \in Snapshot
      BY <3>1 DEF TypeOK, Row
    <3>3. cache'[k].snap.next = cache[k].snap.next
      BY <3>1, <3>2 DEF Row, Snapshot
    <3> QED
      BY <3>1, <3>3 DEF SoonInv
  <2>3. ASSUME NEW s \in Scan
        PROVE  SoonScan(scan'[s])
    <3>1. scan[s] \in ScanState /\ SoonScan(scan[s])
      BY DEF TypeOK, SoonInv
    <3>2. CASE scan'[s] = scan[s]
      BY <3>1, <3>2
    <3>3. CASE scan'[s] = Ended(s, "cancelled")
      <4>1. scan'[s].pc = "cancelled" /\ scan'[s].t0 = 0
        BY <3>1, <3>3 DEF Ended, ScanState
      <4> QED
        BY <2>1, <4>1 DEF SoonScan
    <3> QED
      BY <1>3, <3>2, <3>3 DEF Restart
  <2>4. \A w \in Worker : SoonWorker(worker'[w])
    BY <1>3, <2>1 DEF Restart, SoonWorker, IdleWorker
  <2> QED
    BY <2>1, <2>2, <2>3, <2>4 DEF SoonInv, SoonScan, SoonWorker, Soon
<1> QED
  BY <1>1, <1>2, <1>3, SoonScanStep, SoonWorkerStep DEF Next, ScanStep, WorkerStep

\* Every time that is stored, or on its way into the tables, is near.
LEMMA SoonHolds == Spec => []SoonInv
<1>1. Init => SoonInv
  <2> SUFFICES ASSUME Init PROVE SoonInv
    OBVIOUS
  <2>1. TypeOK /\ now = 0
    BY TypeInit DEF Init
  <2>2. Soon(0)
    BY <2>1, SoonTimes DEF TypeOK, Time
  <2> QED
    BY <2>1, <2>2 DEF Init, SoonInv, SoonScan, SoonWorker, IdleWorker
<1>2. TypeOK /\ SoonInv /\ [Next]_vars => SoonInv'
  BY SoonStep
<1> QED
  BY <1>1, <1>2, TypeCorrect, PTL DEF Spec

\* Whatever is seeded, fetched, fails, is cancelled or restarts meanwhile, and in
\* whatever order times are read and written back, the worker looks at a managed
\* key again within a bar or a backoff.
THEOREM NeverParkedHolds == Spec => []NeverParked
<1>1. SoonInv => NeverParked
  BY DEF SoonInv, Soon, NeverParked
<1> QED
  BY <1>1, SoonHolds, PTL

----------------------------------------------------------------------------
(* What prune spares *)

\* What a step may write into the tables' interest rows.
Writes == \/ interest' = interest
          \/ \E keys \in SUBSET Key, next \in [Key -> Nat] :
               interest' = Registered(keys, next) \/ interest' = Rescheduled(keys, next)
          \/ \E items \in [Key -> Snapshot \cup {NoRow}] : StoreSnapshots(items)
          \/ \E w \in Worker : SkipUnmanaged(w) \/ Prune(w)

LEMMA InterestWrites ==
  ASSUME TypeOK, [Next]_vars
  PROVE  Writes
<1>1. CASE interest' = interest
  BY <1>1 DEF Writes
<1>2. ASSUME NEW s \in Scan, ScanStep(s)
      PROVE  Writes
  <2> DEFINE r == scan[s]
  <2>0. /\ r.key \in Key /\ {r.key} \in SUBSET Key /\ r.t0 \in Nat /\ r.t0 + Backoff \in Nat
        /\ Boundary(r.t0) \in Nat /\ r.got \in Snapshot \cup {NoRow}
    BY BoundaryNat DEF TypeOK, ScanState, Time
  <2>1. CASE Register(s)
    <3> DEFINE next == [k \in Key |-> IF r.got # NoRow THEN Boundary(r.t0) ELSE r.t0]
    <3>1. next \in [Key -> Nat]
      BY <2>0
    <3>2. interest' = Registered({r.key}, next)
      BY <2>1 DEF Register
    <3> HIDE DEF next
    <3> QED
      BY <2>0, <3>1, <3>2 DEF Writes
  <2>2. CASE BackOffScan(s)
    <3> DEFINE next == [k \in Key |-> r.t0 + Backoff]
    <3>1. next \in [Key -> Nat] /\ interest' = Rescheduled({r.key}, next)
      BY <2>0, <2>2 DEF BackOffScan
    <3> HIDE DEF next
    <3> QED
      BY <2>0, <3>1 DEF Writes
  <2>3. CASE Store(s) \/ Restale(s)
    <3>1. StoreSnapshots(Only(r.key, r.got)) /\ Only(r.key, r.got) \in [Key -> Snapshot \cup {NoRow}]
      BY <2>0, <2>3, OnlyType DEF Store, Restale
    <3> QED
      BY <3>1 DEF Writes
  <2>4. CASE StartScan(s) \/ Quote(s) \/ Peek(s) \/ Lookup(s) \/ FetchOk(s) \/ FetchFail(s)
             \/ CancelScan(s)
    BY <1>1, <2>4 DEF StartScan, Quote, Peek, Lookup, FetchOk, FetchFail, CancelScan
  <2> QED
    BY <1>2, <2>1, <2>2, <2>3, <2>4 DEF ScanStep
<1>3. ASSUME NEW w \in Worker, WorkerStep(w)
      PROVE  Writes
  <2> DEFINE r == worker[w]
  <2>0. /\ r.plan \in [Key -> Nat] /\ r.items \in [Key -> Snapshot \cup {NoRow}]
        /\ r.failed \in SUBSET Key /\ r.t0 + Backoff \in Nat /\ Managed \in SUBSET Key
    BY DEF TypeOK, WorkerState, Time
  <2>1. CASE Seed(w)
    <3>1. interest' = Registered(Managed, r.plan)
      BY <2>1 DEF Seed
    <3> QED
      BY <2>0, <3>1 DEF Writes
  <2>2. CASE Reschedule(w)
    <3>1. interest' = Rescheduled(r.failed, r.plan)
      BY <2>2 DEF Reschedule
    <3> QED
      BY <2>0, <3>1 DEF Writes
  <2>3. CASE BackOffWorker(w)
    <3> DEFINE next == [k \in Key |-> r.t0 + Backoff]
    <3>1. next \in [Key -> Nat] /\ interest' = Rescheduled(r.failed, next)
      BY <2>0, <2>3 DEF BackOffWorker
    <3> HIDE DEF next
    <3> QED
      BY <2>0, <3>1 DEF Writes
  <2>4. CASE StoreItems(w)
    <3>1. StoreSnapshots(r.items)
      BY <2>4 DEF StoreItems
    <3> QED
      BY <2>0, <3>1 DEF Writes
  <2>5. CASE SkipUnmanaged(w) \/ Prune(w)
    BY <2>5 DEF Writes
  <2>6. CASE BeginCycle(w) \/ PickDue(w) \/ Check(w) \/ (\E j \in Key : FetchOne(w, j))
             \/ AbortCycle(w)
    BY <1>1, <2>6 DEF BeginCycle, PickDue, Check, FetchOne, AbortCycle
  <2> QED
    BY <1>3, <2>1, <2>2, <2>3, <2>4, <2>5, <2>6 DEF WorkerStep
<1>4. CASE Tick \/ (\E fit \in Refit : Restart(fit)) \/ UNCHANGED vars
  BY <1>1, <1>4 DEF Tick, Restart, vars
<1> QED
  BY <1>2, <1>3, <1>4 DEF Next, ScanStep, WorkerStep

\* A step keeps the time an interest row was asked for or makes it now; a managed
\* row goes only when prune finds it too old.
LEMMA InterestAges ==
  ASSUME TypeOK, [Next]_vars, NEW k \in Key
  PROVE  /\ interest'[k] # NoRow =>
              \/ interest'[k].requested = now
              \/ interest[k] # NoRow /\ interest'[k].requested = interest[k].requested
         /\ k \in Managed /\ interest[k] # NoRow /\ interest'[k] = NoRow => Prunable(k)
<1>1. CASE interest' = interest
  BY <1>1
<1>2. ASSUME NEW keys \in SUBSET Key, NEW next \in [Key -> Nat],
             interest' = Registered(keys, next) \/ interest' = Rescheduled(keys, next)
      PROVE  /\ interest'[k].requested = now \/ interest'[k] = interest[k]
             /\ interest[k] # NoRow => interest'[k] # NoRow
  <2>1. interest[k] # NoRow => interest'[k] # NoRow
    BY <1>2, RegisteredType, RescheduledType
  <2> QED
    BY <1>2, <2>1 DEF Registered, Rescheduled
<1>3. ASSUME NEW items \in [Key -> Snapshot \cup {NoRow}], StoreSnapshots(items)
      PROVE  /\ \/ interest'[k].requested = now \/ interest'[k] = interest[k]
                \/ interest[k] # NoRow /\ interest'[k].requested = interest[k].requested
             /\ interest[k] # NoRow => interest'[k] # NoRow
  <2>1. interest[k] # NoRow => interest'[k] # NoRow
    BY <1>3, StoredType
  <2> QED
    BY <1>3, <2>1 DEF StoreSnapshots, StoredInterest
<1>4. ASSUME NEW w \in Worker, SkipUnmanaged(w) \/ Prune(w)
      PROVE  /\ interest'[k] = NoRow \/ interest'[k] = interest[k]
             /\ k \in Managed /\ interest[k] # NoRow /\ interest'[k] = NoRow => Prunable(k)
  BY <1>4 DEF SkipUnmanaged, Prune
<1> QED
  BY <1>1, <1>2, <1>3, <1>4, InterestWrites DEF Writes

\* A scan that has registered interest and not stored yet.
Waits(r) == r.pc \in {"fetching", "storing", "restaling", "backing"}

\* The interest row of a managed key is no older than the scans that wait for it:
\* whoever registered or stored since wrote a later time, never an earlier one.
\* SoonInv adds that no scan started in the future.
RemembersScan(s) ==
  LET r == scan[s]
  IN  Waits(r) /\ r.key \in Managed /\ interest[r.key] # NoRow
        => r.t0 <= interest[r.key].requested
AskedInv == \A s \in Scan : RemembersScan(s)

\* Who waits after a step waited before, or has just registered, or asks for an
\* unmanaged key.
LEMMA WaitsFrom ==
  ASSUME TypeOK, NEW s \in Scan, ScanStep(s), Waits(scan'[s]), scan'[s].key \in Managed
  PROVE  /\ scan'[s].key = scan[s].key /\ scan'[s].t0 = scan[s].t0
         /\ Waits(scan[s]) \/ interest'[scan[s].key].requested = now
<1> DEFINE r == scan[s]
<1>0. r \in ScanState /\ scan \in [Scan -> ScanState] /\ r.key \in Key
  BY DEF TypeOK, ScanState
<1>1. \A pc \in {"done", "cancelled"} : Ended(s, pc).pc = pc
  BY <1>0 DEF Ended, ScanState
<1>2. CASE StartScan(s)
  <2>1. scan'[s].pc \in {"lookup", "quoting"}
    BY <1>0, <1>2 DEF StartScan, ScanState
  <2> QED
    BY <2>1 DEF Waits
<1>3. CASE Quote(s) \/ Peek(s)
  <2>1. scan'[s].pc \in {"done", "refetching", "peeking", "lookup"}
    <3>1. CASE Quote(s)
      BY <1>0, <1>1, <3>1, QuoteFields
    <3>2. CASE Peek(s)
      BY <1>0, <1>1, <3>2 DEF Peek, Unquoted, ScanState
    <3> QED
      BY <1>3, <3>1, <3>2
  <2> QED
    BY <2>1 DEF Waits
<1>4. CASE Lookup(s)
  <2>1. /\ scan'[s].key = r.key
        /\ r.key \in Managed => scan'[s].pc = "registering"
    BY <1>0, <1>4 DEF Lookup, ScanState
  <2> QED
    BY <2>1 DEF Waits
<1>5. CASE Register(s)
  <2>1. scan'[s].key = r.key /\ scan'[s].t0 = r.t0
    BY <1>0, <1>5 DEF Register, ScanState
  <2>2. interest'[r.key].requested = now
    BY <1>0, <1>5 DEF Register, Registered
  <2> QED
    BY <2>1, <2>2
<1>6. CASE FetchOk(s)
  BY <1>0, <1>6 DEF FetchOk, ScanState, Waits
<1>7. CASE FetchFail(s)
  <2> DEFINE stale == [r.seen.snap EXCEPT !.depth = r.limit, !.next = r.t0 + Backoff]
             fall == [r EXCEPT !.pc = "restaling", !.seen = NoRow, !.got = stale]
             back == [r EXCEPT !.pc = "backing", !.seen = NoRow]
  <2>1. r.pc = "fetching" /\ (scan'[s] = Ended(s, "done") \/ scan'[s] = fall \/ scan'[s] = back)
    BY <1>0, <1>7 DEF FetchFail
  <2>2. fall.key = r.key /\ fall.t0 = r.t0 /\ back.key = r.key /\ back.t0 = r.t0
    <3> HIDE DEF r, stale
    <3> QED
      BY <1>0 DEF ScanState
  <2> QED
    BY <1>1, <2>1, <2>2 DEF Waits
<1>8. CASE Store(s) \/ Restale(s) \/ BackOffScan(s) \/ CancelScan(s)
  <2>1. scan'[s].pc \in {"done", "cancelled"}
    BY <1>0, <1>1, <1>8 DEF Store, Restale, BackOffScan, CancelScan, ScanState
  <2> QED
    BY <2>1 DEF Waits
<1> QED
  BY <1>2, <1>3, <1>4, <1>5, <1>6, <1>7, <1>8 DEF ScanStep

LEMMA AskedStep ==
  ASSUME TypeOK, SoonInv, AskedInv, [Next]_vars
  PROVE  AskedInv'
<1>1. CASE UNCHANGED vars
  BY <1>1 DEF vars, AskedInv, RemembersScan, Waits
<1>2. CASE Next
  <2> SUFFICES ASSUME NEW s \in Scan, Waits(scan'[s]), scan'[s].key \in Managed,
                      interest'[scan'[s].key] # NoRow
               PROVE  scan'[s].t0 <= interest'[scan'[s].key].requested
    BY DEF AskedInv, RemembersScan
  <2> DEFINE k == scan[s].key
  <2>1. /\ scan'[s].key = k /\ scan'[s].t0 = scan[s].t0
        /\ Waits(scan[s]) \/ interest'[k].requested = now
    <3>1. CASE scan'[s] = scan[s]
      BY <3>1
    <3>2. CASE ScanStep(s)
      BY <3>2, WaitsFrom
    <3>3. ASSUME NEW q \in Scan, q # s, ScanStep(q)
          PROVE  scan'[s] = scan[s]
      BY <3>3, OtherScans
    <3>4. ASSUME NEW w \in Worker, WorkerStep(w)
          PROVE  scan'[s] = scan[s]
      BY <3>4 DEF WorkerStep, BeginCycle, Seed, PickDue, SkipUnmanaged, Check, Reschedule,
                  FetchOne, StoreItems, BackOffWorker, Prune, AbortCycle
    <3>5. ASSUME NEW fit \in Refit, Restart(fit)
          PROVE  scan'[s] = scan[s]
      <4>1. scan[s] \in ScanState
        BY DEF TypeOK
      <4>2. Ended(s, "cancelled").pc = "cancelled"
        BY <4>1 DEF Ended, ScanState
      <4> QED
        BY <3>5, <4>2 DEF Restart, Waits
    <3>6. Tick => scan'[s] = scan[s]
      BY DEF Tick
    <3> QED
      BY <1>2, <3>1, <3>2, <3>3, <3>4, <3>5, <3>6 DEF Next, ScanStep, WorkerStep
  <2>2. scan[s].t0 <= now /\ k \in Key
    BY DEF SoonInv, SoonScan, TypeOK, ScanState
  <2>3. CASE interest'[k].requested = now
    BY <2>1, <2>2, <2>3
  <2>4. CASE /\ Waits(scan[s]) /\ interest[k] # NoRow
             /\ interest'[k].requested = interest[k].requested
    BY <2>1, <2>4 DEF AskedInv, RemembersScan
  <2> QED
    BY <1>2, <2>1, <2>2, <2>3, <2>4, InterestAges
<1> QED
  BY <1>1, <1>2

\* A snapshot whose key a scan is fetching is not pruned within the retention of
\* that scan, whatever workers, seeds and other scans do meanwhile
\* (market_data_store.py: prune, register_interest, store_snapshots).
THEOREM PruneSparesAskedHolds == Spec => PruneSparesAsked
<1> DEFINE Spared == \A k \in Managed, s \in Scan :
                       AskedFor(s, k) /\ interest[k] # NoRow => interest'[k] # NoRow
<1>1. Init => AskedInv
  BY DEF Init, AskedInv, RemembersScan
<1>2. TypeOK /\ SoonInv /\ AskedInv /\ [Next]_vars => AskedInv'
  BY AskedStep
<1>3. TypeOK /\ AskedInv /\ [Next]_vars => [Spared]_vars
  <2> SUFFICES ASSUME TypeOK, AskedInv, [Next]_vars, NEW k \in Managed, NEW s \in Scan,
                      AskedFor(s, k), interest[k] # NoRow, interest'[k] = NoRow
               PROVE  FALSE
    OBVIOUS
  <2>1. k \in Key /\ Prunable(k)
    BY InterestAges
  <2>2. scan[s].t0 <= interest[k].requested
    BY DEF AskedInv, RemembersScan, AskedFor, Waits
  <2>3. /\ interest[k].requested \in Nat /\ now \in Nat /\ scan[s].t0 \in Nat
        /\ now - scan[s].t0 <= Retention /\ now - interest[k].requested > Retention
    BY <2>1 DEF TypeOK, Interest, ScanState, Time, Prunable, AskedFor
  <2> QED
    BY <2>2, <2>3
<1>4. Spec => [](TypeOK /\ SoonInv)
  BY SoonHolds, TypeCorrect, PTL
<1>5. Spec => [][Spared]_vars
  BY <1>1, <1>2, <1>3, <1>4, PTL DEF Spec
<1> QED
  BY <1>5 DEF PruneSparesAsked
=============================================================================
