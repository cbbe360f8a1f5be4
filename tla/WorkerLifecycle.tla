--------------------------- MODULE WorkerLifecycle ---------------------------
(***************************************************************************)
(* MarketDataWorker.start, stop and _run on the event loop.  What a cycle  *)
(* of _run does to the store is MarketCache's; here a cycle is some awaits *)
(* that end, well or not.                                                  *)
(*                                                                         *)
(* asyncio runs the ready tasks first come first served, each up to its    *)
(* next await.  "ready" is that queue: a request joins it when it arrives, *)
(* a loop when the timer, thread or fetch it awaits is done, and whoever   *)
(* awaits a task when that task ends.  A loop is named by the start        *)
(* request that created it.                                                *)
(*                                                                         *)
(* A definition whose comment starts with "Fault:" is no part of the       *)
(* specification, see GateSessions.                                        *)
(***************************************************************************)
EXTENDS Integers, Sequences, FiniteSets

CONSTANTS
  StartRequest,   \* start calls: of the lifespan and of POST /screen/ops/worker/start
  StopRequest,    \* stop calls: of POST /screen/ops/worker/stop and of the lifespan
  None            \* no task

Request == StartRequest \cup StopRequest

ASSUME RequestAssumption == /\ StartRequest \cap StopRequest = {}
                            /\ None \notin Request

VARIABLES
  running,   \* _running
  current,   \* _task
  loop,      \* the tasks that run _run, by the start call that created them
  request,   \* the calls
  ready,     \* the event loop's ready queue
  overlapped,  \* history: a stop came while another was under way
  seen,        \* history: the loops there were when each stop came
  lost         \* history: the loops that lived when a stop cleared _task
history == <<overlapped, seen, lost>>
workerVars == <<running, current, loop, request, ready, overlapped, seen, lost>>

\* A loop waits at an await of its cycle ("working") or between two cycles
\* ("sleeping"); waiters are the stops that await it.
Loop == [pc : {"none", "new", "working", "sleeping", "done"},
         cancelled : BOOLEAN, waiters : Seq(StopRequest)]

Runs(r) == [task |-> "loop", of |-> r]
Handles(r) == [task |-> "request", of |-> r]

WorkerTypeOK == /\ running \in BOOLEAN
                /\ current \in {r \in StartRequest : loop[r].pc # "none"} \cup {None}
                /\ loop \in [StartRequest -> Loop]
                /\ request \in [Request -> {"idle", "arrived", "awaiting", "done", "failed"}]
                /\ ready \in Seq([task : {"loop"}, of : StartRequest]
                                 \cup [task : {"request"}, of : Request])
                /\ overlapped \in BOOLEAN
                /\ seen \in [StopRequest -> SUBSET StartRequest]
                /\ lost \in SUBSET StartRequest

WorkerInit == /\ running = FALSE
              /\ current = None
              /\ loop = [r \in StartRequest |-> [pc |-> "none", cancelled |-> FALSE, waiters |-> <<>>]]
              /\ request = [r \in Request |-> "idle"]
              /\ ready = <<>>
              /\ overlapped = FALSE
              /\ seen = [s \in StopRequest |-> {}]
              /\ lost = {}

Queued(x) == \E i \in DOMAIN ready : ready[i] = x
Live(r) == loop[r].pc \notin {"none", "done"}
UnderWay(r) == request[r] \in {"arrived", "awaiting"}

HasLiveTask == \E r \in StartRequest : current = r /\ Live(r)

\* status()["running"], on which /readyz and the ops endpoints answer.
StatusRunning == running /\ current # None
----------------------------------------------------------------------------
(* What the event loop is told *)

Created == {r \in StartRequest : loop[r].pc # "none"}

\* A call comes, whatever calls are under way: no route waits for another.
Arrive(r) ==
  /\ request[r] = "idle"
  /\ request' = [request EXCEPT ![r] = "arrived"]
  /\ ready' = Append(ready, Handles(r))
  /\ \/ /\ r \in StopRequest
        /\ overlapped' = (overlapped \/ \E s \in StopRequest : UnderWay(s))
        /\ seen' = [seen EXCEPT ![r] = Created]
     \/ r \notin StopRequest /\ UNCHANGED <<overlapped, seen>>
  /\ UNCHANGED <<running, current, loop, lost>>

\* What a loop awaits is done, or has been cancelled.
Event(r) ==
  /\ loop[r].pc \in {"working", "sleeping"} /\ ~Queued(Runs(r))
  /\ ready' = Append(ready, Runs(r))
  /\ UNCHANGED <<running, current, loop, request, history>>
----------------------------------------------------------------------------
(* What it runs *)

Turn(x) == ready # <<>> /\ Head(ready) = x

\* Fault: a start asks whether the worker is running, not whether it has a task.
StartIfIdle(r) ==
  /\ Turn(Handles(r)) /\ request[r] = "arrived"
  /\ \/ /\ StatusRunning
        /\ request' = [request EXCEPT ![r] = "done"]
        /\ ready' = Tail(ready)
        /\ UNCHANGED <<running, current, loop>>
     \/ /\ ~StatusRunning
        /\ running' = TRUE
        /\ current' = r
        /\ loop' = [loop EXCEPT ![r].pc = "new"]
        /\ request' = [request EXCEPT ![r] = "done"]
        /\ ready' = Append(Tail(ready), Runs(r))
  /\ UNCHANGED history

\* start: nothing if there is a task, else seed and create one.  Seeding reads the
\* universe and the store and may raise: _running is set by then.
Start(r) ==
  /\ Turn(Handles(r)) /\ request[r] = "arrived"
  /\ \/ /\ current # None
        /\ request' = [request EXCEPT ![r] = "done"]
        /\ ready' = Tail(ready)
        /\ UNCHANGED <<running, current, loop>>
     \/ /\ current = None
        /\ running' = TRUE
        /\ current' = r
        /\ loop' = [loop EXCEPT ![r].pc = "new"]
        /\ request' = [request EXCEPT ![r] = "done"]
        /\ ready' = Append(Tail(ready), Runs(r))
     \/ /\ current = None
        /\ running' = TRUE
        /\ request' = [request EXCEPT ![r] = "failed"]
        /\ ready' = Tail(ready)
        /\ UNCHANGED <<current, loop>>
  /\ UNCHANGED history

\* task.cancel() interrupts a sleep or a thread's answer at once; a fetch in a
\* gather has its own tasks end first, and the loop's Event comes later.
Interrupted(r) == loop[r].pc = "sleeping" /\ ~Queued(Runs(r))

\* Fault: the task is cancelled and not awaited.
StopUnawaited(r) ==
  /\ Turn(Handles(r)) /\ request[r] = "arrived"
  /\ running' = FALSE
  /\ current' = None
  /\ request' = [request EXCEPT ![r] = "done"]
  /\ ready' = Tail(ready)
  /\ loop' = IF current = None THEN loop ELSE [loop EXCEPT ![current].cancelled = TRUE]
  /\ UNCHANGED history

\* stop, up to its await: there is no task, it has ended, or it is cancelled and
\* awaited.
Stop(r) ==
  /\ Turn(Handles(r)) /\ request[r] = "arrived"
  /\ running' = FALSE
  /\ \/ /\ ~HasLiveTask
        /\ current' = None
        /\ request' = [request EXCEPT ![r] = "done"]
        /\ ready' = Tail(ready)
        /\ UNCHANGED loop
     \/ /\ HasLiveTask
        /\ request' = [request EXCEPT ![r] = "awaiting"]
        /\ loop' = [loop EXCEPT ![current].cancelled = TRUE,
                                ![current].waiters = Append(@, r)]
        /\ \/ ready' = Append(Tail(ready), Runs(current)) /\ ~Queued(Runs(current))
           \/ ready' = Tail(ready) /\ ~Interrupted(current)
        /\ UNCHANGED current
  /\ UNCHANGED history

\* ... and after it: whatever task there is now is dropped, which need not be the
\* one that was awaited.
Stopped(r) ==
  /\ Turn(Handles(r)) /\ request[r] = "awaiting"
  /\ current' = None
  /\ request' = [request EXCEPT ![r] = "done"]
  /\ ready' = Tail(ready)
  /\ lost' = lost \cup {q \in StartRequest : q = current /\ Live(q)}
  /\ UNCHANGED <<running, loop, overlapped, seen>>

\* Fault: a cancellation is caught like a failed cycle, and nothing asks whether
\* the loop still runs.
ContinueAnyway(r) ==
  /\ Turn(Runs(r)) /\ loop[r].pc # "done"
  /\ loop' = [loop EXCEPT ![r].pc = IF @ = "working" THEN "sleeping" ELSE "working"]
  /\ ready' = Tail(ready)
  /\ UNCHANGED <<running, current, request, history>>

\* _run goes on to the next await of its cycle, whose failures it catches, and at
\* the top of the loop asks whether it still runs.
Continue(r) ==
  /\ Turn(Runs(r)) /\ ~loop[r].cancelled
  /\ \/ loop[r].pc = "working" /\ loop' = [loop EXCEPT ![r].pc = "sleeping"]
     \/ loop[r].pc \in {"new", "sleeping"} /\ running /\ loop' = [loop EXCEPT ![r].pc = "working"]
     \/ loop[r].pc = "working" /\ UNCHANGED loop
  /\ ready' = Tail(ready)
  /\ UNCHANGED <<running, current, request, history>>

\* _run ends, cancelled or at the top of the loop: whoever awaits it is ready.
End(r) ==
  /\ Turn(Runs(r))
  /\ loop[r].cancelled \/ (loop[r].pc \in {"new", "sleeping"} /\ ~running)
  /\ loop' = [loop EXCEPT ![r].pc = "done"]
  /\ ready' = Tail(ready) \o [i \in DOMAIN loop[r].waiters |-> Handles(loop[r].waiters[i])]
  /\ UNCHANGED <<running, current, request, history>>

LoopStep(r) == Event(r) \/ Continue(r) \/ End(r)
WorkerNext == \/ \E r \in Request : Arrive(r)
              \/ \E r \in StartRequest : Start(r) \/ LoopStep(r)
              \/ \E r \in StopRequest : Stop(r) \/ Stopped(r)

WorkerSpec == WorkerInit /\ [][WorkerNext]_workerVars

\* The event loop runs what is ready, and what a loop awaits ends.
Fairness == /\ \A r \in StartRequest : WF_workerVars(Start(r)) /\ WF_workerVars(LoopStep(r))
            /\ \A r \in StopRequest : WF_workerVars(Stop(r) \/ Stopped(r))

FairSpec == WorkerSpec /\ Fairness
----------------------------------------------------------------------------
\* Two loops would fetch and pay for everything twice, and only one could be
\* stopped: a loop that lives is the worker's task, or one that a stop dropped.
\* That takes a stop that resumes after another one returned and a start made a
\* new task, so two stops at once: POST /screen/ops/worker/stop and the
\* shutdown, or two of the former.
OneLoop == /\ \A r \in StartRequest : Live(r) => current = r \/ r \in lost
           /\ lost # {} => overlapped

\* /readyz is degraded when the worker is not running, and only then: while no
\* stop is under way, a loop that was not dropped lives if and only if the status
\* says so.
StatusTruthful ==
  (\A s \in StopRequest : ~UnderWay(s)) =>
    (StatusRunning <=> \E r \in StartRequest \ lost : Live(r))

\* Whatever the order of starts and stops, the worker knows its loop: there is
\* one at most, and the status tells of it.  Stops that overlap may drop a loop;
\* that one apart, it holds of them too.
LoopTracked == WorkerTypeOK /\ OneLoop /\ StatusTruthful

\* A stop that was asked for ends, even if the loop is amid a fetch.
StopEnds == \A s \in StopRequest : request[s] = "arrived" ~> request[s] = "done"

\* When a stop returns, every loop that there was when it came has ended, but for
\* those that overlapping stops dropped.
StopIsEffective ==
  [][\A s \in StopRequest : request[s] # "done" /\ request'[s] = "done"
       => \A r \in seen[s] \ lost' : loop'[r].pc = "done"]_workerVars
=============================================================================
