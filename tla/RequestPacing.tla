---------------------------- MODULE RequestPacing ----------------------------
(***************************************************************************)
(* One provider's request pacing: _polygon_get_json or _binance_get_json   *)
(* run by several tasks that share an HTTP client, a rate lock and the     *)
(* next request time, with 429 push-back, retries and cancellation.        *)
(*                                                                         *)
(* asyncio switches tasks only at an await.  A task holds the rate lock    *)
(* over an await only while it sleeps towards its slot; taking the lock    *)
(* without waiting, setting the next request time and sending is one step. *)
(*                                                                         *)
(* Times are relative: "until" is _polygon_next_request_at minus now, but  *)
(* at least 0, which is all that max(_polygon_next_request_at, now) can    *)
(* tell; sleeps count down.  requests_per_second = 0 switches the limiter  *)
(* off and is left out.                                                    *)
(*                                                                         *)
(* The Massive (Polygon) requests reset the client after a transport       *)
(* error, the Binance requests never do: Resets.                           *)
(*                                                                         *)
(* A definition whose comment starts with "Fault:" is no part of the       *)
(* specification, see GateSessions.                                        *)
(***************************************************************************)
EXTENDS Integers, Sequences

CONSTANTS
  Task,         \* calls of the get_json function
  NoTask,       \* nobody
  Weight,       \* min_interval of each call, in ticks
  Retries,      \* DOWNLOAD_RETRIES
  RetryBackoff, \* the sleep before a retry: 0.5 s, 5 s or 15 s times the attempt
  RetryAfter,   \* the Retry-After headers the provider may send
  Resets        \* whether a transport error closes the shared client

ASSUME TaskAssumption == NoTask \notin Task
ASSUME WeightAssumption == Weight \in [Task -> Nat \ {0}]
ASSUME RetryAssumption == /\ Retries \in Nat \ {0} /\ RetryBackoff \in Nat \ {0}
                          /\ RetryAfter \subseteq Nat \ {0} /\ Resets \in BOOLEAN

VARIABLES
  until,    \* _polygon_next_request_at - now, at least 0
  holder,   \* who holds _polygon_rate_lock over an await
  queue,    \* who waits for it, first come first served
  client,   \* _polygon_client: none, open, one that is being closed, or dead:
            \* closed, and still the one that is handed out
  task,     \* the calls
  owed      \* history: the ticks the provider is still owed without a request,
            \* by the last request's interval and by Retry-After
pacingVars == <<until, holder, queue, client, task, owed>>

\* cl says whether the client a call holds is still open.
TaskState == [pc : {"idle", "getting", "queued", "sleeping", "inflight", "broken",
                    "closing", "awaiting", "pushing", "backing", "done"},
              attempt : 1 .. Retries, cl : {"none", "open", "closed"}, sleep : Nat,
              result : {"none", "ok", "failed", "closed", "cancelled"}]

PacingTypeOK == /\ until \in Nat
                /\ holder \in Task \cup {NoTask}
                /\ queue \in Seq(Task)
                /\ client \in {"none", "open", "closing", "dead"}
                /\ task \in [Task -> TaskState]
                /\ owed \in Nat

PacingInit == /\ until = 0
              /\ holder = NoTask
              /\ queue = <<>>
              /\ client = "none"
              /\ task = [t \in Task |-> [pc |-> "idle", attempt |-> 1, cl |-> "none",
                                         sleep |-> 0, result |-> "none"]]
              /\ owed = 0

Larger(a, b) == IF a >= b THEN a ELSE b
Less(n) == IF n = 0 THEN 0 ELSE n - 1
----------------------------------------------------------------------------
(* Getting the client and a slot *)

\* The call ends with the given result.
CallEnded(t, result) == [task[t] EXCEPT !.pc = "done", !.sleep = 0, !.result = result]

\* A call queues for the rate lock.
InLine(t) == [task[t] EXCEPT !.pc = "queued"]

StartCall(t) ==
  /\ task[t].pc = "idle"
  /\ task' = [task EXCEPT ![t].pc = "getting"]
  /\ UNCHANGED <<until, holder, queue, client, owed>>

\* _get_polygon_client: a client that is being closed, or was closed and never
\* replaced, is not None and is handed out like any other.
GetClient(t) ==
  /\ task[t].pc = "getting"
  /\ client' = IF client = "none" THEN "open" ELSE client
  /\ task' = [task EXCEPT ![t] =
                [InLine(t) EXCEPT !.cl = IF client \in {"none", "open"} THEN "open"
                                                                       ELSE "closed"]]
  /\ queue' = Append(queue, t)
  /\ UNCHANGED <<until, holder, owed>>

\* The slot is taken and the request goes out; a closed client raises at once,
\* with an error that is neither a transport nor a status error.
Send(t) ==
  /\ task' = [task EXCEPT ![t] =
                IF task[t].cl = "open" THEN [@ EXCEPT !.pc = "inflight", !.sleep = 0]
                                       ELSE CallEnded(t, "closed")]
  /\ until' = until + Weight[t]
  /\ owed' = Larger(owed, Weight[t])
  /\ holder' = NoTask

First(t) == holder = NoTask /\ queue # <<>> /\ Head(queue) = t

\* Fault: the lock is given up for the sleep.
AcquireUnlocked(t) ==
  /\ First(t) /\ task[t].pc = "queued"
  /\ queue' = Tail(queue)
  /\ IF until = 0
       THEN Send(t)
       ELSE /\ task' = [task EXCEPT ![t].pc = "sleeping", ![t].sleep = until]
            /\ UNCHANGED <<until, holder, owed>>
  /\ UNCHANGED client

\* _polygon_wait_for_request_slot with the lock at hand: send, or sleep first.
Acquire(t) ==
  /\ First(t) /\ task[t].pc = "queued"
  /\ queue' = Tail(queue)
  /\ IF until = 0
       THEN Send(t)
       ELSE /\ task' = [task EXCEPT ![t].pc = "sleeping", ![t].sleep = until]
            /\ holder' = t
            /\ UNCHANGED <<until, owed>>
  /\ UNCHANGED client

Wake(t) ==
  /\ task[t].pc = "sleeping" /\ task[t].sleep = 0
  /\ Send(t)
  /\ UNCHANGED <<queue, client>>
----------------------------------------------------------------------------
(* Answers *)

Succeed(t) ==
  /\ task[t].pc = "inflight"
  /\ task' = [task EXCEPT ![t] = CallEnded(t, "ok")]
  /\ UNCHANGED <<until, holder, queue, client, owed>>

\* A status that is not retried, or an error status on the last attempt.
Refuse(t) ==
  /\ task[t].pc = "inflight"
  /\ task' = [task EXCEPT ![t] = CallEnded(t, "failed")]
  /\ UNCHANGED <<until, holder, queue, client, owed>>

\* A retried status: with Retry-After the call queues for the lock to push back
\* the next request, else it backs off.
Reject(t) ==
  /\ task[t].pc = "inflight" /\ task[t].attempt < Retries
  /\ \/ /\ task' = [task EXCEPT ![t].pc = "backing", ![t].sleep = RetryBackoff]
        /\ UNCHANGED queue
     \/ \E d \in RetryAfter :
          /\ task' = [task EXCEPT ![t].pc = "pushing", ![t].sleep = d]
          /\ queue' = Append(queue, t)
  /\ UNCHANGED <<until, holder, client, owed>>

\* _polygon_push_back_next_request counts from when it gets the lock.
PushBack(t) ==
  /\ First(t) /\ task[t].pc = "pushing"
  /\ queue' = Tail(queue)
  /\ until' = Larger(until, task[t].sleep)
  /\ owed' = Larger(owed, task[t].sleep)
  /\ task' = [task EXCEPT ![t].pc = "backing", ![t].sleep = Larger(RetryBackoff, task[t].sleep)]
  /\ UNCHANGED <<holder, client>>

\* A transport error: a Binance call fails, a Massive call closes the client.
Break(t) ==
  /\ task[t].pc = "inflight"
  /\ task' = [task EXCEPT ![t] = IF Resets THEN [@ EXCEPT !.pc = "broken"]
                                           ELSE CallEnded(t, "failed")]
  /\ UNCHANGED <<until, holder, queue, client, owed>>

\* After the reset: raise on the last attempt, else back off.
AfterReset(r) ==
  IF r.attempt = Retries
    THEN [r EXCEPT !.pc = "done", !.sleep = 0, !.result = "failed"]
    ELSE [r EXCEPT !.pc = "backing", !.sleep = RetryBackoff]

\* close_polygon_client, before the first await in aclose: whichever client is
\* there is closed, and fails the calls that hold it and have not sent.
CloseStart(t) ==
  /\ task[t].pc = "broken"
  /\ IF client = "none"
       THEN /\ task' = [task EXCEPT ![t] = AfterReset(task[t])]
            /\ UNCHANGED client
     ELSE IF client = "closing"
       THEN /\ task' = [task EXCEPT ![t].pc = "awaiting"]
            /\ UNCHANGED client
     ELSE /\ client' = "closing"
          /\ task' = [u \in Task |->
                        IF u = t THEN [task[u] EXCEPT !.pc = "closing", !.cl = "closed"]
                        ELSE IF task[u].cl = "open" THEN [task[u] EXCEPT !.cl = "closed"]
                        ELSE task[u]]
  /\ UNCHANGED <<until, holder, queue, owed>>

\* ... and after it: no client, and no next request time.  Who waited for the
\* client lock finds no client and goes on.
CloseEnd(t) ==
  /\ task[t].pc = "closing"
  /\ client' = "none"
  /\ until' = 0
  /\ owed' = 0
  /\ task' = [u \in Task |-> IF u = t \/ task[u].pc = "awaiting" THEN AfterReset(task[u])
                             ELSE task[u]]
  /\ UNCHANGED <<holder, queue>>

\* A retry: a Massive call asks for the client again, a Binance call keeps the
\* one it has.
Retry(t) ==
  /\ task[t].pc = "backing" /\ task[t].sleep = 0
  /\ IF Resets
       THEN /\ task' = [task EXCEPT ![t].pc = "getting", ![t].attempt = @ + 1]
            /\ UNCHANGED queue
       ELSE /\ task' = [task EXCEPT ![t].pc = "queued", ![t].attempt = @ + 1]
            /\ queue' = Append(queue, t)
  /\ UNCHANGED <<until, holder, client, owed>>
----------------------------------------------------------------------------
\* A waiter leaves the queue.
LeaveQueue(t) ==
  \/ (\A i \in DOMAIN queue : queue[i] # t) /\ UNCHANGED queue
  \/ \E i \in DOMAIN queue : /\ queue[i] = t
                            /\ queue' = SubSeq(queue, 1, i - 1) \o SubSeq(queue, i + 1, Len(queue))

\* Fault: a cancelled sleeper keeps the lock.
CancelHolding(t) ==
  /\ task[t].pc \notin {"idle", "done"}
  /\ LeaveQueue(t)
  /\ client' = IF task[t].pc = "closing" THEN "dead" ELSE client
  /\ task' = [u \in Task |->
                IF u = t THEN CallEnded(t, "cancelled")
                ELSE IF task[t].pc = "closing" /\ task[u].pc = "awaiting"
                  THEN [task[u] EXCEPT !.pc = "broken"]
                ELSE task[u]]
  /\ UNCHANGED <<until, holder, owed>>

\* The call is cancelled at an await.  Both locks are given back; a client whose
\* aclose is cancelled stays in place, and the next who waited closes it again.
Cancel(t) ==
  /\ task[t].pc \notin {"idle", "done"}
  /\ LeaveQueue(t)
  /\ holder' = IF holder = t THEN NoTask ELSE holder
  /\ client' = IF task[t].pc = "closing" THEN "dead" ELSE client
  /\ task' = [u \in Task |->
                IF u = t THEN CallEnded(t, "cancelled")
                ELSE IF task[t].pc = "closing" /\ task[u].pc = "awaiting"
                  THEN [task[u] EXCEPT !.pc = "broken"]
                ELSE task[u]]
  /\ UNCHANGED <<until, owed>>

PacingTick ==
  /\ until > 0 \/ \E t \in Task : task[t].pc \in {"sleeping", "backing"} /\ task[t].sleep > 0
  /\ until' = Less(until)
  /\ owed' = Less(owed)
  /\ task' = [t \in Task |-> IF task[t].pc \in {"sleeping", "backing"}
                               THEN [task[t] EXCEPT !.sleep = Less(@)] ELSE task[t]]
  /\ UNCHANGED <<holder, queue, client>>

Step(t) == \/ GetClient(t) \/ Acquire(t) \/ Wake(t)
           \/ Succeed(t) \/ Refuse(t) \/ Reject(t) \/ PushBack(t) \/ Break(t)
           \/ CloseStart(t) \/ CloseEnd(t) \/ Retry(t)

PacingNext == PacingTick \/ \E t \in Task : StartCall(t) \/ Step(t) \/ Cancel(t)

PacingSpec == PacingInit /\ [][PacingNext]_pacingVars

\* The event loop runs every ready task, timers fire, and the provider answers
\* within the client's timeout: all but StartCall and Cancel goes on by
\* itself.
PacingFairness == WF_pacingVars(PacingTick) /\ \A t \in Task : WF_pacingVars(Step(t))

FairPacingSpec == PacingSpec /\ PacingFairness
----------------------------------------------------------------------------
\* No request goes out before the interval of the one before it and every
\* Retry-After that was pushed back have passed, whoever sleeps, pushes back, or
\* is cancelled meanwhile; resetting the client is the one thing that clears it.
Paced == [][\A t \in Task : task[t].pc # "inflight" /\ task'[t].pc = "inflight"
                              => owed = 0]_pacingVars

\* Every call that was started ends, whatever the others do.
EveryCallEnds == \A t \in Task : task[t].pc # "idle" ~> task[t].pc = "done"
=============================================================================
