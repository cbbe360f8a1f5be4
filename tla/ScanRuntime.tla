----------------------------- MODULE ScanRuntime -----------------------------
(***************************************************************************)
(* Scan requests around their scans: _run_cancellable_scan and the scan    *)
(* registry, POST /screen/cancel, scan_progress_scope and the progress     *)
(* websockets, the stages a scan goes through, and the waves of symbol     *)
(* fetches in fetch_batches.  What a stage computes is left out.           *)
(*                                                                         *)
(* asyncio switches tasks at an await.  Emitting progress awaits each      *)
(* send, so the sockets that were read before may be gone when their turn  *)
(* comes.  Symbols are numbered by their place in the request; a child is  *)
(* the task that fetches one of them in the scan's present wave.           *)
(*                                                                         *)
(* A definition whose comment starts with "Fault:" is no part of the       *)
(* specification, see GateSessions.                                        *)
(***************************************************************************)
EXTENDS Naturals, Sequences, FiniteSets

CONSTANTS
  Scan,         \* scan requests
  ScanId,       \* X-Scan-Id headers
  IdOf,         \* the header of each request, chosen by its client
  NoScan,       \* no entry in the registry
  Socket,       \* progress websockets
  TopicOf,      \* the scan_id each socket asks for
  Pipeline,     \* the stages each scan goes through, in their order
  Symbols,      \* how many symbols a wave fetches at most
  Concurrency   \* a wave's semaphore

ASSUME ScanAssumption == /\ NoScan \notin Scan
                         /\ IdOf \in [Scan -> ScanId] /\ TopicOf \in [Socket -> ScanId]
ASSUME NumberAssumption == Symbols \in Nat /\ Concurrency \in Nat \ {0}
ASSUME PipelineAssumption == Pipeline \in [Scan -> Seq(STRING)]

Symbol == 1 .. Symbols

\* The stages that fetch what the cache misses symbol by symbol: the scan's own
\* candles, and the daily ones of two filters.
FetchStage == {"fetching_market_data", "adr", "gap_exclusion"}

\* The stages that end without a message; building_universe does in run_entry.
Unclosed == {"channel_respect", "confluence"}
MaybeUnclosed == Unclosed \cup {"building_universe"}

VARIABLES
  registry,      \* _tasks
  connections,   \* _connections
  socket,        \* the websocket endpoints
  scan,          \* the requests and their scan tasks
  child,         \* the fetch tasks
  heard          \* history: the last message of each scan that each socket got
vars == <<registry, connections, socket, scan, child, heard>>

\* A message's place in the scan: the stage it is sent in, and its number there.
\* A stage opens, counts the symbols of its wave, and closes.  On the wire each
\* wave's counts carry the one label fetching_market_data and begin again at 1;
\* which wave they are of is told by the stages before.
Nothing == <<0, 0>>
Started == <<0, 1>>
Opening(p) == <<p, 0>>
Fetched(p, n) == <<p, n>>
Closing(p) == <<p, Symbols + 1>>
Completed(s) == <<Len(Pipeline[s]) + 1, 0>>
Place == Nat \X (0 .. Symbols + 1)

Later(p, q) == p[1] > q[1] \/ (p[1] = q[1] /\ p[2] > q[2])

Ended == {"answered", "failed", "cancelled"}

\* pc is the request's place; stage its scan task's: between two stages of the
\* pipeline, at work in the one numbered step, or waiting for a wave of its.
\* asked, whether cancel said yes; got, how many results of the wave it has;
\* todo, stale and place, the emission that the request or its task is in.
ScanState == [pc : {"idle", "starting", "running", "completing", "over"},
              stage : {"none", "between", "working", "waiting"} \cup Ended,
              step : Nat, asked : BOOLEAN, got : 0 .. Symbols,
              todo : SUBSET Socket, stale : SUBSET Socket, place : Place]

TypeOK == /\ registry \in [ScanId -> Scan \cup {NoScan}]
          /\ connections \in [ScanId -> SUBSET Socket]
          /\ socket \in [Socket -> {"new", "open", "gone", "closed"}]
          /\ scan \in [Scan -> ScanState]
          /\ child \in [Scan -> [Symbol -> {"none", "waiting", "fetching", "fetched", "done"}]]
          /\ heard \in [Socket -> [Scan -> Place]]

Init == /\ registry = [i \in ScanId |-> NoScan]
        /\ connections = [i \in ScanId |-> {}]
        /\ socket = [w \in Socket |-> "new"]
        /\ scan = [s \in Scan |-> [pc |-> "idle", stage |-> "none", step |-> 0,
                                   asked |-> FALSE, got |-> 0,
                                   todo |-> {}, stale |-> {}, place |-> Nothing]]
        /\ child = [s \in Scan |-> [c \in Symbol |-> "none"]]
        /\ heard = [w \in Socket |-> [s \in Scan |-> Nothing]]
----------------------------------------------------------------------------
(* Progress *)

\* emit reads the sockets of the scan's id; who awaits it goes on after the last.
Emitting(s, record, place) ==
  [record EXCEPT !.todo = connections[IdOf[s]], !.stale = {}, !.place = place]

Silent(s) == scan[s].todo = {} /\ scan[s].stale = {}

\* One send of an emission.  A socket whose client left may fail.
Send(s, w) ==
  /\ w \in scan[s].todo
  /\ \/ /\ socket[w] = "open"
        /\ heard' = [heard EXCEPT ![w][s] = scan[s].place]
        /\ scan' = [scan EXCEPT ![s].todo = @ \ {w}]
     \/ /\ socket[w] # "open"
        /\ scan' = [scan EXCEPT ![s] = [scan[s] EXCEPT !.todo = @ \ {w}, !.stale = @ \cup {w}]]
        /\ UNCHANGED heard
  /\ UNCHANGED <<registry, connections, socket, child>>

\* The sockets that failed are unsubscribed after the last send.
DropStale(s) ==
  /\ scan[s].todo = {} /\ scan[s].stale # {}
  /\ connections' = [connections EXCEPT ![IdOf[s]] = @ \ scan[s].stale]
  /\ scan' = [scan EXCEPT ![s].stale = {}]
  /\ UNCHANGED <<registry, socket, child, heard>>

\* The websocket endpoint: subscribe, receive until the client leaves, unsubscribe.
Subscribe(w) ==
  /\ socket[w] = "new"
  /\ socket' = [socket EXCEPT ![w] = "open"]
  /\ connections' = [connections EXCEPT ![TopicOf[w]] = @ \cup {w}]
  /\ UNCHANGED <<registry, scan, child, heard>>

Leave(w) ==
  /\ socket[w] = "open"
  /\ socket' = [socket EXCEPT ![w] = "gone"]
  /\ UNCHANGED <<registry, connections, scan, child, heard>>

\* Fault: the endpoint just returns.
UnsubscribeNothing(w) ==
  /\ socket[w] = "gone"
  /\ socket' = [socket EXCEPT ![w] = "closed"]
  /\ UNCHANGED <<registry, connections, scan, child, heard>>

Unsubscribe(w) ==
  /\ socket[w] = "gone"
  /\ socket' = [socket EXCEPT ![w] = "closed"]
  /\ connections' = [connections EXCEPT ![TopicOf[w]] = @ \ {w}]
  /\ UNCHANGED <<registry, scan, child, heard>>
----------------------------------------------------------------------------
(* The request *)

\* scan_progress_scope announces the scan before it is a task.
Begin(s) ==
  /\ scan[s].pc = "idle"
  /\ scan' = [scan EXCEPT ![s] = Emitting(s, [@ EXCEPT !.pc = "starting"], Started)]
  /\ UNCHANGED <<registry, connections, socket, child, heard>>

\* _run_cancellable_scan up to its await.
Register(s) ==
  /\ scan[s].pc = "starting" /\ Silent(s)
  /\ registry' = [registry EXCEPT ![IdOf[s]] = s]
  /\ scan' = [scan EXCEPT ![s] = [@ EXCEPT !.pc = "running", !.stage = "between"]]
  /\ UNCHANGED <<connections, socket, child, heard>>

\* ... and after it: whatever is registered under the id is removed, and a scan
\* that answered is announced as completed.
Handle(s) ==
  /\ scan[s].pc = "running" /\ scan[s].stage \in Ended
  /\ registry' = [registry EXCEPT ![IdOf[s]] = NoScan]
  /\ scan' = [scan EXCEPT ![s] = IF @.stage = "answered"
                THEN Emitting(s, [@ EXCEPT !.pc = "completing"], Completed(s))
                ELSE [@ EXCEPT !.pc = "over"]]
  /\ UNCHANGED <<connections, socket, child, heard>>

Complete(s) ==
  /\ scan[s].pc = "completing" /\ Silent(s)
  /\ scan' = [scan EXCEPT ![s].pc = "over"]
  /\ UNCHANGED <<registry, connections, socket, child, heard>>

\* POST /screen/cancel: true if the id has a task that is not done.
Cancel(i) ==
  /\ registry[i] # NoScan
  /\ scan[registry[i]].stage \notin Ended
  /\ scan' = [scan EXCEPT ![registry[i]].asked = TRUE]
  /\ UNCHANGED <<registry, connections, socket, child, heard>>
----------------------------------------------------------------------------
(* The scan task *)

\* A task that is to be cancelled takes no other step than Stop.
Runs(s, stage) == scan[s].stage = stage /\ ~scan[s].asked /\ Silent(s)

\* The stage that the task is in, or that it has just left.
StageOf(s) == Pipeline[s][scan[s].step]

\* Every result of the wave is taken.
WaveOver(s) == \A c \in Symbol : child[s][c] \in {"none", "done"}

Open(s) ==
  /\ Runs(s, "between") /\ scan[s].step < Len(Pipeline[s])
  /\ scan' = [scan EXCEPT ![s] = Emitting(s, [scan[s] EXCEPT !.stage = "working", !.step = @ + 1],
                                          Opening(scan[s].step + 1))]
  /\ UNCHANGED <<registry, connections, socket, child, heard>>

\* A wave over the symbols that the cache misses, which may be all or none.
Fetch(s) ==
  /\ Runs(s, "working") /\ StageOf(s) \in FetchStage
  /\ scan' = [scan EXCEPT ![s] = [scan[s] EXCEPT !.stage = "waiting", !.got = 0]]
  /\ \E n \in Symbol :
       child' = [child EXCEPT ![s] = [c \in Symbol |-> IF c <= n THEN "waiting" ELSE "none"]]
  /\ UNCHANGED <<registry, connections, socket, heard>>

\* Fault: progress is numbered by the symbol's place.
ConsumeByPlace(s) ==
  /\ Runs(s, "waiting")
  /\ \E c \in Symbol :
       /\ child[s][c] = "fetched"
       /\ child' = [child EXCEPT ![s][c] = "done"]
       /\ scan' = [scan EXCEPT ![s] = Emitting(s, [scan[s] EXCEPT !.got = @ + 1],
                                               Fetched(scan[s].step, c))]
  /\ UNCHANGED <<registry, connections, socket, heard>>

\* The next result, whichever symbol's it is, and a message that counts it.
Consume(s) ==
  /\ Runs(s, "waiting")
  /\ \E c \in Symbol :
       /\ child[s][c] = "fetched"
       /\ child' = [child EXCEPT ![s][c] = "done"]
       /\ scan' = [scan EXCEPT ![s] = Emitting(s, [scan[s] EXCEPT !.got = @ + 1],
                                               Fetched(scan[s].step, scan[s].got + 1))]
  /\ UNCHANGED <<registry, connections, socket, heard>>

\* The stage's work is done, its wave's too if it had one.
Finished(s) == Runs(s, "working") \/ (Runs(s, "waiting") /\ WaveOver(s))

Close(s) ==
  /\ Finished(s)
  /\ \/ /\ StageOf(s) \notin Unclosed
        /\ scan' = [scan EXCEPT ![s] = Emitting(s, [scan[s] EXCEPT !.stage = "between"],
                                                Closing(scan[s].step))]
     \/ /\ StageOf(s) \in MaybeUnclosed
        /\ scan' = [scan EXCEPT ![s].stage = "between"]
  /\ UNCHANGED <<registry, connections, socket, child, heard>>

\* A scan answers after its last stage, or early: an entry scan without its gate
\* session, any scan without market data.
MayAnswer(s) == scan[s].step \in {0, Len(Pipeline[s])}
                  \cup {p \in DOMAIN Pipeline[s] : Pipeline[s][p] = "fetching_market_data"}

\* Fault: a filter swallows a cancellation.
AnswerShielded(s) ==
  /\ scan[s].stage = "between" /\ Silent(s) /\ MayAnswer(s)
  /\ scan' = [scan EXCEPT ![s].stage = "answered"]
  /\ UNCHANGED <<registry, connections, socket, child, heard>>

Answer(s) ==
  /\ Runs(s, "between") /\ MayAnswer(s)
  /\ scan' = [scan EXCEPT ![s].stage = "answered"]
  /\ UNCHANGED <<registry, connections, socket, child, heard>>

Fail(s) ==
  /\ Runs(s, "between") \/ Finished(s)
  /\ scan' = [scan EXCEPT ![s].stage = "failed"]
  /\ UNCHANGED <<registry, connections, socket, child, heard>>

\* The cancellation is raised at the task's await, also amid an emission.  The
\* children are tasks of their own and go on.
Stop(s) ==
  /\ scan[s].asked /\ scan[s].stage \notin Ended
  /\ scan' = [scan EXCEPT ![s] = [@ EXCEPT !.stage = "cancelled", !.todo = {}, !.stale = {}]]
  /\ UNCHANGED <<registry, connections, socket, child, heard>>
----------------------------------------------------------------------------
(* The children *)

\* Fault: a place in the wave is never given back.
AcquireForGood(s, c) ==
  /\ child[s][c] = "waiting"
  /\ Cardinality({d \in Symbol : child[s][d] \notin {"none", "waiting"}}) < Concurrency
  /\ child' = [child EXCEPT ![s][c] = "fetching"]
  /\ UNCHANGED <<registry, connections, socket, scan, heard>>

Acquire(s, c) ==
  /\ child[s][c] = "waiting"
  /\ Cardinality({d \in Symbol : child[s][d] = "fetching"}) < Concurrency
  /\ child' = [child EXCEPT ![s][c] = "fetching"]
  /\ UNCHANGED <<registry, connections, socket, scan, heard>>

\* A fetch that raises ends like any other, with the exception as its result.
FetchEnds(s, c) ==
  /\ child[s][c] = "fetching"
  /\ child' = [child EXCEPT ![s][c] = "fetched"]
  /\ UNCHANGED <<registry, connections, socket, scan, heard>>

ScanStep(s) == \/ Register(s) \/ Handle(s) \/ Complete(s) \/ DropStale(s)
               \/ Open(s) \/ Fetch(s) \/ Consume(s) \/ Close(s)
               \/ Answer(s) \/ Fail(s) \/ Stop(s)
               \/ \E w \in Socket : Send(s, w)
ChildStep(s, c) == Acquire(s, c) \/ FetchEnds(s, c)

Next == \/ \E s \in Scan : Begin(s) \/ ScanStep(s)
        \/ \E s \in Scan, c \in Symbol : ChildStep(s, c)
        \/ \E i \in ScanId : Cancel(i)
        \/ \E w \in Socket : Subscribe(w) \/ Leave(w) \/ Unsubscribe(w)

Spec == Init /\ [][Next]_vars

\* Ready tasks run, provider calls end within their timeout, and a send to a
\* client that does not read ends with the server's websocket ping timeout.
Fairness == /\ \A s \in Scan : WF_vars(ScanStep(s))
            /\ \A s \in Scan, c \in Symbol : WF_vars(ChildStep(s, c))
            /\ \A w \in Socket : WF_vars(Unsubscribe(w))

FairSpec == Spec /\ Fairness
----------------------------------------------------------------------------
\* A client that was told its scan is cancelled gets no answer of it, however
\* near its end the scan was.
CancelledNeverAnswers == \A s \in Scan : scan[s].asked => scan[s].stage # "answered"

\* The registry keeps no request that is over, so it does not grow for good.
RegistryLive == \A i \in ScanId : registry[i] # NoScan => scan[registry[i]].pc = "running"

\* A wave never has more than Concurrency provider calls under way, not even when
\* its scan was cancelled and the children run on.
FetchesBounded ==
  \A s \in Scan : Cardinality({c \in Symbol : child[s][c] = "fetching"}) <= Concurrency

\* A request ends as its client was told, and leaves nothing behind: no answer
\* after a cancel, no entry in the registry, no fetch beyond the wave's bound.
RequestsKept == TypeOK /\ CancelledNeverAnswers /\ RegistryLive /\ FetchesBounded

\* A socket hears of a scan in order: started; stage by stage in the pipeline's
\* order, in each its opening, the counts of its wave upwards and its closing;
\* completed, and that only of a scan that answered.  So a count that begins again
\* is always that of a later stage's wave, never a late message of an earlier one.
ProgressInOrder ==
  [][\A w \in Socket, s \in Scan :
       heard'[w][s] # heard[w][s] => /\ Later(heard'[w][s], heard[w][s])
                                     /\ heard'[w][s] = Completed(s) => scan[s].stage = "answered"]_vars

\* Every scan request ends, and its fetches with it.
EverythingEnds ==
  \A s \in Scan : scan[s].pc = "starting" ~>
    scan[s].pc = "over" /\ \A c \in Symbol : child[s][c] \in {"none", "fetched", "done"}

\* A client that left is not sent to for ever.
GoneIsForgotten ==
  \A w \in Socket : socket[w] = "gone" ~> \A i \in ScanId : w \notin connections[i]
=============================================================================
