-------------------------- MODULE ScanRuntimeProofs --------------------------
(***************************************************************************)
(* For any requests, ids, sockets, pipelines of stages, symbols and size of *)
(* a wave: a request ends as its client was told (RequestsKept), and a      *)
(* socket hears of it in order (ProgressInOrder).                           *)
(***************************************************************************)
EXTENDS ScanRuntime, FiniteSetTheorems, TLAPS

USE ScanAssumption, NumberAssumption, PipelineAssumption

Done(s) == {c \in Symbol : child[s][c] = "done"}
Fetching(s) == {c \in Symbol : child[s][c] = "fetching"}

\* A scan's count is that of the results it has taken in its present wave.
Counted == \A s \in Scan : scan[s].got = Cardinality(Done(s))

\* No request is cancelled before it has a task.
Staged == \A s \in Scan :
  scan[s].pc \in {"idle", "starting"} => scan[s].stage = "none" /\ ~scan[s].asked

\* An entry of the registry is under its request's own id, so that the request
\* that removes what is under its id removes itself too.
RegistryKnows == \A i \in ScanId : registry[i] # NoScan => IdOf[registry[i]] = i

\* The inductive invariant.  Counted is what keeps a count within the symbols:
\* a result that is still to be taken is not among those that were.
Inductive == /\ TypeOK /\ CancelledNeverAnswers /\ RegistryLive /\ FetchesBounded
             /\ Counted /\ Staged /\ RegistryKnows

----------------------------------------------------------------------------
(* Places and sets of symbols *)

\* What is announced has a place.
LEMMA Places ==
  /\ Nothing \in Place /\ Started \in Place
  /\ \A s \in Scan : Completed(s) \in Place
  /\ \A p \in Nat : Opening(p) \in Place /\ Closing(p) \in Place
  /\ \A p \in Nat, n \in 0 .. Symbols : Fetched(p, n) \in Place
<1>1. 0 \in 0 .. Symbols + 1 /\ 1 \in 0 .. Symbols + 1 /\ Symbols + 1 \in 0 .. Symbols + 1
  OBVIOUS
<1>2. \A s \in Scan : Len(Pipeline[s]) + 1 \in Nat
  OBVIOUS
<1>3. \A n \in 0 .. Symbols : n \in 0 .. Symbols + 1
  OBVIOUS
<1>4. Nothing \in Place /\ Started \in Place
  BY <1>1 DEF Place, Nothing, Started
<1>5. \A s \in Scan : Completed(s) \in Place
  BY <1>1, <1>2 DEF Place, Completed
<1>6. \A p \in Nat : Opening(p) \in Place /\ Closing(p) \in Place
  BY <1>1 DEF Place, Opening, Closing
<1>7. \A p \in Nat, n \in 0 .. Symbols : Fetched(p, n) \in Place
  BY <1>3 DEF Place, Fetched
<1> QED
  BY <1>4, <1>5, <1>6, <1>7

\* Every set of symbols is finite.
LEMMA SymbolsFinite ==
  /\ IsFiniteSet(Symbol) /\ Cardinality(Symbol) = Symbols
  /\ \A S \in SUBSET Symbol : IsFiniteSet(S) /\ Cardinality(S) \in Nat /\ Cardinality(S) <= Symbols
<1>1. IsFiniteSet(Symbol) /\ Cardinality(Symbol) = Symbols
  BY FS_Interval DEF Symbol
<1> QED
  BY <1>1, FS_Subset, FS_CardinalityType

\* There is room for a result that has not been taken, and taking it counts it.
LEMMA TakeCounts ==
  ASSUME TypeOK, Counted, NEW s \in Scan, NEW c \in Symbol, child[s][c] = "fetched",
         child' = [child EXCEPT ![s][c] = "done"]
  PROVE  scan[s].got + 1 \in 0 .. Symbols /\ scan[s].got + 1 = Cardinality(Done(s)')
<1>1. child \in [Scan -> [Symbol -> {"none", "waiting", "fetching", "fetched", "done"}]]
  BY DEF TypeOK
<1>2. Done(s)' = Done(s) \cup {c} /\ c \notin Done(s)
  BY <1>1 DEF Done
<1>3. Done(s) \in SUBSET Symbol /\ Done(s)' \in SUBSET Symbol
  BY DEF Done
<1>4. Cardinality(Done(s)') = Cardinality(Done(s)) + 1
  BY <1>2, <1>3, SymbolsFinite, FS_AddElement
<1> QED
  BY <1>3, <1>4, SymbolsFinite DEF Counted

----------------------------------------------------------------------------
(* The inductive invariant *)

\* The initial states.
LEMMA InitHolds == Init => Inductive
<1> SUFFICES ASSUME Init PROVE Inductive
  OBVIOUS
<1>1. \A s \in Scan : Done(s) = {} /\ Fetching(s) = {}
  BY DEF Init, Done, Fetching
<1>2. \A s \in Scan : Cardinality(Done(s)) = 0 /\ Cardinality(Fetching(s)) = 0
  BY <1>1, FS_EmptySet
<1>3. TypeOK
  <2>1. 0 \in 0 .. Symbols
    OBVIOUS
  <2>2. [pc |-> "idle", stage |-> "none", step |-> 0, asked |-> FALSE, got |-> 0,
         todo |-> {}, stale |-> {}, place |-> Nothing] \in ScanState
    BY <2>1, Places DEF ScanState, Ended
  <2>3. scan \in [Scan -> ScanState]
    BY <2>2 DEF Init
  <2> QED
    <3>1. heard \in [Socket -> [Scan -> Place]]
      BY Places DEF Init
    <3>2. child \in [Scan -> [Symbol -> {"none", "waiting", "fetching", "fetched", "done"}]]
      BY DEF Init
    <3> QED
      BY <2>3, <3>1, <3>2 DEF Init, TypeOK
<1>4. FetchesBounded
  <2>1. \A s \in Scan : Cardinality(Fetching(s)) <= Concurrency
    BY <1>2
  <2> QED
    BY <2>1 DEF FetchesBounded, Fetching
<1>5. Counted
  BY <1>2 DEF Init, Counted
<1>6. CancelledNeverAnswers /\ RegistryLive /\ Staged /\ RegistryKnows
  BY DEF Init, CancelledNeverAnswers, RegistryLive, Staged, RegistryKnows
<1> QED
  BY <1>3, <1>4, <1>5, <1>6 DEF Inductive

\* A step that rewrites a scan's record with one of its own kind.
LEMMA Rewrites ==
  ASSUME TypeOK, NEW s \in Scan, NEW e \in ScanState, scan' = [scan EXCEPT ![s] = e]
  PROVE  /\ scan' \in [Scan -> ScanState]
         /\ scan'[s] = e /\ \A r \in Scan : r # s => scan'[r] = scan[r]
BY DEF TypeOK

\* Emitting keeps a record but for what is being sent.
LEMMA EmittingType ==
  ASSUME TypeOK, NEW s \in Scan, NEW e \in ScanState, NEW place \in Place
  PROVE  /\ Emitting(s, e, place) \in ScanState
         /\ Emitting(s, e, place).pc = e.pc /\ Emitting(s, e, place).stage = e.stage
         /\ Emitting(s, e, place).asked = e.asked /\ Emitting(s, e, place).got = e.got
         /\ Emitting(s, e, place).step = e.step /\ Emitting(s, e, place).place = place
<1>1. connections[IdOf[s]] \in SUBSET Socket
  BY DEF TypeOK
<1> QED
  BY <1>1 DEF Emitting, ScanState

\* A step of one scan that leaves the children and the registry alone.
LEMMA ScanOnly ==
  ASSUME Inductive, TypeOK', NEW s \in Scan, NEW e \in ScanState,
         scan' = [scan EXCEPT ![s] = e], UNCHANGED <<registry, child>>,
         e.got = scan[s].got,
         e.asked => e.stage # "answered",
         scan[s].pc = "running" => e.pc = "running",
         e.pc \in {"idle", "starting"} => e.stage = "none" /\ ~e.asked
  PROVE  Inductive'
<1>1. scan'[s] = e /\ \A r \in Scan : r # s => scan'[r] = scan[r]
  BY Rewrites DEF Inductive
<1>2. CancelledNeverAnswers'
  BY <1>1 DEF Inductive, CancelledNeverAnswers
<1>3. RegistryLive' /\ RegistryKnows'
  BY <1>1 DEF Inductive, TypeOK, RegistryLive, RegistryKnows
<1>4. Staged'
  BY <1>1 DEF Inductive, Staged
<1>5. FetchesBounded'
  BY DEF Inductive, FetchesBounded
<1>6. \A r \in Scan : Done(r)' = Done(r)
  BY DEF Done
<1>7. Counted'
  BY <1>1, <1>6 DEF Inductive, Counted
<1> QED
  BY <1>2, <1>3, <1>4, <1>5, <1>7 DEF Inductive

\* A step that only changes what a scan is sending.
LEMMA SendingOnly ==
  ASSUME Inductive, TypeOK', NEW s \in Scan, NEW e \in ScanState,
         scan' = [scan EXCEPT ![s] = e], UNCHANGED <<registry, child>>,
         e.got = scan[s].got, e.asked = scan[s].asked,
         e.stage = scan[s].stage, e.pc = scan[s].pc
  PROVE  Inductive'
<1>1. e.asked => e.stage # "answered"
  BY DEF Inductive, CancelledNeverAnswers
<1>2. e.pc \in {"idle", "starting"} => e.stage = "none" /\ ~e.asked
  BY DEF Inductive, Staged
<1> QED
  BY <1>1, <1>2, ScanOnly

\* Sending a message, and forgetting the sockets it could not be sent to.
LEMMA EmissionKeeps ==
  ASSUME Inductive, NEW s \in Scan,
         DropStale(s) \/ \E w \in Socket : Send(s, w)
  PROVE  Inductive'
<1>1. TypeOK /\ scan[s] \in ScanState
  BY DEF Inductive, TypeOK
<1>2. CASE DropStale(s)
  <2> DEFINE e == [scan[s] EXCEPT !.stale = {}]
  <2>1. e \in ScanState /\ scan' = [scan EXCEPT ![s] = e]
    BY <1>1, <1>2 DEF DropStale, ScanState
  <2>2. TypeOK'
    <3>1. scan' \in [Scan -> ScanState]
      BY <1>1, <2>1, Rewrites
    <3>2. connections' \in [ScanId -> SUBSET Socket]
      BY <1>1, <1>2 DEF DropStale, TypeOK
    <3> QED
      BY <1>1, <1>2, <3>1, <3>2 DEF DropStale, TypeOK
  <2>3. /\ e.got = scan[s].got /\ e.asked = scan[s].asked
        /\ e.stage = scan[s].stage /\ e.pc = scan[s].pc
    BY <1>1 DEF ScanState
  <2> HIDE DEF e
  <2> QED
    BY <1>2, <2>1, <2>2, <2>3, SendingOnly DEF DropStale
<1>3. ASSUME NEW w \in Socket, Send(s, w)
      PROVE  Inductive'
  <2>1. PICK e \in ScanState :
          /\ scan' = [scan EXCEPT ![s] = e]
          /\ e.got = scan[s].got /\ e.asked = scan[s].asked
          /\ e.stage = scan[s].stage /\ e.pc = scan[s].pc
    <3>1. CASE scan' = [scan EXCEPT ![s].todo = @ \ {w}]
      <4> DEFINE e == [scan[s] EXCEPT !.todo = @ \ {w}]
      <4>1. e \in ScanState /\ scan' = [scan EXCEPT ![s] = e]
        BY <1>1, <3>1 DEF ScanState
      <4>2. /\ e.got = scan[s].got /\ e.asked = scan[s].asked
            /\ e.stage = scan[s].stage /\ e.pc = scan[s].pc
        BY <1>1 DEF ScanState
      <4> QED
        BY <4>1, <4>2
    <3>2. CASE scan' = [scan EXCEPT ![s] = [scan[s] EXCEPT !.todo = @ \ {w}, !.stale = @ \cup {w}]]
      <4> DEFINE e == [scan[s] EXCEPT !.todo = scan[s].todo \ {w}, !.stale = scan[s].stale \cup {w}]
      <4>0. scan[s].stale \cup {w} \in SUBSET Socket /\ scan[s].todo \ {w} \in SUBSET Socket
        BY <1>1 DEF ScanState
      <4>1. e \in ScanState
        BY <1>1, <4>0 DEF ScanState
      <4>2. scan' = [scan EXCEPT ![s] = e]
        BY <3>2
      <4>3. /\ e.got = scan[s].got /\ e.asked = scan[s].asked
            /\ e.stage = scan[s].stage /\ e.pc = scan[s].pc
        BY <1>1 DEF ScanState
      <4> QED
        BY <4>1, <4>2, <4>3
    <3> QED
      BY <1>3, <3>1, <3>2 DEF Send
  <2>2. heard' \in [Socket -> [Scan -> Place]]
    <3>1. scan[s].place \in Place
      BY <1>1 DEF ScanState
    <3>2. CASE heard' = [heard EXCEPT ![w][s] = scan[s].place]
      <4>1. heard[w] \in [Scan -> Place]
        BY <1>1 DEF TypeOK
      <4>2. [heard[w] EXCEPT ![s] = scan[s].place] \in [Scan -> Place]
        BY <3>1, <4>1
      <4> QED
        BY <1>1, <3>2, <4>2 DEF TypeOK
    <3> QED
      BY <1>1, <1>3, <3>2 DEF Send, TypeOK
  <2>3. scan' \in [Scan -> ScanState]
    BY <1>1, <2>1, Rewrites
  <2>4. TypeOK'
    BY <1>1, <1>3, <2>2, <2>3 DEF Send, TypeOK
  <2> QED
    BY <1>3, <2>1, <2>4, SendingOnly DEF Send
<1> QED
  BY <1>2, <1>3

\* The steps of a scan's task, and of its request's before and after the task
\* is registered.
LEMMA TaskKeeps ==
  ASSUME Inductive, NEW s \in Scan,
         Begin(s) \/ Complete(s) \/ Open(s) \/ Close(s) \/ Answer(s) \/ Fail(s) \/ Stop(s)
  PROVE  Inductive'
<1>1. TypeOK /\ scan[s] \in ScanState
  BY DEF Inductive, TypeOK
<1>2. \E e \in ScanState :
        /\ scan' = [scan EXCEPT ![s] = e]
        /\ e.got = scan[s].got
        /\ e.asked => e.stage # "answered"
        /\ scan[s].pc = "running" => e.pc = "running"
        /\ e.pc \in {"idle", "starting"} => e.stage = "none" /\ ~e.asked
  <2>1. CASE Begin(s)
    <3> DEFINE r == [scan[s] EXCEPT !.pc = "starting"]
               e == Emitting(s, r, Started)
    <3>1. r \in ScanState /\ Started \in Place
      BY <1>1, Places DEF ScanState
    <3>2. /\ r.pc = "starting" /\ r.stage = "none" /\ ~r.asked /\ r.got = scan[s].got
          /\ scan[s].stage = "none" /\ scan[s].pc = "idle"
      BY <1>1, <2>1 DEF Begin, ScanState, Inductive, Staged
    <3>3. scan' = [scan EXCEPT ![s] = e]
      BY <1>1, <2>1 DEF Begin, TypeOK
    <3> HIDE DEF r
    <3>4. e \in ScanState /\ e.pc = r.pc /\ e.stage = r.stage /\ e.asked = r.asked /\ e.got = r.got
      BY <1>1, <3>1, EmittingType
    <3> HIDE DEF e
    <3> QED
      BY <3>2, <3>3, <3>4
  <2>2. CASE Complete(s)
    <3>1. [scan[s] EXCEPT !.pc = "over"] \in ScanState
      BY <1>1 DEF ScanState
    <3> QED
      BY <1>1, <2>2, <3>1 DEF Complete, ScanState, Inductive, CancelledNeverAnswers
  <2>3. CASE Open(s)
    <3> DEFINE r == [scan[s] EXCEPT !.stage = "working", !.step = @ + 1]
               e == Emitting(s, r, Opening(scan[s].step + 1))
    <3>0. scan[s].step \in Nat /\ scan[s].step + 1 \in Nat
      BY <1>1 DEF ScanState
    <3>1. /\ r \in ScanState /\ Opening(scan[s].step + 1) \in Place
          /\ r.pc = scan[s].pc /\ r.stage = "working" /\ r.asked = scan[s].asked
          /\ r.got = scan[s].got
      BY <1>1, <3>0, Places DEF ScanState
    <3>2. scan[s].stage = "between" /\ ~scan[s].asked
      BY <2>3 DEF Open, Runs
    <3>3. scan' = [scan EXCEPT ![s] = e]
      BY <1>1, <2>3 DEF Open
    <3>4. scan[s].pc \notin {"idle", "starting"}
      BY <3>2 DEF Inductive, Staged
    <3> HIDE DEF r
    <3>5. e \in ScanState /\ e.pc = r.pc /\ e.stage = r.stage /\ e.asked = r.asked /\ e.got = r.got
      BY <1>1, <3>1, EmittingType
    <3> HIDE DEF e
    <3> QED
      BY <3>1, <3>2, <3>3, <3>4, <3>5
  <2>7. CASE Close(s)
    <3> DEFINE r == [scan[s] EXCEPT !.stage = "between"]
               e == Emitting(s, r, Closing(scan[s].step))
    <3>1. /\ r \in ScanState /\ Closing(scan[s].step) \in Place
          /\ r.pc = scan[s].pc /\ r.stage = "between" /\ r.asked = scan[s].asked
          /\ r.got = scan[s].got
      BY <1>1, Places DEF ScanState
    <3>2. scan[s].stage \in {"working", "waiting"} /\ ~scan[s].asked
      BY <2>7 DEF Close, Finished, Runs
    <3>3. scan' = [scan EXCEPT ![s] = e] \/ scan' = [scan EXCEPT ![s] = r]
      BY <1>1, <2>7 DEF Close
    <3>4. scan[s].pc \notin {"idle", "starting"}
      BY <3>2 DEF Inductive, Staged
    <3> HIDE DEF r
    <3>5. e \in ScanState /\ e.pc = r.pc /\ e.stage = r.stage /\ e.asked = r.asked /\ e.got = r.got
      BY <1>1, <3>1, EmittingType
    <3> HIDE DEF e
    <3> QED
      BY <3>1, <3>2, <3>3, <3>4, <3>5
  <2>4. CASE Answer(s)
    <3>1. [scan[s] EXCEPT !.stage = "answered"] \in ScanState
      BY <1>1 DEF ScanState, Ended
    <3> QED
      BY <1>1, <2>4, <3>1 DEF Answer, Runs, ScanState, Inductive, Staged
  <2>5. CASE Fail(s)
    <3>1. [scan[s] EXCEPT !.stage = "failed"] \in ScanState
      BY <1>1 DEF ScanState, Ended
    <3> QED
      BY <1>1, <2>5, <3>1 DEF Fail, Finished, Runs, ScanState, Inductive, Staged
  <2>6. CASE Stop(s)
    <3>1. [scan[s] EXCEPT !.stage = "cancelled", !.todo = {}, !.stale = {}] \in ScanState
      BY <1>1 DEF ScanState, Ended
    <3> QED
      BY <1>1, <2>6, <3>1 DEF Stop, ScanState, Inductive, Staged
  <2> QED
    BY <2>1, <2>2, <2>3, <2>4, <2>5, <2>6, <2>7
<1>3. UNCHANGED <<registry, connections, socket, child, heard>>
  BY DEF Begin, Complete, Open, Close, Answer, Fail, Stop
<1>4. PICK e \in ScanState :
        /\ scan' = [scan EXCEPT ![s] = e]
        /\ e.got = scan[s].got
        /\ e.asked => e.stage # "answered"
        /\ scan[s].pc = "running" => e.pc = "running"
        /\ e.pc \in {"idle", "starting"} => e.stage = "none" /\ ~e.asked
  BY <1>2
<1>5. TypeOK'
  BY <1>1, <1>3, <1>4, Rewrites DEF TypeOK
<1> QED
  BY <1>3, <1>4, <1>5, ScanOnly

\* The request's task enters the registry.
LEMMA RegisterKeeps ==
  ASSUME Inductive, NEW s \in Scan, Register(s)
  PROVE  Inductive'
<1> DEFINE e == [scan[s] EXCEPT !.pc = "running", !.stage = "between"]
<1>1. TypeOK /\ scan[s] \in ScanState
  BY DEF Inductive, TypeOK
<1>2. /\ e \in ScanState
      /\ e.pc = "running" /\ e.stage = "between" /\ e.asked = scan[s].asked /\ e.got = scan[s].got
  BY <1>1 DEF ScanState
<1>3. scan' = [scan EXCEPT ![s] = e]
  BY DEF Register
<1>4. scan[s].pc = "starting" /\ scan[s].stage = "none" /\ ~scan[s].asked
  BY DEF Register, Inductive, Staged
<1> HIDE DEF e
<1>5. scan' \in [Scan -> ScanState] /\ scan'[s] = e /\ \A r \in Scan : r # s => scan'[r] = scan[r]
  BY <1>1, <1>2, <1>3, Rewrites
<1>6. IdOf[s] \in ScanId /\ registry' = [registry EXCEPT ![IdOf[s]] = s]
  BY DEF Register
<1>7. TypeOK'
  BY <1>1, <1>5, <1>6 DEF Register, TypeOK
<1>8. RegistryLive' /\ RegistryKnows'
  BY <1>1, <1>2, <1>5, <1>6 DEF Inductive, TypeOK, RegistryLive, RegistryKnows
<1>9. CancelledNeverAnswers' /\ Staged'
  BY <1>2, <1>4, <1>5 DEF Register, Inductive, CancelledNeverAnswers, Staged
<1>10. \A r \in Scan : Done(r)' = Done(r)
  BY DEF Register, Done
<1>11. Counted' /\ FetchesBounded'
  BY <1>2, <1>5, <1>10 DEF Register, Inductive, Counted, FetchesBounded
<1> QED
  BY <1>7, <1>8, <1>9, <1>11 DEF Inductive

\* The request goes on: whatever is under its id is removed, and if that is a
\* request at all it is this one or one that the registry already lost.
LEMMA HandleKeeps ==
  ASSUME Inductive, NEW s \in Scan, Handle(s)
  PROVE  Inductive'
<1>1. TypeOK /\ scan[s] \in ScanState
  BY DEF Inductive, TypeOK
<1>2. PICK e \in ScanState :
        /\ scan' = [scan EXCEPT ![s] = e]
        /\ e.pc \in {"completing", "over"} /\ e.stage = scan[s].stage
        /\ e.asked = scan[s].asked /\ e.got = scan[s].got
  <2>1. CASE scan[s].stage = "answered"
    <3> DEFINE r == [scan[s] EXCEPT !.pc = "completing"]
               e == Emitting(s, r, Completed(s))
    <3>1. /\ r \in ScanState /\ Completed(s) \in Place
          /\ r.pc = "completing" /\ r.stage = scan[s].stage
          /\ r.asked = scan[s].asked /\ r.got = scan[s].got
      BY <1>1, Places DEF ScanState
    <3>2. scan' = [scan EXCEPT ![s] = e]
      BY <1>1, <2>1 DEF Handle, TypeOK
    <3> HIDE DEF r
    <3>3. e \in ScanState /\ e.pc = r.pc /\ e.stage = r.stage /\ e.asked = r.asked /\ e.got = r.got
      BY <1>1, <3>1, EmittingType
    <3> HIDE DEF e
    <3> QED
      BY <3>1, <3>2, <3>3
  <2>2. CASE scan[s].stage # "answered"
    <3> DEFINE e == [scan[s] EXCEPT !.pc = "over"]
    <3>1. /\ e \in ScanState /\ e.pc = "over" /\ e.stage = scan[s].stage
          /\ e.asked = scan[s].asked /\ e.got = scan[s].got
      BY <1>1 DEF ScanState
    <3>2. scan' = [scan EXCEPT ![s] = e]
      BY <1>1, <2>2 DEF Handle, TypeOK
    <3> QED
      BY <3>1, <3>2
  <2> QED
    BY <2>1, <2>2
<1>3. scan' \in [Scan -> ScanState] /\ scan'[s] = e /\ \A r \in Scan : r # s => scan'[r] = scan[r]
  BY <1>1, <1>2, Rewrites
<1>4. IdOf[s] \in ScanId /\ registry' = [registry EXCEPT ![IdOf[s]] = NoScan]
  BY DEF Handle
<1>5. TypeOK'
  BY <1>1, <1>3, <1>4 DEF Handle, TypeOK
<1>6. \A i \in ScanId : registry'[i] # NoScan => registry'[i] = registry[i] /\ registry[i] # s
  BY <1>1, <1>4 DEF Inductive, TypeOK, RegistryKnows
<1>7. RegistryLive' /\ RegistryKnows'
  BY <1>1, <1>3, <1>6 DEF Inductive, TypeOK, RegistryLive, RegistryKnows
<1>8. CancelledNeverAnswers' /\ Staged'
  BY <1>2, <1>3 DEF Inductive, CancelledNeverAnswers, Staged
<1>9. \A r \in Scan : Done(r)' = Done(r)
  BY DEF Handle, Done
<1>10. Counted' /\ FetchesBounded'
  BY <1>2, <1>3, <1>9 DEF Handle, Inductive, Counted, FetchesBounded
<1> QED
  BY <1>5, <1>7, <1>8, <1>10 DEF Inductive

\* Only a request that the registry knows is asked to stop, and only while its
\* task has not ended.
LEMMA CancelKeeps ==
  ASSUME Inductive, NEW i \in ScanId, Cancel(i)
  PROVE  Inductive'
<1>1. TypeOK /\ registry[i] \in Scan
  BY DEF Cancel, Inductive, TypeOK
<1>2. PICK s \in Scan : s = registry[i]
  BY <1>1
<1> DEFINE e == [scan[s] EXCEPT !.asked = TRUE]
<1>3. scan[s] \in ScanState /\ scan[s].pc = "running" /\ scan[s].stage \notin Ended
  BY <1>1, <1>2 DEF Cancel, Inductive, TypeOK, RegistryLive
<1>4. /\ e \in ScanState /\ e.pc = "running" /\ e.stage = scan[s].stage
      /\ e.got = scan[s].got
  BY <1>3 DEF ScanState
<1>5. scan' = [scan EXCEPT ![s] = e]
  BY <1>2 DEF Cancel
<1> HIDE DEF e
<1>6. TypeOK'
  BY <1>1, <1>4, <1>5, Rewrites DEF Cancel, TypeOK
<1>7. e.stage # "answered"
  BY <1>3, <1>4 DEF Ended
<1> QED
  BY <1>3, <1>4, <1>5, <1>6, <1>7, ScanOnly DEF Cancel

\* A wave begins: its children wait, and none of its results is taken.
LEMMA FetchKeeps ==
  ASSUME Inductive, NEW s \in Scan, Fetch(s)
  PROVE  Inductive'
<1>0. PICK n \in Symbol :
        child' = [child EXCEPT ![s] = [c \in Symbol |-> IF c <= n THEN "waiting" ELSE "none"]]
  BY DEF Fetch
<1> DEFINE e == [scan[s] EXCEPT !.stage = "waiting", !.got = 0]
           wave == [c \in Symbol |-> IF c <= n THEN "waiting" ELSE "none"]
<1>1. TypeOK /\ scan[s] \in ScanState
  BY DEF Inductive, TypeOK
<1>2. /\ e \in ScanState
      /\ e.pc = scan[s].pc /\ e.stage = "waiting" /\ e.asked = scan[s].asked /\ e.got = 0
  <2>1. 0 \in 0 .. Symbols
    OBVIOUS
  <2> QED
    BY <1>1, <2>1 DEF ScanState
<1>3. scan' = [scan EXCEPT ![s] = e] /\ child' = [child EXCEPT ![s] = wave]
  BY <1>0 DEF Fetch
<1>4. scan[s].stage = "working" /\ ~scan[s].asked
  BY DEF Fetch, Runs
<1> HIDE DEF e
<1>5. scan' \in [Scan -> ScanState] /\ scan'[s] = e /\ \A r \in Scan : r # s => scan'[r] = scan[r]
  BY <1>1, <1>2, <1>3, Rewrites
<1>6. /\ child' \in [Scan -> [Symbol -> {"none", "waiting", "fetching", "fetched", "done"}]]
      /\ child'[s] = wave /\ \A r \in Scan : r # s => child'[r] = child[r]
  BY <1>1, <1>3 DEF TypeOK
<1>7. TypeOK'
  BY <1>1, <1>5, <1>6 DEF Fetch, TypeOK
<1>8. RegistryLive' /\ RegistryKnows' /\ CancelledNeverAnswers' /\ Staged'
  BY <1>2, <1>4, <1>5, <1>6
     DEF Fetch, Inductive, TypeOK, RegistryLive, RegistryKnows, CancelledNeverAnswers, Staged
<1>9. Done(s)' = {} /\ Fetching(s)' = {}
  BY <1>6 DEF Done, Fetching
<1>10. \A r \in Scan : r # s => Done(r)' = Done(r) /\ Fetching(r)' = Fetching(r)
  BY <1>6 DEF Done, Fetching
<1>11. Counted'
  BY <1>2, <1>5, <1>9, <1>10, FS_EmptySet DEF Inductive, Counted
<1>12. \A r \in Scan : Cardinality(Fetching(r)') <= Concurrency
  <2>1. \A r \in Scan : Cardinality(Fetching(r)) <= Concurrency
    BY DEF Inductive, FetchesBounded, Fetching
  <2>2. Cardinality(Fetching(s)') = 0
    BY <1>9, FS_EmptySet
  <2> QED
    BY <1>10, <2>1, <2>2
<1>13. FetchesBounded'
  BY <1>12 DEF FetchesBounded, Fetching
<1> QED
  BY <1>7, <1>8, <1>11, <1>13 DEF Inductive

\* A result is taken and counted.
LEMMA ConsumeKeeps ==
  ASSUME Inductive, NEW s \in Scan, Consume(s)
  PROVE  Inductive'
<1>1. TypeOK /\ Counted /\ scan[s] \in ScanState
  BY DEF Inductive, TypeOK
<1>2. PICK c \in Symbol :
        /\ child[s][c] = "fetched"
        /\ child' = [child EXCEPT ![s][c] = "done"]
        /\ scan' = [scan EXCEPT ![s] = Emitting(s, [scan[s] EXCEPT !.got = @ + 1],
                                                Fetched(scan[s].step, scan[s].got + 1))]
  BY DEF Consume
<1> DEFINE r == [scan[s] EXCEPT !.got = @ + 1]
           e == Emitting(s, r, Fetched(scan[s].step, scan[s].got + 1))
<1>3. scan[s].got + 1 \in 0 .. Symbols /\ scan[s].got + 1 = Cardinality(Done(s)')
  BY <1>1, <1>2, TakeCounts
<1>4. /\ r \in ScanState
      /\ r.pc = scan[s].pc /\ r.stage = scan[s].stage /\ r.asked = scan[s].asked
      /\ r.got = scan[s].got + 1
  BY <1>1, <1>3 DEF ScanState
<1>5. Fetched(scan[s].step, scan[s].got + 1) \in Place
  BY <1>1, <1>3, Places DEF ScanState
<1> HIDE DEF r
<1>6. e \in ScanState /\ e.pc = r.pc /\ e.stage = r.stage /\ e.asked = r.asked /\ e.got = r.got
  BY <1>1, <1>4, <1>5, EmittingType
<1>7. scan' = [scan EXCEPT ![s] = e]
  BY <1>2 DEF r
<1> HIDE DEF e
<1>8. scan' \in [Scan -> ScanState] /\ scan'[s] = e /\ \A q \in Scan : q # s => scan'[q] = scan[q]
  BY <1>1, <1>6, <1>7, Rewrites
<1>9. /\ child' \in [Scan -> [Symbol -> {"none", "waiting", "fetching", "fetched", "done"}]]
      /\ \A q \in Scan : q # s => child'[q] = child[q]
      /\ \A d \in Symbol : d # c => child'[s][d] = child[s][d]
      /\ child'[s][c] = "done"
  BY <1>1, <1>2 DEF TypeOK
<1>10. TypeOK'
  BY <1>1, <1>8, <1>9 DEF Consume, TypeOK
<1>11. scan[s].stage = "waiting"
  BY DEF Consume, Runs
<1>12. RegistryLive' /\ RegistryKnows'
  <2>1. UNCHANGED registry
    BY DEF Consume
  <2> QED
    BY <1>4, <1>6, <1>8, <2>1 DEF Inductive, TypeOK, RegistryLive, RegistryKnows
<1>13. CancelledNeverAnswers' /\ Staged'
  <2>1. CancelledNeverAnswers'
    BY <1>4, <1>6, <1>8 DEF Inductive, CancelledNeverAnswers
  <2>2. scan'[s].stage = "waiting" /\ scan'[s].pc = scan[s].pc
    BY <1>4, <1>6, <1>8, <1>11
  <2>3. scan[s].pc \notin {"idle", "starting"}
    BY <1>11 DEF Inductive, Staged
  <2>4. Staged'
    BY <1>8, <1>9, <2>2, <2>3 DEF Inductive, Staged
  <2> QED
    BY <2>1, <2>4
<1>14. \A q \in Scan : Fetching(q)' = Fetching(q) /\ (q # s => Done(q)' = Done(q))
  <2>1. Fetching(s)' = Fetching(s)
    BY <1>2, <1>9 DEF Fetching
  <2>2. ASSUME NEW q \in Scan, q # s
        PROVE  Fetching(q)' = Fetching(q) /\ Done(q)' = Done(q)
    BY <1>9, <2>2 DEF Fetching, Done
  <2> QED
    BY <2>1, <2>2
<1>15. Counted'
  BY <1>1, <1>3, <1>4, <1>6, <1>8, <1>14 DEF Counted
<1>16. FetchesBounded'
  BY <1>14 DEF Inductive, FetchesBounded, Fetching
<1> QED
  BY <1>10, <1>12, <1>13, <1>15, <1>16 DEF Inductive

\* A child enters the wave, if there is a place, or leaves it.
LEMMA ChildKeeps ==
  ASSUME Inductive, NEW s \in Scan, NEW c \in Symbol, ChildStep(s, c)
  PROVE  Inductive'
<1>1. TypeOK
  BY DEF Inductive
<1>2. UNCHANGED <<registry, connections, socket, scan, heard>>
  BY DEF ChildStep, Acquire, FetchEnds
<1>3. /\ child' \in [Scan -> [Symbol -> {"none", "waiting", "fetching", "fetched", "done"}]]
      /\ \A q \in Scan : q # s => child'[q] = child[q]
      /\ \A d \in Symbol : d # c => child'[s][d] = child[s][d]
  <2>1. PICK state \in {"fetching", "fetched"} : child' = [child EXCEPT ![s][c] = state]
    BY DEF ChildStep, Acquire, FetchEnds
  <2> QED
    BY <1>1, <2>1 DEF TypeOK
<1>4. \/ child[s][c] = "waiting" /\ child'[s][c] = "fetching" /\ Cardinality(Fetching(s)) < Concurrency
      \/ child[s][c] = "fetching" /\ child'[s][c] = "fetched"
  BY <1>1 DEF ChildStep, Acquire, FetchEnds, TypeOK, Fetching
<1>5. \A q \in Scan : Done(q)' = Done(q) /\ (q # s => Fetching(q)' = Fetching(q))
  BY <1>3, <1>4 DEF Done, Fetching
<1>6. TypeOK'
  BY <1>1, <1>2, <1>3 DEF TypeOK
<1>7. CancelledNeverAnswers' /\ RegistryLive' /\ RegistryKnows'
  BY <1>2 DEF Inductive, CancelledNeverAnswers, RegistryLive, RegistryKnows
<1>8. Staged'
  BY <1>2, <1>3, <1>4 DEF Inductive, Staged
<1>9. Counted'
  BY <1>2, <1>5 DEF Inductive, Counted
<1>10. Cardinality(Fetching(s)') <= Concurrency
  <2>1. Fetching(s) \in SUBSET Symbol /\ Fetching(s)' \in SUBSET Symbol
    BY DEF Fetching
  <2>2. CASE child[s][c] = "waiting" /\ child'[s][c] = "fetching" /\ Cardinality(Fetching(s)) < Concurrency
    <3>1. Fetching(s)' = Fetching(s) \cup {c} /\ c \notin Fetching(s)
      BY <1>3, <2>2 DEF Fetching
    <3>2. Cardinality(Fetching(s)') = Cardinality(Fetching(s)) + 1
      BY <2>1, <3>1, SymbolsFinite, FS_AddElement
    <3> QED
      BY <2>1, <2>2, <3>2, SymbolsFinite
  <2>3. CASE child[s][c] = "fetching" /\ child'[s][c] = "fetched"
    <3>1. Fetching(s)' \in SUBSET Fetching(s)
      BY <1>3, <2>3 DEF Fetching
    <3>2. Cardinality(Fetching(s)') <= Cardinality(Fetching(s))
      BY <2>1, <3>1, SymbolsFinite, FS_Subset
    <3>3. Cardinality(Fetching(s)) <= Concurrency
      BY DEF Inductive, FetchesBounded, Fetching
    <3> QED
      BY <2>1, <3>2, <3>3, SymbolsFinite
  <2> QED
    BY <1>4, <2>2, <2>3
<1>11. \A q \in Scan : Cardinality(Fetching(q)') <= Concurrency
  BY <1>5, <1>10 DEF Inductive, FetchesBounded, Fetching
<1>12. FetchesBounded'
  BY <1>11 DEF FetchesBounded, Fetching
<1> QED
  BY <1>6, <1>7, <1>8, <1>9, <1>12 DEF Inductive

\* The sockets come and go without the scans noticing.
LEMMA SocketKeeps ==
  ASSUME Inductive, NEW w \in Socket, Subscribe(w) \/ Leave(w) \/ Unsubscribe(w)
  PROVE  Inductive'
<1>1. UNCHANGED <<registry, scan, child, heard>>
  BY DEF Subscribe, Leave, Unsubscribe
<1>2. TypeOK'
  <2>1. TypeOK
    BY DEF Inductive
  <2>2. socket' \in [Socket -> {"new", "open", "gone", "closed"}]
    BY <2>1 DEF Subscribe, Leave, Unsubscribe, TypeOK
  <2>3. connections' \in [ScanId -> SUBSET Socket]
    BY <2>1 DEF Subscribe, Leave, Unsubscribe, TypeOK
  <2> QED
    BY <1>1, <2>1, <2>2, <2>3 DEF TypeOK
<1>3. \A q \in Scan : Done(q)' = Done(q)
  BY <1>1 DEF Done
<1>4. CancelledNeverAnswers' /\ RegistryLive' /\ RegistryKnows' /\ Staged'
  BY <1>1 DEF Inductive, CancelledNeverAnswers, RegistryLive, RegistryKnows, Staged
<1>5. FetchesBounded' /\ Counted'
  BY <1>1, <1>3 DEF Inductive, FetchesBounded, Counted
<1> QED
  BY <1>2, <1>4, <1>5 DEF Inductive

\* Every step keeps the invariant.
LEMMA StepKeeps == Inductive /\ [Next]_vars => Inductive'
<1> SUFFICES ASSUME Inductive, [Next]_vars PROVE Inductive'
  OBVIOUS
<1>1. ASSUME NEW s \in Scan, Begin(s) \/ ScanStep(s)
      PROVE  Inductive'
  BY <1>1, TaskKeeps, EmissionKeeps, RegisterKeeps, HandleKeeps, FetchKeeps, ConsumeKeeps DEF ScanStep
<1>2. CASE UNCHANGED vars
  <2>1. \A q \in Scan : Done(q)' = Done(q)
    BY <1>2 DEF vars, Done
  <2>2. TypeOK'
    BY <1>2 DEF vars, Inductive, TypeOK
  <2>3. CancelledNeverAnswers' /\ RegistryLive' /\ RegistryKnows' /\ Staged'
    BY <1>2 DEF vars, Inductive, CancelledNeverAnswers, RegistryLive, RegistryKnows, Staged
  <2>4. FetchesBounded' /\ Counted'
    BY <1>2, <2>1 DEF vars, Inductive, FetchesBounded, Counted
  <2> QED
    BY <2>2, <2>3, <2>4 DEF Inductive
<1> QED
  BY <1>1, <1>2, ChildKeeps, CancelKeeps, SocketKeeps DEF Next

\* The inductive invariant is one.
LEMMA Invariance == Spec => []Inductive
  BY InitHolds, StepKeeps, PTL DEF Spec

\* A request ends as its client was told and leaves nothing behind, for any
\* number of requests under one id: a cancelled one never answers, the registry
\* holds no request that is over, and no wave exceeds its bound.
THEOREM RequestsKeptHolds == Spec => []RequestsKept
<1>1. Inductive => RequestsKept
  BY DEF Inductive, RequestsKept
<1> QED
  BY <1>1, Invariance, PTL

----------------------------------------------------------------------------
(* Progress *)

\* What a record of a scan announces fits the place it is at: nothing beyond its
\* stage, in a wave the count it has, and the completion only if it answered.
InPlace(s, r) ==
  /\ r.step <= Len(Pipeline[s])
  /\ r.pc = "idle" => r.place = Nothing
  /\ r.pc = "starting" => r.place = Started
  /\ r.stage # "answered" \/ r.pc = "running" => r.place[1] <= r.step
  /\ r.stage = "working" => r.place = <<r.step, 0>>
  /\ r.stage = "waiting" => r.place = <<r.step, r.got>>

\* Whoever is still to be sent a message has only heard of earlier places.
Announced == \A s \in Scan :
  /\ InPlace(s, scan[s])
  /\ \A w \in Socket : /\ heard[w][s] = scan[s].place \/ Later(scan[s].place, heard[w][s])
                       /\ w \in scan[s].todo => Later(scan[s].place, heard[w][s])

\* Places are ordered.
LEMMA LaterTransitive ==
  ASSUME NEW p \in Place, NEW q \in Place, NEW r \in Place, Later(p, q), q = r \/ Later(q, r)
  PROVE  Later(p, r)
<1>1. /\ p[1] \in Nat /\ p[2] \in Nat /\ q[1] \in Nat /\ q[2] \in Nat
      /\ r[1] \in Nat /\ r[2] \in Nat
  BY DEF Place
<1> QED
  BY <1>1 DEF Later

\* A step of a scan that sends nothing: its next record announces a later place,
\* or the same and to no one new.
LEMMA PlaceOnly ==
  ASSUME Inductive, Announced, NEW s \in Scan, NEW e \in ScanState,
         scan' = [scan EXCEPT ![s] = e], UNCHANGED heard, InPlace(s, e),
         \/ Later(e.place, scan[s].place)
         \/ e.place = scan[s].place /\ e.todo \subseteq scan[s].todo
  PROVE  Announced'
<1>1. scan'[s] = e /\ \A r \in Scan : r # s => scan'[r] = scan[r]
  BY Rewrites DEF Inductive
<1>2. e.place \in Place /\ scan[s].place \in Place /\ \A w \in Socket : heard[w][s] \in Place
  BY DEF Inductive, TypeOK, ScanState
<1>3. \A r \in Scan : InPlace(r, scan'[r])
  BY <1>1 DEF Announced
<1>4. ASSUME NEW w \in Socket
      PROVE  /\ heard[w][s] = e.place \/ Later(e.place, heard[w][s])
             /\ w \in e.todo => Later(e.place, heard[w][s])
  <2>1. heard[w][s] = scan[s].place \/ Later(scan[s].place, heard[w][s])
    BY DEF Announced
  <2>2. CASE Later(e.place, scan[s].place)
    BY <1>2, <2>1, <2>2, LaterTransitive
  <2>3. CASE e.place = scan[s].place /\ e.todo \subseteq scan[s].todo
    BY <2>1, <2>3 DEF Announced
  <2> QED
    BY <2>2, <2>3
<1>5. ASSUME NEW r \in Scan, NEW w \in Socket
      PROVE  /\ heard'[w][r] = scan'[r].place \/ Later(scan'[r].place, heard'[w][r])
             /\ w \in scan'[r].todo => Later(scan'[r].place, heard'[w][r])
  BY <1>1, <1>4 DEF Announced
<1> QED
  BY <1>3, <1>5 DEF Announced, InPlace, Later

\* The numbers in a record.
LEMMA Fields ==
  ASSUME NEW r \in ScanState
  PROVE  /\ r.step \in Nat /\ r.got \in 0 .. Symbols /\ r.got \in Nat
         /\ r.place \in Place /\ r.place[1] \in Nat /\ r.place[2] \in Nat
<1>1. r.step \in Nat /\ r.got \in 0 .. Symbols /\ r.place \in Place
  BY DEF ScanState
<1>2. r.place[1] \in Nat /\ r.place[2] \in Nat
  BY <1>1 DEF Place
<1> QED
  BY <1>1, <1>2

\* The steps that announce something announce a later place than before.
LEMMA AnnouncementPlaces ==
  ASSUME Inductive, Announced, NEW s \in Scan,
         Begin(s) \/ Open(s) \/ Consume(s) \/ Close(s) \/ Handle(s)
  PROVE  Announced'
<1>1. TypeOK /\ Counted /\ scan[s] \in ScanState /\ InPlace(s, scan[s])
  BY DEF Inductive, TypeOK, Announced
<1>2. /\ scan[s].step \in Nat /\ scan[s].got \in Nat /\ scan[s].got <= Symbols /\ Symbols \in Nat
      /\ scan[s].place[1] \in Nat /\ scan[s].place[2] \in Nat /\ Len(Pipeline[s]) \in Nat
  BY <1>1, Fields
<1>3. UNCHANGED heard
  BY DEF Begin, Open, Consume, Close, Handle
<1>4. CASE Begin(s)
  <2> DEFINE r == [scan[s] EXCEPT !.pc = "starting"]
             e == Emitting(s, r, Started)
  <2>1. /\ r \in ScanState /\ r.pc = "starting" /\ r.stage = "none" /\ r.step = scan[s].step
        /\ r.got = scan[s].got
    BY <1>1, <1>4 DEF Begin, ScanState, Inductive, Staged
  <2>0. Started \in Place
    BY Places
  <2>2. scan' = [scan EXCEPT ![s] = e]
    BY <1>1, <1>4 DEF Begin, TypeOK
  <2> HIDE DEF r
  <2>3. /\ e \in ScanState /\ e.pc = "starting" /\ e.stage = "none" /\ e.step = scan[s].step
        /\ e.place = Started
    BY <1>1, <2>0, <2>1, EmittingType
  <2> HIDE DEF e
  <2>4. InPlace(s, e)
    BY <1>1, <1>2, <2>3 DEF InPlace, Started
  <2>5. Later(e.place, scan[s].place)
    BY <1>1, <1>4, <2>3 DEF Begin, InPlace, Later, Started, Nothing
  <2> QED
    BY <1>3, <2>2, <2>3, <2>4, <2>5, PlaceOnly
<1>5. CASE Open(s)
  <2> DEFINE r == [scan[s] EXCEPT !.stage = "working", !.step = @ + 1]
             e == Emitting(s, r, Opening(scan[s].step + 1))
  <2>1. /\ r \in ScanState /\ r.pc = scan[s].pc /\ r.stage = "working" /\ r.step = scan[s].step + 1
        /\ Opening(scan[s].step + 1) \in Place
    <3>1. scan[s].step + 1 \in Nat
      BY <1>2
    <3>2. Opening(scan[s].step + 1) \in Place
      BY <3>1, Places
    <3> QED
      BY <1>1, <3>1, <3>2 DEF ScanState
  <2>2. scan' = [scan EXCEPT ![s] = e]
    BY <1>5 DEF Open
  <2>3. scan[s].stage = "between" /\ scan[s].step < Len(Pipeline[s])
    BY <1>5 DEF Open, Runs
  <2>4. scan[s].pc \notin {"idle", "starting"}
    BY <2>3 DEF Inductive, Staged
  <2> HIDE DEF r
  <2>5. /\ e \in ScanState /\ e.pc = scan[s].pc /\ e.stage = "working" /\ e.step = scan[s].step + 1
        /\ e.place = Opening(scan[s].step + 1)
    BY <1>1, <2>1, EmittingType
  <2> HIDE DEF e
  <2>6. InPlace(s, e)
    BY <1>1, <1>2, <2>3, <2>4, <2>5 DEF InPlace, Opening
  <2>7. Later(e.place, scan[s].place)
    BY <1>1, <1>2, <2>3, <2>5 DEF InPlace, Opening, Later
  <2> QED
    BY <1>3, <2>2, <2>5, <2>6, <2>7, PlaceOnly
<1>6. CASE Consume(s)
  <2>1. PICK c \in Symbol :
          /\ child[s][c] = "fetched"
          /\ child' = [child EXCEPT ![s][c] = "done"]
          /\ scan' = [scan EXCEPT ![s] = Emitting(s, [scan[s] EXCEPT !.got = @ + 1],
                                                Fetched(scan[s].step, scan[s].got + 1))]
    BY <1>6 DEF Consume
  <2> DEFINE r == [scan[s] EXCEPT !.got = @ + 1]
             e == Emitting(s, r, Fetched(scan[s].step, scan[s].got + 1))
  <2>2. scan[s].got + 1 \in 0 .. Symbols
    BY <1>1, <2>1, TakeCounts
  <2>3. /\ r \in ScanState /\ r.pc = scan[s].pc /\ r.stage = "waiting" /\ r.step = scan[s].step
        /\ r.got = scan[s].got + 1 /\ Fetched(scan[s].step, scan[s].got + 1) \in Place
    BY <1>1, <1>2, <1>6, <2>2, Places DEF Consume, Runs, ScanState
  <2>4. scan' = [scan EXCEPT ![s] = e]
    BY <2>1
  <2>5. scan[s].stage = "waiting" /\ scan[s].pc \notin {"idle", "starting"}
    BY <1>6 DEF Consume, Runs, Inductive, Staged
  <2> HIDE DEF r
  <2>6. /\ e \in ScanState /\ e.pc = scan[s].pc /\ e.stage = "waiting" /\ e.step = scan[s].step
        /\ e.got = scan[s].got + 1 /\ e.place = Fetched(scan[s].step, scan[s].got + 1)
    BY <1>1, <2>3, EmittingType
  <2> HIDE DEF e
  <2>7. InPlace(s, e)
    BY <1>1, <1>2, <2>5, <2>6 DEF InPlace, Fetched
  <2>8. Later(e.place, scan[s].place)
    BY <1>1, <1>2, <2>5, <2>6 DEF InPlace, Fetched, Later
  <2> QED
    BY <1>3, <2>4, <2>6, <2>7, <2>8, PlaceOnly
<1>7. CASE Close(s) /\ scan' = [scan EXCEPT ![s] = Emitting(s, [scan[s] EXCEPT !.stage = "between"],
                                                           Closing(scan[s].step))]
  <2> DEFINE r == [scan[s] EXCEPT !.stage = "between"]
             e == Emitting(s, r, Closing(scan[s].step))
  <2>1. /\ r \in ScanState /\ r.pc = scan[s].pc /\ r.stage = "between" /\ r.step = scan[s].step
        /\ Closing(scan[s].step) \in Place
    BY <1>1, <1>2, Places DEF ScanState
  <2>2. scan' = [scan EXCEPT ![s] = e]
    BY <1>7
  <2>3. scan[s].stage \in {"working", "waiting"} /\ scan[s].pc \notin {"idle", "starting"}
    BY <1>7 DEF Close, Finished, Runs, Inductive, Staged
  <2> HIDE DEF r
  <2>4. /\ e \in ScanState /\ e.pc = scan[s].pc /\ e.stage = "between" /\ e.step = scan[s].step
        /\ e.place = Closing(scan[s].step)
    BY <1>1, <2>1, EmittingType
  <2> HIDE DEF e
  <2>5. InPlace(s, e)
    BY <1>1, <1>2, <2>3, <2>4 DEF InPlace, Closing
  <2>6. Later(e.place, scan[s].place)
    BY <1>1, <1>2, <2>3, <2>4 DEF InPlace, Closing, Later
  <2> QED
    BY <1>3, <2>2, <2>4, <2>5, <2>6, PlaceOnly
<1>8. CASE Close(s) /\ scan' = [scan EXCEPT ![s].stage = "between"]
  <2> DEFINE e == [scan[s] EXCEPT !.stage = "between"]
  <2>1. /\ e \in ScanState /\ e.pc = scan[s].pc /\ e.stage = "between" /\ e.step = scan[s].step
        /\ e.place = scan[s].place /\ e.todo = scan[s].todo
    BY <1>1 DEF ScanState
  <2>2. scan' = [scan EXCEPT ![s] = e]
    BY <1>8
  <2>3. scan[s].stage \in {"working", "waiting"}
    BY <1>8 DEF Close, Finished, Runs
  <2> HIDE DEF e
  <2>4. InPlace(s, e)
    BY <1>1, <2>1, <2>3 DEF InPlace
  <2> QED
    BY <1>3, <2>1, <2>2, <2>4, PlaceOnly
<1>9. CASE Handle(s) /\ scan[s].stage = "answered"
  <2> DEFINE r == [scan[s] EXCEPT !.pc = "completing"]
             e == Emitting(s, r, Completed(s))
  <2>1. /\ r \in ScanState /\ r.pc = "completing" /\ r.stage = "answered" /\ r.step = scan[s].step
        /\ Completed(s) \in Place
    BY <1>1, <1>9, Places DEF ScanState
  <2>2. scan' = [scan EXCEPT ![s] = e]
    BY <1>1, <1>9 DEF Handle, TypeOK
  <2> HIDE DEF r
  <2>3. /\ e \in ScanState /\ e.pc = "completing" /\ e.stage = "answered" /\ e.step = scan[s].step
        /\ e.place = Completed(s)
    BY <1>1, <2>1, EmittingType
  <2> HIDE DEF e
  <2>4. InPlace(s, e)
    BY <1>1, <2>3 DEF InPlace
  <2>5. Later(e.place, scan[s].place)
    BY <1>1, <1>2, <1>9, <2>3 DEF Handle, InPlace, Completed, Later
  <2> QED
    BY <1>3, <2>2, <2>3, <2>4, <2>5, PlaceOnly
<1>10. CASE Handle(s) /\ scan[s].stage # "answered"
  <2> DEFINE e == [scan[s] EXCEPT !.pc = "over"]
  <2>1. /\ e \in ScanState /\ e.pc = "over" /\ e.stage = scan[s].stage /\ e.step = scan[s].step
        /\ e.got = scan[s].got /\ e.place = scan[s].place /\ e.todo = scan[s].todo
    BY <1>1 DEF ScanState
  <2>2. scan' = [scan EXCEPT ![s] = e]
    BY <1>1, <1>10 DEF Handle, TypeOK
  <2> HIDE DEF e
  <2>3. InPlace(s, e)
    BY <1>1, <1>10, <2>1 DEF InPlace
  <2> QED
    BY <1>3, <2>1, <2>2, <2>3, PlaceOnly
<1>11. Close(s) => \/ scan' = [scan EXCEPT ![s] = Emitting(s, [scan[s] EXCEPT !.stage = "between"],
                                                         Closing(scan[s].step))]
                   \/ scan' = [scan EXCEPT ![s].stage = "between"]
  BY DEF Close
<1> QED
  BY <1>4, <1>5, <1>6, <1>7, <1>8, <1>9, <1>10, <1>11

\* The steps that announce nothing new.
LEMMA QuietPlaces ==
  ASSUME Inductive, Announced, NEW s \in Scan,
         Register(s) \/ Complete(s) \/ Fetch(s) \/ Answer(s) \/ Fail(s) \/ Stop(s) \/ DropStale(s)
  PROVE  Announced'
<1>1. scan[s] \in ScanState /\ InPlace(s, scan[s])
  BY DEF Inductive, TypeOK, Announced
<1>2. /\ scan[s].step \in Nat /\ scan[s].place[1] \in Nat /\ Len(Pipeline[s]) \in Nat
  BY <1>1, Fields
<1>3. \E e \in ScanState :
        /\ scan' = [scan EXCEPT ![s] = e] /\ InPlace(s, e)
        /\ e.place = scan[s].place /\ e.todo \subseteq scan[s].todo
  <2>1. CASE Register(s)
    <3> DEFINE e == [scan[s] EXCEPT !.pc = "running", !.stage = "between"]
    <3>1. /\ e \in ScanState /\ e.pc = "running" /\ e.stage = "between" /\ e.step = scan[s].step
          /\ e.place = scan[s].place /\ e.todo = scan[s].todo
      BY <1>1 DEF ScanState
    <3>2. scan[s].place = Started
      BY <1>1, <2>1 DEF Register, InPlace
    <3>3. scan' = [scan EXCEPT ![s] = e]
      BY <2>1 DEF Register
    <3> HIDE DEF e
    <3>4. InPlace(s, e)
      BY <1>1, <1>2, <3>1, <3>2 DEF InPlace, Started
    <3> QED
      BY <3>1, <3>3, <3>4
  <2>2. CASE Complete(s)
    <3> DEFINE e == [scan[s] EXCEPT !.pc = "over"]
    <3>1. /\ e \in ScanState /\ e.pc = "over" /\ e.stage = scan[s].stage /\ e.step = scan[s].step
          /\ e.got = scan[s].got /\ e.place = scan[s].place /\ e.todo = scan[s].todo
      BY <1>1 DEF ScanState
    <3>2. scan' = [scan EXCEPT ![s] = e]
      BY <2>2 DEF Complete
    <3> HIDE DEF e
    <3>3. InPlace(s, e)
      BY <1>1, <3>1 DEF InPlace
    <3> QED
      BY <3>1, <3>2, <3>3
  <2>3. CASE Fetch(s)
    <3> DEFINE e == [scan[s] EXCEPT !.stage = "waiting", !.got = 0]
    <3>0. 0 \in 0 .. Symbols
      OBVIOUS
    <3>1. /\ e \in ScanState /\ e.pc = scan[s].pc /\ e.stage = "waiting" /\ e.step = scan[s].step
          /\ e.got = 0 /\ e.place = scan[s].place /\ e.todo = scan[s].todo
      BY <1>1, <3>0 DEF ScanState
    <3>2. scan[s].stage = "working" /\ scan[s].place = <<scan[s].step, 0>>
      BY <1>1, <2>3 DEF Fetch, Runs, InPlace
    <3>3. scan' = [scan EXCEPT ![s] = e]
      BY <2>3 DEF Fetch
    <3> HIDE DEF e
    <3>4. InPlace(s, e)
      BY <1>1, <3>1, <3>2 DEF InPlace
    <3> QED
      BY <3>1, <3>3, <3>4
  <2>4. CASE Answer(s) \/ Fail(s)
    <3>1. PICK stage \in {"answered", "failed"} : scan' = [scan EXCEPT ![s].stage = stage]
      BY <2>4 DEF Answer, Fail
    <3> DEFINE e == [scan[s] EXCEPT !.stage = stage]
    <3>2. /\ e \in ScanState /\ e.pc = scan[s].pc /\ e.stage = stage /\ e.step = scan[s].step
          /\ e.got = scan[s].got /\ e.place = scan[s].place /\ e.todo = scan[s].todo
      BY <1>1 DEF ScanState, Ended
    <3>3. scan[s].stage # "answered"
      BY <2>4 DEF Answer, Fail, Finished, Runs
    <3>4. scan' = [scan EXCEPT ![s] = e]
      BY <3>1
    <3> HIDE DEF e
    <3>5. InPlace(s, e)
      BY <1>1, <3>2, <3>3 DEF InPlace
    <3> QED
      BY <3>2, <3>4, <3>5
  <2>5. CASE Stop(s)
    <3> DEFINE e == [scan[s] EXCEPT !.stage = "cancelled", !.todo = {}, !.stale = {}]
    <3>1. /\ e \in ScanState /\ e.pc = scan[s].pc /\ e.stage = "cancelled" /\ e.step = scan[s].step
          /\ e.got = scan[s].got /\ e.place = scan[s].place /\ e.todo = {}
      BY <1>1 DEF ScanState, Ended
    <3>2. scan' = [scan EXCEPT ![s] = e]
      BY <2>5 DEF Stop
    <3>3. scan[s].stage # "answered"
      BY <2>5 DEF Stop, Ended
    <3> HIDE DEF e
    <3>4. InPlace(s, e)
      BY <1>1, <3>1, <3>3 DEF InPlace
    <3> QED
      BY <3>1, <3>2, <3>4
  <2>6. CASE DropStale(s)
    <3> DEFINE e == [scan[s] EXCEPT !.stale = {}]
    <3>1. /\ e \in ScanState /\ e.pc = scan[s].pc /\ e.stage = scan[s].stage /\ e.step = scan[s].step
          /\ e.got = scan[s].got /\ e.place = scan[s].place /\ e.todo = scan[s].todo
      BY <1>1 DEF ScanState
    <3>2. scan' = [scan EXCEPT ![s] = e]
      BY <2>6 DEF DropStale
    <3> HIDE DEF e
    <3>3. InPlace(s, e)
      BY <1>1, <3>1 DEF InPlace
    <3> QED
      BY <3>1, <3>2, <3>3
  <2> QED
    BY <2>1, <2>2, <2>3, <2>4, <2>5, <2>6
<1>4. UNCHANGED heard
  BY DEF Register, Complete, Fetch, Answer, Fail, Stop, DropStale
<1> QED
  BY <1>3, <1>4, PlaceOnly

\* A cancel announces nothing.
LEMMA CancelPlaces ==
  ASSUME Inductive, Announced, NEW i \in ScanId, Cancel(i)
  PROVE  Announced'
<1>1. PICK s \in Scan : s = registry[i]
  BY DEF Cancel, Inductive, TypeOK
<1> DEFINE e == [scan[s] EXCEPT !.asked = TRUE]
<1>2. scan[s] \in ScanState /\ InPlace(s, scan[s])
  BY DEF Inductive, TypeOK, Announced
<1>3. /\ e \in ScanState /\ e.pc = scan[s].pc /\ e.stage = scan[s].stage /\ e.step = scan[s].step
      /\ e.got = scan[s].got /\ e.place = scan[s].place /\ e.todo = scan[s].todo
  BY <1>2 DEF ScanState
<1>4. scan' = [scan EXCEPT ![s] = e] /\ UNCHANGED heard
  BY <1>1 DEF Cancel
<1> HIDE DEF e
<1>5. InPlace(s, e)
  BY <1>2, <1>3 DEF InPlace
<1> QED
  BY <1>3, <1>4, <1>5, PlaceOnly

\* A message is sent once to each of its sockets, which has heard of less.
LEMMA SendPlaces ==
  ASSUME Inductive, Announced, NEW s \in Scan, NEW w \in Socket, Send(s, w)
  PROVE  /\ Announced'
         /\ \A v \in Socket, r \in Scan :
              heard'[v][r] # heard[v][r] =>
                /\ Later(heard'[v][r], heard[v][r])
                /\ heard'[v][r] = Completed(r) => scan[r].stage = "answered"
<1>1. TypeOK /\ scan[s] \in ScanState /\ InPlace(s, scan[s]) /\ heard[w] \in [Scan -> Place]
  BY DEF Inductive, TypeOK, Announced
<1>2. w \in scan[s].todo /\ Later(scan[s].place, heard[w][s])
  BY DEF Send, Announced
<1>3. CASE socket[w] = "open"
  <2> DEFINE e == [scan[s] EXCEPT !.todo = scan[s].todo \ {w}]
             told == [heard[w] EXCEPT ![s] = scan[s].place]
  <2>1. scan' = [scan EXCEPT ![s] = e] /\ heard' = [heard EXCEPT ![w] = told]
    BY <1>3 DEF Send
  <2>2. /\ e \in ScanState /\ e.pc = scan[s].pc /\ e.stage = scan[s].stage /\ e.step = scan[s].step
        /\ e.got = scan[s].got /\ e.place = scan[s].place /\ e.todo = scan[s].todo \ {w}
    BY <1>1 DEF ScanState
  <2>3. told[s] = scan[s].place /\ \A r \in Scan : r # s => told[r] = heard[w][r]
    BY <1>1
  <2> HIDE DEF e, told
  <2>4. scan'[s] = e /\ \A r \in Scan : r # s => scan'[r] = scan[r]
    BY <1>1, <2>1, <2>2, Rewrites
  <2>5. heard'[w] = told /\ \A v \in Socket : v # w => heard'[v] = heard[v]
    BY <1>1, <2>1 DEF TypeOK
  <2>6. InPlace(s, e)
    BY <1>1, <2>2 DEF InPlace
  <2>7. \A r \in Scan : InPlace(r, scan'[r])
    BY <2>4, <2>6 DEF Announced
  <2>8. \A v \in Socket : /\ heard'[v][s] = scan'[s].place \/ Later(scan'[s].place, heard'[v][s])
                          /\ v \in scan'[s].todo => Later(scan'[s].place, heard'[v][s])
    BY <2>2, <2>3, <2>4, <2>5 DEF Announced
  <2>9. \A r \in Scan : r # s => \A v \in Socket :
          /\ heard'[v][r] = heard[v][r]
          /\ heard'[v][r] = scan'[r].place \/ Later(scan'[r].place, heard'[v][r])
          /\ v \in scan'[r].todo => Later(scan'[r].place, heard'[v][r])
    BY <2>3, <2>4, <2>5 DEF Announced
  <2>10. Announced'
    BY <2>7, <2>8, <2>9, SMTT(30) DEF Announced, InPlace, Later
  <2>11. scan[s].place = Completed(s) => scan[s].stage = "answered"
    <3>1. scan[s].step \in Nat /\ Len(Pipeline[s]) \in Nat
      BY <1>1, Fields
    <3> QED
      BY <1>1, <3>1 DEF InPlace, Completed
  <2> QED
    BY <1>2, <2>3, <2>5, <2>9, <2>10, <2>11
<1>4. CASE socket[w] # "open"
  <2> DEFINE e == [scan[s] EXCEPT !.todo = scan[s].todo \ {w}, !.stale = scan[s].stale \cup {w}]
  <2>1. scan' = [scan EXCEPT ![s] = e] /\ UNCHANGED heard
    BY <1>4 DEF Send
  <2>2. scan[s].todo \ {w} \in SUBSET Socket /\ scan[s].stale \cup {w} \in SUBSET Socket
    BY <1>1 DEF ScanState
  <2>3. /\ e \in ScanState /\ e.pc = scan[s].pc /\ e.stage = scan[s].stage /\ e.step = scan[s].step
        /\ e.got = scan[s].got /\ e.place = scan[s].place /\ e.todo = scan[s].todo \ {w}
    BY <1>1, <2>2 DEF ScanState
  <2> HIDE DEF e
  <2>4. InPlace(s, e)
    BY <1>1, <2>3 DEF InPlace
  <2> QED
    BY <2>1, <2>3, <2>4, PlaceOnly
<1> QED
  BY <1>3, <1>4

\* A step by step account: what is announced stays ahead of what was heard, and
\* a socket only hears of later places.
LEMMA HeardStep ==
  ASSUME Inductive, Announced, [Next]_vars
  PROVE  /\ Announced'
         /\ \A w \in Socket, s \in Scan :
              heard'[w][s] # heard[w][s] =>
                /\ Later(heard'[w][s], heard[w][s])
                /\ heard'[w][s] = Completed(s) => scan[s].stage = "answered"
<1>1. ASSUME NEW s \in Scan, Begin(s) \/ Open(s) \/ Consume(s) \/ Close(s) \/ Handle(s)
      PROVE  Announced' /\ UNCHANGED heard
  BY <1>1, AnnouncementPlaces DEF Begin, Open, Consume, Close, Handle
<1>2. ASSUME NEW s \in Scan,
             Register(s) \/ Complete(s) \/ Fetch(s) \/ Answer(s) \/ Fail(s) \/ Stop(s) \/ DropStale(s)
      PROVE  Announced' /\ UNCHANGED heard
  BY <1>2, QuietPlaces DEF Register, Complete, Fetch, Answer, Fail, Stop, DropStale
<1>3. ASSUME NEW i \in ScanId, Cancel(i)
      PROVE  Announced' /\ UNCHANGED heard
  BY <1>3, CancelPlaces DEF Cancel
<1>4. ASSUME UNCHANGED <<scan, heard>>
      PROVE  Announced' /\ UNCHANGED heard
  BY <1>4 DEF Announced, InPlace, Later
<1>5. ASSUME NEW s \in Scan, NEW c \in Symbol, ChildStep(s, c)
      PROVE  UNCHANGED <<scan, heard>>
  BY <1>5 DEF ChildStep, Acquire, FetchEnds
<1>6. ASSUME NEW w \in Socket, Subscribe(w) \/ Leave(w) \/ Unsubscribe(w)
      PROVE  UNCHANGED <<scan, heard>>
  BY <1>6 DEF Subscribe, Leave, Unsubscribe
<1>7. CASE UNCHANGED vars
  BY <1>4, <1>7 DEF vars
<1>8. CASE \E s \in Scan : Begin(s) \/ ScanStep(s)
  BY <1>1, <1>2, <1>8, SendPlaces DEF ScanStep
<1>9. CASE \E s \in Scan, c \in Symbol : ChildStep(s, c)
  BY <1>4, <1>5, <1>9
<1>10. CASE \E w \in Socket : Subscribe(w) \/ Leave(w) \/ Unsubscribe(w)
  BY <1>4, <1>6, <1>10
<1> QED
  BY <1>3, <1>7, <1>8, <1>9, <1>10 DEF Next

\* A socket hears of a scan in order, stage by stage and count by count, and of its
\* completion only if it answered: whatever the pipeline, however many waves it
\* has, whatever sends fail and whichever sockets come and go amid an emission.
THEOREM ProgressInOrderHolds == Spec => ProgressInOrder
<1>1. Init => Announced
  <2> SUFFICES ASSUME Init PROVE Announced
    OBVIOUS
  <2>1. \A s \in Scan : Len(Pipeline[s]) \in Nat
    OBVIOUS
  <2> QED
    BY <2>1 DEF Init, Announced, InPlace, Nothing
<1>2. Inductive /\ Announced /\ [Next]_vars => Announced'
  BY HeardStep
<1>3. Spec => []Inductive /\ [][Next]_vars
  BY Invariance, PTL DEF Spec
<1>4. Spec => []Announced
  BY <1>1, <1>2, <1>3, PTL DEF Spec
<1>5. Inductive /\ Announced /\ [Next]_vars =>
        [\A w \in Socket, s \in Scan :
           heard'[w][s] # heard[w][s] => /\ Later(heard'[w][s], heard[w][s])
                                         /\ heard'[w][s] = Completed(s) => scan[s].stage = "answered"]_vars
  BY HeardStep
<1> QED
  BY <1>3, <1>4, <1>5, PTL DEF ProgressInOrder
=============================================================================
