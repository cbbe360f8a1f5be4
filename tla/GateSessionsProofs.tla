------------------------- MODULE GateSessionsProofs -------------------------
(***************************************************************************)
(* For every number of sessions, entry requests, scopes and clients, every *)
(* TTL and every bound on the clock: type correctness, exclusivity,        *)
(* one-time use, the faithful handover, and the refinement of              *)
(* OneTimeSession.                                                         *)
(***************************************************************************)
EXTENDS GateSessions, TLAPS

\* The inductive invariant: AnsweredOnce needs Exclusive (the one that answers
\* is the only holder), FaithfulHandover needs RowsFaithful (an entry's assets
\* come out of a row).
IInv == TypeOK /\ Exclusive /\ AnsweredOnce /\ FaithfulHandover /\ RowsFaithful

USE TTLAssumption, MaxTimeAssumption, NoClientAssumption, NoRowAssumption

----------------------------------------------------------------------------
(* What the operators on the table return. *)

\* Pruning keeps the table's type and only ever removes rows.
LEMMA PrunedType ==
  ASSUME TypeOK
  PROVE  /\ Pruned \in [Session -> Row \cup {NoRow}]
         /\ \A s \in Session : Pruned[s] \in {NoRow, rows[s]}
BY DEF TypeOK, Pruned

\* A new row has the type of a row.
LEMMA NewRowType ==
  ASSUME TypeOK, NEW scope \in Scope, NEW client \in Owner,
         NEW metadata \in SUBSET Symbol
  PROVE  /\ NewRow(scope, client, metadata) \in Row
         /\ NewRow(scope, client, metadata) # NoRow
         /\ NewRow(scope, client, metadata).scope = scope
         /\ NewRow(scope, client, metadata).client = client
         /\ NewRow(scope, client, metadata).metadata = metadata
BY DEF TypeOK, NewRow, Row

\* consume empties the one row it hands out and prunes the others.
LEMMA AfterConsumeType ==
  ASSUME TypeOK, NEW s \in Session, NEW scope, NEW client
  PROVE  /\ AfterConsume(s, scope, client) \in [Session -> Row \cup {NoRow}]
         /\ \A t \in Session : AfterConsume(s, scope, client)[t] \in {NoRow, rows[t]}
         /\ Consumable(s, scope, client) => AfterConsume(s, scope, client)[s] = NoRow
BY PrunedType DEF AfterConsume

----------------------------------------------------------------------------
\* What a consume writes into an entry keeps its type.
LEMMA EntryUpdateType ==
  ASSUME entry \in [Entry -> EntryState],
         NEW e \in Entry, NEW pc \in {"refused", "running"}, NEW got \in SUBSET Symbol
  PROVE  [entry EXCEPT ![e].pc = pc, ![e].metadata = got] \in [Entry -> EntryState]
BY DEF EntryState

\* Type correctness is inductive on its own.
LEMMA TypeStep ==
  ASSUME TypeOK, [Next]_vars
  PROVE  TypeOK'
<1>1. CASE UNCHANGED vars
  BY <1>1 DEF TypeOK, vars
<1>2. ASSUME NEW s \in Session, StartGate(s) \/ GateNoData(s) \/ GateStop(s)
      PROVE  TypeOK'
  BY <1>2 DEF TypeOK, GateState, StartGate, GateNoData, GateStop
<1>3. ASSUME NEW s \in Session, NEW passed \in SUBSET Symbol, GateStore(s, passed)
      PROVE  TypeOK'
  <2>1. gate[s].scope \in Scope /\ gate[s].client \in Owner
    BY DEF TypeOK, GateState
  <2>2. rows' \in [Session -> Row \cup {NoRow}]
    BY <1>3, <2>1, PrunedType, NewRowType DEF GateStore
  <2>3. gate' \in [Session -> GateState]
    <3>1. gate \in [Session -> GateState] /\ now \in 0 .. MaxTime
      BY DEF TypeOK
    <3>2. gate' = [gate EXCEPT ![s].pc = "stored", ![s].passed = passed, ![s].at = now]
      BY <1>3 DEF GateStore
    <3> QED
      BY <3>1, <3>2 DEF GateState
  <2> QED
    BY <1>3, <2>2, <2>3 DEF TypeOK, GateStore
<1>4. ASSUME NEW e \in Entry, StartEntry(e) \/ AnswerEntry(e) \/ CancelEntry(e)
      PROVE  TypeOK'
  BY <1>4 DEF TypeOK, EntryState, StartEntry, AnswerEntry, CancelEntry
<1>5. ASSUME NEW e \in Entry, ConsumeEntry(e)
      PROVE  TypeOK'
  <2>1. entry[e] \in EntryState
    BY DEF TypeOK
  <2>2. rows' \in [Session -> Row \cup {NoRow}]
    BY <1>5, <2>1, AfterConsumeType DEF ConsumeEntry, EntryState
  <2> DEFINE r == entry[e]
             got == IF Consumable(r.session, r.scope, r.client)
                      THEN Pruned[r.session].metadata ELSE {}
  <2>3. got \in SUBSET Symbol
    <3>1. r.session \in Session
      BY <2>1 DEF EntryState
    <3>2. CASE Consumable(r.session, r.scope, r.client)
      <4>1. Pruned[r.session] \in Row
        BY <3>1, <3>2, PrunedType DEF Consumable
      <4> QED
        BY <3>2, <4>1 DEF Row
    <3> QED
      BY <3>2
  <2>4. entry' = [entry EXCEPT ![e].pc = IF got = {} THEN "refused" ELSE "running",
                               ![e].metadata = got]
    BY <1>5 DEF ConsumeEntry
  <2>5. entry' \in [Entry -> EntryState]
    <3>1. entry \in [Entry -> EntryState]
      BY DEF TypeOK
    <3> QED
      BY <2>3, <2>4, <3>1, EntryUpdateType
  <2> QED
    BY <1>5, <2>2, <2>5 DEF TypeOK, ConsumeEntry
<1>6. ASSUME NEW e \in Entry, FailEntry(e)
      PROVE  TypeOK'
  <2>1. /\ entry[e].session \in Session
        /\ entry[e].scope \in Scope
        /\ entry[e].client \in Owner
        /\ entry[e].metadata \in SUBSET Symbol
    BY DEF TypeOK, EntryState
  <2>2. rows' \in [Session -> Row \cup {NoRow}]
    BY <1>6, <2>1, NewRowType DEF FailEntry, TypeOK
  <2>3. entry' \in [Entry -> EntryState]
    <3>1. entry \in [Entry -> EntryState]
      BY DEF TypeOK
    <3>2. entry' = [entry EXCEPT ![e].pc = "failed"]
      BY <1>6 DEF FailEntry
    <3> QED
      BY <3>1, <3>2 DEF EntryState
  <2> QED
    BY <1>6, <2>2, <2>3 DEF TypeOK, FailEntry
<1>7. CASE Crash
  <2>1. gate' \in [Session -> GateState]
    BY <1>7 DEF TypeOK, GateState, Crash
  <2>2. entry' \in [Entry -> EntryState]
    BY <1>7 DEF TypeOK, EntryState, Crash
  <2> QED
    BY <1>7, <2>1, <2>2 DEF TypeOK, Crash
<1>8. CASE Tick
  BY <1>8 DEF TypeOK, Tick
<1> QED
  BY <1>1, <1>2, <1>3, <1>4, <1>5, <1>6, <1>7, <1>8 DEF Next

LEMMA TypeInit == Init => TypeOK
BY DEF Init, TypeOK

\* Every variable keeps its type.
THEOREM TypeCorrect == Spec => []TypeOK
BY TypeInit, TypeStep, PTL DEF Spec
----------------------------------------------------------------------------
(* The safety invariants. *)

Safe == Exclusive /\ AnsweredOnce /\ FaithfulHandover /\ RowsFaithful

\* A step that leaves the gates alone, gives no entry a new session, lets no
\* entry start to run or be answered, and at most removes rows, is safe.
LEMMA HarmlessStep ==
  ASSUME IInv,
         entry' \in [Entry -> EntryState],
         \A s \in Session : rows'[s] \in {NoRow, rows[s]},
         \A s \in Session : gate[s].pc = "stored" => gate'[s] = gate[s],
         \A e \in Entry :
            /\ entry'[e].session = entry[e].session
            /\ entry'[e].scope = entry[e].scope
            /\ entry'[e].client = entry[e].client
            /\ entry'[e].metadata = entry[e].metadata
            /\ entry'[e].pc \in {"running", "answered"} => entry'[e].pc = entry[e].pc
  PROVE  Safe'
<1> USE DEF IInv
<1>0. \A e \in Entry : entry[e].session \in Session
  BY DEF TypeOK, EntryState
<1>1. Exclusive'
  <2>1. \A s \in Session : Holders(s)' \subseteq Holders(s)
    BY DEF Holders
  <2> QED
    BY <2>1 DEF Exclusive
<1>2. AnsweredOnce'
  BY <1>0 DEF AnsweredOnce
<1>3. FaithfulHandover'
  BY <1>0 DEF FaithfulHandover
<1>4. RowsFaithful'
  BY DEF RowsFaithful
<1> QED
  BY <1>1, <1>2, <1>3, <1>4 DEF Safe

\* A new gate session: nobody works on it or was answered from it yet.
LEMMA GateStoreSafe ==
  ASSUME IInv, NEW s \in Session, NEW passed \in SUBSET Symbol,
         GateStore(s, passed)
  PROVE  Safe'
<1> USE DEF IInv
<1>0. \A e \in Entry : entry[e].session \in Session
  BY DEF TypeOK, EntryState
<1>1. /\ gate[s].scope \in Scope
      /\ gate[s].client \in Owner
  BY DEF TypeOK, GateState
<1>2. \A e \in Entry : entry[e].pc \in {"running", "answered"} => entry[e].session # s
  BY DEF GateStore, FaithfulHandover
<1>3. /\ rows' = [Pruned EXCEPT ![s] = NewRow(gate[s].scope, gate[s].client, passed)]
      /\ entry' = entry
      /\ gate' = [gate EXCEPT ![s].pc = "stored", ![s].passed = passed, ![s].at = now]
  BY DEF GateStore
<1>4. \A t \in Session \ {s} : rows'[t] \in {NoRow, rows[t]} /\ gate'[t] = gate[t]
  BY <1>3, PrunedType DEF TypeOK
<1>5. /\ gate'[s].pc = "stored"
      /\ gate'[s].passed = passed
      /\ gate'[s].scope = gate[s].scope
      /\ gate'[s].client = gate[s].client
  BY <1>3 DEF TypeOK, GateState
<1>6. rows'[s] = NewRow(gate[s].scope, gate[s].client, passed)
  BY <1>3, PrunedType
<1>7. Exclusive'
  <2>1. \A t \in Session : Holders(t)' = Holders(t)
    BY <1>3 DEF Holders
  <2>2. Holders(s) = {}
    BY <1>2 DEF Holders
  <2> QED
    BY <1>3, <1>4, <2>1, <2>2 DEF Exclusive
<1>8. AnsweredOnce'
  BY <1>0, <1>2, <1>3, <1>4 DEF AnsweredOnce
<1>9. FaithfulHandover'
  <2>1. \A e \in Entry : entry[e].pc \in {"running", "answered"} =>
                           gate'[entry[e].session] = gate[entry[e].session]
    BY <1>0, <1>2, <1>4
  <2> QED
    BY <1>3, <2>1 DEF FaithfulHandover
<1>10. RowsFaithful'
  <2>1. /\ rows'[s].metadata = passed
        /\ rows'[s].scope = gate[s].scope
        /\ rows'[s].client = gate[s].client
    BY <1>1, <1>6, NewRowType
  <2> QED
    BY <1>4, <1>5, <2>1 DEF RowsFaithful
<1> QED
  BY <1>7, <1>8, <1>9, <1>10 DEF Safe

\* consume moves the session from the table to the entry, or changes nothing
\* but the prune.
LEMMA ConsumeSafe ==
  ASSUME IInv, IInv => TypeOK', NEW e \in Entry, ConsumeEntry(e)
  PROVE  Safe'
<1> USE DEF IInv
<1> DEFINE r == entry[e]
           s == r.session
           got == IF Consumable(s, r.scope, r.client) THEN Pruned[s].metadata ELSE {}
<1>0. \A d \in Entry : entry[d] \in EntryState /\ entry[d].session \in Session
  BY DEF TypeOK, EntryState
<1>1. /\ r.pc = "queued"
      /\ rows' = AfterConsume(s, r.scope, r.client)
      /\ entry' = [entry EXCEPT ![e].pc = IF got = {} THEN "refused" ELSE "running",
                                ![e].metadata = got]
      /\ gate' = gate
  BY DEF ConsumeEntry
<1>2. \A t \in Session : rows'[t] \in {NoRow, rows[t]}
  BY <1>0, <1>1, AfterConsumeType
<1>3. \A d \in Entry \ {e} : entry'[d] = entry[d]
  BY <1>1 DEF TypeOK
<1>4. /\ entry'[e].session = s
      /\ entry'[e].scope = r.scope
      /\ entry'[e].client = r.client
      /\ entry'[e].metadata = got
      /\ entry'[e].pc = IF got = {} THEN "refused" ELSE "running"
  <2> HIDE DEF got
  <2> QED
    BY <1>1, <1>0 DEF TypeOK, EntryState
<1>5. CASE got = {}
  <2>1. \A d \in Entry : entry'[d].pc \in {"running", "answered"} =>
                            d # e /\ entry'[d] = entry[d]
    BY <1>3, <1>4, <1>5
  <2>2. \A d \in Entry : entry'[d].session = entry[d].session
    BY <1>3, <1>4
  <2>3. Exclusive'
    <3>1. \A t \in Session : Holders(t)' \subseteq Holders(t)
      BY <2>1, <2>2 DEF Holders
    <3> QED
      BY <1>2, <2>1, <3>1 DEF Exclusive
  <2>4. AnsweredOnce'
    BY <1>0, <1>2, <2>1, <2>2 DEF AnsweredOnce
  <2>5. FaithfulHandover'
    BY <1>0, <1>1, <2>1 DEF FaithfulHandover
  <2>6. RowsFaithful'
    BY <1>1, <1>2 DEF RowsFaithful
  <2> QED
    BY <2>3, <2>4, <2>5, <2>6 DEF Safe
<1>6. CASE got # {}
  <2>1. Consumable(s, r.scope, r.client)
    BY <1>6
  <2>2. /\ s \in Session
        /\ Pruned[s] = rows[s]
        /\ rows[s] # NoRow
        /\ rows'[s] = NoRow
    BY <1>0, <1>1, <2>1, PrunedType, AfterConsumeType DEF Consumable
  <2>3. \A d \in Entry \ {e} : entry[d].pc \in {"running", "answered"} =>
                                 entry[d].session # s
    BY <2>2 DEF Exclusive, Holders, AnsweredOnce
  <2>4. Exclusive'
    <3>1. \A t \in Session \ {s} : Holders(t)' = Holders(t)
      BY <1>1, <1>3, <1>4 DEF Holders
    <3>2. \A d \in Entry : entry'[d].pc = "running" /\ d # e => entry[d].pc = "running"
      BY <1>3
    <3> QED
      BY <1>2, <1>3, <1>4, <2>2, <2>3, <3>1, <3>2 DEF Exclusive
  <2>5. AnsweredOnce'
    <3>1. entry'[e].pc = "running"
      BY <1>4, <1>6
    <3> SUFFICES ASSUME NEW d \in Entry, entry'[d].pc = "answered"
                 PROVE  /\ rows'[entry'[d].session] = NoRow
                        /\ \A f \in Entry \ {d} : entry'[f].session = entry'[d].session =>
                               entry'[f].pc \notin {"running", "answered"}
      BY DEF AnsweredOnce
    <3>2. d # e /\ entry'[d] = entry[d] /\ entry[d].session # s
      BY <1>3, <2>3, <3>1
    <3> QED
      BY <1>0, <1>2, <1>3, <1>4, <3>2 DEF AnsweredOnce
  <2>6. FaithfulHandover'
    <3>1. /\ rows[s].scope = r.scope
          /\ rows[s].client \in {NoClient, r.client}
          /\ rows[s].metadata = got
      BY <2>1, <2>2 DEF Consumable
    <3>2. /\ gate[s].pc = "stored"
          /\ entry'[e].metadata = gate[s].passed
          /\ entry'[e].scope = gate[s].scope
          /\ gate[s].client # NoClient => entry'[e].client = gate[s].client
      BY <1>4, <2>2, <3>1 DEF RowsFaithful
    <3>3. \A d \in Entry \ {e} : entry'[d] = entry[d]
      BY <1>3
    <3>4. entry'[e].session = s
      BY <1>4
    <3>5. gate' = gate
      BY <1>1
    <3>6. ASSUME NEW d \in Entry, entry'[d].pc \in {"running", "answered"}, d # e
          PROVE  LET g == gate'[entry'[d].session]
                 IN  /\ g.pc = "stored"
                     /\ entry'[d].metadata = g.passed
                     /\ entry'[d].scope = g.scope
                     /\ g.client # NoClient => entry'[d].client = g.client
      BY <3>3, <3>5, <3>6 DEF FaithfulHandover
    <3> QED
      BY <3>2, <3>4, <3>5, <3>6 DEF FaithfulHandover
  <2>7. RowsFaithful'
    BY <1>1, <1>2 DEF RowsFaithful
  <2> QED
    BY <2>4, <2>5, <2>6, <2>7 DEF Safe
<1> QED
  BY <1>5, <1>6

\* The answer goes to the one holder, so nobody else has the session or was
\* answered from it.
LEMMA AnswerSafe ==
  ASSUME IInv, NEW e \in Entry, AnswerEntry(e)
  PROVE  Safe'
<1> USE DEF IInv
<1>0. \A d \in Entry : entry[d] \in EntryState /\ entry[d].session \in Session
  BY DEF TypeOK, EntryState
<1>1. /\ entry[e].pc = "running"
      /\ entry' = [entry EXCEPT ![e].pc = "answered"]
      /\ rows' = rows
      /\ gate' = gate
  BY DEF AnswerEntry
<1>2. \A d \in Entry \ {e} : entry'[d] = entry[d]
  BY <1>1 DEF TypeOK
<1>3. /\ entry'[e].pc = "answered"
      /\ entry'[e].session = entry[e].session
      /\ entry'[e].scope = entry[e].scope
      /\ entry'[e].client = entry[e].client
      /\ entry'[e].metadata = entry[e].metadata
  BY <1>0, <1>1 DEF TypeOK, EntryState
<1>4. rows[entry[e].session] = NoRow
  BY <1>0, <1>1 DEF Exclusive, Holders
<1>5. \A d \in Entry \ {e} : entry[d].session = entry[e].session =>
                               entry[d].pc \notin {"running", "answered"}
  BY <1>1 DEF Exclusive, AnsweredOnce
<1>6. Exclusive'
  <2>1. \A t \in Session : Holders(t)' \subseteq Holders(t)
    BY <1>2, <1>3 DEF Holders
  <2>2. \A d \in Entry : entry'[d].pc = "running" => d # e /\ entry'[d] = entry[d]
    BY <1>2, <1>3
  <2> QED
    BY <1>1, <2>1, <2>2 DEF Exclusive
<1>7. AnsweredOnce'
  <2> SUFFICES ASSUME NEW d \in Entry, entry'[d].pc = "answered"
               PROVE  /\ rows[entry'[d].session] = NoRow
                      /\ \A f \in Entry \ {d} : entry'[f].session = entry'[d].session =>
                             entry'[f].pc \notin {"running", "answered"}
    BY <1>1 DEF AnsweredOnce
  <2>1. CASE d = e
    BY <1>2, <1>3, <1>4, <1>5, <2>1
  <2>2. CASE d # e
    BY <1>1, <1>2, <1>3, <2>2 DEF AnsweredOnce
  <2> QED
    BY <2>1, <2>2
<1>8. FaithfulHandover'
  BY <1>0, <1>1, <1>2, <1>3 DEF FaithfulHandover
<1>9. RowsFaithful'
  BY <1>1 DEF RowsFaithful
<1> QED
  BY <1>6, <1>7, <1>8, <1>9 DEF Safe

\* The restore puts back what the only holder had.
LEMMA FailSafe ==
  ASSUME IInv, NEW e \in Entry, FailEntry(e)
  PROVE  Safe'
<1> USE DEF IInv
<1> DEFINE s == entry[e].session
<1>0. \A d \in Entry : entry[d] \in EntryState /\ entry[d].session \in Session
  BY DEF TypeOK, EntryState
<1>1. /\ entry[e].pc = "running"
      /\ entry' = [entry EXCEPT ![e].pc = "failed"]
      /\ rows' = [rows EXCEPT ![s] = NewRow(entry[e].scope, entry[e].client,
                                            entry[e].metadata)]
      /\ gate' = gate
  BY DEF FailEntry
<1>2. \A d \in Entry \ {e} : entry'[d] = entry[d]
  BY <1>1 DEF TypeOK
<1>3. entry'[e].pc = "failed" /\ entry'[e].session = s
  BY <1>0, <1>1 DEF TypeOK, EntryState
<1>4. \A t \in Session \ {s} : rows'[t] = rows[t]
  BY <1>1 DEF TypeOK
<1>5. /\ rows'[s].scope = entry[e].scope
      /\ rows'[s].client = entry[e].client
      /\ rows'[s].metadata = entry[e].metadata
  BY <1>0, <1>1, NewRowType DEF TypeOK, EntryState
<1>6. \A d \in Entry : entry'[d].pc \in {"running", "answered"} =>
                         d # e /\ entry'[d] = entry[d] /\ entry[d].session # s
  BY <1>1, <1>2, <1>3 DEF Exclusive, AnsweredOnce
<1>7. Exclusive'
  <2>1. \A t \in Session : Holders(t)' \subseteq Holders(t)
    BY <1>6 DEF Holders
  <2>2. \A t \in Session : rows'[t] # NoRow => Holders(t)' = {}
    <3> SUFFICES ASSUME NEW t \in Session, rows'[t] # NoRow
                 PROVE  Holders(t)' = {}
      OBVIOUS
    <3>1. CASE t = s
      BY <1>6, <3>1 DEF Holders
    <3>2. CASE t # s
      BY <1>4, <2>1, <3>2 DEF Exclusive
    <3> QED
      BY <3>1, <3>2
  <2>3. \A d, f \in Entry : /\ entry'[d].pc = "running"
                            /\ entry'[f].pc = "running"
                            /\ entry'[d].session = entry'[f].session
                            => d = f
    BY <1>6 DEF Exclusive
  <2> QED
    BY <2>2, <2>3 DEF Exclusive
<1>8. AnsweredOnce'
  BY <1>0, <1>2, <1>3, <1>4, <1>6 DEF AnsweredOnce
<1>9. FaithfulHandover'
  BY <1>1, <1>6 DEF FaithfulHandover
<1>10. RowsFaithful'
  <2>1. /\ gate[s].pc = "stored"
        /\ entry[e].metadata = gate[s].passed
        /\ entry[e].scope = gate[s].scope
        /\ gate[s].client # NoClient => entry[e].client = gate[s].client
    BY <1>1 DEF FaithfulHandover
  <2> QED
    BY <1>1, <1>4, <1>5, <2>1 DEF RowsFaithful
<1> QED
  BY <1>7, <1>8, <1>9, <1>10 DEF Safe

LEMMA SafeStep ==
  ASSUME IInv, [Next]_vars
  PROVE  Safe'
<1>0. TypeOK'
  BY TypeStep DEF IInv
<1>1. CASE UNCHANGED vars
  BY <1>0, <1>1, HarmlessStep DEF vars, TypeOK
<1>2. ASSUME NEW s \in Session, StartGate(s) \/ GateNoData(s) \/ GateStop(s)
      PROVE  Safe'
  <2>1. \A t \in Session : gate[t].pc = "stored" => gate'[t] = gate[t]
    BY <1>2 DEF IInv, TypeOK, StartGate, GateNoData, GateStop
  <2> QED
    BY <1>0, <1>2, <2>1, HarmlessStep DEF TypeOK, StartGate, GateNoData, GateStop
<1>3. ASSUME NEW s \in Session, NEW passed \in SUBSET Symbol, GateStore(s, passed)
      PROVE  Safe'
  BY <1>3, GateStoreSafe
<1>4. ASSUME NEW e \in Entry, StartEntry(e) \/ CancelEntry(e)
      PROVE  Safe'
  <2>1. \A d \in Entry : /\ entry'[d].session = entry[d].session
                         /\ entry'[d].scope = entry[d].scope
                         /\ entry'[d].client = entry[d].client
                         /\ entry'[d].metadata = entry[d].metadata
                         /\ entry'[d].pc \in {"running", "answered"} =>
                              entry'[d].pc = entry[d].pc
    BY <1>4 DEF IInv, TypeOK, EntryState, StartEntry, CancelEntry
  <2> QED
    BY <1>0, <1>4, <2>1, HarmlessStep DEF TypeOK, StartEntry, CancelEntry
<1>5. ASSUME NEW e \in Entry, ConsumeEntry(e)
      PROVE  Safe'
  BY <1>0, <1>5, ConsumeSafe
<1>6. ASSUME NEW e \in Entry, AnswerEntry(e)
      PROVE  Safe'
  BY <1>6, AnswerSafe
<1>7. ASSUME NEW e \in Entry, FailEntry(e)
      PROVE  Safe'
  BY <1>7, FailSafe
<1>8. CASE Crash
  <2>1. \A t \in Session : gate[t].pc = "stored" => gate'[t] = gate[t]
    BY <1>8 DEF IInv, TypeOK, Crash
  <2>2. \A d \in Entry : /\ entry'[d].session = entry[d].session
                         /\ entry'[d].scope = entry[d].scope
                         /\ entry'[d].client = entry[d].client
                         /\ entry'[d].metadata = entry[d].metadata
                         /\ entry'[d].pc \in {"running", "answered"} =>
                              entry'[d].pc = entry[d].pc
    BY <1>8 DEF IInv, TypeOK, EntryState, Crash
  <2> QED
    BY <1>0, <1>8, <2>1, <2>2, HarmlessStep DEF TypeOK, Crash
<1>9. CASE Tick
  BY <1>0, <1>9, HarmlessStep DEF TypeOK, Tick
<1> QED
  BY <1>1, <1>2, <1>3, <1>4, <1>5, <1>6, <1>7, <1>8, <1>9 DEF Next

\* The inductive invariant holds of every behavior.
THEOREM Invariance == Spec => []IInv
<1>1. Init => IInv
  BY TypeInit DEF Init, IInv, Exclusive, Holders, AnsweredOnce, FaithfulHandover,
                  RowsFaithful
<1>2. IInv /\ [Next]_vars => IInv'
  BY TypeStep, SafeStep DEF IInv, Safe
<1> QED
  BY <1>1, <1>2, PTL DEF Spec

\* A session is in the table or with one running entry scan, never in two
\* places (run_entry, consume, restore).
THEOREM ExclusiveHolds == Spec => []Exclusive
BY Invariance, PTL DEF IInv

\* At most one entry request is ever answered from a session.
THEOREM AnsweredOnceHolds == Spec => []AnsweredOnce
BY Invariance, PTL DEF IInv

\* An entry scan works on exactly what its gate let through, for its scope
\* and owner.
THEOREM FaithfulHandoverHolds == Spec => []FaithfulHandover
BY Invariance, PTL DEF IInv

----------------------------------------------------------------------------
(* No session is lost without a cause. *)

\* SessionAccountedFor needs that a row is only pruned when the TTL its
\* session was stored with is over, and that no gate was stored in the future.
StoredInPast == \A s \in Session : gate[s].at <= now

Accounting == SessionAccountedFor /\ RowsOutliveTTL /\ StoredInPast

\* Time does not run backwards.
LEMMA ClockStep ==
  ASSUME TypeOK, [Next]_vars
  PROVE  now \in Nat /\ now' \in Nat /\ now <= now'
<1>1. now \in Nat
  BY DEF TypeOK
<1>2. now' = now \/ now' = now + 1
  BY DEF Next, vars, StartGate, GateNoData, GateStop, GateStore, StartEntry,
         ConsumeEntry, AnswerEntry, FailEntry, CancelEntry, Crash, Tick
<1> QED
  BY <1>1, <1>2

\* A gate is stamped with the time it is stored at, and never changes after.
LEMMA GateStep ==
  ASSUME TypeOK, [Next]_vars, NEW s \in Session
  PROVE  /\ gate[s].at \in Nat
         /\ gate'[s].at \in {gate[s].at, now}
         /\ gate[s].pc = "stored" => gate'[s] = gate[s]
         /\ gate'[s].pc = "stored" => \/ gate'[s] = gate[s]
                                      \/ \E p \in SUBSET Symbol : GateStore(s, p)
<1>0. gate[s] \in GateState /\ gate[s].at \in Nat
  BY DEF TypeOK, GateState
<1>1. CASE gate' = gate
  BY <1>0, <1>1
<1>2. ASSUME NEW t \in Session, StartGate(t) \/ GateNoData(t) \/ GateStop(t)
      PROVE  /\ gate'[s].at = gate[s].at
             /\ gate[s].pc = "stored" => gate'[s] = gate[s]
             /\ gate'[s].pc = "stored" => gate'[s] = gate[s]
  BY <1>0, <1>2 DEF TypeOK, GateState, StartGate, GateNoData, GateStop
<1>3. ASSUME NEW t \in Session, NEW passed \in SUBSET Symbol, GateStore(t, passed)
      PROVE  /\ gate'[s].at \in {gate[s].at, now}
             /\ gate[s].pc = "stored" => gate'[s] = gate[s]
             /\ gate'[s] = gate[s] \/ t = s
  BY <1>0, <1>3 DEF TypeOK, GateState, GateStore
<1>4. ASSUME Crash
      PROVE  /\ gate'[s].at = gate[s].at
             /\ gate[s].pc = "stored" => gate'[s] = gate[s]
             /\ gate'[s].pc = "stored" => gate'[s] = gate[s]
  BY <1>0, <1>4 DEF TypeOK, GateState, Crash
<1>5. \/ gate' = gate
      \/ \E t \in Session : \/ StartGate(t) \/ GateNoData(t) \/ GateStop(t)
                            \/ \E passed \in SUBSET Symbol : GateStore(t, passed)
      \/ Crash
  BY DEF Next, vars, StartEntry, ConsumeEntry, AnswerEntry, FailEntry, CancelEntry, Tick
<1> QED
  BY <1>0, <1>1, <1>2, <1>3, <1>4, <1>5

\* An entry request keeps its session, and an outcome once it has one; a
\* running one leaves only with an outcome.
LEMMA EntryStep ==
  ASSUME TypeOK, [Next]_vars, NEW e \in Entry
  PROVE  /\ entry'[e].session = entry[e].session
         /\ entry[e].pc \in {"answered", "cancelled", "lost"} =>
              entry'[e].pc = entry[e].pc
         /\ entry[e].pc = "running" =>
              \/ entry'[e].pc \in {"running", "answered", "cancelled", "lost"}
              \/ FailEntry(e)
<1>0. entry[e] \in EntryState
  BY DEF TypeOK
<1>1. CASE entry' = entry
  BY <1>1
<1>2. ASSUME NEW d \in Entry, StartEntry(d) \/ AnswerEntry(d) \/ CancelEntry(d)
      PROVE  /\ entry'[e].session = entry[e].session
             /\ entry[e].pc \in {"answered", "cancelled", "lost"} =>
                  entry'[e].pc = entry[e].pc
             /\ entry[e].pc = "running" =>
                  entry'[e].pc \in {"running", "answered", "cancelled", "lost"}
  BY <1>0, <1>2 DEF TypeOK, EntryState, StartEntry, AnswerEntry, CancelEntry
<1>3. ASSUME NEW d \in Entry, ConsumeEntry(d)
      PROVE  /\ entry'[e].session = entry[e].session
             /\ entry[e].pc # "queued" => entry'[e] = entry[e]
  BY <1>0, <1>3 DEF TypeOK, EntryState, ConsumeEntry
<1>4. ASSUME NEW d \in Entry, FailEntry(d)
      PROVE  /\ entry'[e].session = entry[e].session
             /\ entry'[e] = entry[e] \/ (d = e /\ entry[e].pc = "running")
  BY <1>0, <1>4 DEF TypeOK, EntryState, FailEntry
<1>5. ASSUME Crash
      PROVE  /\ entry'[e].session = entry[e].session
             /\ entry[e].pc \in {"answered", "cancelled", "lost"} =>
                  entry'[e].pc = entry[e].pc
             /\ entry[e].pc = "running" => entry'[e].pc = "lost"
  BY <1>0, <1>5 DEF TypeOK, EntryState, Crash
<1>6. \/ entry' = entry
      \/ \E d \in Entry : \/ StartEntry(d) \/ AnswerEntry(d) \/ CancelEntry(d)
                          \/ ConsumeEntry(d) \/ FailEntry(d)
      \/ Crash
  BY DEF Next, vars, StartGate, GateNoData, GateStop, GateStore, Tick
<1> QED
  BY <1>1, <1>2, <1>3, <1>4, <1>5, <1>6

LEMMA StoredInPastStep ==
  ASSUME IInv, StoredInPast, [Next]_vars
  PROVE  StoredInPast'
BY ClockStep, GateStep DEF IInv, StoredInPast

LEMMA RowsOutliveTTLStep ==
  ASSUME IInv, RowsOutliveTTL, StoredInPast, [Next]_vars
  PROVE  RowsOutliveTTL'
<1> USE DEF IInv
<1> SUFFICES ASSUME NEW s \in Session, rows'[s] # NoRow
             PROVE  gate'[s].at + TTL <= rows'[s].expires
  BY DEF RowsOutliveTTL
<1>0. \A e \in Entry : entry[e] \in EntryState /\ entry[e].session \in Session
  BY DEF TypeOK, EntryState
<1>1. CASE rows'[s] = rows[s]
  <2>1. gate[s].pc = "stored"
    BY <1>1 DEF RowsFaithful
  <2>2. gate'[s] = gate[s]
    BY <2>1, GateStep
  <2> QED
    BY <1>1, <2>2 DEF RowsOutliveTTL
<1>2. CASE rows'[s] # rows[s]
  <2>1. \/ \E passed \in SUBSET Symbol : GateStore(s, passed)
        \/ \E e \in Entry : FailEntry(e) /\ entry[e].session = s
    <3>1. ASSUME NEW t \in Session, NEW passed \in SUBSET Symbol, GateStore(t, passed),
                 t # s
          PROVE  FALSE
      BY <1>2, <3>1, PrunedType DEF GateStore
    <3>2. ASSUME NEW e \in Entry, ConsumeEntry(e)
          PROVE  FALSE
      BY <1>0, <1>2, <3>2, AfterConsumeType DEF ConsumeEntry
    <3>3. ASSUME NEW e \in Entry, FailEntry(e), entry[e].session # s
          PROVE  FALSE
      BY <1>2, <3>3 DEF FailEntry, TypeOK
    <3> QED
      BY <1>2, <3>1, <3>2, <3>3 DEF Next, vars, StartGate, GateNoData, GateStop,
                                    StartEntry, AnswerEntry, CancelEntry, Crash, Tick
  <2>2. rows'[s].expires = now + TTL
    <3>1. CASE \E passed \in SUBSET Symbol : GateStore(s, passed)
      BY <3>1, PrunedType DEF GateStore, NewRow
    <3>2. CASE \E e \in Entry : FailEntry(e) /\ entry[e].session = s
      BY <3>2 DEF FailEntry, NewRow, TypeOK
    <3> QED
      BY <2>1, <3>1, <3>2
  <2>3. gate'[s].at \in Nat /\ gate'[s].at <= now
    BY ClockStep, GateStep DEF StoredInPast
  <2> QED
    BY <2>2, <2>3, ClockStep
<1> QED
  BY <1>1, <1>2

LEMMA AccountedStep ==
  ASSUME IInv, Accounting, [Next]_vars
  PROVE  SessionAccountedFor'
<1> USE DEF IInv
<1> SUFFICES ASSUME NEW s \in Session, gate'[s].pc = "stored", gate'[s].passed # {},
                    rows'[s] = NoRow,
                    ~ UsedUp(s, {"answered", "cancelled", "lost"})',
                    ~ (gate'[s].at + TTL <= now')
             PROVE  Holders(s)' # {}
  BY DEF SessionAccountedFor, NotLost
<1>0. \A e \in Entry : entry[e] \in EntryState /\ entry[e].session \in Session
  BY DEF TypeOK, EntryState
<1>1. gate[s].pc = "stored" /\ gate'[s] = gate[s]
  <2>1. ASSUME NEW passed \in SUBSET Symbol, GateStore(s, passed)
        PROVE  FALSE
    <3>1. gate[s].scope \in Scope /\ gate[s].client \in Owner
      BY DEF TypeOK, GateState
    <3> QED
      BY <2>1, <3>1, PrunedType, NewRowType DEF GateStore
  <2> QED
    BY <2>1, GateStep
<1>2. /\ now \in Nat /\ now' \in Nat /\ now <= now'
      /\ gate[s].at \in Nat
      /\ ~ (gate[s].at + TTL <= now)
  <2>1. gate[s].at \in Nat
    BY GateStep
  <2> QED
    BY <1>1, <2>1, ClockStep
<1>3. \A e \in Entry : entry'[e].session = entry[e].session
  BY EntryStep
<1>4. \A e \in Entry : entry[e].session = s =>
                         /\ entry'[e].pc \notin {"answered", "cancelled", "lost"}
                         /\ entry[e].pc \notin {"answered", "cancelled", "lost"}
  BY <1>3, EntryStep DEF UsedUp
<1>5. CASE rows[s] = NoRow
  <2>1. Holders(s) # {}
    BY <1>1, <1>2, <1>4, <1>5 DEF Accounting, SessionAccountedFor, NotLost, UsedUp
  <2>2. PICK e \in Entry : entry[e].pc = "running" /\ entry[e].session = s
    BY <2>1 DEF Holders
  <2>3. ~ FailEntry(e)
    <3>1. NewRow(entry[e].scope, entry[e].client, entry[e].metadata) # NoRow
      BY <1>0, NewRowType DEF EntryState
    <3> QED
      BY <2>2, <3>1 DEF FailEntry, TypeOK
  <2>4. entry'[e].pc = "running"
    BY <1>4, <2>2, <2>3, EntryStep
  <2> QED
    BY <1>3, <2>2, <2>4 DEF Holders
<1>6. CASE rows[s] # NoRow
  <2>1. ~ (rows[s].expires <= now)
    <3>1. gate[s].at + TTL <= rows[s].expires
      BY <1>6 DEF Accounting, RowsOutliveTTL
    <3>2. rows[s].expires \in Nat
      BY <1>6 DEF TypeOK, Row
    <3> QED
      BY <1>2, <3>1, <3>2
  <2>2. Pruned[s] = rows[s]
    BY <2>1 DEF Pruned
  <2>3. PICK e \in Entry : ConsumeEntry(e)
    <3>1. ASSUME NEW t \in Session, NEW passed \in SUBSET Symbol, GateStore(t, passed)
          PROVE  FALSE
      <4>1. t # s
        BY <1>1, <3>1 DEF GateStore
      <4> QED
        BY <1>6, <2>2, <3>1, <4>1, PrunedType DEF GateStore
    <3>2. ASSUME NEW e \in Entry, FailEntry(e)
          PROVE  FALSE
      <4>1. NewRow(entry[e].scope, entry[e].client, entry[e].metadata) # NoRow
        BY <1>0, NewRowType DEF EntryState
      <4> QED
        BY <1>6, <3>2, <4>1 DEF FailEntry, TypeOK
    <3> QED
      BY <1>6, <3>1, <3>2 DEF Next, vars, StartGate, GateNoData, GateStop,
                              StartEntry, AnswerEntry, CancelEntry, Crash, Tick
  <2>4. /\ rows' = AfterConsume(entry[e].session, entry[e].scope, entry[e].client)
        /\ entry' = [entry EXCEPT
             ![e].pc = IF (IF Consumable(entry[e].session, entry[e].scope, entry[e].client)
                             THEN Pruned[entry[e].session].metadata ELSE {}) = {}
                         THEN "refused" ELSE "running",
             ![e].metadata = IF Consumable(entry[e].session, entry[e].scope, entry[e].client)
                               THEN Pruned[entry[e].session].metadata ELSE {}]
    BY <2>3 DEF ConsumeEntry
  <2>5. entry[e].session = s /\ Consumable(s, entry[e].scope, entry[e].client)
    BY <1>0, <1>6, <2>2, <2>4, PrunedType DEF AfterConsume
  <2>6. Pruned[s].metadata = gate[s].passed
    BY <1>6, <2>2 DEF RowsFaithful
  <2>7. entry'[e].pc = "running"
    BY <1>0, <1>1, <2>4, <2>5, <2>6 DEF TypeOK, EntryState
  <2> QED
    BY <1>3, <2>5, <2>7 DEF Holders
<1> QED
  BY <1>5, <1>6

\* A refused or failed entry, and a lost race for the session, never cost the
\* client its gate results.
THEOREM SessionAccountedForHolds == Spec => []SessionAccountedFor
<1>1. Init => Accounting
  BY DEF Init, Accounting, SessionAccountedFor, NotLost, RowsOutliveTTL, StoredInPast,
         GateState
<1>2. IInv /\ Accounting /\ [Next]_vars => Accounting'
  BY AccountedStep, RowsOutliveTTLStep, StoredInPastStep DEF Accounting
<1>3. Accounting => SessionAccountedFor
  BY DEF Accounting
<1> QED
  BY <1>1, <1>2, <1>3, Invariance, PTL DEF Spec

----------------------------------------------------------------------------
(* The refinement of OneTimeSession. *)

\* Where Place finds a session, without the CHOOSE.
PlaceFacts ==
  \A s \in Session :
    /\ gate[s].pc # "stored" => Place[s] = "unissued"
    /\ gate[s].pc = "stored" /\ rows[s] # NoRow => Place[s] = "table"
    /\ \A e \in Holders(s) : Place[s] = e
    /\ gate[s].pc = "stored" /\ rows[s] = NoRow /\ Holders(s) = {} => Place[s] = "spent"

LEMMA PlaceIsWhere == IInv => PlaceFacts
<1> SUFFICES ASSUME IInv, NEW s \in Session, NEW e \in Holders(s)
             PROVE  Place[s] = e
  BY DEF PlaceFacts, Place
<1>1. /\ e \in Entry
      /\ entry[e].pc = "running"
      /\ entry[e].session = s
  BY DEF Holders
<1>2. Holders(s) = {e}
  BY <1>1 DEF IInv, Exclusive, Holders
<1>3. gate[s].pc = "stored" /\ rows[s] = NoRow
  BY <1>1, <1>2 DEF IInv, FaithfulHandover, Exclusive
<1> QED
  BY <1>2, <1>3 DEF Place

\* What one step may do to a session of OneTimeSession.
Moves(s) == \/ OneTime!Issue(s)
            \/ OneTime!Take(s)
            \/ OneTime!GiveBack(s)
            \/ OneTime!Answer(s)
            \/ OneTime!Drop(s)
            \/ OneTime!Stay(s)

\* A session whose gate, holders and answers stay put stays, or is dropped
\* when its row goes.
LEMMA StayOrDrop ==
  ASSUME PlaceFacts, PlaceFacts', IInv, NEW s \in Session,
         gate'[s].pc = gate[s].pc, rows'[s] \in {NoRow, rows[s]},
         Holders(s)' = Holders(s), Answers'[s] = Answers[s]
  PROVE  Moves(s)
<1>1. CASE rows'[s] = rows[s]
  <2>1. Place'[s] = Place[s]
    <3>1. CASE Holders(s) = {}
      BY <1>1, <3>1 DEF PlaceFacts, IInv, TypeOK, Place
    <3>2. CASE Holders(s) # {}
      <4>1. PICK e \in Holders(s) : TRUE
        BY <3>2
      <4> QED
        BY <4>1 DEF PlaceFacts
    <3> QED
      BY <3>1, <3>2
  <2> QED
    BY <2>1 DEF Moves, OneTime!Stay, OneTime!Keep
<1>2. CASE rows'[s] # rows[s]
  <2>1. rows[s] # NoRow /\ rows'[s] = NoRow
    BY <1>2
  <2>2. Holders(s) = {} /\ gate[s].pc = "stored"
    BY <2>1 DEF IInv, Exclusive, RowsFaithful
  <2>3. Place[s] = "table" /\ Place'[s] = "spent"
    BY <2>1, <2>2 DEF PlaceFacts
  <2> QED
    BY <2>3 DEF Moves, OneTime!Drop, OneTime!Keep
<1> QED
  BY <1>1, <1>2

\* Only the entry that moves changes who holds or was answered from a session.
LEMMA OtherSessions ==
  ASSUME NEW e \in Entry, NEW s \in Session, entry[e].session # s,
         entry'[e].session # s,
         \A d \in Entry \ {e} : entry'[d] = entry[d]
  PROVE  Holders(s)' = Holders(s) /\ Answers'[s] = Answers[s]
<1>1. \A d \in Entry : entry'[d].session = s <=> d # e /\ entry[d].session = s
  OBVIOUS
<1>2. \A d \in Entry : entry'[d].session = s => entry'[d] = entry[d]
  OBVIOUS
<1> QED
  BY <1>1, <1>2 DEF Holders, Answers

LEMMA GateRefines ==
  ASSUME IInv, IInv', PlaceFacts, PlaceFacts', NEW s \in Session, NEW t \in Session,
         \/ StartGate(t) \/ GateNoData(t) \/ GateStop(t)
         \/ \E passed \in SUBSET Symbol : GateStore(t, passed)
  PROVE  Moves(s)
<1>1. entry' = entry
  BY DEF StartGate, GateNoData, GateStop, GateStore
<1>2. Holders(s)' = Holders(s) /\ Answers'[s] = Answers[s]
  BY <1>1 DEF Holders, Answers
<1>3. CASE StartGate(t) \/ GateNoData(t) \/ GateStop(t)
  <2>1. /\ rows' = rows
        /\ gate[s].pc = "stored" <=> gate'[s].pc = "stored"
    BY <1>3 DEF IInv, TypeOK, GateState, StartGate, GateNoData, GateStop
  <2>2. Place'[s] = Place[s]
    BY <1>1, <2>1 DEF Place, Holders
  <2> QED
    BY <1>2, <2>2 DEF Moves, OneTime!Stay, OneTime!Keep
<1>4. ASSUME NEW passed \in SUBSET Symbol, GateStore(t, passed)
      PROVE  Moves(s)
  <2>1. /\ gate[t].pc = "scanning"
        /\ gate' = [gate EXCEPT ![t].pc = "stored", ![t].passed = passed, ![t].at = now]
        /\ rows' = [Pruned EXCEPT ![t] = NewRow(gate[t].scope, gate[t].client, passed)]
    BY <1>4 DEF GateStore
  <2>2. CASE s = t
    <3>1. gate'[s].pc = "stored" /\ rows'[s] # NoRow
      BY <2>1, <2>2, PrunedType, NewRowType DEF IInv, TypeOK, GateState
    <3>2. Place[s] = "unissued" /\ Place'[s] = "table"
      BY <2>1, <2>2, <3>1 DEF PlaceFacts
    <3> QED
      BY <1>2, <3>2 DEF Moves, OneTime!Issue, OneTime!Keep
  <2>3. CASE s # t
    <3>1. gate'[s] = gate[s] /\ rows'[s] \in {NoRow, rows[s]}
      BY <2>1, <2>3, PrunedType DEF IInv, TypeOK
    <3> QED
      BY <1>2, <3>1, StayOrDrop
  <2> QED
    BY <2>2, <2>3
<1> QED
  BY <1>3, <1>4

LEMMA EntryRefines ==
  ASSUME IInv, IInv', PlaceFacts, PlaceFacts', NEW s \in Session, NEW e \in Entry,
         \/ StartEntry(e) \/ ConsumeEntry(e) \/ AnswerEntry(e) \/ FailEntry(e)
         \/ CancelEntry(e)
  PROVE  Moves(s)
<1>0. entry[e] \in EntryState /\ entry[e].session \in Session
  BY DEF IInv, TypeOK, EntryState
<1>1. gate' = gate
  BY DEF StartEntry, ConsumeEntry, AnswerEntry, FailEntry, CancelEntry
<1>2. \A d \in Entry \ {e} : entry'[d] = entry[d]
  BY DEF IInv, TypeOK, StartEntry, ConsumeEntry, AnswerEntry, FailEntry, CancelEntry
<1>3. entry'[e].session = entry[e].session
  BY <1>0 DEF IInv, TypeOK, EntryState, StartEntry, ConsumeEntry, AnswerEntry,
              FailEntry, CancelEntry
<1>4. CASE s # entry[e].session
  <2>1. rows'[s] \in {NoRow, rows[s]}
    BY <1>0, <1>4, AfterConsumeType
    DEF IInv, TypeOK, StartEntry, ConsumeEntry, AnswerEntry, FailEntry, CancelEntry
  <2> QED
    BY <1>1, <1>2, <1>3, <1>4, <2>1, OtherSessions, StayOrDrop
<1>5. CASE s = entry[e].session
  <2>1. CASE entry[e].pc # "running" /\ entry'[e].pc # "running"
    <3>1. rows'[s] \in {NoRow, rows[s]}
      BY <1>0, <2>1, AfterConsumeType
      DEF IInv, TypeOK, StartEntry, ConsumeEntry, AnswerEntry, FailEntry, CancelEntry
    <3>2. entry[e].pc # "answered" /\ entry'[e].pc # "answered"
      <4>1. entry'[e].pc \in {"queued", "refused", "cancelled"} /\ entry[e].pc # "answered"
        BY <1>0, <2>1 DEF IInv, TypeOK, EntryState, StartEntry, ConsumeEntry, AnswerEntry,
                          FailEntry, CancelEntry
      <4> QED
        BY <4>1
    <3>3. Holders(s)' = Holders(s) /\ Answers'[s] = Answers[s]
      BY <1>2, <1>3, <2>1, <3>2 DEF Holders, Answers
    <3> QED
      BY <1>1, <3>1, <3>3, StayOrDrop
  <2>2. CASE entry[e].pc # "running" /\ entry'[e].pc = "running"
    <3>1. ConsumeEntry(e)
      BY <1>0, <2>2 DEF IInv, TypeOK, EntryState, StartEntry, AnswerEntry, FailEntry,
                        CancelEntry
    <3>2. Place'[s] = e
      BY <1>3, <1>5, <2>2 DEF PlaceFacts, Holders
    <3>3. Consumable(s, entry[e].scope, entry[e].client)
      BY <1>0, <1>5, <2>2, <3>1 DEF ConsumeEntry, IInv, TypeOK, EntryState
    <3>4. rows[s] # NoRow
      BY <3>3, PrunedType DEF Consumable, IInv
    <3>5. Place[s] = "table"
      BY <3>4 DEF PlaceFacts, IInv, RowsFaithful
    <3>6. Answers'[s] = Answers[s]
      <4>1. entry[e].pc # "answered" /\ entry'[e].pc # "answered"
        BY <2>2, <3>1 DEF ConsumeEntry
      <4> QED
        BY <1>2, <1>3, <4>1 DEF Answers
    <3> QED
      BY <3>2, <3>5, <3>6 DEF Moves, OneTime!Take, OneTime!Keep
  <2>3. CASE entry[e].pc = "running"
    <3>1. Place[s] = e
      BY <1>5, <2>3 DEF PlaceFacts, Holders
    <3>2. gate[s].pc = "stored" /\ rows[s] = NoRow
      BY <1>5, <2>3 DEF IInv, FaithfulHandover, Exclusive, Holders
    <3>3. \A d \in Entry \ {e} : entry[d].session = s =>
                                   entry[d].pc \notin {"running", "answered"}
      BY <1>5, <2>3 DEF IInv, Exclusive, AnsweredOnce
    <3>4. AnswerEntry(e) \/ FailEntry(e) \/ CancelEntry(e)
      BY <2>3 DEF StartEntry, ConsumeEntry
    <3>5. entry'[e].pc \in {"answered", "failed", "cancelled"}
      BY <1>0, <3>4 DEF IInv, TypeOK, EntryState, AnswerEntry, FailEntry, CancelEntry
    <3>6. Holders(s)' = {}
      BY <1>2, <3>3, <3>5 DEF Holders
    <3>7. Answers[s] = {}
      BY <2>3, <3>3 DEF Answers
    <3>8. CASE AnswerEntry(e)
      <4>1. entry'[e].pc = "answered" /\ rows' = rows
        BY <1>0, <3>8 DEF IInv, TypeOK, EntryState, AnswerEntry
      <4>2. Answers'[s] = {e}
        BY <1>2, <1>3, <1>5, <3>3, <4>1 DEF Answers
      <4>3. Place'[s] = "spent"
        BY <1>1, <3>2, <3>6, <4>1 DEF PlaceFacts
      <4> QED
        BY <3>1, <3>7, <4>2, <4>3 DEF Moves, OneTime!Answer
    <3>9. CASE FailEntry(e) \/ CancelEntry(e)
      <4>1. entry'[e].pc # "answered"
        BY <1>0, <3>9 DEF IInv, TypeOK, EntryState, FailEntry, CancelEntry
      <4>2. Answers'[s] = Answers[s]
        BY <1>2, <1>3, <2>3, <4>1 DEF Answers
      <4>3. Place'[s] \in {"table", "spent"}
        BY <1>1, <3>2, <3>6 DEF PlaceFacts
      <4> QED
        BY <3>1, <4>2, <4>3 DEF Moves, OneTime!GiveBack, OneTime!Drop, OneTime!Keep
    <3> QED
      BY <3>4, <3>8, <3>9
  <2> QED
    BY <2>1, <2>2, <2>3
<1> QED
  BY <1>4, <1>5

LEMMA CrashRefines ==
  ASSUME IInv, IInv', PlaceFacts, PlaceFacts', NEW s \in Session, Crash
  PROVE  Moves(s)
<1>1. rows' = rows /\ (gate[s].pc = "stored" <=> gate'[s].pc = "stored")
  BY DEF IInv, TypeOK, GateState, Crash
<1>2. \A e \in Entry : /\ entry'[e].session = entry[e].session
                       /\ entry'[e].pc # "running"
                       /\ entry'[e].pc = "answered" <=> entry[e].pc = "answered"
  BY DEF IInv, TypeOK, EntryState, Crash
<1>3. Answers'[s] = Answers[s]
  BY <1>2 DEF Answers
<1>4. Holders(s)' = {}
  BY <1>2 DEF Holders
<1>5. CASE Holders(s) = {}
  <2>1. Place'[s] = Place[s]
    BY <1>1, <1>4, <1>5 DEF Place
  <2> QED
    BY <1>3, <2>1 DEF Moves, OneTime!Stay, OneTime!Keep
<1>6. CASE Holders(s) # {}
  <2>1. PICK e \in Holders(s) : TRUE
    BY <1>6
  <2>2. e \in Entry /\ entry[e].pc = "running" /\ entry[e].session = s
    BY <2>1 DEF Holders
  <2>3. gate[s].pc = "stored" /\ rows[s] = NoRow
    BY <1>6, <2>2 DEF IInv, FaithfulHandover, Exclusive
  <2>4. Place[s] = e /\ Place'[s] = "spent"
    BY <1>1, <1>4, <2>1, <2>3 DEF PlaceFacts
  <2> QED
    BY <1>3, <2>2, <2>4 DEF Moves, OneTime!Drop, OneTime!Keep
<1> QED
  BY <1>5, <1>6

LEMMA RefinedStep ==
  IInv /\ IInv' /\ PlaceFacts /\ PlaceFacts' /\ [Next]_vars
    => [OneTime!Next]_<<Place, Answers>>
<1> SUFFICES ASSUME IInv, IInv', PlaceFacts, PlaceFacts', [Next]_vars,
                    NEW s \in Session
             PROVE  Moves(s)
  BY DEF OneTime!Next, Moves
<1>1. CASE UNCHANGED vars \/ Tick
  <2>1. rows' = rows /\ gate' = gate /\ entry' = entry
    BY <1>1 DEF vars, Tick
  <2>2. Place'[s] = Place[s] /\ Answers'[s] = Answers[s]
    BY <2>1 DEF Place, Answers, Holders
  <2> QED
    BY <2>2 DEF Moves, OneTime!Stay, OneTime!Keep
<1>2. CASE Crash
  BY <1>2, CrashRefines
<1>3. ASSUME NEW t \in Session,
             \/ StartGate(t) \/ GateNoData(t) \/ GateStop(t)
             \/ \E passed \in SUBSET Symbol : GateStore(t, passed)
      PROVE  Moves(s)
  BY <1>3, GateRefines
<1>4. ASSUME NEW e \in Entry,
             \/ StartEntry(e) \/ ConsumeEntry(e) \/ AnswerEntry(e) \/ FailEntry(e)
             \/ CancelEntry(e)
      PROVE  Moves(s)
  BY <1>4, EntryRefines
<1> QED
  BY <1>1, <1>2, <1>3, <1>4 DEF Next

\* Gate sessions in SQLite, entry scans, failures, cancellations and restarts
\* implement the session that is used once.
THEOREM Refinement == Spec => OneTimeSpec
<1>1. Init => OneTime!Init
  BY DEF Init, OneTime!Init, Place, Answers
<1>2. IInv => PlaceFacts
  BY PlaceIsWhere
<1> QED
  BY <1>1, <1>2, Invariance, RefinedStep, PTL DEF Spec, OneTimeSpec, OneTime!Spec
=============================================================================
