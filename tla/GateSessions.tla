---------------------------- MODULE GateSessions ----------------------------
(***************************************************************************)
(* Two-timeframe screening.  A gate scan (run_gate) stores the assets that *)
(* passed under a fresh session id; an entry scan (run_entry) consumes the *)
(* session, works on its assets and, when it fails, puts the session back. *)
(*                                                                         *)
(* The event loop is single-threaded and run_entry has no await between    *)
(* the prune and the delete of _consume_gate_results, so each visit to the *)
(* gate_sessions table is one atomic step.  Everything between two awaits  *)
(* of a scan is one step; a cancellation is delivered at an await.  The    *)
(* table is in SQLite and outlives the process, the scans do not.          *)
(*                                                                         *)
(* A definition whose comment starts with "Fault:" is no part of the       *)
(* specification: it is a plausible mistake in the definition below it,    *)
(* and the properties are checked to tell the two apart.                   *)
(***************************************************************************)
EXTENDS Naturals, FiniteSets

CONSTANTS
  Session,      \* the uuid4 ids, one for each gate request
  Entry,        \* entry requests
  Symbol,       \* assets that may pass a gate
  Scope,        \* values of _scope_hash_from_request
  Client,       \* values of _client_identity
  NoClient,     \* no client identity
  NoRow,        \* no row with that session_id
  TTL,          \* GATE_SESSION_TTL_SECONDS
  MaxTime       \* bound on the clock

ASSUME TTLAssumption == TTL \in Nat \ {0}
ASSUME MaxTimeAssumption == MaxTime \in Nat
ASSUME NoClientAssumption == NoClient \notin Client

Owner == Client \cup {NoClient}

\* A row of the gate_sessions table.
Row == [scope : Scope, client : Owner, metadata : SUBSET Symbol,
        expires : 0 .. (MaxTime + TTL)]

ASSUME NoRowAssumption == NoRow \notin Row

VARIABLES
  now,     \* int(time.time())
  rows,    \* the gate_sessions table, by session_id
  gate,    \* the gate request that owns each session id
  entry    \* the entry requests
vars == <<now, rows, gate, entry>>

GateState == [pc : {"new", "scanning", "stored", "empty", "stopped"},
              scope : Scope, client : Owner, passed : SUBSET Symbol,
              at : 0 .. MaxTime]

\* "answered" covers both a full response and {"results": []} when no data
\* came back; "refused" is the early return when nothing was consumed.
EntryState == [pc : {"new", "queued", "running", "answered", "refused",
                     "failed", "cancelled", "lost"},
               session : Session, scope : Scope, client : Owner,
               metadata : SUBSET Symbol]

TypeOK == /\ now \in 0 .. MaxTime
          /\ rows \in [Session -> Row \cup {NoRow}]
          /\ gate \in [Session -> GateState]
          /\ entry \in [Entry -> EntryState]

Init == /\ now = 0
        /\ rows = [s \in Session |-> NoRow]
        /\ gate \in [Session -> {g \in GateState : /\ g.pc = "new"
                                                   /\ g.passed = {}
                                                   /\ g.at = 0}]
        /\ entry \in [Entry -> {e \in EntryState : /\ e.pc = "new"
                                                   /\ e.metadata = {}}]

----------------------------------------------------------------------------
\* DELETE ... WHERE expires_at <= now
Pruned == [s \in Session |->
             IF rows[s] # NoRow /\ rows[s].expires <= now THEN NoRow ELSE rows[s]]

\* Fault: the owner test is dropped from consume.
ConsumableByAnyone(s, scope, client) == Pruned[s] # NoRow /\ Pruned[s].scope = scope

\* The row consume() hands out: present after the prune, of the same scope,
\* and unowned or owned by the caller.
Consumable(s, scope, client) ==
  /\ Pruned[s] # NoRow
  /\ Pruned[s].scope = scope
  /\ Pruned[s].client \in {NoClient, client}

\* Fault: consume(..., delete=False), the delete left for after the scan.
AfterConsumeUndeleted(s, scope, client) == Pruned

\* The table after consume(..., delete=True).
AfterConsume(s, scope, client) ==
  IF Consumable(s, scope, client) THEN [Pruned EXCEPT ![s] = NoRow] ELSE Pruned

\* INSERT into the table, or INSERT OR REPLACE of a restore, with a new TTL.
NewRow(scope, client, metadata) ==
  [scope |-> scope, client |-> client, metadata |-> metadata, expires |-> now + TTL]
----------------------------------------------------------------------------
(* Gate requests *)

\* POST /screen/run-gate starts the scan; it awaits the universe and the data.
StartGate(s) ==
  /\ gate[s].pc = "new"
  /\ gate' = [gate EXCEPT ![s].pc = "scanning"]
  /\ UNCHANGED <<now, rows, entry>>

\* No market data came back: run_gate returns before it stores a session.
GateNoData(s) ==
  /\ gate[s].pc = "scanning"
  /\ gate' = [gate EXCEPT ![s].pc = "empty"]
  /\ UNCHANGED <<now, rows, entry>>

\* The pipeline has ended: prune, then store the assets that passed, even
\* when none did, and answer with the session id.
GateStore(s, passed) ==
  /\ gate[s].pc = "scanning"
  /\ gate' = [gate EXCEPT ![s].pc = "stored", ![s].passed = passed, ![s].at = now]
  /\ rows' = [Pruned EXCEPT ![s] = NewRow(gate[s].scope, gate[s].client, passed)]
  /\ UNCHANGED <<now, entry>>

\* The gate scan raises or is cancelled; it holds no session yet.
GateStop(s) ==
  /\ gate[s].pc = "scanning"
  /\ gate' = [gate EXCEPT ![s].pc = "stopped"]
  /\ UNCHANGED <<now, rows, entry>>
----------------------------------------------------------------------------
(* Entry requests *)

\* POST /screen/run-entry with a session id a gate answered with: the handler
\* wraps run_entry in a task, which runs at a later turn of the loop.
StartEntry(e) ==
  /\ entry[e].pc = "new"
  /\ gate[entry[e].session].pc = "stored"
  /\ entry' = [entry EXCEPT ![e].pc = "queued"]
  /\ UNCHANGED <<now, rows, gate>>

\* First turn of run_entry, up to its first await: consume the session; an
\* empty result, refused or stored empty, ends the request.
ConsumeEntry(e) ==
  LET r == entry[e]
      got == IF Consumable(r.session, r.scope, r.client)
               THEN Pruned[r.session].metadata ELSE {}
  IN  /\ r.pc = "queued"
      /\ rows' = AfterConsume(r.session, r.scope, r.client)
      /\ entry' = [entry EXCEPT ![e].pc = IF got = {} THEN "refused" ELSE "running",
                                ![e].metadata = got]
      /\ UNCHANGED <<now, gate>>

\* Fault: the restore stands in a finally and runs for answered scans too.
AnswerEntryRestoring(e) ==
  LET r == entry[e]
  IN  /\ r.pc = "running"
      /\ rows' = [rows EXCEPT ![r.session] = NewRow(r.scope, r.client, r.metadata)]
      /\ entry' = [entry EXCEPT ![e].pc = "answered"]
      /\ UNCHANGED <<now, gate>>

\* run_entry returns, with results or because no data came back.
AnswerEntry(e) ==
  /\ entry[e].pc = "running"
  /\ entry' = [entry EXCEPT ![e].pc = "answered"]
  /\ UNCHANGED <<now, rows, gate>>

\* Fault: the handler of a failed scan forgets the restore.
FailEntryForgetful(e) ==
  /\ entry[e].pc = "running"
  /\ entry' = [entry EXCEPT ![e].pc = "failed"]
  /\ UNCHANGED <<now, rows, gate>>

\* except Exception: restore under the same id, for this client, with a new
\* TTL, and re-raise.
FailEntry(e) ==
  LET r == entry[e]
  IN  /\ r.pc = "running"
      /\ rows' = [rows EXCEPT ![r.session] = NewRow(r.scope, r.client, r.metadata)]
      /\ entry' = [entry EXCEPT ![e].pc = "failed"]
      /\ UNCHANGED <<now, gate>>

\* POST /screen/cancel, or a shutdown of the server, throws
\* CancelledError at the await: not an Exception, so nothing is restored.
CancelEntry(e) ==
  /\ entry[e].pc \in {"queued", "running"}
  /\ entry' = [entry EXCEPT ![e].pc = "cancelled"]
  /\ UNCHANGED <<now, rows, gate>>
----------------------------------------------------------------------------
\* The process restarts: the table stays, the scans in flight are gone.
Crash ==
  /\ \/ \E s \in Session : gate[s].pc = "scanning"
     \/ \E e \in Entry : entry[e].pc \in {"queued", "running"}
  /\ gate' = [s \in Session |->
                IF gate[s].pc = "scanning" THEN [gate[s] EXCEPT !.pc = "stopped"]
                                           ELSE gate[s]]
  /\ entry' = [e \in Entry |->
                IF entry[e].pc \in {"queued", "running"}
                  THEN [entry[e] EXCEPT !.pc = "lost"] ELSE entry[e]]
  /\ UNCHANGED <<now, rows>>

Tick == /\ now < MaxTime
        /\ now' = now + 1
        /\ UNCHANGED <<rows, gate, entry>>

Next == \/ \E s \in Session : \/ StartGate(s)
                              \/ GateNoData(s)
                              \/ \E passed \in SUBSET Symbol : GateStore(s, passed)
                              \/ GateStop(s)
        \/ \E e \in Entry : \/ StartEntry(e)
                            \/ ConsumeEntry(e)
                            \/ AnswerEntry(e)
                            \/ FailEntry(e)
                            \/ CancelEntry(e)
        \/ Crash
        \/ Tick

Spec == Init /\ [][Next]_vars
----------------------------------------------------------------------------
Holders(s) == {e \in Entry : entry[e].pc = "running" /\ entry[e].session = s}

\* A gate session is in one place at a time: in the table, or with one
\* running entry scan.  Two concurrent /run-entry calls, a retry after a
\* failure and a restart never let two scans work on one session
\* (run_entry, consume with delete, restore).
Exclusive ==
  /\ \A s \in Session : rows[s] # NoRow => Holders(s) = {}
  /\ \A d, e \in Entry : /\ entry[d].pc = "running"
                         /\ entry[e].pc = "running"
                         /\ entry[d].session = entry[e].session
                         => d = e

\* One-time use: of all the entry requests ever made with a session id at
\* most one is answered from it, and once one is, the session is in nobody's
\* hands again.
AnsweredOnce ==
  \A e \in Entry : entry[e].pc = "answered" =>
    /\ rows[entry[e].session] = NoRow
    /\ \A d \in Entry \ {e} : entry[d].session = entry[e].session =>
                                entry[d].pc \notin {"running", "answered"}

\* However often a session was consumed and restored, the entry scan works on
\* exactly the assets the gate let through, under the gate's scope, and, when
\* the gate had a client, for that client.
FaithfulHandover ==
  \A e \in Entry : entry[e].pc \in {"running", "answered"} =>
    LET g == gate[entry[e].session]
    IN  /\ g.pc = "stored"
        /\ entry[e].metadata = g.passed
        /\ entry[e].scope = g.scope
        /\ g.client # NoClient => entry[e].client = g.client

\* A session with assets that is neither in the table nor held was used up by
\* an answer, went down with a cancelled or lost scan, or is past the expiry
\* it was stored with: a refused or failed entry never costs the client the
\* session.
UsedUp(s, pcs) == \E e \in Entry : entry[e].session = s /\ entry[e].pc \in pcs

NotLost(pcs) ==
  \A s \in Session :
    gate[s].pc = "stored" /\ gate[s].passed # {} =>
      \/ rows[s] # NoRow
      \/ Holders(s) # {}
      \/ UsedUp(s, pcs)
      \/ gate[s].at + TTL <= now

SessionAccountedFor == NotLost({"answered", "cancelled", "lost"})
----------------------------------------------------------------------------
\* What the table's rows say agrees with the gate that stored them: the part
\* of the inductive invariant that carries FaithfulHandover through a restore.
RowsFaithful ==
  \A s \in Session : rows[s] # NoRow =>
    LET g == gate[s]
    IN  /\ g.pc = "stored"
        /\ rows[s].metadata = g.passed
        /\ rows[s].scope = g.scope
        /\ g.client # NoClient => rows[s].client = g.client

\* A row lives at least as long as the TTL its session was stored with.
RowsOutliveTTL ==
  \A s \in Session : rows[s] # NoRow => gate[s].at + TTL <= rows[s].expires

\* Where each session is and which entries it has answered, for the abstract
\* specification of a session that is used once.
Place == [s \in Session |->
            IF gate[s].pc # "stored" THEN "unissued"
            ELSE IF rows[s] # NoRow THEN "table"
            ELSE IF Holders(s) # {} THEN CHOOSE e \in Holders(s) : TRUE
            ELSE "spent"]
Answers == [s \in Session |->
              {e \in Entry : entry[e].pc = "answered" /\ entry[e].session = s}]

ASSUME EntryAssumption == Entry \cap {"unissued", "table", "spent"} = {}

OneTime == INSTANCE OneTimeSession WITH place <- Place, answers <- Answers

\* The table, the entry scans, their failures, cancellations and restarts
\* together implement a session that answers at most one request.
OneTimeSpec == OneTime!Spec
=============================================================================
