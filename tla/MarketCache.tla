----------------------------- MODULE MarketCache -----------------------------
(***************************************************************************)
(* Market data: fetch_live_data, which answers scans from the snapshot     *)
(* cache or the provider, and one cycle of the background worker, which    *)
(* keeps the managed timeframes warm, over the two SQLite tables           *)
(* market_data_cache and market_data_interest.                             *)
(*                                                                         *)
(* A key is a (symbol, timeframe) pair.  Managed keys belong to a          *)
(* timeframe with a worker cache, the others are fetched on demand and     *)
(* cached on the side.  Every store call runs in a thread under one lock,  *)
(* so a call is one step; between two calls anything may happen.           *)
(*                                                                         *)
(* A snapshot keeps what decisions are made on: when the provider answered *)
(* (asof), how many candles it has, its next_refresh_at, when its last     *)
(* candle counts as completed history (settles), and how well it fits the  *)
(* running configuration.  A scan is one symbol of a request:              *)
(* fetch_live_data decides for each symbol alone.                          *)
(*                                                                         *)
(* A definition whose comment starts with "Fault:" is no part of the       *)
(* specification, see GateSessions.                                        *)
(***************************************************************************)
EXTENDS Integers, FiniteSets

CONSTANTS
  Key,          \* (symbol, timeframe) pairs
  Managed,      \* the keys of one of WORKER_CACHE_TIMEFRAMES, see Check
  Scan,         \* calls of fetch_live_data
  Worker,       \* worker cycles: the _run loop, a manual refresh_once
  NoRow,        \* no row, no snapshot
  Deep,         \* MAX_CANDLES; a limit is in 1 .. Deep
  Close,        \* when the bar that runs at a time closes
  Buffer,       \* REFRESH_BUFFER_SECONDS
  Backoff,      \* max(FAILED_REFRESH_BACKOFF_SECONDS, a quarter of timeframe_seconds)
  Retention,    \* retention_for(timeframe)
  BatchSize,    \* due keys taken by one cycle
  History,      \* candles the provider has of each key
  Settling,     \* how long the last candle of an answer may take to settle
  Refit,        \* how well payloads may fit after a restart
  AllowStale,   \* ALLOW_STALE_MARKET_DATA
  MaxStale,     \* MAX_STALE_MARKET_DATA_AGE_SECONDS
  MaxTime       \* bound on the clock

ASSUME KeyAssumption == Managed \subseteq Key
ASSUME NumberAssumption ==
  /\ Deep \in Nat \ {0} /\ Buffer \in Nat
  /\ Backoff \in Nat \ {0} /\ Retention \in Nat /\ BatchSize \in Nat \ {0}
  /\ MaxStale \in Nat /\ MaxTime \in Nat
ASSUME StaleAssumption == AllowStale \in BOOLEAN
ASSUME HistoryAssumption == History \in [Key -> 1 .. Deep]

Time == 0 .. MaxTime

\* The closes of a fixed duration, or of weeks, months and blocks of days.
ASSUME CloseAssumption ==
  /\ Close \in [Time -> Nat]
  /\ \A t \in Time : t < Close[t]
  /\ \A t, u \in Time : t <= u => Close[t] <= Close[u]

\* Only a stock's daily candle, of a day whose session is not over, has to settle.
ASSUME SettlingAssumption ==
  /\ DOMAIN Settling = Key
  /\ \A k \in Key : Settling[k] \subseteq Nat /\ Settling[k] # {}

\* How a snapshot fits the configuration: not this provider (0), the provider
\* but not the session policy, alignment version or anchoring (1), all (2).
Fit == 0 .. 2

ASSUME RefitAssumption == Refit \subseteq Fit

Snapshot == [asof : Time, depth : 1 .. Deep, next : Nat, settles : Nat, fits : Fit]
Row      == [snap : Snapshot, updated : Time]
Interest == [requested : Time, next : Nat]

ASSUME NoRowAssumption == NoRow \notin Snapshot \cup Row \cup Interest

VARIABLES
  now,        \* int(time.time())
  cache,      \* market_data_cache
  interest,   \* market_data_interest
  scan,       \* calls of fetch_live_data
  worker      \* worker cycles
vars == <<now, cache, interest, scan, worker>>

Sources == {"none", "live_provider", "fresh_cache", "stale_cache"}

ScanState == [pc : {"new", "quoting", "refetching", "peeking", "lookup", "registering",
                    "fetching", "storing", "restaling", "backing", "done", "cancelled"},
              key : Key, limit : 1 .. Deep, t0 : Time,
              seen : Row \cup {NoRow}, got : Snapshot \cup {NoRow}, source : Sources]

WorkerState == [pc : {"idle", "seeding", "picking", "skipping", "checking",
                      "rescheduling", "fetching", "storing", "backing", "pruning"},
                t0 : Time, keys : SUBSET Key, failed : SUBSET Key,
                plan : [Key -> Nat], items : [Key -> Snapshot \cup {NoRow}]]

TypeOK == /\ now \in Time
          /\ cache \in [Key -> Row \cup {NoRow}]
          /\ interest \in [Key -> Interest \cup {NoRow}]
          /\ scan \in [Scan -> ScanState]
          /\ worker \in [Worker -> WorkerState]

IdleWorker == [pc |-> "idle", t0 |-> 0, keys |-> {}, failed |-> {},
               plan |-> [k \in Key |-> 0], items |-> [k \in Key |-> NoRow]]

Init == /\ now = 0
        /\ cache = [k \in Key |-> NoRow]
        /\ interest = [k \in Key |-> NoRow]
        /\ scan \in [Scan -> [pc : {"new"}, key : Key, limit : 1 .. Deep, t0 : {0},
                              seen : {NoRow}, got : {NoRow}, source : {"none"}]]
        /\ worker = [w \in Worker |-> IdleWorker]

----------------------------------------------------------------------------
(* Refresh times *)

Least(a, b) == IF a <= b THEN a ELSE b

\* next_refresh_at_for_timeframe: the close of the running bar, and the buffer.
Boundary(t) == Close[t] + Buffer

\* is_refresh_due of a built payload, which always has next_refresh_at.
Due(snap, t) == t >= snap.next

\* _build_market_data_payload of a provider answer that arrives now, with the
\* candles asked for as far as the provider has them.
Answers(k, limit) ==
  {[asof |-> now, depth |-> Least(limit, History[k]), next |-> Boundary(now),
    settles |-> now + wait, fits |-> 2] : wait \in Settling[k]}

\* is_payload_compatible_for_fetch; the check of the last day reads the clock.
Compatible(snap) == snap.fits = 2 /\ snap.settles <= now

\* Fault: a hit is not asked whether it is due.
HitWhateverAge(row, limit, t) ==
  row # NoRow /\ Compatible(row.snap) /\ row.snap.depth >= limit

\* A cached row answers a scan without a fetch.
Hit(row, limit, t) ==
  row # NoRow /\ Compatible(row.snap) /\ row.snap.depth >= limit /\ ~ Due(row.snap, t)

\* Fault: the fallback takes the payload of any provider.
StaleUsableAnyProvider(row, limit, t) ==
  row # NoRow /\ row.snap.depth >= limit /\ AllowStale /\ t - row.updated <= MaxStale

\* The stale fallback applies to the row a scan saw before its fetch failed.
StaleUsable(row, limit, t) ==
  /\ row # NoRow
  /\ Compatible(row.snap)
  /\ row.snap.depth >= limit
  /\ AllowStale
  /\ t - row.updated <= MaxStale

\* What the worker, and the seed, refetch: they ask for the provider only, and
\* not for the session policy or the depth.
WorkerMisses(row, t) == row = NoRow \/ row.snap.fits = 0 \/ Due(row.snap, t)
----------------------------------------------------------------------------
(* The store *)

\* Fault: on conflict only next_refresh_at is updated.
RegisteredQuietly(keys, next) ==
  [k \in Key |->
     IF k \notin keys THEN interest[k]
     ELSE IF interest[k] = NoRow THEN [requested |-> now, next |-> next[k]]
     ELSE [interest[k] EXCEPT !.next = Least(interest[k].next, next[k])]]

\* register_interest: a row that exists keeps the earlier next_refresh_at.
Registered(keys, next) ==
  [k \in Key |->
     IF k \notin keys THEN interest[k]
     ELSE [requested |-> now,
           next |-> IF interest[k] = NoRow THEN next[k]
                                           ELSE Least(interest[k].next, next[k])]]

\* store_snapshots, second half: last_requested_at of a row that exists stays.
StoredInterest(items) ==
  [k \in Key |->
     IF items[k] = NoRow THEN interest[k]
     ELSE [requested |-> IF interest[k] = NoRow THEN now ELSE interest[k].requested,
           next |-> items[k].next]]

\* store_snapshots, first half: whatever was there is overwritten.
StoredCache(items) ==
  [k \in Key |-> IF items[k] = NoRow THEN cache[k]
                                     ELSE [snap |-> items[k], updated |-> now]]

\* Fault: the snapshot is written without its interest row.
StoreSnapshotsOnly(items) == cache' = StoredCache(items) /\ UNCHANGED interest

StoreSnapshots(items) == cache' = StoredCache(items) /\ interest' = StoredInterest(items)

\* update_interest_schedule: overwrites, and counts as a request.
Rescheduled(keys, next) ==
  [k \in Key |-> IF k \in keys THEN [requested |-> now, next |-> next[k]]
                               ELSE interest[k]]

\* prune: pairs whose interest row has not been asked for within the retention.
Prunable(k) == interest[k] # NoRow /\ now - interest[k].requested > Retention

Only(k, snap) == [j \in Key |-> IF j = k THEN snap ELSE NoRow]
----------------------------------------------------------------------------
(* A scan *)

\* A scan that ends without data.
Ended(s, pc) == [scan[s] EXCEPT !.pc = pc, !.t0 = 0, !.seen = NoRow, !.got = NoRow]

\* fetch_live_data captures its clock once, at the start.  A request without
\* candle history asks for one candle and is latest_only; it tries a quote
\* first when the symbol's provider has one.
StartScan(s) ==
  /\ scan[s].pc = "new"
  /\ \E pc \in {"lookup", "quoting"} :
       /\ pc = "quoting" => scan[s].limit = 1
       /\ scan' = [scan EXCEPT ![s].pc = pc, ![s].t0 = now]
  /\ UNCHANGED <<now, cache, interest, worker>>

\* latest_only without an answer: the scan goes on like any other, unless another
\* symbol of the request was answered: then this one is missing.
Unquoted(s) == \/ scan' = [scan EXCEPT ![s].pc = "lookup"]
               \/ scan' = [scan EXCEPT ![s] = Ended(s, "done")]

\* latest_only: the quote arrives, or it does not and one candle is fetched,
\* which is not stored.
Quote(s) ==
  /\ scan[s].pc \in {"quoting", "refetching"}
  /\ \/ \E answer \in Answers(scan[s].key, 1) :
          scan' = [scan EXCEPT ![s].pc = "done", ![s].got = answer,
                               ![s].source = "live_provider"]
     \/ /\ scan[s].pc = "quoting"
        /\ scan' = [scan EXCEPT ![s].pc = "refetching"]
     \/ /\ scan[s].pc = "refetching"
        /\ IF scan[s].key \in Managed THEN scan' = [scan EXCEPT ![s].pc = "peeking"]
                                      ELSE Unquoted(s)
  /\ UNCHANGED <<now, cache, interest, worker>>

\* latest_only with no answer: a managed row that is not due at t0 will do,
\* whatever its depth.
Peek(s) ==
  LET r == scan[s]
      row == cache[r.key]
  IN  /\ r.pc = "peeking"
      /\ IF Hit(row, 1, r.t0)
           THEN scan' = [scan EXCEPT ![s].pc = "done", ![s].got = row.snap,
                                     ![s].source = "fresh_cache"]
           ELSE Unquoted(s)
      /\ UNCHANGED <<now, cache, interest, worker>>

\* get_cached, and what comes of it: an unmanaged hit answers, a managed one is
\* kept until its interest is registered.
Lookup(s) ==
  LET r == scan[s]
      row == cache[r.key]
  IN  /\ r.pc = "lookup"
      /\ scan' =
           IF Hit(row, r.limit, r.t0)
             THEN IF r.key \in Managed
                    THEN [scan EXCEPT ![s].pc = "registering", ![s].got = row.snap]
                    ELSE [scan EXCEPT ![s].pc = "done", ![s].got = row.snap,
                                      ![s].source = "fresh_cache"]
           ELSE IF r.key \in Managed
             THEN [scan EXCEPT ![s].pc = "registering", ![s].seen = row]
           ELSE [scan EXCEPT ![s].pc = "fetching"]
      /\ UNCHANGED <<now, cache, interest, worker>>

\* register_interest: due at once when the row seen was no hit.
Register(s) ==
  LET r == scan[s]
      hit == r.got # NoRow
      next == [k \in Key |-> IF hit THEN Boundary(r.t0) ELSE r.t0]
  IN  /\ r.pc = "registering"
      /\ interest' = Registered({r.key}, next)
      /\ scan' = IF hit
                   THEN [scan EXCEPT ![s].pc = "done", ![s].source = "fresh_cache"]
                   ELSE [scan EXCEPT ![s].pc = "fetching"]
      /\ UNCHANGED <<now, cache, worker>>

\* The provider answers, with at most the candles asked for.
FetchOk(s) ==
  /\ scan[s].pc = "fetching"
  /\ \E answer \in Answers(scan[s].key, scan[s].limit) :
       scan' = [scan EXCEPT ![s].pc = "storing", ![s].seen = NoRow, ![s].got = answer]
  /\ UNCHANGED <<now, cache, interest, worker>>

Store(s) ==
  LET r == scan[s]
  IN  /\ r.pc = "storing"
      /\ StoreSnapshots(Only(r.key, r.got))
      /\ scan' = [scan EXCEPT ![s].pc = "done", ![s].source = "live_provider"]
      /\ UNCHANGED <<now, worker>>

\* The fetch fails after its retries: a managed key falls back or backs off,
\* an unmanaged one is missing from the results.
FetchFail(s) ==
  LET r == scan[s]
  IN  /\ r.pc = "fetching"
      /\ scan' =
           IF r.key \notin Managed
             THEN [scan EXCEPT ![s] = Ended(s, "done")]
           ELSE IF StaleUsable(r.seen, r.limit, r.t0)
             THEN [scan EXCEPT ![s].pc = "restaling", ![s].seen = NoRow,
                     ![s].got = [r.seen.snap EXCEPT !.depth = r.limit,
                                                    !.next = r.t0 + Backoff]]
           ELSE [scan EXCEPT ![s].pc = "backing", ![s].seen = NoRow]
      /\ UNCHANGED <<now, cache, interest, worker>>

\* The stale payload goes back into the store with the backoff as its
\* next_refresh_at and is handed out as stale.
Restale(s) ==
  LET r == scan[s]
  IN  /\ r.pc = "restaling"
      /\ StoreSnapshots(Only(r.key, r.got))
      /\ scan' = [scan EXCEPT ![s].pc = "done", ![s].source = "stale_cache"]
      /\ UNCHANGED <<now, worker>>

\* Fault: the backoff is added to the old schedule instead of the clock.
BackOffScanFurther(s) ==
  LET r == scan[s]
  IN  /\ r.pc = "backing"
      /\ interest' = Rescheduled({r.key}, [k \in Key |-> Boundary(r.t0) + Backoff])
      /\ scan' = [scan EXCEPT ![s] = Ended(s, "done")]
      /\ UNCHANGED <<now, cache, worker>>

\* No fallback: the interest row is moved to the backoff, the symbol is missing.
BackOffScan(s) ==
  LET r == scan[s]
  IN  /\ r.pc = "backing"
      /\ interest' = Rescheduled({r.key}, [k \in Key |-> r.t0 + Backoff])
      /\ scan' = [scan EXCEPT ![s] = Ended(s, "done")]
      /\ UNCHANGED <<now, cache, worker>>

\* The scan is cancelled at an await, or an exception ends it.
CancelScan(s) ==
  /\ scan[s].pc \notin {"new", "done", "cancelled"}
  /\ scan' = [scan EXCEPT ![s] = Ended(s, "cancelled")]
  /\ UNCHANGED <<now, cache, interest, worker>>
----------------------------------------------------------------------------
(* A worker cycle *)

\* _seed_symbol_interest reads the cache: when each managed key is next due.
\* A cycle that does not seed goes straight to the due keys.
BeginCycle(w) ==
  /\ worker[w].pc = "idle"
  /\ \/ worker' = [worker EXCEPT
          ![w].pc = "seeding",
          ![w].plan = [k \in Key |-> IF WorkerMisses(cache[k], now) THEN now
                                     ELSE cache[k].snap.next]]
     \/ worker' = [worker EXCEPT ![w].pc = "picking"]
  /\ UNCHANGED <<now, cache, interest, scan>>

\* ... and registers them in a second visit to the store.
Seed(w) ==
  /\ worker[w].pc = "seeding"
  /\ interest' = Registered(Managed, worker[w].plan)
  /\ worker' = [worker EXCEPT ![w] = [IdleWorker EXCEPT !.pc = "picking"]]
  /\ UNCHANGED <<now, cache, scan>>

\* due_symbols: WHERE next_refresh_at <= now ORDER BY next_refresh_at LIMIT.
DueBatches ==
  LET due == {k \in Key : interest[k] # NoRow /\ interest[k].next <= now}
  IN  {b \in SUBSET due :
         /\ Cardinality(b) = Least(BatchSize, Cardinality(due))
         /\ \A j \in b, k \in due \ b : interest[j].next <= interest[k].next}

PickDue(w) ==
  /\ worker[w].pc = "picking"
  /\ \E batch \in DueBatches :
       worker' = [worker EXCEPT
         ![w].pc = IF batch \subseteq Managed THEN "checking" ELSE "skipping",
         ![w].t0 = now, ![w].keys = batch \cap Managed]
  /\ UNCHANGED <<now, cache, interest, scan>>

\* Unmanaged timeframes are not refreshed: clear_interest_for_timeframes.
SkipUnmanaged(w) ==
  /\ worker[w].pc = "skipping"
  /\ interest' = [k \in Key |-> IF k \in Managed THEN interest[k] ELSE NoRow]
  /\ worker' = [worker EXCEPT ![w].pc = "checking"]
  /\ UNCHANGED <<now, cache, scan>>

\* get_cached of the batch: keys somebody has refreshed meanwhile are only
\* rescheduled, the others are fetched.  A cycle takes the timeframes of its
\* batch one after the other, each with its own rows, and all with the clock of
\* PickDue: for the managed timeframe here the others are time that passes.
Check(w) ==
  LET r == worker[w]
      miss == {k \in r.keys : WorkerMisses(cache[k], r.t0)}
  IN  /\ r.pc = "checking"
      /\ worker' = [worker EXCEPT
           ![w].pc = IF r.keys = {} THEN "pruning" ELSE "rescheduling",
           ![w].keys = miss, ![w].failed = r.keys \ miss,
           ![w].plan = [k \in Key |-> IF k \in r.keys \ miss THEN cache[k].snap.next
                                                             ELSE 0]]
      /\ UNCHANGED <<now, cache, interest, scan>>

Reschedule(w) ==
  LET r == worker[w]
  IN  /\ r.pc = "rescheduling"
      /\ interest' = Rescheduled(r.failed, r.plan)
      /\ worker' = [worker EXCEPT ![w].pc = IF r.keys = {} THEN "pruning" ELSE "fetching",
                                  ![w].failed = {}, ![w].plan = IdleWorker.plan]
      /\ UNCHANGED <<now, cache, scan>>

\* fetch_batches: the answers of the batch arrive one by one, in any order.
FetchOne(w, k) ==
  LET r == worker[w]
  IN  /\ r.pc = "fetching"
      /\ k \in r.keys \ r.failed
      /\ r.items[k] = NoRow
      /\ \/ \E answer \in Answers(k, Deep) :
              worker' = [worker EXCEPT ![w].items[k] = answer]
         \/ worker' = [worker EXCEPT ![w].failed = r.failed \cup {k}]
      /\ UNCHANGED <<now, cache, interest, scan>>

\* All answers are in: store_snapshots of those that came.
StoreItems(w) ==
  LET r == worker[w]
  IN  /\ r.pc = "fetching"
      /\ \A k \in r.keys : k \in r.failed \/ r.items[k] # NoRow
      /\ StoreSnapshots(r.items)
      /\ worker' = [worker EXCEPT ![w].pc = IF r.failed = {} THEN "pruning" ELSE "backing",
                                  ![w].items = IdleWorker.items]
      /\ UNCHANGED <<now, scan>>

\* The others are moved to the backoff, from the clock the cycle began with.
BackOffWorker(w) ==
  LET r == worker[w]
  IN  /\ r.pc = "backing"
      /\ interest' = Rescheduled(r.failed, [k \in Key |-> r.t0 + Backoff])
      /\ worker' = [worker EXCEPT ![w].pc = "pruning"]
      /\ UNCHANGED <<now, cache, scan>>

\* prune deletes the interest row and the snapshot together.
Prune(w) ==
  /\ worker[w].pc = "pruning"
  /\ interest' = [k \in Key |-> IF Prunable(k) THEN NoRow ELSE interest[k]]
  /\ cache' = [k \in Key |-> IF Prunable(k) THEN NoRow ELSE cache[k]]
  /\ worker' = [worker EXCEPT ![w] = IdleWorker]
  /\ UNCHANGED <<now, scan>>

\* stop() cancels the cycle at an await, or an exception ends it.  A seed that is
\* cancelled runs on in its thread, like Seed followed by AbortCycle.
AbortCycle(w) ==
  /\ worker[w].pc # "idle"
  /\ worker' = [worker EXCEPT ![w] = IdleWorker]
  /\ UNCHANGED <<now, cache, interest, scan>>
----------------------------------------------------------------------------
\* The process restarts, perhaps with another provider (fit 0) or session
\* policy (fit 1): the tables stay, and their payloads fit at most that well.
Restart(fit) ==
  /\ cache' = [k \in Key |->
                 IF cache[k] = NoRow THEN NoRow
                 ELSE [cache[k] EXCEPT !.snap.fits = Least(cache[k].snap.fits, fit)]]
  /\ scan' = [s \in Scan |->
                IF scan[s].pc \in {"new", "done"} THEN scan[s]
                ELSE Ended(s, "cancelled")]
  /\ worker' = [w \in Worker |-> IdleWorker]
  /\ UNCHANGED <<now, interest>>

Tick == /\ now < MaxTime
        /\ now' = now + 1
        /\ UNCHANGED <<cache, interest, scan, worker>>

Next ==
  \/ \E s \in Scan : \/ StartScan(s) \/ Quote(s) \/ Peek(s) \/ Lookup(s)
                     \/ Register(s) \/ FetchOk(s) \/ Store(s) \/ FetchFail(s)
                     \/ Restale(s) \/ BackOffScan(s) \/ CancelScan(s)
  \/ \E w \in Worker : \/ BeginCycle(w) \/ Seed(w) \/ PickDue(w) \/ SkipUnmanaged(w)
                       \/ Check(w) \/ Reschedule(w)
                       \/ \E k \in Key : FetchOne(w, k)
                       \/ StoreItems(w) \/ BackOffWorker(w) \/ Prune(w)
                       \/ AbortCycle(w)
  \/ \E fit \in Refit : Restart(fit)
  \/ Tick

Spec == Init /\ [][Next]_vars
----------------------------------------------------------------------------
Answered(s) == scan[s].pc = "done" /\ scan[s].source # "none"

\* Data handed out as live or as fresh cache is of the bar the scan started
\* in: the provider answered after the last refresh time before t0, whoever
\* stored it, in whatever order concurrent fetches were stored ("stale-cache
\* fallback is disabled to avoid silently serving old market data").
FreshIsCurrent ==
  \A s \in Scan : Answered(s) /\ scan[s].source # "stale_cache" =>
                    scan[s].t0 < Boundary(scan[s].got.asof)

\* A scan answered from the cache gets the candles it asked for, none of a day
\* that is still running, and only from the provider and session policy the
\* process runs with.
CacheAnswersFit ==
  \A s \in Scan : Answered(s) => /\ scan[s].got.fits = 2
                                 /\ \/ scan[s].source = "live_provider"
                                    \/ /\ scan[s].got.depth >= scan[s].limit
                                       /\ scan[s].got.settles <= now

\* prune can find every snapshot: it starts from the interest rows.
ManagedRowsPrunable == \A k \in Managed : cache[k] # NoRow => interest[k] # NoRow

\* No interleaving of scans, workers, seeds and failures parks a managed key
\* beyond the next bar boundary or one backoff: the worker looks at it again.
NeverParked ==
  \A k \in Managed : interest[k] # NoRow =>
    interest[k].next <= Boundary(now) \/ interest[k].next <= now + Backoff

\* A snapshot whose key a scan has registered interest in is never pruned
\* within the retention of that scan.
AskedFor(s, k) == /\ scan[s].key = k
                  /\ scan[s].pc \in {"fetching", "storing", "restaling", "backing"}
                  /\ now - scan[s].t0 <= Retention
PruneSparesAsked ==
  [][\A k \in Managed, s \in Scan :
       AskedFor(s, k) /\ interest[k] # NoRow => interest'[k] # NoRow]_vars
=============================================================================
