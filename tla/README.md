# Screening API: TLA+ models, model checking and proofs

This directory holds a verification development of the screening service in
`src/`. It contains TLA+ modules translated from the Python code, TLC
configurations that check them on small instances, and proofs, checked by
TLAPS, that hold for every value of the constants. `PROJECT.json` is its
index: the runs, the source lines behind each definition, the hazards of the
code and the properties that cover them, the findings, the theorems.

Paths without a directory are files of `src/services/`.

1. The system
2. Modules and their correspondence with the code
3. Runs: questions, bounds, fairness
4. Proofs
5. Findings and known divergences
6. What is only model-checked, what is not modelled
7. Plan

## 1. The system

The service screens stocks and crypto pairs. A request names a universe, a
timeframe and filters; the answer is the assets that pass, with stickers and
the indicators that matched. It is one asyncio process (FastAPI) with SQLite
files beside it and two market data providers (Massive, formerly Polygon, and
Binance) behind HTTP clients.

### 1.1 Inventory

| component | state it keeps | operations | what makes it correct |
|---|---|---|---|
| Gate sessions (`gate_session_store.py`, `screener.py` run_gate / run_entry) | SQLite table `gate_sessions`; scans in flight | store, prune, consume, restore | a session has one holder; one answer; an entry scan works on what its gate stored; none is lost except by an answer, its time limit, a cancelled or killed scan |
| Market data cache (`market_data_store.py`, `market_data.py` fetch_live_data, `market_data_worker.py` refresh cycle) | tables `market_data_cache` and `market_data_interest`; scans and a worker cycle in flight | register interest, get, store, mark failed, claim due, prune | what is handed out as fresh is of the current bar; it is as deep as asked for, of the configured provider and session policy; due rows are retried; rows asked for survive a prune, managed snapshots do not outlive their interest |
| Market data worker (`market_data_worker.py`) | `_running`, `_task`, the loop | start, stop, _run, status | one loop at a time; the status tells the truth; a stop ends and is effective |
| Provider request pacing (`market_data.py` _polygon_get_json, _binance_get_json) | next request time, rate lock, shared client | take a slot, push back, retry, reset the client | requests are spaced; a Retry-After is kept by all; every call ends |
| Scan runtime (`scan_registry.py`, `scan_progress.py`, `api/screening.py`, fetch waves of `market_data.py`) | task registry, websocket connections, fetch tasks | register, cancel, emit, subscribe, leave | a cancelled scan gives no answer; entries do not outlive scans; fetches are bounded; progress is heard in the order of the scan's stages and waves; a socket that left is forgotten |
| Daily, weekly, monthly candles (`market_data.py` grouped-daily requests) | series under construction, one bucket per symbol | choose dates, ask a chunk of dates, merge, finish | each candle is made of exactly the days of its bucket; the newest candles are there; an unsettled day is marked; no whole candle is missing or cut |
| Intraday candles (`market_data.py` session-anchored requests) | download (pages, attempts, source length), payload | page, retry, filter by session, bucket, widen, mark | as above, and a candle handed out as closed has its final values |
| Screening pipeline, detail view (`screener.py`, `adr.py`, `gap_exclusion.py`, `screening_audit.py`) | assets of the running scan, their stickers and reasons | fetch, seven filter stages, audit, detail | the answer is what the filters say of the candles fetched; the audit names the first stage that dropped an asset; the detail view agrees with the scan |
| Snapshots, pairs index, fundamentals (`market_data.py`, `stock_reference.py`) | caches with time limits, one lock each | get, refresh | one refresh at a time; an old value is replaced |
| Asset universe (`asset_router.py`, `asset_universe.py`, ...) | reference files, manual symbols | build the universe, explain it | the explanation agrees with the universe |
| Channel rules (`channel_interactions.py`, `channel_line_rules.py`, `channel_respect.py`, `utils.py`) | none; a verdict over the whole chart | touches, patterns, confirmation, interactions and their evidence, windowed rules, respects | both sides alike; an event ages, and is reported once; respects are distinct; the evidence is true |
| Confluence (`confluence.py`) | none | seven scenarios over two selected lines or zones | what passes is news that still holds |
| Trend channels (`trend_channels.py`) | replayed over the chart: last pivots, an open channel of each direction, the last one broken | advance, break, open, choose the one shown, rules of lines and zones | the one shown lived as it says, stays, and gives no signal after its break |
| Oscillators and averages (`rsi.py`, `aroon_oscillator.py`, `macd.py`, `wavetrend.py`, `vlr.py`, `ema.py`) | none | a verdict within a window, the candle the sticker shows | no repainting; sides alike; the sticker is of the match |
| Volume, volatility, ADX, linear regression candles (`volume.py`, `volatility.py`, `trendy_adx.py`, `linear_regression_candles.py`) | the volatility stop is carried from candle to candle; else none | options, verdict, required history, warnings | as above; the history asked for is enough; a streak is outlined as it is counted; a stop trails |
| Indicator dispatch and history demand (`indicators.py`, `screener.py` 591-807) | none | dispatch, any/all selection, candles required | a handler gets as many candles as it reads |
| Regression channels (`linear_regression_channel.py`, `regression_channel_dw.py`) | none | fit of a line and its deviation | |
| Dead assets algorithm (`dead_assets.py`) | none | streaks, recovery | three outcomes, exclusive |
| Integration controls (`integration_runtime.py`) | a record per provider | pause, resume, record errors | a paused provider is not asked |
| Accounts and keys (`signup_gate_store.py`, user stores) | SQLite | register, verify, revoke | an invite key is used within its limit |
| Request and response models, configuration, tooling | none, or fixed at start | | |

### 1.2 How they interact

- HTTP handlers run each scan as a task of its own (`_run_cancellable_scan`),
  entered in the scan registry; `POST /screen/cancel` cancels the task at its
  next await; websockets hear its progress.
- A scan fetches candles through `fetch_live_data`: cache first, then the
  grouped-daily bulk path or one provider request per symbol in a bounded wave.
  What it stores, later scans and the worker read.
- The worker loop claims due rows of the interest table, fetches them by the
  same provider functions, stores them, and prunes both tables.
- All provider functions go through the pacing of their provider.
- A gate scan's answer goes into the gate session table; an entry scan starts
  from it and runs the same pipeline.
- The detail view runs the filters of a scan again, for one asset, on candles
  it fetches itself.

### 1.3 What is hard

The event loop switches tasks only at an await, so the interleavings are few
per function and many per request. State is read before an await and used after
it (cached rows, the shared client, the worker's task, the set of sockets);
cancellation arrives at any await, and `except Exception` does not see it; the
SQLite tables outlive the process and the scans do not; clocks are read once
and compared later; candles are formed while they are downloaded; a filter is
evaluated twice on data fetched twice. The rules over a chart keep no state, yet
the same rule is written several times over: once for each side, once for the
verdict and once for the candle a sticker shows, once for the candles it reads
and once for those it asks for; and what they say of a chart must agree with
what they said of it a candle ago. The `hazards` of `PROJECT.json` list
each of these at its line.

## 2. Modules

Each module has its correspondence, definition by definition, in `map`.
Definitions whose comment starts with "Fault:" are no part of a specification.
They are plausible mistakes in the definition below them, and `mutants` names
the property that tells each one from the code.

**GateSessions** (abstract specification **OneTimeSession**). Variables: the
table, the gate and entry scans with their place in the code, the clock. Each
visit to the table is one step, as run_entry has no await between the prune and
the delete. Actions: a gate begins, stores, ends; an entry consumes (unknown,
expired, of another scope or owner: refused), works, answers, fails and
restores, is cancelled; the clock; a restart, which keeps the table and loses
the scans. OneTimeSession says it in terms of a session alone: unused, stored,
in the table, held by one entry, spent; GateSessions implements it under the
mapping `Place` and `Answers` (OneTimeSpec).

**MarketCache**. Variables: the rows of both tables for each
key, the scans and worker cycles with what they have read so far, the clock,
the running configuration. A store call is one step (one lock, one thread);
between two calls anything may happen. Actions follow fetch_live_data: register
interest, read the cache and decide (fresh, unfit, due), fetch, store, fall
back to stale data, mark failed; and the worker's cycle: seed, claim, fetch a
batch, store what came back, put off the rest, prune. A restart may change the
provider or session policy under the old rows. `Close` gives the end of the bar
that runs at a time: bars may all be as long, or follow a calendar. The last
candle of a stock's daily answer may be of a day whose session is not over;
until it is (`settles`), the completed-history check lets no scan have the row
(`Compatible`).

**WorkerLifecycle**. asyncio's ready queue is a variable, as the order in which
ready tasks run decides what stop finds when it resumes. Actions: a request
arrives, start, both halves of stop (before and after its await), the loop's
turns, the end of what it awaits, cancellation. Calls arrive at any time, stops
amid other stops too. Three history variables say what the properties need of the
past: whether stops ever overlapped, which loops there were when a stop came, and
which loops a stop dropped while they lived (`lost`).

**RequestPacing**. Each call is at a step: waiting for the lock,
sleeping towards its slot, sending, sleeping before a retry, closing the
client. Time is relative (`until` is the next request time minus now), so the
model needs no bound on the clock. `Resets` tells the Massive function, which
closes the shared client after a transport error, from the Binance function,
which does not.

**ScanRuntime**. Registry, sockets, scans, and the fetch tasks of a scan's present
wave (`child`), which a cancelled scan leaves running. A scan goes through the
stages of its `Pipeline`, each of which opens and closes with a message, and some
of which fetch what the cache misses in a wave of their own: the scan's candles, the
daily ones of the average range, those of the gaps. A message is known by its place,
the stage and the number in it; on the wire all waves carry the label
`fetching_market_data` and each counts from 1. An emit sends to one socket per
step, so others may leave meanwhile. `heard` is a history variable.

**GroupedHistory**. One call for several symbols: the dates asked for (source
days cut to MAX_CANDLES, padding for dates without a row, capped), the chunks of
dates in flight, the answers in any order within a chunk, the native daily
series and the bucketed series, the merge, the finish, the payload's forming
mark, the snapshot of completed candles. A candle is the set of dates it was
merged from, so open, close, high, low and volume are right exactly when the set
is.

**IntradayHistory**. One download under the `tradingview_regular` policy: pages
newest first while bars form, failed attempts, the session filter, buckets
anchored to the session's open, the loop that widens the source; the payload
with its refresh time and with why its source has no older bars (it is as long
as asked for, the provider was silent, or the download stopped at its target or
its last page); the scans served from it.

**Screening**. A scan from its fetch to its answer and a detail view after it,
with the market moving between any two steps. A filter over the timeframe's
candles is a `Verdict` of the window it is given (a constant operator); price
range, average daily range and gap exclusion are written out, as they fetch
daily candles in the middle of a scan; the average range excludes an asset that
has a day whose low is above its high. The stickers and the audit's reasons are
part of the state.

### 2.1 Rules over a chart

These modules are operators, translated function by function; a chart that grows
is their only state. Prices are whole numbers. A bound or an average that is a
fraction in the code is kept on a scale that makes it whole, and a percentage
is rounded down, each as its module says. A line that is not whole on any scale
(a chain of exponential averages, a correlation) is given to the rule, as an
arbitrary series.

| module | what it models |
|---|---|
| **Candles** | ranges of ages and counts, touches, candlestick patterns, confirmation; the leaf module |
| **ChannelRules** | interactions and the stages that explain them, windowed rules of regression lines, channel respect with its clusters |
| **Confluence** | selections in each form that a request may give them (a list of sources, one field per type, the older list of channels) and their defaults, holds and breaks of a line or zone, seven scenarios, sub filters, the sweep, the search for a match |
| **Oscillators** | RSI and Aroon with their series, MACD, directions and crosses of any series |
| **WaveRules** | WaveTrend in both modes (zones, conditions, clauses), VLR with presets, clauses and confirmations |
| **EmaRules** | the EMA conditions over exact averages, the EMA wave |
| **VolumeRules** | options with aliases and conflicts, spikes, relative and current volume over the closed candles, required history, warnings |
| **VolatilityRules** | the three measures, the volatility stop with its breaches and delayed alerts, required history, warnings |
| **AdxRules** | three modes with all their conditions, simple rules, streaks and the candles outlined for them, labels |
| **LinregRules** | fitted candles and their line, states and piercings with exact ages, timing, required history |
| **TrendChannels** | a state machine of its own: one step is one bar of the replay (pivots confirmed late, advance, break, open), and the rules of the channel shown |

**ChartRules** draws the chart: it picks a family of rules, and each step closes
one candle of that family's shapes. It states the properties of lines, patterns
and confluence. **SignalRules** extends it with the indicators and theirs. A
candle carries the values that rules are given (lines a, b, c; a volume).

MC modules give the constants that a configuration file cannot write down;
`...Proofs` modules hold theorems. MarketDataProofs is about three modules at
once, MarketCache, WorkerLifecycle and RequestPacing, so that those of the
worker begin their names with `worker` or `Worker` where two would clash
(WorkerSpec, WorkerNext), and those of the pacing with `Pacing`.

## 3. Runs

Twelve runs: eleven that pass, one that shows a finding (section 5). A
passing run fires every action of its specification. `CHECK_DEADLOCK FALSE`
stands where the number of calls, the clock or the chart is bounded and nothing
more may come; the system really rests then.

| run | question | bounds |
|---|---|---|
| `gate_sessions` | do competing entry scans, failures, restores, cancellations, expiry and restarts keep a session with one answer and a faithful handover, and is it the one-time token of OneTimeSession? | 1 session, 3 entries, 1 symbol, 2 scopes, 2 clients, time limit 1, clock to 2 |
| `market_cache` | with scans racing a worker, failures, restarts and prunes: is fresh data current, is no row parked, does a prune spare what a scan asks for? | 1 managed key, 2 scans, 1 worker, histories up to 2 candles, bars that close at 1 and 3, clock to 2, fallback off |
| `market_unmanaged` | with an on-demand key and a restart under another provider or policy: do cached answers fit, can managed snapshots be pruned? | 2 keys, 1 scan, 1 worker, fits {0, 1}, answers that may end with a stock's running day, fallback on |
| `worker_lifecycle` | starts and stops in every order around the loop's turns: one loop but for those that overlapping stops drop, a true status, stops that end and are effective | 3 starts, 3 stops, at once or not |
| `request_pacing` | spacing, push-back, retries, client resets, cancellation; every call ends | 3 calls, 2 attempts, backoff 1, Retry-After 2 |
| `scan_runtime` | a cancelled scan never answers, entries end with their scans, fetches stay bounded; progress is heard stage by stage and wave by wave; everything ends, and who left is forgotten | 2 scans under one id, one with two fetch waves and one with a stage that may end without a message, 1 socket, 2 symbols, concurrency 1 |
| `grouped_history` | candles of 1d, 2d, 1w, 2w, 1mo for stocks and crypto on each day of a week: made of their days, recent, settled, whole | 2 symbols, week of 3 days with 1 of weekend, month of 4, 1, 3 or 12 (the most) candles, chunks of 2, 1 failing date |
| `intraday` | download, session filter, buckets, widening: each candle is exactly its bucket's bars, and the oldest is whole; every fetch ends | 3 days of 4 bars, sessions of 3 bars, ratio 2, 1, 2 or 5 (the most) candles, 2 pages, 2 attempts, source cap 7, clock to 19 |
| `forming_served` | (finding) has a candle served as closed its final values? | as above |
| `screening` | answer, audit and detail view with all pairs of filters and all at once | 2 symbols, windows up to 4 candles, 12 markets, one candle closing (with a day or without) between any two steps |
| `chart_rules` | every rule over a chart, as the chart grows: is no side favoured, is no signal taken back, is the history asked for enough, is what is said of a match true, do events age and count once, is a confluence news, does a stop trail? | families of 4 to 9 candle shapes: patterns 4 candles, lines 6, confluence 5, oscillators 5, waves 4, VLR 4, volume 5, ADX 5, volatility 5, linear regression 5 |
| `trend_channels` | does the channel shown live as it says, stay, fall silent after its break, and favour no direction? | 9 bars of 4 shapes, pivots of 2 bars either side, both settings on and off; far bars on one side of a chart only |

A property named in a run may be a conjunction of parts, each defined and
explained by itself in its module: LoopTracked (one loop, true status),
RequestsKept, HistoryExact, ScanExact, SidesAlike, StickerTrue.

The properties of a chart are stated of each new candle where they could be
stated of each chart, `[][P(chart')]_vars`: the first chart is empty, so it
is the same, and a rule is evaluated once per step.

### 3.1 Why the bounds are enough to show something

- *Gate sessions*: sessions do not touch each other's rows, so one is the
  general case; three entries are a holder, a rival, and one that comes after a
  restore; with time limit 1 and clock to 2 a row is fresh, just expired and
  long expired. The theorems drop every one of these bounds.
- *Market cache*: keys are decided one by one (a scan is one symbol of a
  request), so a second key matters only for the managed and unmanaged kinds,
  which is the second run. Two scans and a worker are the three parties that
  can hold a row read before somebody else stored. Bars that close at 1 and at 3 let a
  bar change between a read and a store, and are of two lengths. A running day
  matters to what a cached answer may be, which is the second run's question.
- *Worker*: a stop that resumes after another stop and a second start is what drops
  a loop; the third start may then make a loop beside the lost one, and the third
  stop must end the one that is not lost.
- *Pacing*: a holder of the lock, a waiter, and one whose retry comes back;
  `RetryAfter` above the weight makes push-back visible. Two attempts make one
  retry, which is the loop's only turn of interest.
- *Scan runtime*: two scans under one id are harder than ids of their own, and
  a wave of two symbols with room for one has a fetch waiting at the semaphore.
  The second wave counts from 1 again while messages of the first may still be
  on their way to a socket. The theorems are for every pipeline.
- *Grouped history*: a week of three days and a month of four make buckets of
  different lengths that are not multiples of each other or of the chunk, and
  listings that are old, new, with holidays, with gaps and empty reach each way
  the estimate of dates can be too short. Three candles are within the source
  days that MaxCandles allows, twelve are cut for most timeframes, as in the
  code; the paddings differ by market, and either term of their maximum decides
  in some request.
- *Intraday*: sessions of three bars with ratio two have a short last bucket;
  the source cap (7) is below what five buckets may need and above what one or
  two do, so the loop ends by reaching its demand, by the cap, and by a source
  that stops growing; downloads begin in a session, after it, and on a bar's
  edge.
- *Screening*: four candles let the window of the scan, of the detail view and
  of each filter differ; three prices make both kinds of crossing.
- *Charts*: a rule reads its window and a few candles before it; windows and
  lengths are 1 to 3, so charts of four to six candles hold a whole run, the
  candle that breaks it and one outside the window. The shapes of a family are
  chosen for the ties and sides its rules distinguish (a body that ends on the
  line, a wick of no length, two equal lines, a value that is Missing), and the
  rules asked vary each option by itself.
- *Trend channels*: a pivot needs five bars, a channel two pivots and a bar, a
  break one more: nine bars hold a channel that opens, breaks and is succeeded.
  The first ten bars of a longer chart share one average range, which the replay
  knows only at the tenth; a channel that old exists with pivots of two bars only,
  so that BoundAssumption keeps those charts to ten bars, and no others. A chart
  with far bars on both sides at once is left out to keep the run short.

### 3.2 Fairness

| specification | assumed | because |
|---|---|---|
| RequestPacing.FairPacingSpec | weak fairness of PacingTick and of each call's steps | time passes; asyncio runs every ready task, its locks wake waiters in order, and an HTTP request ends with an answer or at its timeout |
| WorkerLifecycle.FairSpec | weak fairness of start, loop and stop steps | the ready queue is served in order; fetches and threads end; no request has to arrive |
| ScanRuntime.FairSpec | weak fairness of the scans, of the fetches and of a leaving socket's cleanup | as above; no client has to cancel, subscribe or leave |
| IntradayHistory.FairSpec | weak fairness of the download's steps | as above; the clock and the scans are not assumed to go on |

The other specifications make no liveness claim and state no fairness. No
strong fairness is assumed anywhere.

## 4. Proofs

For every value of the constants, under the named assumptions:

**GateSessionsProofs** — TypeOK, Exclusive, AnsweredOnce, FaithfulHandover,
SessionAccountedFor, and the refinement of OneTimeSession. The inductive
invariant (IInv) adds to the first four that a row equals what its gate stored
(RowsFaithful): without it a consume would hand over an arbitrary row, and
FaithfulHandover would not follow. SessionAccountedFor needs facts about the
clock beside (a row expires after the moment it was stored, and is pruned only
then). The refinement maps each step to a step of OneTimeSession or a stutter,
by the same invariant; a restart maps to the loss of what was held.

**MarketDataProofs**, of MarketCache — TypeOK, CacheAnswersFit, ManagedRowsPrunable,
NeverParked, and, with the stale fallback off, FreshIsCurrent. CacheAnswersFit
needs that what a scan took from the cache fitted when it read it, its last day
over by then, though the row may have been replaced since (FitInv). NeverParked needs that the times that
scans and workers carry, read from a row or a clock before an await and written
after it, lie as soon as those of the rows (SoonInv). FreshIsCurrent needs that
a row's refresh time is that of its candles, for rows, for what a scan has
read, and for what it fetched (CurrentInv); its assumption is needed, see
section 5. Of the closes of bars no more is used than CloseAssumption says: a bar
closes after the times it runs at, and a later one closes no earlier; so it is
for weeks, months and blocks of days too. PruneSparesAsked is an action property: it needs that the interest
row of a key is no older than the scans that wait for an answer on it
(AskedInv), as whoever wrote the row since wrote a later time; that no scan
began in the future is part of SoonInv.

**MarketDataProofs**, of WorkerLifecycle — LoopTracked and StopIsEffective, for any
number of starts and stops, at once or not. That one loop runs is a matter of what
waits in the ready queue: the invariant says that a loop is queued only while it
lives and a call only while it is under way, neither twice (QueueSound), that a
loop is the work of a start that is done (Born), and that a loop that lives is the
one the worker knows or was dropped by a stop that cleared the task of another
(Known, `lost`). None is lost as long as no two stops overlap: then one stop is
under way at a time (OneStop) and the task it awaits is the one it will clear
(Awaited). So LoopTracked says that overlapping stops are the only way to lose a
loop, that there is never more than one that is not lost, and that the status tells
of that one. For StopIsEffective, a stop that waits is among the waiters of each
loop that it found living, but for those lost since, and goes on only when it has
ended.

**MarketDataProofs**, of RequestPacing — PacingTypeOK and Paced. The invariant
says that the lock is held over an await exactly by the task that sleeps towards its slot
(LockHeldBySleeper), that the next request time covers what is left of the last
interval and of every push-back, and that the sleeper sleeps at least until
then (Covered). A sleeper decides when to send before it sleeps. The lock,
which keeps the others from moving the next request time meanwhile, is what
keeps that decision right.

**ScanRuntimeProofs** — RequestsKept and ProgressInOrder, for every pipeline. The
first needs that a scan's count is that of the results it has taken in its present
wave (Counted), that no request is cancelled before it has a task (Staged), and that
an entry of the registry is under its request's own id (RegistryKnows). The second
needs that the place a scan announces is that of its stage and count, or an earlier
one (InPlace), that no socket has heard of a later place, and that whoever is
still to be sent a message has heard of earlier ones only, as the sockets are told
one after the other and others leave meanwhile (Announced). Counts of two waves are
told apart by the stage they are of. What a client sees under one label does begin
again at 1 with each wave, and the theorem does not say otherwise: it says that no
message comes after one that was announced later.

**GroupedHistoryProofs** — TypeOK, BucketsExact, PayloadIsRecent, AnswersSettled
and HistoryWhole for every calendar, chunk size, listing, depth and failure. The
invariant of the first two says that the rows of a symbol
are merged newest first (InOrder, OlderToCome), that a symbol takes the daily
or the bucketed path and not both (OnePath), that a symbol that is still
looked for has fewer candles than asked for (Short), and that what was heard of
is no older than the open bucket (OpenIsOldest). Division lemmas give that the
dates of a bucket form an interval.

PayloadIsRecent and AnswersSettled are about order and time (Order): candles
descend, the open bucket is older than them (Descends, OpenIsOlder), a day heard
of is in one of them unless its symbol was done by then (Kept), nothing is traded
on a day to come, and the native path of a stock asks for days that are over
(Past, Waited). AnswersSettled also needs that London's date is New York's or,
only when the session there is over, the next (ClockAssumption): at midnight in
London it is evening in New York.

HistoryWhole is a counting argument. The invariant (Course) says that only
candidates are asked for, that a call ends when all were or every symbol is
served, that a symbol that is done was heard of on a day older than its candles,
and that one that is not has no more candles than the limit. Suppose that a
symbol traded on a day before the oldest candidate. Of the candidates it missed
no more than the padding, so it has a row on as many as there are source days,
and a bucket holds no more days than SourceFactor says (of a week, its weekdays
or all its days; Crowded). With the day before, that is more buckets than the
limit, so it has the candles asked for, and the oldest is whole (Spanned). This
uses two facts about the numbers in the code: the cap on the source days is no
lower than the cap of the native path (MaxSourceAssumption; 800 and 625), and
crypto is padded no more than stocks are (2 and 8).

**IntradayHistoryProofs** — HistoryExact (TypeOK, BucketsExact, OldestWhole) for
every stock, session, ratio, page size, cap and clock. The inductive invariant
(IInv) is about the download between its pages, with HistoryExact for what was
built already: what it has is of the stock and no newer than the clock (Past);
no bar is missing between those it has and the time it began, however the pages
fell (PagesJoin); the next page ends with the bar before its oldest one
(Position); after an empty page there is no bar for longer than a bucket takes
(Silence); and a source below its cap is longer than the buckets asked for can
fill (SourceLong). With it the step that builds the payload is a counting
argument: a bucket is at most Ratio bars, so a source that is cut to its length
still has a bucket more than asked for, and the one that is cut is not kept
(KeptAfterFull); a source that ended in silence has its oldest bucket whole,
since a bucket reaches back no further than the silence (KeptWhole). For that
the least stretch of a page must hold a bucket (Ratio <= StretchMin + 1 in
LimitAssumption): in the code four days against an intraday
bucket.

**ScreeningProofs** — ScanExact and DetailAgrees, for every universe that is not
empty, every request and market, and whatever a filter says of a window of
candles (Verdict is any operator). The invariant of ScanExact gives what each
stage may have done when it is its turn (ScanTyped, Course), that each has left
the symbols left to it that do not fail it, and none came back (Judged), and
that the days read by the average range are over and as many as asked for
(DaysRead). Then the first stage that lacks a symbol is the one that dropped it.
DetailAgrees is about a market that stood still since the scan began: every
window read by the scan and then by the detail view is what the provider still
says (ScanCurrent, DetailCurrent), and where the scan's window is as long, both
were given the same candles (WindowsAgree). An empty universe is left out
(`Symbol # {}`), as the detail view is about a symbol.

Where a proof needs an induction over numbers (the least date, the newest
window), it takes the least number that has a property, by the library's theorem
on well-founded orders, whose parameters are sets.

**TrendChannelsProofs** — TypeOK, ShownIsTrue, NoSignalAfterBreak, ShownStays and
AreasMirrored, for every shape of bar, every span of a pivot, every set of rules
and charts of any length; only with a Span of 2 are charts kept to ten bars
(BoundAssumption). The code averages the ranges of the first ten bars before it
replays them, so a channel created among them would have a width that depends on
bars to come. OpensLate shows that no channel is created before bar 3 * Span + 2,
which is past the tenth from a Span of 3 on (the default is 8). A bar of the
replay is four steps, two that may open a
channel and two that advance one; the invariant (Replay) is stated of the states
between them as well, with the directions that are done. It says that an open
channel has been advanced to the bar it should have and no bar was outside its
lines (Lives), that a broken one ended at the first that was (Ended), and that
the last channel, if it is not broken, is an open one's copy (Same). The copy is
not advanced with the open one, so the choice of the one to show must not fall
on it: of two as new, the open one comes first.

AreasMirrored compares a channel with its image upside down. Prices at a bar are
interpolated, so that the image of a line is the line of the image only if its
first pivot is before its second: that is one more invariant (PivotsAhead), and
needs that pivots are confirmed in order. Then every comparison that a rule makes
turns into its counterpart's, area by area and action by action. It is about
candles whose low is not above their high (CandlesAssumption; market_data.py:479
drops the others) and, as the run is, about rules without tolerance and
confirmation, and not about the two actions that exist on one side only
(piercing, reclaimed).

**SignalRulesProofs** — StreakExact, RespectsDistinct, EventsAge, ConfluenceFresh,
StopTrails, ReportedOnce and StickerTrue, for every set of candles, every line,
every rule that a request can ask for, and charts of any length. The state is
the chart, so an invariant has nothing to add; the work is in operators that run
along the candles.

- A series that a rule reads from candle to candle (a scan, a stop, a regression
  line) is a function defined by recursion. That it exists and satisfies its
  equation is proved where it is used, by taking the least candle at which it
  would not; the provers see no more of it than its equation.
- *RespectsDistinct*: the scan of a line counts the first touch and each that is
  far from the touch before it, with the price away in between. Its state after
  a candle is the latest touch and whether the price left since.
- *StreakExact*: the run that ends at the newest candle is one interval; both the
  count and the outline are its length and its ends. A condition whose id names
  a line, and that names another besides, is left out, as in the run
  (trendy_adx.py:1045).
- *EventsAge*: an event reads candles up to its own, so it is the same one on a
  longer chart, and the latest is the same or the new candle.
- *ConfluenceFresh*: each of the seven scenarios by itself, with the search for
  the first event and for the second after it.
- *StopTrails*: the side of the price, the direction in which the stop moves, and
  one early breach per trend follow from one step of each recursion.
- *ReportedOnce*: the value of a regression candle does not change when the chart
  grows (BarsStay), so a run that goes on began where it did, and its length
  grows by one at a time.
- *StickerTrue*: what is shown of a match and what decides it are two different
  searches in the code (the latest match among the last candles, and whether
  there is one). The warnings ask the same rule with other windows: the signals
  of a rule do not depend on its window (SameSignals).

The assumptions are those of ChartRules and SignalRules: requests are ones that
the code accepts (RulesAssumption, AsksAssumption), None is no value
(UnsetAssumption), prices are numbers, a candle's low is not above its high, and
candles are closed (PricesAssumption).

The proofs use SMT, Zenon and LS4 only, and no axiom beyond the named
assumptions. Those are evaluated by TLC in the runs.

## 5. Findings and known divergences

One finding is a run that TLC must find violated; `findings` quotes the
document.

- `forming_served` — a 1h or 4h stock payload fetched while its last candle
  forms is kept until the next multiple of the timeframe since the epoch, and
  buckets of a stock end at half past: between the two the candle is over by
  the clock, loses its forming mark, and is screened with the values of the
  time of the download.

Met while modelling, without a run of their own. A property that the case would
violate leaves it out, and says so in its comment or in its hazard's note:

*Sessions, cache, worker, fetches*

- A cancelled entry scan loses its session: cancellation is not an `Exception`,
  so the restore is skipped (`Mohsin_code_readme.md:379` promises the session
  back after a failure). SessionAccountedFor and OneTimeSession allow it,
  because it is what the code does.
- With `ALLOW_STALE_MARKET_DATA` the fallback writes the old payload back with
  a new refresh time, and the next scan hands it out as fresh.
  FreshIsCurrent is checked and proved with the fallback off.
- A stop of the worker that resumes after another stop returned and a start made a
  new task clears that task, which it did not cancel (market_data_worker.py:71), and
  the new loop runs on, unknown to the status and to later stops. Nothing in the API keeps
  stops apart (api/screening.py:300-304), and no doc or test says that it may not
  happen. LoopTracked and StopIsEffective hold of every order of calls, name these
  loops (`lost`), and say that there is no other way to lose one.
- Progress under one scan id counts from 1 again in each fetch wave, under one
  label (filter_shared.py:164, market_data.py:2845-2856), and each filter has
  messages of its own (screener.py:81-158). ProgressInOrder is about the order of
  the stages and waves.
- A call may send on a client that another call's reset closed; it uses a retry.
- The worker may prune the interest of an on-demand key and leave its snapshot
  for good (`README.md:147`). ManagedRowsPrunable is over managed keys.
- `_calendar_bucket_close_unix` (market_data.py:312) adds the whole amount of
  weeks to the week of its argument, while buckets are aligned to multiples of
  the amount: a 2w candle whose first row is of its second week is held open a
  week too long, though market_data.py:321-337 promises the calendar boundary.
  AnswersSettled is the other side, that none is served too early.
- The oldest intraday candle may be cut when the source is at its cap
  (market_data.py:1459), or when a download stops at its target, which is capped
  too, or at its last page, before the source is as long as asked for; and for
  months the estimate of dates may cut the oldest one. HistoryExact and
  HistoryWhole leave those cases out.
- The source days of a weekly or monthly request go through
  `normalize_candles_limit` (market_data.py:1997), which is meant for candles and
  cuts them to 500. `POLYGON_GROUPED_HISTORY_MAX_SOURCE_DAYS` (800) never
  binds: 200 weekly candles of a stock are asked for on 551 dates, 110 weeks.
  HistoryWhole is over the requests that are not cut.
- A provider's pause is read once per fetch (`market_data.py:1263`).

*Pipeline*

- `apply_indicators` (indicators.py:1646) assigns the stickers of a symbol anew
  and drops what the dead-assets, ADR and gap stages put there, though
  `docs/architecture/PROJECT_MASTER.md:52` has a recovery surface as a sticker.
- The detail view reads a longer window than the scan (`screener.py:1517`), so
  filters that depend on the length may disagree. DetailAgrees is over
  scans whose window is as long.

*Rules*

- The explanation of a reclaim ends with the sentence that the newest candle
  still holds above the line (channel_interactions.py:286-288), whether or not
  the rule asks for it, and though it may not.
- WaveTrend's default mode reads a zone or a direction asked for as a cross
  (wavetrend.py:577 and 242), unlike `docs/extras/dead_assets_combos.md:33-43`.
- The delayed alert of the volatility stop stays true after its first event
  (volatility.py:747).
- The history asked for by the volatility stop (volatility.py:200) does not reach
  back to where its state began, and a cross of the relative volume reads one
  candle more than is asked for (volume.py:654). HistorySuffices leaves
  both out.
- `trace_linreg_signal_window` ignores how the candle closes
  (linear_regression_candles.py:350), so the timing it gives may be of
  another candle than the match.
- With both directions the sequence of VLR's crossings is checked in one of them
  (vlr.py:824), though the comment at vlr.py:753 says not to gate on it; a least
  ratio of 0 is taken for unset (volume.py:1286, vlr.py:838); "highest" over a
  window of 1 always holds; the detail view's EMA wave is given the open candle
  too (ema.py:431), unlike the verdict (ema.py:469).
- The candles outlined for a direction condition whose id names a line are those
  of the line it names besides, if it does (trendy_adx.py:1045), though the
  verdict counts those of the first. StreakExact leaves such a condition out.
- A price that never moved has an RSI of 100 (rsi.py:30), and two equal
  direction lines are bearish (trendy_adx.py:810): sides are not alike at these
  ties.

## 6. What is only model-checked, what is not modelled

Only model-checked:

- liveness (EveryCallEnds, StopEnds, EverythingEnds, GoneIsForgotten,
  EveryFetchEnds), as the prover has no fairness or ENABLED;
- SidesAlike, NothingRepainted and HistorySuffices of SignalRules. Each compares
  two runs of every indicator, on a chart and on its mirror image, on a shorter
  one, or on its last candles. Sums and averages are then taken over the same
  values at other places, of all the series at once, which is induction over
  data for each of them;
- ClosedIsFinal, the finding: it does not hold.

Not modelled, and why:

- the fit of a regression channel, the thresholds of the dead assets algorithm,
  and the lines of MACD, WaveTrend, VLR, the EMA wave and ADX: floating point
  recurrences. What is asked of the lines is modelled, over arbitrary series;
- snapshots, pairs index, fundamentals: caches with one lock held over the whole
  refresh, which leaves no order to go wrong; their values are a fallback;
- asset universe: look-ups in files that are read once;
- integration controls, accounts and keys: each operation is one critical section
  or one transaction. That a pause is read once per fetch is under hazards;
- request models, configuration, logging: validation of one request, or read
  once; the ranges that matter are assumptions on constants;
- the providers themselves, SQLite and asyncio: modelled from their use, as
  answers that may fail or come late, atomic store calls, and a ready queue;
- validation tooling and scripts: no part of the running service.

Left out inside a modelled part: timestamps and last_error of the worker's
status, update_runtime, the batch path of fetch_live_data for all symbols at
once (each symbol is decided alone), indicator snapshots, the table of indicator
handlers, early closes, float rounding of prices, and the wording of stickers
and evidence. A holiday is a date without a row in a listing.

## 7. Plan

Done, in this order: GateSessions with OneTimeSession and its proofs,
MarketCache with proofs, WorkerLifecycle, RequestPacing with proofs,
ScanRuntime, GroupedHistory with proofs, Screening, IntradayHistory; then the
rules over a chart (ChannelRules, Confluence, Oscillators, WaveRules, EmaRules,
VolumeRules, VolatilityRules, AdxRules, LinregRules under ChartRules and
SignalRules), TrendChannels with proofs, and the proofs of ScanRuntime,
WorkerLifecycle, NeverParked, PruneSparesAsked, Screening, GroupedHistory,
IntradayHistory, and of what SignalRules says of matches, events, runs and
stops.

Left, most important first:

1. IntegrationRuntime with a fetch of several pages: once the code has a step
   that stops a fetch which has begun, whether a pause is effective is worth a
   property.
2. The batch path of fetch_live_data, where one failure decides for all symbols,
   over MarketCache.
3. The any/all selection of indicators and the table of handlers, with
   `required_candles_for_indicators` over all of them at once.
4. AssetUniverse: build_asset_universe against the universe's part of the
   detail view (sources are compared case-sensitively in one and not in the
   other; manual symbols; excluded categories for stocks).
5. The proofs of HistorySuffices and NothingRepainted, one indicator at a time,
   each with a lemma on sums over shifted candles.
