----------------------------- MODULE Screening -----------------------------
(***************************************************************************)
(* One scan and the detail view of a symbol after it: run_single, run_gate *)
(* and run_entry from the fetch to the answer (_run_filter_pipeline and    *)
(* the filters it applies, the stickers, the reasons of the audit), and    *)
(* get_asset_detail, which evaluates the same filters a second time for    *)
(* one symbol.  Between any two steps the market may move on.              *)
(*                                                                         *)
(* A filter computed from the candles of the scan's timeframe (dead        *)
(* assets, indicators, channel respect, confluence) is a Verdict on the    *)
(* window of completed candles it is given; price range, average daily     *)
(* range and gap exclusion are written out.                                *)
(*                                                                         *)
(* A definition whose comment starts with "Fault:" is no part of the       *)
(* specification, see GateSessions.                                        *)
(***************************************************************************)
EXTENDS Integers, Sequences, FiniteSets, SequencesExt

CONSTANTS
  Symbol,       \* the symbols of the universe, all stocks or all crypto
  Request,      \* screening requests
  Market,       \* for each symbol the candles of the timeframe and the daily ones
  Price,        \* prices of the timeframe's candles
  Verdict(_, _),\* outcome of a filter on a window of closing prices
  Need,         \* candles each filter on the timeframe's candles asks for
  Floated,      \* the symbols that pass a float or shares-outstanding indicator
  MaxCandles,   \* the 500 of the screener and of fetch_live_data
  DetailFloor,  \* DETAIL_RECENT_CANDLES
  MinDead,      \* MIN_CANDLES of dead assets
  Spacing,      \* _max_session_spacing_days: [BOOLEAN -> Nat], by crypto
  Start,        \* candle and day that are forming when the scan starts
  MaxNow        \* bound on the candle that is forming

Filter == {"price_range", "dead_assets", "adr", "gap_exclusion", "indicators",
           "channel_respect", "confluence"}
\* Filters on the candles of the timeframe.
Charted == {"dead_assets", "indicators", "channel_respect", "confluence"}
Outcome == {"passes", "recovers", "fails", "raises"}

\* on: the filters of the request that are enabled; fundamental: all its
\* indicators are of SNAPSHOT_COMPATIBLE_INDICATORS; forming: the provider's
\* last candle of the timeframe is still open.
RequestType ==
  [on : SUBSET Filter, crypto : BOOLEAN, forming : BOOLEAN, fundamental : BOOLEAN,
   price : [min : Nat, max : Nat],
   adr : [days : Nat \ {0}, condition : {"gte", "lte", "between"},
          min : Nat, max : Nat, crypto : BOOLEAN],
   gap : [days : Nat \ {0, 1}, direction : {"both", "up", "down"}, pct : Nat, max : Nat]]
Candle == [time : Nat, price : Price]
Day == [day : Nat, high : Nat, low : Nat]

ASSUME RequestAssumption == Request \subseteq RequestType
ASSUME MarketAssumption ==
  \A m \in Market : /\ m.candles \in [Symbol -> Seq(Candle)]
                    /\ m.days \in [Symbol -> Seq(Day)]
ASSUME PriceAssumption == Price \subseteq Nat
ASSUME VerdictAssumption ==
  \A f \in Charted, n \in 1 .. MaxCandles : \A w \in [1 .. n -> Price] :
    Verdict(f, w) \in Outcome
ASSUME NeedAssumption == Need \in [Charted -> Nat]
ASSUME NumberAssumption ==
  /\ MaxCandles \in Nat \ {0, 1} /\ DetailFloor \in 1 .. MaxCandles
  /\ MinDead \in Nat /\ Spacing \in [BOOLEAN -> Nat]
  /\ Start \in [now : Nat, today : Nat] /\ MaxNow \in Nat
  /\ Symbol # {} /\ Floated \subseteq Symbol

VARIABLES
  request,   \* the body of the scan, sent again with the detail request
  market,    \* what the provider knows, now and later
  now,       \* the candle of the timeframe that is forming
  today,     \* the day that is forming
  steady,    \* the market has not moved, and no symbol of a fetch was missing
  scan,      \* the scan's locals
  detail     \* the detail view's
vars == <<request, market, now, today, steady, scan, detail>>

----------------------------------------------------------------------------
(* Candles. *)

Lesser(a, b) == IF a < b THEN a ELSE b
LastOf(seq, n) == IF Len(seq) <= n THEN seq ELSE SubSeq(seq, Len(seq) - n + 1, Len(seq))

\* The items of seq at some of its places, in their order.
Those(seq, places) ==
  [k \in 1 .. Cardinality(places) |->
     seq[CHOOSE i \in places : Cardinality({j \in places : j <= i}) = k]]

\* The newest limit candles; the last of them may still be open.
Before(candles, t) == Those(candles, {i \in DOMAIN candles : candles[i].time < t})
Fetched(s, limit) ==
  LastOf(Before(market.candles[s], IF request.forming THEN now + 1 ELSE now), limit)
Prices(candles) == [i \in DOMAIN candles |-> candles[i].price]

\* requires_candle_history, required_candles_for_request
On(f) == f \in request.on
NeedsHistory == (request.on \cap Charted) \ (IF request.fundamental THEN {"indicators"} ELSE {}) # {}
Asked(f) == IF f = "indicators" /\ request.fundamental THEN 1 ELSE Need[f]
Required ==
  LET asked == {1} \cup {Asked(f) : f \in request.on \cap Charted}
  IN Lesser(MaxCandles, CHOOSE n \in asked : \A m \in asked : m <= n)

\* One candle more is fetched, open candles are dropped, and the newest limit
\* are kept (fetch_screening_data, get_asset_detail, _completed_candle_snapshot).
Completed(s, limit) ==
  LastOf(Prices(Before(Fetched(s, Lesser(MaxCandles, limit + 1)), now)), limit)

\* Without history the snapshot's last candle is taken, open or not.
ScanWindow(s) == IF NeedsHistory THEN Completed(s, Required) ELSE Prices(Fetched(s, 1))

\* Fault: the detail's candles are not at least the scan's.
DetailWindowFlat(s) == Completed(s, DetailFloor)

DetailWindow(s) ==
  Completed(s, IF Required < DetailFloor THEN DetailFloor ELSE Required)

\* The daily candles of the provider: a stock's day is there once it is over.
DaysBefore(days, t) == Those(days, {i \in DOMAIN days : days[i].day < t})
Daily(s) == DaysBefore(market.days[s], IF request.crypto THEN today + 1 ELSE today)

\* get_completed_daily_candles_bulk: the last days completed daily candles,
\* nothing when there are fewer than minimum.
DailyWindow(s, days, minimum) ==
  LET closed == DaysBefore(LastOf(Daily(s), Lesser(MaxCandles, days + 1)), today)
  IN IF Len(closed) < minimum THEN <<>> ELSE LastOf(closed, days)

----------------------------------------------------------------------------
(* The filters. *)

\* apply_price_range; _build_price_range_detail
InPriceRange(price) == request.price.min <= price /\ price <= request.price.max

\* A dead asset is dropped, unless it has recovered or is too new to tell.
DeadOutcome(window) == IF Len(window) < MinDead THEN "passes" ELSE Verdict("dead_assets", window)

\* adr_applies_to_asset
AdrApplies == request.adr.crypto \/ ~request.crypto
\* compute_adr times lookback_days, and adr_passes on it; a day with a low above
\* its high (daily_range) excludes the asset.
RangeSum(window) == FoldSeq(LAMBDA d, sum : sum + d.high - d.low, 0, window)
AdrPasses(window) ==
  LET adr == request.adr
      sum == RangeSum(window)
  IN /\ window # <<>>
     /\ \A i \in DOMAIN window : window[i].low <= window[i].high
     /\ adr.condition \in {"gte", "between"} => sum >= adr.min * adr.days
     /\ adr.condition \in {"lte", "between"} => sum <= adr.max * adr.days

\* valid_daily_candle, sessions_are_consecutive, detect_gap: the pair of
\* neighbours that ends with the i-th day has blank space between them.
Usable(d) == d.low > 0 /\ d.low <= d.high
Adjacent(c, d) == d.day - c.day \in 1 .. Spacing[request.crypto]
GapUp(c, d) == d.low > c.high /\ (d.low - c.high) * 100 >= request.gap.pct * c.high
GapDown(c, d) == d.high < c.low /\ (c.low - d.high) * 100 >= request.gap.pct * c.low
Gaps(window) ==
  {i \in 2 .. Len(window) :
     LET c == window[i - 1]
         d == window[i]
     IN /\ Usable(c) /\ Usable(d) /\ Adjacent(c, d)
        /\ \/ request.gap.direction # "down" /\ GapUp(c, d)
           \/ request.gap.direction # "up" /\ GapDown(c, d)}
GapPasses(window) == Cardinality(Gaps(window)) <= request.gap.max

IndicatorOutcome(s, window) ==
  IF request.fundamental THEN IF s \in Floated THEN "passes" ELSE "fails"
                         ELSE Verdict("indicators", window)

----------------------------------------------------------------------------
(* The scan. *)

NoAsset == [window |-> <<>>, price |-> 0, told |-> <<>>]
NoDays == [s \in Symbol |-> <<>>]

Init ==
  /\ request \in Request /\ market \in Market
  /\ now = Start.now /\ today = Start.today /\ steady = TRUE
  /\ scan = [pc |-> "fetching", fetched |-> {}, left |-> {}, stages |-> <<>>,
             assets |-> [s \in Symbol |-> NoAsset], adr |-> NoDays, gap |-> NoDays]
  /\ detail = [pc |-> "idle", symbol |-> CHOOSE s \in Symbol : TRUE, window |-> <<>>,
               passed |-> [f \in Filter |-> TRUE]]

\* A candle closes, and a day perhaps with it.
Tick ==
  /\ now < MaxNow
  /\ scan.pc # "answered" \/ detail.pc \notin {"shown", "missing", "failed"}
  /\ now' = now + 1 /\ today' \in {today, today + 1}
  /\ steady' = FALSE
  /\ UNCHANGED <<request, market, scan, detail>>

\* Of the symbols asked for the provider knows or answers some.
Served(asked, served) ==
  /\ served \subseteq asked
  /\ steady' = (steady /\ served = asked)

\* fetch_screening_data
ScanFetches ==
  /\ scan.pc = "fetching"
  /\ \E served \in SUBSET Symbol :
       LET found == {s \in served : ScanWindow(s) # <<>>}
       IN /\ Served(Symbol, served)
          /\ scan' = [scan EXCEPT
               !.pc = IF found = {} THEN "answered" ELSE "price_range",
               !.fetched = found, !.left = found,
               !.assets = [s \in Symbol |->
                  IF s \in found THEN [window |-> ScanWindow(s), told |-> <<>>,
                                       price |-> Last(ScanWindow(s))]
                                 ELSE NoAsset]]
  /\ UNCHANGED <<request, market, now, today, detail>>

\* A stage of the pipeline: kept are left, told is what their stickers say
\* afterwards, and the stage is noted for the audit.
StageEnds(stage, kept, told, next) ==
  [scan EXCEPT !.pc = next, !.left = kept, !.stages = Append(@, [name |-> stage, left |-> kept]),
               !.assets = [s \in Symbol |->
                  IF s \in kept THEN [scan.assets[s] EXCEPT !.told = told[s]] ELSE scan.assets[s]]]
Told == [s \in Symbol |-> scan.assets[s].told]
Window(s) == scan.assets[s].window
\* f's sticker is added for the symbols in marked.
Adding(f, marked) == [s \in Symbol |-> IF s \in marked THEN Append(Told[s], f) ELSE Told[s]]

PriceRange ==
  /\ scan.pc = "price_range"
  /\ scan' = StageEnds("price_range",
                {s \in scan.left : On("price_range") => InPriceRange(scan.assets[s].price)},
                Told, "dead_assets")
  /\ UNCHANGED <<request, market, now, today, steady, detail>>

DeadAssets ==
  /\ scan.pc = "dead_assets"
  /\ scan' = StageEnds("dead_assets",
                {s \in scan.left : On("dead_assets") => DeadOutcome(Window(s)) # "fails"},
                Adding("dead_assets", {s \in scan.left :
                   On("dead_assets") /\ DeadOutcome(Window(s)) = "recovers"}),
                "adr")
  /\ UNCHANGED <<request, market, now, today, steady, detail>>

\* The daily candles of the symbols left are fetched, now.
DaysOf(asked, served, days, minimum) ==
  [s \in Symbol |-> IF s \in asked \cap served THEN DailyWindow(s, days, minimum) ELSE <<>>]

AverageDailyRange ==
  /\ scan.pc = "adr"
  /\ IF On("adr") /\ AdrApplies
     THEN \E served \in SUBSET scan.left :
            LET days == DaysOf(scan.left, served, request.adr.days, request.adr.days)
                kept == {s \in scan.left : AdrPasses(days[s])}
            IN /\ Served(scan.left, served)
               /\ scan' = [StageEnds("adr", kept, Adding("adr", kept), "gap_exclusion")
                             EXCEPT !.adr = days]
     ELSE /\ scan' = StageEnds("adr", scan.left, Told, "gap_exclusion")
          /\ UNCHANGED steady
  /\ UNCHANGED <<request, market, now, today, detail>>

AfterGaps == IF On("indicators") THEN "indicators" ELSE "post_filters"

GapExclusion ==
  /\ scan.pc = "gap_exclusion"
  /\ IF On("gap_exclusion")
     THEN \E served \in SUBSET scan.left :
            LET days == DaysOf(scan.left, served, request.gap.days, 2)
                kept == {s \in scan.left : GapPasses(days[s])}
            IN /\ Served(scan.left, served)
               /\ scan' = [StageEnds("gap_exclusion", kept, Adding("gap_exclusion", kept), AfterGaps)
                             EXCEPT !.gap = days]
     ELSE /\ scan' = StageEnds("gap_exclusion", scan.left, Told, AfterGaps)
          /\ UNCHANGED steady
  /\ UNCHANGED <<request, market, now, today, detail>>

\* apply_indicators: an indicator that raises drops the symbol, and the
\* stickers of a symbol that passes replace the ones it had.
Indicators ==
  /\ scan.pc = "indicators"
  /\ scan' = StageEnds("indicators",
                {s \in scan.left : IndicatorOutcome(s, Window(s)) = "passes"},
                [s \in Symbol |-> <<"indicators">>], "post_filters")
  /\ UNCHANGED <<request, market, now, today, steady, detail>>

\* apply_post_filters, then annotate_request_filter_stickers
PostFilters ==
  /\ scan.pc = "post_filters"
  /\ LET passes(s, f) == On(f) => Verdict(f, Window(s)) = "passes"
         names == <<"channel_respect", "confluence", "price_range">>
         marks == Those(names, {i \in DOMAIN names : On(names[i])})
     IN scan' = StageEnds("post_filters",
                  {s \in scan.left : passes(s, "channel_respect") /\ passes(s, "confluence")},
                  [s \in Symbol |-> Told[s] \o marks], "answered")
  /\ UNCHANGED <<request, market, now, today, steady, detail>>

\* Fault: the last stage a symbol is missing from is blamed.
ReasonLast(s) ==
  IF s \notin scan.fetched THEN "no_market_data"
  ELSE IF s \in scan.left THEN "included"
  ELSE LET gone == {i \in 1 .. Len(scan.stages) : s \notin scan.stages[i].left}
       IN scan.stages[CHOOSE i \in gone : \A j \in gone : j <= i].name

\* _exclusion_reasons, _result_reason and _audit_market_data_run
Reason(s) ==
  IF s \notin scan.fetched THEN "no_market_data"
  ELSE IF s \in scan.left THEN "included"
  ELSE LET gone == {i \in 1 .. Len(scan.stages) : s \notin scan.stages[i].left}
       IN scan.stages[CHOOSE i \in gone : \A j \in gone : i <= j].name

----------------------------------------------------------------------------
(* The detail view. *)

\* Everything up to the fetch of the ADR's daily candles.  An indicator that
\* raises fails the request.
DetailAsked ==
  /\ scan.pc = "answered" /\ detail.pc = "idle"
  /\ \E s \in Symbol, served \in SUBSET Symbol :
       LET window == IF s \in served THEN DetailWindow(s) ELSE <<>>
           outcome == IF On("indicators") THEN IndicatorOutcome(s, window) ELSE "passes"
       IN /\ Served({s}, served)
          /\ detail' = [detail EXCEPT !.symbol = s, !.window = window,
               !.pc = IF window = <<>> THEN "missing"
                      ELSE IF outcome = "raises" THEN "failed" ELSE "adr",
               !.passed = IF window = <<>> THEN @ ELSE
                  [detail.passed EXCEPT !["indicators"] = outcome = "passes",
                            !["price_range"] = On("price_range") => InPriceRange(Last(window)),
                            !["dead_assets"] = On("dead_assets") => DeadOutcome(window) # "fails"]]
  /\ UNCHANGED <<request, market, now, today, scan>>

DetailDays(days, minimum, served) ==
  DaysOf({detail.symbol}, served, days, minimum)[detail.symbol]

\* evaluate_adr_detail
DetailAdr ==
  /\ detail.pc = "adr"
  /\ IF On("adr") /\ AdrApplies
     THEN \E served \in SUBSET {detail.symbol} :
            /\ Served({detail.symbol}, served)
            /\ detail' = [detail EXCEPT !.pc = "gap_exclusion", !.passed =
                 [detail.passed EXCEPT !["adr"] =
                    AdrPasses(DetailDays(request.adr.days, request.adr.days, served))]]
     ELSE /\ detail' = [detail EXCEPT !.pc = "gap_exclusion"]
          /\ UNCHANGED steady
  /\ UNCHANGED <<request, market, now, today, scan>>

\* evaluate_gap_exclusion_detail, then the channel filters and the answer
DetailGaps ==
  /\ detail.pc = "gap_exclusion"
  /\ LET passes(f) == On(f) => Verdict(f, detail.window) = "passes"
         shown(gaps) == [detail EXCEPT !.pc = "shown",
             !.passed = [detail.passed EXCEPT !["gap_exclusion"] = gaps,
                                              !["channel_respect"] = passes("channel_respect"),
                                              !["confluence"] = passes("confluence")]]
     IN IF On("gap_exclusion")
        THEN \E served \in SUBSET {detail.symbol} :
               /\ Served({detail.symbol}, served)
               /\ detail' = shown(GapPasses(DetailDays(request.gap.days, 2, served)))
        ELSE /\ detail' = shown(TRUE)
             /\ UNCHANGED steady
  /\ UNCHANGED <<request, market, now, today, scan>>

Next ==
  \/ Tick \/ ScanFetches \/ PriceRange \/ DeadAssets \/ AverageDailyRange \/ GapExclusion
  \/ Indicators \/ PostFilters \/ DetailAsked \/ DetailAdr \/ DetailGaps

Spec == Init /\ [][Next]_vars

----------------------------------------------------------------------------
(* Properties. *)

Stage == Filter \cup {"post_filters"}

\* The state is well typed; no window is longer than the candles asked for;
\* nothing is left that was not fetched, and no stage adds a symbol.
TypeOK ==
  /\ request \in Request /\ market \in Market
  /\ now \in Nat /\ today \in Nat /\ steady \in BOOLEAN
  /\ scan.pc \in Stage \cup {"fetching", "answered"}
  /\ scan.left \subseteq scan.fetched /\ scan.fetched \subseteq Symbol
  /\ \A i \in 1 .. Len(scan.stages) :
       /\ scan.stages[i].name \in Stage
       /\ scan.left \subseteq scan.stages[i].left
  /\ \A s \in Symbol : /\ scan.assets[s].window \in Seq(Price)
                       /\ Len(scan.assets[s].window) <= Required
                       /\ scan.assets[s].told \in Seq(Filter)
                       /\ scan.adr[s] \in Seq(Day) /\ scan.gap[s] \in Seq(Day)
  /\ detail.pc \in {"idle", "adr", "gap_exclusion", "shown", "missing", "failed"}
  /\ detail.symbol \in Symbol /\ detail.window \in Seq(Price)
  /\ detail.passed \in [Filter -> BOOLEAN]

\* What each filter promises of a symbol, whatever the order of the stages:
\* the average daily range is over all the days asked for, never over fewer
\* (filter_shared: "silently averaging a shorter window"); a symbol without
\* daily history has no gaps.
Promises(s, f) ==
  LET asset == scan.assets[s]
  IN CASE f = "price_range" -> asset.price \in request.price.min .. request.price.max
       [] f = "dead_assets" -> Len(asset.window) >= MinDead => Verdict(f, asset.window) # "fails"
       [] f = "adr" ->
            AdrApplies => /\ Len(scan.adr[s]) = request.adr.days
                          /\ \A d \in Range(scan.adr[s]) : d.day < today
                          /\ AdrPasses(scan.adr[s])
       [] f = "gap_exclusion" -> GapPasses(scan.gap[s])
       [] f = "indicators" -> IndicatorOutcome(s, asset.window) = "passes"
       [] OTHER -> Verdict(f, asset.window) = "passes"

\* A symbol of the answer keeps the promise of every enabled filter, each on
\* the candles it was given, though the market moves on between the stages and
\* two of them fetch candles of their own (_run_filter_pipeline).
AnswerExact ==
  scan.pc = "answered" =>
    \A s \in scan.left : \A f \in request.on : Promises(s, f)

\* The audit tells for every symbol why it is in or out: the reason of one
\* that is out is the first enabled filter it fails, though a symbol that was
\* dropped is missing from the later stages too (_exclusion_reasons).
Order == <<"price_range", "dead_assets", "adr", "gap_exclusion", "indicators", "post_filters">>
Blames(s, stage) ==
  IF stage = "post_filters"
  THEN \E f \in request.on \cap {"channel_respect", "confluence"} : ~Promises(s, f)
  ELSE On(stage) /\ ~Promises(s, stage)
ReasonsExact ==
  scan.pc = "answered" =>
    \A s \in scan.fetched :
      IF s \in scan.left THEN Reason(s) = "included"
      ELSE \E i \in DOMAIN Order :
             /\ Reason(s) = Order[i] /\ Blames(s, Order[i])
             /\ \A j \in 1 .. i - 1 : ~Blames(s, Order[j])

\* What a scan answers is exact, in and out: a symbol of the answer keeps what
\* each filter promises, and one that is not is told the first it fails.
ScanExact == TypeOK /\ AnswerExact /\ ReasonsExact

\* The detail view and the scan agree on the symbol shown.
Agree ==
  detail.pc \in {"shown", "failed"} =>
    (detail.symbol \in scan.left <=>
       detail.pc = "shown" /\ \A f \in request.on : detail.passed[f])

\* With the same market data the detail view passes a symbol on every filter
\* if and only if the scan answered with it, though the two evaluate the
\* filters by different code, on candles fetched for them alone
\* (get_asset_detail).  The scan must have asked for as many candles as the
\* detail view does; without history it must not have taken an open candle's
\* price.
DetailAgrees ==
  (IF NeedsHistory THEN Required >= DetailFloor ELSE On("price_range") => ~request.forming)
    /\ steady => Agree
=============================================================================
