--------------------------- MODULE GroupedHistory ---------------------------
(***************************************************************************)
(* Daily, weekly and monthly candles: _request_polygon_grouped_daily_series *)
(* and _request_polygon_grouped_history_series, which ask the provider for *)
(* one date at a time, newest first, in chunks of concurrent requests, and *)
(* build each symbol's candles from the answers; then the payload, its     *)
(* mark on a candle that is still forming, and the snapshot of completed   *)
(* candles that the screener's filters read.                               *)
(*                                                                         *)
(* A date is its ordinal.  A candle keeps the dates it was merged from:    *)
(* time, open and close name the date they were taken from, and high, low  *)
(* and volume are the maximum, the minimum and the sum over merged.        *)
(*                                                                         *)
(* A definition whose comment starts with "Fault:" is no part of the       *)
(* specification, see GateSessions.                                        *)
(***************************************************************************)
EXTENDS Integers, Sequences, FiniteSets, SequencesExt

CONSTANTS
  Symbol,        \* the symbols of a call, all stocks or all crypto
  Timeframe,     \* timeframes asked for: [amount, unit, crypto]
  Wanted,        \* candle counts asked for by the screener
  Clock,         \* when calls run: [today, utc, closed, masks], see below
  Listing,       \* on which dates each symbol trades: functions on Symbol
  MaxCandles,    \* MAX_CANDLES
  Chunk,         \* _grouped_daily_date_concurrency
  Week, Rest,    \* days of a week, and how many at its end are the weekend
  Month,         \* days of a month (every month alike)
  MonthFactor,   \* source days per month: [BOOLEAN -> Nat], by crypto
  Padding,       \* least padding days: [BOOLEAN -> Nat], by crypto
  PaddingShare,  \* one padding day for as many candles (1 / .._PADDING_RATIO)
  MaxSource,     \* POLYGON_GROUPED_HISTORY_MAX_SOURCE_DAYS
  EndOfDayOnly,  \* MASSIVE_CRYPTO_END_OF_DAY_ONLY
  MaxFailures,   \* bound on the requests that fail in a call
  Nothing        \* no bucket open

Positive == Nat \ {0}
Unit == {"d", "w", "mo"}

ASSUME TimeframeAssumption ==
  Timeframe \subseteq [amount : Positive, unit : Unit, crypto : BOOLEAN]
ASSUME WantedAssumption == Wanted \subseteq 1 .. MaxCandles
\* closed: the US session of today, a date in New York, is over; masks: the
\* provider stamps a live row with a time already past.
\* London's date is New York's or, once the session is over, the next.
ASSUME ClockAssumption ==
  /\ Clock \subseteq [today : Nat, utc : Nat, closed : BOOLEAN, masks : BOOLEAN]
  /\ \A c \in Clock : c.utc = c.today \/ (c.utc = c.today + 1 /\ c.closed)
ASSUME ListingAssumption == Listing \subseteq [Symbol -> SUBSET Int]
ASSUME NumberAssumption ==
  /\ MaxCandles \in Positive /\ Chunk \in Positive
  /\ Week \in Positive /\ Rest \in 0 .. Week - 1 /\ Month \in Positive
  /\ MonthFactor \in [BOOLEAN -> Positive] /\ MaxFailures \in Nat
  /\ Padding \in [BOOLEAN -> Nat] /\ Padding[TRUE] <= Padding[FALSE] /\ PaddingShare \in Positive

Smaller(m, n) == IF m < n THEN m ELSE n
Larger(m, n) == IF m < n THEN n ELSE m

\* ceil(n * POLYGON_GROUPED_DAILY_LOOKBACK_PADDING_RATIO)
Share(n) == (n + PaddingShare - 1) \div PaddingShare

\* POLYGON_GROUPED_DAILY_MAX_TRADING_DAYS; the history path's cap is no lower.
MaxTrading == MaxCandles + Larger(Padding[FALSE], Share(MaxCandles))
ASSUME MaxSourceAssumption == MaxSource \in Nat /\ MaxTrading <= MaxSource

Bar == [time : Int, open : Int, close : Int, merged : SUBSET Int]
Bucket == [key : Int, bar : Bar]

ASSUME NothingAssumption == Nothing \notin Bucket

VARIABLES
  request,   \* timeframe, wanted
  clock,     \* read once: the call is short
  pending,   \* the dates not asked for yet
  heard,     \* the dates answered; request_count is their number
  bars,      \* aggregated_by_symbol, candles_by_symbol: newest first
  active,    \* active_bucket_by_symbol and active_key_by_symbol
  resolved,  \* resolved_symbols
  trades,    \* the dates each symbol has a row on
  phase      \* "asking" until the payloads are built
vars == <<request, clock, pending, heard, bars, active, resolved, trades, phase>>

----------------------------------------------------------------------------
(* The calendar. *)

Weekday(d) == (d - 1) % Week
Weekend(d) == Weekday(d) >= Week - Rest
WeekStart(d) == d - Weekday(d)
MonthIndex(d) == (d - 1) \div Month
FirstOf(month) == month * Month + 1

\* _grouped_history_bucket_key
Key(d) ==
  CASE request.unit = "d"  -> d \div request.amount
    [] request.unit = "w"  -> WeekStart(d) \div (request.amount * Week)
    [] request.unit = "mo" -> MonthIndex(d) \div request.amount

\* _calendar_bucket_close_unix: the date that begins when d's bucket closes.
CloseDate(d) ==
  CASE request.unit = "d"  -> (d \div request.amount + 1) * request.amount
    [] request.unit = "w"  -> WeekStart(d) + request.amount * Week
    [] request.unit = "mo" -> FirstOf(MonthIndex(d) + request.amount)

Native == request.unit = "d" /\ request.amount = 1

PreviousWeekday(d) ==
  CHOOSE e \in d - Week .. d : ~Weekend(e) /\ \A f \in e + 1 .. d : Weekend(f)

\* Fault: the session that is still open counts as completed.
LatestWeekday == PreviousWeekday(clock.today)

\* _latest_completed_stock_daily_reference_date
LatestCompleted ==
  IF Weekend(clock.today) \/ ~clock.closed
  THEN PreviousWeekday(clock.today - 1)
  ELSE clock.today

\* The newest date to ask for.  Only the native daily path of a stock waits
\* for the session's end.
Reference ==
  CASE Native /\ ~request.crypto -> LatestCompleted
    [] Native /\ request.crypto  -> IF EndOfDayOnly THEN clock.utc - 1 ELSE clock.utc
    [] OTHER                     -> clock.utc

\* required_candles_for_request + 1: one more for the bar that is forming.
Limit == IF request.wanted + 1 < MaxCandles THEN request.wanted + 1 ELSE MaxCandles

\* Fault: a crypto week has as many source days as a stock week.
SourceFactorOfStocks ==
  CASE request.unit = "d"  -> request.amount
    [] request.unit = "w"  -> request.amount * (Week - Rest)
    [] request.unit = "mo" -> request.amount * MonthFactor[FALSE]

SourceFactor ==
  CASE request.unit = "d"  -> request.amount
    [] request.unit = "w"  -> request.amount * (IF request.crypto THEN Week ELSE Week - Rest)
    [] request.unit = "mo" -> request.amount * MonthFactor[request.crypto]

\* How many dates more than the source days, for those without a row.
PaddingDays ==
  IF Native /\ request.crypto THEN Padding[TRUE]
                              ELSE Larger(Padding[request.crypto], Share(Limit))

\* How many dates are asked for: normalize_candles_limit cuts the source days
\* to MAX_CANDLES too.
DateCount ==
  Smaller(Smaller(Limit * SourceFactor, MaxCandles) + PaddingDays,
          IF Native THEN MaxTrading ELSE MaxSource)

\* The first DateCount dates back from the newest, weekends left out for stocks.
AskedAbout(d) == request.crypto \/ ~Weekend(d)
Candidates ==
  {d \in Reference - Week * DateCount .. Reference :
     /\ AskedAbout(d)
     /\ Cardinality({e \in d + 1 .. Reference : AskedAbout(e)}) < DateCount}

----------------------------------------------------------------------------
(* The series. *)

Daily(d) == [time |-> d, open |-> d, close |-> d, merged |-> {d}]

\* Fault: the open of a bucket stays the newest day's.
MergeKeepingOpen(bar, d) == [bar EXCEPT !.time = d, !.merged = @ \cup {d}]

\* _merge_grouped_history_bucket: d is older than every day in the bucket.
Merge(bar, d) == [bar EXCEPT !.time = d, !.open = d, !.merged = @ \cup {d}]

Init ==
  /\ request \in {[amount |-> t.amount, unit |-> t.unit, crypto |-> t.crypto, wanted |-> w] :
                    t \in Timeframe, w \in Wanted}
  /\ clock \in Clock
  /\ trades \in {[s \in Symbol |-> {d \in l[s] : /\ AskedAbout(d)
                                                /\ d <= IF request.crypto THEN clock.utc ELSE clock.today}] :
                   l \in Listing}
  /\ pending = Candidates
  /\ heard = {}
  /\ bars = [s \in Symbol |-> <<>>]
  /\ active = [s \in Symbol |-> Nothing]
  /\ resolved = {}
  /\ phase = "asking"

Failed == Candidates \ (pending \cup heard)

\* The loop over the chunks ends between two of them, once nobody is short.
BetweenChunks == Cardinality(Candidates \ pending) % Chunk = 0
Served ==
  IF Native THEN \A s \in Symbol : Len(bars[s]) >= Limit
            ELSE resolved = Symbol
Ends == pending = {} \/ (BetweenChunks /\ Served)

\* The requests of a chunk run concurrently and gather returns them in date
\* order: the answers are read newest date first.
Reads(d) ==
  /\ phase = "asking"
  /\ d \in pending /\ \A e \in pending : e <= d
  /\ ~Ends
  /\ pending' = pending \ {d}
  /\ UNCHANGED <<request, clock, trades, phase>>

\* isinstance(rows, Exception): the date is passed over.
DateFails ==
  /\ Cardinality(Failed) < MaxFailures
  /\ \E d \in pending : Reads(d)
  /\ UNCHANGED <<heard, bars, active, resolved>>

DateAnswersDaily ==
  /\ Native
  /\ \E d \in pending :
       /\ Reads(d)
       /\ heard' = heard \cup {d}
       /\ bars' = [s \in Symbol |-> IF d \in trades[s] THEN Append(bars[s], Daily(d))
                                                       ELSE bars[s]]
  /\ UNCHANGED <<active, resolved>>

\* A row of s on date d counts unless s is resolved; it completes the active
\* bucket if it is of another one.
Counts(s, d) == d \in trades[s] /\ s \notin resolved
Completes(s, d) == Counts(s, d) /\ active[s] # Nothing /\ active[s].key # Key(d)
Resolves(s, d) == Completes(s, d) /\ Len(bars[s]) + 1 >= Limit
Opened(d) == [key |-> Key(d), bar |-> Daily(d)]

NextBucket(s, d) ==
  CASE ~Counts(s, d)                           -> active[s]
    [] Counts(s, d) /\ active[s] = Nothing     -> Opened(d)
    [] Resolves(s, d)                          -> Nothing
    [] Completes(s, d) /\ ~Resolves(s, d)      -> Opened(d)
    [] OTHER                                   -> [active[s] EXCEPT !.bar = Merge(@, d)]

DateAnswersHistory ==
  /\ ~Native
  /\ \E d \in pending :
       /\ Reads(d)
       /\ heard' = heard \cup {d}
       /\ bars' = [s \in Symbol |-> IF Completes(s, d) THEN Append(bars[s], active[s].bar)
                                                       ELSE bars[s]]
       /\ active' = [s \in Symbol |-> NextBucket(s, d)]
       /\ resolved' = resolved \cup {s \in Symbol : Resolves(s, d)}

\* Fault: the bucket that is still open is dropped.
FinishDropping ==
  /\ phase = "asking" /\ Ends
  /\ phase' = "answered"
  /\ UNCHANGED <<request, clock, trades, pending, heard, active, resolved, bars>>

\* After the loop, what is still open is a candle too.
Finish ==
  /\ phase = "asking" /\ Ends
  /\ phase' = "answered"
  /\ bars' = [s \in Symbol |-> IF active[s] # Nothing THEN Append(bars[s], active[s].bar)
                                                      ELSE bars[s]]
  /\ UNCHANGED <<request, clock, trades, pending, heard, active, resolved>>

Next == DateFails \/ DateAnswersDaily \/ DateAnswersHistory \/ Finish

Spec == Init /\ [][Next]_vars

----------------------------------------------------------------------------
(* The payload and the completed candles. *)

LastOf(seq, n) == IF Len(seq) <= n THEN seq ELSE SubSeq(seq, Len(seq) - n + 1, Len(seq))

\* sorted, by time: the i-th candle is the one with i - 1 candles before it.
ByTime(seq) ==
  LET Before(j) == {i \in DOMAIN seq : \/ seq[i].time < seq[j].time
                                       \/ seq[i].time = seq[j].time /\ i < j}
  IN [i \in DOMAIN seq |-> seq[CHOOSE j \in DOMAIN seq : Cardinality(Before(j)) = i - 1]]

\* The candles of the payload, oldest first.
Recent(s) ==
  IF Native
  THEN LastOf(ByTime(bars[s]), Limit)
  ELSE Reverse(SubSeq(bars[s], 1, IF Len(bars[s]) < Limit THEN Len(bars[s]) ELSE Limit))

\* A date whose prices can no longer change.
Settled(d) ==
  IF request.crypto THEN d < clock.utc
  ELSE d < clock.today \/ (d = clock.today /\ clock.closed)

\* timeframe_bucket_close_unix has passed.  The row of a native daily candle
\* is stamped with its close, and counts as closed from there on.
IsClosed(bar) ==
  IF Native THEN Settled(bar.time) \/ clock.masks
            ELSE clock.utc >= CloseDate(bar.time)

\* _mark_unclosed_last_candle, then _completed_candle_snapshot.
Answer(s) ==
  LET recent == Recent(s)
  IN IF recent = <<>> THEN <<>>
     ELSE LastOf(IF IsClosed(Last(recent)) THEN recent ELSE Front(recent), request.wanted)

----------------------------------------------------------------------------
(* Properties. *)

\* The state is well typed, bars holds at most one candle more than the limit
\* on the history path, and a resolved symbol has no bucket open and exactly
\* as many candles as were asked for.
TypeOK ==
  /\ request \in [amount : Positive, unit : Unit, crypto : BOOLEAN, wanted : Wanted]
  /\ clock \in Clock
  /\ trades \in [Symbol -> SUBSET Int]
  /\ pending \subseteq Int /\ heard \subseteq Int
  /\ bars \in [Symbol -> Seq(Bar)]
  /\ active \in [Symbol -> Bucket \cup {Nothing}]
  /\ resolved \subseteq Symbol
  /\ phase \in {"asking", "answered"}
  /\ \A s \in resolved : active[s] = Nothing /\ Len(bars[s]) = Limit

\* The dates of s heard of that fall into the bucket k.
DatesOf(s, k) == {d \in heard \cap trades[s] : Key(d) = k}

\* bar is made of the dates in dates, each once.
MadeOf(bar, dates) ==
  /\ bar.merged = dates /\ dates # {}
  /\ bar.time \in dates /\ bar.open = bar.time /\ bar.close \in dates
  /\ \A d \in dates : bar.time <= d /\ d <= bar.close

\* However the answers of the dates fall into chunks and buckets, whatever
\* fails, and whenever the symbol is done: every finished candle is made of
\* all the days of its bucket that were heard of, opens with the oldest and
\* closes with the newest, and the active bucket of the days so far
\* (_request_polygon_grouped_history_series).
BucketsExact ==
  \A s \in Symbol :
    /\ \A i \in 1 .. Len(bars[s]) : MadeOf(bars[s][i], DatesOf(s, Key(bars[s][i].time)))
    /\ active[s] # Nothing => MadeOf(active[s].bar, DatesOf(s, active[s].key))

Ascending(seq) == \A i \in 1 .. Len(seq) - 1 : seq[i].close < seq[i + 1].time

\* The payload is in order, and holds the newest buckets that were heard of,
\* as many as asked for: none in between is missing, whether the loop ended
\* early, ran out of dates or lost some (the reversal and the cut after it).
PayloadIsRecent ==
  phase = "answered" =>
    \A s \in Symbol :
      LET known == {Key(d) : d \in heard \cap trades[s]}
          given == {Key(Recent(s)[i].time) : i \in 1 .. Len(Recent(s))}
      IN /\ Ascending(Recent(s))
         /\ Cardinality(given) = Len(Recent(s))
         /\ given \subseteq known /\ \A k \in known \ given : \A g \in given : k < g
         /\ Cardinality(given) = Limit \/ given = known

\* No filter reads a price that can still change: every day in a completed
\* candle is settled.  Daily stock requests wait for the session's end
\* (_latest_completed_stock_daily_reference_date), every other candle is
\* marked by the end of its bucket.  A live daily crypto row that the provider
\* stamps with a past time is the exception.
AnswersSettled ==
  phase = "answered" /\ ~(Native /\ request.crypto /\ clock.masks) =>
    \A s \in Symbol : \A i \in 1 .. Len(Answer(s)) :
      \A d \in Answer(s)[i].merged : Settled(d)

\* The dates back from the newest are enough: if no date fails, and a symbol
\* since its listing has no row on as many dates as there is padding, or fewer
\* (holidays and halts), then its answer has the candles asked for or goes back
\* to the listing, and its oldest candle is not cut off by the last date
\* (_grouped_history_candidate_dates).  Months are left out, as their source
\* days are an average, and so are requests for more source days than
\* MAX_CANDLES, which are cut.
Missed(s) == {f \in Candidates : f \notin trades[s] /\ \E d \in trades[s] : d < f}
ReachesListing(s) == \A d \in trades[s] : d >= Answer(s)[1].time
HistoryWhole ==
  phase = "answered" /\ Failed = {} /\ request.unit # "mo" /\ Limit * SourceFactor <= MaxCandles =>
    \A s \in Symbol :
      Cardinality(Missed(s)) <= PaddingDays /\ Answer(s) # <<>> =>
        /\ \A d \in trades[s] : Key(d) = Key(Answer(s)[1].time) => d \in Answer(s)[1].merged
        /\ \/ Len(Answer(s)) = request.wanted
           \/ ReachesListing(s)
           \/ request.wanted = MaxCandles
=============================================================================
