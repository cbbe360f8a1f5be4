--------------------------- MODULE IntradayHistory ---------------------------
(***************************************************************************)
(* Intraday candles of a stock: _request_polygon_session_anchored_candles, *)
(* which downloads source bars page by page, newest first, drops those     *)
(* outside the regular session, merges the rest into buckets anchored to   *)
(* the session's open, and asks for a longer source until the buckets are  *)
(* enough; then the payload it caches, and the scans that payload answers. *)
(*                                                                         *)
(* A source bar is its index on the time axis; Bar ticks of the clock make *)
(* one.  A provider shows a bar from its first trade on, so the newest one *)
(* may be read while it is forming.  A bucket is the set of the bars it is *)
(* merged from, and a payload the union of its buckets: Start tells them   *)
(* apart again.                                                            *)
(*                                                                         *)
(* A definition whose comment starts with "Fault:" is no part of the       *)
(* specification, see GateSessions.                                        *)
(***************************************************************************)
EXTENDS Integers, FiniteSets, FiniteSetsExt

CONSTANTS
  Trading,       \* on which bars the stock trades: sets of bars
  Wanted,        \* candle counts asked for
  Ratio,         \* source bars per bucket
  DayBars,       \* source bars of a day, from one midnight to the next
  Open,          \* the bar of a day with which the session opens
  SessionBars,   \* bars of a session
  Bar,           \* ticks per source bar
  Buffer,        \* REFRESH_BUFFER_SECONDS, in ticks
  MaxCandles,    \* MAX_CANDLES
  SourceCap,     \* _polygon_source_candle_limit
  MinPadding,    \* POLYGON_LOOKBACK_BUFFER_MIN_BARS
  MinPage,       \* bars for which POLYGON_MIN_BASE_AGGREGATES suffice
  MaxPage,       \* bars for which POLYGON_MAX_BASE_AGGREGATES suffice
  Stretch,       \* POLYGON_STOCK_INTRADAY_CALENDAR_BUFFER_RATIO
  StretchMin,    \* POLYGON_STOCK_INTRADAY_CALENDAR_BUFFER_MIN_SECONDS, in bars
  MaxPages,      \* POLYGON_MAX_PAGES
  Attempts,      \* DOWNLOAD_RETRIES
  Asked,         \* when the download may begin
  MaxTime,       \* bound on the clock
  Nothing        \* no payload, no answer

Positive == Nat \ {0}

ASSUME SessionAssumption ==
  /\ DayBars \in Positive /\ Open \in Nat /\ SessionBars \in Positive
  /\ Open + SessionBars <= DayBars
  /\ Ratio \in Positive /\ Bar \in Positive /\ Buffer \in Nat
ASSUME LimitAssumption ==
  /\ MaxCandles \in Positive /\ Wanted \subseteq 1 .. MaxCandles
  /\ SourceCap \in Positive /\ MaxCandles <= SourceCap
  /\ MinPadding \in Positive /\ MinPage \in Positive /\ MaxPage \in Positive
  /\ Stretch \in Positive /\ StretchMin \in Nat /\ Ratio <= StretchMin + 1
  /\ MaxPages \in Positive /\ Attempts \in Positive
  /\ MaxTime \in Nat /\ Asked \subseteq 0 .. MaxTime

Bars == 0 .. MaxTime \div Bar

ASSUME TradingAssumption == Trading \subseteq SUBSET Bars

VARIABLES
  now,       \* time.time(), in ticks
  traded,    \* the bars the stock trades on
  fetch,     \* the download in flight
  payload,   \* what it built, and the cache keeps
  answer     \* the last scan answered from the payload
vars == <<now, traded, fetch, payload, answer>>

\* forming: the bars read before they ended; read: when the download began;
\* built: the time of the marks and of next_refresh_at; oldest: why the source has
\* no older bars: it is as long as asked for, the provider showed none, or the
\* download stopped at its target or at its last page.
Payload == [bars : SUBSET Bars, forming : SUBSET Bars, limit : Wanted,
            source : 1 .. SourceCap, oldest : {"full", "silence", "stopped"},
            read : 0 .. MaxTime, built : 0 .. MaxTime]
FetchState == [pc : {"asking", "answered", "built", "failed"},
               limit : Wanted, source : 1 .. SourceCap, attempt : 1 .. Attempts,
               pages : 0 .. MaxPages, to : Int, empty : BOOLEAN,
               got : SUBSET Bars, forming : SUBSET Bars, read : 0 .. MaxTime]

ASSUME NothingAssumption == Nothing \notin Payload

TypeOK == /\ now \in 0 .. MaxTime
          /\ traded \in Trading
          /\ fetch \in FetchState
          /\ payload \in Payload \cup {Nothing}
          /\ answer \in [at : 0 .. MaxTime, closed : BOOLEAN] \cup {Nothing}
----------------------------------------------------------------------------
(* The session *)

Slot(t) == t \div Bar

\* is_tradingview_regular_session_bar.
InSession(b) == b % DayBars \in Open .. Open + SessionBars - 1

SessionOpen(b) == (b \div DayBars) * DayBars + Open

\* resolve_session_bucket_start.
Start(b) == SessionOpen(b) + ((b - SessionOpen(b)) \div Ratio) * Ratio

\* session_bucket_close_unix: a bucket ends with its session at the latest.
CloseOf(start) == Min({start + Ratio, SessionOpen(start) + SessionBars}) * Bar

\* next_refresh_at_for_timeframe: the grid of the timeframe starts at midnight.
NextRefresh(t) == ((t \div (Ratio * Bar)) + 1) * Ratio * Bar + Buffer

Starts(bars) == {Start(b) : b \in bars}

\* slice_recent of a set.
Recent(S, n) == {x \in S : Cardinality({y \in S : y > x}) < n}
----------------------------------------------------------------------------
(* How much is asked for *)

\* _polygon_buffer_bars: a fifth more, and never less than a minimum.
Padding(n, cap) == Max({MinPadding, (Min({n, cap}) + 4) \div 5})

\* The source bars of the first attempt.
FirstSource(limit) == Min({SourceCap, (limit + Padding(limit, MaxCandles)) * Ratio})

\* _polygon_download_limit: two and a half times as many, for the session filter,
\* and target_bars of the download.
Target ==
  [source \in 1 .. SourceCap |->
     LET limit == Min({SourceCap, (5 * source + 1) \div 2})
     IN  limit + Padding(limit, SourceCap)]

\* base_limit of a page for so many bars, and the window of time it looks back.
PageBars == [n \in 1 .. 2 * SourceCap + MinPadding |->
               Min({MaxPage, Max({MinPage, n + Padding(n, MaxCandles)})})]
PageSpan == [n \in DOMAIN PageBars |->
               Max({Stretch * PageBars[n], PageBars[n] + StretchMin})]
----------------------------------------------------------------------------
Download0(source, attempt) ==
  [fetch EXCEPT !.pc = "asking", !.source = source, !.attempt = attempt, !.pages = 0,
                !.to = Slot(now), !.empty = FALSE, !.got = {}, !.forming = {}, !.read = now]

Init ==
  /\ now \in Asked
  /\ traded \in Trading
  /\ \E limit \in Wanted :
       fetch = [pc |-> "asking", limit |-> limit, source |-> FirstSource(limit),
                attempt |-> 1, pages |-> 0, to |-> Slot(now), empty |-> FALSE,
                got |-> {}, forming |-> {}, read |-> now]
  /\ payload = Nothing
  /\ answer = Nothing

\* _request_polygon_aggregate_page: the provider answers with the newest bars of
\* the window; the one that is forming is there if it has traded yet.
Page ==
  LET slot == Slot(now)
      wanted == Max({1, Target[fetch.source] - Cardinality(fetch.got)})
  IN  /\ fetch.pc = "asking"
      /\ \E last \in {slot - 1, slot} :
           LET shown == {b \in traded : b <= last /\ b <= fetch.to
                                        /\ b > fetch.to - PageSpan[wanted]}
               page == Recent(shown, PageBars[wanted])
           IN  fetch' = [fetch EXCEPT !.pc = "answered", !.pages = @ + 1,
                                      !.empty = page = {}, !.got = @ \cup page,
                                      !.forming = @ \cup (page \cap {slot})]
      /\ UNCHANGED <<now, traded, payload, answer>>

\* Fault: the next page ends with the bar before the oldest but one.
NextToSkipping(bars) == Min(bars) - 2

\* The next page ends just before the oldest bar so far.
NextTo(bars) == Min(bars) - 1

MorePages == /\ ~ fetch.empty
             /\ Cardinality(fetch.got) < Target[fetch.source]
             /\ fetch.pages < MaxPages

NextPage ==
  /\ fetch.pc = "answered"
  /\ MorePages
  /\ fetch' = [fetch EXCEPT !.pc = "asking", !.to = NextTo(fetch.got)]
  /\ UNCHANGED <<now, traded, payload, answer>>

\* A page raises: the download starts again, the last attempt gives up.
PageFails ==
  /\ fetch.pc = "asking"
  /\ fetch' = IF fetch.attempt < Attempts
                THEN Download0(fetch.source, fetch.attempt + 1)
                ELSE [fetch EXCEPT !.pc = "failed"]
  /\ UNCHANGED <<now, traded, payload, answer>>

\* _finalize_intraday_candles.
SourceBars == Recent({b \in fetch.got : InSession(b)}, fetch.source)

Enough == Cardinality(Starts(SourceBars)) >= fetch.limit

\* The download is complete but no bar of it was in a session.
NoBars ==
  /\ fetch.pc = "answered"
  /\ ~ MorePages
  /\ SourceBars = {}
  /\ fetch' = [fetch EXCEPT !.pc = "failed"]
  /\ UNCHANGED <<now, traded, payload, answer>>

\* Fault: a source at its cap is widened to its cap.
WidenAtCap ==
  /\ fetch.pc = "answered"
  /\ ~ MorePages
  /\ SourceBars # {} /\ ~ Enough
  /\ fetch' = Download0(Min({SourceCap, 2 * fetch.source}), 1)
  /\ UNCHANGED <<now, traded, payload, answer>>

\* The loop of _request_polygon_session_anchored_candles goes round.
Widen ==
  /\ fetch.pc = "answered"
  /\ ~ MorePages
  /\ SourceBars # {} /\ ~ Enough /\ fetch.source < SourceCap
  /\ fetch' = Download0(Min({SourceCap, 2 * fetch.source}), 1)
  /\ UNCHANGED <<now, traded, payload, answer>>

\* aggregate_session_anchored_candles, and slice_recent of its buckets.
Kept == {b \in SourceBars : Start(b) \in Recent(Starts(SourceBars), fetch.limit)}

OldestBecause == IF Cardinality(SourceBars) = fetch.source THEN "full"
                 ELSE IF fetch.empty THEN "silence" ELSE "stopped"

\* The mark that _mark_unclosed_last_candle leaves off.
LastClosed(bars) == now >= CloseOf(Max(Starts(bars)))

\* _build_market_data_payload: the marks and the refresh time are of now, whatever
\* the time of the bars.
Build ==
  /\ fetch.pc = "answered"
  /\ ~ MorePages
  /\ SourceBars # {} /\ (Enough \/ fetch.source >= SourceCap)
  /\ payload' = [bars |-> Kept, forming |-> fetch.forming \cap Kept, limit |-> fetch.limit,
                 source |-> fetch.source, oldest |-> OldestBecause,
                 read |-> fetch.read, built |-> now]
  /\ answer' = [at |-> now, closed |-> LastClosed(Kept)]
  /\ fetch' = [fetch EXCEPT !.pc = "built", !.got = {}, !.forming = {}]
  /\ UNCHANGED <<now, traded>>

\* A scan is answered from the cache: the payload is not due yet, and
\* _refresh_payload_candle_closed_state marks its last candle anew.
Serve ==
  /\ fetch.pc = "built"
  /\ now < NextRefresh(payload.built)
  /\ answer' = [at |-> now, closed |-> LastClosed(payload.bars)]
  /\ UNCHANGED <<now, traded, fetch, payload>>

Tick == now < MaxTime /\ now' = now + 1 /\ UNCHANGED <<traded, fetch, payload, answer>>

\* Nothing is left to do: the download ended, and the clock is at its bound.
Ended == fetch.pc \in {"built", "failed"} /\ UNCHANGED vars

Next == Page \/ NextPage \/ PageFails \/ NoBars \/ Widen \/ Build \/ Serve \/ Tick \/ Ended

Spec == Init /\ [][Next]_vars

\* Every request ends, if with a timeout, and the code after it runs.
FairSpec == Spec /\ WF_vars(Page \/ NextPage \/ PageFails \/ NoBars \/ Widen \/ Build)
----------------------------------------------------------------------------
(* Properties *)

\* The payload is the latest of what was traded in sessions: whatever the pages,
\* the clock between them and the widening did, its bars are bars of sessions, no
\* bar that had ended when the download began is missing after its oldest one,
\* and it has at most the buckets asked for.
BucketsExact ==
  payload # Nothing =>
    /\ payload.bars \subseteq {b \in traded : InSession(b)}
    /\ \A b \in traded :
         InSession(b) /\ b < Slot(payload.read) /\ b > Min(payload.bars) => b \in payload.bars
    /\ Cardinality(Starts(payload.bars)) <= payload.limit

\* The oldest bucket is whole, though the source begins at any bar: none of its bars
\* is missing when the source is as long as asked for, and not at its cap, or when
\* the provider showed nothing before it.  When the download stopped earlier, which
\* the cap on its target brings about, the oldest bucket may be cut.
OldestWhole ==
  /\ payload # Nothing
  /\ payload.oldest # "stopped"
  /\ (payload.oldest = "full" => payload.source < SourceCap)
  => \A b \in traded : InSession(b) /\ b < Slot(payload.read)
                         /\ Start(b) = Start(Min(payload.bars)) => b \in payload.bars

\* A payload is the recent past of the sessions: nothing of it is lost between
\* two pages or two clocks, and its oldest candle is whole where the source is.
HistoryExact == TypeOK /\ BucketsExact /\ OldestWhole

\* A download ends, with a payload or without: widening, paging and retrying stop.
EveryFetchEnds == <>(fetch.pc \in {"built", "failed"})

\* A candle handed out as closed is final: every bar it is merged from had ended
\* when it was read, and none is missing, even when the download took no time.
ClosedIsFinal ==
  payload # Nothing /\ payload.read = payload.built /\ answer.closed =>
    LET last == Max(Starts(payload.bars))
    IN  \A b \in traded : Start(b) = last /\ InSession(b)
                            => b \in payload.bars \ payload.forming
=============================================================================
