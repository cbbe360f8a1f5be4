----------------------------- MODULE Confluence -----------------------------
(***************************************************************************)
(* Channel confluence: two selected lines or zones of channels, and a      *)
(* scenario that relates an event at the first with one at the second      *)
(* within the last candles.                                                *)
(*                                                                         *)
(* The channels of an asset are [nested, list], the list in the order they *)
(* were fitted and each [id, type, lines], its lines functions as in       *)
(* ChannelRules; a trend channel has the bounds of its two zones among     *)
(* them.  They are nested in a payload with their type when they were      *)
(* fitted for the filter, and else the asset's own, whose id is the type.  *)
(* A source of the filter is [id, type, selection, sub]; the older list of *)
(* types makes sources without a selection and a condition.                *)
(***************************************************************************)
EXTENDS Candles

Supported(trend) == IF trend THEN {"top", "middle", "bottom", "top_zone", "bottom_zone"}
                    ELSE {"upper", "middle", "lower"}

\* default_confluence_selection
DefaultSelection(trend, kind, index) ==
  IF kind = "bullish" \/ (kind = "any" /\ index = 1) \/ (kind = "role_reversal" /\ index = 2)
  THEN IF trend THEN "bottom" ELSE "lower"
  ELSE IF trend THEN "top" ELSE "upper"

\* Names of the other kind of channel are accepted for the lines.
Alias(trend, name) ==
  LET same == <<<<"upper", "top">>, <<"lower", "bottom">>>>
      pairs == {same[i] : i \in DOMAIN same}
  IN IF trend /\ \E p \in pairs : p[1] = name THEN (CHOOSE p \in pairs : p[1] = name)[2]
     ELSE IF ~trend /\ \E p \in pairs : p[2] = name THEN (CHOOSE p \in pairs : p[2] = name)[1]
     ELSE name

Selection(trend, name, kind, index) ==
  IF Alias(trend, name) \in Supported(trend) THEN Alias(trend, name)
  ELSE DefaultSelection(trend, kind, index)

\* _selection_snapshot: the lower and the upper bound of the selection, each a
\* line, where both have a value.  A source has the channel it is of, its own
\* condition and those bounds.
Bound(channel, name, side) ==
  LET zone == IF name = "top_zone" THEN <<"top_zone_lower", "top_zone_upper">>
              ELSE IF name = "bottom_zone" THEN <<"bottom_zone_lower", "bottom_zone_upper">>
              ELSE <<name, name>>
  IN IF zone[side] \in DOMAIN channel.lines THEN channel.lines[zone[side]] ELSE <<>>
SelectedBounds(id, channel, name, sub) ==
  LET first == Bound(channel, name, 1)
      second == Bound(channel, name, 2)
      both == DOMAIN first \cap DOMAIN second
  IN [id |-> id, channel |-> channel, sub |-> sub,
      lower |-> [i \in both |-> Smaller(first[i], second[i])],
      upper |-> [i \in both |-> Larger(first[i], second[i])]]

OfType(fitted, type) == [trend |-> type = "trend", lines |-> fitted.lines]

\* The channels of a source: by its id or, of the asset's own, by its type.
FittedFor(channels, source) ==
  LET of(id) == {k \in DOMAIN channels.list : channels.list[k].id = id}
  IN IF channels.nested \/ of(source.id) # {} THEN of(source.id) ELSE of(source.type)

\* A source of the filter, if the asset has its channel.
Configured(channels, config, i) ==
  LET source == config.sources[i]
      fitted == channels.list[CHOOSE k \in FittedFor(channels, source) : TRUE]
      channel == OfType(fitted, IF channels.nested THEN fitted.type ELSE source.type)
  IN IF i \in DOMAIN config.sources /\ FittedFor(channels, source) # {}
     THEN <<SelectedBounds(source.id, channel, Selection(channel.trend, source.selection, config.type, i), source.sub)>>
     ELSE <<>>

\* What stands in for a source when there is none of them.
Instead(channels, config, k) ==
  LET fitted == channels.list[k]
      channel == OfType(fitted, fitted.type)
  IN IF k \in DOMAIN channels.list
     THEN <<SelectedBounds(fitted.id, channel, DefaultSelection(channel.trend, config.type, k), [relation |-> "none"])>>
     ELSE <<>>

\* _configured_sources and _iter_channel_sources: the first two sources, or the
\* first two of nested channels.
Sources(channels, config) ==
  LET resolved == Configured(channels, config, 1) \o Configured(channels, config, 2)
  IN IF resolved = <<>> /\ channels.nested THEN Instead(channels, config, 1) \o Instead(channels, config, 2)
     ELSE resolved

On(source) == DOMAIN source.lower
Lower(source, i) == source.lower[i]
Upper(source, i) == source.upper[i]
TwiceMid(source, i) == Lower(source, i) + Upper(source, i)

\* The tolerance around a selection, in hundredths.
Tolerance(source, i, pct) == (Larger(TwiceMid(source, i), 2) * pct) \div 2

----------------------------------------------------------------------------
(* Events at one source. *)

Holds(cs, source, i, pct, direction) ==
  /\ i \in On(source)
  /\ Touches(cs[i], 100 * Lower(source, i) - Tolerance(source, i, pct),
             100 * Upper(source, i) + Tolerance(source, i, pct), "both", direction)
HoldsSupport(cs, source, i, pct) == Holds(cs, source, i, pct, "down")
HoldsResistance(cs, source, i, pct) == Holds(cs, source, i, pct, "up")

BreaksResistance(cs, source, i) ==
  /\ i > 1 /\ {i - 1, i} \subseteq On(source)
  /\ cs[i - 1].close <= Upper(source, i - 1) /\ cs[i].close > Upper(source, i)

ClosesAbove(cs, source, i) == i \in On(source) /\ cs[i].close > Upper(source, i)
ClosesBelow(cs, source, i) == i \in On(source) /\ cs[i].close < Lower(source, i)
ClosesNotBelow(cs, source, i) == i \in On(source) /\ cs[i].close >= Lower(source, i)

\* _relation_active_run: from the first candle at or after i that is in the
\* relation on, all have to be; the run's length, 0 when there is none.
ActiveRun(cs, i, holding) ==
  LET starts == {j \in holding : j >= i}
      first == CHOOSE j \in starts : \A k \in starts : j <= k
  IN IF starts # {} /\ first .. Len(cs) \subseteq holding THEN Len(cs) - first + 1 ELSE 0

LatestNearSupport(cs, source, pct) ==
  LET n == Len(cs)
  IN /\ ClosesNotBelow(cs, source, n)
     /\ 100 * cs[n].close <= 100 * Upper(source, n) + Tolerance(source, n, pct)
LatestAtOrBelow(cs, source, pct) ==
  LET n == Len(cs)
  IN n \in On(source) /\ 100 * cs[n].close <= 100 * Upper(source, n) + Tolerance(source, n, pct)
ClosedBackNear(cs, source, pct) ==
  LET n == Len(cs)
  IN n \in On(source) /\ 100 * cs[n].close >= 100 * Lower(source, n) - Tolerance(source, n, pct)

\* The closes that end at candle i and are all on one side of the selection.
StreakUpTo(cs, source, relation, i) ==
  Cardinality({j \in 1 .. i : \A k \in j .. i :
    IF relation = "close_above" THEN ClosesAbove(cs, source, k) ELSE ClosesBelow(cs, source, k)})

\* A source's own condition, at the candle its event was found on.
SubFilterPasses(cs, source, i) ==
  LET sub == source.sub
      channel == source.channel
      target == IF sub.target = Missing THEN source
                ELSE SelectedBounds(source.id, channel, Selection(channel.trend, sub.target, "bullish", 1), sub)
      streak == StreakUpTo(cs, target, sub.relation, i)
  IN sub.relation # "none" => streak > 0 /\ CountInRange(streak, sub.min, sub.max)

----------------------------------------------------------------------------
(* Scenarios: a first event, at the first source and candle f, and a second  *)
(* one, at the second source and candle s.                                   *)

SecondIsBelow(first, second, i) ==
  i \in On(first) \cap On(second) /\ TwiceMid(second, i) < TwiceMid(first, i)
SecondIsAbove(first, second, i) ==
  i \in On(first) \cap On(second) /\ TwiceMid(second, i) > TwiceMid(first, i)
Clustered(first, second, i, pct) ==
  LET a == TwiceMid(first, i)
      b == TwiceMid(second, i)
  IN i \in On(first) \cap On(second) /\ 100 * Distance(a, b) <= Larger(Larger(a, b), 2) * pct

\* The scenarios of a kind, in the order they are tried.
ScenariosOf(kind) ==
  CASE kind = "breakout" -> <<"dual_resistance_break", "support_then_resistance_break", "resistance_break_then_support">>
    [] kind = "role_reversal" -> <<"resistance_break_then_support">>
    [] kind = "bullish" -> <<"dual_support", "stacked_support">>
    [] kind = "bearish" -> <<"stacked_resistance", "clustered_resistance">>
    [] OTHER -> <<>>

\* What a scenario asks of the first source at candle f.
FirstEvent(cs, first, scenario, f, pct) ==
  CASE scenario \in {"dual_resistance_break", "resistance_break_then_support"} -> BreaksResistance(cs, first, f)
    [] scenario \in {"stacked_resistance", "clustered_resistance"} ->
         HoldsResistance(cs, first, f, pct)
    [] OTHER -> HoldsSupport(cs, first, f, pct)

\* What it asks of the second source at candle s, and of both up to the latest.
SecondEvent(cs, first, second, scenario, s, pct) ==
  LET n == Len(cs)
      run == ActiveRun(cs, s, {i \in DOMAIN cs : ClosesAbove(cs, second, i)})
      under == ActiveRun(cs, s, {i \in DOMAIN cs : ClosesBelow(cs, first, i)})
  IN CASE scenario = "dual_resistance_break" -> BreaksResistance(cs, second, s) /\ run \in 1 .. 4
       [] scenario = "support_then_resistance_break" -> BreaksResistance(cs, second, s) /\ run \in 1 .. 3
       [] scenario = "resistance_break_then_support" ->
            HoldsSupport(cs, second, s, pct) /\ LatestNearSupport(cs, second, pct)
       [] scenario = "dual_support" -> HoldsSupport(cs, second, s, pct) /\ run \in 1 .. 4
       [] scenario = "stacked_support" ->
            /\ HoldsSupport(cs, second, s, pct) /\ SecondIsBelow(first, second, s)
            /\ LatestNearSupport(cs, second, pct)
            /\ \A k \in s .. n : ClosesNotBelow(cs, second, k)
       [] scenario = "stacked_resistance" ->
            /\ HoldsResistance(cs, second, s, pct) /\ SecondIsAbove(first, second, s)
            /\ ClosesBelow(cs, first, n)
       [] scenario = "clustered_resistance" ->
            /\ HoldsResistance(cs, second, s, pct) /\ Clustered(first, second, s, pct)
            /\ under \in 1 .. 4 /\ LatestAtOrBelow(cs, first, pct)

\* What it asks of the candles between the events.
Between(cs, first, scenario, f, s) ==
  CASE scenario = "resistance_break_then_support" -> \A k \in f .. Len(cs) : ClosesAbove(cs, first, k)
    [] scenario = "stacked_support" -> \A k \in f .. s - 1 : ClosesNotBelow(cs, first, k)
    [] OTHER -> TRUE

\* Fault: the first event may be older than four candles.
FirstEventsStale(cs, first, scenario, s, pct) ==
  {f \in 1 .. s : /\ s - f <= 3
                  /\ FirstEvent(cs, first, scenario, f, pct) /\ Between(cs, first, scenario, f, s)}

\* The first events of a scenario that fit a second at s: no more than three
\* candles before it, and among the last four.
FirstEvents(cs, first, scenario, s, pct) ==
  {f \in 1 .. s : /\ s - f <= 3 /\ Len(cs) - f + 1 <= 4
                  /\ FirstEvent(cs, first, scenario, f, pct) /\ Between(cs, first, scenario, f, s)}

Earliest(S) == CHOOSE i \in S : \A j \in S : i <= j

\* The first match found: the latest second event, then the scenarios in their
\* order, then the earliest first event.  <<f, s>>, or Missing.
Match(cs, first, second, kind, lookback, pct) ==
  LET n == Len(cs)
      tried == ScenariosOf(kind)
      fits(k, s) == IF SecondEvent(cs, first, second, tried[k], s, pct)
                    THEN FirstEvents(cs, first, tried[k], s, pct) ELSE {}
      latest == Latest({s \in 1 .. n : n - s < lookback /\ \E k \in DOMAIN tried : fits(k, s) # {}})
      found == Earliest({k \in DOMAIN tried : fits(k, latest) # {}})
  IN IF latest = Missing THEN Missing ELSE <<Earliest(fits(found, latest)), latest>>

LiquiditySweep(cs) ==
  LET last == cs[Len(cs)]
      prev == cs[Len(cs) - 1]
  IN /\ Len(cs) >= 2
     /\ \/ last.low < prev.low /\ last.close > prev.low
        \/ last.high > prev.high /\ last.close < prev.high

\* "any" takes the first of the three kinds that matches.
FirstMatch(cs, sources, config) ==
  LET kinds == IF config.type = "any" THEN <<"bullish", "bearish", "breakout">> ELSE <<config.type>>
      match(k) == Match(cs, sources[1], sources[2], kinds[k], config.lookback, config.pct)
      matching == {k \in DOMAIN kinds : match(k) # Missing}
  IN IF matching = {} THEN Missing ELSE match(Earliest(matching))

\* evaluate_confluence: the candles of the match that passes, or Missing.  The
\* candles are kept by the sources' ids, so that two of one id have the second's.
Evaluate(cs, channels, config) ==
  LET sources == Sources(channels, config)
      match == FirstMatch(cs, sources, config)
      at(k) == match[IF sources[1].id = sources[2].id THEN 2 ELSE k]
      passes ==
        /\ config.reclose /\ config.type \in {"bullish", "role_reversal"} =>
             ClosedBackNear(cs, sources[1], config.pct)
        /\ \A k \in 1 .. 2 : SubFilterPasses(cs, sources[k], at(k))
        /\ config.sweep => LiquiditySweep(cs)
  IN IF Len(sources) = 2 /\ cs # <<>> /\ match # Missing /\ passes THEN match ELSE Missing
=============================================================================
