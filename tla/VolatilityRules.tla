----------------------------- MODULE VolatilityRules -----------------------------
(***************************************************************************)
(* The volatility filter: three measures in percent that are compared with *)
(* bounds, and the volatility stop, a stop that trails the price by a      *)
(* multiple of the average true range and changes sides when it is hit.    *)
(*                                                                         *)
(* Options are given as to the volume filters.  Percentages of a measure   *)
(* are in hundredths, rounded down; the factor of the range is in          *)
(* quarters.  The prices of a stop are in units that keep every average    *)
(* whole.  Candles are one period apart, and a delay is in periods.        *)
(***************************************************************************)
EXTENDS VolumeRules

VolatilityDefaults ==
  [mode |-> "range_avg", length |-> 20, min |-> 0, max |-> Missing, tolerance |-> 0, source |-> "close",
   factor |-> 8, higherFrame |-> TRUE, detectBreaches |-> TRUE, alerts |-> {}, delay |-> 0, rule |-> "threshold",
   window |-> 1, minAtr |-> 0, maxAtr |-> Missing, minDistance |-> 0, maxDistance |-> Missing]
VolatilityModes == {"range_avg", "daily", "returns_std", "vstop"}
VolatilityRuleNames ==
  {"threshold", "trend_reversal", "change_to_uptrend", "change_to_downtrend", "uptrend", "downtrend",
   "price_cross_stop", "atr_above", "atr_below", "stop_distance_above_pct", "stop_distance_below_pct",
   "volatility_expansion", "volatility_contraction", "early_breach_uptrend", "early_breach_downtrend",
   "selected_alerts"}
VolatilityError(given) ==
  LET rule == Normalized(given, VolatilityDefaults)
  IN \/ ConfigError(given, VolatilityDefaults, VolatilityRuleNames)
     \/ rule.mode \notin VolatilityModes \/ rule.factor < 1
     \/ rule.mode = "vstop" /\ rule.length < 2

\* required_volatility_candles
VolatilityNeeds(given) ==
  LET rule == IF VolatilityError(given) THEN VolatilityDefaults ELSE Normalized(given, VolatilityDefaults)
  IN Larger(2, rule.length + (IF rule.mode = "returns_std" THEN 1 ELSE 0)) + Larger(0, rule.window - 1)

----------------------------------------------------------------------------
(* The measures. *)

TrueRange(cs, i) ==
  LET c == cs[i]
  IN IF i = 1 THEN Height(c)
     ELSE Larger(Height(c), Larger(Distance(c.high, cs[i - 1].close), Distance(c.low, cs[i - 1].close)))

\* The returns of a candle in hundredths of a percent, and the square of their
\* standard deviation times the square of their number.
Return(cs, i) == (10000 * (cs[i].close - cs[i - 1].close)) \div cs[i - 1].close
Spread(cs, I) ==
  Cardinality(I) * Sets!MapThenSumSet(LAMBDA i : Return(cs, i) ^ 2, I) - Sets!MapThenSumSet(LAMBDA i : Return(cs, i), I) ^ 2

\* A measure is at least, or at most, so many hundredths of a percent at candle i.
Measured(cs, i, rule) == Len(cs) >= Larger(2, rule.length) /\
  i >= (CASE rule.mode = "daily" -> 2 [] rule.mode = "returns_std" -> rule.length + 1 [] OTHER -> rule.length)
HeightShares(cs, I) == Sets!MapThenSumSet(LAMBDA k : (10000 * Height(cs[k])) \div cs[k].low, I)
Measure(cs, i, rule) ==
  IF rule.mode = "daily" THEN (10000 * TrueRange(cs, i)) \div cs[i].low
  ELSE HeightShares(cs, i - rule.length + 1 .. i) \div rule.length
AtLeast(cs, i, rule, v) ==
  IF rule.mode = "returns_std" THEN Spread(cs, i - rule.length + 1 .. i) >= (v * rule.length) ^ 2
  ELSE Measure(cs, i, rule) >= v
AtMost(cs, i, rule, v) ==
  IF rule.mode = "returns_std" THEN Spread(cs, i - rule.length + 1 .. i) <= (v * rule.length) ^ 2
  ELSE Measure(cs, i, rule) <= v
\* _legacy_signal_series
MeasureAt(cs, i, rule) ==
  /\ Measured(cs, i, rule)
  /\ AtLeast(cs, i, rule, Larger(0, rule.min - rule.tolerance))
  /\ rule.max # Missing => AtMost(cs, i, rule, rule.max + rule.tolerance)

----------------------------------------------------------------------------
(* The volatility stop. *)

\* 48 times the length, as often as there are candles.
Unit(cs, rule) ==
  LET unit[i \in 0 .. Len(cs)] == IF i = 0 THEN 48 ELSE rule.length * unit[i - 1]
  IN unit[Len(cs)]
Source(c, name) ==
  CASE name = "open" -> 12 * c.open [] name = "high" -> 12 * c.high [] name = "low" -> 12 * c.low
    [] name = "hl2" -> 6 * (c.high + c.low) [] name = "hlc3" -> 4 * (c.high + c.low + c.close)
    [] name = "ohlc4" -> 3 * (c.open + c.high + c.low + c.close)
    [] name = "hlcc4" -> 3 * (c.high + c.low + 2 * c.close) [] OTHER -> 12 * c.close

\* The sum of the true ranges up to candle m.
RangeSum(cs, m) ==
  LET sum[i \in 0 .. m] == IF i = 0 THEN 0 ELSE sum[i - 1] + TrueRange(cs, i)
  IN sum[m]

\* _pine_atr: Wilder's average of the true range, Missing before there are enough.
Atr(cs, rule) ==
  LET unit == Unit(cs, rule)
      next(atr, i) ==
        CASE i < rule.length -> Missing
          [] i = rule.length -> (unit * RangeSum(cs, i)) \div i
          [] OTHER -> (atr[i - 1] * (rule.length - 1) + unit * TrueRange(cs, i)) \div rule.length
  IN Along(cs, next)

\* Fault: the extremes of the trend before are kept.
TurnedKept(price, distance, max, min, up) ==
  [at |-> IF up THEN max - distance ELSE min + distance, up |-> up, max |-> max, min |-> min]

\* The stop of a trend that has just turned.
Turned(price, distance, max, min, up) ==
  [at |-> IF up THEN price - distance ELSE price + distance, up |-> up, max |-> price, min |-> price]

\* _vstop_series.  Without an average the stop is a true range away; the first
\* candle is in an uptrend, and so is one whose price is at the stop.
Stops(cs, rule) ==
  LET unit == Unit(cs, rule)
      atr == Atr(cs, rule)
      next(stop, i) ==
        LET price == (unit \div 12) * Source(cs[i], rule.source)
            distance == IF atr[i] = Missing THEN unit * TrueRange(cs, i) ELSE (atr[i] * rule.factor) \div 4
            p == stop[i - 1]
            max == Larger(p.max, price)
            min == Smaller(p.min, price)
            candidate == IF p.up THEN Larger(p.at, max - distance) ELSE Smaller(p.at, min + distance)
            up == price >= candidate
        IN CASE i = 1 -> [at |-> price, up |-> TRUE, max |-> price, min |-> price]
             [] i > 1 /\ up = p.up -> [at |-> candidate, up |-> up, max |-> max, min |-> min]
             [] OTHER -> Turned(price, distance, max, min, up)
  IN Along(cs, next)

Reversed(stop, i) == i > 1 /\ stop[i].up # stop[i - 1].up
ClosesIn(cs, rule) == [i \in DOMAIN cs |-> Unit(cs, rule) * cs[i].close]
StopLine(stop) == [i \in DOMAIN stop |-> stop[i].at]
StopCrossed(cs, rule, stop, i) ==
  CrossedAbove(ClosesIn(cs, rule), StopLine(stop), i) \/ CrossedBelow(ClosesIn(cs, rule), StopLine(stop), i)

\* _breach_series: the close goes through a stop that stays, for the first time
\* in a trend.  After it the price is in limbo until the trend is another.
Breaching(cs, rule, stop) ==
  LET next(state, i) ==
        LET limbo == i > 1 /\ state[i - 1].limbo
            breach == rule.higherFrame /\ rule.detectBreaches /\ ~limbo /\ StopCrossed(cs, rule, stop, i)
        IN [early |-> breach /\ ~Reversed(stop, i), limbo |-> (limbo \/ breach) /\ ~Reversed(stop, i)]
  IN Along(cs, next)

\* An alert stays once its delay has passed since the latest of its events.
Alerts == {"reversal", "to_up", "to_down", "breach_up", "breach_down"}
AlertEvent(stop, breaching, i, alert) ==
  CASE alert = "reversal" -> Reversed(stop, i)
    [] alert = "to_up" -> Reversed(stop, i) /\ stop[i].up
    [] alert = "to_down" -> Reversed(stop, i) /\ ~stop[i].up
    [] alert = "breach_up" -> breaching[i].early /\ stop[i].up
    [] OTHER -> breaching[i].early /\ ~stop[i].up
Alerted(stop, breaching, i, alert, delay) ==
  LET last == Latest({k \in 1 .. i : AlertEvent(stop, breaching, k, alert)})
  IN last # Missing /\ i - last >= delay

\* _vstop_signal_series: the candles that the rule has a signal at.
StopSignals(cs, rule) ==
  LET unit == Unit(cs, rule)
      atr == Atr(cs, rule)
      stop == Stops(cs, rule)
      breaching == Breaching(cs, rule, stop)
      event(i, alert) == AlertEvent(stop, breaching, i, alert)
      most(max, min) == IF max = Missing THEN min ELSE max
      away(i) == 10000 * Distance(unit * cs[i].close, stop[i].at)
      share(i, pct, tolerance) == pct * unit * cs[i].close * tolerance
      at(i) ==
        CASE rule.rule = "trend_reversal" -> event(i, "reversal")
          [] rule.rule = "change_to_uptrend" -> event(i, "to_up")
          [] rule.rule = "change_to_downtrend" -> event(i, "to_down")
          [] rule.rule = "uptrend" -> stop[i].up
          [] rule.rule = "downtrend" -> ~stop[i].up
          [] rule.rule = "price_cross_stop" -> StopCrossed(cs, rule, stop, i)
          [] rule.rule = "early_breach_uptrend" -> event(i, "breach_up")
          [] rule.rule = "early_breach_downtrend" -> event(i, "breach_down")
          [] rule.rule = "selected_alerts" ->
               \E alert \in rule.alerts : Alerted(stop, breaching, i, alert, rule.delay)
          [] rule.rule = "atr_above" ->
               atr[i] # Missing /\ 100 * atr[i] >= rule.minAtr * unit * (100 - rule.tolerance)
          [] rule.rule = "atr_below" ->
               atr[i] # Missing /\ 100 * atr[i] <= most(rule.maxAtr, rule.minAtr) * unit * (100 + rule.tolerance)
          [] rule.rule = "stop_distance_above_pct" -> away(i) >= share(i, rule.minDistance, 100 - rule.tolerance)
          [] rule.rule = "stop_distance_below_pct" ->
               away(i) <= share(i, most(rule.maxDistance, rule.minDistance), 100 + rule.tolerance)
          [] rule.rule = "volatility_expansion" -> Direction(atr, i, "rising")
          [] rule.rule = "volatility_contraction" -> Direction(atr, i, "falling")
          [] OTHER -> atr[i] # Missing
  IN {i \in DOMAIN cs : at(i)}

----------------------------------------------------------------------------
\* compute_volatility, of the closed candles.
VolatilitySignals(cs, rule) ==
  LET closed == Completed(cs)
  IN IF rule.mode = "vstop" THEN StopSignals(closed, rule) ELSE {i \in DOMAIN closed : MeasureAt(closed, i, rule)}
VolatilityMatched(cs, rule) ==
  MatchedAt(Len(Completed(cs)), rule.window, VolatilitySignals(cs, rule))
VolatilityPasses(cs, given) ==
  ~VolatilityError(given) /\ VolatilityMatched(cs, Normalized(given, VolatilityDefaults)) # Missing
\* volatility_signal_warnings
VolatilityWarning(cs, rule) ==
  SignalWarning(Len(Completed(cs)), rule.window, VolatilitySignals(cs, rule))
=============================================================================
