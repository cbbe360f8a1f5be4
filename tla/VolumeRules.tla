------------------------------ MODULE VolumeRules ------------------------------
(***************************************************************************)
(* The three calculators of volume: spikes, volume relative to an average  *)
(* of the candles before, and current volume in percent of its average,    *)
(* all of the candles that are closed.                                     *)
(*                                                                         *)
(* A candle has a volume and the minute of the day it began at as well.    *)
(* Ratios of a rule are in tenths.  A request gives each option a sequence *)
(* of values, as an option has several names.                              *)
(***************************************************************************)
EXTENDS Oscillators
Sets == INSTANCE FiniteSetsExt

CONSTANTS LongLsma, ShortLsma,    \* the lengths that relative volume has fixed, 21 and 6,
          Smoothing, HullRoot     \* and what its other averages need besides, 20 and 4
ASSUME LsmaAssumption == {LongLsma, ShortLsma, Smoothing, HullRoot} \subseteq Nat \ {0}

\* The sum of a function's values.
Total(f) == Sets!MapThenSumSet(LAMBDA i : f[i], DOMAIN f)
VolumeSum(cs, I) == Sets!MapThenSumSet(LAMBDA i : cs[i].volume, I)

\* The configuration that is used: a default for each option that is not given.
Conflicting(values) == \E k \in DOMAIN values : values[k] # values[1]
Normalized(given, defaults) ==
  [o \in DOMAIN defaults |-> IF o \in DOMAIN given /\ given[o] # <<>> THEN given[o][1] ELSE defaults[o]]
ConfigError(given, defaults, rules) ==
  LET config == Normalized(given, defaults)
  IN \/ \E o \in DOMAIN given : Conflicting(given[o])
     \/ config.rule \notin rules
     \/ config.rule \in {"between", "between_average_percent"} /\ config.max = Missing

\* _matching_boolean_index: the latest of the last candles that a signal is at;
\* without a window, of all.
MatchedAt(n, window, signals) ==
  Latest(IF window = Missing THEN signals ELSE signals \cap Recent(n, window))

\* What is told next to a verdict: that the signal is not of the newest candle,
\* or that there is one before the window.
SignalWarning(n, window, signals) ==
  LET matched == MatchedAt(n, window, signals)
  IN CASE matched # Missing /\ matched < n -> "within_window_not_latest"
       [] matched = Missing /\ signals # {} -> "stale_outside_window"
       [] OTHER -> "none"

----------------------------------------------------------------------------
(* Spikes. *)

SpikeRules == {"bullish", "bearish", "either"}
SpikeDefaults ==
  [volMa |-> 100, volX |-> 15, onlyValidHl |-> TRUE, onlyHammersShooters |-> TRUE,
   onlySameColor |-> FALSE, session |-> Missing, rule |-> "either", window |-> 1]

\* A session may go over midnight.
InSession(c, session) ==
  (session # Missing /\ session.from # session.to) =>
    IF session.from < session.to THEN session.from <= c.minute /\ c.minute < session.to
    ELSE session.from <= c.minute \/ c.minute < session.to

Heavy(cs, i, rule) ==
  /\ i >= rule.volMa /\ InSession(cs[i], rule.session)
  /\ 10 * rule.volMa * cs[i].volume > rule.volX * VolumeSum(cs, i - rule.volMa + 1 .. i)

\* Fault: the newest candle is its own neighbour.
SpikeSidesEarly(cs, i, rule) ==
  LET c == cs[i]
  IN {side \in {"bullish", "bearish"} :
       /\ i >= 2 /\ Heavy(cs, i, rule)
       /\ rule.onlyValidHl =>
            IF side = "bearish" THEN c.high > cs[i - 1].high /\ (i < Len(cs) => c.high > cs[i + 1].high)
            ELSE c.low < cs[i - 1].low /\ (i < Len(cs) => c.low < cs[i + 1].low)}

\* The sides of the spike that candle i confirms, of the candle before it.
SpikeSides(cs, i, rule) ==
  LET c == cs[i - 1]
      mid == c.high + c.low
  IN {side \in {"bullish", "bearish"} :
       /\ i >= 3 /\ Heavy(cs, i - 1, rule)
       /\ rule.onlyValidHl =>
            IF side = "bearish" THEN c.high > cs[i - 2].high /\ c.high > cs[i].high
            ELSE c.low < cs[i - 2].low /\ c.low < cs[i].low
       /\ rule.onlyHammersShooters =>
            IF side = "bearish" THEN 2 * c.open < mid /\ 2 * c.close < mid
            ELSE 2 * c.open > mid /\ 2 * c.close > mid
       /\ rule.onlySameColor => IF side = "bearish" THEN Bearish(c) ELSE Bullish(c)}

SpikeAt(cs, i, rule) ==
  SpikeSides(cs, i, rule) \cap (IF rule.rule = "either" THEN {"bullish", "bearish"} ELSE {rule.rule}) # {}
SpikeMatched(cs, rule) == MatchedAt(Len(cs), rule.window, {i \in DOMAIN cs : SpikeAt(cs, i, rule)})
SpikeError(given) == ConfigError(given, SpikeDefaults, SpikeRules)
SpikePasses(cs, given) ==
  ~SpikeError(given) /\ SpikeMatched(Completed(cs), Normalized(given, SpikeDefaults)) # Missing
\* The sticker tells the volume of the candle that spiked, not of the one that confirms it.
SpikeShown(cs, rule) ==
  LET closed == Completed(cs)
      i == SpikeMatched(closed, rule)
  IN IF i = Missing THEN Len(closed) - 1 ELSE i - 1

\* Fault: the window is not counted.
SpikeNeedsOne(given) ==
  IF SpikeError(given) THEN SpikeDefaults.volMa + 2 ELSE Normalized(given, SpikeDefaults).volMa + 1

\* required_volume_spike_candles
SpikeNeeds(given) ==
  LET rule == Normalized(given, SpikeDefaults)
  IN IF SpikeError(given) THEN SpikeDefaults.volMa + 2 ELSE rule.volMa + 2 + Larger(0, rule.window - 1)

----------------------------------------------------------------------------
(* Relative volume. *)

RelativeRules == {"above", "below", "between", "crossed_above", "crossed_below", "highest",
                  "volume_alert", "increased_volume", "anomaly", "entry"}
RelativeDefaults ==
  [lsmaLength |-> 50, avgLength |-> 30, volAlert |-> 200000000, showLong |-> TRUE, showShort |-> TRUE,
   showAnomalies |-> TRUE, rule |-> "above", min |-> 10, max |-> Missing, window |-> 1, tolerance |-> 0]

\* The volume in hundredths of the average of the candles before it.
Rvol(cs, length) ==
  LET sum(i) == VolumeSum(cs, i - length .. i - 1)
  IN [i \in 1 .. Len(cs) |->
       IF i > length /\ sum(i) > 0 THEN (100 * length * cs[i].volume) \div sum(i) ELSE Missing]

\* The end of the line fitted to the last values, times length * (length + 1).
Fitted(values, length) ==
  [i \in DOMAIN values |->
     IF i < length THEN Missing
     ELSE Total([k \in 1 .. length |-> (6 * k - 2 * (length + 1)) * values[i - length + k]])]
Lsma(cs, length) == Fitted([i \in DOMAIN cs |-> cs[i].volume], length)
OverLsma(cs, i, length) == cs[i].volume * length * (length + 1) - Lsma(cs, length)[i]

\* More than a standard deviation over the line; both sides squared.
Anomalous(cs, i, length) ==
  LET last == i - LongLsma + 1 .. i
      squares == Sets!MapThenSumSet(LAMBDA k : cs[k].volume ^ 2, last)
      scale == length * (length + 1)
  IN /\ i >= length /\ i >= LongLsma /\ OverLsma(cs, i, length) > 0
     /\ (OverLsma(cs, i, length) * LongLsma) ^ 2 > scale ^ 2 * (LongLsma * squares - VolumeSum(cs, last) ^ 2)

RelativeAt(cs, i, rule) ==
  LET n == Len(cs)
      rvol == Rvol(cs, rule.avgLength)
      v == rvol[i]
      min == IF rule.min = 0 THEN 10 ELSE rule.min
      atLeast == v # Missing /\ 10 * v >= min * (100 - rule.tolerance)
      zero == Constantly(0, n)
  IN CASE rule.rule = "above" -> atLeast
       [] rule.rule = "below" -> v # Missing /\ 10 * v <= min * (100 + rule.tolerance)
       [] rule.rule = "between" -> atLeast /\ 10 * v <= rule.max * (100 + rule.tolerance)
       [] rule.rule = "crossed_above" -> CrossedAbove(rvol, Constantly(10 * min, n), i)
       [] rule.rule = "crossed_below" -> CrossedBelow(rvol, Constantly(10 * min, n), i)
       [] rule.rule = "highest" ->
            v # Missing /\ \A j \in Recent(i, rule.window) : rvol[j] # Missing => v >= rvol[j]
       [] rule.rule = "volume_alert" ->
            i > 1 /\ cs[i - 1].volume <= rule.volAlert /\ cs[i].volume > rule.volAlert
       [] rule.rule = "increased_volume" -> i >= rule.lsmaLength /\ OverLsma(cs, i, rule.lsmaLength) > 0
       [] rule.rule = "anomaly" -> rule.showAnomalies /\ Anomalous(cs, i, rule.lsmaLength)
       [] OTHER -> \/ CrossedAbove(Lsma(cs, rule.lsmaLength), zero, i)
                   \/ rule.showLong /\ CrossedAbove(Lsma(cs, LongLsma), zero, i)
                   \/ rule.showShort /\ CrossedAbove(Lsma(cs, ShortLsma), zero, i)
RelativeMatched(cs, rule) == MatchedAt(Len(cs), rule.window, {i \in DOMAIN cs : RelativeAt(cs, i, rule)})
RelativeError(given) == ConfigError(given, RelativeDefaults, RelativeRules)
RelativePasses(cs, given) ==
  ~RelativeError(given) /\ RelativeMatched(Completed(cs), Normalized(given, RelativeDefaults)) # Missing
\* required_relative_volume_candles
RelativeNeeds(given) ==
  LET rule == IF RelativeError(given) THEN RelativeDefaults ELSE Normalized(given, RelativeDefaults)
  IN Larger(rule.avgLength + 1, Larger(rule.lsmaLength + Smoothing, LongLsma + HullRoot)) + rule.window - 1

\* The candlestick and volume confirmation of VLR ask for the same ratio.
VolumeConfirms(cs, window, length, min) ==
  LET rvol == Rvol(cs, length)
  IN \E i \in Recent(Len(cs), window) : rvol[i] # Missing /\ rvol[i] >= min

----------------------------------------------------------------------------
(* Current volume. *)

CurrentRules == {"value", "above_average_percent", "below_average_percent",
                 "between_average_percent", "above_average"}
CurrentDefaults ==
  [atrLength |-> 14, avgCount |-> 30, rule |-> "value", minValue |-> Missing, maxValue |-> Missing,
   min |-> Missing, max |-> Missing, window |-> 1, tolerance |-> 0]

\* Percent of the average that includes the candle, a half rounded up.
PercentOfAverage(cs, length) ==
  LET sum(i) == VolumeSum(cs, i - length + 1 .. i)
  IN [i \in 1 .. Len(cs) |->
       IF i >= length /\ sum(i) > 0
       THEN (200 * length * cs[i].volume + sum(i)) \div (2 * sum(i)) ELSE Missing]

CurrentAt(cs, i, rule) ==
  LET v == cs[i].volume
      p == PercentOfAverage(cs, rule.avgCount)[i]
      min == IF rule.min = Missing \/ rule.rule = "above_average" THEN 100 ELSE rule.min
      atLeast == p # Missing /\ 100 * p >= min * (100 - rule.tolerance)
  IN CASE rule.rule = "value" ->
            /\ rule.minValue # Missing => 100 * v >= rule.minValue * (100 - rule.tolerance)
            /\ rule.maxValue # Missing => 100 * v <= rule.maxValue * (100 + rule.tolerance)
       [] rule.rule \in {"above_average", "above_average_percent"} -> atLeast
       [] rule.rule = "below_average_percent" -> p # Missing /\ 100 * p <= min * (100 + rule.tolerance)
       [] OTHER -> atLeast /\ 100 * p <= rule.max * (100 + rule.tolerance)
CurrentMatched(cs, rule) == MatchedAt(Len(cs), rule.window, {i \in DOMAIN cs : CurrentAt(cs, i, rule)})
CurrentError(given) == ConfigError(given, CurrentDefaults, CurrentRules)
CurrentPasses(cs, given) ==
  ~CurrentError(given) /\ CurrentMatched(Completed(cs), Normalized(given, CurrentDefaults)) # Missing
\* The colour of the table's cell.
ColorState(p) ==
  CASE p = Missing -> "white" [] p # Missing /\ p >= 200 -> "green"
    [] p # Missing /\ p >= 100 -> "orange" [] OTHER -> "white"
\* required_current_volume_candles
CurrentNeeds(given) ==
  LET rule == IF CurrentError(given) THEN CurrentDefaults ELSE Normalized(given, CurrentDefaults)
  IN Larger(1, Larger(rule.avgCount, rule.atrLength)) + Larger(0, rule.window - 1)
=============================================================================
