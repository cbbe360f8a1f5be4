------------------------------ MODULE Oscillators ------------------------------
(***************************************************************************)
(* The rules of the oscillators: RSI, Aroon, MACD, WaveTrend and VLR.      *)
(*                                                                         *)
(* A series has a whole number for every candle, or Missing while the      *)
(* averages behind it have too few candles.  The RSI and the Aroon         *)
(* oscillator are computed here; an exponential average and a correlation  *)
(* are not whole, so the lines of MACD, WaveTrend and VLR are given.  The  *)
(* RSI, and the lines of VLR, which lie between -1 and 1, are in           *)
(* hundredths, rounded down.                                               *)
(***************************************************************************)
EXTENDS Candles

Known(s, I) == \A i \in I : i \in DOMAIN s /\ s[i] # Missing
LastKnown(s) == Latest({i \in DOMAIN s : s[i] # Missing})
Difference(a, b) ==
  [i \in DOMAIN a |-> IF Known(a, {i}) /\ Known(b, {i}) THEN a[i] - b[i] ELSE Missing]

\* series_direction_matches
Direction(s, i, direction) ==
  CASE direction = Missing -> TRUE
    [] direction = "rising" -> Known(s, {i - 1, i}) /\ s[i] > s[i - 1]
    [] direction = "falling" -> Known(s, {i - 1, i}) /\ s[i] < s[i - 1]
    [] direction = "turning_up" ->
         Known(s, {i - 2, i - 1, i}) /\ s[i - 1] <= s[i - 2] /\ s[i] > s[i - 1]
    [] direction = "turning_down" ->
         Known(s, {i - 2, i - 1, i}) /\ s[i - 1] >= s[i - 2] /\ s[i] < s[i - 1]
    [] OTHER -> FALSE

Constantly(v, n) == [i \in 1 .. n |-> v]

CrossedAbove(a, b, i) ==
  Known(a, {i - 1, i}) /\ Known(b, {i - 1, i}) /\ a[i - 1] <= b[i - 1] /\ a[i] > b[i]
CrossedBelow(a, b, i) ==
  Known(a, {i - 1, i}) /\ Known(b, {i - 1, i}) /\ a[i - 1] >= b[i - 1] /\ a[i] < b[i]

\* The operators of a comparison, with a tolerance.
Compares(left, op, right, tolerance) ==
  /\ left # Missing /\ right # Missing
  /\ CASE op = "above" -> left > right - tolerance
       [] op = "below" -> left < right + tolerance
       [] op = "gte" -> left >= right - tolerance
       [] op = "lte" -> left <= right + tolerance
       [] op = "near" -> Distance(left, right) <= tolerance
       [] OTHER -> FALSE

\* The last candles of a series of n, and a rule that has to match one of them;
\* a series may begin some candles after the chart.
Recent(n, window) == {i \in 1 .. n : i > n - window}

Signal(cs, n, rule, matches(_)) ==
  /\ n >= rule.window
  /\ \E i \in Recent(n, rule.window) : matches(i) /\ Confirmed(cs, i + Len(cs) - n, rule.confirm)

\* The candle of the series that a sticker shows.
ShownAt(n, rule, matches(_)) ==
  LET found == {i \in Recent(n, rule.window) : matches(i)}
  IN IF found = {} THEN n ELSE Latest(found)

----------------------------------------------------------------------------
(* RSI: the share of the gains in the moves of the closes, both smoothed as  *)
(* Wilder does; the averages are multiplied by a power of the length.        *)

Average(moves, length) ==
  LET total[i \in 0 .. length] == IF i = 0 THEN 0 ELSE total[i - 1] + moves[i]
      smooth[i \in length .. Len(moves)] ==
        IF i = length THEN total[length]
        ELSE smooth[i - 1] * (length - 1) + moves[i] * length ^ (i - length)
  IN smooth
RsiSeries(cs, length) ==
  LET delta(i) == cs[i + 1].close - cs[i].close
      up == Average([i \in 1 .. Len(cs) - 1 |-> Larger(delta(i), 0)], length)
      down == Average([i \in 1 .. Len(cs) - 1 |-> Larger(-delta(i), 0)], length)
      at(i) == IF down[i] = 0 THEN 10000 ELSE (10000 * up[i]) \div (up[i] + down[i])
  IN IF Len(cs) <= length THEN <<>> ELSE [i \in 1 .. Len(cs) - length |-> at(i + length - 1)]

RsiLocation(v, location, tolerance) ==
  CASE location = Missing -> TRUE
    [] location = "oversold" -> v <= 3000 + tolerance
    [] location = "neutral" -> 3000 - tolerance <= v /\ v <= 7000 + tolerance
    [] location = "overbought" -> v >= 7000 - tolerance
    [] OTHER -> FALSE
RsiMatches(s, i, rule) ==
  /\ RsiLocation(s[i], rule.location, rule.tolerance)
  /\ rule.direction \in {Missing, "turning_up", "turning_down"}
  /\ Direction(s, i, rule.direction)
RsiPasses(cs, s, rule) == Signal(cs, Len(s), rule, LAMBDA i : RsiMatches(s, i, rule))
\* Fault: the sticker shows the newest value.
RsiShownNewest(s, rule) == Len(s)

RsiShown(s, rule) == ShownAt(Len(s), rule, LAMBDA i : RsiMatches(s, i, rule))

----------------------------------------------------------------------------
(* Aroon: how much later the highest of the last candles is than the lowest, *)
(* the first of several that are equal.                                      *)

First(S, before(_, _)) == CHOOSE i \in S : \A j \in S : before(i, j) \/ (~before(j, i) /\ i <= j)
AroonSeries(cs, length) ==
  LET at(n) == LET highest == First(n - length .. n, LAMBDA i, j : cs[i].high > cs[j].high)
                   lowest == First(n - length .. n, LAMBDA i, j : cs[i].low < cs[j].low)
               IN (100 * (highest - lowest)) \div length
  IN IF Len(cs) <= length THEN <<>> ELSE [i \in 1 .. Len(cs) - length |-> at(i + length)]

AroonLevel(v, level, tolerance) ==
  CASE level = "above_50" -> v >= 50 - tolerance
    [] level = "between_50_0" -> -tolerance < v /\ v <= 50 + tolerance
    [] level = "near_0" -> -10 - tolerance <= v /\ v <= 10 + tolerance
    [] level = "between_0_-50" -> -50 - tolerance <= v /\ v < tolerance
    [] level = "below_-50" -> v <= -50 + tolerance
    [] OTHER -> FALSE
AroonMatches(s, i, rule) ==
  /\ AroonLevel(s[i], rule.level, rule.tolerance)
  /\ Direction(s, i, rule.direction)
  /\ rule.direction = "turning_up" => s[i - 1] <= -rule.extreme
  /\ rule.direction = "turning_down" => s[i - 1] >= rule.extreme
AroonPasses(cs, s, rule) == Signal(cs, Len(s), rule, LAMBDA i : AroonMatches(s, i, rule))
AroonShown(s, rule) == ShownAt(Len(s), rule, LAMBDA i : AroonMatches(s, i, rule))

----------------------------------------------------------------------------
(* MACD, by its last values; the tolerance is a share of the values. *)

Absolute(v) == Distance(v, 0)

MacdZero(s, rule, above) ==
  LET i == LastKnown(s)
      amount == Absolute(s[i]) * rule.tolerance
  IN i # Missing /\ IF above THEN 100 * s[i] >= -amount ELSE 100 * s[i] <= amount

\* The last two candles that both lines have a value at.
MacdPairs(m, s) ==
  LET both == {i \in DOMAIN m : Known(m, {i}) /\ Known(s, {i})}
  IN [now |-> Latest(both), before |-> IF both = {} THEN Missing ELSE Latest(both \ {Latest(both)})]
MacdLines(m, s, rule) ==
  LET p == MacdPairs(m, s)
      amount(i) == Larger(Absolute(m[i]), Absolute(s[i])) * rule.tolerance
      over(i) == 100 * m[i] - 100 * s[i]
  IN /\ p.before # Missing
     /\ CASE rule.rule = "bullish_cross" -> over(p.before) <= amount(p.before) /\ over(p.now) > -amount(p.now)
          [] rule.rule = "bearish_cross" -> over(p.before) >= -amount(p.before) /\ over(p.now) < amount(p.now)
          [] rule.rule = "above_signal" -> over(p.now) >= -amount(p.now)
          [] rule.rule = "below_signal" -> over(p.now) <= amount(p.now)
          [] OTHER -> FALSE

MacdPasses(m, s, rule) ==
  CASE rule.rule = "above_zero" -> MacdZero(m, rule, TRUE)
    [] rule.rule = "below_zero" -> MacdZero(m, rule, FALSE)
    [] rule.rule = "histogram_above_zero" -> MacdZero(Difference(m, s), rule, TRUE)
    [] rule.rule = "histogram_below_zero" -> MacdZero(Difference(m, s), rule, FALSE)
    [] OTHER -> MacdLines(m, s, rule)
=============================================================================
