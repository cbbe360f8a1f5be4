------------------------------- MODULE AdxRules -------------------------------
(***************************************************************************)
(* The rules of the Trendy ADX indicator: two direction lines, DI+ and     *)
(* DI-, and the strength of the trend, ADX, which is Missing while its     *)
(* average has too few candles.  The lines are given, in tenths of a point.*)
(*                                                                         *)
(* s is a record of the three lines, [plus, minus, adx].  A condition is a *)
(* record: its id, the options of the ranges it may be asked with, the     *)
(* legacy option since (candles_since), and its line, direction and        *)
(* distance; an option that is not set is Missing.                         *)
(***************************************************************************)
EXTENDS Oscillators

Strong == 250
Exhausted == 400
Touching == 1
Back == 3          \* DIRECTIONAL_TREND_LOOKBACK
WeakBack == 10     \* WEAK_LOOKBACK
Flips == 3         \* WEAK_FLIP_THRESHOLD

Given(option, default) == IF option = Missing THEN default ELSE option

\* _range_from_config and _active_range_from_config.
AdxRange(min, max, since, most) ==
  IF min = Missing /\ max = Missing /\ since # Missing THEN [min |-> 0, max |-> since]
  ELSE [min |-> Given(min, 0), max |-> Larger(Given(max, most), Given(min, 0))]
EventRange(c, most) == AdxRange(c.min, c.max, c.since, most)
ActiveRange(c) ==
  IF c.activeMin = Missing /\ c.activeMax = Missing /\ c.since # Missing
  THEN [min |-> Larger(1, c.since), max |-> Missing]
  ELSE [min |-> Given(c.activeMin, 1), max |-> Larger(Given(c.activeMax, 1), Given(c.activeMin, 1))]

\* The latest event decides: an older one in the range does not help.
AdxEvent(n, c, most, events) ==
  LET r == EventRange(c, most)
  IN AgeInRange(Latest(events \intersect Recent(n, r.max + 1)), n, r.min, r.max)

RunLength(n, holding) == n - Latest({0} \union ((1 .. n) \ holding))
AdxActive(n, c, holding) ==
  /\ n \in holding
  /\ c.activeMin # Missing \/ c.activeMax # Missing \/ c.since # Missing =>
       CountInRange(RunLength(n, holding), ActiveRange(c).min, ActiveRange(c).max)

----------------------------------------------------------------------------
(* How long a line has been going the way it goes. *)

LineDirection(line, i) ==
  CASE ~Known(line, {i - 1, i}) -> Missing
    [] line[i] > line[i - 1] -> "up"
    [] line[i] < line[i - 1] -> "down"
    [] OTHER -> "flat"
Streak(line, direction) ==
  RunLength(Len(line), {i \in DOMAIN line : LineDirection(line, i) = direction})

DirectionIds == {"line_direction", "adx_direction", "di_plus_direction", "di_minus_direction"}
LineById(id) ==
  CASE id = "adx_direction" -> "adx"
    [] id = "di_plus_direction" -> "plus"
    [] id = "di_minus_direction" -> "minus"
    [] OTHER -> Missing
Asked(line, c) ==
  IF c.direction \in {"up", "down", "flat"} THEN c.direction ELSE LineDirection(line, Len(line))

\* Fault: the length of a streak is not counted in its own candles.
StreakRangeLess(c, streak) ==
  LET r == IF c.changeMin # Missing \/ c.changeMax # Missing
           THEN AdxRange(c.changeMin, c.changeMax, c.since, 0) ELSE AdxRange(c.min, c.max, c.since, 0)
  IN CountInRange(streak - 1, r.min, r.max)

\* The range bounds the candles of the streak.
StreakRange(c, streak) ==
  LET r == IF c.changeMin # Missing \/ c.changeMax # Missing
           THEN AdxRange(c.changeMin, c.changeMax, c.since, 0) ELSE AdxRange(c.min, c.max, c.since, 0)
  IN CountInRange(streak, r.min, r.max)

DirectionPasses(s, c) ==
  LET line == s[Given(LineById(c.id), Given(c.line, "adx"))]
      way == Asked(line, c)
  IN /\ Len(line) >= 2
     /\ way # Missing /\ LineDirection(line, Len(line)) = way
     /\ {c.min, c.max, c.changeMin, c.changeMax, c.since} # {Missing} => StreakRange(c, Streak(line, way))

\* The candles of the streak, which the chart outlines.
StreakEvidence(s, c) ==
  LET line == s[Given(c.line, Given(LineById(c.id), "adx"))]
      way == Asked(line, c)
  IN IF c.id \notin DirectionIds \/ Len(line) < 2 \/ way = Missing \/ Streak(line, way) = 0 THEN Missing
     ELSE [direction |-> way, from |-> Len(line) - Streak(line, way) + 1, to |-> Len(line)]

----------------------------------------------------------------------------
(* The conditions on a line and another, and their background: the side of   *)
(* the chart that is coloured while one direction line is above the other.   *)

AdxBelow(a, b, i) == Known(a, {i}) /\ Known(b, {i}) /\ a[i] < b[i]
AdxNear(a, b, i, distance) == Known(a, {i}) /\ Known(b, {i}) /\ Distance(a[i], b[i]) <= distance
LowerOf(a, b) == [i \in DOMAIN a |-> Smaller(a[i], b[i])]
UpperOf(a, b) == [i \in DOMAIN a |-> Larger(a[i], b[i])]
Side(a, b, i) == i \in DOMAIN a /\ a[i] > b[i]
Flipped(a, b, i) == i > 1 /\ Side(a, b, i) # Side(a, b, i - 1)
AdxCross(a, b, i) == CrossedAbove(a, b, i) \/ CrossedAbove(b, a, i)

Background(id, c, dominant, opposing) ==
  LET n == Len(dominant)
      run == RunLength(n, {i \in 1 .. n : Side(dominant, opposing, i)})
      active == CountInRange(run, ActiveRange(c).min, ActiveRange(c).max)
  IN /\ run > 0
     /\ CASE id = "bg_active" -> TRUE
          [] id = "bg_active_for_x" -> active
          [] id = "bg_just_started" /\ (c.activeMin # Missing \/ c.activeMax # Missing) -> active
          [] OTHER -> CountInRange(run - 1, EventRange(c, 0).min, EventRange(c, 0).max)

\* ADX and one line: each id is one of four words and the line's.
AdxAgainst(word, c, adx, line) ==
  CASE word = "below" -> AdxActive(Len(adx), c, {i \in DOMAIN adx : AdxBelow(adx, line, i)})
    [] word = "above" -> AdxActive(Len(adx), c, {i \in DOMAIN adx : AdxBelow(line, adx, i)})
    [] word = "near" -> AdxActive(Len(adx), c, {i \in DOMAIN adx : AdxNear(adx, line, i, Given(c.distance, 10))})
    [] OTHER -> AdxEvent(Len(adx), c, 0, {i \in DOMAIN adx : CrossedAbove(adx, line, i)})

Bounced(c, dominant, opposing) ==
  LET n == Len(dominant)
      r == EventRange(c, 2)
      touched == {i \in Recent(n, r.max + 1) \ {n} : dominant[i] - opposing[i] <= Touching}
  IN /\ Side(dominant, opposing, n)
     /\ AgeInRange(Latest(touched), n, r.min, r.max)

\* _evaluate_directional_condition; for a bearish mode DI- is the dominant line.
Directional(c, s, dominant, opposing, threshold) ==
  LET n == Len(dominant)
      level == Constantly(threshold, n)
      lower == LowerOf(dominant, opposing)
      upper == UpperOf(dominant, opposing)
      gap(i) == dominant[i] - opposing[i]
  IN n > 0 /\
     CASE c.id \in DirectionIds -> DirectionPasses(s, c)
       [] c.id = "di_crossed_above" -> AdxEvent(n, c, 0, {i \in 1 .. n : CrossedAbove(dominant, opposing, i)})
       [] c.id = "di_already_above" -> AdxActive(n, c, {i \in 1 .. n : Side(dominant, opposing, i)})
       [] c.id = "di_near_cross" -> gap(n) < 0 /\ -gap(n) <= Given(c.distance, 10)
       [] c.id = "di_touched_bounced" -> Bounced(c, dominant, opposing)
       [] c.id = "di_separating" -> n > Back /\ gap(n) > Larger(0, gap(n - Back))
       [] c.id = "di_opposite_falling_away" -> n > Back /\ opposing[n] < opposing[n - Back]
       [] c.id = "adx_below_20" -> AdxAgainst("below", c, s.adx, level)
       [] c.id = "adx_near_20" -> AdxNear(s.adx, level, n, Given(c.distance, 10))
       [] c.id = "adx_crossed_above_20" -> AdxAgainst("crossed_above", c, s.adx, level)
       [] c.id = "adx_above_20" -> AdxAgainst("above", c, s.adx, level)
       [] c.id = "adx_above_25" -> AdxAgainst("above", c, s.adx, Constantly(Strong, n))
       [] c.id = "adx_above_40" -> AdxAgainst("above", c, s.adx, Constantly(Exhausted, n))
       [] c.id = "adx_against_dominant" -> AdxAgainst(c.word, c, s.adx, dominant)
       [] c.id = "adx_against_opposing" -> AdxAgainst(c.word, c, s.adx, opposing)
       [] c.id = "adx_below_both" -> AdxAgainst("below", c, s.adx, lower)
       [] c.id = "adx_above_both" -> AdxAgainst("above", c, s.adx, upper)
       [] c.id = "adx_crossed_above_both" -> AdxAgainst("crossed_above", c, s.adx, upper)
       [] c.id = "adx_between_both" ->
            AdxActive(n, c, {i \in 1 .. n : AdxBelow(lower, s.adx, i) /\ AdxBelow(s.adx, upper, i)})
       [] OTHER -> Background(c.id, c, dominant, opposing)

----------------------------------------------------------------------------
(* The two modes that take no side. *)

\* The narrowing of the gap is the work of the line whose own move, with the
\* other line held where it was, closes more of it.
Narrowed(s, n, mover, other) ==
  LET was == Distance(s.plus[n - Back], s.minus[n - Back])
      closed(line, still) == was - Distance(s[line][n], s[still][n - Back])
  IN /\ n > Back
     /\ Distance(s.plus[n], s.minus[n]) < was
     /\ closed(mover, other) > closed(other, mover)

Compression(c, s, threshold) ==
  LET n == Len(s.plus)
      level == Constantly(threshold, n)
  IN CASE c.id \in DirectionIds -> DirectionPasses(s, c)
       [] c.id = "di_close_together" -> AdxActive(n, c, {i \in 1 .. n : AdxNear(s.plus, s.minus, i, Given(c.distance, 10))})
       [] c.id = "di_touching" -> AdxActive(n, c, {i \in 1 .. n : AdxNear(s.plus, s.minus, i, Touching)})
       [] c.id = "di_pink_toward_blue" -> Narrowed(s, n, "plus", "minus")
       [] c.id = "di_blue_toward_pink" -> Narrowed(s, n, "minus", "plus")
       [] c.id = "adx_below_20" -> AdxAgainst("below", c, s.adx, level)
       [] c.id = "adx_turning_up" -> AdxEvent(n, c, 0, {i \in 1 .. n : LineDirection(s.adx, i) = "up"})
       [] c.id = "adx_close_to_20" -> AdxNear(s.adx, level, n, Given(c.distance, 10))
       [] OTHER -> AdxEvent(n, c, 0, {i \in 1 .. n : Flipped(s.plus, s.minus, i)})

Weak(c, s, threshold) ==
  LET n == Len(s.plus)
      level == Constantly(threshold, n)
      lower == LowerOf(s.plus, s.minus)
      toward(way) == DirectionPasses(s, [c EXCEPT !.id = "adx_direction", !.direction = way])
  IN CASE c.id \in DirectionIds -> DirectionPasses(s, c)
       [] c.id = "adx_below_20" -> AdxAgainst("below", c, s.adx, level)
       [] c.id = "adx_below_both_di" -> AdxAgainst("below", c, s.adx, lower)
       [] c.id = "adx_falling" -> toward("down")
       [] c.id = "adx_flat" -> toward("flat")
       [] c.id = "di_close_no_separation" ->
            AdxActive(n, c, {i \in 1 .. n : AdxNear(s.plus, s.minus, i, Given(c.distance, 10))})
       [] c.id = "bg_mixed_or_changing" ->
            Cardinality({i \in Recent(n, WeakBack) : Flipped(s.plus, s.minus, i)}) >= Flips
       [] c.id = "no_clean_di_cross" -> ~\E i \in Recent(n, WeakBack) : AdxCross(s.plus, s.minus, i)
       [] OTHER -> /\ ~AdxBelow(level, s.adx, n)
                   /\ ~\E i \in Recent(n, WeakBack) : CrossedAbove(s.adx, level, i)

----------------------------------------------------------------------------
(* A rule: a mode with its conditions, or one of the simple rules. *)

\* trend_state_series, in the words of the rules.
TrendState(s, i) ==
  LET v == s.plus[i] - s.minus[i]
  IN CASE v >= 190 -> "top" [] v >= 40 -> "up" [] v <= -190 -> "bottom" [] v <= -40 -> "down" [] OTHER -> "neutral"

Simple(s, rule) ==
  LET n == Len(s.plus)
      trend == Difference(s.plus, s.minus)
      level == Constantly(rule.threshold, n)
      recently(happens(_)) == \E i \in Recent(n, rule.window) : happens(i)
  IN n > 0 /\
     CASE rule.rule = "adx_above" -> AdxBelow(level, s.adx, n)
       [] rule.rule = "adx_below" -> AdxBelow(s.adx, level, n)
       [] rule.rule = "adx_rising" -> LineDirection(s.adx, n) = "up"
       [] rule.rule = "adx_falling" -> LineDirection(s.adx, n) = "down"
       [] rule.rule = "bullish" -> Side(s.plus, s.minus, n)
       [] rule.rule = "bearish" -> Side(s.minus, s.plus, n)
       [] rule.rule = "bullish_cross" -> recently(LAMBDA i : CrossedAbove(s.plus, s.minus, i))
       [] rule.rule = "bearish_cross" -> recently(LAMBDA i : CrossedAbove(s.minus, s.plus, i))
       [] rule.rule = "trend_strength_increasing" -> LineDirection(trend, n) = "up"
       [] rule.rule = "trend_strength_decreasing" -> LineDirection(trend, n) = "down"
       [] rule.rule = "bullish_trend" -> TrendState(s, n) \in {"up", "top"}
       [] rule.rule = "bearish_trend" -> TrendState(s, n) \in {"down", "bottom"}
       [] rule.rule = "strong_bullish_trend" -> TrendState(s, n) = "top"
       [] rule.rule = "strong_bearish_trend" -> TrendState(s, n) = "bottom"
       [] rule.rule = "compression" -> TrendState(s, n) = "neutral"
       [] OTHER -> recently(LAMBDA i : AdxCross(s.plus, s.minus, i))

AdxPasses(s, rule) ==
  IF rule.conditions = <<>> THEN rule.rule # Missing /\ Simple(s, rule)
  ELSE \A k \in DOMAIN rule.conditions :
         LET c == rule.conditions[k]
         IN CASE rule.mode = "bullish" -> Directional(c, s, s.plus, s.minus, rule.threshold)
              [] rule.mode = "bearish" -> Directional(c, s, s.minus, s.plus, rule.threshold)
              [] rule.mode = "compression" -> Compression(c, s, rule.threshold)
              [] rule.mode = "weak" -> Weak(c, s, rule.threshold)
              [] OTHER -> FALSE

\* _directional_final_label: the strength a sticker announces.
AdxSideLabel(s, dominant, opposing, threshold) ==
  LET n == Len(dominant)
      over(line) == AdxBelow(line, s.adx, n)
  IN CASE ~Known(s.adx, {n}) -> "early"
       [] s.adx[n] > Exhausted -> "exhaustion"
       [] s.adx[n] > Strong /\ over(dominant) /\ over(opposing) -> "strong"
       [] s.adx[n] > threshold /\ over(dominant) -> "confirmed"
       [] s.adx[n] >= threshold -> "building"
       [] OTHER -> "early"
AdxLabel(s, rule) ==
  LET n == Len(s.plus)
      ids == {rule.conditions[k].id : k \in DOMAIN rule.conditions}
      level == Constantly(rule.threshold, n)
  IN CASE rule.mode = "bullish" -> AdxSideLabel(s, s.plus, s.minus, rule.threshold)
       [] rule.mode = "bearish" -> AdxSideLabel(s, s.minus, s.plus, rule.threshold)
       [] rule.mode = "compression" ->
            CASE "di_pink_toward_blue" \in ids -> "bearish soon"
              [] "di_blue_toward_pink" \in ids -> "bullish soon"
              [] OTHER -> "watch"
       [] OTHER ->
            CASE AdxBelow(s.adx, level, n) /\ AdxBelow(s.adx, LowerOf(s.plus, s.minus), n) -> "avoid"
              [] ids \intersect {"no_clean_di_cross", "no_adx_confirmation"} # {} -> "no confirmation"
              [] OTHER -> "weak"
=============================================================================
