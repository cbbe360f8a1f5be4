------------------------------- MODULE WaveRules -------------------------------
(***************************************************************************)
(* The rules of WaveTrend, in its two modes, and of VLR.                   *)
(*                                                                         *)
(* WaveTrend has the lines w.wt1 and w.wt2.  A rule is a record; of the    *)
(* spellings of an option one is kept.  VLR has the three lines r[1], r[2] *)
(* and r[3] (red, green and blue), whose candles are those of the chart.   *)
(***************************************************************************)
EXTENDS VolumeRules

AllOrAny(logic, S, holds(_)) ==
  IF logic = "any" THEN \E x \in S : holds(x) ELSE \A x \in S : holds(x)

----------------------------------------------------------------------------
(* WaveTrend, custom mode. *)

CustomZone(v, zone, tolerance, threshold) ==
  zone # Missing =>
    /\ v # Missing
    /\ CASE zone = "oversold" -> v <= tolerance - threshold
         [] zone = "neutral" -> -threshold - tolerance <= v /\ v <= threshold + tolerance
         [] zone = "overbought" -> v >= threshold - tolerance
         [] OTHER -> FALSE
CustomDirection(w, i, direction) ==
  CASE direction \in {"rising", "falling", "turning_up", "turning_down"} -> Direction(w.wt1, i, direction)
    [] direction = "crossed_up" -> CrossedAbove(w.wt1, w.wt2, i)
    [] direction = "crossed_down" -> CrossedBelow(w.wt1, w.wt2, i)
    [] OTHER -> FALSE
CustomMatches(w, i, rule) ==
  CustomZone(w.wt1[i], rule.zone, rule.tolerance, rule.threshold) /\ CustomDirection(w, i, rule.direction)

----------------------------------------------------------------------------
(* WaveTrend, LazyBear mode: the options are resolved to one condition. *)

FromOversold == {"oversold_watch", "oversold_cross_up", "turning_up_from_oversold"}
FromOverbought == {"overbought_watch", "overbought_cross_down", "turning_down_from_overbought"}
OversoldZones == {"oversold", "oversold_level_1", "oversold_level_2"}
OverboughtZones == {"overbought", "overbought_level_1", "overbought_level_2"}

ZoneFor(rule, condition) ==
  CASE rule.zone # Missing -> rule.zone
    [] rule.zone = Missing /\ condition \in FromOversold ->
         IF rule.outer THEN "oversold_level_1" ELSE "oversold"
    [] rule.zone = Missing /\ condition \in FromOverbought ->
         IF rule.outer THEN "overbought_level_1" ELSE "overbought"
    [] OTHER -> "any"

\* A zone narrows a condition of its own side only.
WithZone(rule, condition) ==
  LET zone == ZoneFor(rule, condition)
  IN CASE zone \in OversoldZones /\ condition = "cross_up" -> "oversold_cross_up"
       [] zone \in OversoldZones /\ condition = "turning_up" -> "turning_up_from_oversold"
       [] zone \in OverboughtZones /\ condition = "cross_down" -> "overbought_cross_down"
       [] zone \in OverboughtZones /\ condition = "turning_down" -> "turning_down_from_overbought"
       [] OTHER -> condition
ZoneWatch(rule) ==
  LET zone == ZoneFor(rule, "zone_only")
  IN IF zone \in OversoldZones THEN "oversold_watch"
     ELSE IF zone \in OverboughtZones THEN "overbought_watch" ELSE "zone_only"

\* The "direction" of the custom mode, read as a cross.
LegacyDirection(direction) ==
  CASE direction \in {"turning_up", "crossed_up"} -> "cross_up"
    [] direction \in {"turning_down", "crossed_down"} -> "cross_down"
    [] direction \in {"rising", "falling"} -> "cross_any"
    [] OTHER -> direction

Resolved(rule) ==
  CASE rule.condition = "zone_only" -> ZoneWatch(rule)
    [] rule.condition \notin {"zone_only", Missing} -> WithZone(rule, rule.condition)
    [] rule.condition = Missing /\ rule.direction # Missing -> WithZone(rule, LegacyDirection(rule.direction))
    [] OTHER -> WithZone(rule, "cross_any")

\* A condition is a set of clauses; a clause without a zone takes the rule's.
ZoneClause(line) == [type |-> "zone", line |-> line, zone |-> Missing]
CrossClause(direction) == [type |-> "cross", direction |-> direction]
DirectionClause(direction) == [type |-> "direction", line |-> "wt1", direction |-> direction]
Builtin(condition) ==
  CASE condition \in {"zone_only", "oversold_watch", "overbought_watch"} -> {ZoneClause("wt1")}
    [] condition = "cross_any" -> {CrossClause("any")}
    [] condition = "cross_up" -> {CrossClause("up")}
    [] condition = "cross_down" -> {CrossClause("down")}
    [] condition = "oversold_cross_up" -> {CrossClause("up"), ZoneClause("wt2")}
    [] condition = "overbought_cross_down" -> {CrossClause("down"), ZoneClause("wt2")}
    [] condition \in {"rising", "falling", "turning_up", "turning_down"} -> {DirectionClause(condition)}
    [] condition = "turning_up_from_oversold" -> {DirectionClause("turning_up"), ZoneClause("wt1")}
    [] condition = "turning_down_from_overbought" -> {DirectionClause("turning_down"), ZoneClause("wt1")}
    [] OTHER -> {}

InZone(v, zone, tolerance) ==
  zone # "any" =>
    /\ v # Missing
    /\ CASE zone \in {"oversold", "oversold_level_2"} -> v <= -53 + tolerance
         [] zone = "oversold_level_1" -> v <= -60 + tolerance
         [] zone \in {"overbought", "overbought_level_2"} -> v >= 53 - tolerance
         [] zone = "overbought_level_1" -> v >= 60 - tolerance
         [] zone = "neutral" -> -53 - tolerance <= v /\ v <= 53 + tolerance
         [] OTHER -> FALSE

WaveLine(w, name) ==
  CASE name = "wt1" -> w.wt1 [] name = "wt2" -> w.wt2 [] OTHER -> Difference(w.wt1, w.wt2)

\* Fault: a bullish cross may begin above the signal line.
WaveCrossStays(w, i, direction) ==
  \/ direction # "down" /\ Known(w.wt1, {i}) /\ Known(w.wt2, {i}) /\ w.wt1[i] > w.wt2[i]
  \/ direction # "up" /\ CrossedBelow(w.wt1, w.wt2, i)

WaveCross(w, i, direction) ==
  \/ direction # "down" /\ CrossedAbove(w.wt1, w.wt2, i)
  \/ direction # "up" /\ CrossedBelow(w.wt1, w.wt2, i)

WaveClause(w, i, rule, clause, parent) ==
  CASE clause.type = "zone" ->
         InZone(WaveLine(w, clause.line)[i],
                IF clause.zone # Missing THEN clause.zone ELSE ZoneFor(rule, parent), rule.tolerance)
    [] clause.type = "cross" -> WaveCross(w, i, clause.direction)
    [] clause.type = "direction" -> Direction(WaveLine(w, clause.line), i, clause.direction)
    [] clause.type = "compare" ->
         Compares(WaveLine(w, clause.left)[i], clause.op, WaveLine(w, clause.right)[i], clause.tolerance)
    [] OTHER -> FALSE

\* A clause may also name one of the conditions.
WaveNamed(w, i, rule, clause, parent) ==
  IF clause.type # "named" THEN WaveClause(w, i, rule, clause, parent)
  ELSE /\ Builtin(clause.name) # {}
       /\ \A inner \in Builtin(clause.name) : WaveClause(w, i, rule, inner, clause.name)

LazyMatches(w, i, rule) ==
  LET condition == Resolved(rule)
      clauses == IF rule.clauses # {} THEN rule.clauses ELSE Builtin(condition)
      logic == IF rule.clauses # {} THEN rule.logic ELSE "all"
  IN clauses # {} /\ AllOrAny(logic, clauses, LAMBDA c : WaveNamed(w, i, rule, c, condition))

\* Without a mode a rule is read as LazyBear's.
UsesLazyBear(rule) == rule.mode \in {Missing, "lazybear"}
WaveMatches(w, i, rule) == IF UsesLazyBear(rule) THEN LazyMatches(w, i, rule) ELSE CustomMatches(w, i, rule)
WavePasses(cs, w, rule) == Signal(cs, Len(w.wt1), rule, LAMBDA i : WaveMatches(w, i, rule))
WaveShown(w, rule) == ShownAt(Len(w.wt1), rule, LAMBDA i : WaveMatches(w, i, rule))
\* What the sticker of a LazyBear rule says of the candle it shows.
WaveSays(w, rule) ==
  LET i == WaveShown(w, rule)
  IN CASE CrossedAbove(w.wt1, w.wt2, i) -> "bullish"
       [] CrossedBelow(w.wt1, w.wt2, i) -> "bearish"
       [] OTHER -> "none"

----------------------------------------------------------------------------
(* VLR, events of one candle. *)

Red(r) == r[1]
LineAt(r, line, i) == IF line \in DOMAIN r THEN r[line][i] ELSE Missing

Reversal(r, i, type, direction) ==
  LET turn(side, exact) ==
        LET v == side * Red(r)[i - 1]
        IN /\ Known(Red(r), {i - 1})
           /\ IF exact THEN 80 <= v /\ v <= 100 ELSE 70 <= v /\ v < 80
           /\ Direction(Red(r), i, IF side = 1 THEN "turning_down" ELSE "turning_up")
  IN \E side \in {1, -1}, exact \in BOOLEAN :
       /\ direction \in {IF side = 1 THEN "bullish" ELSE "bearish", "both"}
       /\ type \in {IF exact THEN "exact" ELSE "early", "both"}
       /\ turn(side, exact)

LineZone(v, zone, tolerance) ==
  /\ v # Missing
  /\ CASE zone = "positive_extreme" -> v >= 80 - tolerance
       [] zone = "positive_early" -> 70 - tolerance <= v /\ v < 80 + tolerance
       [] zone = "negative_extreme" -> v <= -80 + tolerance
       [] zone = "negative_early" -> -80 - tolerance < v /\ v <= -70 + tolerance
       [] zone = "positive" -> v > -tolerance
       [] zone = "negative" -> v < tolerance
       [] zone = "neutral" -> Absolute(v) <= tolerance
       [] OTHER -> FALSE

\* A bullish order has each line above the next.
LineOrder(r, i, direction, tolerance) ==
  \A k \in 1 .. 2 : Compares(LineAt(r, k, i), IF direction = "bullish" THEN "above" ELSE "below",
                            LineAt(r, k + 1, i), tolerance)

Below(r, i, K) == \A k \in K : Known(r[k], {i}) /\ Known(Red(r), {i}) /\ Red(r)[i] < r[k][i]
Above(r, i, K) == \A k \in K : Known(r[k], {i}) /\ Known(Red(r), {i}) /\ Red(r)[i] > r[k][i]

\* A crossing that the confirmation can ask for.
Crossing(r, pair, i) ==
  CASE pair = "red_below_green" -> Len(r) > 1 /\ CrossedBelow(r[1], r[2], i)
    [] pair = "red_above_green" -> Len(r) > 1 /\ CrossedAbove(r[1], r[2], i)
    [] pair = "red_below_blue" -> Len(r) > 2 /\ CrossedBelow(r[1], r[3], i)
    [] pair = "red_above_blue" -> Len(r) > 2 /\ CrossedAbove(r[1], r[3], i)
    [] pair = "green_below_blue" -> Len(r) > 2 /\ CrossedBelow(r[2], r[3], i)
    [] pair = "green_above_blue" -> Len(r) > 2 /\ CrossedAbove(r[2], r[3], i)
    [] pair = "red_below_both" -> Len(r) > 2 /\ Below(r, i, {2, 3}) /\ ~Below(r, i - 1, {2, 3})
    [] pair = "red_above_both" -> Len(r) > 2 /\ Above(r, i, {2, 3}) /\ ~Above(r, i - 1, {2, 3})
    [] OTHER -> FALSE

----------------------------------------------------------------------------
(* VLR, conditions: a clause has to match at one candle of its window. *)

LineClause(r, i, c) ==
  CASE c.type = "reversal" -> Reversal(r, i, c.kind, c.direction)
    [] c.type = "zone" -> LineZone(LineAt(r, c.line, i), c.zone, c.tolerance)
    [] c.type = "order" -> LineOrder(r, i, c.direction, c.tolerance)
    [] c.type = "compare" -> Compares(LineAt(r, c.line, i), c.op, LineAt(r, c.right, i), c.tolerance)
    [] c.type = "direction" -> c.line \in DOMAIN r /\ Direction(r[c.line], i, c.direction)
    [] c.type = "cross" -> Crossing(r, c.pair, i)
    [] OTHER -> FALSE

InLine(line, zone) == [type |-> "zone", line |-> line, zone |-> zone, tolerance |-> 0]
InOrder(direction) == [type |-> "order", direction |-> direction, tolerance |-> 0]
Named(name) == [type |-> "preset", name |-> name]
Preset(name) ==
  CASE name = "bullish_extreme" ->
         {InLine(1, "positive_extreme"), InLine(2, "positive_extreme"), InLine(3, "positive")}
    [] name = "bearish_extreme" ->
         {InLine(1, "negative_extreme"), InLine(2, "negative_extreme"), InLine(3, "negative")}
    [] name = "extreme_watch" -> {Named("bullish_extreme"), Named("bearish_extreme")}
    [] name = "bullish_order" -> {InOrder("bullish")}
    [] name = "bearish_order" -> {InOrder("bearish")}
    [] name = "order_watch" -> {Named("bullish_order"), Named("bearish_order")}
    [] name = "legacy_reversal" -> {[type |-> "reversal", kind |-> "both", direction |-> "both"]}
    [] OTHER -> {}
PresetLogic(name) == IF name \in {"extreme_watch", "order_watch"} THEN "any" ELSE "all"

\* The clauses of a preset that is named by a clause hold at one candle.
PresetOrClause(r, i, c) ==
  LET plain(d) == IF d.type # "preset" THEN LineClause(r, i, d)
                  ELSE \A e \in Preset(d.name) : LineClause(r, i, e)
  IN IF c.type # "preset" THEN LineClause(r, i, c)
     ELSE Preset(c.name) # {} /\ AllOrAny(PresetLogic(c.name), Preset(c.name), plain)

VlrRecent(n, window) == Recent(n, window) \ {1}
WindowOf(c, default) == IF "window" \in DOMAIN c THEN c.window ELSE default
Happened(r, n, window, c) ==
  \E i \in VlrRecent(n, WindowOf(c, window)) : PresetOrClause(r, i, c)

\* A condition is a clause, or a group of clauses with a window of its own.
Condition(r, n, window, c) ==
  LET inner(d) == Happened(r, n, WindowOf(c, window), d)
  IN CASE c.type # "group" -> Happened(r, n, window, c)
       [] c.type = "group" /\ c.logic = "not" -> ~\E d \in c.rules : inner(d)
       [] OTHER -> AllOrAny(c.logic, c.rules, inner)

\* The conditions of a rule, those of its preset, or else a reversal of Red.
SetUp(r, n, rule) ==
  LET preset == Preset(rule.preset)
      conditions == IF rule.conditions # {} THEN rule.conditions ELSE preset
      logic == IF preset # {} /\ rule.logic = Missing THEN PresetLogic(rule.preset)
               ELSE IF rule.logic = "any" THEN "any" ELSE "all"
  IN IF conditions # {} THEN AllOrAny(logic, conditions, LAMBDA c : Condition(r, n, rule.window, c))
     ELSE \E i \in VlrRecent(n, rule.window) : Reversal(r, i, rule.kind, rule.direction)

----------------------------------------------------------------------------
(* VLR, confirmations. *)

BullishPairs == {"red_below_green", "red_below_blue", "green_below_blue"}
BearishPairs == {"red_above_green", "red_above_blue", "green_above_blue"}
PairCrossed(r, pair, n, window) == \E i \in VlrRecent(n, window) : Crossing(r, pair, i)
Selected(r, choice, n, window) ==
  LET several(pairs) == Cardinality({p \in pairs : PairCrossed(r, p, n, window)}) >= 2
  IN CASE choice = "multiple_bullish" -> several(BullishPairs)
       [] choice = "multiple_bearish" -> several(BearishPairs)
       [] OTHER -> PairCrossed(r, choice, n, window)

\* The first candle of the window at which a line crosses zero.
ZeroCross(s, direction, n, window) ==
  LET zero == Constantly(0, n)
      crosses == {i \in VlrRecent(n, window) :
                    IF direction = "bullish" THEN CrossedBelow(s, zero, i) ELSE CrossedAbove(s, zero, i)}
  IN IF crosses = {} THEN Missing ELSE First(crosses, LAMBDA i, j : i < j)

Sequence(r, sequence, direction, n, window) ==
  LET at(k) == ZeroCross(r[k], direction, n, window)
      first(k) == at(k) # Missing /\ \A l \in 1 .. 3 : at(l) # Missing => at(k) <= at(l)
  IN Len(r) >= 3 =>
       CASE sequence = "red_first" -> first(1)
         [] sequence = "green_first" -> first(2)
         [] sequence = "blue_first" -> first(3)
         [] sequence = "sequential" -> (\A k \in 1 .. 3 : at(k) # Missing) /\ at(1) <= at(2) /\ at(2) <= at(3)
         [] OTHER -> TRUE

CrossingsConfirm(r, n, rule) ==
  LET bullish == IF rule.direction = "bearish" THEN {} ELSE rule.bullishCrossings
      bearish == IF rule.direction = "bullish" THEN {} ELSE rule.bearishCrossings
      chosen == bullish \cup bearish
      matched == Cardinality({c \in chosen : Selected(r, c, n, rule.window)})
      direction == IF rule.direction # "both" THEN rule.direction
                   ELSE IF bullish # {} THEN "bullish" ELSE "bearish"
  IN chosen # {} =>
       /\ CASE rule.requirement = "at_least_2" -> matched >= 2
            [] rule.requirement = "all_selected" -> matched = Cardinality(chosen)
            [] OTHER -> matched >= 1
       /\ Sequence(r, rule.sequence, direction, n, rule.window)

PatternsConfirm(cs, n, rule) ==
  LET allowed == CASE rule.direction = "bullish" -> rule.patterns \cap {"bullish_engulfing", "hammer", "morning_star"}
                   [] rule.direction = "bearish" -> rule.patterns \cap {"bearish_engulfing", "shooting_star", "evening_star"}
                   [] OTHER -> rule.patterns
  IN \E i \in Recent(n, rule.window) : allowed \cap Patterns(cs, i) # {}

VlrPasses(cs, r, rule) ==
  LET n == Len(cs)
  IN /\ n > 0 /\ SetUp(r, n, rule)
     /\ rule.confirmCrossings => CrossingsConfirm(r, n, rule)
     /\ rule.confirmVolume # Missing => VolumeConfirms(cs, rule.window, rule.volumeLength, rule.confirmVolume)
     /\ rule.confirmPatterns => PatternsConfirm(cs, n, rule)
=============================================================================
