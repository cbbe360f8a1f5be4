---------------------------- MODULE ChannelRules ----------------------------
(***************************************************************************)
(* Rules about a channel line: the interactions (piercing, reclaim,        *)
(* rejection) with the candles that explain them, the rules of regression  *)
(* channels that hold for a window of candles, and channel respect.        *)
(*                                                                         *)
(* A line is a function from the candles it has a value at, the last of    *)
(* the chart, to its values.                                               *)
(***************************************************************************)
EXTENDS Candles

Interaction == {"piercing", "reclaimed", "rejected_from_above", "rejected_from_below"}

\* The line's value that a rule compares with, on the instrument's tick.
OnTick(v, tick, name) ==
  CASE tick = Missing -> v
    [] tick # Missing /\ name = "upper" -> ((v + tick - 1) \div tick) * tick
    [] tick # Missing /\ name = "lower" -> (v \div tick) * tick
    [] OTHER -> ((2 * v + tick) \div (2 * tick)) * tick

----------------------------------------------------------------------------
(* Interactions. *)

\* The run of closes below the line that ends just before candle i.
BelowBefore(cs, line, i) ==
  {j \in 1 .. i - 1 : \A k \in j .. i - 1 : k \in DOMAIN line /\ cs[k].close < line[k]}

ComesFrom(cs, line, i, below) ==
  /\ i > 1 /\ {i - 1, i} \subseteq DOMAIN line
  /\ IF below THEN cs[i - 1].close < line[i - 1] ELSE cs[i - 1].close > line[i - 1]

Crosses(c, v) == c.low <= v /\ v <= c.high

\* Fault: a reclaim is forgotten when a later candle closes below again.
ReclaimsHeld(cs, line, i, rule) ==
  /\ i > 1 /\ i \in DOMAIN line
  /\ \A j \in i .. Len(cs) : j \in DOMAIN line => cs[j].close > line[j]
  /\ Cardinality(BelowBefore(cs, line, i)) >= rule.minBelow

Reclaims(cs, line, i, rule) ==
  /\ i > 1 /\ i \in DOMAIN line /\ cs[i].close > line[i]
  /\ Cardinality(BelowBefore(cs, line, i)) >= rule.minBelow

\* _condition_matches
Happens(cs, line, i, rule) ==
  CASE rule.action = "piercing" ->
         /\ ComesFrom(cs, line, i, TRUE)
         /\ cs[i].open < line[i] /\ cs[i].low < line[i]
         /\ cs[i].high >= line[i] /\ cs[i].close > line[i]
    [] rule.action = "rejected_from_above" ->
         ComesFrom(cs, line, i, FALSE) /\ Crosses(cs[i], line[i]) /\ cs[i].close > line[i]
    [] rule.action = "rejected_from_below" ->
         ComesFrom(cs, line, i, TRUE) /\ Crosses(cs[i], line[i]) /\ cs[i].close < line[i]
    [] OTHER -> Reclaims(cs, line, i, rule)

LatestEvent(cs, line, rule) == Latest({i \in 1 .. Len(cs) : Happens(cs, line, i, rule)})

StillAbove(cs, line) == Len(cs) \in DOMAIN line /\ cs[Len(cs)].close > line[Len(cs)]

\* evaluate_channel_interaction: the latest event alone decides, also when an
\* older one would be in range.
Interacts(cs, line, rule) ==
  LET event == LatestEvent(cs, line, rule)
      reclaim == rule.action = "reclaimed"
  IN /\ cs # <<>>
     /\ reclaim /\ rule.stillAbove => StillAbove(cs, line)
     /\ reclaim /\ event # Missing =>
          CountInRange(Cardinality(BelowBefore(cs, line, event)), rule.belowMin, rule.belowMax)
     /\ AgeInRange(event, Len(cs), rule.ageMin, rule.ageMax)

\* channel_interaction_stages: the candles that make up the event, each with
\* what it is said to show.
Stages(cs, line, rule) ==
  LET event == LatestEvent(cs, line, rule)
      stage(i, what) == <<i, what>>
  IN CASE event = Missing -> {}
       [] event # Missing /\ rule.action = "reclaimed" ->
            {stage(i, "closed_below") : i \in BelowBefore(cs, line, event)}
            \cup {stage(event, "reclaim_close_above")}
            \cup (IF event # Len(cs) THEN {stage(Len(cs), "still_above_now")} ELSE {})
       [] event # Missing /\ rule.action = "rejected_from_above" ->
            {stage(event - 1, "came_from_above"), stage(event, "rejected_close_above")}
       [] event # Missing /\ rule.action = "rejected_from_below" ->
            {stage(event - 1, "came_from_below"), stage(event, "rejected_close_below")}
       [] OTHER -> {stage(event - 1, "closed_below"), stage(event, "pierced_close_above")}

----------------------------------------------------------------------------
(* Rules of a regression channel's lines. *)

\* evaluate_line_rule, on a band of hundredths.
LineRule(c, lo, hi, rule) ==
  CASE rule.action = "touch" -> Touches(c, lo, hi, rule.touch, "any")
    [] rule.action = "close_above" -> 100 * c.close > hi
    [] rule.action = "close_below" -> 100 * c.close < lo
    [] rule.action = "stay_above" -> 100 * c.low > lo
    [] rule.action = "stay_below" -> 100 * c.high < hi

LineRuleAt(cs, line, i, rule, name) ==
  /\ i \in DOMAIN line
  /\ LET v == OnTick(line[i], rule.tick, name)
     IN LineRule(cs[i], v * (100 - rule.tolerance), v * (100 + rule.tolerance), rule)

\* The first candle of the run of candles up to the latest that obey a rule.
RunStart(n, holding) ==
  IF n \notin holding THEN Missing
  ELSE CHOOSE i \in 1 .. n : i .. n \subseteq holding /\ i - 1 \notin holding

\* The run began exactly "window" candles ago, and its first candle confirms.
HoldsForWindow(cs, line, rule, name) ==
  LET start == RunStart(Len(cs), {i \in DOMAIN cs : LineRuleAt(cs, line, i, rule, name)})
  IN /\ start # Missing
     /\ Len(cs) - start + 1 = rule.window
     /\ Confirmed(cs, start, rule.confirm)

\* evaluate_regression_lines: "names" are the selected lines; one that the
\* channel lacks, or that does not hold, ends it; interactions are counted.
RegressionPasses(cs, channel, names, rule) ==
  LET target(name) == [i \in DOMAIN channel[name] |-> OnTick(channel[name][i], rule.tick, name)]
  IN /\ names # <<>>
     /\ \A k \in DOMAIN names : names[k] \in DOMAIN channel
     /\ IF rule.action \in Interaction
        THEN ModePasses([k \in DOMAIN names |-> Interacts(cs, target(names[k]), rule)], rule.mode)
        ELSE /\ \A k \in DOMAIN names : HoldsForWindow(cs, channel[names[k]], rule, names[k])
             /\ ModePasses([k \in DOMAIN names |-> TRUE], rule.mode)

----------------------------------------------------------------------------
(* Channel respect. *)

RespectTouch(c, v, pct, touch) == Touches(c, v * (100 - pct), v * (100 + pct), touch, "any")

\* Twice the tolerance away, or a thousandth of the price: by its close, its
\* open, or its middle.
Separated(c, v, pct, touch) ==
  LET far(twice) == 500 * Distance(twice, 2 * v) >= Larger(20 * v * pct, Larger(v, 1))
  IN /\ ~RespectTouch(c, v, pct, touch)
     /\ far(2 * c.close) \/ far(2 * c.open) \/ far(c.high + c.low)

ClusterGap(gap) == Smaller(5, Larger(3, gap))

\* Fault: the gap is measured from the last touch that was counted.
RespectScanCounted(cs, line, rule) ==
  LET scan[i \in 0 .. Len(cs)] ==
        IF i = 0 THEN [last |-> Missing, away |-> FALSE, respects |-> {}]
        ELSE LET s == scan[i - 1]
                 distinct == s.last = Missing \/ (i - s.last > ClusterGap(rule.gap) /\ s.away)
             IN IF i \in DOMAIN line /\ RespectTouch(cs[i], line[i], rule.pct, rule.touch)
                THEN IF distinct THEN [last |-> i, away |-> FALSE, respects |-> s.respects \cup {i}] ELSE s
                ELSE [s EXCEPT !.away = @ \/ (/\ s.last # Missing /\ i \in DOMAIN line
                                              /\ Separated(cs[i], line[i], rule.pct, rule.touch))]
  IN scan[Len(cs)]

\* _respect_evidence_for_line: the scan keeps the last touch, and whether a
\* candle was away from the line since.
RespectScan(cs, line, rule) ==
  LET scan[i \in 0 .. Len(cs)] ==
        IF i = 0 THEN [last |-> Missing, away |-> FALSE, respects |-> {}]
        ELSE LET s == scan[i - 1]
                 distinct == s.last = Missing \/ (i - s.last > ClusterGap(rule.gap) /\ s.away)
             IN CASE i \notin DOMAIN line -> s
                  [] i \in DOMAIN line /\ RespectTouch(cs[i], line[i], rule.pct, rule.touch) ->
                       [last |-> i, away |-> FALSE,
                        respects |-> s.respects \cup (IF distinct THEN {i} ELSE {})]
                  [] OTHER -> [s EXCEPT !.away = @ \/ (/\ s.last # Missing
                                                      /\ Separated(cs[i], line[i], rule.pct, rule.touch))]
  IN scan[Len(cs)]

\* The lines a filter's "line" names.
RespectLines(which) ==
  CASE which \in {"upper", "lower"} -> {which}
    [] which = "both" -> {"upper", "lower"}
    [] which = "upper_middle" -> {"upper", "middle"}
    [] which = "lower_middle" -> {"lower", "middle"}
    [] which = "all" -> {"upper", "middle", "lower"}
    [] OTHER -> {"middle"}

\* count_respects: one candle counts once for each line it respects.
Respects(cs, channel, rule) ==
  UNION {{<<name, i>> : i \in RespectScan(cs, channel[name], rule).respects} :
           name \in RespectLines(rule.line) \cap DOMAIN channel}
=============================================================================
