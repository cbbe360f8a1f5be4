---------------------------- MODULE TrendChannels ----------------------------
(***************************************************************************)
(* The trend channel of an asset.  A scan replays the whole chart bar by   *)
(* bar: pivots are confirmed some bars late, two pivots of one kind open a *)
(* channel, a bar wholly outside closes it, and at the end one channel is  *)
(* shown, which rules about its lines and zones are evaluated on.          *)
(*                                                                         *)
(* A step of this module is one iteration of the replay: one more bar of   *)
(* the chart.  That makes the replay of a chart the replay of the chart    *)
(* less its last bar and one step, as long as the average true range of a  *)
(* bar does not depend on later bars.  It does for the first ten bars of a *)
(* longer chart, which share the average of the ten, so it matters only to *)
(* a channel that is created by then.  A channel needs 3 * Span + 2 bars   *)
(* (OpensLate): from Span 3 on charts are of any length, and with Span 2   *)
(* MaxBars keeps them to ten bars.                                         *)
(*                                                                         *)
(* A channel's lines are fractions of a price.  They are kept as whole     *)
(* multiples of 1/Unit(channel), which is what Scaled turns a candle into  *)
(* as well.  The prices of pivots are taken as they are: an instrument     *)
(* whose tick is not known has no rounding.                                *)
(***************************************************************************)
EXTENDS ChannelRules

CONSTANTS
  Shapes,         \* the candles a bar can be
  Span,           \* bars on either side that make a pivot
  AreaRules,      \* the rules that are asked of the channel shown
  Axis,           \* twice the price that charts are mirrored at
  MaxBars         \* bound on the chart

ASSUME SpanAssumption == Span \in Nat /\ Span >= 2
ASSUME BoundAssumption == MaxBars \in Nat \ {0} /\ (Span = 2 => MaxBars <= 10)

VARIABLES
  wait,          \* setting: no channel while one of the other direction is open
  keep,          \* setting: a broken channel is shown until a newer one
  bars,          \* the chart
  highs, lows,   \* the last two pivots of a kind, [index, price], the older first
  average,       \* the average true range at the last bar, the fraction sum / of
  open,          \* the open channel of a direction, or Missing
  last           \* the channel created or broken last, or Missing

vars == <<wait, keep, bars, highs, lows, average, open, last>>

Directions == {"down", "up"}

----------------------------------------------------------------------------
(* Pivots. *)

\* Higher than the bars before it, no lower than those after it.
PivotHigh(cs, i) ==
  /\ \A j \in i - Span .. i - 1 : cs[i].high > cs[j].high
  /\ \A j \in i + 1 .. i + Span : cs[i].high >= cs[j].high
PivotLow(cs, i) ==
  /\ \A j \in i - Span .. i - 1 : cs[i].low < cs[j].low
  /\ \A j \in i + 1 .. i + Span : cs[i].low <= cs[j].low

\* The pivot that the last bar of a chart confirms is added to those known.
Confirming(cs, known, isPivot, price) ==
  IF Len(cs) > 2 * Span /\ isPivot
  THEN (IF known = <<>> THEN known ELSE <<known[Len(known)]>>)
       \o <<[index |-> Len(cs) - Span, price |-> price]>>
  ELSE known
ConfirmedHighs(cs, known) ==
  LET i == Len(cs) - Span
  IN Confirming(cs, known, i > Span /\ PivotHigh(cs, i), IF i > 0 THEN cs[i].high ELSE 0)
ConfirmedLows(cs, known) ==
  LET i == Len(cs) - Span
  IN Confirming(cs, known, i > Span /\ PivotLow(cs, i), IF i > 0 THEN cs[i].low ELSE 0)

----------------------------------------------------------------------------
(* The average true range.                                                 *)

TrueRange(cs, i) ==
  LET c == cs[i]
      p == cs[i - 1].close
  IN IF i = 1 THEN Height(c)
     ELSE Larger(Height(c), Larger(Distance(c.high, p), Distance(c.low, p)))

\* _wilder_atr at the last bar of a chart, from the average at the bar before: the
\* mean of the first ten, then nine parts of the last average and one of the new
\* range.
Averaged(cs, before) ==
  LET n == Len(cs)
      range == TrueRange(cs, n)
  IN IF n <= 10 THEN [sum |-> before.sum + range, of |-> n]
     ELSE [sum |-> 9 * before.sum + before.of * range, of |-> 10 * before.of]

----------------------------------------------------------------------------
(* A channel: two pivots, the bar it was created at, the average true range *)
(* at that bar as a fraction, the bar its second end was advanced to, how   *)
(* often that was, and the bar and direction of its break.                  *)

Pivot == [index : 1 .. MaxBars, price : Nat]
Channel == [direction : Directions, first : Pivot, second : Pivot, created : 1 .. MaxBars,
            ranges : Nat, of : Nat \ {0}, end : 1 .. MaxBars, advances : 0 .. MaxBars,
            brokenAt : {Missing} \cup 1 .. MaxBars, broke : {Missing, "up", "down"}]

ASSUME MissingAssumption == Missing \notin Nat \cup Directions \cup Channel
ASSUME ShapesAssumption ==
  \A c \in Shapes : {c.open, c.high, c.low, c.close} \subseteq Nat
ASSUME CandlesAssumption ==
  \A c \in Shapes : {"open", "high", "low", "close"} \subseteq DOMAIN c /\ c.low <= c.high

\* What a rule about an area is asked with.
ASSUME AreaRulesAssumption ==
  \A r \in AreaRules :
    {"area", "action", "touch", "breach", "window", "tolerance", "confirm", "ageMin", "ageMax"} \subseteq DOMAIN r
ASSUME AxisAssumption == Axis \in Int

\* _build_channel_state
Opened(cs, atr, direction, pivots) ==
  [direction |-> direction, first |-> pivots[1], second |-> pivots[2],
   created |-> Len(cs), ranges |-> atr.sum, of |-> atr.of,
   end |-> pivots[2].index, advances |-> 0, brokenAt |-> Missing, broke |-> Missing]

\* Six times the average true range between the lines, a seventh of it on
\* either side for the zones; D is what whole prices are multiplied by before
\* they are interpolated.
PivotSpan(ch) == ch.second.index - ch.first.index
D(ch) == 14 * ch.of * PivotSpan(ch)
Zone(ch) == 12 * ch.ranges * PivotSpan(ch)
Width(ch) == 7 * Zone(ch)
Step(ch) == 14 * ch.of * (ch.second.price - ch.first.price)

LineName == {"top", "middle", "bottom", "top_zone_lower", "bottom_zone_upper",
             "middle_zone_lower", "middle_zone_upper"}

\* Fault: the zone at the bottom lies on the other side of its line.
OffsetOutside(ch, name) ==
  LET w == Width(ch)
      z == Zone(ch)
      lift == IF ch.direction = "down" THEN 0 ELSE w
  IN CASE name = "top" -> lift + z
       [] name = "top_zone_lower" -> lift - z
       [] name = "middle" -> lift - w \div 2
       [] name = "middle_zone_upper" -> lift - w \div 2 + z
       [] name = "middle_zone_lower" -> lift - w \div 2 - z
       [] name \in {"bottom", "bottom_zone_upper"} -> lift - w - z

\* How far a line is from the one through the pivots.
Offset(ch, name) ==
  LET w == Width(ch)
      z == Zone(ch)
      down == ch.direction = "down"
      lift == IF down THEN 0 ELSE w
  IN CASE name = "top" -> lift + z
       [] name = "top_zone_lower" -> lift - z
       [] name = "middle" -> lift - w \div 2
       [] name = "middle_zone_upper" -> lift - w \div 2 + z
       [] name = "middle_zone_lower" -> lift - w \div 2 - z
       [] name = "bottom_zone_upper" -> lift - w + z
       [] name = "bottom" -> lift - w - z

\* The second end moves by one step of the slope each bar, from the second
\* pivot's price, though the first move takes it to the bar of the creation.
EndPrice(ch) == ch.second.price * D(ch) + ch.advances * Step(ch)
Advanced(ch, n) == [ch EXCEPT !.end = n, !.advances = @ + 1]

\* Between the ends, and beyond the second, the line is straight.
Unit(ch) == D(ch) * (ch.end - ch.first.index)
LineValue(ch, name, i) ==
  (ch.first.price * D(ch) + Offset(ch, name)) * (ch.end - ch.first.index)
  + (EndPrice(ch) - ch.first.price * D(ch)) * (i - ch.first.index)

Scaled(c, unit) == [c EXCEPT !.open = @ * unit, !.high = @ * unit,
                             !.low = @ * unit, !.close = @ * unit]

\* Fault: a close outside breaks it, whatever the bar's other end.
BreakOfClose(ch, c) ==
  CASE c.close * D(ch) > EndPrice(ch) + Offset(ch, "top") -> "up"
    [] c.close * D(ch) < EndPrice(ch) + Offset(ch, "bottom") -> "down"
    [] OTHER -> Missing

\* _check_channel_break: a bar wholly outside, at the second end.
BreakOf(ch, c) ==
  CASE c.low * D(ch) > EndPrice(ch) + Offset(ch, "top") -> "up"
    [] c.high * D(ch) < EndPrice(ch) + Offset(ch, "bottom") -> "down"
    [] OTHER -> Missing

Broken(ch, n, how) == [ch EXCEPT !.brokenAt = n, !.broke = how]

----------------------------------------------------------------------------
(* The replay. *)

Init ==
  /\ wait \in BOOLEAN /\ keep \in BOOLEAN
  /\ bars = <<>> /\ highs = <<>> /\ lows = <<>>
  /\ average = [sum |-> 0, of |-> 1]
  /\ open = [d \in Directions |-> Missing]
  /\ last = Missing

\* Fault: the setting is not looked at.
OpensBesides(direction, known, confirmed, others) ==
  /\ confirmed # known /\ Len(confirmed) = 2 /\ others[direction] = Missing
  /\ IF direction = "down" THEN confirmed[2].price <= confirmed[1].price
                           ELSE confirmed[2].price >= confirmed[1].price

\* Two pivots of a kind, the second of them just confirmed, that slope the
\* channel's way open it.
Opens(direction, known, confirmed, others) ==
  /\ confirmed # known /\ Len(confirmed) = 2
  /\ others[direction] = Missing
  /\ wait => \A d \in Directions : others[d] = Missing
  /\ IF direction = "down" THEN confirmed[2].price <= confirmed[1].price
                           ELSE confirmed[2].price >= confirmed[1].price

\* One that opens is the last, and without keep ends the other.  A chart whose
\* price never moved has no range, and no channel.
Opening(cs, atr, direction, known, confirmed, s) ==
  LET ch == Opened(cs, atr, direction, confirmed)
      other == CHOOSE d \in Directions : d # direction
  IN IF Opens(direction, known, confirmed, s.open) /\ atr.sum > 0
     THEN [open |-> [s.open EXCEPT ![direction] = ch,
                                   ![other] = IF keep THEN @ ELSE Missing],
           last |-> ch]
     ELSE s

\* An open channel is advanced, and closed when the bar breaks it.
Advancing(cs, direction, s) ==
  LET n == Len(cs)
      ch == Advanced(s.open[direction], n)
      how == BreakOf(ch, cs[n])
  IN IF s.open[direction] = Missing THEN s
     ELSE IF how = Missing THEN [s EXCEPT !.open[direction] = ch]
     ELSE [open |-> [s.open EXCEPT ![direction] = Missing], last |-> Broken(ch, n, how)]

\* One more bar.
Bar ==
  /\ Len(bars) < MaxBars
  /\ \E c \in Shapes :
       LET cs == Append(bars, c)
           hs == ConfirmedHighs(cs, highs)
           ls == ConfirmedLows(cs, lows)
           atr == Averaged(cs, average)
           opened == Opening(cs, atr, "up", lows, ls,
                             Opening(cs, atr, "down", highs, hs, [open |-> open, last |-> last]))
           done == Advancing(cs, "up", Advancing(cs, "down", opened))
       IN /\ bars' = cs /\ average' = atr /\ UNCHANGED <<wait, keep>>
          /\ highs' = hs /\ lows' = ls /\ open' = done.open /\ last' = done.last

Next == Bar
Spec == Init /\ [][Next]_vars

\* _select_latest_channel_state: the newest; of those as new as another, the
\* open one, and the falling one.
Shown ==
  LET order == <<open["down"], open["up"], IF keep THEN last ELSE Missing>>
      there == {k \in 1 .. 3 : order[k] # Missing}
      newest == {k \in there : \A j \in there : order[j].created <= order[k].created}
  IN IF there = {} THEN Missing ELSE order[CHOOSE k \in newest : \A j \in newest : k <= j]

----------------------------------------------------------------------------
(* Rules about the channel that is shown. *)

LineOf(area) ==
  CASE area = "top_line" -> "top" [] area = "bottom_line" -> "bottom" [] OTHER -> "middle"
ZoneOf(area) ==
  CASE area = "top_zone" -> <<"top_zone_lower", "top">>
    [] area = "bottom_zone" -> <<"bottom", "bottom_zone_upper">>
    [] OTHER -> <<"middle_zone_lower", "middle_zone_upper">>
IsLine(area) == area \in {"top_line", "bottom_line", "middle_line"}
SideOf(area) ==
  CASE area \in {"top_line", "top_zone"} -> "up"
    [] area \in {"bottom_line", "bottom_zone"} -> "down"
    [] OTHER -> "any"

\* A candle reaches beyond an edge with its wick, its body, or either, upwards
\* over "over" or downwards under "under"; prices and edges in hundredths.
Breaches(c, over, under, rule, side) ==
  LET direction == IF rule.breach = "any" THEN side ELSE rule.breach
      up == 100 * (IF rule.touch = "body" THEN Top(c) ELSE c.high) > over
      down == 100 * (IF rule.touch = "body" THEN Bottom(c) ELSE c.low) < under
  IN (direction # "down" /\ up) \/ (direction # "up" /\ down)

\* evaluate_line_action on a candle and a value of the line.
LineAction(c, v, rule, side) ==
  LET slack == Distance(v, 0) * rule.tolerance
      lo == 100 * v - slack
      hi == 100 * v + slack
  IN CASE rule.action = "touched" -> Touches(c, lo, hi, rule.touch, side)
       [] rule.action = "closed_above" -> 100 * c.close > hi
       [] rule.action = "closed_below" -> 100 * c.close < lo
       [] rule.action = "on_line" -> lo <= 100 * c.close /\ 100 * c.close <= hi
       [] rule.action = "breach" -> Breaches(c, 100 * v, 100 * v, rule, side)
       [] OTHER -> FALSE

Overlaps(c, lo, hi, touch) ==
  IF touch = "body" THEN 100 * Bottom(c) <= hi /\ 100 * Top(c) >= lo
                    ELSE 100 * c.low <= hi /\ 100 * c.high >= lo

\* evaluate_zone_action on a candle and the bounds of the zone.
ZoneAction(c, low, high, rule, side) ==
  LET lo == 100 * low - Distance(low, 0) * rule.tolerance
      hi == 100 * high + Distance(high, 0) * rule.tolerance
  IN CASE rule.action = "entered" -> Overlaps(c, lo, hi, rule.touch)
       [] rule.action = "rejected" ->
            /\ Overlaps(c, lo, hi, rule.touch)
            /\ \/ side = "up" /\ c.close < low
               \/ side = "down" /\ c.close > high
       [] rule.action = "breach" -> Breaches(c, hi, lo, rule, side)
       [] OTHER -> FALSE

\* Fault: every bar the channel is drawn at.
EligibleDrawn(ch, n) == ch.first.index .. n

\* Bars that may give a signal: on the channel, and not after its break.
Eligible(ch, n) ==
  {i \in ch.first.index .. n : ch.brokenAt # Missing => i <= ch.brokenAt}

AreaHolds(cs, ch, rule, i) ==
  LET c == Scaled(cs[i], Unit(ch))
      value(name) == LineValue(ch, name, i)
      zone == ZoneOf(rule.area)
  IN /\ i \in Eligible(ch, Len(cs))
     /\ IF IsLine(rule.area)
        THEN LineAction(c, value(LineOf(rule.area)), rule, SideOf(rule.area))
        ELSE ZoneAction(c, value(zone[1]), value(zone[2]), rule, SideOf(rule.area))

\* An interaction is with the line, or with the edge of the zone it comes out at.
AreaTarget(cs, ch, rule) ==
  LET name == IF IsLine(rule.area) THEN LineOf(rule.area)
              ELSE ZoneOf(rule.area)[IF rule.action = "rejected_from_below" THEN 1 ELSE 2]
  IN [i \in Eligible(ch, Len(cs)) |-> LineValue(ch, name, i)]

\* _evaluate_single_area_core
AreaPasses(cs, ch, rule) ==
  IF rule.action \in Interaction
  THEN Interacts([i \in DOMAIN cs |-> Scaled(cs[i], Unit(ch))], AreaTarget(cs, ch, rule), rule)
  ELSE LET start == RunStart(Len(cs), {i \in DOMAIN cs : AreaHolds(cs, ch, rule, i)})
       IN /\ start # Missing
          /\ Len(cs) - start + 1 = rule.window
          /\ Confirmed(cs, start, rule.confirm)

\* evaluate_trend_channel_rules, as a scan calls it: every area is judged.
AreasPass(cs, ch, areas, mode) ==
  LET active == SelectSeq(areas, LAMBDA r : r.action # "disabled")
  IN IF active = <<>> THEN areas # <<>>
     ELSE ModePasses([k \in DOMAIN active |-> AreaPasses(cs, ch, active[k])], mode)

----------------------------------------------------------------------------
(* Properties. *)

\* The variables have their types, and an open channel is the one of its
\* direction, open still.
TypeOK ==
  /\ bars \in Seq(Shapes) /\ Len(bars) <= MaxBars
  /\ wait \in BOOLEAN /\ keep \in BOOLEAN
  /\ highs \in Seq(Pivot) /\ Len(highs) <= 2
  /\ lows \in Seq(Pivot) /\ Len(lows) <= 2
  /\ average \in [sum : Nat, of : Nat \ {0}]
  /\ open \in [Directions -> Channel \cup {Missing}]
  /\ \A d \in Directions : open[d] # Missing => open[d].direction = d /\ open[d].brokenAt = Missing
  /\ last \in Channel \cup {Missing}

\* Where a line was at a bar of the channel's life, in prices times D.
EndAt(ch, name, i) ==
  ch.second.price * D(ch) + (i - ch.created + 1) * Step(ch) + Offset(ch, name)
Outside(cs, ch, i) ==
  \/ cs[i].low * D(ch) > EndAt(ch, "top", i)
  \/ cs[i].high * D(ch) < EndAt(ch, "bottom", i)

\* The channel that is shown lived as it says: no bar since its creation was
\* wholly outside, but the one it is said to have been broken by, which was;
\* and one that is not broken reaches the last bar.
ShownIsTrue ==
  LET ch == Shown
      life == ch.created .. IF ch.brokenAt = Missing THEN Len(bars) ELSE ch.brokenAt - 1
  IN Shown # Missing =>
       /\ \A i \in life : ~Outside(bars, ch, i)
       /\ IF ch.brokenAt = Missing THEN ch.end = Len(bars) ELSE Outside(bars, ch, ch.brokenAt)

\* With one channel at a time, and the last one kept, a channel once shown stays
\* on its pivots until a newer one takes its place: an older one never returns.
ShownStays ==
  [][wait /\ keep /\ Shown # Missing =>
       /\ Shown' # Missing
       /\ \/ Shown'.created > Shown.created
          \/ <<Shown'.first, Shown'.second, Shown'.direction>>
               = <<Shown.first, Shown.second, Shown.direction>>]_vars

\* After its break a channel is only drawn: no rule holds over bars after it, and
\* the event of an interaction is not later (trend_channels.py:556-561).
NoSignalAfterBreak ==
  LET ch == Shown
      scaled == [i \in DOMAIN bars |-> Scaled(bars[i], Unit(ch))]
  IN Shown # Missing /\ ch.brokenAt # Missing =>
       \A r \in AreaRules : AreaPasses(bars, ch, r) =>
         IF r.action \in Interaction
         THEN LatestEvent(scaled, AreaTarget(bars, ch, r), r) <= ch.brokenAt
         ELSE ch.brokenAt = Len(bars)

\* Upside down, a falling channel is a rising one.
MirrorBar(c) == [c EXCEPT !.open = Axis - @, !.high = Axis - c.low, !.low = Axis - c.high,
                          !.close = Axis - @]
Turned(d) == CASE d = "up" -> "down" [] d = "down" -> "up" [] OTHER -> d
MirrorChannel(ch) ==
  [ch EXCEPT !.direction = Turned(@), !.broke = Turned(@),
             !.first.price = Axis - @, !.second.price = Axis - @]
MirrorRule(r) ==
  [r EXCEPT
     !.area = CASE @ = "top_line" -> "bottom_line" [] @ = "bottom_line" -> "top_line"
                [] @ = "top_zone" -> "bottom_zone" [] @ = "bottom_zone" -> "top_zone" [] OTHER -> @,
     !.action = CASE @ = "closed_above" -> "closed_below" [] @ = "closed_below" -> "closed_above"
                  [] @ = "rejected_from_above" -> "rejected_from_below"
                  [] @ = "rejected_from_below" -> "rejected_from_above" [] OTHER -> @,
     !.breach = Turned(@)]

\* A channel upside down breaks and obeys the mirrored rules just when it does as
\* it is; a tolerance, being a share of the price, is left out, and so is a
\* confirmation, which is of patterns and types that have a side (SignalRules).
AreasMirrored ==
  LET ch == Shown
      image == [i \in DOMAIN bars |-> MirrorBar(bars[i])]
      n == Len(bars)
  IN Shown # Missing =>
       /\ BreakOf(MirrorChannel(ch), image[n]) = Turned(BreakOf(ch, bars[n]))
       /\ \A r \in AreaRules :
            r.tolerance = 0 /\ ~r.confirm.on /\ r.action \notin {"piercing", "reclaimed"} =>
              AreaPasses(image, MirrorChannel(ch), MirrorRule(r)) = AreaPasses(bars, ch, r)
=============================================================================
