------------------------------- MODULE LinregRules -------------------------------
(***************************************************************************)
(* The rules of the linear regression candles: candles whose prices are    *)
(* the ends of lines fitted to the last prices, against a signal line, the *)
(* average of their last closes.  "Above", "below" and "on" are states,    *)
(* whose age is the length of the run they are in; a piercing is an event. *)
(* A rule asks for an age exactly.                                         *)
(*                                                                         *)
(* Prices are in units that keep the fitted lines and the average whole.   *)
(***************************************************************************)
EXTENDS VolumeRules

States == {"above", "below", "on"}
Piercings == {"piercing_from_below", "piercing_from_above"}
Positions == States \cup Piercings

\* compute_linreg_candles, with a simple average: the candles and their line,
\* of a chart that is long enough.
LinregEnough(cs, rule) == Len(cs) >= rule.length + rule.smoothing
LinregSeries(cs, rule) ==
  LET ends(field) ==
        LET prices == [i \in DOMAIN cs |-> cs[i][field]]
        IN IF rule.linReg THEN Fitted(prices, rule.length) ELSE prices
      closes == ends("close")
      line == [i \in DOMAIN cs |->
        LET last == i - rule.smoothing + 1 .. i
        IN IF Known(closes, last) THEN Total([k \in last |-> closes[k]]) ELSE Missing]
      scaled(field) ==
        LET all == ends(field) IN [i \in DOMAIN cs |-> IF line[i] = Missing THEN Missing ELSE rule.smoothing * all[i]]
      open == scaled("open")
      high == scaled("high")
      low == scaled("low")
      close == scaled("close")
  IN [line |-> line,
      bars |-> [i \in DOMAIN cs |-> [open |-> open[i], high |-> high[i], low |-> low[i], close |-> close[i]]]]

\* check_price_position
AtPosition(c, line, position, pct) ==
  LET lo == 100 * line - Absolute(line) * pct
      hi == 100 * line + Absolute(line) * pct
  IN CASE position = "above" -> 100 * c.low >= lo
       [] position = "below" -> 100 * c.high <= hi
       [] position = "on" -> 100 * Bottom(c) <= hi /\ 100 * Top(c) >= lo
       [] position = "piercing_from_below" -> 100 * c.open <= hi /\ 100 * c.close >= lo
       [] position = "piercing_from_above" -> 100 * c.open >= lo /\ 100 * c.close <= hi
       [] OTHER -> FALSE

\* check_close_location
ClosesAt(c, line, location, pct) ==
  LET tolerance == Absolute(line) * pct
  IN CASE location = "bullish" -> Bullish(c)
       [] location = "bearish" -> Bearish(c)
       [] location = "close_above" -> 100 * c.close >= 100 * line - tolerance
       [] location = "close_below" -> 100 * c.close <= 100 * line + tolerance
       [] location = "close_on" -> 100 * Distance(c.close, line) <= tolerance
       [] OTHER -> FALSE

Positioned(s, i, rule) ==
  /\ s.line[i] # Missing
  /\ rule.position # Missing => AtPosition(s.bars[i], s.line[i], rule.position, rule.tolerance)
LinregMatches(s, i, rule) ==
  Positioned(s, i, rule) /\ (rule.location # Missing => ClosesAt(s.bars[i], s.line[i], rule.location, rule.tolerance))

\* _current_linreg_signal_start_index: the first candle of the run that the
\* newest is in; where the candles close does not end it.
StateStart(s, rule) ==
  LET n == Len(s.line)
      ended == {i \in 1 .. n : ~Positioned(s, i, rule)}
  IN IF n \in ended THEN Missing ELSE 1 + (IF ended = {} THEN 0 ELSE Latest(ended))

\* Fault: the signal began within the last candles
\* (docs/linreg-candles-signal-age-fix.md:66).
AgeWithin(age, window) == age <= window

\* The age that a rule asks for.
AgeFits(age, window) == age = window

\* _linreg_signal_match, of one position: the candle that matches, the one that
\* the signal began at, and its age.
MatchOf(cs, s, rule) ==
  LET n == Len(s.line)
      start == CASE rule.position = Missing -> n
                 [] rule.position \in Piercings -> n - rule.window + 1
                 [] OTHER -> StateStart(s, rule)
      at == IF rule.position \in Piercings THEN start ELSE n
      age == IF rule.position = Missing THEN Missing ELSE n - start + 1
  IN IF /\ at \in 1 .. n /\ LinregMatches(s, at, rule)
        /\ rule.position # Missing => AgeFits(age, rule.window)
        /\ Confirmed(cs, start, rule.confirm)
     THEN [at |-> at, start |-> start, age |-> age, position |-> rule.position]
     ELSE Missing

\* "any_signal" takes the first position, in this order, that matches.
Order == <<"above", "below", "piercing_from_below", "piercing_from_above", "on">>
LinregMatch(cs, s, rule) ==
  LET match(k) == MatchOf(cs, s, [rule EXCEPT !.position = Order[k]])
      matching == {k \in DOMAIN Order : match(k) # Missing}
  IN CASE rule.position # "any_signal" -> MatchOf(cs, s, rule)
       [] rule.position = "any_signal" /\ matching = {} -> Missing
       [] OTHER -> match(CHOOSE k \in matching : \A j \in matching : k <= j)

\* trace_linreg_signal_window: the timing that is told with a verdict.  That of
\* a state is worked out again, and where the candle closes left out.
Timing(cs, s, rule) ==
  LET match == LinregMatch(cs, s, rule)
      start == StateStart(s, rule)
      age == Len(s.line) - start + 1
  IN CASE rule.position \notin States ->
            [passed |-> match # Missing, start |-> IF match = Missing THEN Missing ELSE match.start]
       [] rule.position \in States /\ start = Missing -> [passed |-> FALSE, start |-> Missing]
       [] OTHER -> [passed |-> AgeFits(age, rule.window) /\ Confirmed(cs, start, rule.confirm), start |-> start]

\* handle_linreg_candles drops a newest candle that is not closed.
LinregChart(cs) ==
  IF cs # <<>> /\ ~cs[Len(cs)].closed THEN SubSeq(cs, 1, Len(cs) - 1) ELSE cs
LinregPasses(cs, rule) ==
  LET closed == LinregChart(cs)
  IN LinregEnough(closed, rule) /\ LinregMatch(closed, LinregSeries(closed, rule), rule) # Missing

\* required_candles_for_indicators
LinregNeeds(rule) ==
  rule.length + rule.smoothing + rule.window + (IF rule.confirm.on THEN rule.confirm.window ELSE 0)
=============================================================================
