------------------------------ MODULE SignalRules ------------------------------
(***************************************************************************)
(* The rules of the indicators, on the charts of ChartRules: the families  *)
(* "closes" (RSI, Aroon, EMA), "waves" (WaveTrend and MACD), "lines3"      *)
(* (VLR), "volume", "adx", "volatility" and "linreg" (the candles of the   *)
(* linear regression) are asked of a chart that grows by a candle at a     *)
(* time.  A candle of a family carries the values, a, b and c, that the    *)
(* lines of its indicator have at it.                                      *)
(***************************************************************************)
EXTENDS ChartRules, WaveRules, EmaRules, AdxRules, VolatilityRules, LinregRules

CONSTANT
  Asks,    \* of an indicator: the rules it is asked with
  Span     \* the length of the RSI and of Aroon

\* What a request may say of the direction of a line.
AdxCondition ==
  [id : DirectionIds, line : {"plus", "minus", "adx", Missing}, direction : {"up", "down", "flat", Missing},
   min : Option, max : Option, since : Option, activeMin : Option, activeMax : Option,
   changeMin : Option, changeMax : Option, distance : Option, word : {Missing}]

\* Conditions and positions are ones of the request, lengths, factors, windows
\* and the values of lines are numbers, and None is no direction, no run and no
\* match.
ASSUME AsksAssumption ==
  /\ Asks.directions \subseteq AdxCondition
  /\ Span \in Nat
  /\ "waves" \in Family => \A c \in Shapes["waves"] : {c.a, c.b} \subseteq Int \cup {Missing}
  /\ \A r \in Asks.spikes \cup Asks.volatility : "window" \in DOMAIN r /\ r.window \in Seq(Int)
  /\ \A r \in Asks.volatility :
       LET rule == Normalized(r, VolatilityDefaults) IN {rule.length, rule.factor} \subseteq Int
  /\ \A r \in Asks.linreg :
       /\ DOMAIN r = {"length", "smoothing", "linReg", "position", "location", "tolerance", "window", "confirm"}
       /\ {r.length, r.smoothing, r.window} \subseteq Nat \ {0}
       /\ r.position \in Positions \cup {"any_signal", Missing}
  /\ Missing \notin {"plus", "minus", "adx", "up", "down", "flat"} \cup Positions
  /\ Missing \notin [direction : {"up", "down", "flat"}, from : Int, to : Int]
  /\ Missing \notin [at : Int, start : Int, age : Int \cup {Missing}, position : Positions \cup {Missing}]

LineA(cs) == [i \in DOMAIN cs |-> cs[i].a]
LineB(cs) == [i \in DOMAIN cs |-> cs[i].b]
LineC(cs) == [i \in DOMAIN cs |-> cs[i].c]
WaveOf(cs) == [wt1 |-> LineA(cs), wt2 |-> LineB(cs)]
RedGreenBlue(cs) == <<LineA(cs), LineB(cs), LineC(cs)>>
EmaWaveOf(cs) == [a |-> LineA(cs), b |-> LineB(cs), c |-> LineC(cs)]
AdxOf(cs) == [plus |-> LineA(cs), minus |-> LineB(cs), adx |-> LineC(cs)]

\* The verdicts, of a chart and a rule.
AskRsi(cs, r) == RsiPasses(cs, RsiSeries(cs, Span), r)
AskAroon(cs, r) == AroonPasses(cs, AroonSeries(cs, Span), r)
AskWave(cs, r) == WavePasses(cs, WaveOf(cs), r)
AskMacd(cs, r) == MacdPasses(LineA(cs), LineB(cs), r)
AskVlr(cs, r) == VlrPasses(cs, RedGreenBlue(cs), r)
AskAdx(cs, r) == AdxPasses(AdxOf(cs), r)

----------------------------------------------------------------------------
(* Upside down, as in ChartRules: prices are mirrored, lines negated, and    *)
(* the two lines of direction swapped.                                       *)

Opposites == {Opposite[k] : k \in DOMAIN Opposite} \cup {
  <<"oversold", "overbought">>, <<"oversold_level_1", "overbought_level_1">>,
  <<"oversold_watch", "overbought_watch">>, <<"oversold_cross_up", "overbought_cross_down">>,
  <<"turning_up", "turning_down">>, <<"rising", "falling">>, <<"cross_up", "cross_down">>,
  <<"crossed_up", "crossed_down">>, <<"above", "below">>,
  <<"turning_up_from_oversold", "turning_down_from_overbought">>,
  <<"above_50", "below_-50">>, <<"between_50_0", "between_0_-50">>,
  <<"above_zero", "below_zero">>, <<"histogram_above_zero", "histogram_below_zero">>,
  <<"bullish_cross", "bearish_cross">>, <<"above_signal", "below_signal">>,
  <<"bullish_extreme", "bearish_extreme">>, <<"bullish_order", "bearish_order">>,
  <<"red_below_green", "red_above_green">>, <<"red_below_blue", "red_above_blue">>,
  <<"green_below_blue", "green_above_blue">>, <<"red_below_both", "red_above_both">>,
  <<"multiple_bullish", "multiple_bearish">>, <<"bullish_trend", "bearish_trend">>,
  <<"strong_bullish_trend", "strong_bearish_trend">>,
  <<"trend_strength_increasing", "trend_strength_decreasing">>,
  <<"di_pink_toward_blue", "di_blue_toward_pink">>, <<"plus", "minus">>,
  <<"di_plus_direction", "di_minus_direction">>,
  <<"piercing_from_below", "piercing_from_above">>, <<"bullish soon", "bearish soon">>}
Swap(x) ==
  IF \E p \in Opposites : x \in {p[1], p[2]}
  THEN LET p == CHOOSE q \in Opposites : x \in {q[1], q[2]} IN IF x = p[1] THEN p[2] ELSE p[1]
  ELSE x
Swaps(S) == {Swap(x) : x \in S}

MirrorConfirm(want) == [want EXCEPT !.types = Swaps(@), !.patterns = Swaps(@)]
MirrorClause(c) ==
  LET image(d) == [f \in DOMAIN d |-> IF f \in {"zone", "direction", "op", "name", "pair"} THEN Swap(d[f]) ELSE d[f]]
  IN [f \in DOMAIN c |-> IF f = "rules" THEN {image(d) : d \in c.rules} ELSE image(c)[f]]
ByBackground(r) ==
  \E k \in DOMAIN r.conditions : r.conditions[k].id \in {"bg_changed_recently", "bg_mixed_or_changing"}
Negated(line) == [i \in DOMAIN line |-> IF line[i] = Missing THEN Missing ELSE -line[i]]

\* Nothing in the rules of the oscillators, of the direction lines and of the
\* volume spikes favours a side: on a chart upside down each gives the verdict
\* that its counterpart gives on the chart.  Two ties are the code's own choice
\* and left out: rsi.py:30 puts the RSI of a price that never moved at 100, and
\* trendy_adx.py:810 takes two direction lines that are equal for bearish.
IndicatorsMirrored(now) ==
  LET image == MirrorChart(now)
      moved == \E i \in 2 .. Smaller(Span + 1, Len(now)) : now[i].close # now[i - 1].close
      flip(r) == [r EXCEPT !.direction = Swap(@), !.confirm = MirrorConfirm(@)]
      tied == \E i \in DOMAIN now : now[i].a = now[i].b
      lines == RedGreenBlue(now)
      up(r) == [r EXCEPT !.preset = Swap(@), !.direction = Swap(@), !.patterns = Swaps(@),
                         !.bullishCrossings = Swaps(r.bearishCrossings),
                         !.bearishCrossings = Swaps(r.bullishCrossings),
                         !.conditions = {MirrorClause(c) : c \in @}]
      side(r) == [r EXCEPT !.mode = Swap(@), !.rule = Swap(@),
                           !.conditions = [k \in DOMAIN @ |-> [@[k] EXCEPT !.id = Swap(@), !.line = Swap(@)]]]
  IN /\ family = "closes" =>
          /\ \A r \in Asks.aroon : AskAroon(image, [flip(r) EXCEPT !.level = Swap(@)]) = AskAroon(now, r)
          /\ moved => \A r \in Asks.rsi : AskRsi(image, [flip(r) EXCEPT !.location = Swap(@)]) = AskRsi(now, r)
     /\ family = "waves" =>
          /\ \A r \in Asks.wave :
               WavePasses(image, [wt1 |-> Negated(LineA(now)), wt2 |-> Negated(LineB(now))],
                          [flip(r) EXCEPT !.zone = Swap(@), !.condition = Swap(@),
                                          !.clauses = {MirrorClause(c) : c \in @}])
                 = AskWave(now, r)
          /\ \A r \in Asks.emaWave :
               EmaWavePasses([l \in {"a", "b", "c"} |-> Negated(EmaWaveOf(now)[l])],
                             [r EXCEPT !.rule = Swap(@), !.threshold = -@])
                 = EmaWavePasses(EmaWaveOf(now), r)
          /\ \A r \in Asks.macd :
               MacdPasses(Negated(LineA(now)), Negated(LineB(now)), [r EXCEPT !.rule = Swap(@)])
                 = AskMacd(now, r)
     /\ family = "lines3" =>
          \A r \in Asks.vlr :
            VlrPasses(image, <<Negated(lines[1]), Negated(lines[2]), Negated(lines[3])>>, up(r))
              = AskVlr(now, r)
     /\ family = "volume" =>
          \A r \in Asks.spikes : SpikePasses(image, [r EXCEPT !.rule = <<Swap(@[1])>>]) = SpikePasses(now, r)
     /\ family = "adx" =>
          LET swapped == [AdxOf(now) EXCEPT !.plus = LineB(now), !.minus = LineA(now)]
          IN \A r \in Asks.adx :
               /\ ~(tied /\ ByBackground(r)) => AdxPasses(swapped, side(r)) = AskAdx(now, r)
               /\ AskAdx(now, r) /\ r.conditions # <<>> =>
                    AdxLabel(swapped, side(r)) = Swap(AdxLabel(AdxOf(now), r))
     /\ family = "linreg" =>
          \A r \in Asks.linreg : r.tolerance = 0 =>
            LinregPasses(image, [r EXCEPT !.position = Swap(@), !.location = Swap(@), !.confirm = MirrorConfirm(@)])
              = LinregPasses(now, r)

\* Whatever candle comes, no rule favours a side, of lines and patterns
\* (ChartRules) or of indicators.
SidesAlike == [][Mirrored(chart') /\ IndicatorsMirrored(chart')]_vars

----------------------------------------------------------------------------
(* Time. *)

\* A verdict about the last candles is one that was given at one of them when
\* it was the newest.
AsWatched(passes(_, _), now, window) ==
  passes(now, window)
    <=> \E k \in 0 .. Smaller(window, Len(now)) - 1 : passes(SubSeq(now, 1, Len(now) - k), 1)

\* What passed at the candle before still does, looking one candle further back.
Kept(passes(_, _), now, window) ==
  window > 1 /\ now # <<>> /\ passes(SubSeq(now, 1, Len(now) - 1), window - 1) => passes(now, window)

\* What is confirmed by a later candle was not to be seen at the first.
WatchedOrKept(passes(_, _), now, window, confirmed) ==
  IF confirmed THEN Kept(passes, now, window) ELSE AsWatched(passes, now, window)

\* The verdicts about the last candles, by rule.
VerdictsStay(now) ==
  LET with(r, w) == [r EXCEPT !.window = w]
      given(r, w) == [r EXCEPT !.window = <<w>>]
      forming == [now[Len(now)] EXCEPT !.closed = FALSE]
      touched(cs, w, c) ==
        \E p \in Asks.periods :
          EmaConditionPasses(cs, p, c, [min |-> 0, max |-> w - 1, stillAbove |-> FALSE])
      several(r) ==
        \/ r.confirmVolume # Missing \/ r.confirmCrossings \/ r.confirmPatterns
        \/ PresetLogic(r.preset) = "all" /\ Cardinality(Preset(r.preset) \cup r.conditions) > 1
      lasting(c) == "window" \notin DOMAIN c /\ (c.type = "group" => c.logic # "not")
  IN /\ family = "closes" =>
          /\ \A r \in Asks.rsi : Len(now) - Span >= r.window =>
               WatchedOrKept(LAMBDA cs, w : AskRsi(cs, with(r, w)), now, r.window, r.confirm.on)
          /\ \A r \in Asks.aroon : Len(now) - Span >= r.window =>
               WatchedOrKept(LAMBDA cs, w : AskAroon(cs, with(r, w)), now, r.window, r.confirm.on)
          /\ \A r \in Asks.ema, c \in Shapes[family] :
               EmaPasses(Append(now, [c EXCEPT !.closed = FALSE]), r) = EmaPasses(now, r)
          /\ \A c \in Asks.touches, window \in 1 .. 3 :
               AsWatched(LAMBDA cs, w : touched(cs, w, c), now, window)
     /\ family = "waves" =>
          \A r \in Asks.wave : Len(now) >= r.window =>
            WatchedOrKept(LAMBDA cs, w : AskWave(cs, with(r, w)), now, r.window, r.confirm.on)
     /\ family = "lines3" =>
          \A r \in Asks.vlr : (\A c \in r.conditions : lasting(c)) =>
            WatchedOrKept(LAMBDA cs, w : AskVlr(cs, with(r, w)), now, r.window, several(r))
     /\ family = "volume" =>
          /\ \A r \in Asks.spikes : AsWatched(LAMBDA cs, w : SpikePasses(cs, given(r, w)), now, r.window[1])
          /\ \A r \in Asks.current : AsWatched(LAMBDA cs, w : CurrentPasses(cs, given(r, w)), now, r.window[1])
          /\ \A r \in Asks.relative : r.rule[1] # "highest" =>
               AsWatched(LAMBDA cs, w : RelativePasses(cs, given(r, w)), now, r.window[1])
          /\ now # <<>> =>
               /\ \A r \in Asks.spikes : SpikePasses(Append(now, forming), r) = SpikePasses(now, r)
               /\ \A r \in Asks.current : CurrentPasses(Append(now, forming), r) = CurrentPasses(now, r)
               /\ \A r \in Asks.relative : RelativePasses(Append(now, forming), r) = RelativePasses(now, r)
     /\ family = "adx" =>
          \A r \in Asks.adx : r.conditions = <<>> =>
            AsWatched(LAMBDA cs, w : AskAdx(cs, with(r, w)), now, r.window)
     /\ family = "volatility" =>
          \A r \in Asks.volatility :
            LET rule == Normalized(r, VolatilityDefaults)
                enough == rule.mode = "vstop" \/ Len(now) - rule.window >= Larger(2, rule.length) - 1
            IN /\ enough => AsWatched(LAMBDA cs, w : VolatilityPasses(cs, given(r, w)), now, rule.window)
               /\ now # <<>> => VolatilityPasses(Append(now, forming), r) = VolatilityPasses(now, r)
     /\ family = "linreg" /\ now # <<>> =>
          \A r \in Asks.linreg : LinregPasses(Append(now, forming), r) = LinregPasses(now, r)

\* A signal over a window of candles is never repainted.
\* On a chart long enough for the window, a rule passes over the last candles exactly
\* if it passed, asked about the newest only, when one of them had just closed: so do
\* RSI, Aroon and WaveTrend without a confirmation, touches of an average, the VLR of
\* a single condition, spikes, current and relative volume, ADX rules and volatility.
\* A spike is therefore reported by the candle after it, whose high or low decides it
\* (volume.py:221), and never by its own.
\* A rule that waits for several things, RSI, Aroon and WaveTrend with a confirmation
\* and the VLR of several conditions or with one, can pass later than any of them was
\* seen; but what passed at a candle still passes at the next, over one candle more.
\* A candle that is still forming is no event of an average (ema.py:437), and changes
\* nothing for the volume, the volatility and linear regression candles.
\* Not said: of the "highest" relative volume, a VLR condition that is a NOT or has a
\* window of its own, none of which lasts; of ADX conditions and MACD, which look at
\* the newest candle and have no window; of the other rules at a forming candle.
NothingRepainted == [][VerdictsStay(chart')]_vars

\* The verdicts on a chart, and those on its last candles.
NeedsSuffice(now) ==
  LET n == Len(now)
      last(k) == SubSeq(now, n - k + 1, n)
      enough(needs, passes(_)) == n >= needs => (passes(last(needs)) <=> passes(now))
  IN /\ family = "volume" =>
          /\ \A r \in Asks.spikes : enough(SpikeNeeds(r), LAMBDA cs : SpikePasses(cs, r))
          /\ \A r \in Asks.current : enough(CurrentNeeds(r), LAMBDA cs : CurrentPasses(cs, r))
          /\ \A r \in Asks.relative : r.rule[1] \notin {"crossed_above", "crossed_below", "highest"} =>
               enough(RelativeNeeds(r), LAMBDA cs : RelativePasses(cs, r))
     /\ family = "volatility" =>
          \A r \in Asks.volatility : Normalized(r, VolatilityDefaults).mode # "vstop" =>
            enough(VolatilityNeeds(r), LAMBDA cs : VolatilityPasses(cs, r))
     /\ family = "linreg" =>
          \A r \in Asks.linreg : enough(LinregNeeds(r), LAMBDA cs : LinregPasses(cs, r))

\* What the request fetches is enough: on the last candles that a filter says
\* it needs (screener.py:591) its verdict is that on the whole chart.  A cross of
\* the relative volume is left out, as it reads one candle more than
\* required_relative_volume_candles asks for when the average is the longest, and
\* so is the volatility stop, which depends on every candle since the first.
HistorySuffices == [][NeedsSuffice(chart')]_vars

----------------------------------------------------------------------------
(* What is said of a match. *)

\* The candle a sticker shows is a candle of the window at which the rule
\* matches, the sticker of a cross says which way it went, and that of a spike
\* shows the candle that spiked, not the one that gave it away.  A warning says
\* truly whether the match is of an earlier candle, or there was one too early.
\* The timing told with a linear regression candle is that of the match, and of
\* its verdict unless the rule also asks where a state's candle closes, which
\* trace_linreg_signal_window leaves out (linear_regression_candles.py:350).
StickerShows(now) ==
  LET w == WaveOf(now)
      rsi == RsiSeries(now, Span)
      aroon == AroonSeries(now, Span)
      spike(r) == Normalized(r, SpikeDefaults)
      in(i, n, r) == i \in Recent(n, r.window)
  IN /\ family = "closes" =>
          /\ \A r \in Asks.rsi : AskRsi(now, r) =>
               RsiMatches(rsi, RsiShown(rsi, r), r) /\ in(RsiShown(rsi, r), Len(rsi), r)
          /\ \A r \in Asks.aroon : AskAroon(now, r) =>
               AroonMatches(aroon, AroonShown(aroon, r), r) /\ in(AroonShown(aroon, r), Len(aroon), r)
     /\ family = "waves" =>
          \A r \in Asks.wave : AskWave(now, r) =>
            /\ WaveMatches(w, WaveShown(w, r), r) /\ in(WaveShown(w, r), Len(now), r)
            /\ UsesLazyBear(r) /\ r.clauses = {} =>
                 /\ Resolved(r) \in {"cross_up", "oversold_cross_up"} => WaveSays(w, r) = "bullish"
                 /\ Resolved(r) \in {"cross_down", "overbought_cross_down"} => WaveSays(w, r) = "bearish"
     /\ family = "volume" =>
          /\ \A r \in Asks.spikes : SpikePasses(now, r) =>
               Heavy(now, SpikeShown(now, spike(r)), spike(r))
          /\ \A r \in Asks.spikes : ~SpikeError(r) =>
               LET passes(window) == SpikePasses(now, [r EXCEPT !.window = <<window>>])
                   says == SignalWarning(Len(now), spike(r).window, {i \in DOMAIN now : SpikeAt(now, i, spike(r))})
               IN /\ says = "within_window_not_latest" <=> passes(spike(r).window) /\ ~passes(1)
                  /\ says = "stale_outside_window" <=> ~passes(spike(r).window) /\ passes(Len(now))
     /\ family = "volatility" =>
          \A r \in Asks.volatility : ~VolatilityError(r) =>
            LET rule == Normalized(r, VolatilityDefaults)
                passes(window) == VolatilityPasses(now, [r EXCEPT !.window = <<window>>])
                says == VolatilityWarning(now, rule)
            IN /\ says = "within_window_not_latest" <=> passes(rule.window) /\ ~passes(1)
               /\ says = "stale_outside_window" <=> ~passes(rule.window) /\ passes(Len(now))
     /\ family = "linreg" =>
          \A r \in Asks.linreg :
            LET s == LinregSeries(now, r)
                match == LinregMatch(now, s, r)
                plain == r.position \notin States \/ r.location = Missing
            IN LinregEnough(now, r) =>
                 /\ match # Missing =>
                      /\ LinregMatches(s, match.at, [r EXCEPT !.position = match.position])
                      /\ Timing(now, s, r) = [passed |-> TRUE, start |-> match.start]
                 /\ plain => Timing(now, s, r).passed = (match # Missing)

\* What the program says of a match is true of the chart: the stages of an
\* interaction, the candle of a sticker, its side, its timing and its warnings.
StickerTrue == [][StagesExplain(chart') /\ StickerShows(chart')]_vars

\* A direction condition without its ranges of lengths.
Unranged(c) ==
  [c EXCEPT !.min = Missing, !.max = Missing, !.changeMin = Missing, !.changeMax = Missing, !.since = Missing]

\* The candles that the chart outlines for a direction rule are exactly those
\* that the rule counts (trendy_adx.py:1036): the line goes the way it is said
\* to at each of them and not at the one before, and a range of lengths is
\* about their number.  A condition whose id names a line is counted on that
\* one and outlined on the one it names besides, if it does (trendy_adx.py:1045):
\* such a condition is left out.
StreakExact ==
  family = "adx" =>
    \A c \in Asks.directions : c.line \in {Missing, Given(LineById(c.id), c.line)} =>
      LET s == AdxOf(chart)
          line == s[Given(LineById(c.id), Given(c.line, "adx"))]
          e == StreakEvidence(s, c)
      IN /\ DirectionPasses(s, Unranged(c)) <=> e # Missing
         /\ e # Missing =>
              /\ {i \in DOMAIN line : i >= e.from - 1 /\ LineDirection(line, i) = e.direction} = e.from .. e.to
              /\ e.to = Len(chart)
         /\ c.changeMin # Missing /\ c.changeMax # Missing =>
              (DirectionPasses(s, c)
                 <=> e # Missing /\ e.to - e.from + 1 \in c.changeMin .. Larger(c.changeMin, c.changeMax))

----------------------------------------------------------------------------
(* Ages and trends. *)

\* A rule that asks for an age exactly, of a line or of a linear regression
\* candle, is reported once in a run: never at two candles in a row, and only
\* where the run was one shorter the candle before (M3_CLIENT_REQUIREMENTS.md:57,
\* docs/linreg-candles-signal-age-fix.md:37); a piercing is told once at each age.
ReportedOnce ==
  [][/\ family = "lines" =>
          \A r \in WindowRules :
            HoldsForWindow(chart', Line, r, "middle") =>
              /\ ~HoldsForWindow(chart, Line, r, "middle")
              /\ r.window > 1 =>
                   HoldsForWindow(chart, Line, [r EXCEPT !.window = @ - 1, !.confirm.on = FALSE], "middle")
     /\ family = "linreg" =>
          \A r \in Asks.linreg :
            LET shorter == [r EXCEPT !.window = @ - 1]
                plain == r.location = Missing /\ ~r.confirm.on /\ LinregEnough(chart, r)
            IN /\ r.position \in States /\ plain /\ LinregPasses(chart', r) =>
                    ~LinregPasses(chart, r) /\ (r.window > 1 => LinregPasses(chart, shorter))
               /\ r.position \in Piercings /\ plain /\ r.window > 1 =>
                    LinregPasses(chart', r) = LinregPasses(chart, shorter)]_vars

\* The stops on a chart, of a configuration that is not refused.
Trailing(now) ==
  family = "volatility" =>
    \A r \in Asks.volatility : ~VolatilityError(r) =>
      LET rule == Normalized(r, VolatilityDefaults)
          stop == Stops(now, rule)
          breaching == Breaching(now, rule, stop)
          price(i) == (Unit(now, rule) \div 12) * Source(now[i], rule.source)
          early == {i \in DOMAIN now : breaching[i].early}
      IN rule.mode = "vstop" =>
           /\ \A i \in DOMAIN stop :
                /\ IF stop[i].up THEN price(i) >= stop[i].at ELSE price(i) <= stop[i].at
                /\ i > 1 /\ ~Reversed(stop, i) =>
                     IF stop[i].up THEN stop[i].at >= stop[i - 1].at ELSE stop[i].at <= stop[i - 1].at
           /\ \A i, j \in early : i < j => \E k \in i + 1 .. j : Reversed(stop, k)

\* A volatility stop trails: it never moves away from the price while the trend
\* is the same, the price is on the trend's side of it, also of the one it is
\* given when the trend turns, and a trend is breached early once, before it
\* turns (volatility.py:583 and 716).
StopTrails == [][Trailing(chart')]_vars

=============================================================================
