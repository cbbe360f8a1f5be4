----------------------------- MODULE MCSignalRules -----------------------------
(* Charts of ChartRules' families, and of the indicators': small moves of    *)
(* the close, lines at and around their levels, and volumes that spike.      *)
EXTENDS SignalRules, MCChartRules
LOCAL INSTANCE TLC

MCAllFamily == MCFamily \cup {"closes", "waves", "lines3", "volume", "adx", "volatility", "linreg"}

\* Candles with the values of the lines at them.
At(a, b, c) ==
  LET rises == c # Missing /\ a > c
  IN [open |-> IF rises THEN 9 ELSE 11, high |-> 11, low |-> 9, close |-> IF rises THEN 11 ELSE 9,
      closed |-> TRUE, volume |-> 1, a |-> a, b |-> b, c |-> c]
Volume(k, v, minute) ==
  [open |-> k.open, high |-> k.high, low |-> k.low, close |-> k.close, closed |-> TRUE, volume |-> v, minute |-> minute]
MCAllShapes ==
  [f \in MCAllFamily |->
     CASE f = "closes" -> {K(10, 10, 10, 10), K(10, 12, 10, 12), K(10, 10, 8, 8), K(10, 11, 8, 11), K(10, 12, 9, 9)}
       [] f = "waves" -> {At(-60, -54, 0), At(-54, -60, 0), At(-40, -54, 0), At(0, 0, 0), At(54, 60, 0), At(60, 54, 0)}
       [] f = "lines3" -> {At(75, 85, 10), At(85, 90, 80), At(-72, 0, 72), At(-90, -85, -10), At(-20, 20, -20), At(0, 10, 20)}
       [] f = "volume" -> {Volume(K(9, 10, 8, 9), 1, 0), Volume(K(9, 14, 8, 9), 9, 0), Volume(K(9, 10, 4, 9), 9, 10),
                           Volume(K(11, 12, 6, 11), 4, 10)}
       [] f = "adx" -> {At(190, 180, 170), At(180, 190, 210), At(200, 200, 210), At(210, 0, 260), At(0, 200, Missing)}
       [] f = "volatility" -> {K(10, 11, 9, 10), K(11, 14, 11, 14), K(10, 10, 6, 7), K(9, 12, 9, 9)}
       [] f = "linreg" -> {K(10, 12, 10, 12), K(14, 16, 14, 16), K(8, 8, 5, 6), K(6, 12, 5, 11)}
       [] OTHER -> MCShapes[f]]
MCAllLongest ==
  [f \in MCAllFamily |->
     CASE f = "closes" -> 5 [] f = "waves" -> 4 [] f = "lines3" -> 4 [] f = "volume" -> 5 [] f = "adx" -> 5 [] f = "volatility" -> 5 [] f = "linreg" -> 5
       [] OTHER -> MCLongest[f]]

Bear == [on |-> TRUE, types |-> {"strong_bearish"}, patterns |-> {"hammer", "shooting_star"}, window |-> 0]
MCRsi ==
  {[location |-> l, direction |-> d, tolerance |-> t, window |-> w, confirm |-> c] :
     l \in {"oversold", "neutral"}, d \in {Missing, "turning_up"}, t \in {0, 500}, w \in 1 .. 2, c \in {Off, Bear}}
MCAroon ==
  {[level |-> l, direction |-> d, extreme |-> 50, tolerance |-> t, window |-> w, confirm |-> c] :
     l \in {"above_50", "between_50_0", "near_0"}, d \in {Missing, "turning_down"}, t \in {0, 5}, w \in 1 .. 2, c \in {Off, Bear}}
Macd(rule, t) == [rule |-> rule, tolerance |-> t]
MCMacd ==
  {Macd(rule, t) : rule \in {"above_zero", "histogram_above_zero", "bullish_cross", "above_signal"}, t \in {0, 10}}

MCEma ==
  {[conditions |-> c, rule |-> Missing, min |-> 0, max |-> 1, periods |-> <<2, 3>>, mode |-> m] :
     c \in {{}, {"touch_from_above"}, {"touched_or_pierced_and_closed_above", "close_above"}}, m \in {"any", "all"}}
MCEmaWave ==
  {[rule |-> rule, wave |-> l, cutoff |-> 2, threshold |-> 50, tolerance |-> 10] :
     rule \in {"any_spike", "wave_b_spike", "above", "crossed_up"}, l \in {"a", "b"}}

Wave(mode, zone, condition, direction, w) ==
  [mode |-> mode, zone |-> zone, condition |-> condition, direction |-> direction, outer |-> FALSE, clauses |-> {},
   logic |-> "all", tolerance |-> 0, threshold |-> 55, window |-> w, confirm |-> Off]
MCWave ==
  {Wave("custom", z, Missing, d, 2) : z \in {Missing, "oversold", "neutral"}, d \in {"turning_up", "rising", "crossed_up"}}
  \cup {Wave(Missing, z, c, d, w) : z \in {Missing, "oversold"}, w \in 1 .. 2,
          c \in {Missing, "zone_only", "cross_up", "turning_up"}, d \in {Missing, "turning_up"}}
  \cup {[Wave("lazybear", Missing, "oversold_cross_up", Missing, 1) EXCEPT !.outer = TRUE, !.tolerance = 5],
        [Wave("lazybear", "oversold_level_1", Missing, Missing, 2) EXCEPT
           !.clauses = {[type |-> "named", name |-> "turning_up"],
                        [type |-> "compare", left |-> "wt1", op |-> "above", right |-> "wt2", tolerance |-> 0]},
           !.logic = "any"],
        [Wave("lazybear", Missing, "cross_any", Missing, 1) EXCEPT !.confirm = Bear],
        [Wave("lazybear", Missing, "cross_any", Missing, 2) EXCEPT !.confirm = Bull]}

Vlr(preset, conditions, direction, w) ==
  [preset |-> preset, conditions |-> conditions, logic |-> Missing, kind |-> "both", direction |-> direction, window |-> w,
   confirmCrossings |-> FALSE, bullishCrossings |-> {}, bearishCrossings |-> {}, requirement |-> "at_least_1",
   sequence |-> "any", confirmPatterns |-> FALSE, patterns |-> {}, confirmVolume |-> Missing, volumeLength |-> 1]
Confirming3(requirement, direction, sequence, bullish, bearish) ==
  [Vlr(Missing, {}, direction, 3) EXCEPT !.confirmCrossings = TRUE, !.requirement = requirement, !.sequence = sequence,
     !.bullishCrossings = bullish, !.bearishCrossings = bearish]
MCVlr ==
  {Vlr(p, {}, d, w) : p \in {Missing, "bullish_extreme", "order_watch", "bullish_order", "legacy_reversal"},
                      d \in {"bullish", "both"}, w \in {1, 3}}
  \cup {Vlr(Missing, {c}, "both", 2) :
          c \in {[type |-> "compare", line |-> 1, op |-> "below", right |-> 2, tolerance |-> 5],
                 [type |-> "direction", line |-> 1, direction |-> "turning_up"], [type |-> "cross", pair |-> "red_below_both"]}}
  \cup {Vlr(Missing, {[type |-> "group", logic |-> l,
                       rules |-> {[type |-> "direction", line |-> 1, direction |-> "rising"]}]}, "both", 2) : l \in {"not", "any"}}
  \cup {Confirming3(q, "bullish", s, {"red_below_green", "multiple_bullish"}, {}) :
          q \in {"at_least_1", "all_selected"}, s \in {"sequential", "red_first"}}
  \cup {[Vlr(Missing, {}, "bullish", 3) EXCEPT !.confirmVolume = 100],
        [Vlr(Missing, {}, "bullish", 3) EXCEPT !.confirmPatterns = TRUE, !.patterns = {"bullish_engulfing"}]}

Spike(ma, x, hl, hammers, color, w, rule) ==
  [volMa |-> <<ma>>, volX |-> <<x>>, onlyValidHl |-> <<hl>>, onlyHammersShooters |-> <<hammers>>,
   onlySameColor |-> <<color>>, session |-> <<>>, rule |-> <<rule>>, window |-> <<w>>]
MCSpikes ==
  {Spike(ma, 12, hl, ~hl, FALSE, w, rule) : ma \in {1, 2}, hl \in BOOLEAN, w \in 1 .. 2, rule \in {"bullish", "either"}}
  \cup {Spike(2, 12, FALSE, FALSE, TRUE, 1, "bearish"),
        [Spike(2, 12, FALSE, FALSE, FALSE, 2, "either") EXCEPT !.session = <<[from |-> 5, to |-> 1]>>],
        [Spike(2, 12, FALSE, FALSE, FALSE, 2, "either") EXCEPT !.volMa = <<2, 3>>]}
Relative(rule, w, max) ==
  [avgLength |-> <<2>>, lsmaLength |-> <<2>>, rule |-> <<rule>>, window |-> <<w>>, min |-> <<12>>, max |-> max,
   volAlert |-> <<3>>]
MCRelative ==
  {Relative(rule, w, <<20>>) : w \in 1 .. 2,
     rule \in {"above", "between", "crossed_above", "crossed_below", "highest", "volume_alert", "increased_volume", "anomaly", "entry"}}
  \cup {Relative("between", 1, <<>>)}
Current(rule, count, w) ==
  [avgCount |-> <<count>>, atrLength |-> <<1>>, rule |-> <<rule>>, minValue |-> <<2>>, maxValue |-> <<>>,
   min |-> <<120>>, max |-> <<300>>, window |-> <<w>>, tolerance |-> <<5>>]
MCCurrent == {Current(rule, n, w) : rule \in CurrentRules, n \in {2, 3}, w \in 1 .. 2}

Condition0 ==
  [id |-> Missing, min |-> Missing, max |-> Missing, since |-> Missing, activeMin |-> Missing, activeMax |-> Missing,
   changeMin |-> Missing, changeMax |-> Missing, line |-> Missing, direction |-> Missing, distance |-> Missing, word |-> Missing]
Is(id) == [Condition0 EXCEPT !.id = id]
Rule(mode, conditions) == [mode |-> mode, conditions |-> conditions, rule |-> Missing, threshold |-> 200, window |-> 1]
MCAdx ==
  {Rule("bullish", <<Is(id)>>) :
     id \in {"di_crossed_above", "di_already_above", "di_near_cross", "di_touched_bounced", "di_separating",
             "di_opposite_falling_away", "adx_crossed_above_20", "adx_between_both", "adx_above_both",
             "adx_crossed_above_both", "adx_below_both", "bg_active", "bg_just_started", "adx_above_25"}}
  \cup {Rule("bullish", <<[Is(id) EXCEPT !.max = 2], [Is("adx_above_20") EXCEPT !.since = 1]>>) :
          id \in {"di_crossed_above", "bg_just_started"}}
  \cup {Rule("bullish", <<[Is("bg_active_for_x") EXCEPT !.activeMin = 2, !.activeMax = 3], Is("di_already_above")>>)}
  \cup {Rule("bullish", <<[Is(id) EXCEPT !.word = w]>>) :
          id \in {"adx_against_dominant", "adx_against_opposing"}, w \in {"below", "near", "crossed_above"}}
  \cup {Rule("compression", <<Is(id)>>) :
          id \in {"di_close_together", "di_touching", "di_pink_toward_blue", "adx_turning_up", "bg_changed_recently",
                  "adx_close_to_20", "di_plus_direction"}}
  \cup {Rule("weak", <<Is(id)>>) :
          id \in {"adx_below_both_di", "adx_falling", "adx_flat", "di_close_no_separation", "bg_mixed_or_changing",
                  "no_clean_di_cross", "no_adx_confirmation", "adx_below_20"}}
  \cup {[Rule(Missing, <<>>) EXCEPT !.rule = rule, !.window = w] : w \in {1},
          rule \in {"adx_above", "adx_below", "adx_rising", "adx_falling", "bullish", "trend_strength_increasing",
                    "bullish_trend", "strong_bullish_trend", "compression"}}
  \cup {[Rule(Missing, <<>>) EXCEPT !.rule = rule, !.window = w] : rule \in {"bullish_cross", "di_crossover"}, w \in 1 .. 3}
MCDirections ==
  {[Is(id) EXCEPT !.direction = d, !.changeMin = r[1], !.changeMax = r[2]] :
     id \in {"adx_direction", "di_plus_direction", "line_direction"}, d \in {Missing, "up", "flat"},
     r \in {<<Missing, Missing>>, <<1, 1>>, <<2, 3>>}}
  \cup {[Is("line_direction") EXCEPT !.line = "minus", !.min = 2], [Is("adx_direction") EXCEPT !.since = 2]}

Measured0(mode, window) ==
  [mode |-> <<mode>>, length |-> <<2>>, min |-> <<2500>>, max |-> <<>>, tolerance |-> <<>>, window |-> <<window>>]
Stop(source, rule, window) ==
  [mode |-> <<"vstop">>, length |-> <<2>>, source |-> <<source>>, factor |-> <<2>>, rule |-> <<rule>>, window |-> <<window>>]
MCVolatility ==
  {Measured0(mode, w) : mode \in VolatilityModes \ {"vstop"}, w \in 1 .. 2}
  \cup {[Measured0("range_avg", 2) EXCEPT !.max = <<3000>>, !.tolerance = <<100>>],
        [Measured0("returns_std", 1) EXCEPT !.max = <<4000>>], [Measured0("vstop", 1) EXCEPT !.length = <<1>>],
        [Measured0("range_avg", 1) EXCEPT !.length = <<2, 3>>]}
  \cup {Stop("close", rule, 2) : rule \in VolatilityRuleNames \ {"selected_alerts"}}
  \cup {Stop(source, rule, 1) : source \in {"low", "hl2"}, rule \in {"early_breach_uptrend", "early_breach_downtrend", "price_cross_stop"}}
  \cup {[alerts |-> <<alerts>>, delay |-> <<delay>>] @@ Stop("low", "selected_alerts", 1) :
          alerts \in {{"to_up", "breach_down"}, Alerts}, delay \in 0 .. 1}
  \cup {[minAtr |-> <<4>>, minDistance |-> <<20>>, tolerance |-> <<10>>] @@ Stop("close", rule, 1) :
          rule \in {"atr_above", "atr_below", "stop_distance_above_pct", "stop_distance_below_pct"}}

Linreg(position, location, length, window) ==
  [position |-> position, location |-> location, length |-> length, linReg |-> length > 1, smoothing |-> 2,
   tolerance |-> 0, window |-> window, confirm |-> Off]
MCLinreg ==
  {Linreg(p, Missing, 1, w) : p \in Positions \cup {"any_signal"}, w \in 1 .. 2}
  \cup {Linreg(p, Missing, 3, w) : p \in {"above", "piercing_from_below", "any_signal"}, w \in 1 .. 2}
  \cup {Linreg(p, "close_above", 1, 1) : p \in Positions \cup {"any_signal"}}
  \cup {Linreg(Missing, l, 1, 1) : l \in {"bullish", "close_below", "close_on"}}
  \cup {[Linreg(p, Missing, 1, 2) EXCEPT !.confirm = Bull, !.tolerance = t] :
          p \in {"above", "piercing_from_below", Missing}, t \in {0, 10}}

MCAsks ==
  [ema |-> MCEma, emaWave |-> MCEmaWave, rsi |-> MCRsi, aroon |-> MCAroon, macd |-> MCMacd, wave |-> MCWave, vlr |-> MCVlr, spikes |-> MCSpikes,
   relative |-> MCRelative, current |-> MCCurrent, volatility |-> MCVolatility, linreg |-> MCLinreg,
   adx |-> MCAdx, directions |-> MCDirections, periods |-> {2, 3},
   touches |-> {"touch_from_above", "piercing_from_below", "touched_or_pierced_and_closed_above", "close_above"}]
=============================================================================
