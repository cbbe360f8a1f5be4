------------------------------ MODULE ChartRules ------------------------------
(***************************************************************************)
(* The rules about a chart and the lines on it, while the chart grows: a   *)
(* step is one more closed candle.  A family of rules has candles and a    *)
(* length of its own, as the interesting charts of one are not those of    *)
(* another.  Lines stay where they are, which those of a channel do until  *)
(* it is fitted again.                                                     *)
(***************************************************************************)
EXTENDS ChannelRules, Confluence

CONSTANTS
  Family,            \* families of rules
  Shapes, Longest,   \* of a family: the candles, and the longest chart
  Line,              \* the line the rules are about, a function
  InteractionRules, WindowRules, RespectRules,
  Channels,          \* what channels an asset can have
  Confluences,
  Axis               \* twice the price that charts are mirrored at

\* What a request may say of an interaction, whose run is of one candle at least
\* (channel_interactions.py:138), and that what it leaves unset is no value of
\* any kind.
Option == Nat \cup {Missing}
InteractionRule ==
  [action : Interaction, minBelow : Nat \ {0}, belowMin : Option, belowMax : Option,
   ageMin : Nat, ageMax : Option, stillAbove : BOOLEAN]

ASSUME UnsetAssumption == Missing \notin Int
ASSUME RulesAssumption ==
  /\ InteractionRules \subseteq InteractionRule
  /\ \A r \in WindowRules :
       /\ DOMAIN r = {"action", "window", "tolerance", "touch", "tick", "confirm"}
       /\ DOMAIN r.confirm = {"on", "types", "patterns", "window"}
       /\ r.window \in Nat \ {0}

\* Prices, those of a line and of a channel's lines, and a tolerance are numbers;
\* rows whose low is above their high are no candles (market_data.py:479).  The
\* candles that come are closed.
ASSUME PricesAssumption ==
  /\ \A f \in Family : \A c \in Shapes[f] :
       {c.open, c.high, c.low, c.close} \subseteq Int /\ c.low <= c.high /\ c.closed
  /\ \A i \in DOMAIN Line : Line[i] \in Int
  /\ \A channels \in Channels : \A k \in DOMAIN channels.list :
       LET lines == channels.list[k].lines
       IN \A name \in DOMAIN lines : \A i \in DOMAIN lines[name] : lines[name][i] \in Int
  /\ \A config \in Confluences : config.pct \in Nat

VARIABLES family, chart
vars == <<family, chart>>

Init == family \in Family /\ chart = <<>>

\* One more candle closed.
Bar ==
  /\ Len(chart) < Longest[family]
  /\ \E c \in Shapes[family] : chart' = Append(chart, c)
  /\ UNCHANGED family

Next == Bar
Spec == Init /\ [][Next]_vars

----------------------------------------------------------------------------
(* Upside down. *)

Mirror(c) == [c EXCEPT !.open = Axis - @, !.close = Axis - @, !.high = Axis - c.low, !.low = Axis - c.high]
MirrorChart(cs) == Along(cs, LAMBDA s, i : Mirror(cs[i]))
MirrorLine(line) == [i \in DOMAIN line |-> Axis - line[i]]

Opposite == <<
  <<"bullish_engulfing", "bearish_engulfing">>, <<"hammer", "shooting_star">>,
  <<"morning_star", "evening_star">>, <<"piercing_line", "dark_cloud_cover">>,
  <<"tweezer_bottom", "tweezer_top">>, <<"bullish_pin_bar", "bearish_pin_bar">>,
  <<"double_bottom", "double_top">>, <<"three_white_soldiers", "three_black_crows">>,
  <<"bullish_marubozu", "bearish_marubozu">>, <<"bullish", "bearish">>,
  <<"strong_breakout_candle", "strong_breakdown_candle">>,
  <<"strong_bullish", "strong_bearish">>, <<"up", "down">>,
  <<"close_above", "close_below">>, <<"stay_above", "stay_below">>,
  <<"rejected_from_above", "rejected_from_below">> >>
MirrorName(x) ==
  LET pairs == {Opposite[k] : k \in DOMAIN Opposite}
  IN IF \E p \in pairs : x \in {p[1], p[2]}
     THEN LET p == CHOOSE q \in pairs : x \in {q[1], q[2]} IN IF x = p[1] THEN p[2] ELSE p[1]
     ELSE x

\* Nothing is decided by which way is up: patterns, confirmation, touches and
\* the rules of lines treat a chart and its mirror image alike.  The inverted
\* hammer alone has no counterpart in utils.py.
Mirrored(now) ==
  LET n == Len(now)
      image == MirrorChart(now)
      names(ps) == {MirrorName(p) : p \in ps \ {"inverted_hammer"}}
      exact == {r \in WindowRules : r.tolerance = 0 /\ r.action # "touch"}
      rejections == {r \in InteractionRules : r.action \in {"rejected_from_above", "rejected_from_below"}}
      flip(r) == [r EXCEPT !.action = MirrorName(@)]
  IN n > 0 =>
       /\ family = "patterns" =>
            /\ Patterns(image, n) \ {"inverted_hammer"} = names(Patterns(now, n))
            /\ \A t \in {"strong_bullish", "strong_bearish"} :
                 TypeMatches(image, n, t) = TypeMatches(now, n, MirrorName(t))
       /\ family = "lines" =>
            /\ \A type \in {"wick", "body", "both"}, d \in {"up", "down", "any"} :
                 Touches(Mirror(now[n]), 100 * (Axis - Line[n]) - 50, 100 * (Axis - Line[n]) + 50,
                         type, d)
                   = Touches(now[n], 100 * Line[n] - 50, 100 * Line[n] + 50, type, MirrorName(d))
            /\ \A r \in exact : HoldsForWindow(image, MirrorLine(Line), flip(r), "middle")
                                  = HoldsForWindow(now, Line, r, "middle")
            /\ \A r \in rejections : Interacts(image, MirrorLine(Line), flip(r))
                                       = Interacts(now, Line, r)

----------------------------------------------------------------------------
(* Events. *)

\* What a stage of an interaction's evidence says of its candle.
Says(now, stage) ==
  LET close == now[stage[1]].close
      line == Line[stage[1]]
      crossed == Crosses(now[stage[1]], line)
  IN CASE stage[2] \in {"closed_below", "came_from_below"} -> close < line
       [] stage[2] \in {"came_from_above", "still_above_now"} -> close > line
       [] stage[2] = "reclaim_close_above" -> close > line /\ now[stage[1] - 1].close < Line[stage[1] - 1]
       [] stage[2] = "rejected_close_above" -> close > line /\ crossed /\ now[stage[1] - 1].close > Line[stage[1] - 1]
       [] stage[2] = "pierced_close_above" -> close > line /\ crossed
       [] OTHER -> close < line /\ crossed

\* An interaction that passes is explained by candles of the chart which show
\* what the detail chart says of them, and a reclaim and a rejection never
\* explain each other's candle (channel_interactions.py:260-266).
StagesExplain(now) ==
  family = "lines" =>
    \A r \in InteractionRules : Interacts(now, Line, r) =>
      LET claimed == {s \in Stages(now, Line, r) : s[2] = "still_above_now" => r.stillAbove}
      IN claimed # {} /\ \A s \in claimed : s[1] \in DOMAIN now /\ Says(now, s)

\* A rule, for a chart with one more candle.
Aged(r) == [r EXCEPT !.ageMin = @ + 1, !.ageMax = IF @ = Missing THEN @ ELSE @ + 1]

\* One more candle makes the latest event one candle older, or is itself it.
Ages(cs, ds, r) ==
  LET before == LatestEvent(cs, Line, r)
      after == LatestEvent(ds, Line, r)
  IN /\ after \in {before, Len(ds)}
     /\ Interacts(cs, Line, r) /\ after = before
        /\ (r.action = "reclaimed" /\ r.stillAbove => StillAbove(ds, Line))
          => Interacts(ds, Line, Aged(r))

\* What happened stays: one more candle makes every event one candle older, or
\* is itself the latest event, and a rule with a range of ages follows.
EventsAge == [][family = "lines" => \A r \in InteractionRules : Ages(chart, chart', r)]_vars

----------------------------------------------------------------------------
(* Respect and confluence. *)

\* The scan of a line counts the touches that are their own: the first, and
\* each that is far enough from the touch before it, which the price left in
\* between; a longer chart takes none of them back.
RespectsDistinct ==
  family = "lines" =>
    \A r \in RespectRules :
      LET valued == DOMAIN chart \cap DOMAIN Line
          touches == {i \in valued : RespectTouch(chart[i], Line[i], r.pct, r.touch)}
          before(i) == Latest({j \in touches : j < i})
          left(i) == \E k \in valued \cap (before(i) + 1 .. i - 1) : Separated(chart[k], Line[k], r.pct, r.touch)
      IN RespectScan(chart, Line, r).respects
           = {i \in touches : before(i) # Missing => i - before(i) > ClusterGap(r.gap) /\ left(i)}

\* The matches of the confluences on a chart.
MatchesFresh(now) ==
  family = "confluence" =>
    \A channels \in Channels, config \in Confluences :
      LET match == Evaluate(now, channels, config)
          n == Len(now)
          source(k) == Sources(channels, config)[k]
          over(k) == now[n].close >= Lower(source(k), n)
      IN match # Missing =>
           /\ match[1] <= match[2] /\ n - match[1] < 4 /\ n - match[2] < config.lookback
           /\ config.type = "bullish" => over(2)
           /\ config.type = "breakout" => over(1) \/ over(2)
           /\ config.type = "bearish" =>
                100 * now[n].close <= 100 * Upper(source(1), n) + Tolerance(source(1), n, config.pct)

\* A confluence that passes is news that still holds: both its candles are
\* among the last four (IMPLEMENTATION_ROADMAP.md:63), the first is not after
\* the second, and the latest close is on the side that its kind is about.
ConfluenceFresh == [][MatchesFresh(chart')]_vars
=============================================================================
