------------------------------- MODULE Candles -------------------------------
(***************************************************************************)
(* What every rule on a chart is built from: whether an event's age or the *)
(* length of a run is in a range, how a candle touches a line, the         *)
(* candlestick patterns, and the confirmation a signal may ask for.        *)
(*                                                                         *)
(* A candle is a record [open, high, low, close, closed] of whole prices.  *)
(* Candles are numbered from 1, the oldest first.  A bound that the code   *)
(* computes from a percentage is kept in hundredths of a price, so that it *)
(* stays whole: a candle's price is compared with it as 100 * price.       *)
(*                                                                         *)
(* A definition whose comment starts with "Fault:" is no part of the       *)
(* specification, see GateSessions.                                        *)
(***************************************************************************)
EXTENDS Integers, Sequences, FiniteSets

CONSTANT Missing   \* None: an option that is not set, an event that never was

Distance(a, b) == IF a < b THEN b - a ELSE a - b
Larger(a, b) == IF a < b THEN b ELSE a
Smaller(a, b) == IF a < b THEN a ELSE b
Latest(S) == IF S = {} THEN Missing ELSE CHOOSE i \in S : \A j \in S : j <= i

\* The series of a chart whose value at candle i follows from those before it.
Along(cs, next(_, _)) ==
  LET upTo[i \in 0 .. Len(cs)] == IF i = 0 THEN <<>> ELSE LET s == upTo[i - 1] IN Append(s, next(s, i))
  IN upTo[Len(cs)]

\* consecutive_count_in_range; an option may be Missing.
CountInRange(count, min, max) ==
  /\ min # Missing => min <= count
  /\ max # Missing => count <= max

\* candles_since_in_range; an event that is Missing is in no range.
AgeInRange(event, now, min, max) ==
  event # Missing /\ now >= event /\ CountInRange(now - event, min, max)

\* selection_mode_pass
ModePasses(results, mode) ==
  LET passed == Cardinality({i \in DOMAIN results : results[i]})
  IN /\ results # <<>>
     /\ CASE mode = "any" -> passed >= 1
          [] mode = "one" -> passed = 1
          [] mode = "multiple" -> passed >= 2
          [] OTHER -> passed = Len(results)

\* completed_candles
Completed(candles) ==
  LET upTo[i \in 0 .. Len(candles)] ==
        IF i = 0 THEN <<>>
        ELSE IF candles[i].closed THEN Append(upTo[i - 1], candles[i]) ELSE upTo[i - 1]
  IN upTo[Len(candles)]

----------------------------------------------------------------------------
(* A candle and a band [lo, hi] of hundredths around a line. *)

Top(c) == Larger(c.open, c.close)
Bottom(c) == Smaller(c.open, c.close)
Body(c) == Top(c) - Bottom(c)
Height(c) == c.high - c.low
UpperWick(c) == c.high - Top(c)
LowerWick(c) == Bottom(c) - c.low
Bullish(c) == c.close > c.open
Bearish(c) == c.close < c.open

\* A touch from below keeps the body below the middle of the band, one from
\* above keeps it above; without a direction either will do.
BodyOnSide(c, lo, hi, direction) ==
  /\ direction = "up" => 200 * Top(c) <= lo + hi
  /\ direction = "down" => 200 * Bottom(c) >= lo + hi

BodyTouches(c, lo, hi, direction) ==
  /\ 100 * Bottom(c) <= hi /\ 100 * Top(c) >= lo
  /\ BodyOnSide(c, lo, hi, direction)

WickTouches(c, lo, hi, direction) ==
  LET upper == UpperWick(c) > 0 /\ 100 * Top(c) <= hi /\ 100 * c.high >= lo
      lower == LowerWick(c) > 0 /\ 100 * c.low <= hi /\ 100 * Bottom(c) >= lo
  IN CASE direction = "up" -> upper /\ BodyOnSide(c, lo, hi, direction)
       [] direction = "down" -> lower /\ BodyOnSide(c, lo, hi, direction)
       [] OTHER -> upper \/ lower

\* detect_touch
Touches(c, lo, hi, type, direction) ==
  \/ type \in {"wick", "both"} /\ WickTouches(c, lo, hi, direction)
  \/ type \in {"body", "both"} /\ BodyTouches(c, lo, hi, direction)

----------------------------------------------------------------------------
(* Candlestick patterns. *)

StrongBullish == {"three_white_soldiers", "bullish_marubozu", "strong_breakout_candle"}
StrongBearish == {"three_black_crows", "bearish_marubozu", "strong_breakdown_candle"}
BullishPatterns ==
  StrongBullish \cup {"bullish_engulfing", "hammer", "inverted_hammer", "morning_star",
                      "piercing_line", "tweezer_bottom", "bullish_pin_bar", "double_bottom"}
BearishPatterns ==
  StrongBearish \cup {"bearish_engulfing", "shooting_star", "evening_star",
                      "dark_cloud_cover", "tweezer_top", "bearish_pin_bar", "double_top"}
Pattern == BullishPatterns \cup BearishPatterns \cup {"doji"}

\* The closes of the three candles before i, which all rise or all fall.
TrendBefore(cs, i) ==
  LET all(rel(_, _)) == \A j \in i - 3 .. i - 2 : rel(cs[j].close, cs[j + 1].close)
  IN CASE i <= 3 -> "none"
       [] i > 3 /\ all(LAMBDA a, b : a < b) -> "up"
       [] i > 3 /\ all(LAMBDA a, b : a > b) -> "down"
       [] OTHER -> "none"

\* Two prices that differ by no more than a thousandth of the close.
Level(c, a, b) == 1000 * Distance(a, b) <= c.close

\* Shapes of one candle.
LongLowerWick(c) ==
  LowerWick(c) >= 2 * Body(c) /\ 100 * UpperWick(c) <= Larger(100 * Body(c), 15 * Height(c))
LongUpperWick(c) ==
  UpperWick(c) >= 2 * Body(c) /\ 100 * LowerWick(c) <= Larger(100 * Body(c), 15 * Height(c))

OfOne(cs, i) ==
  LET c == cs[i]
  IN {p \in Pattern :
       \/ p = "doji" /\ 10 * Body(c) <= Height(c)
       \/ p = "bullish_pin_bar" /\ LongLowerWick(c)
       \/ p = "hammer" /\ LongLowerWick(c) /\ TrendBefore(cs, i) = "down"
       \/ p = "bearish_pin_bar" /\ LongUpperWick(c)
       \/ p = "shooting_star" /\ LongUpperWick(c) /\ TrendBefore(cs, i) = "up"
       \/ p = "inverted_hammer" /\ LongUpperWick(c) /\ TrendBefore(cs, i) = "down"
       \/ p = "bullish_marubozu" /\ Bullish(c) /\ 100 * Body(c) >= 85 * Height(c)
       \/ p = "bearish_marubozu" /\ Bearish(c) /\ 100 * Body(c) >= 85 * Height(c)
       \/ /\ p = "strong_breakout_candle" /\ Bullish(c)
          /\ 10 * Body(c) >= 7 * Height(c) /\ 100 * UpperWick(c) <= 15 * Height(c)
       \/ /\ p = "strong_breakdown_candle" /\ Bearish(c)
          /\ 10 * Body(c) >= 7 * Height(c) /\ 100 * LowerWick(c) <= 15 * Height(c)}

\* Shapes of a candle and the one before it.
OfTwo(p, c) ==
  LET sum == p.open + p.close
      rises == Bearish(p) /\ Bullish(c)
      falls == Bullish(p) /\ Bearish(c)
  IN {x \in Pattern :
       \/ x = "bullish_engulfing" /\ rises /\ c.open <= p.close /\ c.close >= p.open
       \/ x = "bearish_engulfing" /\ falls /\ c.open >= p.close /\ c.close <= p.open
       \/ /\ x = "piercing_line" /\ rises /\ c.open < p.low
          /\ 2 * c.close > sum /\ c.close < p.open
       \/ /\ x = "dark_cloud_cover" /\ falls /\ c.open > p.high
          /\ 2 * c.close < sum /\ c.close > p.open
       \/ x = "tweezer_bottom" /\ Level(c, c.low, p.low) /\ Bullish(c)
       \/ x = "tweezer_top" /\ Level(c, c.high, p.high) /\ Bearish(c)}

\* Shapes of three candles.
OfThree(first, middle, c) ==
  LET small == 100 * Body(middle) <= 35 * Height(middle)
      sum == first.open + first.close
      over(a, b) == 1000 * (a - b) > c.close
  IN {x \in Pattern :
       \/ x = "morning_star" /\ Bearish(first) /\ small /\ Bullish(c) /\ 2 * c.close > sum
       \/ x = "evening_star" /\ Bullish(first) /\ small /\ Bearish(c) /\ 2 * c.close < sum
       \/ /\ x = "three_white_soldiers" /\ \A d \in {first, middle, c} : Bullish(d)
          /\ first.close < middle.close /\ middle.close < c.close
       \/ /\ x = "three_black_crows" /\ \A d \in {first, middle, c} : Bearish(d)
          /\ first.close > middle.close /\ middle.close > c.close
       \/ /\ x = "double_bottom" /\ Level(c, first.low, c.low)
          /\ over(middle.high, Larger(first.low, c.low))
       \/ /\ x = "double_top" /\ Level(c, first.high, c.high)
          /\ over(Smaller(first.high, c.high), middle.low)}

\* detect_candlestick_patterns
Patterns(cs, i) ==
  OfOne(cs, i)
  \cup (IF i > 1 THEN OfTwo(cs[i - 1], cs[i]) ELSE {})
  \cup (IF i > 2 THEN OfThree(cs[i - 2], cs[i - 1], cs[i]) ELSE {})

----------------------------------------------------------------------------
(* Confirmation: [on, types, patterns, window]. *)

TypeMatches(cs, i, type) ==
  LET strong == 10 * Body(cs[i]) > 6 * Height(cs[i])
      some(ps) == Patterns(cs, i) \cap ps # {}
  IN \/ type = "bullish" /\ (Bullish(cs[i]) \/ some(BullishPatterns))
     \/ type = "bearish" /\ (Bearish(cs[i]) \/ some(BearishPatterns))
     \/ type = "strong_bullish" /\ ((Bullish(cs[i]) /\ strong) \/ some(StrongBullish))
     \/ type = "strong_bearish" /\ ((Bearish(cs[i]) /\ strong) \/ some(StrongBearish))

\* Patterns that a selected type contradicts are dropped.
Sanitized(types, patterns) ==
  LET allowed == (IF types \cap {"bullish", "strong_bullish"} # {} THEN BullishPatterns ELSE {})
                 \cup (IF types \cap {"bearish", "strong_bearish"} # {} THEN BearishPatterns ELSE {})
  IN IF allowed = {} THEN patterns ELSE patterns \cap allowed

\* confirm_if_needed: the signal's candle or one of the next "window" confirms; a
\* window of none is one.
Confirmed(cs, i, want) ==
  LET window == IF want.window = 0 THEN 1 ELSE want.window
  IN want.on =>
    \E j \in i .. Smaller(i + window, Len(cs)) :
      /\ cs[j].closed
      /\ \/ \E t \in want.types : TypeMatches(cs, j, t)
         \/ Sanitized(want.types, want.patterns) \cap Patterns(cs, j) # {}
=============================================================================
