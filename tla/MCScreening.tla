---------------------------- MODULE MCScreening ----------------------------
(* Instances of Screening for TLC: two symbols, windows of up to four        *)
(* candles, and filters whose verdict depends on the whole window.           *)
EXTENDS Screening

CONSTANTS p, q

Highest(w) == {i \in DOMAIN w : \A j \in DOMAIN w : w[j] <= w[i]}

\* Dead when it falls over the window, recovering when the last candle rises;
\* an indicator raises when nothing moves; a channel needs two highs.
Example(f, w) ==
  CASE f = "dead_assets" ->
         IF w[1] <= w[Len(w)] THEN "passes"
         ELSE IF w[Len(w)] > w[Len(w) - 1] THEN "recovers" ELSE "fails"
    [] f = "indicators" ->
         IF Len(w) > 1 /\ Highest(w) = DOMAIN w THEN "raises"
         ELSE IF w[1] < w[Len(w)] \/ w[Len(w)] = 2 THEN "passes" ELSE "fails"
    [] f = "channel_respect" -> IF Cardinality(Highest(w)) >= 2 THEN "passes" ELSE "fails"
    [] f = "confluence" -> IF Len(w) \in Highest(w) THEN "passes" ELSE "fails"

Needs == [f \in Charted |-> CASE f = "dead_assets" -> 4 [] f = "indicators" -> 3
                              [] f = "channel_respect" -> 2 [] OTHER -> 1]
Spacings == [crypto \in BOOLEAN |-> IF crypto THEN 1 ELSE 2]
Begin == [now |-> 5, today |-> 5]

Since(t, prices) == [i \in DOMAIN prices |-> [time |-> t + i - 1, price |-> prices[i]]]
Candles == {Since(1, <<3, 1, 1, 2, 3>>), Since(1, <<1, 3, 3, 2, 1>>),
            Since(1, <<2, 2, 2, 2, 3>>), Since(4, <<1, 2>>)}
Bars(d, bars) == [i \in DOMAIN bars |-> [day |-> d + i - 1, high |-> bars[i][1], low |-> bars[i][2]]]
Days == {Bars(1, <<<<2, 1>>, <<4, 3>>, <<2, 1>>, <<5, 4>>, <<9, 6>>>>),
         Bars(2, <<<<2, 1>>, <<3, 4>>, <<7, 5>>, <<2, 1>>>>),
         Bars(4, <<<<5, 4>>>>)}
Markets ==
  {[candles |-> [s \in {p, q} |-> IF s = p THEN c ELSE Since(1, <<1, 2, 1, 2, 1>>)],
    days |-> [s \in {p, q} |-> IF s = p THEN d ELSE Bars(1, <<<<2, 1>>, <<3, 0>>, <<3, 2>>, <<6, 5>>, <<2, 1>>>>)]] :
     c \in Candles, d \in Days}

Adr(days, condition, crypto) ==
  [days |-> days, condition |-> condition, min |-> 1, max |-> 2, crypto |-> crypto]
Gap(days, direction, most) == [days |-> days, direction |-> direction, pct |-> 25, max |-> most]
Enabled == {on \in SUBSET Filter : Cardinality(on) <= 2} \cup {Filter, Charted}
Requests ==
  {r \in [on : Enabled, crypto : BOOLEAN, forming : BOOLEAN, fundamental : BOOLEAN,
          price : {[min |-> 2, max |-> 3]},
          adr : {Adr(2, "gte", FALSE), Adr(4, "between", TRUE), Adr(3, "lte", TRUE)},
          gap : {Gap(2, "up", 0), Gap(4, "down", 1)}] :
     /\ r.fundamental => "indicators" \in r.on
     /\ r.crypto => r.on \cap {"adr", "gap_exclusion"} # {}
     /\ "adr" \notin r.on => r.adr.condition = "gte"
     /\ "gap_exclusion" \notin r.on => r.gap.direction = "up"}
=============================================================================
