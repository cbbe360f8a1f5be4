----------------------------- MODULE MCChartRules -----------------------------
(* Candles around a line at 10; confluences of a lower line or zone around   *)
(* 10 with an upper one around 12.                                           *)
EXTENDS ChartRules

MCFamily == {"patterns", "lines", "confluence"}
K(open_, high, low, close) ==
  [open |-> open_, high |-> high, low |-> low, close |-> close, closed |-> TRUE]
MCShapes ==
  [patterns |-> {K(10, 10, 10, 10), K(8, 12, 8, 12), K(12, 12, 8, 8), K(10, 12, 5, 12), K(10, 15, 8, 8),
                 K(9, 12, 8, 11), K(7, 13, 6, 13), K(13, 14, 7, 7), K(8, 10, 8, 9)},
   lines |-> {K(9, 9, 8, 8), K(11, 12, 11, 12), K(8, 12, 8, 11), K(12, 12, 9, 11), K(9, 11, 8, 9),
              K(10, 10, 10, 10)},
   confluence |-> {K(9, 10, 8, 8), K(9, 11, 9, 11), K(11, 11, 9, 10), K(11, 13, 11, 13), K(11, 12, 10, 11),
                   K(13, 14, 12, 12)}]
MCLongest == [patterns |-> 4, lines |-> 6, confluence |-> 5]
MCLine == [i \in 1 .. 6 |-> 10]

Interacting(action, minBelow, belowMax, ageMin, ageMax, stillAbove) ==
  [action |-> action, minBelow |-> minBelow, belowMin |-> minBelow, belowMax |-> belowMax,
   ageMin |-> ageMin, ageMax |-> ageMax, stillAbove |-> stillAbove]
MCInteractionRules ==
  {Interacting(a, 1, Missing, 0, 1, TRUE) : a \in Interaction}
  \cup {Interacting(a, 1, Missing, 1, Missing, FALSE) : a \in Interaction}
  \cup {Interacting("reclaimed", 2, 3, 0, 2, TRUE)}

Off == [on |-> FALSE, types |-> {}, patterns |-> {}, window |-> 0]
Bull == [on |-> TRUE, types |-> {"bullish"}, patterns |-> {"doji"}, window |-> 1]
Windowed(action, window, tolerance, confirm) ==
  [action |-> action, window |-> window, tolerance |-> tolerance, touch |-> "both",
   tick |-> Missing, confirm |-> confirm]
MCWindowRules ==
  {Windowed(a, w, 0, Off) : a \in {"touch", "close_above", "close_below", "stay_above", "stay_below"},
                            w \in 1 .. 3}
  \cup {Windowed("touch", 2, 10, Bull), Windowed("close_above", 2, 10, Bull)}

MCRespectRules == {[pct |-> p, touch |-> t, gap |-> g] : p \in {0, 10}, t \in {"wick", "both"}, g \in {1, 3}}

Flat(v) == [i \in 1 .. 6 |-> v]
Low == [upper |-> Flat(12), middle |-> Flat(11), lower |-> Flat(10)]
High == [upper |-> Flat(13), middle |-> Flat(12), lower |-> Flat(11)]
Zone == [top |-> Flat(13), middle |-> Flat(11), bottom |-> Flat(9),
         top_zone_lower |-> Flat(12), top_zone_upper |-> Flat(13),
         bottom_zone_lower |-> Flat(9), bottom_zone_upper |-> Flat(10)]
Fitted0(id, type, lines) == [id |-> id, type |-> type, lines |-> lines]
MCChannels ==
  {[nested |-> TRUE, list |-> <<Fitted0("low", "lrc", Low), Fitted0("zone", "trend", Zone)>>],
   [nested |-> FALSE, list |-> <<Fitted0("lrc", "lrc", High), Fitted0("trend", "trend", Zone)>>]}

NoSub == [relation |-> "none", target |-> Missing, min |-> Missing, max |-> Missing]
Sub(relation, max) == [relation |-> relation, target |-> Missing, min |-> 1, max |-> max]
TypeOf(id) == IF id = "zone" THEN "trend" ELSE "lrc"
Two(id1, sel1, sub1, id2, sel2, sub2) ==
  <<[id |-> id1, type |-> TypeOf(id1), selection |-> sel1, sub |-> sub1],
    [id |-> id2, type |-> TypeOf(id2), selection |-> sel2, sub |-> sub2]>>
Config(type, lookback, sources, reclose, sweep) ==
  [type |-> type, lookback |-> lookback, pct |-> 5, sources |-> sources, reclose |-> reclose, sweep |-> sweep]
MCConfluences ==
  {Config(t, 3, Two("low", "lower", NoSub, "zone", "bottom_zone", NoSub), FALSE, FALSE) :
     t \in {"bullish", "bearish", "breakout", "any"}}
  \cup {[Config("role_reversal", 3, Two("zone", "bottom_zone", NoSub, "low", "lower", NoSub), TRUE, FALSE)
           EXCEPT !.pct = 10]}
  \cup {Config("bullish", 5, Two("zone", "middle", NoSub, "low", "bottom", NoSub), TRUE, FALSE),
        Config("bearish", 3, Two("low", "lower", NoSub, "zone", "top", NoSub), FALSE, FALSE),
        Config("breakout", 3, Two("low", "lower", NoSub, "low", "upper", Sub("close_above", 1)), FALSE, FALSE),
        Config("any", 2, Two("low", "unknown", NoSub, "zone", "unknown", Sub("close_above", 2)), FALSE, TRUE),
        Config("breakout", 3, Two("low", "upper", Sub("close_above", 2), "low", "middle", NoSub), FALSE, FALSE),
        Config("breakout", 4, Two("old1", Missing, NoSub, "old2", Missing, NoSub), FALSE, FALSE)}
MCAxis == 20
=============================================================================
