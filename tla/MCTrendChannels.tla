--------------------------- MODULE MCTrendChannels ---------------------------
(* Quiet bars, bars that reach further up or down, and bars far away, of    *)
(* which a chart has one kind only.                                         *)
EXTENDS TrendChannels

Bare(low, high, open_, close) ==
  [open |-> open_, high |-> high, low |-> low, close |-> close, closed |-> TRUE]
MCShapes == {Bare(99, 102, 100, 101), Bare(98, 104, 101, 100),
             Bare(199, 201, 199, 201), Bare(9, 11, 11, 9)}

Unconfirmed == [on |-> FALSE, types |-> {}, patterns |-> {}, window |-> 0]
Rule(area, action, touch, breach, window, tolerance) ==
  [area |-> area, action |-> action, touch |-> touch, breach |-> breach, window |-> window,
   tolerance |-> tolerance, confirm |-> Unconfirmed,
   minBelow |-> 1, belowMin |-> 1, belowMax |-> Missing, ageMin |-> 0, ageMax |-> 2, stillAbove |-> TRUE]
MCAreaRules ==
  {Rule("top_line", "touched", "wick", "any", 1, 0), Rule("bottom_line", "breach", "body", "any", 2, 0),
   Rule("middle_line", "closed_above", "wick", "any", 1, 0), Rule("top_line", "closed_below", "wick", "any", 2, 0),
   Rule("middle_line", "on_line", "wick", "any", 1, 10), Rule("middle_line", "rejected_from_above", "wick", "any", 1, 0),
   Rule("bottom_zone", "entered", "body", "any", 1, 0), Rule("top_zone", "rejected", "both", "any", 1, 0),
   Rule("middle_zone", "breach", "wick", "up", 1, 0), Rule("bottom_zone", "rejected_from_below", "wick", "any", 1, 0),
   Rule("middle_zone", "reclaimed", "wick", "any", 1, 0), Rule("top_line", "piercing", "wick", "any", 1, 0)}
MCAxis == 210

\* Far bars on one side only.
OneSided == ~(\E i, j \in DOMAIN bars : bars[i].low > 150 /\ bars[j].low < 50)
=============================================================================
