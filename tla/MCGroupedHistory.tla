------------------------- MODULE MCGroupedHistory -------------------------
(* Instances of GroupedHistory for TLC: a week of three days, the last its *)
(* weekend, and months of four days.                                       *)
EXTENDS GroupedHistory, TLC

CONSTANTS a, b

Both(amount, unit) == {[amount |-> amount, unit |-> unit, crypto |-> c] : c \in BOOLEAN}
Timeframes == UNION {Both(1, "d"), Both(2, "d"), Both(1, "w"), Both(2, "w"), Both(1, "mo")}

\* Early and late in a week, before and after the session's end and after
\* midnight in London.
Clocks ==
  {c \in [today : 22 .. 24, utc : 22 .. 25, closed : BOOLEAN, masks : BOOLEAN] :
     c.utc = c.today \/ (c.utc = c.today + 1 /\ c.closed)}

\* Symbols that always trade, with two holidays or new, one with gaps, one
\* without rows.
Listings ==
  LET always == 1 .. 25
  IN {(a :> always @@ b :> always \ {17, 20}), (a :> always @@ b :> 22 .. 25),
      (a :> {2, 5, 8, 14, 19, 20, 23} @@ b :> 9 .. 25), (a :> 11 .. 25 @@ b :> {})}

ByMarket == (TRUE :> 4 @@ FALSE :> 3)
Padded == (TRUE :> 1 @@ FALSE :> 2)
=============================================================================
