--------------------------- MODULE MCMarketCache ---------------------------
(* Instances of MarketCache for TLC. *)
EXTENDS MarketCache, TLC

FullHistory == [k \in Key |-> Deep]
\* Bars of unequal length, as of months; a bar closes within the bound.
Bars == [t \in Time |-> IF t = 0 THEN 1 ELSE 3]
\* Every answer is of settled candles, or may end with a stock's running day.
Settled == [k \in Key |-> {0}]
DailyStocks == [k \in Key |-> {0, 1}]
ScanSymmetry == Permutations(Scan)
=============================================================================
