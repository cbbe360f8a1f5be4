-------------------------- MODULE MCIntradayHistory --------------------------
(* IntradayHistory on three days of four bars, three of them in the session: *)
(* two buckets a day, the second one short.  The stock trades on nearly all  *)
(* bars or on hardly any.                                                    *)
EXTENDS IntradayHistory

AllBars == 0 .. 9
MCTrading == {AllBars \ S : S \in kSubset(0, AllBars) \cup kSubset(1, AllBars)}
             \cup {AllBars \ {3, b} : b \in AllBars} \cup {AllBars \ {6, b} : b \in AllBars}
             \cup kSubset(1, AllBars) \cup {S \in kSubset(3, AllBars) : 1 \in S}
MCAsked == {13, 15, 18}
=============================================================================
