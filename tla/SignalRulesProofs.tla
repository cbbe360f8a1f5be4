-------------------------- MODULE SignalRulesProofs --------------------------
(***************************************************************************)
(* For every set of candles, lines and rules, and charts of any length:    *)
(* the touches of a line that its respect counts are the distinct ones     *)
(* (RespectsDistinct), the candles that are outlined for the direction of  *)
(* a line are those that its rule counts (StreakExact), one more candle    *)
(* makes the events at a line one candle older (EventsAge), what a         *)
(* confluence combines is fresh and in its window (ConfluenceFresh), the   *)
(* volatility stop trails the price (StopTrails), a rule that asks for an  *)
(* age exactly is reported once in a run (ReportedOnce), and what the      *)
(* program says of a match is true of the chart (StickerTrue).             *)
(***************************************************************************)
EXTENDS SignalRules, FiniteSetTheorems, SequenceTheorems, TLAPS

----------------------------------------------------------------------------
(* Least and latest numbers. *)

Under == {pair \in Nat \X Nat : pair[1] < pair[2]}

LEMMA UnderWellFounded == IsWellFoundedOn(Under, Nat)
BY NatLessThanWellFounded DEF OpToRel, Under

\* Among numbers there is a least one.
LEMMA LeastNumber ==
  ASSUME NEW T \in SUBSET Nat, T # {}
  PROVE  \E x \in T : \A y \in T : x <= y
<1>1. PICK x \in T : \A y \in T : ~(<<y, x>> \in Under)
  BY UnderWellFounded, WFMin
<1>2. ASSUME NEW y \in T PROVE x <= y
  <2>1. x \in Nat /\ y \in Nat /\ ~(<<y, x>> \in Under)
    BY <1>1
  <2>2. <<y, x>> \in Nat \X Nat /\ <<y, x>>[1] = y /\ <<y, x>>[2] = x
    BY <2>1
  <2>3. ~(y < x)
    BY <2>1, <2>2 DEF Under
  <2> QED
    BY <2>1, <2>3
<1> QED
  BY <1>2

\* The latest of some candles is one of them, and none is later.
LEMMA LatestIs ==
  ASSUME NEW n \in Nat, NEW S \in SUBSET (0 .. n), S # {}
  PROVE  /\ Latest(S) \in S /\ Latest(S) \in 0 .. n
         /\ \A j \in S : j <= Latest(S)
<1> DEFINE T == {n - j : j \in S}
<1>1. T \in SUBSET Nat /\ T # {}
  OBVIOUS
<1>2. PICK x \in T : \A y \in T : x <= y
  <2> HIDE DEF T
  <2> QED
    BY <1>1, LeastNumber
<1>3. PICK m \in S : x = n - m
  BY <1>2
<1>4. ASSUME NEW j \in S PROVE j <= m
  <2>1. n - j \in T /\ m \in 0 .. n /\ j \in 0 .. n
    OBVIOUS
  <2>2. n - m <= n - j
    BY <1>2, <1>3, <2>1
  <2> QED
    BY <2>1, <2>2
<1>5. \E i \in S : \A j \in S : j <= i
  BY <1>4
<1>6. Latest(S) = CHOOSE i \in S : \A j \in S : j <= i
  BY DEF Latest
<1> QED
  BY <1>5, <1>6

\* ... and it is the only such candle.
LEMMA LatestOnly ==
  ASSUME NEW n \in Nat, NEW S \in SUBSET (0 .. n), NEW m \in S, \A j \in S : j <= m
  PROVE  Latest(S) = m
<1>1. Latest(S) \in S /\ Latest(S) \in 0 .. n /\ m <= Latest(S)
  BY LatestIs
<1>2. Latest(S) <= m /\ m \in 0 .. n
  BY <1>1
<1> QED
  BY <1>1, <1>2

----------------------------------------------------------------------------
(* The chart. *)

ChartOK == family \in Family /\ chart \in Seq(Shapes[family])

THEOREM ChartTyped == Spec => []ChartOK
<1>1. Init => ChartOK
  BY DEF Init, ChartOK
<1>2. ChartOK /\ [Next]_vars => ChartOK'
  <2> SUFFICES ASSUME ChartOK, [Next]_vars PROVE ChartOK'
    OBVIOUS
  <2>1. CASE Bar
    BY <2>1 DEF ChartOK, Bar
  <2>2. CASE UNCHANGED vars
    BY <2>2 DEF ChartOK, vars
  <2> QED
    BY <2>1, <2>2 DEF Next
<1> QED
  BY <1>1, <1>2, PTL DEF Spec

----------------------------------------------------------------------------
(* Runs, and the direction of a line. *)

\* A run of n's latest candles that are in H: all of them are, and the candle
\* before it is not.
LEMMA RunLengthIs ==
  ASSUME NEW n \in Nat, NEW H \in SUBSET (1 .. n)
  PROVE  /\ RunLength(n, H) \in 0 .. n
         /\ n - RunLength(n, H) \notin H
         /\ \A i \in n - RunLength(n, H) + 1 .. n : i \in H
         /\ RunLength(n, H) = 0 <=> n \notin H
<1> DEFINE S == {0} \union ((1 .. n) \ H)
           m == Latest(S)
<1>1. S \in SUBSET (0 .. n) /\ S # {}
  OBVIOUS
<1>2. m \in S /\ m \in 0 .. n /\ \A j \in S : j <= m
  <2> HIDE DEF S
  <2> QED
    BY <1>1, LatestIs
<1>3. RunLength(n, H) = n - m
  BY DEF RunLength
<1> HIDE DEF m
<1>4. n - (n - m) = m /\ n - m \in 0 .. n /\ m \notin H
  BY <1>2
<1>5. ASSUME NEW i \in m + 1 .. n PROVE i \in H
  <2>1. i \in 1 .. n /\ ~(i <= m)
    BY <1>2
  <2> QED
    BY <1>2, <2>1
<1>6. n - m = 0 <=> n \notin H
  <2>1. CASE n \notin H
    <3>1. n \in S
      BY <2>1
    <3> QED
      BY <1>2, <2>1, <3>1
  <2>2. CASE n \in H
    BY <1>4, <2>2
  <2> QED
    BY <2>1, <2>2
<1> QED
  BY <1>3, <1>4, <1>5, <1>6

\* The lines of a chart are as long as it is.
LEMMA LinesLong ==
  ASSUME NEW X, NEW cs \in Seq(X), NEW l \in {"plus", "minus", "adx"}
  PROVE  Len(AdxOf(cs)[l]) = Len(cs) /\ DOMAIN AdxOf(cs)[l] = 1 .. Len(cs)
<1> DEFINE V == {cs[i].a : i \in DOMAIN cs} \cup {cs[i].b : i \in DOMAIN cs} \cup {cs[i].c : i \in DOMAIN cs}
<1>1. DOMAIN cs = 1 .. Len(cs) /\ Len(cs) \in Nat
  OBVIOUS
<1>2. LineA(cs) \in [1 .. Len(cs) -> V] /\ LineB(cs) \in [1 .. Len(cs) -> V] /\ LineC(cs) \in [1 .. Len(cs) -> V]
  BY <1>1 DEF LineA, LineB, LineC
<1>3. AdxOf(cs)[l] \in {LineA(cs), LineB(cs), LineC(cs)}
  BY DEF AdxOf
<1>4. AdxOf(cs)[l] \in [1 .. Len(cs) -> V]
  BY <1>2, <1>3
<1> HIDE DEF V
<1>5. AdxOf(cs)[l] \in Seq(V)
  BY <1>1, <1>4
<1> QED
  BY <1>1, <1>4, <1>5

\* A line goes one way at a candle, or none that is known.
LEMMA WayIs ==
  ASSUME NEW line, NEW i
  PROVE  LineDirection(line, i) \in {Missing, "up", "down", "flat"}
BY DEF LineDirection

\* The streak that a condition counts is the run of candles at which its line
\* goes its way.
LEMMA StreakIs ==
  ASSUME NEW n \in Nat, NEW line, DOMAIN line = 1 .. n, Len(line) = n, NEW way
  PROVE  /\ Streak(line, way) \in 0 .. n
         /\ Streak(line, way) = 0 <=> ~(n \in 1 .. n /\ LineDirection(line, n) = way)
         /\ Streak(line, way) # 0 =>
              {i \in DOMAIN line : i >= n - Streak(line, way) /\ LineDirection(line, i) = way}
                = n - Streak(line, way) + 1 .. n
<1> DEFINE H == {i \in DOMAIN line : LineDirection(line, i) = way}
           k == Streak(line, way)
<1>1. H \in SUBSET (1 .. n) /\ k = RunLength(n, H)
  BY DEF Streak
<1>2. k \in 0 .. n /\ n - k \notin H /\ (\A i \in n - k + 1 .. n : i \in H) /\ (k = 0 <=> n \notin H)
  <2> HIDE DEF H, k
  <2> QED
    BY <1>1, RunLengthIs
<1> HIDE DEF k
<1>3. n \notin H <=> ~(n \in 1 .. n /\ LineDirection(line, n) = way)
  OBVIOUS
<1>4. ASSUME k # 0
      PROVE  {i \in DOMAIN line : i >= n - k /\ LineDirection(line, i) = way} = n - k + 1 .. n
  <2>1. ASSUME NEW i \in H, i >= n - k PROVE i \in n - k + 1 .. n
    <3>1. i \in 1 .. n /\ i # n - k
      BY <1>2, <2>1
    <3> QED
      BY <1>2, <2>1, <3>1
  <2>2. ASSUME NEW i \in n - k + 1 .. n PROVE i \in H /\ i >= n - k
    BY <1>2, <2>2
  <2> QED
    BY <2>1, <2>2
<1> QED
  BY <1>2, <1>3, <1>4 DEF k

\* What is set, is no missing option.
LEMMA Set ==
  /\ \A x \in Int : x # Missing
  /\ Missing \notin {"plus", "minus", "adx", "up", "down", "flat"}
  /\ \A w \in {"up", "down", "flat"}, i, j \in Int : [direction |-> w, from |-> i, to |-> j] # Missing
BY UnsetAssumption, AsksAssumption

\* A condition that is outlined on the line that it is counted on.
LEMMA LineIs ==
  ASSUME NEW c \in AdxCondition, c.line \in {Missing, Given(LineById(c.id), c.line)}
  PROVE  /\ Given(LineById(c.id), Given(c.line, "adx")) \in {"plus", "minus", "adx"}
         /\ Given(c.line, Given(LineById(c.id), "adx")) = Given(LineById(c.id), Given(c.line, "adx"))
<1>1. LineById(c.id) \in {Missing, "plus", "minus", "adx"} /\ c.line \in {Missing, "plus", "minus", "adx"}
  BY DEF LineById, AdxCondition
<1> QED
  BY <1>1, Set DEF Given

\* A range of lengths that is given is the one that counts.
LEMMA RangeIs ==
  ASSUME NEW c \in AdxCondition, c.changeMin # Missing, c.changeMax # Missing, NEW k \in Nat
  PROVE  /\ StreakRange(c, k) <=> k \in c.changeMin .. Larger(c.changeMin, c.changeMax)
         /\ {c.min, c.max, c.changeMin, c.changeMax, c.since} # {Missing}
<1>1. c.changeMin \in Nat /\ c.changeMax \in Nat
  BY DEF AdxCondition, Option
<1>2. AdxRange(c.changeMin, c.changeMax, c.since, 0)
        = [min |-> c.changeMin, max |-> Larger(c.changeMax, c.changeMin)]
  BY DEF AdxRange, Given
<1>3. Larger(c.changeMax, c.changeMin) \in Nat
      /\ Larger(c.changeMax, c.changeMin) = Larger(c.changeMin, c.changeMax)
  BY <1>1 DEF Larger
<1>4. Larger(c.changeMax, c.changeMin) # Missing
  BY <1>3, Set
<1>5. StreakRange(c, k) <=> c.changeMin <= k /\ k <= Larger(c.changeMax, c.changeMin)
  BY <1>2, <1>4 DEF StreakRange, CountInRange
<1> QED
  BY <1>1, <1>3, <1>5

\* StreakExact, at every chart.
LEMMA StreakStep == ASSUME ChartOK PROVE StreakExact
<1> SUFFICES ASSUME NEW c \in Asks.directions, c.line \in {Missing, Given(LineById(c.id), c.line)}
             PROVE
      LET s == AdxOf(chart)
          line == s[Given(LineById(c.id), Given(c.line, "adx"))]
          e == StreakEvidence(s, c)
      IN /\ DirectionPasses(s, Unranged(c)) <=> e # Missing
         /\ e # Missing =>
              /\ {i \in DOMAIN line : i >= e.from - 1 /\ LineDirection(line, i) = e.direction} = e.from .. e.to
              /\ e.to = Len(chart)
         /\ c.changeMin # Missing /\ c.changeMax # Missing =>
              (DirectionPasses(s, c)
                 <=> e # Missing /\ e.to - e.from + 1 \in c.changeMin .. Larger(c.changeMin, c.changeMax))
  BY DEF StreakExact
<1> DEFINE s == AdxOf(chart)
           line == s[Given(LineById(c.id), Given(c.line, "adx"))]
           e == StreakEvidence(s, c)
           free == Unranged(c)
           n == Len(chart)
           way == Asked(line, c)
           k == Streak(line, way)
<1>1. c \in AdxCondition /\ c.id \in DirectionIds
  BY AsksAssumption DEF AdxCondition
<1>2. n \in Nat /\ Len(line) = n /\ DOMAIN line = 1 .. n
  <2>1. chart \in Seq(Shapes[family])
    BY DEF ChartOK
  <2>2. Given(LineById(c.id), Given(c.line, "adx")) \in {"plus", "minus", "adx"}
    BY <1>1, LineIs
  <2> QED
    BY <2>1, <2>2, LinesLong
<1>3. s[Given(c.line, Given(LineById(c.id), "adx"))] = line
  BY <1>1, LineIs
<1>4. /\ free.id = c.id /\ free.line = c.line /\ free.direction = c.direction
      /\ {free.min, free.max, free.changeMin, free.changeMax, free.since} = {Missing}
  BY <1>1 DEF AdxCondition, Unranged
<1>5. way \in {Missing, "up", "down", "flat"}
  BY WayIs DEF Asked
<1>6. /\ k \in 0 .. n
      /\ k = 0 <=> ~(n \in 1 .. n /\ LineDirection(line, n) = way)
      /\ k # 0 => {i \in DOMAIN line : i >= n - k /\ LineDirection(line, i) = way} = n - k + 1 .. n
  <2> HIDE DEF line, n, way
  <2> QED
    BY <1>2, StreakIs
<1>7. e = IF n < 2 \/ way = Missing \/ k = 0 THEN Missing
          ELSE [direction |-> way, from |-> n - k + 1, to |-> n]
  <2> HIDE DEF s, line, n, way, k
  <2>1. Asked(line, c) = way /\ Streak(line, way) = k /\ Len(line) = n
    BY <1>2 DEF way, k
  <2> QED
    BY <1>1, <1>3, <2>1 DEF StreakEvidence
<1>8. DirectionPasses(s, free) <=> n >= 2 /\ way # Missing /\ LineDirection(line, n) = way
  <2>1. Asked(line, free) = way
    BY <1>4 DEF Asked
  <2>2. s[Given(LineById(free.id), Given(free.line, "adx"))] = line
    BY <1>4
  <2> HIDE DEF s, line, n, way, k, free
  <2> QED
    BY <1>2, <1>4, <2>1, <2>2 DEF DirectionPasses
<1>9. ASSUME c.changeMin # Missing, c.changeMax # Missing
      PROVE  DirectionPasses(s, c)
               <=> /\ n >= 2 /\ way # Missing /\ LineDirection(line, n) = way
                   /\ k \in c.changeMin .. Larger(c.changeMin, c.changeMax)
  <2>1. Asked(line, c) = way /\ Streak(line, way) = k
    OBVIOUS
  <2>2. s[Given(LineById(c.id), Given(c.line, "adx"))] = line
    OBVIOUS
  <2>3. k \in Nat
    BY <1>6
  <2> HIDE DEF s, line, n, way, k
  <2>4. StreakRange(c, k) <=> k \in c.changeMin .. Larger(c.changeMin, c.changeMax)
    BY <1>1, <1>9, <2>3, RangeIs
  <2>5. {c.min, c.max, c.changeMin, c.changeMax, c.since} # {Missing}
    BY <1>1, <1>9, <2>3, RangeIs
  <2> QED
    BY <1>2, <2>1, <2>2, <2>4, <2>5 DEF DirectionPasses
<1> HIDE DEF s, line, n, way, k, e, free
<1>10. e # Missing <=> n >= 2 /\ way # Missing /\ LineDirection(line, n) = way
  <2>1. [direction |-> way, from |-> n - k + 1, to |-> n] # Missing \/ way = Missing
    <3>1. n - k + 1 \in Int /\ n \in Int
      BY <1>2, <1>6
    <3> QED
      BY <1>5, <3>1, Set
  <2> QED
    BY <1>2, <1>6, <1>7, <2>1
<1>11. ASSUME e # Missing
       PROVE  e.from = n - k + 1 /\ e.to = n /\ e.direction = way /\ k # 0
  BY <1>7, <1>11
<1>12. e # Missing => {i \in DOMAIN line : i >= e.from - 1 /\ LineDirection(line, i) = e.direction} = e.from .. e.to
  <2>1. n - k + 1 - 1 = n - k
    BY <1>2, <1>6
  <2> QED
    BY <1>6, <1>11, <2>1
<1>13. e # Missing => e.to - e.from + 1 = k
  BY <1>2, <1>6, <1>11
<1> QED
  BY <1>8, <1>9, <1>10, <1>11, <1>12, <1>13 DEF n, s, line, e, free

\* For every chart, line and condition: what is outlined is what is counted.
THEOREM StreakExactHolds == Spec => []StreakExact
BY ChartTyped, StreakStep, PTL

----------------------------------------------------------------------------
(* The respect of a line. *)

\* One candle of the scan, after the candles that led to s.
Scanned(cs, line, rule, i, s) ==
  LET distinct == s.last = Missing \/ (i - s.last > ClusterGap(rule.gap) /\ s.away)
  IN CASE i \notin DOMAIN line -> s
       [] i \in DOMAIN line /\ RespectTouch(cs[i], line[i], rule.pct, rule.touch) ->
            [last |-> i, away |-> FALSE,
             respects |-> s.respects \cup (IF distinct THEN {i} ELSE {})]
       [] OTHER -> [s EXCEPT !.away = @ \/ (/\ s.last # Missing
                                           /\ Separated(cs[i], line[i], rule.pct, rule.touch))]
Unscanned == [last |-> Missing, away |-> FALSE, respects |-> {}]

\* What the scan knows after candle i: the last touch, whether a candle since
\* was away, and the touches that are distinct from the one before them.
Valued(cs, line) == DOMAIN cs \cap DOMAIN line
TouchesOf(cs, line, rule) ==
  {i \in Valued(cs, line) : RespectTouch(cs[i], line[i], rule.pct, rule.touch)}
UpTo(S, i) == {j \in S : j <= i}
AwaySince(cs, line, rule, from, to) ==
  \E k \in Valued(cs, line) \cap (from + 1 .. to) : Separated(cs[k], line[k], rule.pct, rule.touch)
DistinctTouch(cs, line, rule, i) ==
  LET before == Latest(UpTo(TouchesOf(cs, line, rule), i - 1))
  IN before # Missing => i - before > ClusterGap(rule.gap) /\ AwaySince(cs, line, rule, before, i - 1)
Known0(cs, line, rule, i) ==
  LET T == UpTo(TouchesOf(cs, line, rule), i)
  IN [last |-> Latest(T),
      away |-> T # {} /\ AwaySince(cs, line, rule, Latest(T), i),
      respects |-> {j \in T : DistinctTouch(cs, line, rule, j)}]

\* The latest of no candles is none.
LEMMA LatestNone ==
  ASSUME NEW n \in Nat, NEW S \in SUBSET (0 .. n)
  PROVE  Latest(S) = Missing <=> S = {}
<1>1. CASE S = {}
  BY <1>1 DEF Latest
<1>2. CASE S # {}
  <2>1. Latest(S) \in 0 .. n
    BY <1>2, LatestIs
  <2>2. Latest(S) \in Int
    BY <2>1
  <2> QED
    BY <1>2, <2>2, Set
<1> QED
  BY <1>1, <1>2

\* Before the first candle nothing is known.
LEMMA KnownFirst ==
  ASSUME NEW X, NEW cs \in Seq(X), NEW line, NEW rule
  PROVE  Known0(cs, line, rule, 0) = Unscanned
<1>1. UpTo(TouchesOf(cs, line, rule), 0) = {}
  <2>1. DOMAIN cs = 1 .. Len(cs) /\ Len(cs) \in Nat
    OBVIOUS
  <2> QED
    BY <2>1 DEF UpTo, TouchesOf, Valued
<1> QED
  BY <1>1 DEF Known0, Latest, Unscanned

\* Each candle of the scan leads from what is known before it to what is known
\* after it.
LEMMA KnownNext ==
  ASSUME NEW X, NEW cs \in Seq(X), NEW line, NEW rule, NEW i \in 1 .. Len(cs)
  PROVE  Known0(cs, line, rule, i) = Scanned(cs, line, rule, i, Known0(cs, line, rule, i - 1))
<1> DEFINE n == Len(cs)
           T == TouchesOf(cs, line, rule)
           B == UpTo(T, i - 1)
           A == UpTo(T, i)
           s == Known0(cs, line, rule, i - 1)
           touch == RespectTouch(cs[i], line[i], rule.pct, rule.touch)
           sep(k) == Separated(cs[k], line[k], rule.pct, rule.touch)
           away(from, to) == AwaySince(cs, line, rule, from, to)
<1>1. DOMAIN cs = 1 .. n /\ n \in Nat
  OBVIOUS
<1>2. T \in SUBSET (1 .. n) /\ A \in SUBSET (0 .. n) /\ B \in SUBSET (0 .. n)
  BY <1>1 DEF TouchesOf, Valued, UpTo
<1>3. i \in T <=> i \in DOMAIN line /\ touch
  BY <1>1 DEF TouchesOf, Valued
<1>4. A = B \cup (IF i \in T THEN {i} ELSE {})
  BY <1>1, <1>2 DEF UpTo
<1>5. \A j \in B : j \in 1 .. i - 1
  BY <1>1, <1>2 DEF UpTo
<1>6. /\ Latest(B) = Missing <=> B = {}
      /\ B # {} => Latest(B) \in 1 .. i - 1
  <2>1. Latest(B) = Missing <=> B = {}
    <3> HIDE DEF B
    <3> QED
      BY <1>1, <1>2, LatestNone
  <2>2. B # {} => Latest(B) \in B
    <3> HIDE DEF B
    <3> QED
      BY <1>1, <1>2, LatestIs
  <2> QED
    BY <1>5, <2>1, <2>2
<1>7. /\ s.last = Latest(B) /\ s.away = (B # {} /\ away(Latest(B), i - 1))
      /\ s.respects = {j \in B : DistinctTouch(cs, line, rule, j)}
      /\ s = [last |-> Latest(B), away |-> B # {} /\ away(Latest(B), i - 1),
              respects |-> {j \in B : DistinctTouch(cs, line, rule, j)}]
  BY DEF Known0
<1>8. CASE i \notin DOMAIN line
  <2>1. A = B
    BY <1>3, <1>4, <1>8
  <2>2. B # {} => (away(Latest(B), i) <=> away(Latest(B), i - 1))
    <3> SUFFICES ASSUME B # {} PROVE away(Latest(B), i) <=> away(Latest(B), i - 1)
      OBVIOUS
    <3>1. Latest(B) \in Int /\ i \in Int
      BY <1>1, <1>6
    <3>2. \A k \in Valued(cs, line) : k \in Int /\ k # i
      BY <1>1, <1>8 DEF Valued
    <3>3. Valued(cs, line) \cap (Latest(B) + 1 .. i) = Valued(cs, line) \cap (Latest(B) + 1 .. i - 1)
      <4> HIDE DEF B
      <4> QED
        BY <3>1, <3>2
    <3> QED
      BY <3>3 DEF AwaySince
  <2>3. (B # {} /\ away(Latest(B), i)) = (B # {} /\ away(Latest(B), i - 1))
    BY <2>2
  <2>4. Known0(cs, line, rule, i) = s
    BY <1>7, <2>1, <2>3 DEF Known0
  <2> QED
    BY <1>8, <2>4 DEF Scanned
<1>9. CASE i \in DOMAIN line /\ touch
  <2>1. A = B \cup {i} /\ A # {} /\ i \in A
    BY <1>3, <1>4, <1>9
  <2>2. Latest(A) = i
    <3>1. \A j \in A : j <= i
      BY <1>5, <2>1
    <3> HIDE DEF A
    <3> QED
      BY <1>1, <1>2, <2>1, <3>1, LatestOnly
  <2>3. ~away(i, i)
    <3>1. i + 1 .. i = {}
      BY <1>1
    <3> QED
      BY <3>1 DEF AwaySince
  <2>4. DistinctTouch(cs, line, rule, i)
          <=> (s.last = Missing \/ (i - s.last > ClusterGap(rule.gap) /\ s.away))
    <3>1. DistinctTouch(cs, line, rule, i)
            <=> (Latest(B) # Missing => i - Latest(B) > ClusterGap(rule.gap) /\ away(Latest(B), i - 1))
      BY DEF DistinctTouch
    <3> HIDE DEF B, s, away
    <3> QED
      BY <1>6, <1>7, <3>1
  <2>5. {j \in A : DistinctTouch(cs, line, rule, j)}
          = s.respects \cup (IF s.last = Missing \/ (i - s.last > ClusterGap(rule.gap) /\ s.away) THEN {i} ELSE {})
    <3> HIDE DEF A, B, s
    <3> QED
      BY <1>7, <2>1, <2>4
  <2>6. Known0(cs, line, rule, i)
          = [last |-> i, away |-> FALSE, respects |-> {j \in A : DistinctTouch(cs, line, rule, j)}]
    <3>1. (A # {} /\ away(Latest(A), i)) = FALSE
      BY <2>2, <2>3
    <3> QED
      BY <2>2, <3>1 DEF Known0
  <2>7. Scanned(cs, line, rule, i, s)
          = [last |-> i, away |-> FALSE,
             respects |-> s.respects \cup (IF s.last = Missing \/ (i - s.last > ClusterGap(rule.gap) /\ s.away)
                                           THEN {i} ELSE {})]
    <3> HIDE DEF s
    <3> QED
      BY <1>9 DEF Scanned
  <2> HIDE DEF A, B
  <2> QED
    BY <2>5, <2>6, <2>7
<1>10. CASE i \in DOMAIN line /\ ~touch
  <2>1. A = B
    BY <1>3, <1>4, <1>10
  <2>2. B # {} => (away(Latest(B), i) <=> away(Latest(B), i - 1) \/ sep(i))
    <3> SUFFICES ASSUME B # {} PROVE away(Latest(B), i) <=> away(Latest(B), i - 1) \/ sep(i)
      OBVIOUS
    <3>1. Latest(B) \in 1 .. i - 1 /\ i \in Int
      BY <1>1, <1>6
    <3>2. i \in Valued(cs, line) /\ \A k \in Valued(cs, line) : k \in Int
      BY <1>1, <1>10 DEF Valued
    <3>3. Valued(cs, line) \cap (Latest(B) + 1 .. i) = (Valued(cs, line) \cap (Latest(B) + 1 .. i - 1)) \cup {i}
      <4> HIDE DEF B
      <4> QED
        BY <3>1, <3>2
    <3> QED
      BY <3>3 DEF AwaySince
  <2>3. (B # {} /\ away(Latest(B), i))
          = ((B # {} /\ away(Latest(B), i - 1)) \/ (Latest(B) # Missing /\ sep(i)))
    BY <1>6, <2>2
  <2>4. Known0(cs, line, rule, i)
          = [last |-> Latest(B), away |-> ((B # {} /\ away(Latest(B), i - 1)) \/ (Latest(B) # Missing /\ sep(i))),
             respects |-> {j \in B : DistinctTouch(cs, line, rule, j)}]
    BY <2>1, <2>3 DEF Known0
  <2>5. [s EXCEPT !.away = @ \/ (s.last # Missing /\ sep(i))]
          = [last |-> Latest(B), away |-> ((B # {} /\ away(Latest(B), i - 1)) \/ (Latest(B) # Missing /\ sep(i))),
             respects |-> {j \in B : DistinctTouch(cs, line, rule, j)}]
    <3> DEFINE b == (B # {} /\ away(Latest(B), i - 1)) \/ (Latest(B) # Missing /\ sep(i))
    <3>1. b = (s.away \/ (s.last # Missing /\ sep(i)))
      BY <1>7
    <3> DEFINE was == B # {} /\ away(Latest(B), i - 1)
               found == {j \in B : DistinctTouch(cs, line, rule, j)}
    <3>2. s = [last |-> Latest(B), away |-> was, respects |-> found]
      BY <1>7
    <3> HIDE DEF b, was, found
    <3>3. [s EXCEPT !.away = b] = [last |-> Latest(B), away |-> b, respects |-> found]
      <4> HIDE DEF B, s, away
      <4> QED
        BY <3>2
    <3>4. [s EXCEPT !.away = @ \/ (s.last # Missing /\ sep(i))] = [s EXCEPT !.away = b]
      <4> HIDE DEF B, s, away, sep
      <4> QED
        BY <3>1, Zenon
    <3> QED
      BY <3>3, <3>4, Zenon DEF b, found
  <2> QED
    BY <1>10, <2>4, <2>5 DEF Scanned
<1> QED
  BY <1>8, <1>9, <1>10

\* The scan is what is known after the last candle.
LEMMA ScanIs ==
  ASSUME NEW X, NEW cs \in Seq(X), NEW line, NEW rule
  PROVE  RespectScan(cs, line, rule) = Known0(cs, line, rule, Len(cs))
<1> DEFINE n == Len(cs)
           Whole(f) == [i \in 0 .. n |-> IF i = 0 THEN Unscanned ELSE Scanned(cs, line, rule, i, f[i - 1])]
           g == [i \in 0 .. n |-> Known0(cs, line, rule, i)]
           scan == CHOOSE f : f = Whole(f)
<1>1. n \in Nat
  OBVIOUS
<1>2. g = Whole(g)
  <2>1. ASSUME NEW i \in 0 .. n
        PROVE  Known0(cs, line, rule, i) = IF i = 0 THEN Unscanned ELSE Scanned(cs, line, rule, i, g[i - 1])
    <3>1. CASE i = 0
      BY <3>1, KnownFirst
    <3>2. CASE i # 0
      <4>1. i \in 1 .. n /\ i - 1 \in 0 .. n
        BY <1>1, <3>2
      <4>2. g[i - 1] = Known0(cs, line, rule, i - 1)
        BY <4>1
      <4>3. Known0(cs, line, rule, i) = Scanned(cs, line, rule, i, Known0(cs, line, rule, i - 1))
        BY <4>1, KnownNext
      <4> HIDE DEF g, n
      <4> QED
        BY <3>2, <4>2, <4>3
    <3> QED
      BY <3>1, <3>2
  <2> QED
    BY <2>1
<1>3. scan = Whole(scan)
  <2> HIDE DEF Whole, g
  <2> QED
    BY <1>2
<1>4. \A i \in 0 .. n : scan[i] = g[i]
  <2> DEFINE U == {i \in 0 .. n : scan[i] # g[i]}
  <2>1. SUFFICES ASSUME U # {} PROVE FALSE
    OBVIOUS
  <2>2. PICK i \in U : \A j \in U : i <= j
    <3>1. U \in SUBSET Nat
      BY <1>1
    <3> HIDE DEF U
    <3> QED
      BY <2>1, <3>1, LeastNumber
  <2>3. i \in 0 .. n /\ scan[i] # g[i]
    BY <2>2
  <2> HIDE DEF g
  <2>4. /\ scan[i] = IF i = 0 THEN Unscanned ELSE Scanned(cs, line, rule, i, scan[i - 1])
        /\ g[i] = IF i = 0 THEN Unscanned ELSE Scanned(cs, line, rule, i, g[i - 1])
    <3> DEFINE h == scan
    <3>1. h = Whole(h)
      BY <1>3
    <3> HIDE DEF scan, h
    <3>2. h[i] = IF i = 0 THEN Unscanned ELSE Scanned(cs, line, rule, i, h[i - 1])
      BY <2>3, <3>1
    <3>3. g[i] = IF i = 0 THEN Unscanned ELSE Scanned(cs, line, rule, i, g[i - 1])
      BY <1>2, <2>3
    <3> QED
      BY <3>2, <3>3 DEF h
  <2> HIDE DEF scan
  <2>5. i # 0
    BY <2>3, <2>4
  <2>6. i - 1 \in 0 .. n /\ ~(i <= i - 1)
    BY <1>1, <2>3, <2>5
  <2>7. scan[i - 1] = g[i - 1]
    BY <2>2, <2>6
  <2> HIDE DEF n
  <2> QED
    BY <2>3, <2>4, <2>5, <2>7
<1>5. RespectScan(cs, line, rule) = scan[n]
  BY DEF RespectScan, Scanned, Unscanned
<1>6. n \in 0 .. n /\ g[n] = Known0(cs, line, rule, n)
  BY <1>1
<1> HIDE DEF scan, g
<1> QED
  BY <1>4, <1>5, <1>6

\* RespectsDistinct, at every chart.
LEMMA RespectStep == ASSUME ChartOK PROVE RespectsDistinct
<1> SUFFICES ASSUME NEW r \in RespectRules PROVE
      LET valued == DOMAIN chart \cap DOMAIN Line
          touches == {i \in valued : RespectTouch(chart[i], Line[i], r.pct, r.touch)}
          before(i) == Latest({j \in touches : j < i})
          left(i) == \E k \in valued \cap (before(i) + 1 .. i - 1) : Separated(chart[k], Line[k], r.pct, r.touch)
      IN RespectScan(chart, Line, r).respects
           = {i \in touches : before(i) # Missing => i - before(i) > ClusterGap(r.gap) /\ left(i)}
  BY DEF RespectsDistinct
<1> DEFINE valued == DOMAIN chart \cap DOMAIN Line
           touches == {i \in valued : RespectTouch(chart[i], Line[i], r.pct, r.touch)}
           before(i) == Latest({j \in touches : j < i})
           left(i) == \E k \in valued \cap (before(i) + 1 .. i - 1) : Separated(chart[k], Line[k], r.pct, r.touch)
           n == Len(chart)
<1>1. chart \in Seq(Shapes[family]) /\ n \in Nat /\ DOMAIN chart = 1 .. n
  BY DEF ChartOK
<1>2. touches = TouchesOf(chart, Line, r) /\ valued = Valued(chart, Line)
  BY DEF TouchesOf, Valued
<1>3. UpTo(touches, n) = touches
  BY <1>1 DEF UpTo
<1>4. RespectScan(chart, Line, r).respects = {i \in touches : DistinctTouch(chart, Line, r, i)}
  <2>1. RespectScan(chart, Line, r) = Known0(chart, Line, r, n)
    BY <1>1, ScanIs
  <2> HIDE DEF touches, valued, n
  <2> QED
    BY <1>2, <1>3, <2>1 DEF Known0
<1>5. ASSUME NEW i \in touches
      PROVE  DistinctTouch(chart, Line, r, i) <=> (before(i) # Missing => i - before(i) > ClusterGap(r.gap) /\ left(i))
  <2>1. UpTo(touches, i - 1) = {j \in touches : j < i}
    BY <1>1 DEF UpTo
  <2>2. before(i) = Latest(UpTo(TouchesOf(chart, Line, r), i - 1))
    BY <1>2, <2>1
  <2>3. AwaySince(chart, Line, r, before(i), i - 1) <=> left(i)
    BY <1>2 DEF AwaySince
  <2> HIDE DEF touches, valued, before, left
  <2> QED
    BY <2>2, <2>3 DEF DistinctTouch
<1>6. {i \in touches : DistinctTouch(chart, Line, r, i)}
        = {i \in touches : before(i) # Missing => i - before(i) > ClusterGap(r.gap) /\ left(i)}
  <2> HIDE DEF touches, before, left
  <2> QED
    BY <1>5
<1> QED
  BY <1>4, <1>6

\* For every chart, line, tolerance, kind of touch and gap.
THEOREM RespectsDistinctHolds == Spec => []RespectsDistinct
BY ChartTyped, RespectStep, PTL

----------------------------------------------------------------------------
(* Events. *)

\* The candles of a chart are those of a longer one.
LEMMA LongerChart ==
  ASSUME NEW X, NEW cs \in Seq(X), NEW c \in X
  PROVE  /\ Len(cs) \in Nat /\ Len(Append(cs, c)) = Len(cs) + 1
         /\ DOMAIN cs = 1 .. Len(cs) /\ DOMAIN Append(cs, c) = 1 .. Len(cs) + 1
         /\ \A i \in 1 .. Len(cs) : Append(cs, c)[i] = cs[i]
         /\ Append(cs, c) # <<>>
OBVIOUS

\* What happened at a candle depends on it and on those before it, and of a rule
\* on nothing that its age is about.
LEMMA HappensStays ==
  ASSUME NEW X, NEW cs \in Seq(X), NEW c \in X, NEW line, NEW rule, NEW other, NEW i \in 1 .. Len(cs),
         other.action = rule.action, other.minBelow = rule.minBelow
  PROVE  /\ BelowBefore(Append(cs, c), line, i) = BelowBefore(cs, line, i)
         /\ Happens(Append(cs, c), line, i, other) <=> Happens(cs, line, i, rule)
<1> DEFINE ds == Append(cs, c)
           n == Len(cs)
<1>1. n \in Nat /\ \A j \in 1 .. n : ds[j] = cs[j]
  BY LongerChart
<1> HIDE DEF ds
<1>2. BelowBefore(ds, line, i) = BelowBefore(cs, line, i)
  <2>1. \A j \in 1 .. i - 1 : \A k \in j .. i - 1 : k \in 1 .. n
    BY <1>1
  <2>2. \A k \in 1 .. n : ds[k].close < line[k] <=> cs[k].close < line[k]
    BY <1>1
  <2> HIDE DEF n
  <2> QED
    BY <2>1, <2>2 DEF BelowBefore
<1>3. ds[i] = cs[i] /\ (i > 1 => ds[i - 1] = cs[i - 1])
  BY <1>1
<1>4. \A below \in BOOLEAN : ComesFrom(ds, line, i, below) <=> ComesFrom(cs, line, i, below)
  BY <1>3 DEF ComesFrom
<1>5. Reclaims(ds, line, i, other) <=> Reclaims(cs, line, i, rule)
  BY <1>2, <1>3 DEF Reclaims
<1>6. Happens(ds, line, i, other) <=> Happens(cs, line, i, rule)
  BY <1>3, <1>4, <1>5 DEF Happens
<1> QED
  BY <1>2, <1>6 DEF ds

\* One more candle is the latest event, or leaves the latest as it was.
LEMMA LatestEventNext ==
  ASSUME NEW X, NEW cs \in Seq(X), NEW c \in X, NEW line, NEW rule, NEW other,
         other.action = rule.action, other.minBelow = rule.minBelow
  PROVE  /\ LatestEvent(cs, line, rule) = Missing \/ LatestEvent(cs, line, rule) \in 1 .. Len(cs)
         /\ LatestEvent(Append(cs, c), line, other)
              = IF Happens(Append(cs, c), line, Len(cs) + 1, other) THEN Len(cs) + 1
                ELSE LatestEvent(cs, line, rule)
<1> DEFINE ds == Append(cs, c)
           n == Len(cs)
           E == {i \in 1 .. n : Happens(cs, line, i, rule)}
           F == {i \in 1 .. n + 1 : Happens(ds, line, i, other)}
<1>1. n \in Nat /\ Len(ds) = n + 1
  BY LongerChart
<1>2. \A i \in 1 .. n : Happens(ds, line, i, other) <=> Happens(cs, line, i, rule)
  BY HappensStays
<1>3. LatestEvent(cs, line, rule) = Latest(E) /\ LatestEvent(ds, line, other) = Latest(F)
  BY <1>1 DEF LatestEvent
<1> HIDE DEF ds
<1>4. F = E \cup (IF Happens(ds, line, n + 1, other) THEN {n + 1} ELSE {})
  BY <1>1, <1>2
<1>5. E \in SUBSET (0 .. n) /\ E \in SUBSET (1 .. n) /\ F \in SUBSET (0 .. n + 1)
  BY <1>1
<1>6. Latest(E) = Missing \/ Latest(E) \in 1 .. n
  <2>1. Latest(E) = Missing \/ Latest(E) \in E
    <3> HIDE DEF E, n
    <3> QED
      BY <1>1, <1>5, LatestIs, LatestNone
  <2> QED
    BY <2>1
<1>7. CASE Happens(ds, line, n + 1, other)
  <2>1. n + 1 \in F /\ \A j \in F : j <= n + 1
    BY <1>1, <1>7
  <2>2. n + 1 \in Nat
    BY <1>1
  <2>3. Latest(F) = n + 1
    <3> HIDE DEF F, n
    <3> QED
      BY <1>5, <2>1, <2>2, LatestOnly
  <2> QED
    BY <1>3, <1>6, <1>7, <2>3 DEF ds
<1>8. CASE ~Happens(ds, line, n + 1, other)
  <2>1. F = E
    BY <1>4, <1>8
  <2> HIDE DEF E, F
  <2> QED
    BY <1>3, <1>6, <1>8, <2>1 DEF ds
<1> QED
  BY <1>7, <1>8

\* A candle later, an event is in the range that starts and ends a candle later.
LEMMA LaterRange ==
  ASSUME NEW event, NEW now \in Nat, event \in 1 .. now, NEW min \in Nat, NEW max \in Option,
         AgeInRange(event, now, min, max)
  PROVE  AgeInRange(event, now + 1, min + 1, IF max = Missing THEN max ELSE max + 1)
<1>1. event # Missing /\ min # Missing /\ min + 1 # Missing
  BY UnsetAssumption
<1>2. event \in Nat /\ event <= now /\ min <= now - event /\ (max # Missing => max \in Nat /\ now - event <= max)
  BY <1>1 DEF AgeInRange, CountInRange, Option
<1>3. now + 1 >= event /\ min + 1 <= (now + 1) - event
  BY <1>2
<1>4. CASE max = Missing
  BY <1>1, <1>3, <1>4 DEF AgeInRange, CountInRange
<1>5. CASE max # Missing
  <2>1. (now + 1) - event <= max + 1
    BY <1>2, <1>5
  <2> QED
    BY <1>1, <1>3, <1>5, <2>1 DEF AgeInRange, CountInRange
<1> QED
  BY <1>4, <1>5

LEMMA AgedIs ==
  ASSUME NEW r \in InteractionRule
  PROVE  /\ Aged(r).action = r.action /\ Aged(r).minBelow = r.minBelow /\ Aged(r).stillAbove = r.stillAbove
         /\ Aged(r).belowMin = r.belowMin /\ Aged(r).belowMax = r.belowMax
         /\ Aged(r).ageMin = r.ageMin + 1
         /\ Aged(r).ageMax = (IF r.ageMax = Missing THEN r.ageMax ELSE r.ageMax + 1)
  BY DEF InteractionRule, Aged

\* EventsAge, of one more candle.
LEMMA EventStep ==
  ASSUME ChartOK, Bar, NEW r \in InteractionRules
  PROVE  Ages(chart, chart', r)
<1> DEFINE before == LatestEvent(chart, Line, r)
           after == LatestEvent(chart', Line, r)
           older == Aged(r)
           n == Len(chart)
<1>1. chart \in Seq(Shapes[family])
  BY DEF ChartOK
<1>2. PICK c \in Shapes[family] : chart' = Append(chart, c)
  BY DEF Bar
<1>3. r \in InteractionRule
  BY RulesAssumption
<1>4. /\ older.action = r.action /\ older.minBelow = r.minBelow /\ older.stillAbove = r.stillAbove
      /\ older.belowMin = r.belowMin /\ older.belowMax = r.belowMax
      /\ older.ageMin = r.ageMin + 1
      /\ older.ageMax = (IF r.ageMax = Missing THEN r.ageMax ELSE r.ageMax + 1)
  BY <1>3, AgedIs
<1>5. n \in Nat /\ Len(chart') = n + 1 /\ chart' # <<>>
  BY <1>1, <1>2, LongerChart
<1> HIDE DEF older
<1>6. /\ before = Missing \/ before \in 1 .. n
      /\ after = IF Happens(chart', Line, n + 1, r) THEN n + 1 ELSE before
      /\ LatestEvent(chart', Line, older) = IF Happens(chart', Line, n + 1, older) THEN n + 1 ELSE before
  BY <1>1, <1>2, <1>4, LatestEventNext
<1>7. Happens(chart', Line, n + 1, older) <=> Happens(chart', Line, n + 1, r)
  BY <1>4 DEF Happens, Reclaims
<1>8. after \in {before, Len(chart')}
  BY <1>5, <1>6
<1>9. ASSUME Interacts(chart, Line, r), after = before,
             r.action = "reclaimed" /\ r.stillAbove => StillAbove(chart', Line)
      PROVE  Interacts(chart', Line, older)
  <2>1. AgeInRange(before, n, r.ageMin, r.ageMax)
        /\ (r.action = "reclaimed" /\ before # Missing
              => CountInRange(Cardinality(BelowBefore(chart, Line, before)), r.belowMin, r.belowMax))
    BY <1>9 DEF Interacts
  <2>2. before \in 1 .. n /\ before # Missing
    BY <1>6, <2>1 DEF AgeInRange
  <2>3. LatestEvent(chart', Line, older) = before
    BY <1>6, <1>7, <1>9
  <2>4. BelowBefore(chart', Line, before) = BelowBefore(chart, Line, before)
    <3> HIDE DEF before, n
    <3> QED
      BY <1>1, <1>2, <2>2, HappensStays DEF n
  <2>5. AgeInRange(before, Len(chart'), older.ageMin, older.ageMax)
    <3> HIDE DEF before, after, n
    <3>1. r.ageMin \in Nat /\ r.ageMax \in Option
      BY <1>3 DEF InteractionRule
    <3> QED
      BY <1>4, <1>5, <2>1, <2>2, <3>1, LaterRange
  <2> HIDE DEF before, after, n
  <2> QED
    BY <1>4, <1>5, <1>9, <2>1, <2>2, <2>3, <2>4, <2>5 DEF Interacts
<1> QED
  BY <1>8, <1>9 DEF Ages, older

\* For every chart and line, and every interaction with every range of ages.
THEOREM EventsAgeHolds == Spec => EventsAge
<1>1. ChartOK /\ [Next]_vars
        => [family = "lines" => \A r \in InteractionRules : Ages(chart, chart', r)]_vars
  BY EventStep DEF Next
<1> QED
  BY <1>1, ChartTyped, PTL DEF Spec, EventsAge

----------------------------------------------------------------------------
(* Confluences. *)

\* A source whose bounds are numbers, the lower one below.
Bounded(source) ==
  \A i \in On(source) : /\ Lower(source, i) \in Int /\ Upper(source, i) \in Int
                        /\ Lower(source, i) <= Upper(source, i)

\* A channel whose lines are of numbers.
Numbers(channel) ==
  \A name \in DOMAIN channel.lines :
    LET line == channel.lines[name] IN \A i \in DOMAIN line : line[i] \in Int

LEMMA BoundNumbers ==
  ASSUME NEW channel, Numbers(channel), NEW name, NEW side
  PROVE  LET bound == Bound(channel, name, side) IN \A i \in DOMAIN bound : bound[i] \in Int
<1> DEFINE zone == IF name = "top_zone" THEN <<"top_zone_lower", "top_zone_upper">>
                   ELSE IF name = "bottom_zone" THEN <<"bottom_zone_lower", "bottom_zone_upper">>
                   ELSE <<name, name>>
           lines == channel.lines
<1>1. Bound(channel, name, side) = IF zone[side] \in DOMAIN lines THEN lines[zone[side]] ELSE <<>>
  BY DEF Bound
<1>2. \A line \in DOMAIN lines : \A i \in DOMAIN lines[line] : lines[line][i] \in Int
  BY DEF Numbers
<1> HIDE DEF zone, lines
<1> DEFINE bound == Bound(channel, name, side)
<1>3. (bound = lines[zone[side]] /\ zone[side] \in DOMAIN lines) \/ bound = <<>>
  BY <1>1
<1>4. DOMAIN <<>> = {}
  OBVIOUS
<1> HIDE DEF bound
<1>5. \A i \in DOMAIN bound : bound[i] \in Int
  BY <1>2, <1>3, <1>4
<1> QED
  BY <1>5 DEF bound

LEMMA SelectedBounded ==
  ASSUME NEW channel, Numbers(channel), NEW id, NEW name, NEW sub
  PROVE  Bounded(SelectedBounds(id, channel, name, sub))
<1> DEFINE first == Bound(channel, name, 1)
           second == Bound(channel, name, 2)
           both == DOMAIN first \cap DOMAIN second
           source == SelectedBounds(id, channel, name, sub)
<1>1. \A i \in both : first[i] \in Int /\ second[i] \in Int
  BY BoundNumbers
<1>2. /\ source.lower = [i \in both |-> Smaller(first[i], second[i])]
      /\ source.upper = [i \in both |-> Larger(first[i], second[i])]
  BY DEF SelectedBounds
<1> HIDE DEF first, second, both, source
<1>3. \A x, y \in Int : Smaller(x, y) \in Int /\ Larger(x, y) \in Int /\ Smaller(x, y) <= Larger(x, y)
  BY DEF Smaller, Larger
<1>4. DOMAIN source.lower = both
  BY <1>2
<1>5. ASSUME NEW i \in both
      PROVE  source.lower[i] \in Int /\ source.upper[i] \in Int /\ source.lower[i] <= source.upper[i]
  BY <1>1, <1>2, <1>3
<1>6. Bounded(source)
  BY <1>4, <1>5 DEF Bounded, On, Lower, Upper
<1> QED
  BY <1>6 DEF source

\* Both sources of a confluence that has two.
LEMMA SourcesBounded ==
  ASSUME NEW channels \in Channels, NEW config \in Confluences, Len(Sources(channels, config)) = 2
  PROVE  Bounded(Sources(channels, config)[1]) /\ Bounded(Sources(channels, config)[2])
<1> DEFINE those(i) == Configured(channels, config, i)
           instead(k) == Instead(channels, config, k)
           Few(s) == s = <<>> \/ \E x : Bounded(x) /\ s = <<x>>
<1>1. \/ Sources(channels, config) = those(1) \o those(2)
      \/ Sources(channels, config) = instead(1) \o instead(2)
  BY DEF Sources
<1>2. \A k \in DOMAIN channels.list : \A type : Numbers(OfType(channels.list[k], type))
  BY PricesAssumption DEF OfType, Numbers
<1>3. ASSUME NEW i PROVE Few(those(i))
  <2> DEFINE source == config.sources[i]
             fitted == channels.list[CHOOSE k \in FittedFor(channels, source) : TRUE]
             channel == OfType(fitted, IF channels.nested THEN fitted.type ELSE source.type)
             x == SelectedBounds(source.id, channel, Selection(channel.trend, source.selection, config.type, i), source.sub)
  <2>1. CASE i \in DOMAIN config.sources /\ FittedFor(channels, source) # {}
    <3>1. FittedFor(channels, source) \subseteq DOMAIN channels.list
      BY DEF FittedFor
    <3>2. Numbers(channel)
      BY <1>2, <2>1, <3>1
    <3>3. those(i) = <<x>>
      BY <2>1 DEF Configured
    <3> HIDE DEF channel, those
    <3>4. Bounded(x)
      BY <3>2, SelectedBounded
    <3> QED
      BY <3>3, <3>4
  <2>2. CASE ~(i \in DOMAIN config.sources /\ FittedFor(channels, source) # {})
    BY <2>2 DEF Configured
  <2> QED
    BY <2>1, <2>2
<1>4. ASSUME NEW k PROVE Few(instead(k))
  <2> DEFINE channel == OfType(channels.list[k], channels.list[k].type)
             x == SelectedBounds(channels.list[k].id, channel, DefaultSelection(channel.trend, config.type, k),
                                 [relation |-> "none"])
  <2>1. CASE k \in DOMAIN channels.list
    <3>1. Numbers(channel)
      BY <1>2, <2>1
    <3>2. instead(k) = <<x>>
      BY <2>1 DEF Instead
    <3> HIDE DEF channel, instead
    <3>3. Bounded(x)
      BY <3>1, SelectedBounded
    <3> QED
      BY <3>2, <3>3
  <2>2. CASE k \notin DOMAIN channels.list
    BY <2>2 DEF Instead
  <2> QED
    BY <2>1, <2>2
<1> HIDE DEF those, instead
<1>5. ASSUME NEW s, NEW t, Few(s), Few(t), Len(s \o t) = 2
      PROVE  Bounded((s \o t)[1]) /\ Bounded((s \o t)[2])
  BY <1>5
<1> HIDE DEF Few
<1> QED
  BY <1>1, <1>3, <1>4, <1>5

\* A run that is there reaches the newest candle.
LEMMA RunReachesEnd ==
  ASSUME NEW X, NEW cs \in Seq(X), NEW i \in Nat, NEW holding \in SUBSET (1 .. Len(cs)),
         ActiveRun(cs, i, holding) # 0
  PROVE  Len(cs) \in holding
<1> DEFINE starts == {j \in holding : j >= i}
           first == CHOOSE j \in starts : \A k \in starts : j <= k
<1>1. Len(cs) \in Nat
  OBVIOUS
<1>2. starts # {} /\ first .. Len(cs) \subseteq holding
  BY DEF ActiveRun
<1>3. starts \in SUBSET Nat /\ starts \in SUBSET (1 .. Len(cs))
  <2>1. starts \subseteq holding /\ holding \subseteq 1 .. Len(cs) /\ 1 .. Len(cs) \subseteq Nat
    BY <1>1
  <2> HIDE DEF starts
  <2> QED
    BY <2>1
<1>4. first \in starts
  <2> HIDE DEF starts
  <2> QED
    BY <1>2, <1>3, LeastNumber
<1>5. first \in 1 .. Len(cs)
  <2> HIDE DEF starts, first
  <2> QED
    BY <1>3, <1>4
<1>6. Len(cs) \in first .. Len(cs)
  <2> HIDE DEF first
  <2> QED
    BY <1>1, <1>5
<1> QED
  BY <1>2, <1>6

\* What a match is: two events of a scenario, within the window.
LEMMA MatchIs ==
  ASSUME NEW X, NEW cs \in Seq(X), NEW first, NEW second, NEW kind, NEW lookback, NEW pct,
         Match(cs, first, second, kind, lookback, pct) # Missing
  PROVE  \E k \in DOMAIN ScenariosOf(kind), s \in 1 .. Len(cs) :
           \E f \in FirstEvents(cs, first, ScenariosOf(kind)[k], s, pct) :
             /\ Match(cs, first, second, kind, lookback, pct) = <<f, s>>
             /\ Len(cs) - s < lookback
             /\ SecondEvent(cs, first, second, ScenariosOf(kind)[k], s, pct)
<1> DEFINE n == Len(cs)
           tried == ScenariosOf(kind)
           fits(k, s) == IF SecondEvent(cs, first, second, tried[k], s, pct)
                         THEN FirstEvents(cs, first, tried[k], s, pct) ELSE {}
           S == {s \in 1 .. n : n - s < lookback /\ \E k \in DOMAIN tried : fits(k, s) # {}}
           K == {k \in DOMAIN tried : fits(k, Latest(S)) # {}}
           F == fits(Earliest(K), Latest(S))
<1>1. n \in Nat
  OBVIOUS
<1>2. /\ Latest(S) # Missing
      /\ Match(cs, first, second, kind, lookback, pct) = <<Earliest(F), Latest(S)>>
  BY DEF Match
<1>3. S # {} /\ S \in SUBSET (0 .. n)
  <2>1. S # {}
    <3> HIDE DEF S
    <3> QED
      BY <1>2 DEF Latest
  <2>2. S \subseteq 1 .. n /\ 1 .. n \subseteq 0 .. n
    BY <1>1
  <2> HIDE DEF S
  <2> QED
    BY <2>1, <2>2
<1>4. Latest(S) \in S
  <2> HIDE DEF S, n
  <2> QED
    BY <1>1, <1>3, LatestIs
<1>5. Latest(S) \in 1 .. n /\ n - Latest(S) < lookback /\ K # {}
  BY <1>4
<1>6. K \in SUBSET Nat
  <2>1. DOMAIN tried \subseteq Nat
    BY DEF ScenariosOf
  <2> QED
    BY <2>1
<1>7. Earliest(K) \in K
  <2> HIDE DEF K
  <2> QED
    BY <1>5, <1>6, LeastNumber DEF Earliest
<1>8. Earliest(K) \in DOMAIN tried /\ F # {}
  BY <1>7
<1>9. /\ SecondEvent(cs, first, second, tried[Earliest(K)], Latest(S), pct)
      /\ F = FirstEvents(cs, first, tried[Earliest(K)], Latest(S), pct)
  BY <1>8
<1>10. F \in SUBSET Nat
  BY <1>9 DEF FirstEvents
<1>11. Earliest(F) \in F
  <2> HIDE DEF F
  <2> QED
    BY <1>8, <1>10, LeastNumber DEF Earliest
<1> HIDE DEF S, K, F
<1> QED
  BY <1>2, <1>5, <1>8, <1>9, <1>11

\* ... and what it says of the newest candle, by its kind.
LEMMA MatchFresh ==
  ASSUME NEW X, NEW cs \in Seq(X), \A i \in DOMAIN cs : cs[i].close \in Int,
         NEW first, Bounded(first), NEW second, Bounded(second),
         NEW kind, NEW lookback, NEW pct \in Nat,
         Match(cs, first, second, kind, lookback, pct) # Missing
  PROVE  LET match == Match(cs, first, second, kind, lookback, pct)
             n == Len(cs)
             over(source) == cs[n].close >= Lower(source, n)
         IN /\ match[1] <= match[2] /\ n - match[1] < 4 /\ n - match[2] < lookback
            /\ kind = "bullish" => over(second)
            /\ kind = "breakout" => over(first) \/ over(second)
            /\ kind = "bearish" =>
                 100 * cs[n].close <= 100 * Upper(first, n) + Tolerance(first, n, pct)
<1> DEFINE match == Match(cs, first, second, kind, lookback, pct)
           n == Len(cs)
           over(source) == cs[n].close >= Lower(source, n)
           under(source) == 100 * cs[n].close <= 100 * Upper(source, n) + Tolerance(source, n, pct)
<1>1. PICK k \in DOMAIN ScenariosOf(kind), s \in 1 .. n :
        \E f \in FirstEvents(cs, first, ScenariosOf(kind)[k], s, pct) :
          /\ match = <<f, s>> /\ n - s < lookback
          /\ SecondEvent(cs, first, second, ScenariosOf(kind)[k], s, pct)
  BY MatchIs
<1> DEFINE scenario == ScenariosOf(kind)[k]
<1>2. PICK f \in FirstEvents(cs, first, scenario, s, pct) :
        match = <<f, s>> /\ n - s < lookback /\ SecondEvent(cs, first, second, scenario, s, pct)
  BY <1>1
<1>3. n \in Nat /\ DOMAIN cs = 1 .. n /\ f \in 1 .. s /\ n - f + 1 <= 4 /\ Between(cs, first, scenario, f, s)
  BY DEF FirstEvents
<1>4. match[1] <= match[2] /\ n - match[1] < 4 /\ n - match[2] < lookback /\ n \in 1 .. n
  <2> HIDE DEF match, n, scenario
  <2> QED
    BY <1>2, <1>3
<1> HIDE DEF match
<1>5. cs[n].close \in Int
  BY <1>3, <1>4
<1>6. ASSUME NEW source, Bounded(source)
      PROVE  /\ ClosesAbove(cs, source, n) => over(source)
             /\ ClosesNotBelow(cs, source, n) => over(source)
             /\ ClosesBelow(cs, source, n) => under(source)
  <2> HIDE DEF n
  <2>1. ClosesAbove(cs, source, n) => over(source)
    BY <1>5, <1>6 DEF ClosesAbove, Bounded
  <2>2. ClosesNotBelow(cs, source, n) => over(source)
    BY DEF ClosesNotBelow
  <2>3. ASSUME ClosesBelow(cs, source, n) PROVE under(source)
    <3>1. Lower(source, n) \in Int /\ Upper(source, n) \in Int /\ Lower(source, n) <= Upper(source, n)
          /\ cs[n].close < Lower(source, n)
      BY <1>6, <2>3 DEF ClosesBelow, Bounded
    <3>2. Tolerance(source, n, pct) \in Nat
      <4>1. PICK m \in Nat : m = Larger(TwiceMid(source, n), 2)
        BY <3>1 DEF Larger, TwiceMid
      <4>2. m * pct \in Nat
        BY <4>1
      <4> QED
        BY <4>1, <4>2 DEF Tolerance
    <3>3. \A close, lower, upper \in Int, tolerance \in Nat :
            close < lower /\ lower <= upper => 100 * close <= 100 * upper + tolerance
      OBVIOUS
    <3> QED
      BY <1>5, <3>1, <3>2, <3>3
  <2> QED
    BY <2>1, <2>2, <2>3
<1>7. ASSUME NEW source, ActiveRun(cs, s, {i \in DOMAIN cs : ClosesAbove(cs, source, i)}) # 0
      PROVE  ClosesAbove(cs, source, n)
  <2>1. {i \in DOMAIN cs : ClosesAbove(cs, source, i)} \in SUBSET (1 .. Len(cs)) /\ s \in Nat
    BY <1>3
  <2>2. Len(cs) \in {i \in DOMAIN cs : ClosesAbove(cs, source, i)}
    BY <1>7, <2>1, RunReachesEnd
  <2> QED
    BY <2>2
<1>8. ASSUME kind = "bullish" PROVE over(second)
  <2>1. scenario \in {"dual_support", "stacked_support"}
    BY <1>8 DEF ScenariosOf
  <2> HIDE DEF scenario, over, under
  <2>2. CASE scenario = "dual_support"
    <3>1. ActiveRun(cs, s, {i \in DOMAIN cs : ClosesAbove(cs, second, i)}) # 0
      BY <1>2, <2>2 DEF SecondEvent
    <3> QED
      BY <1>6, <1>7, <3>1
  <2>3. CASE scenario = "stacked_support"
    <3>1. ClosesNotBelow(cs, second, n)
      BY <1>2, <2>3 DEF SecondEvent, LatestNearSupport
    <3> QED
      BY <1>6, <3>1
  <2> QED
    BY <2>1, <2>2, <2>3
<1>9. ASSUME kind = "breakout" PROVE over(first) \/ over(second)
  <2>1. scenario \in {"dual_resistance_break", "support_then_resistance_break", "resistance_break_then_support"}
    BY <1>9 DEF ScenariosOf
  <2> HIDE DEF scenario, over, under
  <2>2. CASE scenario \in {"dual_resistance_break", "support_then_resistance_break"}
    <3>1. scenario = "dual_resistance_break"
            => ActiveRun(cs, s, {i \in DOMAIN cs : ClosesAbove(cs, second, i)}) # 0
      BY <1>2 DEF SecondEvent
    <3>2. scenario = "support_then_resistance_break"
            => ActiveRun(cs, s, {i \in DOMAIN cs : ClosesAbove(cs, second, i)}) # 0
      BY <1>2 DEF SecondEvent
    <3> QED
      BY <1>6, <1>7, <2>2, <3>1, <3>2
  <2>3. CASE scenario = "resistance_break_then_support"
    <3>1. ClosesNotBelow(cs, second, n)
      BY <1>2, <2>3 DEF SecondEvent, LatestNearSupport
    <3> QED
      BY <1>6, <3>1
  <2> QED
    BY <2>1, <2>2, <2>3
<1>10. ASSUME kind = "bearish" PROVE under(first)
  <2>1. scenario \in {"stacked_resistance", "clustered_resistance"}
    BY <1>10 DEF ScenariosOf
  <2> HIDE DEF scenario, over
  <2>2. CASE scenario = "stacked_resistance"
    <3>1. ClosesBelow(cs, first, n)
      BY <1>2, <2>2 DEF SecondEvent
    <3> QED
      BY <1>6, <3>1
  <2>3. CASE scenario = "clustered_resistance"
    BY <1>2, <2>3 DEF SecondEvent, LatestAtOrBelow
  <2> QED
    BY <2>1, <2>2, <2>3
<1> QED
  BY <1>4, <1>8, <1>9, <1>10 DEF match

\* ConfluenceFresh, of one chart.
LEMMA ConfluenceStep ==
  ASSUME family \in Family, NEW now \in Seq(Shapes[family])
  PROVE  MatchesFresh(now)
<1> SUFFICES ASSUME NEW channels \in Channels, NEW config \in Confluences, Evaluate(now, channels, config) # Missing
             PROVE  LET match == Evaluate(now, channels, config)
                        n == Len(now)
                        source(k) == Sources(channels, config)[k]
                        over(k) == now[n].close >= Lower(source(k), n)
                    IN /\ match[1] <= match[2] /\ n - match[1] < 4 /\ n - match[2] < config.lookback
                       /\ config.type = "bullish" => over(2)
                       /\ config.type = "breakout" => over(1) \/ over(2)
                       /\ config.type = "bearish" =>
                            100 * now[n].close <= 100 * Upper(source(1), n) + Tolerance(source(1), n, config.pct)
  BY DEF MatchesFresh
<1> DEFINE sources == Sources(channels, config)
           kinds == IF config.type = "any" THEN <<"bullish", "bearish", "breakout">> ELSE <<config.type>>
           match(k) == Match(now, sources[1], sources[2], kinds[k], config.lookback, config.pct)
           matching == {k \in DOMAIN kinds : match(k) # Missing}
           found == Earliest(matching)
<1>1. /\ Len(sources) = 2 /\ FirstMatch(now, sources, config) # Missing
      /\ Evaluate(now, channels, config) = FirstMatch(now, sources, config)
  BY DEF Evaluate
<1> HIDE DEF sources
<1>2. matching # {} /\ FirstMatch(now, sources, config) = match(found)
  BY <1>1 DEF FirstMatch
<1>3. found \in matching
  <2>1. matching \in SUBSET Nat
    <3>1. DOMAIN kinds \subseteq Nat
      OBVIOUS
    <3> HIDE DEF kinds
    <3> QED
      BY <3>1
  <2> HIDE DEF matching
  <2> QED
    BY <1>2, <2>1, LeastNumber DEF Earliest
<1>4. match(found) # Missing /\ (config.type # "any" => kinds[found] = config.type)
  <2>1. found \in DOMAIN kinds /\ match(found) # Missing
    BY <1>3
  <2>2. config.type # "any" => \A i \in DOMAIN kinds : kinds[i] = config.type
    OBVIOUS
  <2> HIDE DEF match, found, matching, kinds
  <2> QED
    BY <2>1, <2>2
<1>5. Bounded(sources[1]) /\ Bounded(sources[2]) /\ config.pct \in Nat
  BY <1>1, SourcesBounded, PricesAssumption DEF sources
<1>6. \A i \in DOMAIN now : now[i].close \in Int
  BY PricesAssumption
<1> HIDE DEF kinds, found, matching
<1> QED
  BY <1>1, <1>2, <1>4, <1>5, <1>6, MatchFresh DEF sources

\* For every pair of channels whose bounds are numbers, every kind of confluence,
\* lookback and tolerance, and every chart.
THEOREM ConfluenceFreshHolds == Spec => ConfluenceFresh
<1>1. ChartOK /\ Bar => MatchesFresh(chart')
  <2> SUFFICES ASSUME ChartOK, Bar PROVE MatchesFresh(chart')
    OBVIOUS
  <2>1. chart' \in Seq(Shapes[family]) /\ family \in Family
    BY DEF ChartOK, Bar
  <2> QED
    BY <2>1, ConfluenceStep
<1>2. ChartOK /\ [Next]_vars => [MatchesFresh(chart')]_vars
  BY <1>1 DEF Next
<1> QED
  BY <1>2, ChartTyped, PTL DEF Spec, ConfluenceFresh

----------------------------------------------------------------------------
(* Series along a chart. *)

\* What holds of 0, and of a number when of the one before, holds up to n.
LEMMA Climb ==
  ASSUME NEW n \in Nat, NEW H, 0 \in H, \A i \in 1 .. n : i - 1 \in H => i \in H
  PROVE  \A i \in 0 .. n : i \in H
<1> DEFINE T == {i \in 0 .. n : i \notin H}
<1>1. SUFFICES ASSUME T # {} PROVE FALSE
  OBVIOUS
<1>2. PICK i \in T : \A j \in T : i <= j
  <2>1. T \in SUBSET Nat
    OBVIOUS
  <2> HIDE DEF T
  <2> QED
    BY <1>1, <2>1, LeastNumber
<1>3. i \in 0 .. n /\ i \notin H /\ i # 0
  BY <1>2
<1>4. i \in 1 .. n /\ i - 1 \in 0 .. n /\ ~(i <= i - 1)
  BY <1>3
<1>5. i - 1 \in H
  BY <1>2, <1>4
<1> QED
  BY <1>3, <1>4, <1>5

\* f starts with b, and every step leads from a value to the next one.
Stepwise(f, n, b, step) == f = [i \in 0 .. n |-> IF i = 0 THEN b ELSE step[i][f[i - 1]]]

\* A recursive definition whose steps keep to their sets defines something.
LEMMA Built ==
  ASSUME NEW n \in Nat, NEW W, NEW b \in W[0], NEW step,
         \A i \in 1 .. n : \A w \in W[i - 1] : step[i][w] \in W[i]
  PROVE  \E f : Stepwise(f, n, b, step) /\ \A i \in 0 .. n : f[i] \in W[i]
<1> DEFINE P(m) == \E f : /\ f = [i \in 0 .. m |-> IF i = 0 THEN b ELSE step[i][f[i - 1]]]
                          /\ \A i \in 0 .. m : f[i] \in W[i]
           H == {m \in 0 .. n : P(m)}
<1>1. P(0)
  <2> DEFINE g == [i \in 0 .. 0 |-> b]
  <2>1. g = [i \in 0 .. 0 |-> IF i = 0 THEN b ELSE step[i][g[i - 1]]]
    OBVIOUS
  <2>2. \A i \in 0 .. 0 : g[i] \in W[i]
    OBVIOUS
  <2> QED
    BY <2>1, <2>2
<1>2. ASSUME NEW m \in 1 .. n, P(m - 1)
      PROVE  P(m)
  <2>1. PICK f : /\ f = [i \in 0 .. m - 1 |-> IF i = 0 THEN b ELSE step[i][f[i - 1]]]
                 /\ \A i \in 0 .. m - 1 : f[i] \in W[i]
    BY <1>2
  <2> DEFINE g == [i \in 0 .. m |-> IF i = m THEN step[m][f[m - 1]] ELSE f[i]]
  <2>2. \A i \in 0 .. m - 1 : g[i] = f[i]
    OBVIOUS
  <2>3. g[m] = step[m][f[m - 1]] /\ f[m - 1] \in W[m - 1]
    BY <2>1
  <2>4. \A i \in 0 .. m - 1 : f[i] = IF i = 0 THEN b ELSE step[i][f[i - 1]]
    BY <2>1
  <2>5. \A i \in 0 .. m : g[i] = IF i = 0 THEN b ELSE step[i][g[i - 1]]
    <3> TAKE i \in 0 .. m
    <3>1. CASE i = m
      <4>1. m # 0 /\ m - 1 \in 0 .. m - 1
        OBVIOUS
      <4> QED
        BY <2>2, <2>3, <3>1, <4>1
    <3>2. CASE i # m
      <4>1. i \in 0 .. m - 1 /\ (i # 0 => i - 1 \in 0 .. m - 1)
        BY <3>2
      <4> HIDE DEF g
      <4> QED
        BY <2>2, <2>4, <4>1
    <3> QED
      BY <3>1, <3>2
  <2>6. g = [i \in 0 .. m |-> IF i = 0 THEN b ELSE step[i][g[i - 1]]]
    BY <2>5
  <2>7. \A i \in 0 .. m : g[i] \in W[i]
    <3> TAKE i \in 0 .. m
    <3>1. CASE i = m
      BY <2>3, <3>1
    <3>2. CASE i # m
      BY <2>1, <2>2, <3>2
    <3> QED
      BY <3>1, <3>2
  <2> HIDE DEF g
  <2> QED
    BY <2>6, <2>7
<1>3. P(n) => \E f : Stepwise(f, n, b, step) /\ \A i \in 0 .. n : f[i] \in W[i]
  BY DEF Stepwise
<1> HIDE DEF P
<1>4. 0 \in H /\ \A m \in 1 .. n : m - 1 \in H => m \in H
  BY <1>1, <1>2
<1>5. n \in H
  <2> HIDE DEF H
  <2> QED
    BY <1>4, Climb
<1> QED
  BY <1>3, <1>5

\* The first i values of a series of U whose value at a candle k is one of V[k].
Long(U, V, i) == {s \in Seq(U) : Len(s) = i /\ \A k \in 1 .. i : s[k] \in V[k]}

LEMMA LongNext ==
  ASSUME NEW U, NEW V, NEW i \in Nat \ {0}, NEW s \in Long(U, V, i - 1), NEW v \in V[i], V[i] \subseteq U
  PROVE  /\ Append(s, v) \in Long(U, V, i)
         /\ \A k \in 1 .. i - 1 : Append(s, v)[k] = s[k]
         /\ Append(s, v)[i] = v
<1>1. s \in Seq(U) /\ Len(s) = i - 1 /\ v \in U /\ \A k \in 1 .. i - 1 : s[k] \in V[k]
  BY DEF Long
<1>2. /\ Append(s, v) \in Seq(U) /\ Len(Append(s, v)) = i /\ Append(s, v)[i] = v
      /\ \A k \in 1 .. i - 1 : Append(s, v)[k] = s[k]
  BY <1>1
<1>3. \A k \in 1 .. i : k = i \/ k \in 1 .. i - 1
  OBVIOUS
<1>4. \A k \in 1 .. i : Append(s, v)[k] \in V[k]
  BY <1>1, <1>2, <1>3
<1> QED
  BY <1>2, <1>4 DEF Long

\* Each value of a series is one of its set, when those before are ...
Keeps(step, n, U, V) ==
  \A i \in 1 .. n : V[i] \subseteq U /\ \A s \in Long(U, V, i - 1) : step[i][s] \in V[i]
\* ... and a chart with one more candle has one more value.
Grows(f, n, U, V) ==
  /\ f[0] = <<>>
  /\ \A i \in 1 .. n : V[i] \subseteq U
  /\ \A i \in 1 .. n : f[i - 1] \in Long(U, V, i - 1) => \E v \in V[i] : f[i] = Append(f[i - 1], v)

\* A series whose values follow from those before is well defined ...
LEMMA SeriesBuilt ==
  ASSUME NEW n \in Nat, NEW U, NEW V, NEW step, Keeps(step, n, U, V)
  PROVE  \E f : /\ f = [i \in 0 .. n |-> IF i = 0 THEN <<>> ELSE Append(f[i - 1], step[i][f[i - 1]])]
                /\ \A i \in 0 .. n : f[i] \in Long(U, V, i)
<1>1. PICK W : \A i \in 0 .. n : W[i] = Long(U, V, i)
  <2> DEFINE X == [i \in 0 .. n |-> Long(U, V, i)]
  <2>1. \A i \in 0 .. n : X[i] = Long(U, V, i)
    OBVIOUS
  <2> HIDE DEF X
  <2> QED
    BY <2>1
<1>2. PICK grow : \A i \in 1 .. n : \A s \in Seq(U) : grow[i][s] = Append(s, step[i][s])
  <2> DEFINE X == [i \in 1 .. n |-> [s \in Seq(U) |-> Append(s, step[i][s])]]
  <2>1. \A i \in 1 .. n : \A s \in Seq(U) : X[i][s] = Append(s, step[i][s])
    OBVIOUS
  <2> HIDE DEF X
  <2> QED
    BY <2>1
<1>3. ASSUME NEW i \in 1 .. n, NEW s \in Long(U, V, i - 1)
      PROVE  grow[i][s] = Append(s, step[i][s]) /\ grow[i][s] \in Long(U, V, i)
  <2>1. grow[i][s] = Append(s, step[i][s])
    BY <1>2 DEF Long
  <2>2. step[i][s] \in V[i] /\ V[i] \subseteq U /\ i \in Nat \ {0}
    BY DEF Keeps
  <2> QED
    BY <2>1, <2>2, LongNext
<1>4. PICK f : Stepwise(f, n, <<>>, grow) /\ \A i \in 0 .. n : f[i] \in W[i]
  <2>1. <<>> \in W[0]
    <3>1. <<>> \in Seq(U) /\ Len(<<>>) = 0 /\ 1 .. 0 = {}
      OBVIOUS
    <3>2. <<>> \in Long(U, V, 0)
      BY <3>1 DEF Long
    <3> QED
      BY <1>1, <3>2
  <2>2. \A i \in 1 .. n : \A s \in W[i - 1] : grow[i][s] \in W[i]
    <3> TAKE i \in 1 .. n
    <3>1. W[i] = Long(U, V, i) /\ W[i - 1] = Long(U, V, i - 1)
      BY <1>1
    <3> QED
      BY <1>3, <3>1
  <2> QED
    BY <2>1, <2>2, Built
<1>5. \A i \in 1 .. n : grow[i][f[i - 1]] = Append(f[i - 1], step[i][f[i - 1]])
  <2> TAKE i \in 1 .. n
  <2>1. f[i - 1] \in Long(U, V, i - 1)
    BY <1>1, <1>4
  <2> QED
    BY <1>3, <2>1
<1>6. f = [i \in 0 .. n |-> IF i = 0 THEN <<>> ELSE Append(f[i - 1], step[i][f[i - 1]])]
  <2>1. \A i \in 0 .. n : i # 0 => i \in 1 .. n
    OBVIOUS
  <2> QED
    BY <1>4, <1>5, <2>1 DEF Stepwise
<1>7. \A i \in 0 .. n : f[i] \in Long(U, V, i)
  BY <1>1, <1>4
<1> QED
  BY <1>6, <1>7

\* ... and what it has up to a candle is what it had there.
LEMMA SeriesGrows ==
  ASSUME NEW n \in Nat, NEW U, NEW V, NEW f, Grows(f, n, U, V)
  PROVE  \A i \in 0 .. n : f[i] \in Long(U, V, i) /\ \A j \in 1 .. i : f[i][j] = f[n][j]
<1> DEFINE H == {i \in 0 .. n : f[i] \in Long(U, V, i) /\ \A j \in 1 .. i : f[i][j] = f[j][j]}
<1>1. 0 \in H
  <2>1. <<>> \in Seq(U) /\ Len(<<>>) = 0 /\ 1 .. 0 = {}
    OBVIOUS
  <2>2. f[0] \in Long(U, V, 0)
    BY <2>1 DEF Long, Grows
  <2>3. \A j \in 1 .. 0 : f[0][j] = f[j][j]
    OBVIOUS
  <2> QED
    BY <2>2, <2>3
<1>2. ASSUME NEW i \in 1 .. n, i - 1 \in H
      PROVE  i \in H
  <2>1. f[i - 1] \in Long(U, V, i - 1) /\ \A j \in 1 .. i - 1 : f[i - 1][j] = f[j][j]
    BY <1>2
  <2> HIDE DEF H
  <2>2. PICK v \in V[i] : f[i] = Append(f[i - 1], v)
    BY <2>1 DEF Grows
  <2>3. f[i] \in Long(U, V, i) /\ \A j \in 1 .. i - 1 : f[i][j] = f[i - 1][j]
    <3>1. i \in Nat \ {0} /\ V[i] \subseteq U
      BY DEF Grows
    <3>2. \A s \in Long(U, V, i - 1) : /\ Append(s, v) \in Long(U, V, i)
                                       /\ \A k \in 1 .. i - 1 : Append(s, v)[k] = s[k]
      <4> TAKE s \in Long(U, V, i - 1)
      <4>1. Append(s, v) \in Long(U, V, i)
        BY <3>1, LongNext
      <4>2. \A k \in 1 .. i - 1 : Append(s, v)[k] = s[k]
        BY <3>1 DEF Long
      <4> QED
        BY <4>1, <4>2
    <3> QED
      BY <2>1, <2>2, <3>2
  <2>4. ASSUME NEW j \in 1 .. i
        PROVE  f[i][j] = f[j][j]
    <3>1. CASE j = i
      BY <3>1
    <3>2. CASE j # i
      <4>1. j \in 1 .. i - 1
        BY <3>2
      <4> QED
        BY <2>1, <2>3, <4>1
    <3> QED
      BY <3>1, <3>2
  <2> QED
    BY <2>3, <2>4 DEF H
<1>3. \A i \in 0 .. n : i \in H
  <2> HIDE DEF H
  <2> QED
    BY <1>1, <1>2, Climb
<1>4. \A i \in 0 .. n : f[i] \in Long(U, V, i) /\ \A j \in 1 .. i : f[i][j] = f[j][j]
  BY <1>3
<1>5. \A i \in 0 .. n : \A j \in 1 .. i : j \in 1 .. n
  OBVIOUS
<1> HIDE DEF H
<1>6. n \in 0 .. n
  OBVIOUS
<1> QED
  BY <1>4, <1>5, <1>6

\* The value of a series at a candle is the one that was appended there.
Settled(f, n) ==
  \A i \in 1 .. n : /\ \A k \in 1 .. i - 1 : f[i - 1][k] = f[n][k]
                    /\ \A v : f[i] = Append(f[i - 1], v) => f[n][i] = v

LEMMA SeriesValue ==
  ASSUME NEW n \in Nat, NEW U, NEW V, NEW f, Grows(f, n, U, V)
  PROVE  Settled(f, n)
<1> SUFFICES ASSUME NEW i \in 1 .. n
             PROVE  /\ \A k \in 1 .. i - 1 : f[i - 1][k] = f[n][k]
                    /\ \A v : f[i] = Append(f[i - 1], v) => f[n][i] = v
  BY DEF Settled
<1>1. i \in 0 .. n /\ i - 1 \in 0 .. n /\ i \in 1 .. i
  OBVIOUS
<1>2. /\ f[i - 1] \in Long(U, V, i - 1) /\ \A k \in 1 .. i - 1 : f[i - 1][k] = f[n][k]
      /\ \A k \in 1 .. i : f[i][k] = f[n][k]
  <2>1. \A j \in 0 .. n : f[j] \in Long(U, V, j) /\ \A k \in 1 .. j : f[j][k] = f[n][k]
    BY SeriesGrows
  <2> QED
    BY <1>1, <2>1
<1>3. f[i - 1] \in Seq(U) /\ Len(f[i - 1]) = i - 1
  BY <1>2 DEF Long
<1>4. \A v : Append(f[i - 1], v)[i] = v
  BY <1>3
<1> QED
  BY <1>1, <1>2, <1>4

----------------------------------------------------------------------------
(* The volatility stop. *)

Prices(cs) ==
  \A i \in DOMAIN cs : {cs[i].open, cs[i].high, cs[i].low, cs[i].close} \subseteq Int /\ cs[i].low <= cs[i].high

\* What a rule of the volatility stop that is not refused asks for.
StopRule(rule) == rule.length \in Nat /\ rule.length >= 2 /\ rule.factor \in Nat

\* A recursive definition on numbers defines numbers.
LEMMA Counted ==
  ASSUME NEW n \in Nat, NEW f, f[0] \in Nat, \A i \in 1 .. n : f[i - 1] \in Nat => f[i] \in Nat
  PROVE  f[n] \in Nat
<1> DEFINE H == {i \in 0 .. n : f[i] \in Nat}
<1>1. 0 \in H /\ \A i \in 1 .. n : i - 1 \in H => i \in H
  OBVIOUS
<1>2. n \in H
  <2> HIDE DEF H
  <2> QED
    BY <1>1, Climb
<1> QED
  BY <1>2

LEMMA UnitIs ==
  ASSUME NEW cs, Len(cs) \in Nat, NEW rule, StopRule(rule)
  PROVE  Unit(cs, rule) \in Nat
<1> DEFINE n == Len(cs)
           Is(f) == f = [i \in 0 .. n |-> IF i = 0 THEN 48 ELSE rule.length * f[i - 1]]
           W == [i \in 0 .. n |-> Nat]
           step == [i \in 1 .. n |-> [w \in Nat |-> rule.length * w]]
<1>1. PICK f : Stepwise(f, n, 48, step) /\ \A i \in 0 .. n : f[i] \in W[i]
  <2>1. 48 \in W[0] /\ n \in Nat
    OBVIOUS
  <2>2. \A i \in 1 .. n : \A w \in W[i - 1] : step[i][w] \in W[i]
    BY DEF StopRule
  <2> HIDE DEF W, step, n
  <2> QED
    BY <2>1, <2>2, Built
<1>2. Is(f)
  <2>1. \A i \in 1 .. n : f[i - 1] \in Nat
    BY <1>1
  <2>2. \A i \in 0 .. n : i # 0 => i \in 1 .. n
    OBVIOUS
  <2> QED
    BY <1>1, <2>1, <2>2 DEF Stepwise
<1> DEFINE g == CHOOSE h : Is(h)
<1>3. Is(g)
  <2> HIDE DEF Is
  <2> QED
    BY <1>2
<1>4. Unit(cs, rule) = g[n]
  BY DEF Unit
<1>5. g[0] \in Nat /\ \A i \in 1 .. n : g[i - 1] \in Nat => g[i] \in Nat
  <2> HIDE DEF g
  <2>1. g[0] = 48 /\ \A i \in 1 .. n : g[i] = rule.length * g[i - 1]
    BY <1>3
  <2>2. \A x \in Nat : rule.length * x \in Nat
    BY DEF StopRule
  <2> QED
    BY <2>1, <2>2
<1> HIDE DEF g
<1> QED
  BY <1>4, <1>5, Counted

LEMMA TrueRangeIs ==
  ASSUME NEW cs, NEW n \in Nat, DOMAIN cs = 1 .. n, Prices(cs), NEW i \in 1 .. n
  PROVE  TrueRange(cs, i) \in Nat
<1>1. i # 1 => i - 1 \in 1 .. n
  OBVIOUS
<1>2. cs[i].high \in Int /\ cs[i].low \in Int /\ cs[i].low <= cs[i].high /\ (i # 1 => cs[i - 1].close \in Int)
  BY <1>1 DEF Prices
<1>3. Height(cs[i]) \in Nat
  BY <1>2 DEF Height
<1> DEFINE above == Distance(cs[i].high, cs[i - 1].close)
           below == Distance(cs[i].low, cs[i - 1].close)
<1>4. i # 1 => above \in Nat /\ below \in Nat
  <2>1. \A a, b \in Int : Distance(a, b) \in Nat
    BY DEF Distance
  <2> QED
    BY <1>2, <2>1
<1>5. TrueRange(cs, i) = IF i = 1 THEN Height(cs[i]) ELSE Larger(Height(cs[i]), Larger(above, below))
  BY DEF TrueRange
<1> HIDE DEF above, below
<1> QED
  BY <1>3, <1>4, <1>5 DEF Larger

LEMMA RangeSumIs ==
  ASSUME NEW cs, NEW n \in Nat, DOMAIN cs = 1 .. n, Prices(cs), NEW m \in 1 .. n
  PROVE  RangeSum(cs, m) \in Nat
<1> DEFINE Is(f) == f = [i \in 0 .. m |-> IF i = 0 THEN 0 ELSE f[i - 1] + TrueRange(cs, i)]
           W == [i \in 0 .. m |-> Nat]
           step == [i \in 1 .. m |-> [w \in Nat |-> w + TrueRange(cs, i)]]
<1>0. \A i \in 1 .. m : TrueRange(cs, i) \in Nat
  BY TrueRangeIs
<1>1. PICK f : Stepwise(f, m, 0, step) /\ \A i \in 0 .. m : f[i] \in W[i]
  <2>1. 0 \in W[0] /\ m \in Nat
    OBVIOUS
  <2>2. \A i \in 1 .. m : \A w \in W[i - 1] : step[i][w] \in W[i]
    BY <1>0
  <2> HIDE DEF W, step
  <2> QED
    BY <2>1, <2>2, Built
<1>2. Is(f)
  <2>1. \A i \in 1 .. m : f[i - 1] \in Nat
    BY <1>1
  <2>2. \A i \in 0 .. m : i # 0 => i \in 1 .. m
    OBVIOUS
  <2> QED
    BY <1>1, <2>1, <2>2 DEF Stepwise
<1> DEFINE g == CHOOSE h : Is(h)
<1>3. Is(g)
  <2> HIDE DEF Is
  <2> QED
    BY <1>2
<1>4. RangeSum(cs, m) = g[m]
  BY DEF RangeSum
<1>5. g[0] \in Nat /\ \A i \in 1 .. m : g[i - 1] \in Nat => g[i] \in Nat
  <2> HIDE DEF g
  <2> QED
    BY <1>0, <1>3
<1> HIDE DEF g
<1> QED
  BY <1>4, <1>5, Counted

\* The average true range, once there is one.
AtrNext(cs, rule, atr, i) ==
  CASE i < rule.length -> Missing
    [] i = rule.length -> (Unit(cs, rule) * RangeSum(cs, i)) \div i
    [] OTHER -> (atr[i - 1] * (rule.length - 1) + Unit(cs, rule) * TrueRange(cs, i)) \div rule.length

LEMMA AtrNextIs ==
  ASSUME NEW cs, NEW n \in Nat, Len(cs) = n, DOMAIN cs = 1 .. n, Prices(cs), NEW rule, StopRule(rule),
         NEW i \in 1 .. n, NEW atr, i > rule.length => atr[i - 1] \in Nat
  PROVE  AtrNext(cs, rule, atr, i) \in IF i < rule.length THEN {Missing} ELSE Nat
<1> DEFINE unit == Unit(cs, rule)
           sum == RangeSum(cs, i)
           range == TrueRange(cs, i)
<1>1. unit \in Nat /\ sum \in Nat /\ range \in Nat
  BY UnitIs, RangeSumIs, TrueRangeIs
<1>2. AtrNext(cs, rule, atr, i) =
        CASE i < rule.length -> Missing
          [] i = rule.length -> (unit * sum) \div i
          [] OTHER -> (atr[i - 1] * (rule.length - 1) + unit * range) \div rule.length
  BY DEF AtrNext
<1> HIDE DEF unit, sum, range
<1>3. CASE i < rule.length
  BY <1>2, <1>3 DEF StopRule
<1>4. CASE i = rule.length
  <2>1. unit * sum \in Nat /\ i \in Nat /\ i > 0
    BY <1>1
  <2>2. (unit * sum) \div i \in Nat
    BY <2>1
  <2>3. ~(i < rule.length)
    BY <1>4
  <2> QED
    BY <1>2, <1>4, <2>2, <2>3
<1>5. CASE i > rule.length
  <2> DEFINE a == atr[i - 1] * (rule.length - 1)
             b == unit * range
  <2>1. a \in Nat
    BY <1>5 DEF StopRule
  <2>2. b \in Nat
    BY <1>1
  <2>3. rule.length \in Nat /\ rule.length > 0
    BY DEF StopRule
  <2>4. ~(i < rule.length) /\ i # rule.length
    BY <1>5, <2>3
  <2>5. AtrNext(cs, rule, atr, i) = (a + b) \div rule.length
    BY <1>2, <2>4
  <2> HIDE DEF a, b
  <2>6. (a + b) \div rule.length \in Nat
    BY <2>1, <2>2, <2>3
  <2> QED
    BY <2>4, <2>5, <2>6
<1> QED
  BY <1>3, <1>4, <1>5 DEF StopRule

LEMMA AtrIs ==
  ASSUME NEW cs, NEW n \in Nat, Len(cs) = n, DOMAIN cs = 1 .. n, Prices(cs), NEW rule, StopRule(rule)
  PROVE  \A i \in 1 .. n : Atr(cs, rule)[i] = Missing \/ Atr(cs, rule)[i] \in Nat
<1> DEFINE NextValue(s, i) == AtrNext(cs, rule, s, i)
           Is(f) == f = [i \in 0 .. n |-> IF i = 0 THEN <<>> ELSE Append(f[i - 1], NextValue(f[i - 1], i))]
           U == Nat \cup {Missing}
           V == [i \in 1 .. n |-> IF i < rule.length THEN {Missing} ELSE Nat]
           step == [i \in 1 .. n |-> [s \in Seq(U) |-> NextValue(s, i)]]
           atr == CHOOSE f : Is(f)
<1>1. Atr(cs, rule) = atr[n]
  BY DEF Atr, Along, AtrNext
<1>2. \A i \in 1 .. n : V[i] \subseteq U
  OBVIOUS
<1>3. ASSUME NEW i \in 1 .. n, NEW s \in Long(U, V, i - 1)
      PROVE  NextValue(s, i) \in V[i]
  <2>1. i > rule.length => s[i - 1] \in Nat
    <3>1. i > rule.length => i - 1 \in 1 .. i - 1 /\ i - 1 \in 1 .. n /\ ~(i - 1 < rule.length)
      BY DEF StopRule
    <3> QED
      BY <3>1 DEF Long
  <2>2. AtrNext(cs, rule, s, i) \in IF i < rule.length THEN {Missing} ELSE Nat
    BY <2>1, AtrNextIs
  <2> QED
    BY <2>2
<1>4. \A i \in 1 .. n : \A s \in Long(U, V, i - 1) : step[i][s] = NextValue(s, i)
  BY DEF Long
<1> HIDE DEF NextValue
<1>5. \E f : Is(f)
  <2> HIDE DEF step, U, V
  <2>1. Keeps(step, n, U, V)
    BY <1>2, <1>3, <1>4 DEF Keeps
  <2>2. PICK f : /\ f = [i \in 0 .. n |-> IF i = 0 THEN <<>> ELSE Append(f[i - 1], step[i][f[i - 1]])]
                 /\ \A i \in 0 .. n : f[i] \in Long(U, V, i)
    BY <2>1, SeriesBuilt
  <2>3. \A i \in 0 .. n : i # 0 => i \in 1 .. n /\ i - 1 \in 0 .. n
    OBVIOUS
  <2>4. \A i \in 0 .. n : i # 0 => step[i][f[i - 1]] = NextValue(f[i - 1], i)
    BY <1>4, <2>2, <2>3
  <2>5. f = [i \in 0 .. n |-> IF i = 0 THEN <<>> ELSE Append(f[i - 1], NextValue(f[i - 1], i))]
    BY <2>2, <2>4
  <2> QED
    BY <2>5
<1>6. Is(atr)
  <2> HIDE DEF Is
  <2> QED
    BY <1>5
<1> HIDE DEF atr
<1>7. \A i \in 0 .. n : atr[i] = IF i = 0 THEN <<>> ELSE Append(atr[i - 1], NextValue(atr[i - 1], i))
  BY <1>6
<1> HIDE DEF U, V
<1>8. Grows(atr, n, U, V)
  <2>1. atr[0] = <<>>
    BY <1>7
  <2>2. \A i \in 1 .. n : i \in 0 .. n /\ i # 0
    OBVIOUS
  <2>3. \A i \in 1 .. n : atr[i] = Append(atr[i - 1], NextValue(atr[i - 1], i))
    BY <1>7, <2>2
  <2> QED
    BY <1>2, <1>3, <2>1, <2>3 DEF Grows
<1>9. atr[n] \in Long(U, V, n)
  BY <1>8, SeriesGrows
<1> QED
  BY <1>1, <1>9 DEF Long, U, V

\* The price that a stop is compared with, and how far a stop is away from it.
StopPrice(cs, rule, i) == (Unit(cs, rule) \div 12) * Source(cs[i], rule.source)
StopDistance(cs, rule, i) ==
  IF Atr(cs, rule)[i] = Missing THEN Unit(cs, rule) * TrueRange(cs, i)
  ELSE (Atr(cs, rule)[i] * rule.factor) \div 4

LEMMA StopNumbers ==
  ASSUME NEW cs, NEW n \in Nat, Len(cs) = n, DOMAIN cs = 1 .. n, Prices(cs), NEW rule, StopRule(rule),
         NEW i \in 1 .. n
  PROVE  StopPrice(cs, rule, i) \in Int /\ StopDistance(cs, rule, i) \in Nat
<1> DEFINE unit == Unit(cs, rule)
           range == TrueRange(cs, i)
           source == Source(cs[i], rule.source)
           average == Atr(cs, rule)[i]
<1>1. unit \in Nat /\ range \in Nat /\ (average = Missing \/ average \in Nat)
  BY UnitIs, TrueRangeIs, AtrIs
<1>2. source \in Int
  <2>1. cs[i].open \in Int /\ cs[i].high \in Int /\ cs[i].low \in Int /\ cs[i].close \in Int
    BY DEF Prices
  <2> DEFINE o == 12 * cs[i].open
             h == 12 * cs[i].high
             l == 12 * cs[i].low
             c == 12 * cs[i].close
             hl == 6 * (cs[i].high + cs[i].low)
             hlc == 4 * (cs[i].high + cs[i].low + cs[i].close)
             ohlc == 3 * (cs[i].open + cs[i].high + cs[i].low + cs[i].close)
             hlcc == 3 * (cs[i].high + cs[i].low + 2 * cs[i].close)
  <2>2. /\ o \in Int /\ h \in Int /\ l \in Int /\ c \in Int
        /\ hl \in Int /\ hlc \in Int /\ ohlc \in Int /\ hlcc \in Int
    <3>1. \A x, y, z, w \in Int :
            /\ 12 * x \in Int /\ 6 * (x + y) \in Int /\ 4 * (x + y + z) \in Int
            /\ 3 * (x + y + z + w) \in Int /\ 3 * (x + y + 2 * z) \in Int
      OBVIOUS
    <3> QED
      BY <2>1, <3>1
  <2>3. source \in {o, h, l, c, hl, hlc, ohlc, hlcc}
    BY DEF Source
  <2> HIDE DEF o, h, l, c, hl, hlc, ohlc, hlcc, source
  <2> QED
    BY <2>2, <2>3
<1>3. StopPrice(cs, rule, i) = (unit \div 12) * source
  BY DEF StopPrice
<1>4. StopDistance(cs, rule, i) = IF average = Missing THEN unit * range ELSE (average * rule.factor) \div 4
  BY DEF StopDistance
<1> HIDE DEF unit, range, source, average
<1>5. unit \div 12 \in Int
  BY <1>1
<1>6. (unit \div 12) * source \in Int
  BY <1>2, <1>5
<1>7. unit * range \in Nat
  BY <1>1
<1>8. average \in Nat => (average * rule.factor) \div 4 \in Nat
  <2>1. average \in Nat => average * rule.factor \in Nat
    BY DEF StopRule
  <2> QED
    BY <2>1
<1> QED
  BY <1>1, <1>3, <1>4, <1>6, <1>7, <1>8

StopState == [at : Int, up : BOOLEAN, max : Int, min : Int]

\* The stop at candle i, of the one before.
StopNext(p, price, distance, i) ==
  LET max == Larger(p.max, price)
      min == Smaller(p.min, price)
      candidate == IF p.up THEN Larger(p.at, max - distance) ELSE Smaller(p.at, min + distance)
      up == price >= candidate
  IN CASE i = 1 -> [at |-> price, up |-> TRUE, max |-> price, min |-> price]
       [] i > 1 /\ up = p.up -> [at |-> candidate, up |-> up, max |-> max, min |-> min]
       [] OTHER -> Turned(price, distance, max, min, up)

\* The price is on the trend's side of a stop, and a stop does not move back.
Trails(p, s, price, i) ==
  /\ IF s.up THEN price >= s.at ELSE price <= s.at
  /\ i > 1 /\ s.up = p.up => IF s.up THEN s.at >= p.at ELSE s.at <= p.at

LEMMA StopNextIs ==
  ASSUME NEW i \in Nat \ {0}, NEW p, i > 1 => p \in StopState, NEW price \in Int, NEW distance \in Nat
  PROVE  LET s == StopNext(p, price, distance, i) IN s \in StopState /\ Trails(p, s, price, i)
<1> DEFINE s == StopNext(p, price, distance, i)
           max == Larger(p.max, price)
           min == Smaller(p.min, price)
           candidate == IF p.up THEN Larger(p.at, max - distance) ELSE Smaller(p.at, min + distance)
           up == price >= candidate
<1> SUFFICES s \in StopState /\ Trails(p, s, price, i)
  OBVIOUS
<1>1. CASE i = 1
  <2>1. s = [at |-> price, up |-> TRUE, max |-> price, min |-> price]
    BY <1>1 DEF StopNext
  <2> HIDE DEF s
  <2> QED
    BY <1>1, <2>1 DEF StopState, Trails
<1>2. CASE i # 1
  <2>1. p.at \in Int /\ p.up \in BOOLEAN /\ p.max \in Int /\ p.min \in Int
    BY <1>2 DEF StopState
  <2>2. max \in Int /\ min \in Int
    BY <2>1 DEF Larger, Smaller
  <2>3. s = IF up = p.up THEN [at |-> candidate, up |-> up, max |-> max, min |-> min]
            ELSE Turned(price, distance, max, min, up)
    BY <1>2 DEF StopNext
  <2> HIDE DEF s, max, min
  <2>4. candidate \in Int /\ (p.up => candidate >= p.at) /\ (~p.up => candidate <= p.at)
    BY <2>1, <2>2 DEF Larger, Smaller
  <2> DEFINE at == IF up = p.up THEN candidate ELSE IF up THEN price - distance ELSE price + distance
             high == IF up = p.up THEN max ELSE price
             low == IF up = p.up THEN min ELSE price
  <2>5. s = [at |-> at, up |-> up, max |-> high, min |-> low]
    <3>1. CASE up = p.up
      BY <2>3, <3>1
    <3>2. CASE up # p.up
      BY <2>3, <3>2 DEF Turned
    <3> QED
      BY <3>1, <3>2
  <2>6. at \in Int /\ high \in Int /\ low \in Int
    BY <2>2, <2>4
  <2>7. up \in BOOLEAN
    OBVIOUS
  <2>8. s \in StopState /\ s.at = at /\ s.up = up
    <3> HIDE DEF at, high, low, up
    <3> QED
      BY <2>5, <2>6, <2>7 DEF StopState
  <2>9. IF up THEN price >= at ELSE price <= at
    <3> HIDE DEF candidate
    <3> QED
      BY <2>1, <2>4
  <2>10. i > 1 /\ up = p.up => IF up THEN at >= p.at ELSE at <= p.at
    <3> HIDE DEF candidate
    <3> QED
      BY <2>1, <2>4
  <2> HIDE DEF at, up
  <2> QED
    BY <2>8, <2>9, <2>10 DEF Trails
<1> HIDE DEF s
<1> QED
  BY <1>1, <1>2

LEMMA StopsIs ==
  ASSUME NEW cs, NEW n \in Nat, Len(cs) = n, DOMAIN cs = 1 .. n, Prices(cs), NEW rule, StopRule(rule)
  PROVE  LET stop == Stops(cs, rule)
         IN /\ DOMAIN stop = 1 .. n
            /\ \A i \in 1 .. n : stop[i] \in StopState /\ Trails(stop[i - 1], stop[i], StopPrice(cs, rule, i), i)
<1> DEFINE NextValue(s, i) == StopNext(s[i - 1], StopPrice(cs, rule, i), StopDistance(cs, rule, i), i)
           Is(f) == f = [i \in 0 .. n |-> IF i = 0 THEN <<>> ELSE Append(f[i - 1], NextValue(f[i - 1], i))]
           U == StopState
           V == [i \in 1 .. n |-> StopState]
           step == [i \in 1 .. n |-> [s \in Seq(U) |-> NextValue(s, i)]]
           stop == CHOOSE f : Is(f)
<1>1. Stops(cs, rule) = stop[n]
  BY DEF Stops, Along, StopNext, StopPrice, StopDistance
<1>2. \A i \in 1 .. n : V[i] \subseteq U
  OBVIOUS
<1>3. ASSUME NEW i \in 1 .. n, NEW s, i > 1 => s[i - 1] \in StopState
      PROVE  NextValue(s, i) \in StopState /\ Trails(s[i - 1], NextValue(s, i), StopPrice(cs, rule, i), i)
  <2>1. StopPrice(cs, rule, i) \in Int /\ StopDistance(cs, rule, i) \in Nat /\ i \in Nat \ {0}
    BY StopNumbers
  <2> QED
    BY <1>3, <2>1, StopNextIs
<1>4. ASSUME NEW i \in 1 .. n, NEW s \in Long(U, V, i - 1)
      PROVE  step[i][s] = NextValue(s, i) /\ NextValue(s, i) \in V[i]
  <2>1. step[i][s] = NextValue(s, i)
    BY DEF Long
  <2>2. i > 1 => s[i - 1] \in StopState
    <3>1. i > 1 => i - 1 \in 1 .. i - 1 /\ i - 1 \in 1 .. n
      OBVIOUS
    <3> QED
      BY <3>1 DEF Long
  <2>3. NextValue(s, i) \in StopState
    BY <1>3, <2>2
  <2> QED
    BY <2>1, <2>3
<1> HIDE DEF NextValue
<1>5. \E f : Is(f)
  <2> HIDE DEF step, U, V
  <2>1. Keeps(step, n, U, V)
    BY <1>2, <1>4 DEF Keeps
  <2>2. PICK f : /\ f = [i \in 0 .. n |-> IF i = 0 THEN <<>> ELSE Append(f[i - 1], step[i][f[i - 1]])]
                 /\ \A i \in 0 .. n : f[i] \in Long(U, V, i)
    BY <2>1, SeriesBuilt
  <2>3. \A i \in 0 .. n : i # 0 => i \in 1 .. n /\ i - 1 \in 0 .. n
    OBVIOUS
  <2>4. \A i \in 0 .. n : i # 0 => step[i][f[i - 1]] = NextValue(f[i - 1], i)
    BY <1>4, <2>2, <2>3
  <2>5. f = [i \in 0 .. n |-> IF i = 0 THEN <<>> ELSE Append(f[i - 1], NextValue(f[i - 1], i))]
    BY <2>2, <2>4
  <2> QED
    BY <2>5
<1>6. Is(stop)
  <2> HIDE DEF Is
  <2> QED
    BY <1>5
<1> HIDE DEF stop
<1>7. \A i \in 0 .. n : stop[i] = IF i = 0 THEN <<>> ELSE Append(stop[i - 1], NextValue(stop[i - 1], i))
  BY <1>6
<1>8. \A i \in 1 .. n : stop[i] = Append(stop[i - 1], NextValue(stop[i - 1], i))
  <2>1. \A i \in 1 .. n : i \in 0 .. n /\ i # 0
    OBVIOUS
  <2> QED
    BY <1>7, <2>1
<1> HIDE DEF U, V, step
<1>9. Grows(stop, n, U, V)
  <2>1. stop[0] = <<>>
    BY <1>7
  <2> QED
    BY <1>2, <1>4, <1>8, <2>1 DEF Grows
<1>10. stop[n] \in Long(U, V, n)
  BY <1>9, SeriesGrows
<1>11. DOMAIN stop[n] = 1 .. n /\ \A i \in 1 .. n : stop[n][i] \in StopState
  BY <1>10 DEF Long, U, V
<1>12. ASSUME NEW i \in 1 .. n
       PROVE  Trails(stop[n][i - 1], stop[n][i], StopPrice(cs, rule, i), i)
  <2>1. stop[i] = Append(stop[i - 1], NextValue(stop[i - 1], i))
    BY <1>8
  <2>2. stop[n][i] = NextValue(stop[i - 1], i) /\ \A k \in 1 .. i - 1 : stop[i - 1][k] = stop[n][k]
    <3>1. Settled(stop, n)
      BY <1>9, SeriesValue
    <3> QED
      BY <2>1, <3>1 DEF Settled
  <2>3. i > 1 => i - 1 \in 1 .. i - 1 /\ i - 1 \in 1 .. n
    OBVIOUS
  <2>4. i > 1 => stop[i - 1][i - 1] = stop[n][i - 1] /\ stop[n][i - 1] \in StopState
    BY <1>11, <2>2, <2>3
  <2>5. Trails(stop[i - 1][i - 1], stop[n][i], StopPrice(cs, rule, i), i)
    BY <1>3, <2>2, <2>4
  <2> QED
    BY <2>4, <2>5 DEF Trails
<1> QED
  BY <1>1, <1>11, <1>12

\* After a breach, and after the one that is told, the price is in limbo until
\* the trend turns.
BreachState == [early : BOOLEAN, limbo : BOOLEAN]

LEMMA BreachingIs ==
  ASSUME NEW cs, NEW n \in Nat, Len(cs) = n, NEW rule, NEW stop
  PROVE  LET state == Breaching(cs, rule, stop)
         IN /\ DOMAIN state = 1 .. n
            /\ \A i \in 1 .. n : state[i].early => state[i].limbo /\ (i > 1 => ~state[i - 1].limbo)
            /\ \A i \in 1 .. n : i > 1 /\ state[i - 1].limbo /\ ~Reversed(stop, i) => state[i].limbo
<1> DEFINE limbo(s, i) == i > 1 /\ s[i - 1].limbo
           breach(s, i) == rule.higherFrame /\ rule.detectBreaches /\ ~limbo(s, i) /\ StopCrossed(cs, rule, stop, i)
           NextValue(s, i) == [early |-> breach(s, i) /\ ~Reversed(stop, i),
                           limbo |-> (limbo(s, i) \/ breach(s, i)) /\ ~Reversed(stop, i)]
           Is(f) == f = [i \in 0 .. n |-> IF i = 0 THEN <<>> ELSE Append(f[i - 1], NextValue(f[i - 1], i))]
           U == BreachState
           V == [i \in 1 .. n |-> BreachState]
           step == [i \in 1 .. n |-> [s \in Seq(U) |-> NextValue(s, i)]]
           state == CHOOSE f : Is(f)
<1>1. Breaching(cs, rule, stop) = state[n]
  BY DEF Breaching, Along
<1>2. \A i \in 1 .. n : V[i] \subseteq U
  OBVIOUS
<1>3. \A i, s : /\ NextValue(s, i) \in BreachState
                /\ NextValue(s, i).early <=> breach(s, i) /\ ~Reversed(stop, i)
                /\ NextValue(s, i).limbo <=> (limbo(s, i) \/ breach(s, i)) /\ ~Reversed(stop, i)
                /\ breach(s, i) => ~limbo(s, i)
  BY DEF BreachState
<1>4. ASSUME NEW i \in 1 .. n, NEW s \in Long(U, V, i - 1)
      PROVE  step[i][s] = NextValue(s, i) /\ NextValue(s, i) \in V[i]
  <2>1. step[i][s] = NextValue(s, i)
    BY DEF Long
  <2> QED
    BY <1>3, <2>1
<1> HIDE DEF NextValue, breach
<1>5. \E f : Is(f)
  <2> HIDE DEF step, U, V
  <2>1. Keeps(step, n, U, V)
    BY <1>2, <1>4 DEF Keeps
  <2>2. PICK f : /\ f = [i \in 0 .. n |-> IF i = 0 THEN <<>> ELSE Append(f[i - 1], step[i][f[i - 1]])]
                 /\ \A i \in 0 .. n : f[i] \in Long(U, V, i)
    BY <2>1, SeriesBuilt
  <2>3. \A i \in 0 .. n : i # 0 => i \in 1 .. n /\ i - 1 \in 0 .. n
    OBVIOUS
  <2>4. \A i \in 0 .. n : i # 0 => step[i][f[i - 1]] = NextValue(f[i - 1], i)
    BY <1>4, <2>2, <2>3
  <2>5. f = [i \in 0 .. n |-> IF i = 0 THEN <<>> ELSE Append(f[i - 1], NextValue(f[i - 1], i))]
    BY <2>2, <2>4
  <2> QED
    BY <2>5
<1>6. Is(state)
  <2> HIDE DEF Is
  <2> QED
    BY <1>5
<1> HIDE DEF state
<1>7. \A i \in 0 .. n : state[i] = IF i = 0 THEN <<>> ELSE Append(state[i - 1], NextValue(state[i - 1], i))
  BY <1>6
<1>8. \A i \in 1 .. n : state[i] = Append(state[i - 1], NextValue(state[i - 1], i))
  <2>1. \A i \in 1 .. n : i \in 0 .. n /\ i # 0
    OBVIOUS
  <2> QED
    BY <1>7, <2>1
<1> HIDE DEF U, V, step
<1>9. Grows(state, n, U, V)
  <2>1. state[0] = <<>>
    BY <1>7
  <2> QED
    BY <1>2, <1>4, <1>8, <2>1 DEF Grows
<1>10. state[n] \in Long(U, V, n)
  BY <1>9, SeriesGrows
<1>11. DOMAIN state[n] = 1 .. n
  BY <1>10 DEF Long
<1>12. ASSUME NEW i \in 1 .. n
       PROVE  /\ state[n][i].early => state[n][i].limbo /\ (i > 1 => ~state[n][i - 1].limbo)
              /\ i > 1 /\ state[n][i - 1].limbo /\ ~Reversed(stop, i) => state[n][i].limbo
  <2>1. state[i] = Append(state[i - 1], NextValue(state[i - 1], i))
    BY <1>8
  <2>2. state[n][i] = NextValue(state[i - 1], i) /\ \A k \in 1 .. i - 1 : state[i - 1][k] = state[n][k]
    <3>1. Settled(state, n)
      BY <1>9, SeriesValue
    <3> QED
      BY <2>1, <3>1 DEF Settled
  <2>3. i > 1 => i - 1 \in 1 .. i - 1
    OBVIOUS
  <2>4. i > 1 => state[i - 1][i - 1] = state[n][i - 1]
    BY <2>2, <2>3
  <2>5. limbo(state[i - 1], i) <=> i > 1 /\ state[n][i - 1].limbo
    BY <2>4
  <2> HIDE DEF limbo
  <2> QED
    BY <1>3, <2>2, <2>5
<1> QED
  BY <1>1, <1>11, <1>12

\* A trend is breached early once before it turns.
LEMMA EarlyOnce ==
  ASSUME NEW n \in Nat, NEW state, NEW stop,
         \A i \in 1 .. n : state[i].early => state[i].limbo /\ (i > 1 => ~state[i - 1].limbo),
         \A i \in 1 .. n : i > 1 /\ state[i - 1].limbo /\ ~Reversed(stop, i) => state[i].limbo,
         NEW a \in 1 .. n, NEW b \in 1 .. n, state[a].early, state[b].early, a < b
  PROVE  \E k \in a + 1 .. b : Reversed(stop, k)
<1> SUFFICES ASSUME \A k \in a + 1 .. b : ~Reversed(stop, k) PROVE FALSE
  OBVIOUS
<1> DEFINE m == b - 1 - a
           H == {k \in 0 .. m : state[a + k].limbo}
<1>1. m \in Nat
  OBVIOUS
<1>2. 0 \in H
  BY <1>1
<1>3. ASSUME NEW k \in 1 .. m, k - 1 \in H
      PROVE  k \in H
  <2>1. a + k \in 1 .. n /\ a + k > 1 /\ a + k \in a + 1 .. b /\ a + (k - 1) = (a + k) - 1 /\ k \in 0 .. m
    OBVIOUS
  <2>2. state[(a + k) - 1].limbo
    BY <1>3, <2>1
  <2> QED
    BY <2>1, <2>2
<1>4. m \in H
  <2>1. \A k \in 1 .. m : k - 1 \in H => k \in H
    BY <1>3
  <2>2. m \in 0 .. m
    BY <1>1
  <2> HIDE DEF H, m
  <2> QED
    BY <1>1, <1>2, <2>1, <2>2, Climb
<1>5. a + m = b - 1 /\ b > 1
  OBVIOUS
<1>6. state[b - 1].limbo
  <2>1. state[a + m].limbo
    BY <1>4
  <2> HIDE DEF m
  <2> QED
    BY <1>5, <2>1
<1> QED
  BY <1>5, <1>6

LEMMA TrailingIs ==
  ASSUME NEW cs \in Seq(Shapes[family]), family \in Family
  PROVE  Trailing(cs)
<1> SUFFICES ASSUME family = "volatility", NEW r \in Asks.volatility, ~VolatilityError(r),
                    Normalized(r, VolatilityDefaults).mode = "vstop"
             PROVE  LET rule == Normalized(r, VolatilityDefaults)
                        stop == Stops(cs, rule)
                        breaching == Breaching(cs, rule, stop)
                        price(i) == (Unit(cs, rule) \div 12) * Source(cs[i], rule.source)
                        early == {i \in DOMAIN cs : breaching[i].early}
                    IN /\ \A i \in DOMAIN stop :
                            /\ IF stop[i].up THEN price(i) >= stop[i].at ELSE price(i) <= stop[i].at
                            /\ i > 1 /\ ~Reversed(stop, i) =>
                                 IF stop[i].up THEN stop[i].at >= stop[i - 1].at ELSE stop[i].at <= stop[i - 1].at
                       /\ \A i, j \in early : i < j => \E k \in i + 1 .. j : Reversed(stop, k)
  BY DEF Trailing
<1> DEFINE rule == Normalized(r, VolatilityDefaults)
           stop == Stops(cs, rule)
           breaching == Breaching(cs, rule, stop)
           n == Len(cs)
<1>1. n \in Nat /\ DOMAIN cs = 1 .. n
  OBVIOUS
<1>2. Prices(cs)
  BY PricesAssumption DEF Prices
<1>3. StopRule(rule)
  <2>1. rule.length \in Int /\ rule.factor \in Int
    BY AsksAssumption
  <2>2. rule.length >= 2 /\ rule.factor >= 1
    <3>1. ~(rule.factor < 1) /\ ~(rule.mode = "vstop" /\ rule.length < 2) /\ rule.mode = "vstop"
      BY DEF VolatilityError
    <3> HIDE DEF rule
    <3> QED
      BY <2>1, <3>1
  <2> HIDE DEF rule
  <2> QED
    BY <2>1, <2>2 DEF StopRule
<1> HIDE DEF rule
<1>4. /\ DOMAIN stop = 1 .. n
      /\ \A i \in 1 .. n : stop[i] \in StopState /\ Trails(stop[i - 1], stop[i], StopPrice(cs, rule, i), i)
  BY <1>1, <1>2, <1>3, StopsIs
<1>5. /\ \A i \in 1 .. n : breaching[i].early => breaching[i].limbo /\ (i > 1 => ~breaching[i - 1].limbo)
      /\ \A i \in 1 .. n : i > 1 /\ breaching[i - 1].limbo /\ ~Reversed(stop, i) => breaching[i].limbo
  BY <1>1, BreachingIs
<1> HIDE DEF stop, breaching
<1>6. \A i \in DOMAIN stop :
        /\ IF stop[i].up THEN StopPrice(cs, rule, i) >= stop[i].at ELSE StopPrice(cs, rule, i) <= stop[i].at
        /\ i > 1 /\ ~Reversed(stop, i) =>
             IF stop[i].up THEN stop[i].at >= stop[i - 1].at ELSE stop[i].at <= stop[i - 1].at
  BY <1>4 DEF Trails, Reversed
<1>7. \A i, j \in {k \in DOMAIN cs : breaching[k].early} : i < j => \E k \in i + 1 .. j : Reversed(stop, k)
  BY <1>1, <1>5, EarlyOnce
<1> QED
  BY <1>6, <1>7 DEF StopPrice, rule, stop, breaching

\* On every chart the volatility stop stays on its side of the price and only
\* moves after it while the trend lasts, and a trend is breached early once
\* before it turns (volatility.py:583 and 716).
THEOREM StopTrailsHolds == Spec => StopTrails
<1>1. ChartOK /\ [Next]_vars => [Trailing(chart')]_vars
  <2> SUFFICES ASSUME ChartOK, Bar PROVE Trailing(chart')
    BY DEF Next
  <2>1. chart' \in Seq(Shapes[family]) /\ family \in Family /\ family' = family
    BY DEF ChartOK, Bar
  <2> QED
    BY <2>1, TrailingIs
<1> QED
  BY <1>1, ChartTyped, PTL DEF Spec, StopTrails

----------------------------------------------------------------------------
(* A run is reported once. *)

LEMMA RunStartIs ==
  ASSUME NEW n \in Nat, NEW H \in SUBSET (1 .. n)
  PROVE  /\ n \notin H => RunStart(n, H) = Missing
         /\ n \in H => /\ RunStart(n, H) \in 1 .. n /\ RunStart(n, H) - 1 \notin H
                       /\ RunStart(n, H) .. n \subseteq H
<1>1. n \notin H => RunStart(n, H) = Missing
  BY DEF RunStart
<1>2. ASSUME n \in H
      PROVE  \E i \in 1 .. n : i .. n \subseteq H /\ i - 1 \notin H
  <2> DEFINE l == RunLength(n, H)
  <2>1. l \in 0 .. n /\ n - l \notin H /\ (\A i \in n - l + 1 .. n : i \in H) /\ l # 0
    BY <1>2, RunLengthIs
  <2> HIDE DEF l
  <2>2. n - l + 1 \in 1 .. n /\ (n - l + 1) - 1 = n - l
    BY <2>1
  <2> QED
    BY <2>1, <2>2
<1>3. n \in H => RunStart(n, H) = CHOOSE i \in 1 .. n : i .. n \subseteq H /\ i - 1 \notin H
  BY DEF RunStart
<1> QED
  BY <1>1, <1>2, <1>3

\* A run that goes on began where it did; one that did not begin now goes on.
LEMMA RunGoesOn ==
  ASSUME NEW n \in Nat, NEW H \in SUBSET (1 .. n), NEW J \in SUBSET (1 .. n + 1),
         \A i \in 1 .. n : i \in H <=> i \in J, n + 1 \in J
  PROVE  /\ RunStart(n + 1, J) \in 1 .. n + 1
         /\ RunStart(n + 1, J) = n + 1 => RunStart(n, H) = Missing
         /\ RunStart(n + 1, J) # n + 1 => RunStart(n, H) = RunStart(n + 1, J)
<1> DEFINE s == RunStart(n + 1, J)
           t == RunStart(n, H)
<1>1. s \in 1 .. n + 1 /\ s - 1 \notin J /\ s .. n + 1 \subseteq J
  BY RunStartIs
<1>2. n \notin H => t = Missing
  BY RunStartIs
<1>3. n \in H => t \in 1 .. n /\ t - 1 \notin H /\ t .. n \subseteq H
  BY RunStartIs
<1> HIDE DEF s, t
<1>4. s = n + 1 => n \notin H
  <2>1. s = n + 1 => n \notin J
    BY <1>1
  <2>2. n \in H => n \in J
    OBVIOUS
  <2> QED
    BY <2>1, <2>2
<1>5. ASSUME s # n + 1
      PROVE  t = s
  <2>1. s \in 1 .. n /\ n \in s .. n + 1
    BY <1>1, <1>5
  <2>2. n \in H
    BY <1>1, <2>1
  <2>3. t \in 1 .. n /\ t - 1 \notin H /\ t .. n \subseteq H
    BY <1>3, <2>2
  <2>4. ~(s < t)
    <3>1. SUFFICES ASSUME s < t PROVE FALSE
      OBVIOUS
    <3>2. t - 1 \in s .. n + 1 /\ t - 1 \in 1 .. n
      BY <2>1, <2>3, <3>1
    <3> QED
      BY <1>1, <2>3, <3>2
  <2>5. ~(t < s)
    <3>1. SUFFICES ASSUME t < s PROVE FALSE
      OBVIOUS
    <3>2. s - 1 \in t .. n /\ s - 1 \in 1 .. n
      BY <2>1, <2>3, <3>1
    <3> QED
      BY <1>1, <2>3, <3>2
  <2> QED
    BY <2>1, <2>3, <2>4, <2>5
<1> QED
  BY <1>1, <1>2, <1>4, <1>5 DEF s, t

\* A chart and the one with one more candle.
OneMore(cs, next, n) ==
  /\ DOMAIN cs = 1 .. n /\ Len(cs) = n /\ DOMAIN next = 1 .. n + 1 /\ Len(next) = n + 1
  /\ \A i \in 1 .. n : next[i] = cs[i]

\* What one more candle makes of a rule, of a line and of a regression candle.
LineOnce(cs, next, line, r, name) ==
  HoldsForWindow(next, line, r, name) =>
    /\ ~HoldsForWindow(cs, line, r, name)
    /\ r.window > 1 => HoldsForWindow(cs, line, [r EXCEPT !.window = @ - 1, !.confirm.on = FALSE], name)
LinregOnce(cs, next, r) ==
  LET shorter == [r EXCEPT !.window = @ - 1]
      plain == r.location = Missing /\ ~r.confirm.on /\ LinregEnough(cs, r)
  IN /\ r.position \in States /\ plain /\ LinregPasses(next, r) =>
          ~LinregPasses(cs, r) /\ (r.window > 1 => LinregPasses(cs, shorter))
     /\ r.position \in Piercings /\ plain /\ r.window > 1 => LinregPasses(next, r) = LinregPasses(cs, shorter)

LEMMA LineReported ==
  ASSUME NEW n \in Nat, NEW cs, NEW next, OneMore(cs, next, n), NEW line, NEW name, NEW r \in WindowRules
  PROVE  LineOnce(cs, next, line, r, name)
<1> SUFFICES ASSUME HoldsForWindow(next, line, r, name)
             PROVE  /\ ~HoldsForWindow(cs, line, r, name)
                    /\ r.window > 1 =>
                         HoldsForWindow(cs, line, [r EXCEPT !.window = @ - 1, !.confirm.on = FALSE], name)
  BY DEF LineOnce
<1> DEFINE q == [r EXCEPT !.window = @ - 1, !.confirm.on = FALSE]
           H == {i \in 1 .. n : LineRuleAt(cs, line, i, r, name)}
           J == {i \in 1 .. n + 1 : LineRuleAt(next, line, i, r, name)}
           s == RunStart(n + 1, J)
           t == RunStart(n, H)
<1>1. r.window \in Nat \ {0}
  BY RulesAssumption
<1>2. /\ q.window = r.window - 1 /\ q.action = r.action /\ q.tolerance = r.tolerance
      /\ q.touch = r.touch /\ q.tick = r.tick /\ q.confirm.on = FALSE
  BY RulesAssumption
<1>3. \A i \in 1 .. n : i \in H <=> i \in J
  BY DEF LineRuleAt, OneMore
<1>4. s # Missing /\ Len(next) - s + 1 = r.window /\ Len(next) = n + 1
  <2>1. {i \in DOMAIN next : LineRuleAt(next, line, i, r, name)} = J /\ Len(next) = n + 1
    BY DEF OneMore
  <2> HIDE DEF J
  <2> QED
    BY <2>1 DEF HoldsForWindow
<1>5. n + 1 \in J
  <2>1. n + 1 \in Nat /\ J \in SUBSET (1 .. n + 1)
    OBVIOUS
  <2> HIDE DEF J
  <2> QED
    BY <1>4, <2>1, RunStartIs
<1>6. s \in 1 .. n + 1 /\ (s = n + 1 => t = Missing) /\ (s # n + 1 => t = s)
  <2>1. H \in SUBSET (1 .. n) /\ J \in SUBSET (1 .. n + 1)
    OBVIOUS
  <2> HIDE DEF H, J
  <2> QED
    BY <1>3, <1>5, <2>1, RunGoesOn
<1>7. HoldsForWindow(cs, line, r, name) => t # Missing /\ n - t + 1 = r.window
  BY DEF HoldsForWindow, OneMore
<1>8. HoldsForWindow(cs, line, q, name) <=> t # Missing /\ n - t + 1 = r.window - 1
  <2>1. \A i \in 1 .. n : LineRuleAt(cs, line, i, q, name) <=> LineRuleAt(cs, line, i, r, name)
    <3> HIDE DEF q
    <3> QED
      BY <1>2 DEF LineRuleAt, LineRule
  <2>2. {i \in DOMAIN cs : LineRuleAt(cs, line, i, q, name)} = H
    BY <2>1 DEF OneMore
  <2>3. \A start : Confirmed(cs, start, q.confirm)
    <3> HIDE DEF q
    <3> QED
      BY <1>2 DEF Confirmed
  <2> HIDE DEF q, H
  <2> QED
    BY <1>2, <2>2, <2>3 DEF HoldsForWindow, OneMore
<1> HIDE DEF q, H, J, s, t
<1>9. ~HoldsForWindow(cs, line, r, name)
  BY <1>1, <1>4, <1>6, <1>7
<1>10. r.window > 1 => HoldsForWindow(cs, line, q, name)
  <2>1. r.window > 1 => s # n + 1
    BY <1>1, <1>4
  <2> QED
    BY <1>1, <1>4, <1>6, <1>8, <2>1
<1> QED
  BY <1>9, <1>10 DEF q

\* The prices of the candles that a rule is about, and their line.
Ends(cs, rule, field) ==
  LET prices == [i \in DOMAIN cs |-> cs[i][field]] IN IF rule.linReg THEN Fitted(prices, rule.length) ELSE prices
SignalLine(cs, rule) ==
  [i \in DOMAIN cs |->
     LET last == i - rule.smoothing + 1 .. i
         closes == Ends(cs, rule, "close")
     IN IF Known(closes, last) THEN Total([k \in last |-> closes[k]]) ELSE Missing]
ScaledEnds(cs, rule, field) ==
  [i \in DOMAIN cs |->
     IF SignalLine(cs, rule)[i] = Missing THEN Missing ELSE rule.smoothing * Ends(cs, rule, field)[i]]

LEMMA LinregSeriesIs ==
  ASSUME NEW cs, NEW rule
  PROVE  LinregSeries(cs, rule) =
           [line |-> SignalLine(cs, rule),
            bars |-> [i \in DOMAIN cs |-> [open |-> ScaledEnds(cs, rule, "open")[i], high |-> ScaledEnds(cs, rule, "high")[i],
                                           low |-> ScaledEnds(cs, rule, "low")[i], close |-> ScaledEnds(cs, rule, "close")[i]]]]
BY DEF LinregSeries, SignalLine, ScaledEnds, Ends

LEMMA EndsStay ==
  ASSUME NEW n \in Nat, NEW cs, NEW next, OneMore(cs, next, n), NEW rule, rule.length \in Nat, NEW field
  PROVE  /\ DOMAIN Ends(cs, rule, field) = 1 .. n /\ DOMAIN Ends(next, rule, field) = 1 .. n + 1
         /\ \A i \in 1 .. n : Ends(next, rule, field)[i] = Ends(cs, rule, field)[i]
<1> DEFINE p == [i \in DOMAIN cs |-> cs[i][field]]
           q == [i \in DOMAIN next |-> next[i][field]]
           terms(values, i) == [k \in 1 .. rule.length |-> (6 * k - 2 * (rule.length + 1)) * values[i - rule.length + k]]
<1>1. DOMAIN p = 1 .. n /\ DOMAIN q = 1 .. n + 1 /\ \A i \in 1 .. n : q[i] = p[i]
  BY DEF OneMore
<1>2. Ends(cs, rule, field) = (IF rule.linReg THEN Fitted(p, rule.length) ELSE p)
  BY DEF Ends
<1>3. Ends(next, rule, field) = (IF rule.linReg THEN Fitted(q, rule.length) ELSE q)
  BY DEF Ends
<1> HIDE DEF p, q
<1>4. /\ DOMAIN Fitted(p, rule.length) = 1 .. n
      /\ \A i \in 1 .. n : Fitted(p, rule.length)[i] = IF i < rule.length THEN Missing ELSE Total(terms(p, i))
  BY <1>1 DEF Fitted
<1>5. /\ DOMAIN Fitted(q, rule.length) = 1 .. n + 1
      /\ \A i \in 1 .. n : Fitted(q, rule.length)[i] = IF i < rule.length THEN Missing ELSE Total(terms(q, i))
  BY <1>1 DEF Fitted
<1>6. ASSUME NEW i \in 1 .. n, ~(i < rule.length)
      PROVE  terms(q, i) = terms(p, i)
  <2>1. \A k \in 1 .. rule.length : i - rule.length + k \in 1 .. n
    BY <1>6
  <2> QED
    BY <1>1, <2>1
<1> HIDE DEF terms
<1> QED
  BY <1>1, <1>2, <1>3, <1>4, <1>5, <1>6

LEMMA SignalLineStays ==
  ASSUME NEW n \in Nat, NEW cs, NEW next, OneMore(cs, next, n), NEW rule, rule.length \in Nat, rule.smoothing \in Nat
  PROVE  \A i \in 1 .. n : SignalLine(next, rule)[i] = SignalLine(cs, rule)[i]
<1> DEFINE p == Ends(cs, rule, "close")
           q == Ends(next, rule, "close")
           last(i) == i - rule.smoothing + 1 .. i
<1>1. DOMAIN p = 1 .. n /\ DOMAIN q = 1 .. n + 1 /\ \A i \in 1 .. n : q[i] = p[i]
  BY EndsStay
<1>2. \A i \in 1 .. n :
        /\ SignalLine(cs, rule)[i] = IF Known(p, last(i)) THEN Total([k \in last(i) |-> p[k]]) ELSE Missing
        /\ SignalLine(next, rule)[i] = IF Known(q, last(i)) THEN Total([k \in last(i) |-> q[k]]) ELSE Missing
  BY DEF SignalLine, OneMore
<1> HIDE DEF p, q
<1>3. ASSUME NEW i \in 1 .. n
      PROVE  /\ Known(p, last(i)) <=> Known(q, last(i))
             /\ Known(p, last(i)) => [k \in last(i) |-> q[k]] = [k \in last(i) |-> p[k]]
  <2>1. \A k \in last(i) : k \in 1 .. n <=> k \in 1 .. n + 1
    OBVIOUS
  <2>2. Known(p, last(i)) <=> Known(q, last(i))
    <3> HIDE DEF last
    <3> QED
      BY <1>1, <2>1 DEF Known
  <2>3. Known(p, last(i)) => \A k \in last(i) : q[k] = p[k]
    <3> HIDE DEF last
    <3> QED
      BY <1>1 DEF Known
  <2> QED
    BY <2>2, <2>3
<1> HIDE DEF last
<1> QED
  BY <1>2, <1>3

LEMMA BarsStay ==
  ASSUME NEW n \in Nat, NEW cs, NEW next, OneMore(cs, next, n), NEW rule, rule.length \in Nat, rule.smoothing \in Nat,
         NEW i \in 1 .. n
  PROVE  /\ LinregSeries(next, rule).line[i] = LinregSeries(cs, rule).line[i]
         /\ LinregSeries(next, rule).bars[i] = LinregSeries(cs, rule).bars[i]
<1>1. \A field : ScaledEnds(next, rule, field)[i] = ScaledEnds(cs, rule, field)[i]
  <2> TAKE field
  <2>1. SignalLine(next, rule)[i] = SignalLine(cs, rule)[i]
    BY SignalLineStays
  <2>2. Ends(next, rule, field)[i] = Ends(cs, rule, field)[i]
    BY EndsStay
  <2>3. i \in DOMAIN cs /\ i \in DOMAIN next
    BY DEF OneMore
  <2> QED
    BY <2>1, <2>2, <2>3 DEF ScaledEnds
<1>2. LinregSeries(next, rule).line[i] = LinregSeries(cs, rule).line[i]
  BY LinregSeriesIs, SignalLineStays
<1>3. i \in DOMAIN cs /\ i \in DOMAIN next
  BY DEF OneMore
<1>4. LinregSeries(cs, rule).bars[i] =
        [open |-> ScaledEnds(cs, rule, "open")[i], high |-> ScaledEnds(cs, rule, "high")[i],
         low |-> ScaledEnds(cs, rule, "low")[i], close |-> ScaledEnds(cs, rule, "close")[i]]
  BY <1>3, LinregSeriesIs
<1>5. LinregSeries(next, rule).bars[i] =
        [open |-> ScaledEnds(next, rule, "open")[i], high |-> ScaledEnds(next, rule, "high")[i],
         low |-> ScaledEnds(next, rule, "low")[i], close |-> ScaledEnds(next, rule, "close")[i]]
  BY <1>3, LinregSeriesIs
<1> QED
  BY <1>1, <1>2, <1>4, <1>5

\* A rule about a position alone, and a chart whose candles are closed.
Plain(rule) ==
  /\ rule.position \in States \cup Piercings /\ rule.location = Missing /\ ~rule.confirm.on
  /\ rule.length \in Nat /\ rule.smoothing \in Nat /\ rule.window \in Nat \ {0}
ClosedChart(cs, n) == DOMAIN cs = 1 .. n /\ Len(cs) = n /\ \A i \in 1 .. n : cs[i].closed

OutOfPosition(s, n, rule) == {i \in 1 .. n : ~Positioned(s, i, rule)}
StartAfter(E) == 1 + (IF E = {} THEN 0 ELSE Latest(E))

LEMMA StartAfterIs ==
  ASSUME NEW n \in Nat, NEW E \in SUBSET (1 .. n)
  PROVE  StartAfter(E) \in 1 .. n + 1 /\ (n \notin E <=> n = 0 \/ StartAfter(E) \in 1 .. n)
<1>1. CASE E = {}
  BY <1>1 DEF StartAfter
<1>2. CASE E # {}
  <2>1. E \in SUBSET (0 .. n)
    OBVIOUS
  <2>2. Latest(E) \in E /\ Latest(E) \in 0 .. n /\ \A j \in E : j <= Latest(E)
    BY <1>2, <2>1, LatestIs
  <2>3. StartAfter(E) = 1 + Latest(E)
    BY <1>2 DEF StartAfter
  <2>4. n \in E => Latest(E) = n
    BY <2>2
  <2>5. Latest(E) \in 1 .. n
    BY <2>2
  <2> QED
    BY <2>2, <2>3, <2>4, <2>5
<1> QED
  BY <1>1, <1>2

LEMMA LineLong ==
  ASSUME NEW n \in Nat, NEW cs, DOMAIN cs = 1 .. n, NEW rule
  PROVE  Len(LinregSeries(cs, rule).line) = n
<1> DEFINE line == SignalLine(cs, rule)
           V == {line[i] : i \in 1 .. n}
<1>1. LinregSeries(cs, rule).line = line
  BY LinregSeriesIs
<1>2. line = [i \in 1 .. n |-> line[i]]
  BY DEF SignalLine
<1> HIDE DEF line
<1>3. line \in [1 .. n -> V]
  BY <1>2
<1> HIDE DEF V
<1>4. line \in Seq(V) /\ Len(line) = n
  BY <1>3
<1> QED
  BY <1>1, <1>4

\* A match is one, and none is not.
LEMMA IsMatch ==
  ASSUME NEW at \in Int, NEW start \in Int, NEW age \in Int, NEW position \in Positions
  PROVE  [at |-> at, start |-> start, age |-> age, position |-> position] # Missing
<1>1. [at |-> at, start |-> start, age |-> age, position |-> position] \in
        [at : Int, start : Int, age : Int, position : Positions]
  OBVIOUS
<1> QED
  BY <1>1, AsksAssumption

LEMMA PiercingPasses ==
  ASSUME NEW n \in Nat, NEW cs, ClosedChart(cs, n), NEW rule, Plain(rule), rule.position \in Piercings, LinregEnough(cs, rule)
  PROVE  LET at == n - rule.window + 1
         IN LinregPasses(cs, rule) <=> at \in 1 .. n /\ Positioned(LinregSeries(cs, rule), at, rule)
<1> DEFINE s == LinregSeries(cs, rule)
           at == n - rule.window + 1
<1>1. Len(s.line) = n
  BY LineLong DEF ClosedChart
<1>2. LinregChart(cs) = cs
  BY DEF LinregChart, ClosedChart
<1>3. LinregPasses(cs, rule) <=> MatchOf(cs, s, rule) # Missing
  BY <1>2 DEF LinregPasses, LinregMatch, Piercings, Plain
<1> HIDE DEF s
<1>4. rule.position # Missing /\ rule.position \in Positions
  BY AsksAssumption DEF Piercings, Positions
<1>5. at \in Int /\ n - at + 1 = rule.window
  BY DEF Plain
<1>6. Confirmed(cs, at, rule.confirm)
  BY DEF Confirmed, Plain
<1>7. LinregMatches(s, at, rule) <=> Positioned(s, at, rule)
  BY DEF LinregMatches, Plain
<1>8. MatchOf(cs, s, rule) = IF at \in 1 .. n /\ Positioned(s, at, rule)
                             THEN [at |-> at, start |-> at, age |-> rule.window, position |-> rule.position] ELSE Missing
  <2>1. MatchOf(cs, s, rule) =
          IF /\ at \in 1 .. n /\ LinregMatches(s, at, rule)
             /\ rule.position # Missing => AgeFits(n - at + 1, rule.window)
             /\ Confirmed(cs, at, rule.confirm)
          THEN [at |-> at, start |-> at, age |-> n - at + 1, position |-> rule.position] ELSE Missing
    BY <1>1, <1>4 DEF MatchOf
  <2> HIDE DEF at
  <2> QED
    BY <1>5, <1>6, <1>7, <2>1 DEF AgeFits
<1>9. rule.window \in Int
  BY DEF Plain
<1> HIDE DEF at
<1>10. [at |-> at, start |-> at, age |-> rule.window, position |-> rule.position] # Missing
  BY <1>4, <1>5, <1>9, IsMatch
<1> QED
  BY <1>3, <1>8, <1>10 DEF at, s

LEMMA StatePasses ==
  ASSUME NEW n \in Nat, NEW cs, ClosedChart(cs, n), NEW rule, Plain(rule), rule.position \in States, LinregEnough(cs, rule)
  PROVE  LET E == OutOfPosition(LinregSeries(cs, rule), n, rule)
         IN LinregPasses(cs, rule) <=> n \in 1 .. n /\ n \notin E /\ n - StartAfter(E) + 1 = rule.window
<1> DEFINE s == LinregSeries(cs, rule)
           E == OutOfPosition(s, n, rule)
           start == StateStart(s, rule)
           age == n - start + 1
<1>1. Len(s.line) = n
  BY LineLong DEF ClosedChart
<1>2. LinregChart(cs) = cs
  BY DEF LinregChart, ClosedChart
<1>3. LinregPasses(cs, rule) <=> MatchOf(cs, s, rule) # Missing
  BY <1>2 DEF LinregPasses, LinregMatch, States, Plain
<1> HIDE DEF s
<1>4. rule.position # Missing /\ rule.position \in Positions /\ rule.position \notin Piercings
  BY AsksAssumption DEF States, Piercings, Positions
<1>5. start = IF n \in E THEN Missing ELSE StartAfter(E)
  BY <1>1 DEF StateStart, StartAfter, OutOfPosition
<1>6. \A i : Confirmed(cs, i, rule.confirm)
  BY DEF Confirmed, Plain
<1>7. LinregMatches(s, n, rule) <=> Positioned(s, n, rule)
  BY DEF LinregMatches, Plain
<1>8. n \in 1 .. n => (n \in E <=> ~Positioned(s, n, rule))
  BY DEF OutOfPosition
<1>9. StartAfter(E) \in 1 .. n + 1
  <2>1. E \in SUBSET (1 .. n)
    BY DEF OutOfPosition
  <2> HIDE DEF E
  <2> QED
    BY <2>1, StartAfterIs
<1> HIDE DEF E
<1>10. MatchOf(cs, s, rule) = IF n \in 1 .. n /\ Positioned(s, n, rule) /\ age = rule.window
                              THEN [at |-> n, start |-> start, age |-> age, position |-> rule.position] ELSE Missing
  BY <1>1, <1>4, <1>6, <1>7 DEF MatchOf, AgeFits
<1> HIDE DEF start
<1>11. n \in 1 .. n /\ Positioned(s, n, rule) => start = StartAfter(E) /\ start \in Int /\ age \in Int /\ n \in Int
  BY <1>5, <1>8, <1>9
<1>12. n \in 1 .. n /\ Positioned(s, n, rule) =>
         [at |-> n, start |-> start, age |-> age, position |-> rule.position] # Missing
  <2> HIDE DEF age
  <2> QED
    BY <1>4, <1>11, IsMatch
<1>13. n \in 1 .. n /\ Positioned(s, n, rule) => (age = rule.window <=> n - StartAfter(E) + 1 = rule.window)
  BY <1>11
<1> HIDE DEF age
<1> QED
  BY <1>3, <1>8, <1>10, <1>12, <1>13 DEF s, E

\* The same position at a candle that both charts have, whatever age is asked for.
LEMMA SamePosition ==
  ASSUME NEW n \in Nat, NEW cs, NEW next, OneMore(cs, next, n), NEW rule, Plain(rule), NEW i \in 1 .. n
  PROVE  Positioned(LinregSeries(next, rule), i, rule) <=> Positioned(LinregSeries(cs, rule), i, rule)
<1>1. /\ LinregSeries(next, rule).line[i] = LinregSeries(cs, rule).line[i]
      /\ LinregSeries(next, rule).bars[i] = LinregSeries(cs, rule).bars[i]
  BY BarsStay DEF Plain
<1> DEFINE s == LinregSeries(cs, rule)
           z == LinregSeries(next, rule)
<1> HIDE DEF s, z
<1>2. z.line[i] = s.line[i] /\ z.bars[i] = s.bars[i]
  BY <1>1 DEF s, z
<1>3. Positioned(z, i, rule) <=> Positioned(s, i, rule)
  BY <1>2 DEF Positioned
<1> QED
  BY <1>3 DEF s, z

\* A rule that asks for another age.
Alike(q, r) ==
  /\ q.length = r.length /\ q.smoothing = r.smoothing /\ q.linReg = r.linReg /\ q.position = r.position
  /\ q.location = r.location /\ q.tolerance = r.tolerance /\ q.confirm = r.confirm

LEMMA AlikeSeries ==
  ASSUME NEW cs, NEW q, NEW r, Alike(q, r)
  PROVE  /\ LinregSeries(cs, q) = LinregSeries(cs, r)
         /\ LinregEnough(cs, q) <=> LinregEnough(cs, r)
         /\ \A s, i : Positioned(s, i, q) <=> Positioned(s, i, r)
<1>1. \A field : Ends(cs, q, field) = Ends(cs, r, field)
  BY DEF Alike, Ends
<1>2. SignalLine(cs, q) = SignalLine(cs, r)
  <2> DEFINE lineOf(closes, k) == [i \in DOMAIN cs |->
        LET last == i - k + 1 .. i IN IF Known(closes, last) THEN Total([j \in last |-> closes[j]]) ELSE Missing]
  <2>1. /\ SignalLine(cs, q) = lineOf(Ends(cs, q, "close"), q.smoothing)
        /\ SignalLine(cs, r) = lineOf(Ends(cs, r, "close"), r.smoothing)
    BY DEF SignalLine
  <2> HIDE DEF lineOf
  <2> QED
    BY <1>1, <2>1 DEF Alike
<1>3. \A field : ScaledEnds(cs, q, field) = ScaledEnds(cs, r, field)
  BY <1>1, <1>2 DEF Alike, ScaledEnds
<1>4. LinregSeries(cs, q) = LinregSeries(cs, r)
  <2> DEFINE series(line, o, h, l, c) ==
        [line |-> line, bars |-> [i \in DOMAIN cs |-> [open |-> o[i], high |-> h[i], low |-> l[i], close |-> c[i]]]]
  <2>1. \A rule : LinregSeries(cs, rule) =
          series(SignalLine(cs, rule), ScaledEnds(cs, rule, "open"), ScaledEnds(cs, rule, "high"),
                 ScaledEnds(cs, rule, "low"), ScaledEnds(cs, rule, "close"))
    BY LinregSeriesIs
  <2> HIDE DEF series
  <2> QED
    BY <1>2, <1>3, <2>1
<1>5. LinregEnough(cs, q) <=> LinregEnough(cs, r)
  BY DEF Alike, LinregEnough
<1>6. \A s, i : Positioned(s, i, q) <=> Positioned(s, i, r)
  BY DEF Alike, Positioned
<1> QED
  BY <1>4, <1>5, <1>6

\* A state of an age is one of the age before, the candle before.
LEMMA StateReported ==
  ASSUME NEW n \in Nat, NEW cs, NEW next, OneMore(cs, next, n), ClosedChart(cs, n), ClosedChart(next, n + 1),
         NEW r, Plain(r), r.position \in States, LinregEnough(cs, r), LinregPasses(next, r),
         NEW q, Alike(q, r), q.window = r.window - 1
  PROVE  ~LinregPasses(cs, r) /\ (r.window > 1 => LinregPasses(cs, q))
<1> DEFINE E == OutOfPosition(LinregSeries(cs, r), n, r)
           F == OutOfPosition(LinregSeries(next, r), n + 1, r)
<1>1. LinregEnough(next, r)
  BY DEF LinregEnough, ClosedChart, Plain
<1>2. n + 1 \notin F /\ (n + 1) - StartAfter(F) + 1 = r.window
  <2>1. n + 1 \in Nat
    OBVIOUS
  <2>2. LinregPasses(next, r) <=> n + 1 \in 1 .. n + 1 /\ n + 1 \notin F /\ (n + 1) - StartAfter(F) + 1 = r.window
    BY <1>1, <2>1, StatePasses
  <2> HIDE DEF F
  <2> QED
    BY <2>2
<1>3. F = E
  <2>1. \A i \in 1 .. n : i \in F <=> i \in E
    BY SamePosition DEF OutOfPosition
  <2>2. F \in SUBSET (1 .. n + 1) /\ E \in SUBSET (1 .. n)
    BY DEF OutOfPosition
  <2> HIDE DEF E, F
  <2>3. \A i \in F : i \in 1 .. n
    BY <1>2, <2>2
  <2> QED
    BY <2>1, <2>2, <2>3
<1>4. LinregPasses(cs, r) => n - StartAfter(E) + 1 = r.window
  BY StatePasses
<1>5. StartAfter(E) \in 1 .. n + 1 /\ (n \notin E <=> n = 0 \/ StartAfter(E) \in 1 .. n)
  <2>1. E \in SUBSET (1 .. n)
    BY DEF OutOfPosition
  <2> HIDE DEF E
  <2> QED
    BY <2>1, StartAfterIs
<1>6. r.window > 1 => (LinregPasses(cs, q) <=> n \in 1 .. n /\ n \notin E /\ n - StartAfter(E) + 1 = q.window)
  <2>1. SUFFICES ASSUME r.window > 1
                 PROVE  LinregPasses(cs, q) <=> n \in 1 .. n /\ n \notin E /\ n - StartAfter(E) + 1 = q.window
    OBVIOUS
  <2>2. Plain(q) /\ q.position \in States
    BY <2>1 DEF Plain, Alike
  <2>3. LinregEnough(cs, q)
    BY AlikeSeries
  <2>4. OutOfPosition(LinregSeries(cs, q), n, q) = E
    BY AlikeSeries DEF OutOfPosition
  <2> HIDE DEF E
  <2> QED
    BY <2>2, <2>3, <2>4, StatePasses
<1>7. r.window \in Nat \ {0}
  BY DEF Plain
<1> HIDE DEF E, F
<1>8. (n + 1) - StartAfter(E) + 1 = r.window
  BY <1>2, <1>3
<1>9. ~LinregPasses(cs, r)
  BY <1>4, <1>5, <1>7, <1>8
<1>10. r.window > 1 => LinregPasses(cs, q)
  <2>1. SUFFICES ASSUME r.window > 1 PROVE LinregPasses(cs, q)
    OBVIOUS
  <2>2. StartAfter(E) \in 1 .. n /\ n \in 1 .. n /\ n - StartAfter(E) + 1 = r.window - 1
    BY <1>5, <1>7, <1>8, <2>1
  <2> QED
    BY <1>5, <1>6, <2>1, <2>2
<1> QED
  BY <1>9, <1>10

\* A piercing of an age is one of the age before, the candle before.
LEMMA PiercingReported ==
  ASSUME NEW n \in Nat, NEW cs, NEW next, OneMore(cs, next, n), ClosedChart(cs, n), ClosedChart(next, n + 1),
         NEW r, Plain(r), r.position \in Piercings, LinregEnough(cs, r), r.window > 1,
         NEW q, Alike(q, r), q.window = r.window - 1
  PROVE  LinregPasses(next, r) = LinregPasses(cs, q)
<1> DEFINE at == n - r.window + 2
<1>1. LinregEnough(next, r)
  BY DEF LinregEnough, ClosedChart, Plain
<1>2. r.window \in Nat \ {0} /\ q.window \in Nat \ {0}
  BY DEF Plain
<1>3. Plain(q) /\ q.position \in Piercings /\ LinregEnough(cs, q)
  <2>1. LinregEnough(cs, q)
    BY AlikeSeries
  <2> QED
    BY <1>2, <2>1 DEF Plain, Alike
<1>4. (n + 1) - r.window + 1 = at /\ n - q.window + 1 = at
  BY <1>2
<1>5. LinregPasses(next, r) <=> at \in 1 .. n + 1 /\ Positioned(LinregSeries(next, r), at, r)
  <2>1. n + 1 \in Nat
    OBVIOUS
  <2>2. LinregPasses(next, r) <=>
          (n + 1) - r.window + 1 \in 1 .. n + 1 /\ Positioned(LinregSeries(next, r), (n + 1) - r.window + 1, r)
    BY <1>1, <2>1, PiercingPasses
  <2> HIDE DEF at
  <2> QED
    BY <1>4, <2>2
<1>6. LinregPasses(cs, q) <=> at \in 1 .. n /\ Positioned(LinregSeries(cs, r), at, r)
  <2>1. LinregPasses(cs, q) <=>
          n - q.window + 1 \in 1 .. n /\ Positioned(LinregSeries(cs, q), n - q.window + 1, q)
    BY <1>3, PiercingPasses
  <2> HIDE DEF at
  <2> QED
    BY <1>4, <2>1, AlikeSeries
<1>7. at \in 1 .. n + 1 <=> at \in 1 .. n
  BY <1>2
<1>8. LinregPasses(next, r) \in BOOLEAN /\ LinregPasses(cs, q) \in BOOLEAN
  BY DEF LinregPasses
<1> HIDE DEF at
<1>9. LinregPasses(next, r) <=> LinregPasses(cs, q)
  BY <1>5, <1>6, <1>7, SamePosition
<1> QED
  BY <1>8, <1>9

LEMMA LinregReported ==
  ASSUME NEW n \in Nat, NEW cs, NEW next, OneMore(cs, next, n), ClosedChart(cs, n), ClosedChart(next, n + 1),
         NEW r \in Asks.linreg
  PROVE  LinregOnce(cs, next, r)
<1> DEFINE q == [r EXCEPT !.window = @ - 1]
           plain == r.location = Missing /\ ~r.confirm.on /\ LinregEnough(cs, r)
<1>1. /\ DOMAIN r = {"length", "smoothing", "linReg", "position", "location", "tolerance", "window", "confirm"}
      /\ r.length \in Nat /\ r.smoothing \in Nat /\ r.window \in Nat \ {0}
  BY AsksAssumption
<1>2. Alike(q, r) /\ q.window = r.window - 1
  BY <1>1 DEF Alike
<1>3. plain /\ r.position \in States \cup Piercings => Plain(r)
  BY <1>1 DEF Plain
<1> HIDE DEF q
<1>4. ASSUME plain, r.position \in States, LinregPasses(next, r)
      PROVE  ~LinregPasses(cs, r) /\ (r.window > 1 => LinregPasses(cs, q))
  BY <1>2, <1>3, <1>4, StateReported
<1>5. ASSUME plain, r.position \in Piercings, r.window > 1
      PROVE  LinregPasses(next, r) = LinregPasses(cs, q)
  BY <1>2, <1>3, <1>5, PiercingReported
<1> QED
  BY <1>4, <1>5 DEF q, LinregOnce

\* A rule that asks for an age exactly, of a line or of a linear regression
\* candle, is reported once in a run (M3_CLIENT_REQUIREMENTS.md:57 and
\* docs/linreg-candles-signal-age-fix.md:37).
THEOREM ReportedOnceHolds == Spec => ReportedOnce
<1>1. ChartOK /\ [Next]_vars =>
        [/\ family = "lines" => \A r \in WindowRules : LineOnce(chart, chart', Line, r, "middle")
         /\ family = "linreg" => \A r \in Asks.linreg : LinregOnce(chart, chart', r)]_vars
  <2> DEFINE n == Len(chart)
  <2> SUFFICES ASSUME ChartOK, Bar
               PROVE  /\ \A r \in WindowRules : LineOnce(chart, chart', Line, r, "middle")
                      /\ \A r \in Asks.linreg : LinregOnce(chart, chart', r)
    BY DEF Next
  <2>1. /\ chart \in Seq(Shapes[family]) /\ chart' \in Seq(Shapes[family]) /\ family \in Family
        /\ n \in Nat /\ Len(chart') = n + 1 /\ \A i \in 1 .. n : chart'[i] = chart[i]
    BY DEF ChartOK, Bar
  <2>2. OneMore(chart, chart', n)
    BY <2>1 DEF OneMore
  <2>3. ClosedChart(chart, n) /\ ClosedChart(chart', n + 1)
    BY <2>1, PricesAssumption DEF ClosedChart
  <2> HIDE DEF n
  <2>4. ASSUME NEW r \in WindowRules
        PROVE  LineOnce(chart, chart', Line, r, "middle")
    <3> DEFINE next == chart'
    <3>1. OneMore(chart, next, n) /\ n \in Nat
      BY <2>1, <2>2
    <3> HIDE DEF next
    <3>2. LineOnce(chart, next, Line, r, "middle")
      BY <3>1, LineReported
    <3> QED
      BY <3>2 DEF next
  <2>5. ASSUME NEW r \in Asks.linreg
        PROVE  LinregOnce(chart, chart', r)
    BY <2>1, <2>2, <2>3, LinregReported
  <2> QED
    BY <2>4, <2>5
<1> QED
  BY <1>1, ChartTyped, PTL DEF Spec, ReportedOnce, LineOnce, LinregOnce

----------------------------------------------------------------------------
(* What is said of a match. *)

\* A chart of some candles, whose prices are numbers.
Charted(cs, n) ==
  /\ n \in Nat /\ DOMAIN cs = 1 .. n /\ Len(cs) = n
  /\ \A i \in 1 .. n : {cs[i].open, cs[i].high, cs[i].low, cs[i].close} \subseteq Int

\* The stages that are shown of an interaction, and what is true of them.
Claimed(cs, r) == {s \in Stages(cs, Line, r) : s[2] = "still_above_now" => r.stillAbove}
Explained(cs, r) == Claimed(cs, r) # {} /\ \A s \in Claimed(cs, r) : s[1] \in DOMAIN cs /\ Says(cs, s)

LEMMA EventHappens ==
  ASSUME NEW n \in Nat, NEW cs, Len(cs) = n, NEW r, LatestEvent(cs, Line, r) # Missing
  PROVE  LatestEvent(cs, Line, r) \in 1 .. n /\ Happens(cs, Line, LatestEvent(cs, Line, r), r)
<1> DEFINE S == {i \in 1 .. n : Happens(cs, Line, i, r)}
<1>1. LatestEvent(cs, Line, r) = Latest(S)
  BY DEF LatestEvent
<1>2. S # {}
  BY <1>1 DEF Latest
<1>3. S \in SUBSET (0 .. n)
  OBVIOUS
<1>4. Latest(S) \in S
  <2> HIDE DEF S
  <2> QED
    BY <1>2, <1>3, LatestIs
<1> QED
  BY <1>1, <1>4

LEMMA StagesTrue ==
  ASSUME NEW n \in Nat, NEW cs, Charted(cs, n), NEW r \in InteractionRules, Interacts(cs, Line, r)
  PROVE  Explained(cs, r)
<1> DEFINE e == LatestEvent(cs, Line, r)
<1>1. r.action \in Interaction /\ r.minBelow \in Nat \ {0}
  BY RulesAssumption DEF InteractionRule
<1>2. e # Missing /\ (r.action = "reclaimed" /\ r.stillAbove => StillAbove(cs, Line))
  BY DEF Interacts, AgeInRange
<1>3. e \in 1 .. n /\ Happens(cs, Line, e, r)
  BY <1>2, EventHappens DEF Charted
<1> HIDE DEF e
<1>4. CASE r.action = "reclaimed"
  <2> DEFINE before == BelowBefore(cs, Line, e)
  <2>1. e > 1 /\ e \in DOMAIN Line /\ cs[e].close > Line[e] /\ Cardinality(before) >= r.minBelow
    BY <1>3, <1>4 DEF Happens, Reclaims
  <2>2. \A j \in before : j \in 1 .. n /\ e - 1 \in j .. e - 1 /\ \A k \in j .. e - 1 : cs[k].close < Line[k]
    BY <1>3 DEF BelowBefore
  <2>3. \A j \in before : j \in 1 .. n /\ cs[j].close < Line[j]
    BY <1>3, <2>2 DEF BelowBefore
  <2>4. before # {}
    BY <1>1, <2>1, FS_EmptySet
  <2>5. cs[e - 1].close < Line[e - 1]
    BY <2>2, <2>4
  <2> HIDE DEF before
  <2>6. Stages(cs, Line, r) =
          {<<i, "closed_below">> : i \in before} \cup {<<e, "reclaim_close_above">>}
          \cup (IF e # Len(cs) THEN {<<Len(cs), "still_above_now">>} ELSE {})
    BY <1>2, <1>4 DEF Stages, e, before
  <2>7. <<e, "reclaim_close_above">> \in Claimed(cs, r)
    BY <2>6 DEF Claimed
  <2>8. ASSUME NEW s \in Claimed(cs, r)
        PROVE  s[1] \in DOMAIN cs /\ Says(cs, s)
    <3>1. CASE \E i \in before : s = <<i, "closed_below">>
      BY <2>3, <3>1 DEF Says, Charted
    <3>2. CASE s = <<e, "reclaim_close_above">>
      BY <1>3, <2>1, <2>5, <3>2 DEF Says, Charted
    <3>3. CASE s = <<Len(cs), "still_above_now">>
      <4>1. StillAbove(cs, Line)
        BY <1>2, <1>4, <3>3 DEF Claimed
      <4>2. n \in 1 .. n /\ Len(cs) = n
        BY <1>3 DEF Charted
      <4> QED
        BY <3>3, <4>1, <4>2 DEF Says, StillAbove, Charted
    <3> QED
      BY <2>6, <3>1, <3>2, <3>3 DEF Claimed
  <2> QED
    BY <2>7, <2>8 DEF Explained
<1>5. CASE r.action # "reclaimed"
  <2>1. /\ r.action = "piercing" =>
             /\ cs[e].low < Line[e] /\ cs[e].high >= Line[e] /\ cs[e].close > Line[e]
             /\ e > 1 /\ cs[e - 1].close < Line[e - 1]
        /\ r.action = "rejected_from_above" =>
             /\ Crosses(cs[e], Line[e]) /\ cs[e].close > Line[e]
             /\ e > 1 /\ cs[e - 1].close > Line[e - 1]
        /\ r.action = "rejected_from_below" =>
             /\ Crosses(cs[e], Line[e]) /\ cs[e].close < Line[e]
             /\ e > 1 /\ cs[e - 1].close < Line[e - 1]
    BY <1>3 DEF Happens, ComesFrom
  <2>2. e - 1 \in 1 .. n /\ e \in 1 .. n /\ DOMAIN cs = 1 .. n
    BY <1>1, <1>3, <1>5, <2>1 DEF Interaction, Charted
  <2>3. CASE r.action = "piercing"
    <3>1. Stages(cs, Line, r) = {<<e - 1, "closed_below">>, <<e, "pierced_close_above">>}
      BY <1>2, <2>3 DEF Stages, e
    <3>2. Says(cs, <<e - 1, "closed_below">>)
      BY <2>1, <2>3 DEF Says
    <3>3. Says(cs, <<e, "pierced_close_above">>)
      <4>1. e \in DOMAIN Line
        BY <1>3, <2>3 DEF Happens, ComesFrom
      <4>2. Line[e] \in Int /\ cs[e].low \in Int /\ cs[e].high \in Int
        BY <2>2, <4>1, PricesAssumption DEF Charted
      <4>3. Crosses(cs[e], Line[e])
        BY <2>1, <2>3, <4>2 DEF Crosses
      <4> QED
        BY <2>1, <2>3, <4>3 DEF Says
    <3>4. Claimed(cs, r) = {<<e - 1, "closed_below">>, <<e, "pierced_close_above">>}
      BY <3>1 DEF Claimed
    <3> QED
      BY <2>2, <3>2, <3>3, <3>4 DEF Explained
  <2>4. CASE r.action = "rejected_from_above"
    <3>1. Stages(cs, Line, r) = {<<e - 1, "came_from_above">>, <<e, "rejected_close_above">>}
      BY <1>2, <2>4 DEF Stages, e
    <3>2. Says(cs, <<e - 1, "came_from_above">>)
      BY <2>1, <2>4 DEF Says
    <3>3. Says(cs, <<e, "rejected_close_above">>)
      BY <2>1, <2>4 DEF Says
    <3>4. Claimed(cs, r) = {<<e - 1, "came_from_above">>, <<e, "rejected_close_above">>}
      BY <3>1 DEF Claimed
    <3> QED
      BY <2>2, <3>2, <3>3, <3>4 DEF Explained
  <2>5. CASE r.action = "rejected_from_below"
    <3>1. Stages(cs, Line, r) = {<<e - 1, "came_from_below">>, <<e, "rejected_close_below">>}
      BY <1>2, <2>5 DEF Stages, e
    <3>2. Says(cs, <<e - 1, "came_from_below">>)
      BY <2>1, <2>5 DEF Says
    <3>3. Says(cs, <<e, "rejected_close_below">>)
      BY <2>1, <2>5 DEF Says
    <3>4. Claimed(cs, r) = {<<e - 1, "came_from_below">>, <<e, "rejected_close_below">>}
      BY <3>1 DEF Claimed
    <3> QED
      BY <2>2, <3>2, <3>3, <3>4 DEF Explained
  <2> QED
    BY <1>1, <1>5, <2>3, <2>4, <2>5 DEF Interaction
<1> QED
  BY <1>4, <1>5

\* The latest of the matches among the last candles is one of them.
LEMMA LatestRecent ==
  ASSUME NEW n \in Nat, NEW w, NEW S \in SUBSET Recent(n, w), S # {}
  PROVE  Latest(S) \in S
<1>1. S \in SUBSET (0 .. n)
  BY DEF Recent
<1> QED
  BY <1>1, LatestIs

\* A series of an oscillator that begins some candles after the chart.
LEMMA SeriesLong ==
  ASSUME NEW n \in Nat, NEW cs, Len(cs) = n
  PROVE  Len(RsiSeries(cs, Span)) \in Nat /\ Len(AroonSeries(cs, Span)) \in Nat
<1>0. Span \in Nat
  BY AsksAssumption
<1>1. Len(<<>>) \in Nat
  OBVIOUS
<1>2. ASSUME ~(n <= Span), NEW f, DOMAIN f = 1 .. n - Span, f = [i \in 1 .. n - Span |-> f[i]]
      PROVE  Len(f) \in Nat
  <2> DEFINE V == {f[i] : i \in 1 .. n - Span}
  <2>1. f \in [1 .. n - Span -> V] /\ n - Span \in Nat
    BY <1>0, <1>2
  <2> HIDE DEF V
  <2>2. f \in Seq(V)
    BY <2>1
  <2> QED
    BY <2>2
<1> DEFINE rsi == RsiSeries(cs, Span)
           aroon == AroonSeries(cs, Span)
<1>3. Len(rsi) \in Nat
  <2>1. n <= Span => rsi = <<>>
    BY DEF RsiSeries
  <2>2. ~(n <= Span) => DOMAIN rsi = 1 .. n - Span /\ rsi = [i \in 1 .. n - Span |-> rsi[i]]
    BY DEF RsiSeries
  <2> HIDE DEF rsi
  <2> QED
    BY <1>1, <1>2, <2>1, <2>2
<1>4. Len(aroon) \in Nat
  <2>1. n <= Span => aroon = <<>>
    BY DEF AroonSeries
  <2>2. ~(n <= Span) => DOMAIN aroon = 1 .. n - Span /\ aroon = [i \in 1 .. n - Span |-> aroon[i]]
    BY DEF AroonSeries
  <2> HIDE DEF aroon
  <2> QED
    BY <1>1, <1>2, <2>1, <2>2
<1> QED
  BY <1>3, <1>4

LEMMA RsiShownTrue ==
  ASSUME NEW n \in Nat, NEW cs, Len(cs) = n, NEW r, AskRsi(cs, r)
  PROVE  LET s == RsiSeries(cs, Span)
         IN RsiMatches(s, RsiShown(s, r), r) /\ RsiShown(s, r) \in Recent(Len(s), r.window)
<1> DEFINE s == RsiSeries(cs, Span)
<1>1. Len(s) \in Nat
  BY SeriesLong
<1>2. RsiPasses(cs, s, r)
  BY DEF AskRsi
<1> HIDE DEF s
<1> DEFINE S == {i \in Recent(Len(s), r.window) : RsiMatches(s, i, r)}
<1>3. S # {}
  BY <1>2 DEF RsiPasses, Signal
<1>4. RsiShown(s, r) = IF S = {} THEN Len(s) ELSE Latest(S)
  BY DEF RsiShown, ShownAt
<1>5. S \in SUBSET Recent(Len(s), r.window)
  OBVIOUS
<1>6. Latest(S) \in S
  <2> HIDE DEF S
  <2> QED
    BY <1>1, <1>3, <1>5, LatestRecent
<1>7. RsiShown(s, r) \in S
  BY <1>3, <1>4, <1>6
<1> QED
  BY <1>7 DEF s

LEMMA AroonShownTrue ==
  ASSUME NEW n \in Nat, NEW cs, Len(cs) = n, NEW r, AskAroon(cs, r)
  PROVE  LET s == AroonSeries(cs, Span)
         IN AroonMatches(s, AroonShown(s, r), r) /\ AroonShown(s, r) \in Recent(Len(s), r.window)
<1> DEFINE s == AroonSeries(cs, Span)
<1>1. Len(s) \in Nat
  BY SeriesLong
<1>2. AroonPasses(cs, s, r)
  BY DEF AskAroon
<1> HIDE DEF s
<1> DEFINE S == {i \in Recent(Len(s), r.window) : AroonMatches(s, i, r)}
<1>3. S # {}
  BY <1>2 DEF AroonPasses, Signal
<1>4. AroonShown(s, r) = IF S = {} THEN Len(s) ELSE Latest(S)
  BY DEF AroonShown, ShownAt
<1>5. S \in SUBSET Recent(Len(s), r.window)
  OBVIOUS
<1>6. Latest(S) \in S
  <2> HIDE DEF S
  <2> QED
    BY <1>1, <1>3, <1>5, LatestRecent
<1>7. AroonShown(s, r) \in S
  BY <1>3, <1>4, <1>6
<1> QED
  BY <1>7 DEF s

\* The sides of a cross exclude each other.
LEMMA CrossSides ==
  ASSUME NEW n \in Nat, NEW cs, DOMAIN cs = 1 .. n, \A i \in 1 .. n : {cs[i].a, cs[i].b} \subseteq Int \cup {Missing},
         NEW i
  PROVE  ~(CrossedAbove(WaveOf(cs).wt1, WaveOf(cs).wt2, i) /\ CrossedBelow(WaveOf(cs).wt1, WaveOf(cs).wt2, i))
<1> DEFINE a == LineA(cs)
           b == LineB(cs)
<1>1. WaveOf(cs).wt1 = a /\ WaveOf(cs).wt2 = b
  BY DEF WaveOf
<1>2. ASSUME Known(a, {i - 1, i}), Known(b, {i - 1, i})
      PROVE  a[i] \in Int /\ b[i] \in Int
  <2>1. i \in 1 .. n /\ a[i] = cs[i].a /\ b[i] = cs[i].b /\ a[i] # Missing /\ b[i] # Missing
    BY <1>2 DEF Known, LineA, LineB
  <2> QED
    BY <2>1
<1> HIDE DEF a, b
<1> QED
  BY <1>1, <1>2 DEF CrossedAbove, CrossedBelow

\* A match of a cross has crossed that way.
LEMMA CrossMatches ==
  ASSUME NEW w, NEW i, NEW r, UsesLazyBear(r), r.clauses = {}, WaveMatches(w, i, r)
  PROVE  /\ Resolved(r) \in {"cross_up", "oversold_cross_up"} => CrossedAbove(w.wt1, w.wt2, i)
         /\ Resolved(r) \in {"cross_down", "overbought_cross_down"} => CrossedBelow(w.wt1, w.wt2, i)
<1> DEFINE condition == Resolved(r)
<1>1. \A c \in Builtin(condition) : WaveNamed(w, i, r, c, condition)
  BY DEF WaveMatches, LazyMatches, AllOrAny
<1> HIDE DEF condition
<1>2. \A d \in {"up", "down"} : WaveNamed(w, i, r, CrossClause(d), condition) => WaveCross(w, i, d)
  BY DEF WaveNamed, WaveClause, CrossClause
<1>3. condition \in {"cross_up", "oversold_cross_up"} => CrossClause("up") \in Builtin(condition)
  BY DEF Builtin
<1>4. condition \in {"cross_down", "overbought_cross_down"} => CrossClause("down") \in Builtin(condition)
  BY DEF Builtin
<1>5. WaveCross(w, i, "up") => CrossedAbove(w.wt1, w.wt2, i)
  BY DEF WaveCross
<1>6. WaveCross(w, i, "down") => CrossedBelow(w.wt1, w.wt2, i)
  BY DEF WaveCross
<1> QED
  BY <1>1, <1>2, <1>3, <1>4, <1>5, <1>6 DEF condition

LEMMA WaveShownTrue ==
  ASSUME NEW n \in Nat, NEW cs, DOMAIN cs = 1 .. n, Len(cs) = n,
         \A i \in 1 .. n : {cs[i].a, cs[i].b} \subseteq Int \cup {Missing}, NEW r, AskWave(cs, r)
  PROVE  LET w == WaveOf(cs)
         IN /\ WaveMatches(w, WaveShown(w, r), r) /\ WaveShown(w, r) \in Recent(n, r.window)
            /\ UsesLazyBear(r) /\ r.clauses = {} =>
                 /\ Resolved(r) \in {"cross_up", "oversold_cross_up"} => WaveSays(w, r) = "bullish"
                 /\ Resolved(r) \in {"cross_down", "overbought_cross_down"} => WaveSays(w, r) = "bearish"
<1> DEFINE w == WaveOf(cs)
           S == {i \in Recent(n, r.window) : WaveMatches(w, i, r)}
           at == WaveShown(w, r)
<1>1. Len(w.wt1) = n
  <2> DEFINE V == {cs[i].a : i \in 1 .. n}
  <2>1. LineA(cs) \in [1 .. n -> V]
    BY DEF LineA
  <2> HIDE DEF V
  <2>2. LineA(cs) \in Seq(V) /\ Len(LineA(cs)) = n
    BY <2>1
  <2> QED
    BY <2>2 DEF WaveOf
<1>2. WavePasses(cs, w, r)
  BY DEF AskWave
<1>3. \A i : ~(CrossedAbove(w.wt1, w.wt2, i) /\ CrossedBelow(w.wt1, w.wt2, i))
  BY CrossSides
<1> HIDE DEF w
<1>4. S # {}
  BY <1>1, <1>2 DEF WavePasses, Signal
<1>5. at = IF S = {} THEN n ELSE Latest(S)
  BY <1>1 DEF WaveShown, ShownAt
<1>6. S \in SUBSET Recent(n, r.window)
  OBVIOUS
<1>7. Latest(S) \in S
  <2> HIDE DEF S
  <2> QED
    BY <1>4, <1>6, LatestRecent
<1>8. at \in Recent(n, r.window) /\ WaveMatches(w, at, r)
  BY <1>4, <1>5, <1>7
<1>9. WaveSays(w, r) = CASE CrossedAbove(w.wt1, w.wt2, at) -> "bullish"
                         [] CrossedBelow(w.wt1, w.wt2, at) -> "bearish"
                         [] OTHER -> "none"
  BY DEF WaveSays
<1> HIDE DEF at
<1>10. ASSUME UsesLazyBear(r), r.clauses = {}
       PROVE  /\ Resolved(r) \in {"cross_up", "oversold_cross_up"} => WaveSays(w, r) = "bullish"
              /\ Resolved(r) \in {"cross_down", "overbought_cross_down"} => WaveSays(w, r) = "bearish"
  <2>1. /\ Resolved(r) \in {"cross_up", "oversold_cross_up"} => CrossedAbove(w.wt1, w.wt2, at)
        /\ Resolved(r) \in {"cross_down", "overbought_cross_down"} => CrossedBelow(w.wt1, w.wt2, at)
    BY <1>8, <1>10, CrossMatches
  <2> QED
    BY <1>3, <1>9, <2>1
<1> QED
  BY <1>8, <1>10 DEF at, w

\* A warning next to a verdict about the last candles is right.
WarnsRight(n, window, S) ==
  LET passes(w) == MatchedAt(n, w, S) # Missing
      says == SignalWarning(n, window, S)
  IN /\ says = "within_window_not_latest" <=> passes(window) /\ ~passes(1)
     /\ says = "stale_outside_window" <=> ~passes(window) /\ passes(n)

LEMMA WarningTrue ==
  ASSUME NEW n \in Nat, NEW window \in Int \cup {Missing}, NEW S \in SUBSET (1 .. n)
  PROVE  WarnsRight(n, window, S)
<1> DEFINE last(w) == IF w = Missing THEN S ELSE S \cap Recent(n, w)
           matched == MatchedAt(n, window, S)
<1>1. ASSUME NEW w
      PROVE  /\ MatchedAt(n, w, S) = Latest(last(w))
             /\ MatchedAt(n, w, S) # Missing <=> last(w) # {}
             /\ last(w) # {} => MatchedAt(n, w, S) \in last(w) /\ \A j \in last(w) : j <= MatchedAt(n, w, S)
  <2>1. MatchedAt(n, w, S) = Latest(last(w))
    BY DEF MatchedAt
  <2>2. last(w) \in SUBSET (0 .. n)
    <3>1. last(w) \in SUBSET S
      OBVIOUS
    <3>2. S \in SUBSET (0 .. n)
      OBVIOUS
    <3> HIDE DEF last
    <3> QED
      BY <3>1, <3>2
  <2> HIDE DEF last
  <2>3. last(w) = {} => Latest(last(w)) = Missing
    BY DEF Latest
  <2>4. last(w) # {} =>
          Latest(last(w)) \in last(w) /\ Latest(last(w)) \in 0 .. n /\ \A j \in last(w) : j <= Latest(last(w))
    BY <2>2, LatestIs
  <2>5. last(w) # {} => Latest(last(w)) # Missing
    BY <2>4, UnsetAssumption
  <2> QED
    BY <2>1, <2>3, <2>4, <2>5
<1>2. 1 # Missing /\ n # Missing
  BY UnsetAssumption
<1>3. last(1) = S \cap {n}
  BY <1>2 DEF Recent
<1>4. last(n) = S
  <2>1. Recent(n, n) = 1 .. n
    BY DEF Recent
  <2>2. S \cap (1 .. n) = S
    OBVIOUS
  <2> QED
    BY <1>2, <2>1, <2>2
<1>5. \A i \in last(window) : i \in 1 .. n /\ i \in S
  BY DEF Recent
<1>6. n \in S /\ last(window) # {} => n \in last(window)
  BY DEF Recent
<1>7. last(window) \in SUBSET S
  OBVIOUS
<1> HIDE DEF last, matched
<1>8. last(window) # {} => matched \in last(window) /\ matched \in 1 .. n /\ \A j \in last(window) : j <= matched
  BY <1>1, <1>5 DEF matched
<1>9. last(window) # {} => (matched < n <=> n \notin S)
  <2>1. n \in last(window) => matched = n
    BY <1>8
  <2>2. last(window) # {} /\ matched = n => n \in S
    BY <1>5, <1>8
  <2> QED
    BY <1>6, <1>8, <2>1, <2>2
<1>10. SignalWarning(n, window, S) =
         CASE last(window) # {} /\ matched < n -> "within_window_not_latest"
           [] last(window) = {} /\ S # {} -> "stale_outside_window"
           [] OTHER -> "none"
  BY <1>1 DEF SignalWarning, matched
<1>11. last(1) # {} <=> n \in S
  BY <1>3
<1> HIDE DEF matched
<1>12. SignalWarning(n, window, S) = "within_window_not_latest" <=> last(window) # {} /\ n \notin S
  BY <1>9, <1>10
<1>13. SignalWarning(n, window, S) = "stale_outside_window" <=> last(window) = {} /\ S # {}
  BY <1>10
<1> QED
  BY <1>1, <1>4, <1>11, <1>12, <1>13 DEF WarnsRight

\* A request with another window is the same but for its window.
LEMMA OtherWindow ==
  ASSUME NEW given, "window" \in DOMAIN given, NEW defaults, "window" \in DOMAIN defaults, NEW w
  PROVE  LET other == [given EXCEPT !.window = <<w>>]
         IN /\ Normalized(other, defaults).window = w
            /\ \A o \in DOMAIN defaults \ {"window"} : Normalized(other, defaults)[o] = Normalized(given, defaults)[o]
            /\ (\A o \in DOMAIN given : ~Conflicting(given[o])) => \A o \in DOMAIN other : ~Conflicting(other[o])
<1> DEFINE other == [given EXCEPT !.window = <<w>>]
<1>1. /\ DOMAIN other = DOMAIN given /\ other["window"] = <<w>>
      /\ \A o \in DOMAIN given \ {"window"} : other[o] = given[o]
  OBVIOUS
<1> HIDE DEF other
<1>2. Normalized(other, defaults)["window"] = w
  BY <1>1 DEF Normalized
<1>3. \A o \in DOMAIN defaults \ {"window"} : Normalized(other, defaults)[o] = Normalized(given, defaults)[o]
  BY <1>1 DEF Normalized
<1>4. ~Conflicting(<<w>>)
  BY DEF Conflicting
<1>5. (\A o \in DOMAIN given : ~Conflicting(given[o])) => \A o \in DOMAIN other : ~Conflicting(other[o])
  BY <1>1, <1>4
<1> QED
  BY <1>2, <1>3, <1>5 DEF other

\* The window of a request is a number.
LEMMA WindowNumber ==
  ASSUME NEW given, "window" \in DOMAIN given, given.window \in Seq(Int), NEW defaults, "window" \in DOMAIN defaults,
         defaults.window \in Int
  PROVE  Normalized(given, defaults).window \in Int
<1>1. given.window # <<>> => given.window[1] \in Int
  OBVIOUS
<1> QED
  BY <1>1 DEF Normalized

\* The warning and the candle that are shown with a volume spike.
LEMMA SpikeShownTrue ==
  ASSUME NEW n \in Nat, NEW cs, DOMAIN cs = 1 .. n, Len(cs) = n, Completed(cs) = cs,
         NEW r \in Asks.spikes, SpikePasses(cs, r)
  PROVE  LET rule == Normalized(r, SpikeDefaults) IN Heavy(cs, SpikeShown(cs, rule), rule)
<1> DEFINE rule == Normalized(r, SpikeDefaults)
           S == {i \in 1 .. n : SpikeAt(cs, i, rule)}
           at == SpikeMatched(cs, rule)
<1>1. at # Missing
  BY DEF SpikePasses
<1> HIDE DEF rule
<1>2. at = Latest(IF rule.window = Missing THEN S ELSE S \cap Recent(n, rule.window))
  BY DEF SpikeMatched, MatchedAt
<1>3. at \in S
  <2> DEFINE T == IF rule.window = Missing THEN S ELSE S \cap Recent(n, rule.window)
  <2>1. T \in SUBSET (0 .. n) /\ T \in SUBSET S
    OBVIOUS
  <2> HIDE DEF T, at
  <2>2. at = Latest(T)
    BY <1>2 DEF T
  <2>3. T # {}
    BY <1>1, <2>2 DEF Latest
  <2>4. Latest(T) \in T
    BY <2>1, <2>3, LatestIs
  <2> QED
    BY <2>1, <2>2, <2>4
<1>4. SpikeAt(cs, at, rule)
  BY <1>3
<1>5. SpikeShown(cs, rule) = at - 1
  BY <1>1 DEF SpikeShown
<1> HIDE DEF at
<1>6. Heavy(cs, at - 1, rule)
  BY <1>4 DEF SpikeAt, SpikeSides
<1> QED
  BY <1>5, <1>6 DEF rule

\* The warning that is shown with a verdict on the spikes of a chart is right.
SpikeWarnsRight(cs, n, r) ==
  LET rule == Normalized(r, SpikeDefaults)
      passes(window) == SpikePasses(cs, [r EXCEPT !.window = <<window>>])
      says == SignalWarning(n, rule.window, {i \in DOMAIN cs : SpikeAt(cs, i, rule)})
  IN /\ says = "within_window_not_latest" <=> passes(rule.window) /\ ~passes(1)
     /\ says = "stale_outside_window" <=> ~passes(rule.window) /\ passes(n)

LEMMA SpikeWarned ==
  ASSUME NEW n \in Nat, NEW cs, DOMAIN cs = 1 .. n, Len(cs) = n, Completed(cs) = cs,
         NEW r \in Asks.spikes, ~SpikeError(r)
  PROVE  SpikeWarnsRight(cs, n, r)
<1> DEFINE rule == Normalized(r, SpikeDefaults)
           S == {i \in DOMAIN cs : SpikeAt(cs, i, rule)}
           other(w) == [r EXCEPT !.window = <<w>>]
<1>1. "window" \in DOMAIN r /\ r.window \in Seq(Int)
  BY AsksAssumption
<1>2. "window" \in DOMAIN SpikeDefaults /\ SpikeDefaults.window \in Int
  BY DEF SpikeDefaults
<1>3. rule.window \in Int
  BY <1>1, <1>2, WindowNumber
<1>4. ASSUME NEW w
      PROVE  SpikePasses(cs, other(w)) <=> MatchedAt(n, w, S) # Missing
  <2> DEFINE d == SpikeDefaults
             q == Normalized(other(w), d)
  <2>0. "window" \in DOMAIN r /\ "window" \in DOMAIN d
    BY <1>1, <1>2
  <2> HIDE DEF d
  <2>1a. /\ q.window = w /\ \A o \in DOMAIN d \ {"window"} : q[o] = Normalized(r, d)[o]
         /\ (\A o \in DOMAIN r : ~Conflicting(r[o])) => \A o \in DOMAIN other(w) : ~Conflicting(other(w)[o])
    BY <2>0, OtherWindow
  <2>1. /\ q.window = w /\ \A o \in DOMAIN SpikeDefaults \ {"window"} : q[o] = rule[o]
        /\ (\A o \in DOMAIN r : ~Conflicting(r[o])) => \A o \in DOMAIN other(w) : ~Conflicting(other(w)[o])
    BY <2>1a DEF d
  <2> USE DEF d
  <2>2. ~SpikeError(other(w))
    <3>1. /\ \A o \in DOMAIN r : ~Conflicting(r[o])
          /\ rule.rule \in SpikeRules /\ ~(rule.rule \in {"between", "between_average_percent"} /\ rule.max = Missing)
      BY DEF SpikeError, ConfigError
    <3>2. q.rule = rule.rule /\ ~(q.rule \in {"between", "between_average_percent"})
      <4>1. "rule" \in DOMAIN SpikeDefaults \ {"window"}
        BY DEF SpikeDefaults
      <4> HIDE DEF q, rule, other
      <4> QED
        BY <2>1, <3>1, <4>1 DEF SpikeRules
    <3> HIDE DEF rule, other
    <3> QED
      BY <2>1, <3>1, <3>2 DEF SpikeError, ConfigError
  <2>3. /\ q.volMa = rule.volMa /\ q.volX = rule.volX /\ q.onlyValidHl = rule.onlyValidHl
        /\ q.onlyHammersShooters = rule.onlyHammersShooters /\ q.onlySameColor = rule.onlySameColor
        /\ q.session = rule.session /\ q.rule = rule.rule
    <3> HIDE DEF q, rule, other
    <3> QED
      BY <2>1 DEF SpikeDefaults
  <2>4. SpikePasses(cs, other(w)) <=> MatchedAt(n, q.window, {i \in DOMAIN cs : SpikeAt(cs, i, q)}) # Missing
    BY <2>2 DEF SpikePasses, SpikeMatched
  <2> HIDE DEF q, rule, other
  <2>5. \A i : Heavy(cs, i, q) <=> Heavy(cs, i, rule)
    BY <2>3 DEF Heavy
  <2>6. \A i : SpikeSides(cs, i, q) = SpikeSides(cs, i, rule)
    BY <2>3, <2>5 DEF SpikeSides
  <2>7. \A i : SpikeAt(cs, i, q) <=> SpikeAt(cs, i, rule)
    BY <2>3, <2>6 DEF SpikeAt
  <2>8. {i \in DOMAIN cs : SpikeAt(cs, i, q)} = S
    BY <2>7
  <2> HIDE DEF S
  <2> QED
    BY <2>1, <2>4, <2>8
<1>5. S \in SUBSET (1 .. n)
  OBVIOUS
<1> HIDE DEF S, rule, other
<1>6. WarnsRight(n, rule.window, S)
  BY <1>3, <1>5, WarningTrue
<1> QED
  BY <1>4, <1>6 DEF WarnsRight, SpikeWarnsRight, S, rule, other

\* All of a chart whose candles are closed is completed.
LEMMA CompletedAll ==
  ASSUME NEW U, NEW cs \in Seq(U), \A i \in 1 .. Len(cs) : cs[i].closed
  PROVE  Completed(cs) = cs
<1> DEFINE n == Len(cs)
           Is(f) == f = [i \in 0 .. n |-> IF i = 0 THEN <<>>
                                          ELSE IF cs[i].closed THEN Append(f[i - 1], cs[i]) ELSE f[i - 1]]
           first == [i \in 0 .. n |-> SubSeq(cs, 1, i)]
           g == CHOOSE h : Is(h)
<1>1. \A i \in 1 .. n : SubSeq(cs, 1, i) = Append(SubSeq(cs, 1, i - 1), cs[i])
  <2> TAKE i \in 1 .. n
  <2>1. SubSeq(cs, 1, i) = SubSeq(cs, 1, i - 1) \o <<cs[i]>>
    BY SubSeqRecursiveSecond
  <2>2. SubSeq(cs, 1, i - 1) \in Seq(U)
    BY SubSeqProperties
  <2> QED
    BY <2>1, <2>2, AppendIsConcat
<1>2. SubSeq(cs, 1, 0) = <<>> /\ SubSeq(cs, 1, n) = cs
  BY SubSeqEmpty, SubSeqFull
<1>3. Is(first)
  <2>1. \A i \in 0 .. n : i = 0 \/ (i \in 1 .. n /\ i - 1 \in 0 .. n)
    OBVIOUS
  <2> QED
    BY <1>1, <1>2, <2>1
<1>4. Is(g)
  <2> HIDE DEF Is, first
  <2> QED
    BY <1>3
<1>5. Completed(cs) = g[n]
  BY DEF Completed
<1> HIDE DEF g
<1>6. g[0] = <<>> /\ \A i \in 1 .. n : g[i] = Append(g[i - 1], cs[i])
  <2>1. \A i \in 0 .. n : g[i] = IF i = 0 THEN <<>>
                                 ELSE IF cs[i].closed THEN Append(g[i - 1], cs[i]) ELSE g[i - 1]
    BY <1>4
  <2>2. \A i \in 1 .. n : i \in 0 .. n /\ i # 0 /\ cs[i].closed
    OBVIOUS
  <2>3. 0 \in 0 .. n
    OBVIOUS
  <2> QED
    BY <2>1, <2>2, <2>3
<1> DEFINE H == {i \in 0 .. n : g[i] = SubSeq(cs, 1, i)}
<1>7. 0 \in H
  <2>1. 0 \in 0 .. n /\ g[0] = SubSeq(cs, 1, 0)
    BY <1>2, <1>6
  <2> QED
    BY <2>1
<1>8. \A i \in 1 .. n : i - 1 \in H => i \in H
  <2> TAKE i \in 1 .. n
  <2>1. g[i] = Append(g[i - 1], cs[i]) /\ SubSeq(cs, 1, i) = Append(SubSeq(cs, 1, i - 1), cs[i]) /\ i \in 0 .. n
    BY <1>1, <1>6
  <2> QED
    BY <2>1
<1>9. n \in H
  <2>1. n \in Nat
    OBVIOUS
  <2> HIDE DEF H, n
  <2>2. \A i \in 0 .. n : i \in H
    BY <1>7, <1>8, <2>1, Climb
  <2> QED
    BY <2>1, <2>2
<1> QED
  BY <1>2, <1>5, <1>9

\* What the signals of the volatility filter depend on: all but the window.
SameVolatility(q, r) ==
  /\ q.mode = r.mode /\ q.length = r.length /\ q.min = r.min /\ q.max = r.max /\ q.tolerance = r.tolerance
  /\ q.source = r.source /\ q.factor = r.factor /\ q.higherFrame = r.higherFrame
  /\ q.detectBreaches = r.detectBreaches /\ q.alerts = r.alerts /\ q.delay = r.delay /\ q.rule = r.rule
  /\ q.minAtr = r.minAtr /\ q.maxAtr = r.maxAtr /\ q.minDistance = r.minDistance /\ q.maxDistance = r.maxDistance

LEMMA SameStops ==
  ASSUME NEW cs, NEW q, NEW r, SameVolatility(q, r)
  PROVE  /\ Unit(cs, q) = Unit(cs, r) /\ Atr(cs, q) = Atr(cs, r) /\ Stops(cs, q) = Stops(cs, r)
         /\ \A stop : Breaching(cs, q, stop) = Breaching(cs, r, stop)
         /\ \A stop, i : StopCrossed(cs, q, stop, i) <=> StopCrossed(cs, r, stop, i)
<1>1. Unit(cs, q) = Unit(cs, r)
  <2> DEFINE u(length) == LET unit[i \in 0 .. Len(cs)] == IF i = 0 THEN 48 ELSE length * unit[i - 1]
                          IN unit[Len(cs)]
  <2>1. \A rule : Unit(cs, rule) = u(rule.length)
    BY DEF Unit
  <2> HIDE DEF u
  <2> QED
    BY <2>1 DEF SameVolatility
<1>2. Atr(cs, q) = Atr(cs, r)
  <2> DEFINE a(unit, length) ==
        LET next(atr, i) ==
              CASE i < length -> Missing
                [] i = length -> (unit * RangeSum(cs, i)) \div i
                [] OTHER -> (atr[i - 1] * (length - 1) + unit * TrueRange(cs, i)) \div length
        IN Along(cs, next)
  <2>1. \A rule : Atr(cs, rule) = a(Unit(cs, rule), rule.length)
    BY DEF Atr, Along
  <2> HIDE DEF a
  <2> QED
    BY <1>1, <2>1 DEF SameVolatility
<1>3. Stops(cs, q) = Stops(cs, r)
  <2> DEFINE s(unit, atr, source, factor) ==
        LET next(stop, i) ==
              LET price == (unit \div 12) * Source(cs[i], source)
                  distance == IF atr[i] = Missing THEN unit * TrueRange(cs, i) ELSE (atr[i] * factor) \div 4
                  p == stop[i - 1]
                  max == Larger(p.max, price)
                  min == Smaller(p.min, price)
                  candidate == IF p.up THEN Larger(p.at, max - distance) ELSE Smaller(p.at, min + distance)
                  up == price >= candidate
              IN CASE i = 1 -> [at |-> price, up |-> TRUE, max |-> price, min |-> price]
                   [] i > 1 /\ up = p.up -> [at |-> candidate, up |-> up, max |-> max, min |-> min]
                   [] OTHER -> Turned(price, distance, max, min, up)
        IN Along(cs, next)
  <2>1. \A rule : Stops(cs, rule) = s(Unit(cs, rule), Atr(cs, rule), rule.source, rule.factor)
    BY DEF Stops, Along
  <2> HIDE DEF s
  <2> QED
    BY <1>1, <1>2, <2>1 DEF SameVolatility
<1>4. ClosesIn(cs, q) = ClosesIn(cs, r)
  <2> DEFINE c(unit) == [i \in DOMAIN cs |-> unit * cs[i].close]
  <2>1. \A rule : ClosesIn(cs, rule) = c(Unit(cs, rule))
    BY DEF ClosesIn
  <2> HIDE DEF c
  <2> QED
    BY <1>1, <2>1
<1>5. \A stop, i : StopCrossed(cs, q, stop, i) <=> StopCrossed(cs, r, stop, i)
  BY <1>4 DEF StopCrossed
<1>6. \A stop : Breaching(cs, q, stop) = Breaching(cs, r, stop)
  <2> TAKE stop
  <2> DEFINE b(higher, detect, closes) ==
        LET next(state, i) ==
              LET limbo == i > 1 /\ state[i - 1].limbo
                  crossed == CrossedAbove(closes, StopLine(stop), i) \/ CrossedBelow(closes, StopLine(stop), i)
                  breach == higher /\ detect /\ ~limbo /\ crossed
              IN [early |-> breach /\ ~Reversed(stop, i), limbo |-> (limbo \/ breach) /\ ~Reversed(stop, i)]
        IN Along(cs, next)
  <2>1. \A rule : Breaching(cs, rule, stop) = b(rule.higherFrame, rule.detectBreaches, ClosesIn(cs, rule))
    BY DEF Breaching, StopCrossed, Along
  <2> HIDE DEF b
  <2> QED
    BY <1>4, <2>1 DEF SameVolatility
<1> QED
  BY <1>1, <1>2, <1>3, <1>5, <1>6

LEMMA SameSignals ==
  ASSUME NEW cs, NEW q, NEW r, SameVolatility(q, r)
  PROVE  VolatilitySignals(cs, q) = VolatilitySignals(cs, r)
<1> DEFINE closed == Completed(cs)
<1>1. {i \in DOMAIN closed : MeasureAt(closed, i, q)} = {i \in DOMAIN closed : MeasureAt(closed, i, r)}
  <2> HIDE DEF closed
  <2>1. \A i, v : /\ AtLeast(closed, i, q, v) <=> AtLeast(closed, i, r, v)
                  /\ AtMost(closed, i, q, v) <=> AtMost(closed, i, r, v)
    <3>1. \A i : Measure(closed, i, q) = Measure(closed, i, r)
      BY DEF Measure, SameVolatility
    <3> QED
      BY <3>1 DEF AtLeast, AtMost, SameVolatility
  <2>2. \A i : Measured(closed, i, q) <=> Measured(closed, i, r)
    BY DEF Measured, SameVolatility
  <2>3. \A i : MeasureAt(closed, i, q) <=> MeasureAt(closed, i, r)
    BY <2>1, <2>2 DEF MeasureAt, SameVolatility
  <2> QED
    BY <2>3
<1>2. StopSignals(closed, q) = StopSignals(closed, r)
  <2> DEFINE event(rule, i, alert) == AlertEvent(Stops(closed, rule), Breaching(closed, rule, Stops(closed, rule)), i, alert)
  <2> HIDE DEF closed
  <2>0. /\ Unit(closed, q) = Unit(closed, r) /\ Atr(closed, q) = Atr(closed, r) /\ Stops(closed, q) = Stops(closed, r)
        /\ \A stop : Breaching(closed, q, stop) = Breaching(closed, r, stop)
        /\ \A stop, i : StopCrossed(closed, q, stop, i) <=> StopCrossed(closed, r, stop, i)
    BY SameStops
  <2>1. /\ Unit(closed, q) = Unit(closed, r) /\ Atr(closed, q) = Atr(closed, r) /\ Stops(closed, q) = Stops(closed, r)
        /\ Breaching(closed, q, Stops(closed, q)) = Breaching(closed, r, Stops(closed, r))
        /\ \A stop, i : StopCrossed(closed, q, stop, i) <=> StopCrossed(closed, r, stop, i)
    BY <2>0
  <2> DEFINE at(unit, atr, stop, breaching, rule, i) ==
        LET away == 10000 * Distance(unit * closed[i].close, stop[i].at)
            share(pct, tolerance) == pct * unit * closed[i].close * tolerance
            most(max, min) == IF max = Missing THEN min ELSE max
        IN CASE rule.rule = "trend_reversal" -> AlertEvent(stop, breaching, i, "reversal")
             [] rule.rule = "change_to_uptrend" -> AlertEvent(stop, breaching, i, "to_up")
             [] rule.rule = "change_to_downtrend" -> AlertEvent(stop, breaching, i, "to_down")
             [] rule.rule = "uptrend" -> stop[i].up
             [] rule.rule = "downtrend" -> ~stop[i].up
             [] rule.rule = "price_cross_stop" -> StopCrossed(closed, rule, stop, i)
             [] rule.rule = "early_breach_uptrend" -> AlertEvent(stop, breaching, i, "breach_up")
             [] rule.rule = "early_breach_downtrend" -> AlertEvent(stop, breaching, i, "breach_down")
             [] rule.rule = "selected_alerts" ->
                  \E alert \in rule.alerts : Alerted(stop, breaching, i, alert, rule.delay)
             [] rule.rule = "atr_above" ->
                  atr[i] # Missing /\ 100 * atr[i] >= rule.minAtr * unit * (100 - rule.tolerance)
             [] rule.rule = "atr_below" ->
                  atr[i] # Missing /\ 100 * atr[i] <= most(rule.maxAtr, rule.minAtr) * unit * (100 + rule.tolerance)
             [] rule.rule = "stop_distance_above_pct" -> away >= share(rule.minDistance, 100 - rule.tolerance)
             [] rule.rule = "stop_distance_below_pct" ->
                  away <= share(most(rule.maxDistance, rule.minDistance), 100 + rule.tolerance)
             [] rule.rule = "volatility_expansion" -> Direction(atr, i, "rising")
             [] rule.rule = "volatility_contraction" -> Direction(atr, i, "falling")
             [] OTHER -> atr[i] # Missing
      in(rule, i) == at(Unit(closed, rule), Atr(closed, rule), Stops(closed, rule),
                        Breaching(closed, rule, Stops(closed, rule)), rule, i)
  <2>2. \A rule : StopSignals(closed, rule) = {i \in DOMAIN closed : in(rule, i)}
    BY DEF StopSignals
  <2>3. ASSUME NEW unit, NEW atr, NEW stop, NEW breaching, NEW i,
               StopCrossed(closed, q, stop, i) <=> StopCrossed(closed, r, stop, i)
        PROVE  at(unit, atr, stop, breaching, q, i) <=> at(unit, atr, stop, breaching, r, i)
    BY <2>3 DEF SameVolatility
  <2> HIDE DEF at
  <2>4. \A i : in(q, i) <=> in(r, i)
    BY <2>1, <2>3
  <2> HIDE DEF in
  <2> QED
    BY <2>2, <2>4
<1> HIDE DEF closed
<1>3. /\ VolatilitySignals(cs, q) =
           IF q.mode = "vstop" THEN StopSignals(closed, q) ELSE {i \in DOMAIN closed : MeasureAt(closed, i, q)}
      /\ VolatilitySignals(cs, r) =
           IF r.mode = "vstop" THEN StopSignals(closed, r) ELSE {i \in DOMAIN closed : MeasureAt(closed, i, r)}
  BY DEF VolatilitySignals, closed
<1> QED
  BY <1>1, <1>2, <1>3 DEF SameVolatility

LEMMA VolatilityWarned ==
  ASSUME NEW U, NEW cs \in Seq(U), \A i \in 1 .. Len(cs) : cs[i].closed, NEW r \in Asks.volatility, ~VolatilityError(r)
  PROVE  LET rule == Normalized(r, VolatilityDefaults)
             passes(window) == VolatilityPasses(cs, [r EXCEPT !.window = <<window>>])
             says == VolatilityWarning(cs, rule)
         IN /\ says = "within_window_not_latest" <=> passes(rule.window) /\ ~passes(1)
            /\ says = "stale_outside_window" <=> ~passes(rule.window) /\ passes(Len(cs))
<1> DEFINE n == Len(cs)
           rule == Normalized(r, VolatilityDefaults)
           S == VolatilitySignals(cs, rule)
           other(w) == [r EXCEPT !.window = <<w>>]
<1>1. "window" \in DOMAIN r /\ r.window \in Seq(Int)
  BY AsksAssumption
<1>2. "window" \in DOMAIN VolatilityDefaults /\ VolatilityDefaults.window \in Int
  BY DEF VolatilityDefaults
<1>3. rule.window \in Int
  BY <1>1, <1>2, WindowNumber
<1>4. Completed(cs) = cs
  BY CompletedAll
<1>5. S \in SUBSET (1 .. n)
  <2>1. S = IF rule.mode = "vstop" THEN StopSignals(cs, rule) ELSE {i \in DOMAIN cs : MeasureAt(cs, i, rule)}
    BY <1>4 DEF VolatilitySignals
  <2>2. StopSignals(cs, rule) \in SUBSET DOMAIN cs
    BY DEF StopSignals
  <2>3. DOMAIN cs = 1 .. n
    OBVIOUS
  <2> HIDE DEF S, rule
  <2> QED
    BY <2>1, <2>2, <2>3
<1>6. ASSUME NEW w
      PROVE  VolatilityPasses(cs, other(w)) <=> MatchedAt(n, w, S) # Missing
  <2> DEFINE d == VolatilityDefaults
             q == Normalized(other(w), d)
  <2>0. "window" \in DOMAIN r /\ "window" \in DOMAIN d
    BY <1>1, <1>2
  <2> HIDE DEF d
  <2>1a. /\ q.window = w /\ \A o \in DOMAIN d \ {"window"} : q[o] = Normalized(r, d)[o]
         /\ (\A o \in DOMAIN r : ~Conflicting(r[o])) => \A o \in DOMAIN other(w) : ~Conflicting(other(w)[o])
    BY <2>0, OtherWindow
  <2>1. /\ q.window = w /\ \A o \in DOMAIN VolatilityDefaults \ {"window"} : q[o] = rule[o]
        /\ (\A o \in DOMAIN r : ~Conflicting(r[o])) => \A o \in DOMAIN other(w) : ~Conflicting(other(w)[o])
    BY <2>1a DEF d
  <2> USE DEF d
  <2> HIDE DEF q, rule, other
  <2>2. SameVolatility(q, rule)
    BY <2>1 DEF VolatilityDefaults, SameVolatility
  <2>3. ~VolatilityError(other(w))
    BY <2>1, <2>2 DEF VolatilityError, ConfigError, SameVolatility, q, rule
  <2>4. VolatilityPasses(cs, other(w)) <=> MatchedAt(n, q.window, VolatilitySignals(cs, q)) # Missing
    BY <1>4, <2>3 DEF VolatilityPasses, VolatilityMatched, q
  <2>5. VolatilitySignals(cs, q) = S
    BY <2>2, SameSignals
  <2> HIDE DEF S
  <2> QED
    BY <2>1, <2>4, <2>5
<1>7. VolatilityWarning(cs, rule) = SignalWarning(n, rule.window, S)
  BY <1>4 DEF VolatilityWarning
<1> HIDE DEF S, rule, other, n
<1>8. WarnsRight(n, rule.window, S)
  <2>1. n \in Nat
    BY DEF n
  <2> QED
    BY <1>3, <1>5, <2>1, WarningTrue
<1> QED
  BY <1>6, <1>7, <1>8 DEF WarnsRight, rule, other, n

\* What is told of a linear regression candle.
LinregTold(cs, r) ==
  LET s == LinregSeries(cs, r)
      match == LinregMatch(cs, s, r)
      plain == r.position \notin States \/ r.location = Missing
  IN LinregEnough(cs, r) =>
       /\ match # Missing =>
            /\ LinregMatches(s, match.at, [r EXCEPT !.position = match.position])
            /\ Timing(cs, s, r) = [passed |-> TRUE, start |-> match.start]
       /\ plain => Timing(cs, s, r).passed = (match # Missing)

\* What a match of one position says.
LEMMA MatchSays ==
  ASSUME NEW n \in Nat \ {0}, NEW cs, NEW s, Len(s.line) = n, NEW q, MatchOf(cs, s, q) # Missing
  PROVE  LET match == MatchOf(cs, s, q)
         IN /\ LinregMatches(s, match.at, q) /\ match.position = q.position
            /\ q.position \in States =>
                 /\ match.at = n /\ match.start = StateStart(s, q)
                 /\ AgeFits(n - match.start + 1, q.window) /\ Confirmed(cs, match.start, q.confirm)
<1> DEFINE start == CASE q.position = Missing -> n
                      [] q.position \in Piercings -> n - q.window + 1
                      [] OTHER -> StateStart(s, q)
           at == IF q.position \in Piercings THEN start ELSE n
           age == IF q.position = Missing THEN Missing ELSE n - start + 1
<1>1. MatchOf(cs, s, q) = IF /\ at \in 1 .. n /\ LinregMatches(s, at, q)
                             /\ q.position # Missing => AgeFits(age, q.window)
                             /\ Confirmed(cs, start, q.confirm)
                          THEN [at |-> at, start |-> start, age |-> age, position |-> q.position] ELSE Missing
  BY DEF MatchOf
<1>2. q.position \in States => q.position # Missing /\ q.position \notin Piercings
  BY AsksAssumption DEF States, Piercings, Positions
<1>3. q.position \in States => start = StateStart(s, q) /\ at = n /\ age = n - start + 1
  BY <1>2
<1> HIDE DEF start, at, age
<1>4. /\ LinregMatches(s, at, q) /\ Confirmed(cs, start, q.confirm)
      /\ q.position # Missing => AgeFits(age, q.window)
      /\ MatchOf(cs, s, q) = [at |-> at, start |-> start, age |-> age, position |-> q.position]
  BY <1>1
<1> QED
  BY <1>2, <1>3, <1>4

\* A state that the newest candle is in began at one of the candles.
LEMMA StateBegan ==
  ASSUME NEW n \in Nat \ {0}, NEW s, Len(s.line) = n, NEW q
  PROVE  /\ Positioned(s, n, q) => StateStart(s, q) \in 1 .. n
         /\ ~Positioned(s, n, q) => StateStart(s, q) = Missing
<1> DEFINE E == OutOfPosition(s, n, q)
<1>1. StateStart(s, q) = IF n \in E THEN Missing ELSE StartAfter(E)
  BY DEF StateStart, StartAfter, OutOfPosition
<1>2. n \in E <=> ~Positioned(s, n, q)
  BY DEF OutOfPosition
<1>3. E \in SUBSET (1 .. n)
  BY DEF OutOfPosition
<1> HIDE DEF E
<1>4. n \notin E => StartAfter(E) \in 1 .. n
  BY <1>3, StartAfterIs
<1> QED
  BY <1>1, <1>2, <1>4

\* Of a state, a candle that is told is the one that matches, unless the rule
\* asks where it closes.
LEMMA StateTold ==
  ASSUME NEW n \in Nat \ {0}, NEW cs, NEW s, Len(s.line) = n, NEW r \in Asks.linreg, r.position \in States
  PROVE  LET match == MatchOf(cs, s, r)
         IN /\ match # Missing =>
                 /\ LinregMatches(s, match.at, [r EXCEPT !.position = match.position])
                 /\ Timing(cs, s, r) = [passed |-> TRUE, start |-> match.start]
            /\ r.location = Missing => Timing(cs, s, r).passed = (match # Missing)
<1> DEFINE match == MatchOf(cs, s, r)
           start == StateStart(s, r)
           fits == AgeFits(n - start + 1, r.window) /\ Confirmed(cs, start, r.confirm)
<1>1. r.position # Missing /\ r.position \in Positions /\ r.position \notin Piercings /\ r.position # "any_signal"
  BY AsksAssumption DEF States, Piercings, Positions
<1>2. "position" \in DOMAIN r
  BY AsksAssumption
<1>3. Timing(cs, s, r) = IF start = Missing THEN [passed |-> FALSE, start |-> Missing]
                         ELSE [passed |-> fits, start |-> start]
  BY DEF Timing
<1>4. /\ Positioned(s, n, r) => start \in 1 .. n
      /\ ~Positioned(s, n, r) => start = Missing
  BY StateBegan
<1>5. match # Missing =>
        /\ LinregMatches(s, match.at, r) /\ match.position = r.position /\ match.at = n /\ match.start = start /\ fits
  BY MatchSays
<1>6. \A i : LinregMatches(s, i, [r EXCEPT !.position = r.position]) <=> LinregMatches(s, i, r)
  <2> DEFINE q == [r EXCEPT !.position = r.position]
  <2>1. q.position = r.position /\ q.location = r.location /\ q.tolerance = r.tolerance
    BY <1>2
  <2> HIDE DEF q
  <2>2. \A i : LinregMatches(s, i, q) <=> LinregMatches(s, i, r)
    BY <2>1 DEF LinregMatches, Positioned
  <2> QED
    BY <2>2 DEF q
<1>7. LinregMatches(s, n, r) => Positioned(s, n, r)
  BY DEF LinregMatches
<1>8. match = IF LinregMatches(s, n, r) /\ fits
              THEN [at |-> n, start |-> start, age |-> n - start + 1, position |-> r.position] ELSE Missing
  BY <1>1 DEF MatchOf
<1>9. start \in 1 .. n =>
        [at |-> n, start |-> start, age |-> n - start + 1, position |-> r.position] # Missing
  <2> HIDE DEF start
  <2> QED
    BY <1>1, IsMatch
<1>10. \A i \in 1 .. n : i # Missing
  BY UnsetAssumption
<1> HIDE DEF match, start, fits
<1>11. ASSUME match # Missing
       PROVE  /\ LinregMatches(s, match.at, [r EXCEPT !.position = match.position])
              /\ Timing(cs, s, r) = [passed |-> TRUE, start |-> match.start]
  <2>1. start \in 1 .. n /\ start # Missing
    BY <1>4, <1>5, <1>7, <1>10, <1>11
  <2> QED
    BY <1>3, <1>5, <1>6, <1>11, <2>1 DEF fits
<1>12. ASSUME r.location = Missing
       PROVE  Timing(cs, s, r).passed = (match # Missing)
  <2>1. LinregMatches(s, n, r) <=> Positioned(s, n, r)
    BY <1>12 DEF LinregMatches
  <2>2. CASE Positioned(s, n, r)
    <3>1. start \in 1 .. n /\ start # Missing
      BY <1>4, <1>10, <2>2
    <3>2. match # Missing <=> fits
      BY <1>8, <1>9, <2>1, <2>2, <3>1
    <3>3. Timing(cs, s, r).passed = fits
      BY <1>3, <3>1
    <3>4. CASE fits
      <4>1. fits = TRUE
        BY <3>4 DEF fits
      <4> QED
        BY <3>2, <3>3, <4>1
    <3>5. CASE ~fits
      <4>1. fits = FALSE
        BY <3>5 DEF fits
      <4> QED
        BY <3>2, <3>3, <4>1
    <3> QED
      BY <3>4, <3>5
  <2>3. CASE ~Positioned(s, n, r)
    <3>1. start = Missing /\ match = Missing
      BY <1>4, <1>8, <2>1, <2>3
    <3>2. Timing(cs, s, r).passed = FALSE /\ (match # Missing) = FALSE
      BY <1>3, <3>1
    <3> QED
      BY <3>2
  <2> QED
    BY <2>2, <2>3
<1> QED
  BY <1>11, <1>12 DEF match

LEMMA LinregShownTrue ==
  ASSUME NEW n \in Nat, NEW cs, DOMAIN cs = 1 .. n, Len(cs) = n, NEW r \in Asks.linreg
  PROVE  LinregTold(cs, r)
<1> SUFFICES ASSUME LinregEnough(cs, r) PROVE LinregTold(cs, r)
  BY DEF LinregTold
<1> DEFINE s == LinregSeries(cs, r)
           match == LinregMatch(cs, s, r)
<1>1. n \in Nat \ {0} /\ Len(s.line) = n
  <2>1. Len(s.line) = n
    BY LineLong
  <2> HIDE DEF s
  <2>2. r.length \in Nat \ {0} /\ r.smoothing \in Nat \ {0}
    BY AsksAssumption
  <2> QED
    BY <2>1, <2>2 DEF LinregEnough
<1>2. "position" \in DOMAIN r
  BY AsksAssumption
<1> HIDE DEF s
<1>3. CASE r.position \in States
  <2>1. match = MatchOf(cs, s, r)
    BY <1>3 DEF LinregMatch, States
  <2> HIDE DEF match
  <2> QED
    BY <1>1, <1>3, <2>1, StateTold DEF LinregTold, s, match
<1>4. CASE r.position \notin States
  <2>1. Timing(cs, s, r) = [passed |-> match # Missing, start |-> IF match = Missing THEN Missing ELSE match.start]
    BY <1>4 DEF Timing
  <2>2. match # Missing => LinregMatches(s, match.at, [r EXCEPT !.position = match.position])
    <3>1. CASE r.position # "any_signal"
      <4>1. match = MatchOf(cs, s, r)
        BY <3>1 DEF LinregMatch
      <4> HIDE DEF match
      <4>2. match # Missing => LinregMatches(s, match.at, r) /\ match.position = r.position
        BY <1>1, <4>1, MatchSays
      <4> DEFINE q == [r EXCEPT !.position = match.position]
      <4>3. match # Missing => q.position = r.position /\ q.location = r.location /\ q.tolerance = r.tolerance
        BY <1>2, <4>2
      <4> HIDE DEF q
      <4>4. match # Missing => LinregMatches(s, match.at, q)
        BY <4>2, <4>3 DEF LinregMatches, Positioned
      <4> QED
        BY <4>4 DEF q
    <3>2. CASE r.position = "any_signal"
      <4> DEFINE q(k) == [r EXCEPT !.position = Order[k]]
                 matching == {k \in DOMAIN Order : MatchOf(cs, s, q(k)) # Missing}
                 first == CHOOSE k \in matching : \A j \in matching : k <= j
      <4>1. match = IF matching = {} THEN Missing ELSE MatchOf(cs, s, q(first))
        BY <3>2 DEF LinregMatch
      <4>2. matching # {} => first \in matching
        <5>1. matching \in SUBSET (1 .. 5)
          BY DEF Order
        <5> HIDE DEF matching
        <5>2. matching # {} => \E k \in matching : \A j \in matching : k <= j
          <6>1. matching \in SUBSET Nat
            BY <5>1
          <6> QED
            BY <6>1, LeastNumber
        <5> QED
          BY <5>2
      <4>3. \A k : q(k).position = Order[k]
        BY <1>2
      <4> HIDE DEF match, first
      <4>4. ASSUME matching # {}
            PROVE  LinregMatches(s, match.at, q(first)) /\ match.position = Order[first]
        <5>1. match = MatchOf(cs, s, q(first)) /\ match # Missing
          BY <4>1, <4>2, <4>4
        <5> HIDE DEF q, matching
        <5>2. LinregMatches(s, match.at, q(first)) /\ match.position = q(first).position
          BY <1>1, <5>1, MatchSays
        <5> QED
          BY <4>3, <5>2
      <4> QED
        BY <4>1, <4>4
    <3> QED
      BY <3>1, <3>2
  <2> HIDE DEF match
  <2>3. match # Missing => Timing(cs, s, r) = [passed |-> TRUE, start |-> match.start]
    <3>1. match # Missing => (match # Missing) = TRUE
      OBVIOUS
    <3> QED
      BY <2>1, <3>1
  <2>4. Timing(cs, s, r).passed = (match # Missing)
    BY <2>1
  <2> QED
    BY <2>2, <2>3, <2>4 DEF LinregTold, s, match
<1> QED
  BY <1>3, <1>4

LEMMA ToldTrue ==
  ASSUME family \in Family, NEW cs \in Seq(Shapes[family])
  PROVE  StagesExplain(cs) /\ StickerShows(cs)
<1> DEFINE n == Len(cs)
<1>1. n \in Nat /\ DOMAIN cs = 1 .. n /\ Len(cs) = n /\ \A i \in 1 .. n : cs[i] \in Shapes[family]
  OBVIOUS
<1>2. \A i \in 1 .. n : {cs[i].open, cs[i].high, cs[i].low, cs[i].close} \subseteq Int /\ cs[i].closed
  BY <1>1, PricesAssumption
<1>a. Completed(cs) = cs
  BY <1>2, CompletedAll
<1>3. Charted(cs, n)
  <2> HIDE DEF n
  <2> QED
    BY <1>1, <1>2 DEF Charted
<1> HIDE DEF n
<1>4. StagesExplain(cs)
  <2>1. ASSUME NEW r \in InteractionRules, Interacts(cs, Line, r)
        PROVE  Explained(cs, r)
    BY <1>1, <1>3, <2>1, StagesTrue
  <2>2. \A r \in InteractionRules : Interacts(cs, Line, r) => Explained(cs, r)
    BY <2>1
  <2> QED
    BY <2>2 DEF StagesExplain, Explained, Claimed
<1>5. \A r \in Asks.rsi : AskRsi(cs, r) =>
        LET s == RsiSeries(cs, Span) IN RsiMatches(s, RsiShown(s, r), r) /\ RsiShown(s, r) \in Recent(Len(s), r.window)
  BY <1>1, RsiShownTrue
<1>6. \A r \in Asks.aroon : AskAroon(cs, r) =>
        LET s == AroonSeries(cs, Span) IN AroonMatches(s, AroonShown(s, r), r) /\ AroonShown(s, r) \in Recent(Len(s), r.window)
  BY <1>1, AroonShownTrue
<1>7. family = "waves" => \A r \in Asks.wave : AskWave(cs, r) =>
        LET w == WaveOf(cs)
        IN /\ WaveMatches(w, WaveShown(w, r), r) /\ WaveShown(w, r) \in Recent(n, r.window)
           /\ UsesLazyBear(r) /\ r.clauses = {} =>
                /\ Resolved(r) \in {"cross_up", "oversold_cross_up"} => WaveSays(w, r) = "bullish"
                /\ Resolved(r) \in {"cross_down", "overbought_cross_down"} => WaveSays(w, r) = "bearish"
  <2> SUFFICES ASSUME family = "waves"
               PROVE  \A r \in Asks.wave : AskWave(cs, r) =>
                        LET w == WaveOf(cs)
                        IN /\ WaveMatches(w, WaveShown(w, r), r) /\ WaveShown(w, r) \in Recent(n, r.window)
                           /\ UsesLazyBear(r) /\ r.clauses = {} =>
                                /\ Resolved(r) \in {"cross_up", "oversold_cross_up"} => WaveSays(w, r) = "bullish"
                                /\ Resolved(r) \in {"cross_down", "overbought_cross_down"} => WaveSays(w, r) = "bearish"
    OBVIOUS
  <2>1. \A i \in 1 .. n : {cs[i].a, cs[i].b} \subseteq Int \cup {Missing}
    BY <1>1, AsksAssumption
  <2> QED
    BY <1>1, <2>1, WaveShownTrue
<1>8. \A r \in Asks.spikes : SpikePasses(cs, r) =>
        LET rule == Normalized(r, SpikeDefaults) IN Heavy(cs, SpikeShown(cs, rule), rule)
  BY <1>1, <1>a, SpikeShownTrue
<1>9. \A r \in Asks.spikes : ~SpikeError(r) => SpikeWarnsRight(cs, n, r)
  BY <1>1, <1>a, SpikeWarned
<1>10. \A r \in Asks.volatility : ~VolatilityError(r) =>
         LET rule == Normalized(r, VolatilityDefaults)
             passes(window) == VolatilityPasses(cs, [r EXCEPT !.window = <<window>>])
             says == VolatilityWarning(cs, rule)
         IN /\ says = "within_window_not_latest" <=> passes(rule.window) /\ ~passes(1)
            /\ says = "stale_outside_window" <=> ~passes(rule.window) /\ passes(Len(cs))
  <2>1. \A i \in 1 .. Len(cs) : cs[i].closed
    BY <1>1, <1>2
  <2> QED
    BY <2>1, VolatilityWarned
<1>11. \A r \in Asks.linreg : LinregTold(cs, r)
  BY <1>1, LinregShownTrue
<1> QED
  BY <1>1, <1>4, <1>5, <1>6, <1>7, <1>8, <1>9, <1>10, <1>11 DEF StickerShows, LinregTold, SpikeWarnsRight

\* What the program says of a match is true of the chart: the stages shown of
\* an interaction, the candle of a sticker, the side of a cross, the timing of a
\* linear regression candle, and the warnings of spikes and volatility
\* (channel_interactions.py:260, volume.py:221).
THEOREM StickerTrueHolds == Spec => StickerTrue
<1>1. ChartOK /\ [Next]_vars => [StagesExplain(chart') /\ StickerShows(chart')]_vars
  <2> SUFFICES ASSUME ChartOK, Bar PROVE StagesExplain(chart') /\ StickerShows(chart')
    BY DEF Next
  <2>1. chart' \in Seq(Shapes[family]) /\ family \in Family
    BY DEF ChartOK, Bar
  <2> QED
    BY <2>1, ToldTrue
<1> QED
  BY <1>1, ChartTyped, PTL DEF Spec, StickerTrue

=============================================================================
