----------------------- MODULE GroupedHistoryProofs -----------------------
(***************************************************************************)
(* For every set of symbols, timeframes, listings and clocks, every length *)
(* of a week and a month, every chunk size and any failures: the series    *)
(* are well typed, every candle is made of exactly the days of its bucket  *)
(* that were heard of (BucketsExact), the payload holds the newest candles *)
(* (PayloadIsRecent), what is screened as completed is settled             *)
(* (AnswersSettled), and the dates asked for reach back far enough         *)
(* (HistoryWhole).                                                         *)
(***************************************************************************)
EXTENDS GroupedHistory, FiniteSetTheorems, SequenceTheorems, TLAPS

LEMMA Lengths == Week \in Positive /\ Month \in Positive /\ MaxCandles \in Positive
BY NumberAssumption

----------------------------------------------------------------------------
(* Division, and the order of the bucket keys. *)

\* Division rounds down.
LEMMA DivBounds ==
  ASSUME NEW x \in Int, NEW n \in Positive
  PROVE  x \div n \in Int /\ n * (x \div n) <= x /\ x < n * (x \div n) + n
BY SMT DEF Positive

\* A larger quotient is larger by a whole divisor.
LEMMA TimesMonotone ==
  ASSUME NEW p \in Int, NEW q \in Int, NEW n \in Positive, p > q
  PROVE  n * p >= n * q + n
BY SMT DEF Positive

\* Division keeps the order.
LEMMA DivMonotone ==
  ASSUME NEW x \in Int, NEW y \in Int, NEW n \in Positive, x <= y
  PROVE  x \div n <= y \div n
<1>1. SUFFICES ASSUME x \div n > y \div n PROVE FALSE
  BY DivBounds
<1>2. n * (x \div n) >= n * (y \div n) + n
  BY <1>1, DivBounds, TimesMonotone
<1>3. n * (x \div n) <= x /\ y < n * (y \div n) + n
  BY DivBounds
<1>4. n * (x \div n) \in Int /\ n * (y \div n) + n \in Int
  BY DivBounds DEF Positive
<1> HIDE DEF Positive
<1> QED
  BY <1>2, <1>3, <1>4

\* The start of a week keeps the order.
LEMMA WeekStartMonotone ==
  ASSUME NEW d \in Int, NEW e \in Int, d <= e
  PROVE  WeekStart(d) \in Int /\ WeekStart(d) <= WeekStart(e)
<1>1. /\ WeekStart(d) = Week * ((d - 1) \div Week) + 1
      /\ WeekStart(e) = Week * ((e - 1) \div Week) + 1
  BY Lengths, SMT DEF WeekStart, Weekday, Positive
<1>2. /\ (d - 1) \div Week \in Int /\ (e - 1) \div Week \in Int
      /\ (d - 1) \div Week <= (e - 1) \div Week
  BY Lengths, DivBounds, DivMonotone
<1>3. CASE (d - 1) \div Week = (e - 1) \div Week
  BY <1>1, <1>2, <1>3, Lengths DEF Positive
<1>4. CASE (e - 1) \div Week > (d - 1) \div Week
  BY <1>1, <1>2, <1>4, TimesMonotone, Lengths DEF Positive
<1> QED
  BY <1>2, <1>3, <1>4

\* An older day is in the same bucket or an older one.
LEMMA KeyMonotone ==
  ASSUME request.amount \in Positive, request.unit \in Unit,
         NEW d \in Int, NEW e \in Int, d <= e
  PROVE  Key(d) \in Int /\ Key(d) <= Key(e)
<1>1. CASE request.unit = "d"
  BY <1>1, DivBounds, DivMonotone DEF Key
<1>2. CASE request.unit = "w"
  <2>1. request.amount * Week \in Positive
    BY Lengths, SMT DEF Positive
  <2>2. WeekStart(d) \in Int /\ WeekStart(e) \in Int /\ WeekStart(d) <= WeekStart(e)
    BY WeekStartMonotone
  <2> QED
    BY <1>2, <2>1, <2>2, DivBounds, DivMonotone DEF Key
<1>3. CASE request.unit = "mo"
  <2>1. /\ MonthIndex(d) \in Int /\ MonthIndex(e) \in Int
        /\ MonthIndex(d) <= MonthIndex(e)
    BY Lengths, DivBounds, DivMonotone DEF MonthIndex
  <2> QED
    BY <1>3, <2>1, DivBounds, DivMonotone DEF Key
<1> QED
  BY <1>1, <1>2, <1>3 DEF Unit

\* On the native path a day is a bucket.
LEMMA NativeKey ==
  ASSUME Native, NEW d \in Int
  PROVE  Key(d) = d
BY SMT DEF Native, Key

----------------------------------------------------------------------------
(* The inductive invariant. *)

\* The loop goes back in time, and the two paths keep to their variables.
InOrder == \A p \in pending : \A h \in heard : p < h
OnePath == Native => resolved = {} /\ \A s \in Symbol : active[s] = Nothing
Short ==
  ~Native /\ phase = "asking" =>
    \A s \in Symbol : s \notin resolved => Len(bars[s]) < Limit

\* What is still to come is older than every finished candle; what was heard
\* of is no older than the open bucket, and opens one unless it is resolved.
OlderToCome ==
  phase = "asking" =>
    \A s \in Symbol : \A i \in 1 .. Len(bars[s]) : \A p \in pending :
      Key(p) < Key(bars[s][i].time)
OpenIsOldest ==
  \A s \in Symbol :
    /\ active[s] # Nothing =>
         /\ active[s].key = Key(active[s].bar.time)
         /\ \A h \in heard \cap trades[s] : Key(h) >= active[s].key
    /\ ~Native /\ active[s] = Nothing /\ s \notin resolved => heard \cap trades[s] = {}

IInv ==
  /\ TypeOK /\ InOrder /\ OnePath /\ Short /\ OlderToCome /\ OpenIsOldest /\ BucketsExact

\* Every limit is at least one.
LEMMA LimitPositive == ASSUME TypeOK PROVE Limit \in Positive
<1>1. request.wanted \in 1 .. MaxCandles /\ MaxCandles \in Nat \ {0}
  BY WantedAssumption, Lengths DEF TypeOK, Positive
<1> QED
  BY <1>1 DEF Limit, Positive

\* A request's timeframe has a positive amount and one of the units.
LEMMA RequestTyped == ASSUME TypeOK PROVE request.amount \in Positive /\ request.unit \in Unit
BY DEF TypeOK

\* The initial states satisfy the invariant.
LEMMA InvInit == Init => IInv
<1> SUFFICES ASSUME Init PROVE IInv
  OBVIOUS
<1>1. /\ request \in [amount : Positive, unit : Unit, crypto : BOOLEAN, wanted : Wanted]
      /\ trades \in [Symbol -> SUBSET Int]
  <2>1. PICK t \in Timeframe, w \in Wanted :
          request = [amount |-> t.amount, unit |-> t.unit, crypto |-> t.crypto, wanted |-> w]
    BY DEF Init
  <2>2. t \in [amount : Positive, unit : Unit, crypto : BOOLEAN]
    BY TimeframeAssumption
  <2>3. PICK l \in Listing :
          trades = [s \in Symbol |-> {d \in l[s] : /\ AskedAbout(d)
                                                /\ d <= IF request.crypto THEN clock.utc ELSE clock.today}]
    BY DEF Init
  <2>4. l \in [Symbol -> SUBSET Int]
    BY ListingAssumption
  <2> QED
    BY <2>1, <2>2, <2>3, <2>4
<1>2. pending \subseteq Int
  <2>1. Candidates \subseteq Int
    BY DEF Candidates
  <2> QED
    BY <2>1 DEF Init
<1>3. bars \in [Symbol -> Seq(Bar)] /\ \A s \in Symbol : Len(bars[s]) = 0
  BY DEF Init
<1>4. TypeOK
  BY <1>1, <1>2, <1>3 DEF Init, TypeOK
<1>5. InOrder /\ OnePath /\ OlderToCome /\ OpenIsOldest /\ BucketsExact
  BY <1>3 DEF Init, InOrder, OnePath, OlderToCome, OpenIsOldest, BucketsExact
<1>6. Short
  BY <1>3, <1>4, LimitPositive DEF Short, Positive
<1> QED
  BY <1>4, <1>5, <1>6 DEF IInv

\* A date read is newer than those left, and the loop is still going.
LEMMA ReadsEffect ==
  ASSUME TypeOK, InOrder, NEW d \in pending, Reads(d)
  PROVE  /\ phase = "asking" /\ d \in Int
         /\ \A p \in pending' : p \in pending /\ p < d
         /\ \A h \in heard : d < h
         /\ pending' \subseteq Int
         /\ UNCHANGED <<request, clock, trades, phase>>
BY DEF TypeOK, InOrder, Reads

\* Key and Limit are functions of the request.
LEMMA SameKeys ==
  ASSUME request' = request
  PROVE  /\ \A d : Key(d)' = Key(d)
         /\ Limit' = Limit /\ (Native' <=> Native)
BY DEF Key, Limit, Native, WeekStart, Weekday, MonthIndex

\* A date that fails is passed over.
LEMMA FailsStep == ASSUME IInv, DateFails PROVE IInv'
<1>1. PICK d \in pending : Reads(d)
  BY DEF DateFails
<1>2. /\ phase = "asking" /\ \A p \in pending' : p \in pending /\ p < d
      /\ pending' \subseteq Int /\ UNCHANGED <<request, clock, trades, phase>>
  BY <1>1, ReadsEffect DEF IInv
<1>3. UNCHANGED <<heard, bars, active, resolved>>
  BY DEF DateFails
<1>4. /\ \A e : Key(e)' = Key(e)
      /\ Limit' = Limit /\ (Native' <=> Native)
  BY <1>2, SameKeys
<1>5. TypeOK'
  BY <1>2, <1>3, <1>4 DEF IInv, TypeOK
<1>6. InOrder' /\ OnePath' /\ Short'
  BY <1>2, <1>3, <1>4 DEF IInv, InOrder, OnePath, Short
<1>7. OlderToCome'
  BY <1>2, <1>3, <1>4 DEF IInv, OlderToCome
<1>8. OpenIsOldest' /\ BucketsExact'
  BY <1>2, <1>3, <1>4 DEF IInv, OpenIsOldest, BucketsExact, DatesOf, MadeOf
<1> QED
  BY <1>5, <1>6, <1>7, <1>8 DEF IInv

\* What an answer for d adds to the dates of a bucket.
LEMMA DatesAfter ==
  ASSUME NEW d, heard' = heard \cup {d}, trades' = trades, request' = request,
         NEW s \in Symbol, NEW k
  PROVE  /\ d \notin trades[s] \/ Key(d) # k => DatesOf(s, k)' = DatesOf(s, k)
         /\ d \in trades[s] /\ Key(d) = k => DatesOf(s, k)' = DatesOf(s, k) \cup {d}
BY SameKeys DEF DatesOf

\* A single day makes a candle, and an older one extends it.
LEMMA DailyMade ==
  ASSUME NEW d \in Int
  PROVE  Daily(d) \in Bar /\ MadeOf(Daily(d), {d}) /\ Daily(d).time = d
BY DEF Daily, Bar, MadeOf

LEMMA MergeMade ==
  ASSUME NEW bar \in Bar, NEW dates \in SUBSET Int, NEW d \in Int,
         MadeOf(bar, dates), \A e \in dates : d < e
  PROVE  /\ Merge(bar, d) \in Bar /\ Merge(bar, d).time = d
         /\ MadeOf(Merge(bar, d), dates \cup {d})
<1>1. bar \in [time : Int, open : Int, close : Int, merged : SUBSET Int]
  BY DEF Bar
<1>2. /\ Merge(bar, d).time = d /\ Merge(bar, d).open = d
      /\ Merge(bar, d).close = bar.close /\ Merge(bar, d).merged = bar.merged \cup {d}
  BY <1>1 DEF Merge
<1>3. Merge(bar, d) \in [time : Int, open : Int, close : Int, merged : SUBSET Int]
  BY <1>1 DEF Merge
<1>4. /\ bar.merged = dates /\ bar.close \in dates /\ bar.close \in Int
      /\ \A e \in dates : e \in Int /\ e <= bar.close /\ d < e
  BY DEF MadeOf
<1>5. \A e \in dates \cup {d} : d <= e /\ e <= bar.close
  <2>1. d <= d /\ d <= bar.close
    BY <1>4
  <2> QED
    BY <1>4, <2>1
<1>6. MadeOf(Merge(bar, d), dates \cup {d})
  BY <1>2, <1>4, <1>5 DEF MadeOf
<1> QED
  BY <1>2, <1>3, <1>6 DEF Bar

\* A date of the native path: each symbol with a row gets a candle.
LEMMA DailyStep == ASSUME IInv, DateAnswersDaily PROVE IInv'
<1>1. PICK d \in pending :
        /\ Reads(d) /\ heard' = heard \cup {d}
        /\ bars' = [s \in Symbol |-> IF d \in trades[s] THEN Append(bars[s], Daily(d)) ELSE bars[s]]
  BY DEF DateAnswersDaily
<1>2. /\ Native /\ UNCHANGED <<active, resolved>>
      /\ resolved = {} /\ \A s \in Symbol : active[s] = Nothing
  BY DEF DateAnswersDaily, IInv, OnePath
<1>3. /\ phase = "asking" /\ d \in Int
      /\ \A p \in pending' : p \in pending /\ p < d
      /\ \A h \in heard : d < h
      /\ pending' \subseteq Int /\ UNCHANGED <<request, clock, trades, phase>>
  BY <1>1, ReadsEffect DEF IInv
<1>4. /\ \A e : Key(e)' = Key(e)
      /\ Limit' = Limit /\ (Native' <=> Native)
  BY <1>3, SameKeys
<1>5. heard \subseteq Int /\ pending \subseteq Int /\ bars \in [Symbol -> Seq(Bar)]
  BY DEF IInv, TypeOK
<1>6. TypeOK'
  <2>1. bars' \in [Symbol -> Seq(Bar)]
    <3>1. ASSUME NEW s \in Symbol PROVE Append(bars[s], Daily(d)) \in Seq(Bar)
      <4>1. bars[s] \in Seq(Bar) /\ Daily(d) \in Bar
        BY <1>3, <1>5, DailyMade
      <4> QED
        BY <4>1
    <3> QED
      BY <1>1, <1>5, <3>1
  <2> QED
    BY <2>1, <1>1, <1>2, <1>3, <1>4 DEF IInv, TypeOK
<1>7. InOrder'
  BY <1>1, <1>3 DEF IInv, InOrder
<1>8. OnePath' /\ Short' /\ OpenIsOldest'
  BY <1>2, <1>4 DEF OnePath, Short, OpenIsOldest
\* Every candle, old or new, is of a bucket newer than what is to come.
<1>9. ASSUME NEW s \in Symbol, NEW i \in 1 .. Len(bars'[s])
      PROVE  \/ i \in 1 .. Len(bars[s]) /\ bars'[s][i] = bars[s][i]
             \/ d \in trades[s] /\ bars'[s][i] = Daily(d)
  BY <1>1, <1>3, <1>5, DailyMade
<1>10. OlderToCome'
  <2>1. ASSUME NEW s \in Symbol, NEW i \in 1 .. Len(bars'[s]), NEW p \in pending'
        PROVE  Key(p) < Key(bars'[s][i].time)
    <3>1. CASE i \in 1 .. Len(bars[s]) /\ bars'[s][i] = bars[s][i]
      BY <1>3, <3>1 DEF IInv, OlderToCome
    <3>2. CASE bars'[s][i] = Daily(d)
      BY <1>2, <1>3, <1>5, <3>2, DailyMade, NativeKey
    <3> QED
      BY <1>9, <3>1, <3>2
  <2> QED
    BY <2>1, <1>4 DEF OlderToCome
<1>11. BucketsExact'
  <2>1. ASSUME NEW s \in Symbol, NEW i \in 1 .. Len(bars'[s]), NEW k, k = Key(bars'[s][i].time)
        PROVE  MadeOf(bars'[s][i], DatesOf(s, k)')
    <3>1. CASE i \in 1 .. Len(bars[s]) /\ bars'[s][i] = bars[s][i]
      <4>1. Key(d) < k
        BY <1>3, <2>1, <3>1 DEF IInv, OlderToCome
      <4>2. DatesOf(s, k)' = DatesOf(s, k)
        <5>1. Key(d) # k
          BY <1>2, <1>3, <4>1, NativeKey
        <5> QED
          BY <1>1, <1>3, <5>1, DatesAfter
      <4> QED
        BY <2>1, <3>1, <4>2 DEF IInv, BucketsExact
    <3>2. CASE d \in trades[s] /\ bars'[s][i] = Daily(d)
      <4>1. k = d /\ Key(d) = d
        BY <1>2, <1>3, <2>1, <3>2, DailyMade, NativeKey
      <4>2. DatesOf(s, k) = {}
        <5>1. ASSUME NEW h \in heard PROVE Key(h) = h /\ h \in Int /\ d < h
          BY <1>2, <1>3, <1>5, NativeKey
        <5> QED
          BY <1>3, <4>1, <5>1 DEF DatesOf
      <4>3. DatesOf(s, k)' = {d}
        BY <1>1, <1>3, <3>2, <4>1, <4>2, DatesAfter
      <4> QED
        BY <1>3, <3>2, <4>3, DailyMade
    <3> QED
      BY <1>9, <3>1, <3>2
  <2> QED
    BY <2>1, <1>2, <1>4 DEF BucketsExact
<1> QED
  BY <1>6, <1>7, <1>8, <1>10, <1>11 DEF IInv

\* The four things a date of the history path does to a symbol.
Passes(s, d) == /\ d \notin trades[s] \/ s \in resolved
                /\ bars'[s] = bars[s] /\ active'[s] = active[s]
Opens(s, d) == /\ d \in trades[s] /\ s \notin resolved /\ active[s] = Nothing
               /\ bars'[s] = bars[s] /\ active'[s] = Opened(d)
Extends(s, d) == /\ d \in trades[s] /\ s \notin resolved
                 /\ active[s] # Nothing /\ active[s].key = Key(d)
                 /\ bars'[s] = bars[s] /\ active'[s] # Nothing
                 /\ active'[s] \in Bucket /\ active'[s].key = active[s].key
                 /\ active'[s].bar = Merge(active[s].bar, d)
Closes(s, d) == /\ d \in trades[s] /\ s \notin resolved
                /\ active[s] # Nothing /\ active[s].key # Key(d)
                /\ bars'[s] = Append(bars[s], active[s].bar)
                /\ \/ s \in resolved' /\ active'[s] = Nothing /\ Len(bars[s]) + 1 = Limit
                   \/ s \notin resolved' /\ active'[s] = Opened(d) /\ Len(bars[s]) + 1 < Limit

\* What is known of an open bucket when an older date is read.
LEMMA OpenBucket ==
  ASSUME IInv, NEW s \in Symbol, active[s] # Nothing, NEW d \in pending
  PROVE  /\ active[s] \in Bucket /\ active[s].bar \in Bar /\ active[s].key \in Int
         /\ active[s].bar.time \in heard \cap trades[s] /\ active[s].bar.time \in Int
         /\ d < active[s].bar.time
         /\ active[s].key = Key(active[s].bar.time) /\ Key(d) <= active[s].key
<1>1. active[s] \in Bucket /\ active[s].bar \in Bar /\ active[s].key \in Int
  BY DEF IInv, TypeOK, Bucket
<1>2. active[s].bar.time \in heard \cap trades[s]
  BY DEF IInv, BucketsExact, MadeOf, DatesOf
<1>3. active[s].key = Key(active[s].bar.time)
  BY DEF IInv, OpenIsOldest
<1>4. d < active[s].bar.time /\ d \in Int /\ active[s].bar.time \in Int
  BY <1>2 DEF IInv, InOrder, TypeOK
<1>5. Key(d) <= active[s].key
  BY <1>3, <1>4, KeyMonotone, RequestTyped DEF IInv
<1> QED
  BY <1>1, <1>2, <1>3, <1>4, <1>5

\* A bucket opened with one day is a bucket.
LEMMA OpenedBucket ==
  ASSUME IInv, NEW d \in Int
  PROVE  /\ Opened(d) \in Bucket /\ Opened(d) # Nothing
         /\ Opened(d).key = Key(d) /\ Opened(d).bar = Daily(d)
<1>1. Key(d) \in Int
  BY KeyMonotone, RequestTyped DEF IInv
<1>2. Daily(d) \in Bar
  BY DailyMade
<1>3. Opened(d) \in Bucket
  BY <1>1, <1>2 DEF Opened, Bucket
<1> QED
  BY <1>3, NothingAssumption DEF Opened

LEMMA HistoryCases ==
  ASSUME IInv, NEW d \in pending, Reads(d), ~Native, phase = "asking",
         bars' = [s \in Symbol |-> IF Completes(s, d) THEN Append(bars[s], active[s].bar) ELSE bars[s]],
         active' = [s \in Symbol |-> NextBucket(s, d)],
         resolved' = resolved \cup {s \in Symbol : Resolves(s, d)},
         NEW s \in Symbol
  PROVE  \/ Passes(s, d) /\ (s \in resolved' <=> s \in resolved)
         \/ Opens(s, d) /\ s \notin resolved'
         \/ Extends(s, d) /\ s \notin resolved'
         \/ Closes(s, d)
<1>1. CASE ~Counts(s, d)
  BY <1>1 DEF Passes, Counts, Completes, Resolves, NextBucket
<1>2. CASE Counts(s, d) /\ active[s] = Nothing
  BY <1>2 DEF Opens, Counts, Completes, Resolves, NextBucket
<1>3. CASE Counts(s, d) /\ active[s] # Nothing /\ active[s].key = Key(d)
  <2>1. active[s] \in [key : Int, bar : Bar] /\ active[s] \in Bucket
    BY <1>3, OpenBucket DEF Bucket
  <2>2. active'[s] = [active[s] EXCEPT !.bar = Merge(@, d)] /\ bars'[s] = bars[s] /\ s \notin resolved'
    BY <1>3 DEF Counts, Completes, Resolves, NextBucket
  <2>3. Merge(active[s].bar, d) \in Bar
    <3>1. MadeOf(active[s].bar, DatesOf(s, active[s].key)) /\ d \in Int
          /\ DatesOf(s, active[s].key) \in SUBSET Int
          /\ \A e \in DatesOf(s, active[s].key) : d < e
      BY <1>3 DEF IInv, BucketsExact, DatesOf, TypeOK, InOrder
    <3> QED
      BY <3>1, <2>1, MergeMade
  <2>4. /\ active'[s].key = active[s].key /\ active'[s].bar = Merge(active[s].bar, d)
        /\ active'[s] \in [key : Int, bar : Bar]
    BY <2>1, <2>2, <2>3
  <2> QED
    BY <1>3, <2>2, <2>4, NothingAssumption DEF Extends, Counts, Bucket
<1>4. CASE Counts(s, d) /\ active[s] # Nothing /\ active[s].key # Key(d)
  <2>1. Completes(s, d) /\ bars'[s] = Append(bars[s], active[s].bar)
    BY <1>4 DEF Completes
  <2>2. Len(bars[s]) < Limit /\ Len(bars[s]) \in Nat /\ Limit \in Nat
    <3>1. bars[s] \in Seq(Bar) /\ s \notin resolved
      BY <1>4 DEF IInv, TypeOK, Counts
    <3>2. Limit \in Nat
      BY LimitPositive DEF IInv, Positive
    <3> QED
      BY <3>1, <3>2 DEF IInv, Short
  <2>3. CASE Resolves(s, d)
    BY <1>4, <2>1, <2>2, <2>3 DEF Closes, Counts, Resolves, NextBucket
  <2>4. CASE ~Resolves(s, d)
    BY <1>4, <2>1, <2>2, <2>4 DEF Closes, Counts, Resolves, NextBucket
  <2> QED
    BY <2>3, <2>4
<1> QED
  BY <1>1, <1>2, <1>3, <1>4

\* A date of the history path.
LEMMA HistoryStep == ASSUME IInv, DateAnswersHistory PROVE IInv'
<1>1. PICK d \in pending :
        /\ Reads(d) /\ heard' = heard \cup {d}
        /\ bars' = [s \in Symbol |-> IF Completes(s, d) THEN Append(bars[s], active[s].bar) ELSE bars[s]]
        /\ active' = [s \in Symbol |-> NextBucket(s, d)]
        /\ resolved' = resolved \cup {s \in Symbol : Resolves(s, d)}
  BY DEF DateAnswersHistory
<1>2. ~Native
  BY DEF DateAnswersHistory
<1>3. /\ phase = "asking" /\ d \in Int
      /\ \A p \in pending' : p \in pending /\ p < d /\ p \in Int
      /\ \A h \in heard : d < h
      /\ pending' \subseteq Int /\ UNCHANGED <<request, clock, trades, phase>>
  BY <1>1, ReadsEffect DEF IInv
<1>4. /\ \A e : Key(e)' = Key(e)
      /\ Limit' = Limit /\ (Native' <=> Native)
  BY <1>3, SameKeys
<1>5. heard \subseteq Int /\ pending \subseteq Int /\ bars \in [Symbol -> Seq(Bar)]
      /\ Limit \in Nat
  BY LimitPositive DEF IInv, TypeOK, Positive
<1>6. ASSUME NEW s \in Symbol
      PROVE  \/ Passes(s, d) /\ (s \in resolved' <=> s \in resolved)
             \/ Opens(s, d) /\ s \notin resolved'
             \/ Extends(s, d) /\ s \notin resolved'
             \/ Closes(s, d)
  BY <1>1, <1>2, <1>3, HistoryCases
<1>7. \A p \in pending' : Key(p) \in Int /\ Key(p) <= Key(d)
  BY <1>3, KeyMonotone, RequestTyped DEF IInv
<1>8. Opened(d) \in Bucket /\ Opened(d) # Nothing /\ Opened(d).key = Key(d) /\ Opened(d).bar = Daily(d)
  BY <1>3, OpenedBucket
<1>9. TypeOK'
  <2>1. ASSUME NEW s \in Symbol
        PROVE  /\ bars'[s] \in Seq(Bar) /\ active'[s] \in Bucket \cup {Nothing}
               /\ s \in resolved' => active'[s] = Nothing /\ Len(bars'[s]) = Limit
    <3>1. bars[s] \in Seq(Bar) /\ active[s] \in Bucket \cup {Nothing}
          /\ (s \in resolved => active[s] = Nothing /\ Len(bars[s]) = Limit)
      BY DEF IInv, TypeOK
    <3>2. CASE Passes(s, d) /\ (s \in resolved' <=> s \in resolved)
      BY <3>1, <3>2 DEF Passes
    <3>3. CASE Opens(s, d) /\ s \notin resolved'
      BY <1>8, <3>1, <3>3 DEF Opens
    <3>4. CASE Extends(s, d) /\ s \notin resolved'
      BY <3>1, <3>4 DEF Extends
    <3>5. CASE Closes(s, d)
      <4>1. active[s].bar \in Bar
        BY <3>5, OpenBucket DEF Closes
      <4>2. /\ Append(bars[s], active[s].bar) \in Seq(Bar)
            /\ Len(Append(bars[s], active[s].bar)) = Len(bars[s]) + 1
        BY <3>1, <4>1
      <4> QED
        BY <1>8, <3>5, <4>2 DEF Closes
    <3> QED
      BY <1>6, <3>2, <3>3, <3>4, <3>5
  <2>2. /\ bars' \in [Symbol -> Seq(Bar)] /\ active' \in [Symbol -> Bucket \cup {Nothing}]
        /\ resolved' \subseteq Symbol
    <3>1. resolved' \subseteq Symbol
      BY <1>1 DEF IInv, TypeOK
    <3>2. /\ bars' = [s \in Symbol |-> bars'[s]] /\ active' = [s \in Symbol |-> active'[s]]
      BY <1>1
    <3> QED
      BY <2>1, <3>1, <3>2
  <2> QED
    BY <1>1, <1>3, <1>4, <1>5, <2>1, <2>2 DEF IInv, TypeOK
<1>10. InOrder'
  BY <1>1, <1>3 DEF IInv, InOrder
<1>11. OnePath'
  BY <1>2, <1>4 DEF OnePath
<1>12. Short'
  <2>1. ASSUME NEW s \in Symbol, s \notin resolved' PROVE Len(bars'[s]) < Limit
    <3>1. bars[s] \in Seq(Bar) /\ (s \notin resolved => Len(bars[s]) < Limit)
      BY <1>2, <1>3 DEF IInv, TypeOK, Short
    <3>2. CASE Closes(s, d)
      <4>1. active[s].bar \in Bar
        BY <3>2, OpenBucket DEF Closes
      <4>2. Len(Append(bars[s], active[s].bar)) = Len(bars[s]) + 1
        BY <3>1, <4>1
      <4> QED
        BY <2>1, <3>2, <4>2 DEF Closes
    <3> QED
      BY <1>6, <2>1, <3>1, <3>2 DEF Passes, Opens, Extends
  <2> QED
    BY <2>1, <1>4 DEF Short
\* A candle of the series is an old one, or the bucket that d completed.
<1>13. ASSUME NEW s \in Symbol, NEW i \in 1 .. Len(bars'[s])
       PROVE  \/ i \in 1 .. Len(bars[s]) /\ bars'[s][i] = bars[s][i]
              \/ Closes(s, d) /\ bars'[s][i] = active[s].bar
  <2>1. bars[s] \in Seq(Bar)
    BY <1>5
  <2>2. CASE Closes(s, d)
    <3>1. active[s].bar \in Bar
      BY <2>2, OpenBucket DEF Closes
    <3> QED
      BY <2>1, <2>2, <3>1 DEF Closes
  <2> QED
    BY <1>6, <2>1, <2>2 DEF Passes, Opens, Extends
\* Every candle of the series is of a bucket newer than d's.
<1>14. ASSUME NEW s \in Symbol, NEW i \in 1 .. Len(bars'[s])
       PROVE  Key(d) < Key(bars'[s][i].time) /\ Key(bars'[s][i].time) \in Int /\ Key(d) \in Int
  <2>1. Key(d) \in Int
    BY <1>3, KeyMonotone, RequestTyped DEF IInv
  <2>2. CASE i \in 1 .. Len(bars[s]) /\ bars'[s][i] = bars[s][i]
    <3>1. bars[s][i] \in Bar
      BY <1>5, <2>2
    <3>2. bars[s][i].time \in Int
      BY <3>1 DEF Bar
    <3>3. Key(bars[s][i].time) \in Int
      BY <3>2, KeyMonotone, RequestTyped, SMTT(30) DEF IInv
    <3> QED
      BY <1>3, <2>1, <2>2, <3>3 DEF IInv, OlderToCome
  <2>3. CASE Closes(s, d) /\ bars'[s][i] = active[s].bar
    BY <2>1, <2>3, OpenBucket DEF Closes
  <2> QED
    BY <1>13, <2>2, <2>3
<1>15. OlderToCome'
  <2>1. ASSUME NEW s \in Symbol, NEW i \in 1 .. Len(bars'[s]), NEW p \in pending'
        PROVE  Key(p) < Key(bars'[s][i].time)
    BY <1>7, <1>14
  <2> QED
    BY <2>1, <1>4 DEF OlderToCome
<1>16. ASSUME NEW s \in Symbol
       PROVE  /\ active'[s] # Nothing =>
                   /\ active'[s].key = Key(active'[s].bar.time)
                   /\ \A h \in heard' \cap trades[s] : Key(h) >= active'[s].key
              /\ active'[s] = Nothing /\ s \notin resolved' => heard' \cap trades[s] = {}
  <2>1. /\ active[s] # Nothing =>
             /\ active[s].key = Key(active[s].bar.time)
             /\ \A h \in heard \cap trades[s] : Key(h) >= active[s].key
        /\ active[s] = Nothing /\ s \notin resolved => heard \cap trades[s] = {}
    BY <1>2 DEF IInv, OpenIsOldest
  <2>2. \A h \in heard' : Key(h) \in Int /\ Key(h) >= Key(d) /\ Key(d) \in Int
    <3>1. ASSUME NEW h \in heard' PROVE Key(h) \in Int /\ Key(h) >= Key(d) /\ Key(d) \in Int
      <4>1. h \in Int /\ d <= h
        BY <1>1, <1>3, <1>5
      <4> QED
        BY <1>3, <4>1, KeyMonotone, RequestTyped DEF IInv
    <3> QED
      BY <3>1
  <2>3. Daily(d).time = d
    BY <1>3, DailyMade
  <2>4. CASE Passes(s, d) /\ (s \in resolved' <=> s \in resolved)
    <3>1. CASE s \in resolved
      BY <2>4, <3>1 DEF Passes, IInv, TypeOK
    <3>2. CASE s \notin resolved
      BY <1>1, <2>1, <2>4, <3>2 DEF Passes
    <3> QED
      BY <3>1, <3>2
  <2>5. CASE Opens(s, d) /\ s \notin resolved'
    BY <1>8, <2>2, <2>3, <2>5 DEF Opens
  <2>6. CASE Extends(s, d) /\ s \notin resolved'
    <3>1. /\ active[s].bar \in Bar /\ d \in Int
          /\ MadeOf(active[s].bar, DatesOf(s, active[s].key))
          /\ DatesOf(s, active[s].key) \in SUBSET Int
          /\ \A e \in DatesOf(s, active[s].key) : d < e
      BY <1>3, <1>5, <2>6, OpenBucket DEF IInv, BucketsExact, DatesOf, Extends
    <3>2. active'[s].bar.time = d
      <4>1. Merge(active[s].bar, d).time = d
        BY <3>1, MergeMade
      <4> QED
        BY <2>6, <4>1 DEF Extends
    <3> QED
      BY <1>1, <2>1, <2>2, <2>6, <3>2 DEF Extends
  <2>7. CASE Closes(s, d)
    BY <1>8, <2>2, <2>3, <2>7 DEF Closes
  <2> QED
    BY <1>6, <2>4, <2>5, <2>6, <2>7
<1>17. OpenIsOldest'
  BY <1>3, <1>4, <1>16 DEF OpenIsOldest
<1>18. ASSUME NEW s \in Symbol, NEW i \in 1 .. Len(bars'[s]), NEW k, k = Key(bars'[s][i].time)
       PROVE  MadeOf(bars'[s][i], DatesOf(s, k)')
  <2>1. DatesOf(s, k)' = DatesOf(s, k)
    <3>1. Key(d) # k
      BY <1>14, <1>18
    <3> QED
      BY <1>1, <1>3, <3>1, DatesAfter
  <2>2. CASE i \in 1 .. Len(bars[s]) /\ bars'[s][i] = bars[s][i]
    BY <1>18, <2>1, <2>2 DEF IInv, BucketsExact
  <2>3. CASE Closes(s, d) /\ bars'[s][i] = active[s].bar
    BY <1>18, <2>1, <2>3, OpenBucket DEF Closes, IInv, BucketsExact
  <2> QED
    BY <1>13, <2>2, <2>3
<1>19. ASSUME NEW s \in Symbol, active'[s] # Nothing, NEW k, k = active'[s].key
       PROVE  MadeOf(active'[s].bar, DatesOf(s, k)')
  <2>1. CASE Passes(s, d) /\ (s \in resolved' <=> s \in resolved)
    <3>1. d \notin trades[s]
      BY <1>19, <2>1 DEF Passes, IInv, TypeOK
    <3>2. DatesOf(s, k)' = DatesOf(s, k)
      BY <1>1, <1>3, <3>1, DatesAfter
    <3> QED
      BY <1>19, <2>1, <3>2 DEF Passes, IInv, BucketsExact
  <2>2. CASE Opens(s, d) \/ (Closes(s, d) /\ active'[s] = Opened(d))
    <3>1. k = Key(d) /\ d \in trades[s] /\ active'[s].bar = Daily(d)
      BY <1>8, <1>19, <2>2 DEF Opens, Closes
    <3>2. DatesOf(s, k) = {}
      <4>1. CASE Opens(s, d)
        BY <1>2, <4>1 DEF Opens, IInv, OpenIsOldest, DatesOf
      <4>2. CASE Closes(s, d)
        <5>1. /\ active[s] # Nothing /\ Key(d) < active[s].key /\ active[s].key \in Int
              /\ Key(d) \in Int
          BY <1>3, <4>2, OpenBucket, KeyMonotone, RequestTyped DEF Closes, IInv
        <5>2. \A h \in heard \cap trades[s] : Key(h) >= active[s].key
          BY <5>1 DEF IInv, OpenIsOldest
        <5>3. \A h \in heard \cap trades[s] : Key(h) \in Int
          BY <1>5, KeyMonotone, RequestTyped DEF IInv
        <5> QED
          BY <3>1, <5>1, <5>2, <5>3 DEF DatesOf
      <4> QED
        BY <2>2, <4>1, <4>2
    <3>3. DatesOf(s, k)' = {d}
      BY <1>1, <1>3, <3>1, <3>2, DatesAfter
    <3> QED
      BY <1>3, <3>1, <3>3, DailyMade
  <2>3. CASE Extends(s, d)
    <3>1. /\ k = Key(d) /\ k = active[s].key /\ d \in trades[s]
          /\ active'[s].bar = Merge(active[s].bar, d)
      BY <1>19, <2>3 DEF Extends
    <3>2. DatesOf(s, k)' = DatesOf(s, k) \cup {d}
      BY <1>1, <1>3, <3>1, DatesAfter
    <3>3. /\ active[s].bar \in Bar /\ d \in Int
          /\ MadeOf(active[s].bar, DatesOf(s, k)) /\ DatesOf(s, k) \in SUBSET Int
          /\ \A e \in DatesOf(s, k) : d < e
      BY <1>3, <1>5, <2>3, <3>1, OpenBucket DEF IInv, BucketsExact, DatesOf, Extends
    <3> QED
      BY <3>1, <3>2, <3>3, MergeMade
  <2> QED
    BY <1>6, <1>19, <2>1, <2>2, <2>3 DEF Closes
<1>20. BucketsExact'
  BY <1>4, <1>18, <1>19 DEF BucketsExact
<1> QED
  BY <1>9, <1>10, <1>11, <1>12, <1>15, <1>17, <1>20 DEF IInv

\* After the loop an open bucket becomes a candle.
LEMMA FinishStep == ASSUME IInv, Finish PROVE IInv'
<1>1. /\ phase' = "answered" /\ ~(phase' = "asking")
      /\ bars' = [s \in Symbol |-> IF active[s] # Nothing THEN Append(bars[s], active[s].bar) ELSE bars[s]]
      /\ UNCHANGED <<request, clock, trades, pending, heard, active, resolved>>
  BY DEF Finish
<1>2. /\ \A e : Key(e)' = Key(e)
      /\ Limit' = Limit /\ (Native' <=> Native)
  BY <1>1, SameKeys
<1>3. ASSUME NEW s \in Symbol, active[s] # Nothing
      PROVE  active[s].bar \in Bar /\ active[s].key = Key(active[s].bar.time)
  BY <1>3 DEF IInv, TypeOK, Bucket, OpenIsOldest
<1>4. bars \in [Symbol -> Seq(Bar)]
  BY DEF IInv, TypeOK
<1>5. TypeOK'
  <2>1. bars' \in [Symbol -> Seq(Bar)]
    BY <1>1, <1>3, <1>4
  <2>2. \A s \in resolved : bars'[s] = bars[s]
    BY <1>1 DEF IInv, TypeOK
  <2> QED
    BY <1>1, <1>2, <2>1, <2>2 DEF IInv, TypeOK
<1>6. InOrder' /\ OnePath' /\ Short' /\ OlderToCome' /\ OpenIsOldest'
  BY <1>1, <1>2 DEF IInv, InOrder, OnePath, Short, OlderToCome, OpenIsOldest
<1>7. \A s \in Symbol : \A k : DatesOf(s, k)' = DatesOf(s, k)
  BY <1>1, <1>2 DEF DatesOf
<1>8. ASSUME NEW s \in Symbol, NEW i \in 1 .. Len(bars'[s])
      PROVE  MadeOf(bars'[s][i], DatesOf(s, Key(bars'[s][i].time)))
  <2>1. \/ i \in 1 .. Len(bars[s]) /\ bars'[s][i] = bars[s][i]
        \/ active[s] # Nothing /\ bars'[s][i] = active[s].bar
    BY <1>1, <1>3, <1>4
  <2> QED
    BY <1>3, <2>1 DEF IInv, BucketsExact
<1>9. BucketsExact'
  BY <1>1, <1>2, <1>7, <1>8 DEF IInv, BucketsExact
<1> QED
  BY <1>5, <1>6, <1>9 DEF IInv

LEMMA InvStep == ASSUME IInv, [Next]_vars PROVE IInv'
<1>1. CASE UNCHANGED vars
  <2>1. UNCHANGED <<request, clock, pending, heard, bars, active, resolved, trades, phase>>
    BY <1>1 DEF vars
  <2>2. /\ \A e : Key(e)' = Key(e)
        /\ Limit' = Limit /\ (Native' <=> Native)
    BY <2>1, SameKeys
  <2>3. TypeOK' /\ InOrder' /\ OnePath' /\ Short' /\ OlderToCome' /\ OpenIsOldest'
    BY <2>1, <2>2 DEF IInv, TypeOK, InOrder, OnePath, Short, OlderToCome, OpenIsOldest
  <2>4. BucketsExact'
    BY <2>1, <2>2 DEF IInv, BucketsExact, DatesOf, MadeOf
  <2> QED
    BY <2>3, <2>4 DEF IInv
<1> QED
  BY <1>1, FailsStep, DailyStep, HistoryStep, FinishStep DEF Next

----------------------------------------------------------------------------
\* The series is well typed, and a symbol that is done has exactly as many
\* candles as were asked for and no bucket open, for every limit and chunk
\* size (_request_polygon_grouped_history_series).
THEOREM TypeCorrect == Spec => []TypeOK
<1>1. IInv => TypeOK
  BY DEF IInv
<1> QED
  BY <1>1, InvInit, InvStep, PTL DEF Spec

\* Every candle is made of exactly the days of its bucket that were heard of,
\* whatever dates fail and wherever a chunk ends, for every calendar and
\* timeframe (_merge_grouped_history_bucket, _grouped_history_bucket_key).
THEOREM BucketsExactHolds == Spec => []BucketsExact
<1>1. IInv => BucketsExact
  BY DEF IInv
<1> QED
  BY <1>1, InvInit, InvStep, PTL DEF Spec

----------------------------------------------------------------------------
(* The calendar. *)

\* A remainder is what is left of a multiple.
LEMMA ModUnique ==
  ASSUME NEW n \in Positive, NEW q \in Int, NEW r \in 0 .. n - 1, NEW x \in Int, x = n * q + r
  PROVE  x % n = r
<1>1. /\ x \div n \in Int /\ n * (x \div n) <= x /\ x < n * (x \div n) + n
      /\ x = n * (x \div n) + (x % n)
  BY DivBounds, SMT DEF Positive
<1>2. n \in Int /\ n * q \in Int /\ n * (x \div n) \in Int
  BY <1>1 DEF Positive
<1>3. ~(x \div n > q)
  <2> SUFFICES ASSUME x \div n > q PROVE FALSE
    OBVIOUS
  <2>1. n * (x \div n) >= n * q + n
    BY <1>1, TimesMonotone
  <2> HIDE DEF Positive
  <2> QED
    BY <1>1, <1>2, <2>1
<1>4. ~(q > x \div n)
  <2> SUFFICES ASSUME q > x \div n PROVE FALSE
    OBVIOUS
  <2>1. n * q >= n * (x \div n) + n
    BY <1>1, TimesMonotone
  <2> QED
    BY <1>1, <1>2, <2>1
<1>5. x \div n = q
  BY <1>1, <1>3, <1>4
<1> QED
  BY <1>1, <1>2, <1>5

\* Within a week the weekday goes back with the date.
LEMMA WeekdayShift ==
  ASSUME NEW d \in Int, NEW k \in Nat, k <= Weekday(d)
  PROVE  Weekday(d - k) = Weekday(d) - k /\ Weekday(d) \in 0 .. Week - 1
<1> DEFINE q == (d - 1) \div Week
           r == (d - 1) % Week
<1>1. Week \in Positive
  BY Lengths
<1>2. q \in Int /\ r \in 0 .. Week - 1 /\ d - 1 = Week * q + r
  BY <1>1, SMT DEF Positive
<1>3. Week * q \in Int /\ Week \in Int
  BY <1>1, <1>2 DEF Positive
<1> HIDE DEF q, r
<1>4. r = Weekday(d) /\ k <= r
  BY DEF r, Weekday
<1>5. d - k - 1 \in Int /\ r - k \in 0 .. Week - 1 /\ d - k - 1 = Week * q + (r - k)
  <2>1. r \in Int /\ k \in Int /\ r - k \in 0 .. Week - 1
    BY <1>2, <1>3, <1>4
  <2> DEFINE p == Week * q
  <2>2. p \in Int /\ d - 1 = p + r
    BY <1>2, <1>3
  <2> HIDE DEF p
  <2>3. d - k - 1 \in Int /\ d - k - 1 = p + (r - k)
    BY <2>1, <2>2
  <2> QED
    BY <2>1, <2>3 DEF p
<1>6. (d - k - 1) % Week = r - k
  BY <1>1, <1>2, <1>5, ModUnique
<1> QED
  BY <1>2, <1>4, <1>6 DEF Weekday

\* A week has a day that is no weekend, so the last one before a date exists.
LEMMA PreviousWeekdayBounds ==
  ASSUME NEW d \in Int
  PROVE  PreviousWeekday(d) \in Int /\ PreviousWeekday(d) <= d
<1> DEFINE w == Weekday(d)
           back == IF Weekend(d) THEN w - (Week - Rest) + 1 ELSE 0
<1>1. Week \in Nat /\ Rest \in Nat /\ Rest < Week
  BY NumberAssumption DEF Positive
<1>2. w \in 0 .. Week - 1 /\ Weekday(d - 0) = w
  BY WeekdayShift, Lengths, SMT DEF Weekday, Positive
<1>3. /\ back \in 0 .. Week /\ (Weekend(d) => back <= w + 1 /\ back >= 1)
      /\ Weekend(d) => w - back = Week - Rest - 1
  BY <1>1, <1>2 DEF Weekend
<1>4. ~Weekend(d - back)
  <2>1. CASE Weekend(d)
    <3>1. back <= w /\ back \in Nat
      BY <1>1, <1>2, <1>3, <2>1
    <3>2. Weekday(d - back) = w - back
      BY <3>1, WeekdayShift
    <3> QED
      BY <1>1, <1>3, <2>1, <3>2 DEF Weekend
  <2>2. CASE ~Weekend(d)
    BY <1>2, <2>2 DEF Weekend
  <2> QED
    BY <2>1, <2>2
<1>5. ASSUME NEW f \in d - back + 1 .. d
      PROVE  Weekend(f)
  <2>1. Weekend(d) /\ d - f \in Nat /\ d - f <= back - 1 /\ f = d - (d - f)
    BY <1>3, <1>5
  <2>2. w - (d - f) >= Week - Rest /\ d - f <= w
    BY <1>1, <1>2, <1>3, <2>1
  <2>3. Weekday(d - (d - f)) = w - (d - f)
    BY <2>1, <2>2, WeekdayShift
  <2> QED
    BY <2>1, <2>2, <2>3 DEF Weekend
<1> HIDE DEF back, w
<1>6. \E e \in d - Week .. d : ~Weekend(e) /\ \A f \in e + 1 .. d : Weekend(f)
  <2>1. d - back \in d - Week .. d
    BY <1>1, <1>3
  <2> QED
    BY <1>4, <1>5, <2>1
<1>7. PreviousWeekday(d) \in d - Week .. d
  BY <1>6 DEF PreviousWeekday
<1> QED
  BY <1>1, <1>7

\* The session of the newest day a stock's daily candles are asked for is over.
LEMMA LatestSettled ==
  ASSUME TypeOK
  PROVE  /\ LatestCompleted \in Int
         /\ LatestCompleted < clock.today \/ (LatestCompleted <= clock.today /\ clock.closed)
<1>1. clock.today \in Int /\ clock.today - 1 \in Int /\ clock.closed \in BOOLEAN
  BY ClockAssumption DEF TypeOK
<1>2. PreviousWeekday(clock.today - 1) \in Int /\ PreviousWeekday(clock.today - 1) <= clock.today - 1
  BY <1>1, PreviousWeekdayBounds
<1> QED
  BY <1>1, <1>2 DEF LatestCompleted

\* No date is asked for that is newer than the newest.
LEMMA CandidatesBounded ==
  ASSUME TypeOK, NEW d \in Candidates
  PROVE  d <= Reference
<1>1. Reference \in Int
  <2>1. LatestCompleted \in Int /\ clock.utc \in Int
    BY ClockAssumption, LatestSettled DEF TypeOK
  <2> QED
    BY <2>1 DEF Reference
<1>2. d \in Reference - Week * DateCount .. Reference
  BY DEF Candidates
<1> QED
  BY <1>1, <1>2

----------------------------------------------------------------------------
(* The order of the series, and what it keeps of the days heard of. *)

KeyOf(s, i) == Key(bars[s][i].time)

\* Candles are appended newest first, and the open bucket is older than them all.
Descends == \A s \in Symbol : \A i, j \in 1 .. Len(bars[s]) : i < j => KeyOf(s, j) < KeyOf(s, i)
OpenIsOlder ==
  phase = "asking" =>
    \A s \in Symbol : active[s] # Nothing =>
      \A i \in 1 .. Len(bars[s]) : active[s].key < KeyOf(s, i)

\* A day heard of is in a candle or in the open bucket, unless its symbol was done
\* before: then it is older than every candle.
Kept ==
  \A s \in Symbol : \A h \in heard \cap trades[s] :
    \/ \E i \in 1 .. Len(bars[s]) : KeyOf(s, i) = Key(h)
    \/ phase = "asking" /\ active[s] # Nothing /\ active[s].key = Key(h)
    \/ s \in resolved /\ \A i \in 1 .. Len(bars[s]) : Key(h) < KeyOf(s, i)

\* Nothing is traded on a day to come, and the native path of a stock asks only
\* for days whose session is over.
Past ==
  \A s \in Symbol : \A d \in trades[s] : d <= IF request.crypto THEN clock.utc ELSE clock.today
Waited == Native /\ ~request.crypto => \A d \in pending \cup heard : d <= LatestCompleted

Order == Descends /\ OpenIsOlder /\ Kept /\ Past /\ Waited

\* Every candle is dated, and made of days heard of.
LEMMA BarTyped ==
  ASSUME IInv, NEW s \in Symbol, NEW i \in 1 .. Len(bars[s])
  PROVE  /\ bars[s][i] \in Bar /\ bars[s][i].time \in Int /\ KeyOf(s, i) \in Int
         /\ bars[s][i].time \in heard \cap trades[s]
         /\ MadeOf(bars[s][i], DatesOf(s, KeyOf(s, i)))
<1>1. bars[s] \in Seq(Bar)
  BY DEF IInv, TypeOK
<1>2. bars[s][i] \in Bar /\ bars[s][i].time \in Int
  <2>1. bars[s][i] \in Bar
    BY <1>1
  <2> QED
    BY <2>1 DEF Bar
<1>3. MadeOf(bars[s][i], DatesOf(s, KeyOf(s, i)))
  BY DEF IInv, BucketsExact, KeyOf
<1>4. bars[s][i].time \in heard \cap trades[s]
  BY <1>3 DEF MadeOf, DatesOf
<1>5. KeyOf(s, i) \in Int
  <2>1. request.amount \in Positive /\ request.unit \in Unit
    BY RequestTyped DEF IInv
  <2> DEFINE t == bars[s][i].time
  <2>2. t \in Int /\ t <= t
    BY <1>2
  <2> HIDE DEF t
  <2>3. Key(t) \in Int
    BY <2>1, <2>2, KeyMonotone
  <2> QED
    BY <2>3 DEF KeyOf, t
<1> QED
  BY <1>2, <1>3, <1>4, <1>5

LEMMA OrderInit == Init => Order
<1> SUFFICES ASSUME Init PROVE Order
  OBVIOUS
<1>1. \A s \in Symbol : Len(bars[s]) = 0 /\ active[s] = Nothing
  BY DEF Init
<1>2. Descends /\ OpenIsOlder /\ Kept
  BY <1>1 DEF Init, Descends, OpenIsOlder, Kept
<1>3. Past
  <2>1. PICK l \in Listing :
          trades = [s \in Symbol |-> {d \in l[s] : /\ AskedAbout(d)
                                                /\ d <= IF request.crypto THEN clock.utc ELSE clock.today}]
    BY DEF Init
  <2> QED
    BY <2>1 DEF Past
<1>4. Waited
  <2>1. Native /\ ~request.crypto => Reference = LatestCompleted
    BY DEF Reference
  <2>2. \A d \in Candidates : d <= Reference
    BY InvInit, CandidatesBounded DEF IInv
  <2> QED
    BY <2>1, <2>2 DEF Init, Waited
<1> QED
  BY <1>2, <1>3, <1>4 DEF Order

\* The newest day of a stock depends on the clock alone.
LEMMA SameDates == ASSUME clock' = clock PROVE LatestCompleted' = LatestCompleted
BY DEF LatestCompleted, PreviousWeekday, Weekend, Weekday

\* Nothing traded or asked for is dated anew.
LEMMA DatesKept ==
  ASSUME Past, Waited, UNCHANGED <<request, clock, trades>>,
         pending' \cup heard' \subseteq pending \cup heard
  PROVE  Past' /\ Waited'
BY SameKeys, SameDates DEF Past, Waited

\* A failed date, or none, leaves the order as it is.
LEMMA OrderKept ==
  ASSUME Order, UNCHANGED <<request, clock, heard, bars, active, resolved, trades, phase>>,
         pending' \subseteq pending
  PROVE  Order'
<1>1. \A e : Key(e)' = Key(e)
  BY SameKeys
<1>2. Past' /\ Waited'
  BY DatesKept DEF Order
<1>3. Descends' /\ OpenIsOlder' /\ Kept'
  BY <1>1 DEF Order, Descends, OpenIsOlder, Kept, KeyOf
<1> QED
  BY <1>2, <1>3 DEF Order

\* A series that descends still does with an older candle after it.
LEMMA Appended ==
  ASSUME NEW seq \in Seq(Bar), NEW bar \in Bar,
         \A i, j \in 1 .. Len(seq) : i < j => Key(seq[j].time) < Key(seq[i].time),
         \A i \in 1 .. Len(seq) : Key(bar.time) < Key(seq[i].time),
         NEW new, new = Append(seq, bar)
  PROVE  /\ \A i, j \in 1 .. Len(new) : i < j => Key(new[j].time) < Key(new[i].time)
         /\ \A i \in 1 .. Len(seq) : i \in 1 .. Len(new) /\ new[i] = seq[i]
         /\ Len(seq) + 1 \in 1 .. Len(new) /\ new[Len(seq) + 1] = bar
         /\ \A i \in 1 .. Len(new) : i \in 1 .. Len(seq) \/ i = Len(seq) + 1
<1>1. /\ Len(seq) \in Nat /\ Len(new) = Len(seq) + 1
      /\ \A i \in 1 .. Len(seq) : i \in 1 .. Len(new) /\ new[i] = seq[i]
      /\ Len(seq) + 1 \in 1 .. Len(new) /\ new[Len(seq) + 1] = bar
      /\ \A i \in 1 .. Len(new) : i \in 1 .. Len(seq) \/ i = Len(seq) + 1
  OBVIOUS
<1>2. ASSUME NEW i \in 1 .. Len(new), NEW j \in 1 .. Len(new), i < j
      PROVE  Key(new[j].time) < Key(new[i].time)
  <2>1. i \in 1 .. Len(seq) /\ new[i] = seq[i]
    BY <1>1, <1>2
  <2>2. CASE j \in 1 .. Len(seq)
    BY <1>1, <1>2, <2>1, <2>2
  <2>3. CASE j = Len(seq) + 1
    BY <1>1, <2>1, <2>3
  <2> QED
    BY <1>1, <2>2, <2>3
<1> QED
  BY <1>1, <1>2

\* A date of the native path goes to the end of every series that has it.
LEMMA DailyOrder == ASSUME IInv, Order, DateAnswersDaily PROVE Order'
<1>1. PICK d \in pending :
        /\ Reads(d) /\ heard' = heard \cup {d}
        /\ bars' = [s \in Symbol |-> IF d \in trades[s] THEN Append(bars[s], Daily(d)) ELSE bars[s]]
  BY DEF DateAnswersDaily
<1>2. /\ Native /\ UNCHANGED <<active, resolved>>
      /\ resolved = {} /\ \A s \in Symbol : active[s] = Nothing
  BY DEF DateAnswersDaily, IInv, OnePath
<1>3. /\ phase = "asking" /\ d \in Int
      /\ \A p \in pending' : p \in pending
      /\ UNCHANGED <<request, clock, trades, phase>>
  BY <1>1, ReadsEffect DEF IInv
<1>4. \A e : Key(e)' = Key(e)
  BY <1>3, SameKeys
<1>5. Past' /\ Waited'
  BY <1>1, <1>3, DatesKept DEF Order
<1>6. ASSUME NEW s \in Symbol, d \in trades[s]
      PROVE  /\ \A i, j \in 1 .. Len(bars'[s]) : i < j => Key(bars'[s][j].time) < Key(bars'[s][i].time)
             /\ \A i \in 1 .. Len(bars[s]) : i \in 1 .. Len(bars'[s]) /\ bars'[s][i] = bars[s][i]
             /\ Len(bars[s]) + 1 \in 1 .. Len(bars'[s]) /\ bars'[s][Len(bars[s]) + 1].time = d
  <2>1. bars[s] \in Seq(Bar) /\ bars'[s] = Append(bars[s], Daily(d))
    BY <1>1, <1>6 DEF IInv, TypeOK
  <2>2. Daily(d) \in Bar /\ Daily(d).time = d
    BY <1>3, DailyMade
  <2>3. \A i \in 1 .. Len(bars[s]) : Key(d) < Key(bars[s][i].time)
    BY <1>3 DEF IInv, OlderToCome
  <2>4. \A i, j \in 1 .. Len(bars[s]) : i < j => Key(bars[s][j].time) < Key(bars[s][i].time)
    BY DEF Order, Descends, KeyOf
  <2> QED
    BY <2>1, <2>2, <2>3, <2>4, Appended
<1>7. ASSUME NEW s \in Symbol, d \notin trades[s]
      PROVE  bars'[s] = bars[s]
  BY <1>1, <1>7
<1>8. Descends'
  <2>1. ASSUME NEW s \in Symbol, NEW i \in 1 .. Len(bars'[s]), NEW j \in 1 .. Len(bars'[s]), i < j
        PROVE  Key(bars'[s][j].time) < Key(bars'[s][i].time)
    BY <1>6, <1>7, <2>1 DEF Order, Descends, KeyOf
  <2> QED
    BY <1>4, <2>1 DEF Descends, KeyOf
<1>9. OpenIsOlder'
  BY <1>2 DEF OpenIsOlder
<1>10. Kept'
  <2>1. ASSUME NEW s \in Symbol, NEW h \in heard' \cap trades[s]
        PROVE  \E i \in 1 .. Len(bars'[s]) : Key(bars'[s][i].time) = Key(h)
    <3>1. CASE h = d
      BY <1>6, <2>1, <3>1
    <3>2. CASE h \in heard
      <4>1. PICK i \in 1 .. Len(bars[s]) : Key(bars[s][i].time) = Key(h)
        BY <1>2, <2>1, <3>2 DEF Order, Kept, KeyOf
      <4> QED
        BY <1>6, <1>7, <4>1
    <3> QED
      BY <1>1, <2>1, <3>1, <3>2
  <2> QED
    BY <1>3, <1>4, <2>1 DEF Kept, KeyOf
<1> QED
  BY <1>5, <1>8, <1>9, <1>10 DEF Order

\* A date of the history path: a bucket that closes is older than every candle.
LEMMA HistoryOrder == ASSUME IInv, Order, DateAnswersHistory PROVE Order'
<1>1. PICK d \in pending :
        /\ Reads(d) /\ heard' = heard \cup {d}
        /\ bars' = [s \in Symbol |-> IF Completes(s, d) THEN Append(bars[s], active[s].bar) ELSE bars[s]]
        /\ active' = [s \in Symbol |-> NextBucket(s, d)]
        /\ resolved' = resolved \cup {s \in Symbol : Resolves(s, d)}
  BY DEF DateAnswersHistory
<1>2. ~Native
  BY DEF DateAnswersHistory
<1>3. /\ phase = "asking" /\ d \in Int
      /\ \A p \in pending' : p \in pending
      /\ UNCHANGED <<request, clock, trades, phase>>
  BY <1>1, ReadsEffect DEF IInv
<1>4. \A e : Key(e)' = Key(e)
  BY <1>3, SameKeys
<1>5. Past' /\ Waited'
  BY <1>1, <1>3, DatesKept DEF Order
<1>6. ASSUME NEW s \in Symbol
      PROVE  \/ Passes(s, d) /\ (s \in resolved' <=> s \in resolved)
             \/ Opens(s, d) /\ s \notin resolved'
             \/ Extends(s, d) /\ s \notin resolved'
             \/ Closes(s, d)
  BY <1>1, <1>2, <1>3, HistoryCases
<1>7. Opened(d).key = Key(d)
  BY <1>3, OpenedBucket
<1>8. ASSUME NEW s \in Symbol, NEW i \in 1 .. Len(bars[s])
      PROVE  Key(d) < Key(bars[s][i].time)
  BY <1>3 DEF IInv, OlderToCome
<1>9. ASSUME NEW s \in Symbol, Closes(s, d)
      PROVE  /\ \A i, j \in 1 .. Len(bars'[s]) : i < j => Key(bars'[s][j].time) < Key(bars'[s][i].time)
             /\ \A i \in 1 .. Len(bars[s]) : i \in 1 .. Len(bars'[s]) /\ bars'[s][i] = bars[s][i]
             /\ Len(bars[s]) + 1 \in 1 .. Len(bars'[s])
             /\ Key(bars'[s][Len(bars[s]) + 1].time) = active[s].key
             /\ \A i \in 1 .. Len(bars'[s]) : Key(d) < Key(bars'[s][i].time)
  <2>1. /\ active[s] # Nothing /\ active[s].key # Key(d)
        /\ bars'[s] = Append(bars[s], active[s].bar)
    BY <1>9 DEF Closes
  <2>2. bars[s] \in Seq(Bar) /\ active[s].bar \in Bar
    BY <2>1, OpenBucket DEF IInv, TypeOK
  <2>3. \A i \in 1 .. Len(bars[s]) : Key(active[s].bar.time) < Key(bars[s][i].time)
    BY <1>3, <2>1, OpenBucket DEF Order, OpenIsOlder, KeyOf
  <2>4. \A i, j \in 1 .. Len(bars[s]) : i < j => Key(bars[s][j].time) < Key(bars[s][i].time)
    BY DEF Order, Descends, KeyOf
  <2>5. /\ \A i, j \in 1 .. Len(bars'[s]) : i < j => Key(bars'[s][j].time) < Key(bars'[s][i].time)
        /\ \A i \in 1 .. Len(bars[s]) : i \in 1 .. Len(bars'[s]) /\ bars'[s][i] = bars[s][i]
        /\ Len(bars[s]) + 1 \in 1 .. Len(bars'[s]) /\ bars'[s][Len(bars[s]) + 1] = active[s].bar
        /\ \A i \in 1 .. Len(bars'[s]) : i \in 1 .. Len(bars[s]) \/ i = Len(bars[s]) + 1
    BY <2>1, <2>2, <2>3, <2>4, Appended, SMTT(30)
  <2>6. /\ active[s].key = Key(active[s].bar.time) /\ Key(d) < active[s].key
    <3>1. Key(d) \in Int
      BY <1>3, KeyMonotone, RequestTyped DEF IInv
    <3> QED
      BY <2>1, <3>1, OpenBucket
  <2> QED
    BY <1>8, <2>5, <2>6
<1>10. ASSUME NEW s \in Symbol, ~Closes(s, d)
       PROVE  bars'[s] = bars[s]
  BY <1>6, <1>10 DEF Passes, Opens, Extends
<1>11. Descends'
  <2>1. ASSUME NEW s \in Symbol, NEW i \in 1 .. Len(bars'[s]), NEW j \in 1 .. Len(bars'[s]), i < j
        PROVE  Key(bars'[s][j].time) < Key(bars'[s][i].time)
    BY <1>9, <1>10, <2>1 DEF Order, Descends, KeyOf
  <2> QED
    BY <1>4, <2>1 DEF Descends, KeyOf
<1>12. OpenIsOlder'
  <2>1. ASSUME NEW s \in Symbol, active'[s] # Nothing, NEW i \in 1 .. Len(bars'[s])
        PROVE  active'[s].key < Key(bars'[s][i].time)
    <3>1. CASE Closes(s, d)
      BY <1>7, <1>9, <2>1, <3>1 DEF Closes
    <3>2. CASE Opens(s, d)
      BY <1>7, <1>8, <2>1, <3>2 DEF Opens
    <3>3. CASE Passes(s, d) \/ Extends(s, d)
      BY <1>3, <2>1, <3>3 DEF Passes, Extends, Order, OpenIsOlder, KeyOf
    <3> QED
      BY <1>6, <3>1, <3>2, <3>3
  <2> QED
    BY <1>4, <2>1 DEF OpenIsOlder, KeyOf
<1>13. Kept'
  <2>1. ASSUME NEW s \in Symbol, NEW h \in heard' \cap trades[s]
        PROVE  \/ \E i \in 1 .. Len(bars'[s]) : Key(bars'[s][i].time) = Key(h)
               \/ active'[s] # Nothing /\ active'[s].key = Key(h)
               \/ s \in resolved' /\ \A i \in 1 .. Len(bars'[s]) : Key(h) < Key(bars'[s][i].time)
    <3>1. h = d \/ (h \in heard \cap trades[s] /\
             \/ \E i \in 1 .. Len(bars[s]) : Key(bars[s][i].time) = Key(h)
             \/ active[s] # Nothing /\ active[s].key = Key(h)
             \/ s \in resolved /\ \A i \in 1 .. Len(bars[s]) : Key(h) < Key(bars[s][i].time))
      BY <1>1, <2>1 DEF Order, Kept, KeyOf
    <3>2. CASE Closes(s, d)
      <4>1. CASE h = d
        BY <1>7, <1>9, <3>2, <4>1, OpenedBucket, <1>3 DEF Closes
      <4>2. CASE h # d
        BY <1>9, <3>1, <3>2, <4>2 DEF Closes
      <4> QED
        BY <4>1, <4>2
    <3>3. CASE Opens(s, d)
      <4>1. h = d
        BY <1>2, <3>1, <3>3 DEF Opens, IInv, OpenIsOldest
      <4> QED
        BY <1>3, <3>3, <4>1, OpenedBucket DEF Opens
    <3>4. CASE Extends(s, d)
      BY <3>1, <3>4 DEF Extends
    <3>5. CASE Passes(s, d) /\ (s \in resolved' <=> s \in resolved)
      <4>1. CASE h = d
        BY <1>8, <2>1, <3>5, <4>1 DEF Passes
      <4>2. CASE h # d
        BY <3>1, <3>5, <4>2 DEF Passes
      <4> QED
        BY <4>1, <4>2
    <3> QED
      BY <1>6, <3>2, <3>3, <3>4, <3>5
  <2> QED
    BY <1>3, <1>4, <2>1 DEF Kept, KeyOf
<1> QED
  BY <1>5, <1>11, <1>12, <1>13 DEF Order

\* The bucket that is still open is older than every candle.
LEMMA FinishOrder == ASSUME IInv, Order, Finish PROVE Order'
<1>1. /\ phase = "asking" /\ phase' = "answered"
      /\ bars' = [s \in Symbol |-> IF active[s] # Nothing THEN Append(bars[s], active[s].bar) ELSE bars[s]]
      /\ UNCHANGED <<request, clock, trades, pending, heard, active, resolved>>
  BY DEF Finish
<1>2. \A e : Key(e)' = Key(e)
  BY <1>1, SameKeys
<1>3. Past' /\ Waited'
  BY <1>1, DatesKept DEF Order
<1>4. ASSUME NEW s \in Symbol, active[s] # Nothing
      PROVE  /\ \A i, j \in 1 .. Len(bars'[s]) : i < j => Key(bars'[s][j].time) < Key(bars'[s][i].time)
             /\ \A i \in 1 .. Len(bars[s]) : i \in 1 .. Len(bars'[s]) /\ bars'[s][i] = bars[s][i]
             /\ Len(bars[s]) + 1 \in 1 .. Len(bars'[s])
             /\ Key(bars'[s][Len(bars[s]) + 1].time) = active[s].key
  <2>1. bars[s] \in Seq(Bar) /\ bars'[s] = Append(bars[s], active[s].bar)
    BY <1>1, <1>4 DEF IInv, TypeOK
  <2>2. active[s].bar \in Bar /\ active[s].key = Key(active[s].bar.time)
    BY <1>4 DEF IInv, TypeOK, Bucket, OpenIsOldest
  <2>3. \A i \in 1 .. Len(bars[s]) : Key(active[s].bar.time) < Key(bars[s][i].time)
    BY <1>1, <1>4, <2>2 DEF Order, OpenIsOlder, KeyOf
  <2>4. \A i, j \in 1 .. Len(bars[s]) : i < j => Key(bars[s][j].time) < Key(bars[s][i].time)
    BY DEF Order, Descends, KeyOf
  <2> QED
    BY <2>1, <2>2, <2>3, <2>4, Appended
<1>5. ASSUME NEW s \in Symbol, active[s] = Nothing
      PROVE  bars'[s] = bars[s]
  BY <1>1, <1>5
<1>6. Descends'
  <2>1. ASSUME NEW s \in Symbol, NEW i \in 1 .. Len(bars'[s]), NEW j \in 1 .. Len(bars'[s]), i < j
        PROVE  Key(bars'[s][j].time) < Key(bars'[s][i].time)
    BY <1>4, <1>5, <2>1 DEF Order, Descends, KeyOf
  <2> QED
    BY <1>2, <2>1 DEF Descends, KeyOf
<1>7. OpenIsOlder'
  BY <1>1 DEF OpenIsOlder
<1>8. Kept'
  <2>1. ASSUME NEW s \in Symbol, NEW h \in heard \cap trades[s]
        PROVE  \/ \E i \in 1 .. Len(bars'[s]) : Key(bars'[s][i].time) = Key(h)
               \/ s \in resolved /\ \A i \in 1 .. Len(bars'[s]) : Key(h) < Key(bars'[s][i].time)
    <3>1. \/ \E i \in 1 .. Len(bars[s]) : Key(bars[s][i].time) = Key(h)
          \/ active[s] # Nothing /\ active[s].key = Key(h)
          \/ s \in resolved /\ \A i \in 1 .. Len(bars[s]) : Key(h) < Key(bars[s][i].time)
      BY <2>1 DEF Order, Kept, KeyOf
    <3>2. s \in resolved => active[s] = Nothing
      BY DEF IInv, TypeOK
    <3> QED
      BY <1>4, <1>5, <3>1, <3>2
  <2> QED
    BY <1>1, <1>2, <2>1 DEF Kept, KeyOf
<1> QED
  BY <1>3, <1>6, <1>7, <1>8 DEF Order

LEMMA OrderStep == ASSUME IInv, Order, [Next]_vars PROVE Order'
<1>1. CASE UNCHANGED vars
  BY <1>1, OrderKept DEF vars
<1>2. CASE DateFails
  <2>1. PICK d \in pending : Reads(d)
    BY <1>2 DEF DateFails
  <2> QED
    BY <1>2, <2>1, OrderKept DEF DateFails, Reads
<1> QED
  BY <1>1, <1>2, DailyOrder, HistoryOrder, FinishOrder DEF Next

----------------------------------------------------------------------------
(* The payload. *)

\* Sorting a series that goes back in time turns it round.
LEMMA ByTimeReverses ==
  ASSUME NEW seq \in Seq(Bar), NEW n, n = Len(seq),
         \A i, j \in 1 .. n : i < j => seq[j].time < seq[i].time
  PROVE  ByTime(seq) = [i \in 1 .. n |-> seq[n + 1 - i]]
<1> DEFINE Before(j) == {i \in DOMAIN seq : \/ seq[i].time < seq[j].time
                                            \/ seq[i].time = seq[j].time /\ i < j}
           Place(i) == CHOOSE j \in DOMAIN seq : Cardinality(Before(j)) = i - 1
<1>1. n \in Nat /\ DOMAIN seq = 1 .. n
  OBVIOUS
<1>2. ASSUME NEW i \in 1 .. n PROVE seq[i].time \in Int
  <2>1. seq[i] \in Bar
    OBVIOUS
  <2> QED
    BY <2>1 DEF Bar
<1>3. ASSUME NEW j \in 1 .. n PROVE Before(j) = j + 1 .. n
  <2>1. ASSUME NEW i \in 1 .. n
        PROVE  (seq[i].time < seq[j].time \/ (seq[i].time = seq[j].time /\ i < j)) <=> j < i
    <3>1. seq[i].time \in Int /\ seq[j].time \in Int /\ i \in Int /\ j \in Int
      BY <1>2
    <3>2. i < j => seq[j].time < seq[i].time
      OBVIOUS
    <3>3. j < i => seq[i].time < seq[j].time
      OBVIOUS
    <3> QED
      BY <3>1, <3>2, <3>3
  <2>2. Before(j) = {i \in 1 .. n : j < i}
    BY <1>1, <2>1
  <2> QED
    BY <1>1, <2>2
<1>4. ASSUME NEW j \in 1 .. n PROVE Cardinality(Before(j)) = n - j
  <2>1. Cardinality(j + 1 .. n) = IF j + 1 > n THEN 0 ELSE n - (j + 1) + 1
    <3>1. j + 1 \in Int /\ n \in Int
      BY <1>1
    <3> QED
      BY <3>1, FS_Interval
  <2>2. Cardinality(j + 1 .. n) = n - j
    BY <1>1, <2>1
  <2> QED
    BY <1>3, <2>2
<1> HIDE DEF Before
<1>5. ASSUME NEW i \in 1 .. n PROVE Place(i) = n + 1 - i
  <2>1. n + 1 - i \in 1 .. n /\ Cardinality(Before(n + 1 - i)) = i - 1
    BY <1>1, <1>4
  <2>2. \A j \in 1 .. n : Cardinality(Before(j)) = i - 1 => j = n + 1 - i
    BY <1>1, <1>4
  <2> QED
    BY <1>1, <2>1, <2>2
<1>6. ByTime(seq) = [i \in DOMAIN seq |-> seq[Place(i)]]
  BY DEF ByTime, Before
<1> HIDE DEF Place
<1> QED
  BY <1>1, <1>5, <1>6

\* A series that goes back by buckets goes back in time.
LEMMA GoesBack ==
  ASSUME IInv, Order, NEW s \in Symbol,
         NEW i \in 1 .. Len(bars[s]), NEW j \in 1 .. Len(bars[s]), i < j
  PROVE  bars[s][j].time < bars[s][i].time
<1>1. KeyOf(s, j) < KeyOf(s, i)
  BY DEF Order, Descends
<1>2. bars[s][i].time \in Int /\ bars[s][j].time \in Int /\ KeyOf(s, i) \in Int /\ KeyOf(s, j) \in Int
  BY BarTyped
<1>3. bars[s][i].time <= bars[s][j].time => KeyOf(s, i) <= KeyOf(s, j)
  BY <1>2, KeyMonotone, RequestTyped DEF IInv, KeyOf
<1> QED
  BY <1>1, <1>2, <1>3

\* How many candles the payload has.
Given(s) == IF Len(bars[s]) < Limit THEN Len(bars[s]) ELSE Limit

KnownTo(s) == {Key(d) : d \in heard \cap trades[s]}
GivenOf(s) == {KeyOf(s, i) : i \in 1 .. Given(s)}

\* The payload is the newest candles, turned round.
LEMMA RecentIs ==
  ASSUME IInv, Order, NEW s \in Symbol
  PROVE  /\ Given(s) \in Nat /\ Given(s) <= Len(bars[s]) /\ Len(bars[s]) \in Nat
         /\ Recent(s) = [i \in 1 .. Given(s) |-> bars[s][Given(s) + 1 - i]]
         /\ Recent(s) \in Seq(Bar) /\ Len(Recent(s)) = Given(s)
<1> DEFINE n == Len(bars[s])
           m == Given(s)
           turned == [i \in 1 .. n |-> bars[s][n + 1 - i]]
<1>1. bars[s] \in Seq(Bar) /\ n \in Nat /\ Limit \in Nat /\ Limit >= 1
  BY LimitPositive DEF IInv, TypeOK, Positive
<1>2. m \in Nat /\ m <= n /\ (m = n \/ m = Limit) /\ m = IF n < Limit THEN n ELSE Limit
  BY <1>1 DEF Given
<1>3. \A i \in 1 .. n : bars[s][i] \in Bar
  BY <1>1
<1>4. CASE Native
  <2>1. ByTime(bars[s]) = turned
    BY <1>1, ByTimeReverses, GoesBack
  <2>2. turned \in Seq(Bar) /\ Len(turned) = n
    BY <1>1, <1>3
  <2>3. Recent(s) = LastOf(turned, Limit)
    BY <1>4, <2>1 DEF Recent
  <2>4. CASE n <= Limit
    <3>1. m = n
      BY <1>1, <1>2, <2>4
    <3> QED
      BY <2>2, <2>3, <2>4, <3>1 DEF LastOf
  <2>5. CASE ~(n <= Limit)
    <3>1. m = Limit /\ n - Limit + 1 \in Int /\ n - (n - Limit + 1) + 1 = m /\ n - Limit + 1 >= 1
      BY <1>1, <1>2, <2>5
    <3>2. Recent(s) = SubSeq(turned, n - Limit + 1, n)
      BY <2>2, <2>3, <2>5 DEF LastOf
    <3>3. \A i \in n - Limit + 1 .. n : turned[i] \in Bar
      BY <1>1, <1>3, <3>1
    <3>4. /\ Recent(s) \in Seq(Bar) /\ Len(Recent(s)) = m
          /\ \A i \in 1 .. m : Recent(s)[i] = turned[n - Limit + 1 + i - 1]
      <4> HIDE DEF turned, n, m
      <4> QED
        BY <1>1, <1>2, <3>1, <3>2, <3>3, SubSeqProperties
    <3>5. ASSUME NEW i \in 1 .. m PROVE Recent(s)[i] = bars[s][m + 1 - i]
      <4>1. n - Limit + 1 + i - 1 \in 1 .. n /\ n + 1 - (n - Limit + 1 + i - 1) = m + 1 - i
        BY <1>1, <1>2, <3>1
      <4> QED
        BY <3>4, <4>1
    <3> QED
      BY <1>2, <3>4, <3>5
  <2> QED
    BY <2>4, <2>5
<1>5. CASE ~Native
  <2> DEFINE newest == SubSeq(bars[s], 1, m)
  <2>1. Recent(s) = Reverse(newest)
    BY <1>5, <1>2 DEF Recent
  <2>2. /\ newest \in Seq(Bar) /\ Len(newest) = m
        /\ \A i \in 1 .. m : newest[i] = bars[s][i]
    <3>1. \A i \in 1 .. m : bars[s][i] \in Bar
      BY <1>1, <1>2, <1>3
    <3> HIDE DEF m
    <3> QED
      BY <1>1, <1>2, <3>1, SubSeqProperties
  <2> HIDE DEF newest
  <2>3. Recent(s) = [i \in 1 .. m |-> newest[(m - i) + 1]]
    BY <2>1, <2>2 DEF Reverse
  <2>4. \A i \in 1 .. m : (m - i) + 1 = m + 1 - i /\ m + 1 - i \in 1 .. m
    BY <1>2
  <2>5. Recent(s) = [i \in 1 .. m |-> bars[s][m + 1 - i]]
    BY <2>2, <2>3, <2>4
  <2>6. Recent(s) \in Seq(Bar) /\ Len(Recent(s)) = m
    <3>1. \A i \in 1 .. m : m + 1 - i \in 1 .. n
      BY <1>1, <1>2
    <3> HIDE DEF m, n
    <3> QED
      BY <1>2, <1>3, <2>5, <3>1
  <2> QED
    BY <1>1, <1>2, <2>5, <2>6
<1> QED
  BY <1>4, <1>5

\* A day of an older bucket is older.
LEMMA KeysTellDays ==
  ASSUME IInv, NEW d \in Int, NEW e \in Int, Key(d) < Key(e)
  PROVE  d < e
<1>1. Key(d) \in Int /\ Key(e) \in Int /\ (e <= d => Key(e) <= Key(d))
  BY KeyMonotone, RequestTyped DEF IInv
<1> QED
  BY <1>1

\* One candle of the payload ends before the next begins.
LEMMA RecentAscends == ASSUME IInv, Order, NEW s \in Symbol PROVE Ascending(Recent(s))
<1> DEFINE m == Given(s)
<1>1. /\ m \in Nat /\ m <= Len(bars[s]) /\ Len(bars[s]) \in Nat
      /\ Recent(s) = [i \in 1 .. m |-> bars[s][m + 1 - i]] /\ Len(Recent(s)) = m
  BY RecentIs
<1> HIDE DEF m
<1>2. ASSUME NEW i \in 1 .. m - 1
      PROVE  Recent(s)[i].close < Recent(s)[i + 1].time
  <2> DEFINE a == m + 1 - i
             b == m - i
  <2>1. a \in 1 .. Len(bars[s]) /\ b \in 1 .. Len(bars[s]) /\ b < a
    BY <1>1
  <2>2. Recent(s)[i] = bars[s][a] /\ Recent(s)[i + 1] = bars[s][b]
    <3>1. i \in 1 .. m /\ i + 1 \in 1 .. m /\ m + 1 - (i + 1) = b
      BY <1>1
    <3> QED
      BY <1>1, <3>1
  <2> HIDE DEF a, b
  <2>3. /\ bars[s][a].close \in DatesOf(s, KeyOf(s, a))
        /\ bars[s][b].time \in Int
    BY <2>1, BarTyped DEF MadeOf
  <2>4. Key(bars[s][a].close) = KeyOf(s, a) /\ bars[s][a].close \in Int
    BY <2>3 DEF DatesOf, IInv, TypeOK
  <2>5. KeyOf(s, a) < KeyOf(s, b)
    BY <2>1 DEF Order, Descends
  <2>6. bars[s][a].close < bars[s][b].time
    BY <2>3, <2>4, <2>5, KeysTellDays DEF KeyOf
  <2> QED
    BY <2>2, <2>6
<1> QED
  BY <1>1, <1>2 DEF Ascending

\* The buckets of the payload are the newest ones of the series, each once.
LEMMA BucketsGiven ==
  ASSUME IInv, Order, NEW s \in Symbol, NEW given,
         given = {Key(Recent(s)[i].time) : i \in 1 .. Len(Recent(s))}
  PROVE  given = GivenOf(s) /\ Cardinality(given) = Len(Recent(s))
<1> DEFINE m == Given(s)
<1>1. /\ m \in Nat /\ m <= Len(bars[s]) /\ Len(bars[s]) \in Nat
      /\ Recent(s) = [i \in 1 .. m |-> bars[s][m + 1 - i]] /\ Len(Recent(s)) = m
  BY RecentIs
<1> HIDE DEF m
<1>2. \A i \in 1 .. m : m + 1 - i \in 1 .. m /\ m + 1 - (m + 1 - i) = i
  BY <1>1
<1>3. \A i \in 1 .. m : Key(Recent(s)[i].time) = KeyOf(s, m + 1 - i)
  BY <1>1 DEF KeyOf
<1>4. given = {KeyOf(s, i) : i \in 1 .. m}
  <2>1. ASSUME NEW k \in given PROVE k \in {KeyOf(s, i) : i \in 1 .. m}
    BY <1>1, <1>2, <1>3, <2>1
  <2>2. ASSUME NEW i \in 1 .. m PROVE KeyOf(s, i) \in given
    <3>1. KeyOf(s, i) = Key(Recent(s)[m + 1 - i].time) /\ m + 1 - i \in 1 .. m
      BY <1>2, <1>3
    <3> QED
      BY <1>1, <3>1
  <2> QED
    BY <2>1, <2>2
<1>5. Cardinality(given) = m
  <2> DEFINE f == [i \in 1 .. m |-> KeyOf(s, i)]
  <2>1. \A i, j \in 1 .. m : f[i] = f[j] => i = j
    <3>1. ASSUME NEW i \in 1 .. m, NEW j \in 1 .. m, i < j PROVE f[i] # f[j]
      <4>1. i \in 1 .. Len(bars[s]) /\ j \in 1 .. Len(bars[s])
        BY <1>1
      <4>2. KeyOf(s, j) < KeyOf(s, i) /\ KeyOf(s, i) \in Int /\ KeyOf(s, j) \in Int
        BY <3>1, <4>1, BarTyped DEF Order, Descends
      <4> QED
        BY <4>2
    <3> QED
      BY <1>1, <3>1
  <2>2. f \in [1 .. m -> given]
    BY <1>4
  <2>3. f \in Injection(1 .. m, given)
    BY <2>1, <2>2 DEF Injection, IsInjective
  <2>4. f \in Surjection(1 .. m, given)
    BY <1>4, <2>2 DEF Surjection
  <2>5. ExistsBijection(1 .. m, given)
    BY <2>3, <2>4 DEF ExistsBijection, Bijection
  <2> QED
    BY <1>1, <2>5, FS_CountingElements
<1> QED
  BY <1>1, <1>4, <1>5 DEF m, GivenOf

\* The last thing an answered call knows of a symbol is in the payload, or older.
LEMMA PayloadGiven ==
  ASSUME IInv, Order, phase = "answered", NEW s \in Symbol,
         NEW known, known = KnownTo(s), NEW given, given = GivenOf(s)
  PROVE  /\ given \subseteq known /\ \A k \in known \ given : \A g \in given : k < g
         /\ Given(s) = Limit \/ given = known
<1> DEFINE m == Given(s)
           n == Len(bars[s])
<1>1. m \in Nat /\ m <= n /\ n \in Nat /\ m = (IF n < Limit THEN n ELSE Limit) /\ Limit \in Nat
  BY RecentIs, LimitPositive DEF Given, IInv, Positive
<1>2. \A i \in 1 .. m : i \in 1 .. n
  BY <1>1
<1>3. \A h \in heard \cap trades[s] :
        \/ \E i \in 1 .. n : KeyOf(s, i) = Key(h)
        \/ s \in resolved /\ \A i \in 1 .. n : Key(h) < KeyOf(s, i)
  BY DEF Order, Kept
<1>4. s \in resolved => n = Limit
  BY DEF IInv, TypeOK
<1>5. \A i, j \in 1 .. n : i < j => KeyOf(s, j) < KeyOf(s, i)
  BY DEF Order, Descends
<1>6. given \subseteq known
  BY <1>2, BarTyped DEF KeyOf, KnownTo, GivenOf
<1> HIDE DEF m, n
<1>7. ASSUME NEW k \in known \ given, NEW g \in given PROVE k < g
  <2>1. PICK h \in heard \cap trades[s] : k = Key(h)
    BY <1>7 DEF KnownTo
  <2>2. PICK j \in 1 .. m : g = KeyOf(s, j)
    BY <1>7 DEF m, GivenOf
  <2>3. j \in 1 .. n
    BY <1>2
  <2>4. CASE \E i \in 1 .. n : KeyOf(s, i) = Key(h)
    <3>1. PICK i \in 1 .. n : KeyOf(s, i) = k
      BY <2>1, <2>4
    <3>2. i \notin 1 .. m
      BY <1>7, <3>1 DEF m, GivenOf
    <3>3. j < i
      BY <1>1, <2>2, <3>2
    <3> QED
      BY <1>5, <2>2, <2>3, <3>1, <3>3
  <2> QED
    BY <1>3, <2>1, <2>2, <2>3, <2>4
<1>8. CASE n < Limit
  <2>1. m = n /\ s \notin resolved
    BY <1>1, <1>4, <1>8
  <2>2. known \subseteq given
    BY <1>3, <2>1 DEF m, KnownTo, GivenOf
  <2> QED
    BY <1>6, <1>7, <2>2
<1>9. CASE ~(n < Limit)
  BY <1>1, <1>6, <1>7, <1>9 DEF m
<1> QED
  BY <1>8, <1>9

\* The payload is in order and holds the newest buckets that were heard of, as
\* many as asked for, however the loop ended and whatever it lost.
THEOREM PayloadIsRecentHolds == Spec => []PayloadIsRecent
<1>1. IInv /\ Order => PayloadIsRecent
  <2> SUFFICES ASSUME IInv, Order, phase = "answered", NEW s \in Symbol
               PROVE  LET known == {Key(d) : d \in heard \cap trades[s]}
                          given == {Key(Recent(s)[i].time) : i \in 1 .. Len(Recent(s))}
                      IN /\ Ascending(Recent(s))
                         /\ Cardinality(given) = Len(Recent(s))
                         /\ given \subseteq known /\ \A k \in known \ given : \A g \in given : k < g
                         /\ Cardinality(given) = Limit \/ given = known
    BY DEF PayloadIsRecent
  <2> DEFINE known == {Key(d) : d \in heard \cap trades[s]}
             given == {Key(Recent(s)[i].time) : i \in 1 .. Len(Recent(s))}
  <2>1. Ascending(Recent(s))
    BY RecentAscends
  <2>2. given = GivenOf(s) /\ Cardinality(given) = Len(Recent(s))
    BY BucketsGiven
  <2>3. Len(Recent(s)) = Given(s)
    BY RecentIs
  <2> HIDE DEF known, given
  <2>4. /\ given \subseteq known /\ \A k \in known \ given : \A g \in given : k < g
        /\ Given(s) = Limit \/ given = known
    <3>1. known = KnownTo(s)
      BY DEF known, KnownTo
    <3> QED
      BY <2>2, <3>1, PayloadGiven
  <2>5. Cardinality(given) = Limit \/ given = known
    BY <2>2, <2>3, <2>4
  <2> QED
    BY <2>1, <2>2, <2>4, <2>5 DEF known, given
<1>2. Init => IInv /\ Order
  BY InvInit, OrderInit
<1>3. IInv /\ Order /\ [Next]_vars => (IInv /\ Order)'
  BY InvStep, OrderStep
<1> QED
  BY <1>1, <1>2, <1>3, PTL DEF Spec

----------------------------------------------------------------------------
(* The completed candles. *)

\* Numbers with the same quotient are less than the divisor apart.
LEMMA SameQuotient ==
  ASSUME NEW x \in Int, NEW y \in Int, NEW n \in Positive, x \div n = y \div n
  PROVE  x - y < n
<1> DEFINE p == n * (x \div n)
<1>1. p <= x /\ x < p + n /\ p <= y /\ p \in Int /\ n \in Int
  BY DivBounds DEF Positive
<1> HIDE DEF p
<1> QED
  BY <1>1

\* A multiple that is less than n times m above another is at most n - 1 above it.
LEMMA MultiplesApart ==
  ASSUME NEW p \in Int, NEW q \in Int, NEW n \in Positive, NEW m \in Positive,
         n * p - n * q < m * n
  PROVE  n * p + n <= n * q + m * n
<1>1. m * n \in Int /\ n * p \in Int /\ n * q \in Int /\ n * (q + m) \in Int
      /\ n * (q + m) = n * q + m * n
  BY SMT DEF Positive
<1>2. q + m \in Int
  BY DEF Positive
<1>3. ~(p > q + m) /\ p # q + m
  <2>1. ~(p > q + m)
    <3> SUFFICES ASSUME p > q + m PROVE FALSE
      OBVIOUS
    <3>1. n * p >= n * (q + m) + n /\ n \in Int /\ n > 0
      BY <1>2, TimesMonotone DEF Positive
    <3> QED
      BY <1>1, <3>1
  <2>2. p # q + m
    BY <1>1
  <2> QED
    BY <2>1, <2>2
<1>4. q + m > p
  BY <1>2, <1>3
<1>5. n * (q + m) >= n * p + n
  BY <1>2, <1>4, TimesMonotone
<1> QED
  BY <1>1, <1>5

\* The start of a week, and what is left of it.
LEMMA WeekStartIs ==
  ASSUME NEW d \in Int
  PROVE  /\ (d - 1) \div Week \in Int /\ Week * ((d - 1) \div Week) \in Int
         /\ WeekStart(d) = Week * ((d - 1) \div Week) + 1
         /\ d < WeekStart(d) + Week
<1>1. Week \in Positive /\ Week \in Int
  BY Lengths DEF Positive
<1>2. (d - 1) \div Week \in Int /\ d - 1 < Week * ((d - 1) \div Week) + Week
  BY <1>1, DivBounds
<1>3. WeekStart(d) = Week * ((d - 1) \div Week) + 1
  BY <1>1, SMT DEF WeekStart, Weekday, Positive
<1>4. Week * ((d - 1) \div Week) \in Int
  BY <1>1, <1>2
<1> QED
  BY <1>1, <1>2, <1>3, <1>4

\* Every day of a bucket comes before the date that its oldest day's bucket closes on.
LEMMA ClosesAfter ==
  ASSUME request.amount \in Positive, request.unit \in Unit,
         NEW d \in Int, NEW t \in Int, Key(d) = Key(t)
  PROVE  CloseDate(t) \in Int /\ d < CloseDate(t)
<1> DEFINE a == request.amount
<1>1. a \in Positive /\ a \in Int /\ Week \in Positive /\ Week \in Int /\ Month \in Positive /\ Month \in Int
  BY Lengths DEF Positive
<1>2. CASE request.unit = "d"
  <2>1. /\ d \div a = t \div a /\ CloseDate(t) = (t \div a + 1) * a
    BY <1>2 DEF Key, CloseDate
  <2>2. d < a * (t \div a) + a /\ t \div a \in Int
    BY <1>1, <2>1, DivBounds
  <2>3. (t \div a + 1) * a = a * (t \div a) + a /\ a * (t \div a) \in Int
    <3> DEFINE q == t \div a
    <3>1. q \in Int
      BY <2>2
    <3> HIDE DEF q, a
    <3> QED
      BY <1>1, <3>1, SMT DEF q
  <2> QED
    BY <1>1, <2>1, <2>2, <2>3
<1>3. CASE request.unit = "w"
  <2> DEFINE p == (d - 1) \div Week
             q == (t - 1) \div Week
             n == a * Week
  <2>1. /\ p \in Int /\ Week * p \in Int /\ WeekStart(d) = Week * p + 1 /\ d < WeekStart(d) + Week
        /\ q \in Int /\ Week * q \in Int /\ WeekStart(t) = Week * q + 1
    BY WeekStartIs
  <2>2. n \in Positive /\ n \in Int
    BY <1>1, SMT DEF Positive
  <2>3. /\ WeekStart(d) \div n = WeekStart(t) \div n
        /\ CloseDate(t) = WeekStart(t) + n
    BY <1>3 DEF Key, CloseDate
  <2> HIDE DEF p, q, a, n
  <2>4. WeekStart(d) \in Int /\ WeekStart(t) \in Int
    BY <2>1
  <2>5. WeekStart(d) - WeekStart(t) < n
    BY <2>2, <2>3, <2>4, SameQuotient
  <2>6. Week * p - Week * q < n
    BY <2>1, <2>2, <2>5
  <2>7. Week * p + Week <= Week * q + n
    BY <1>1, <2>1, <2>6, MultiplesApart DEF n
  <2> QED
    BY <1>1, <2>1, <2>2, <2>3, <2>7
<1>4. CASE request.unit = "mo"
  <2> DEFINE p == MonthIndex(d)
             q == MonthIndex(t)
  <2>1. /\ p \in Int /\ q \in Int /\ d - 1 < Month * p + Month
    BY <1>1, DivBounds DEF MonthIndex
  <2>2. p \div a = q \div a /\ CloseDate(t) = (q + a) * Month + 1
    BY <1>4 DEF Key, CloseDate, FirstOf
  <2> HIDE DEF p, q, a
  <2>3. p - q < a
    BY <1>1, <2>1, <2>2, SameQuotient
  <2>4. p \in Int /\ q + a \in Int /\ q + a > p
    BY <1>1, <2>1, <2>3
  <2>5. Month * (q + a) >= Month * p + Month
    BY <1>1, <2>4, TimesMonotone
  <2>6. (q + a) * Month = Month * (q + a) /\ Month * (q + a) \in Int /\ Month * p \in Int
    BY <1>1, <2>1, <2>4, SMT
  <2> QED
    BY <1>1, <2>1, <2>2, <2>5, <2>6
<1> QED
  BY <1>2, <1>3, <1>4 DEF Unit

\* The completed candles are candles of the series, the newest only if it is closed.
LEMMA AnswerFrom ==
  ASSUME IInv, Order, NEW s \in Symbol, NEW i \in 1 .. Len(Answer(s))
  PROVE  \E j \in 1 .. Len(bars[s]) : /\ Answer(s)[i] = bars[s][j]
                                      /\ j = 1 => IsClosed(bars[s][1])
<1> DEFINE m == Given(s)
           recent == Recent(s)
           shown == IF IsClosed(Last(recent)) THEN recent ELSE Front(recent)
<1>1. /\ m \in Nat /\ m <= Len(bars[s]) /\ Len(bars[s]) \in Nat
      /\ recent = [k \in 1 .. m |-> bars[s][m + 1 - k]]
      /\ recent \in Seq(Bar) /\ Len(recent) = m
  BY RecentIs
<1>2. recent # <<>>
  <2> SUFFICES ASSUME recent = <<>> PROVE FALSE
    OBVIOUS
  <2>1. Answer(s) = <<>>
    BY DEF Answer
  <2>2. 1 .. Len(Answer(s)) = {}
    BY <2>1
  <2> QED
    BY <2>2
<1>3. Answer(s) = LastOf(shown, request.wanted)
  BY <1>2 DEF Answer
<1> HIDE DEF m, recent
<1>4. m >= 1 /\ Last(recent) = bars[s][1]
  <2>1. m >= 1
    BY <1>1, <1>2
  <2> QED
    BY <1>1, <2>1 DEF Last
<1>5. /\ shown \in Seq(Bar) /\ Len(shown) \in Nat
      /\ \A k \in 1 .. Len(shown) :
           \E j \in 1 .. Len(bars[s]) : shown[k] = bars[s][j] /\ (j = 1 => IsClosed(bars[s][1]))
  <2>1. CASE IsClosed(bars[s][1])
    <3>1. shown = recent
      BY <1>4, <2>1
    <3>2. ASSUME NEW k \in 1 .. m
          PROVE  \E j \in 1 .. Len(bars[s]) : recent[k] = bars[s][j] /\ (j = 1 => IsClosed(bars[s][1]))
      <4>1. m + 1 - k \in 1 .. Len(bars[s]) /\ recent[k] = bars[s][m + 1 - k]
        BY <1>1
      <4> QED
        BY <2>1, <4>1
    <3> QED
      BY <1>1, <3>1, <3>2
  <2>2. CASE ~IsClosed(bars[s][1])
    <3>1. shown = SubSeq(recent, 1, m - 1)
      BY <1>1, <1>4, <2>2 DEF Front
    <3>2. 1 \in Int /\ m - 1 \in Int /\ \A k \in 1 .. m - 1 : recent[k] \in Bar
      BY <1>1
    <3> HIDE DEF shown
    <3>3. /\ shown \in Seq(Bar) /\ Len(shown) = (IF 1 <= m - 1 THEN m - 1 - 1 + 1 ELSE 0)
          /\ \A k \in 1 .. m - 1 - 1 + 1 : shown[k] = recent[1 + k - 1]
      BY <3>1, <3>2, SubSeqProperties
    <3>4. Len(shown) = m - 1 /\ \A k \in 1 .. m - 1 : shown[k] = recent[k]
      <4>1. m - 1 - 1 + 1 = m - 1 /\ m - 1 \in Nat /\ \A k \in 1 .. m - 1 : 1 + k - 1 = k
        BY <1>1, <1>4
      <4>2. Len(shown) = m - 1
        BY <3>3, <4>1
      <4> QED
        BY <3>3, <4>1, <4>2
    <3>5. ASSUME NEW k \in 1 .. m - 1
          PROVE  \E j \in 1 .. Len(bars[s]) : shown[k] = bars[s][j] /\ (j = 1 => IsClosed(bars[s][1]))
      <4>1. m + 1 - k \in 1 .. Len(bars[s]) /\ m + 1 - k # 1 /\ recent[k] = bars[s][m + 1 - k]
        BY <1>1
      <4> QED
        BY <3>4, <4>1
    <3> QED
      BY <1>1, <1>4, <3>3, <3>4, <3>5
  <2> QED
    BY <2>1, <2>2
<1> HIDE DEF shown
<1>6. request.wanted \in Nat /\ request.wanted >= 1
  <2>1. request.wanted \in 1 .. MaxCandles /\ MaxCandles \in Nat
    BY WantedAssumption, Lengths DEF IInv, TypeOK, Positive
  <2> QED
    BY <2>1
<1>7. \E k \in 1 .. Len(shown) : Answer(s)[i] = shown[k]
  <2> DEFINE w == request.wanted
             first == Len(shown) - w + 1
  <2>1. CASE Len(shown) <= w
    BY <1>3, <2>1 DEF LastOf
  <2>2. CASE ~(Len(shown) <= w)
    <3>1. Answer(s) = SubSeq(shown, first, Len(shown))
      BY <1>3, <2>2 DEF LastOf
    <3>2. first \in Int /\ first >= 1 /\ Len(shown) \in Int /\ first <= Len(shown)
      BY <1>5, <1>6, <2>2
    <3>3. \A k \in first .. Len(shown) : shown[k] \in Bar
      BY <1>5, <3>2
    <3> HIDE DEF first
    <3>4. /\ Len(Answer(s)) = Len(shown) - first + 1
          /\ \A k \in 1 .. Len(shown) - first + 1 : Answer(s)[k] = shown[first + k - 1]
      BY <3>1, <3>2, <3>3, SubSeqProperties
    <3>5. i \in 1 .. Len(shown) - first + 1 /\ first + i - 1 \in 1 .. Len(shown)
      BY <3>2, <3>4
    <3> QED
      BY <3>4, <3>5
  <2> QED
    BY <2>1, <2>2
<1> QED
  BY <1>5, <1>7

\* A day in a candle that is closed, or that has a newer one after it, is settled.
LEMMA DaySettled ==
  ASSUME IInv, Order, ~(Native /\ request.crypto /\ clock.masks), NEW s \in Symbol,
         NEW j \in 1 .. Len(bars[s]), j = 1 => IsClosed(bars[s][1]),
         NEW d \in bars[s][j].merged
  PROVE  Settled(d)
<1> DEFINE t == bars[s][1].time
<1>1. /\ clock.utc \in Int /\ clock.today \in Int /\ clock.closed \in BOOLEAN
      /\ clock.utc = clock.today \/ (clock.utc = clock.today + 1 /\ clock.closed)
  BY ClockAssumption DEF IInv, TypeOK
<1>2. d \in heard \cap trades[s] /\ Key(d) = KeyOf(s, j) /\ d \in Int /\ KeyOf(s, j) \in Int
  BY BarTyped DEF MadeOf, DatesOf, IInv, TypeOK
<1>3. 1 \in 1 .. Len(bars[s]) /\ t \in heard \cap trades[s] /\ t \in Int /\ KeyOf(s, 1) = Key(t)
  <2>1. 1 \in 1 .. Len(bars[s])
    BY DEF IInv, TypeOK
  <2> QED
    BY <2>1, BarTyped DEF KeyOf
<1>4. t <= IF request.crypto THEN clock.utc ELSE clock.today
  BY <1>3 DEF Order, Past
<1> HIDE DEF t
<1>5. CASE j # 1
  <2>1. KeyOf(s, j) < KeyOf(s, 1)
    BY <1>3, <1>5 DEF Order, Descends
  <2>2. d < t
    BY <1>2, <1>3, <2>1, KeysTellDays
  <2> QED
    BY <1>1, <1>2, <1>3, <1>4, <2>2 DEF Settled
<1>6. CASE j = 1 /\ Native
  <2>1. d = t
    BY <1>2, <1>3, <1>6, NativeKey
  <2>2. CASE Settled(t)
    BY <2>1, <2>2
  <2>3. CASE ~Settled(t)
    <3>1. ~request.crypto
      BY <1>6, <2>3 DEF IsClosed, t
    <3>2. d <= LatestCompleted
      BY <1>2, <1>6, <3>1 DEF Order, Waited
    <3>3. /\ LatestCompleted \in Int
          /\ LatestCompleted < clock.today \/ (LatestCompleted <= clock.today /\ clock.closed)
      BY LatestSettled DEF IInv
    <3> QED
      BY <1>1, <1>2, <3>1, <3>2, <3>3 DEF Settled
  <2> QED
    BY <2>2, <2>3
<1>7. CASE j = 1 /\ ~Native
  <2>1. clock.utc >= CloseDate(t)
    BY <1>7 DEF IsClosed, t
  <2>2. CloseDate(t) \in Int /\ d < CloseDate(t)
    BY <1>2, <1>3, <1>7, ClosesAfter, RequestTyped DEF IInv
  <2>3. d < clock.utc
    BY <1>1, <1>2, <2>1, <2>2
  <2> QED
    BY <1>1, <1>2, <2>3 DEF Settled
<1> QED
  BY <1>5, <1>6, <1>7

\* No filter reads a price that can still change: every day in a completed candle
\* is settled, for every calendar and timeframe, whenever a call runs
\* (_latest_completed_stock_daily_reference_date, _mark_unclosed_last_candle).
THEOREM AnswersSettledHolds == Spec => []AnswersSettled
<1>1. IInv /\ Order => AnswersSettled
  <2> SUFFICES ASSUME IInv, Order, ~(Native /\ request.crypto /\ clock.masks),
                      NEW s \in Symbol, NEW i \in 1 .. Len(Answer(s)), NEW d \in Answer(s)[i].merged
               PROVE  Settled(d)
    BY DEF AnswersSettled
  <2> QED
    BY AnswerFrom, DaySettled
<1>2. Init => IInv /\ Order
  BY InvInit, OrderInit
<1>3. IInv /\ Order /\ [Next]_vars => (IInv /\ Order)'
  BY InvStep, OrderStep
<1> QED
  BY <1>1, <1>2, <1>3, PTL DEF Spec

----------------------------------------------------------------------------
(* How many days a bucket holds. *)

Less == {pair \in Nat \X Nat : pair[1] < pair[2]}

LEMMA LessWellFounded == IsWellFoundedOn(Less, Nat)
BY NatLessThanWellFounded DEF OpToRel, Less

\* Among numbers there is a least one.
LEMMA LeastNumber ==
  ASSUME NEW T \in SUBSET Nat, T # {}
  PROVE  \E x \in T : \A y \in T : x <= y
<1>1. PICK x \in T : \A y \in T : ~(<<y, x>> \in Less)
  BY LessWellFounded, WFMin
<1>2. ASSUME NEW y \in T PROVE x <= y
  <2>1. x \in Nat /\ y \in Nat /\ ~(<<y, x>> \in Less)
    BY <1>1
  <2>2. <<y, x>> \in Nat \X Nat /\ <<y, x>>[1] = y /\ <<y, x>>[2] = x
    BY <2>1
  <2>3. ~(y < x)
    BY <2>1, <2>2 DEF Less
  <2> QED
    BY <2>1, <2>3
<1> QED
  BY <1>2

\* How many days of a week are asked about.
DaysAsked == IF request.crypto THEN Week ELSE Week - Rest

\* Where a day is in its bucket: in which week, and on which day of it.
Slot(e) == IF request.unit = "d" THEN <<e % request.amount, 0>>
                                 ELSE <<((e - 1) \div Week) % request.amount, (e - 1) % Week>>
Slots == IF request.unit = "d" THEN (0 .. request.amount - 1) \X (0 .. 0)
                               ELSE (0 .. request.amount - 1) \X (0 .. DaysAsked - 1)

\* Division splits a number.
LEMMA Split ==
  ASSUME NEW x \in Int, NEW n \in Positive
  PROVE  /\ x \div n \in Int /\ n * (x \div n) \in Int
         /\ x % n \in 0 .. n - 1 /\ x = n * (x \div n) + (x % n)
BY SMT DEF Positive

\* Numbers less than n apart with the same remainder are the same.
LEMMA CloseAndEqual ==
  ASSUME NEW x \in Int, NEW y \in Int, NEW n \in Positive,
         x % n = y % n, x - y < n, y - x < n
  PROVE  x = y
<1> DEFINE p == x \div n
           q == y \div n
<1>1. p \in Int /\ q \in Int /\ n * p \in Int /\ n * q \in Int /\ x - n * p = y - n * q
  <2>1. /\ p \in Int /\ n * p \in Int /\ x = n * p + (x % n) /\ x % n \in Int
    BY Split
  <2>2. /\ q \in Int /\ n * q \in Int /\ y = n * q + (y % n) /\ y % n \in Int
    BY Split
  <2> HIDE DEF p, q
  <2> QED
    BY <2>1, <2>2
<1> HIDE DEF p, q
<1>2. n \in Int
  BY DEF Positive
<1>3. ~(p > q)
  <2> SUFFICES ASSUME p > q PROVE FALSE
    OBVIOUS
  <2>1. n * p >= n * q + n
    BY <1>1, TimesMonotone
  <2> QED
    BY <1>1, <1>2, <2>1
<1>4. ~(q > p)
  <2> SUFFICES ASSUME q > p PROVE FALSE
    OBVIOUS
  <2>1. n * q >= n * p + n
    BY <1>1, TimesMonotone
  <2> QED
    BY <1>1, <1>2, <2>1
<1>5. p = q
  BY <1>1, <1>3, <1>4
<1> QED
  BY <1>1, <1>5

\* Numbers at least n apart have multiples at least n times as far apart.
LEMMA WeeksApart ==
  ASSUME NEW p \in Int, NEW q \in Int, NEW n \in Positive, NEW w \in Positive,
         p - q >= n
  PROVE  w * p - w * q >= n * w
<1>1. w * p \in Int /\ w * q \in Int /\ n * w \in Int /\ w * (q + n) = w * q + n * w
  BY SMT DEF Positive
<1>2. q + n \in Int /\ n \in Int
  BY DEF Positive
<1>3. CASE p = q + n
  BY <1>1, <1>3
<1>4. CASE p > q + n
  <2>1. w * p >= w * (q + n) + w /\ w \in Int /\ w > 0
    BY <1>2, <1>4, TimesMonotone DEF Positive
  <2> QED
    BY <1>1, <2>1
<1> QED
  BY <1>2, <1>3, <1>4

\* The days of a bucket have slots of their own.
LEMMA SlotTells ==
  ASSUME request.amount \in Positive, request.unit \in {"d", "w"},
         NEW d \in Int, NEW e \in Int, Key(d) = Key(e), Slot(d) = Slot(e)
  PROVE  d = e
<1> DEFINE a == request.amount
<1>1. a \in Positive /\ Week \in Positive /\ a \in Int /\ Week \in Int
  BY Lengths DEF Positive
<1>2. CASE request.unit = "d"
  <2>1. d \div a = e \div a /\ d % a = e % a
    BY <1>2 DEF Key, Slot
  <2>2. d - e < a /\ e - d < a
    BY <1>1, <2>1, SameQuotient
  <2> QED
    BY <1>1, <2>1, <2>2, CloseAndEqual
<1>3. CASE request.unit = "w"
  <2> DEFINE p == (d - 1) \div Week
             q == (e - 1) \div Week
             n == a * Week
  <2>1. /\ p \in Int /\ Week * p \in Int /\ WeekStart(d) = Week * p + 1
        /\ q \in Int /\ Week * q \in Int /\ WeekStart(e) = Week * q + 1
    BY WeekStartIs
  <2>2. n \in Positive /\ n \in Int
    BY <1>1, SMT DEF Positive
  <2>3. WeekStart(d) \div n = WeekStart(e) \div n
    BY <1>3 DEF Key
  <2>4. p % a = q % a /\ (d - 1) % Week = (e - 1) % Week
    BY <1>3 DEF Slot
  <2>5. d - 1 = Week * p + ((d - 1) % Week) /\ e - 1 = Week * q + ((e - 1) % Week)
        /\ (d - 1) % Week \in Int
    BY <1>1, Split
  <2> HIDE DEF p, q, n
  <2>6. WeekStart(d) \in Int /\ WeekStart(e) \in Int
    BY <2>1
  <2>7. WeekStart(d) - WeekStart(e) < n /\ WeekStart(e) - WeekStart(d) < n
    BY <2>2, <2>3, <2>6, SameQuotient
  <2>8. Week * p - Week * q < n /\ Week * q - Week * p < n
    BY <2>1, <2>2, <2>7
  <2> HIDE DEF a
  <2>9. ~(p - q >= a) /\ ~(q - p >= a)
    BY <1>1, <2>1, <2>8, WeeksApart DEF n
  <2>10. p - q < a /\ q - p < a
    BY <1>1, <2>1, <2>9
  <2>11. p = q
    BY <1>1, <2>1, <2>4, <2>10, CloseAndEqual
  <2> QED
    BY <2>1, <2>4, <2>5, <2>11
<1> QED
  BY <1>2, <1>3

\* There are as many slots as a bucket has source days.
LEMMA SlotsCounted ==
  ASSUME TypeOK, request.unit \in {"d", "w"}
  PROVE  /\ IsFiniteSet(Slots) /\ Cardinality(Slots) = SourceFactor /\ SourceFactor \in Positive
         /\ \A e \in Int : AskedAbout(e) => Slot(e) \in Slots
<1> DEFINE a == request.amount
           n == IF request.unit = "d" THEN 1 ELSE DaysAsked
<1>1. a \in Positive /\ a \in Int /\ Week \in Positive /\ Week \in Int
      /\ Rest \in Int /\ Rest >= 0 /\ Rest < Week /\ request.crypto \in BOOLEAN
  BY NumberAssumption DEF TypeOK, Positive
<1>2. n \in Positive /\ n \in Int
  BY <1>1 DEF DaysAsked, Positive
<1>3. Slots = (0 .. a - 1) \X (0 .. n - 1)
  BY DEF Slots
<1>4. SourceFactor = a * n
  <2>1. CASE request.unit = "d"
    BY <1>1, <2>1 DEF SourceFactor
  <2>2. CASE request.unit = "w"
    BY <2>2 DEF SourceFactor, DaysAsked
  <2> QED
    BY <2>1, <2>2
<1>5. ASSUME NEW e \in Int, AskedAbout(e) PROVE Slot(e) \in Slots
  <2>1. CASE request.unit = "d"
    <3>1. e % a \in 0 .. a - 1
      BY <1>1, Split
    <3> QED
      BY <2>1, <3>1 DEF Slot, Slots
  <2>2. CASE request.unit = "w"
    <3>1. (e - 1) \div Week \in Int /\ (e - 1) % Week \in 0 .. Week - 1
      <4> DEFINE x == e - 1
      <4>1. x \in Int
        OBVIOUS
      <4> HIDE DEF x
      <4>2. x \div Week \in Int /\ x % Week \in 0 .. Week - 1
        BY <1>1, <4>1, Split
      <4> QED
        BY <4>2 DEF x
    <3>2. ((e - 1) \div Week) % a \in 0 .. a - 1
      BY <1>1, <3>1, Split
    <3>3. (e - 1) % Week \in 0 .. DaysAsked - 1
      BY <1>1, <1>5, <3>1 DEF AskedAbout, Weekend, Weekday, DaysAsked
    <3> QED
      BY <2>2, <3>2, <3>3 DEF Slot, Slots
  <2> QED
    BY <2>1, <2>2
<1> HIDE DEF a, n
<1>6. /\ IsFiniteSet(0 .. a - 1) /\ Cardinality(0 .. a - 1) = a
      /\ IsFiniteSet(0 .. n - 1) /\ Cardinality(0 .. n - 1) = n
  <2>1. a > 0 /\ n > 0
    BY <1>1, <1>2 DEF Positive
  <2>2. /\ IsFiniteSet(0 .. a - 1)
        /\ Cardinality(0 .. a - 1) = IF 0 > a - 1 THEN 0 ELSE a - 1 - 0 + 1
    <3>1. 0 \in Int /\ a - 1 \in Int
      BY <1>1
    <3> QED
      BY <3>1, FS_Interval
  <2>3. /\ IsFiniteSet(0 .. n - 1)
        /\ Cardinality(0 .. n - 1) = IF 0 > n - 1 THEN 0 ELSE n - 1 - 0 + 1
    <3>1. 0 \in Int /\ n - 1 \in Int
      BY <1>2
    <3> QED
      BY <3>1, FS_Interval
  <2> QED
    BY <1>1, <1>2, <2>1, <2>2, <2>3
<1>7. IsFiniteSet(Slots) /\ Cardinality(Slots) = a * n
  <2> DEFINE A == 0 .. a - 1
             B == 0 .. n - 1
  <2>1. Slots = A \X B /\ IsFiniteSet(A) /\ IsFiniteSet(B) /\ Cardinality(A) = a /\ Cardinality(B) = n
    BY <1>3, <1>6
  <2> HIDE DEF A, B
  <2>2. IsFiniteSet(A \X B) /\ Cardinality(A \X B) = Cardinality(A) * Cardinality(B)
    BY <2>1, FS_Product
  <2> QED
    BY <2>1, <2>2
<1>8. a * n \in Positive
  BY <1>1, <1>2, SMT DEF Positive
<1> QED
  BY <1>4, <1>5, <1>7, <1>8

\* Days that are asked about and fall into few buckets are few.
LEMMA Crowded ==
  ASSUME TypeOK, request.unit \in {"d", "w"}, NEW K, IsFiniteSet(K),
         NEW S \in SUBSET Int, \A e \in S : AskedAbout(e) /\ Key(e) \in K
  PROVE  IsFiniteSet(S) /\ Cardinality(S) <= Cardinality(K) * SourceFactor
<1> DEFINE f == [e \in S |-> <<Key(e), Slot(e)>>]
<1>1. /\ IsFiniteSet(Slots) /\ Cardinality(Slots) = SourceFactor
      /\ \A e \in S : Slot(e) \in Slots
  BY SlotsCounted
<1>2. f \in [S -> K \X Slots]
  BY <1>1
<1>3. ASSUME NEW d \in S, NEW e \in S, f[d] = f[e] PROVE d = e
  <2>1. Key(d) = Key(e) /\ Slot(d) = Slot(e) /\ d \in Int /\ e \in Int
    BY <1>3
  <2>2. request.amount \in Positive
    BY RequestTyped
  <2> QED
    BY <2>1, <2>2, SlotTells
<1>4. f \in Injection(S, K \X Slots)
  BY <1>2, <1>3 DEF Injection, IsInjective
<1>5. IsFiniteSet(K \X Slots) /\ Cardinality(K \X Slots) = Cardinality(K) * SourceFactor
  BY <1>1, FS_Product
<1> HIDE DEF f
<1> QED
  BY <1>4, <1>5, FS_Injection

----------------------------------------------------------------------------
(* The dates asked for. *)

\* The newest date, and how many are asked for.
LEMMA ReferenceTyped ==
  ASSUME TypeOK
  PROVE  /\ Reference \in Int /\ Reference <= clock.utc /\ clock.today \in Int /\ clock.utc \in Int
         /\ clock.utc <= clock.today + 1
         /\ Native \/ Reference = clock.utc
<1>1. /\ clock.utc \in Int /\ clock.today \in Int
      /\ clock.utc = clock.today \/ clock.utc = clock.today + 1
  BY ClockAssumption DEF TypeOK
<1>2. LatestCompleted \in Int /\ LatestCompleted <= clock.today
  <2>1. LatestCompleted \in Int /\ (LatestCompleted < clock.today \/ LatestCompleted <= clock.today)
    BY LatestSettled
  <2> QED
    BY <1>1, <2>1
<1> QED
  BY <1>1, <1>2 DEF Reference

LEMMA ShareMonotone ==
  ASSUME NEW m \in Nat, NEW n \in Nat, m <= n
  PROVE  Share(m) \in Nat /\ Share(n) \in Nat /\ Share(m) <= Share(n)
<1> DEFINE x == m + PaddingShare - 1
           y == n + PaddingShare - 1
<1>1. PaddingShare \in Positive /\ x \in Int /\ y \in Int /\ x >= 0 /\ y >= 0 /\ x <= y
  BY NumberAssumption DEF Positive
<1>2. Share(m) = x \div PaddingShare /\ Share(n) = y \div PaddingShare
  BY DEF Share
<1> HIDE DEF x, y
<1>3. x \div PaddingShare <= y \div PaddingShare
  BY <1>1, DivMonotone
<1>4. x \div PaddingShare \in Nat /\ y \div PaddingShare \in Nat
  BY <1>1, SMT DEF Positive
<1> QED
  BY <1>2, <1>3, <1>4

\* No cap is below the source days and their padding, unless the source days
\* are cut themselves.
LEMMA DateCountIs ==
  ASSUME TypeOK, request.unit \in {"d", "w"}
  PROVE  /\ DateCount \in Positive /\ Limit * SourceFactor \in Nat /\ PaddingDays \in Nat
         /\ Limit * SourceFactor <= MaxCandles => DateCount >= Limit * SourceFactor + PaddingDays
<1> DEFINE n == Limit * SourceFactor
           top == Larger(Padding[FALSE], Share(MaxCandles))
<1>1. n \in Positive
  BY LimitPositive, SlotsCounted, SMT DEF Positive
<1>2. /\ Limit \in Nat /\ MaxCandles \in Nat /\ MaxCandles >= 1 /\ Limit <= MaxCandles
      /\ request.crypto \in {TRUE, FALSE}
  <2>1. request.wanted \in Int /\ MaxCandles \in Nat /\ MaxCandles >= 1 /\ Limit \in Nat
    <3>1. request.wanted \in 1 .. MaxCandles /\ MaxCandles \in Nat \ {0}
      BY WantedAssumption, Lengths DEF TypeOK, Positive
    <3>2. Limit \in Nat \ {0}
      BY LimitPositive DEF Positive
    <3> QED
      BY <3>1, <3>2
  <2>2. Limit <= MaxCandles
    BY <2>1 DEF Limit
  <2> QED
    BY <2>1, <2>2 DEF TypeOK
<1>3. /\ Share(Limit) \in Nat /\ Share(MaxCandles) \in Nat /\ Share(Limit) <= Share(MaxCandles)
  BY <1>2, ShareMonotone
<1>4. /\ Padding[TRUE] \in Nat /\ Padding[FALSE] \in Nat /\ Padding[TRUE] <= Padding[FALSE]
  BY NumberAssumption
<1>5. PaddingDays \in Nat /\ top \in Nat /\ PaddingDays <= top
  <2> DEFINE p == Padding[request.crypto]
             q == Padding[FALSE]
             c == Padding[TRUE]
             i == Share(Limit)
             j == Share(MaxCandles)
  <2>1. p \in Nat /\ p <= q
    <3>1. request.crypto = TRUE \/ request.crypto = FALSE
      BY <1>2
    <3>2. CASE request.crypto = TRUE
      <4>1. Padding[request.crypto] = Padding[TRUE]
        BY <3>2
      <4> QED
        BY <1>4, <4>1
    <3>3. CASE request.crypto = FALSE
      <4>1. p = q /\ q \in Nat
        BY <1>4, <3>3
      <4> HIDE DEF p, q
      <4> QED
        BY <4>1
    <3> QED
      BY <3>1, <3>2, <3>3
  <2>2. PaddingDays = c \/ PaddingDays = Larger(p, i)
    BY DEF PaddingDays
  <2>3. i \in Nat /\ j \in Nat /\ i <= j /\ q \in Nat /\ c \in Nat /\ c <= q
    BY <1>3, <1>4
  <2> HIDE DEF p, q, c, i, j
  <2>4. Larger(p, i) \in Nat /\ Larger(q, j) \in Nat /\ Larger(p, i) <= Larger(q, j) /\ q <= Larger(q, j)
    BY <2>1, <2>3 DEF Larger
  <2>5. PaddingDays \in Nat /\ PaddingDays <= Larger(q, j)
    BY <2>2, <2>3, <2>4
  <2> QED
    BY <2>4, <2>5 DEF q, j
<1>6. MaxTrading = MaxCandles + top /\ MaxSource \in Nat /\ MaxTrading <= MaxSource
  BY MaxSourceAssumption DEF MaxTrading
<1>7. DateCount = Smaller(Smaller(n, MaxCandles) + PaddingDays, IF Native THEN MaxTrading ELSE MaxSource)
  BY DEF DateCount
<1> HIDE DEF n, top
<1>8. Smaller(n, MaxCandles) \in Nat /\ Smaller(n, MaxCandles) >= 1 /\ Smaller(n, MaxCandles) <= MaxCandles
      /\ (n <= MaxCandles => Smaller(n, MaxCandles) = n)
  BY <1>1, <1>2 DEF Smaller, Positive
<1> DEFINE source == Smaller(n, MaxCandles)
<1>9. DateCount = source + PaddingDays
  <2>1. source + PaddingDays <= MaxTrading /\ MaxTrading \in Nat
    BY <1>2, <1>5, <1>6, <1>8
  <2>2. ~((IF Native THEN MaxTrading ELSE MaxSource) < source + PaddingDays)
    BY <1>5, <1>6, <1>8, <2>1
  <2>3. (IF Native THEN MaxTrading ELSE MaxSource) \in Nat /\ source + PaddingDays \in Nat
    BY <1>5, <1>6, <1>8, <2>1
  <2> DEFINE most == IF Native THEN MaxTrading ELSE MaxSource
             all == source + PaddingDays
  <2>4. DateCount = Smaller(all, most) /\ all \in Nat /\ most \in Nat /\ ~(most < all)
    BY <1>7, <2>2, <2>3
  <2> HIDE DEF most, all
  <2>5. DateCount = all
    BY <2>4 DEF Smaller
  <2> QED
    BY <2>5 DEF all
<1>10. DateCount \in Positive
  BY <1>5, <1>8, <1>9 DEF Positive
<1>11. n <= MaxCandles => DateCount >= n + PaddingDays
  BY <1>1, <1>5, <1>8, <1>9 DEF Positive
<1> QED
  BY <1>1, <1>5, <1>10, <1>11 DEF n, Positive

\* The first day of a week is asked about.
LEMMA WeekStartAsked ==
  ASSUME NEW x \in Int
  PROVE  /\ WeekStart(x) \in Int /\ WeekStart(x) <= x /\ x - Week < WeekStart(x)
         /\ AskedAbout(WeekStart(x))
<1>1. Week \in Int /\ Rest \in Int /\ Rest < Week /\ Rest >= 0
  BY NumberAssumption DEF Positive
<1> DEFINE w == Weekday(x)
<1>2. w \in 0 .. Week - 1
  BY Lengths, Split DEF Weekday, Positive
<1>3. w \in Nat /\ w <= w
  BY <1>1, <1>2
<1>4. Weekday(x - w) = w - w
  BY <1>3, WeekdayShift
<1>5. WeekStart(x) = x - w
  BY DEF WeekStart
<1> HIDE DEF w
<1>6. ~Weekend(WeekStart(x))
  BY <1>1, <1>3, <1>4, <1>5 DEF Weekend
<1> QED
  BY <1>1, <1>2, <1>5, <1>6 DEF AskedAbout

\* The days between d and the newest that are asked about.
Newer(d) == {e \in d + 1 .. Reference : AskedAbout(e)}

LEMMA NewerFinite ==
  ASSUME TypeOK, NEW d \in Int
  PROVE  Newer(d) \subseteq Int /\ IsFiniteSet(Newer(d)) /\ Cardinality(Newer(d)) \in Nat
<1>1. Reference \in Int
  BY ReferenceTyped
<1>2. IsFiniteSet(d + 1 .. Reference)
  BY <1>1, FS_Interval
<1>3. Newer(d) \in SUBSET (d + 1 .. Reference)
  BY DEF Newer
<1>4. IsFiniteSet(Newer(d))
  BY <1>2, <1>3, FS_Subset
<1> QED
  BY <1>1, <1>3, <1>4, FS_CardinalityType

\* Weeks of a window do not overlap.
LEMMA WeeksBack ==
  ASSUME NEW r \in Int, NEW k \in Nat, NEW l \in Nat, k < l
  PROVE  Week * k \in Int /\ Week * l \in Int /\ r - Week * l <= r - Week * k - Week
<1>1. Week \in Int /\ Week \in Positive /\ k \in Int /\ l \in Int /\ l > k
  BY Lengths DEF Positive
<1>2. Week * l >= Week * k + Week /\ Week * k \in Int /\ Week * l \in Int
  BY <1>1, TimesMonotone
<1> QED
  BY <1>1, <1>2

\* A day that is not asked for has as many newer ones as may be asked for.
LEMMA FarBack ==
  ASSUME TypeOK, request.unit \in {"d", "w"},
         NEW d \in Int, AskedAbout(d), d <= Reference, d \notin Candidates
  PROVE  Cardinality(Newer(d)) >= DateCount
<1> DEFINE n == DateCount
           R == Reference
<1>1. n \in Nat /\ n >= 1 /\ R \in Int /\ Week * n \in Int /\ Week \in Int
  BY DateCountIs, ReferenceTyped, Lengths DEF Positive
<1>2. Newer(d) \subseteq Int /\ IsFiniteSet(Newer(d)) /\ Cardinality(Newer(d)) \in Nat
  BY NewerFinite
<1>3. CASE d >= R - Week * n
  <2>1. d \in R - Week * n .. R
    BY <1>1, <1>3
  <2>2. ~(Cardinality(Newer(d)) < n)
    BY <2>1 DEF Candidates, Newer
  <2> QED
    BY <1>1, <1>2, <2>2
<1>4. CASE d < R - Week * n
  <2> DEFINE x(k) == R - Week * k
             f == [k \in 0 .. n - 1 |-> WeekStart(x(k))]
  <2>1. ASSUME NEW k \in 0 .. n - 1
        PROVE  x(k) \in Int /\ f[k] \in Int /\ x(k) - Week < f[k] /\ f[k] <= x(k) /\ f[k] \in Newer(d)
    <3>1. k \in Nat /\ k < n
      BY <1>1
    <3>2. Week * k \in Int /\ x(k) \in Int /\ R - Week * n <= x(k) - Week
      <4>1. Week * k \in Int /\ R - Week * n <= R - Week * k - Week
        <5> HIDE DEF n, R
        <5> QED
          BY <1>1, <3>1, WeeksBack
      <4> QED
        BY <1>1, <4>1
    <3>3. Week * k >= 0
      BY <3>1, Lengths, SMT DEF Positive
    <3>4. x(k) <= R
      BY <1>1, <3>2, <3>3
    <3>5. f[k] = WeekStart(x(k))
      OBVIOUS
    <3> HIDE DEF x, f
    <3>6. f[k] \in Int /\ f[k] <= x(k) /\ x(k) - Week < f[k] /\ AskedAbout(f[k])
      BY <3>2, <3>5, WeekStartAsked
    <3>7. f[k] \in d + 1 .. R
      <4> DEFINE a == R - Week * n
                 b == x(k)
                 c == f[k]
      <4>1. /\ a \in Int /\ b \in Int /\ c \in Int /\ d < a /\ a <= b - Week /\ b - Week < c
            /\ c <= b /\ b <= R
        BY <1>1, <1>4, <3>2, <3>4, <3>6
      <4> HIDE DEF a, b, c
      <4>2. c \in d + 1 .. R
        BY <1>1, <4>1
      <4> QED
        BY <4>2 DEF c
    <3> QED
      BY <3>2, <3>6, <3>7 DEF Newer
  <2>2. ASSUME NEW k \in 0 .. n - 1, NEW l \in 0 .. n - 1, k < l
        PROVE  f[k] # f[l]
    <3>1. k \in Nat /\ l \in Nat
      BY <1>1
    <3>2. x(l) <= x(k) - Week
      BY <1>1, <2>2, <3>1, WeeksBack
    <3>3. f[k] \in Int /\ x(k) \in Int /\ x(k) - Week < f[k]
      BY <2>1
    <3>4. f[l] \in Int /\ x(l) \in Int /\ f[l] <= x(l)
      BY <2>1
    <3> HIDE DEF x, f
    <3> QED
      BY <1>1, <3>2, <3>3, <3>4
  <2>3. f \in [0 .. n - 1 -> Newer(d)]
    BY <2>1
  <2> HIDE DEF f, x
  <2>4. ASSUME NEW k \in 0 .. n - 1, NEW l \in 0 .. n - 1, f[k] = f[l] PROVE k = l
    <3>1. ~(k < l) /\ ~(l < k) /\ k \in Int /\ l \in Int
      BY <1>1, <2>2, <2>4
    <3> QED
      BY <3>1
  <2>5. f \in Injection(0 .. n - 1, Newer(d))
    BY <2>3, <2>4 DEF Injection, IsInjective
  <2>6. Cardinality(0 .. n - 1) <= Cardinality(Newer(d))
    BY <1>2, <2>5, FS_Injection
  <2>7. Cardinality(0 .. n - 1) = IF 0 > n - 1 THEN 0 ELSE n - 1 - 0 + 1
    <3>1. 0 \in Int /\ n - 1 \in Int
      BY <1>1
    <3> QED
      BY <3>1, FS_Interval
  <2> HIDE DEF n
  <2>8. Cardinality(0 .. n - 1) = n
    BY <1>1, <2>7
  <2> QED
    BY <1>1, <1>2, <2>6, <2>8 DEF n
<1> QED
  BY <1>1, <1>3, <1>4

\* What is asked for is asked for without a gap.
LEMMA CandidatesReach ==
  ASSUME TypeOK, request.unit \in {"d", "w"},
         NEW d \in Candidates, NEW e \in Int, d <= e, e <= Reference, AskedAbout(e)
  PROVE  e \in Candidates
<1> DEFINE n == DateCount
<1>1. n \in Nat /\ Reference \in Int /\ Week * n \in Int
  BY DateCountIs, ReferenceTyped, Lengths DEF Positive
<1>2. d \in Reference - Week * n .. Reference /\ Cardinality(Newer(d)) < n
  BY DEF Candidates, Newer
<1>3. d \in Int /\ e \in Reference - Week * n .. Reference
  BY <1>1, <1>2
<1>4. Newer(e) \subseteq Newer(d)
  <2>1. e + 1 .. Reference \subseteq d + 1 .. Reference
    BY <1>1, <1>3
  <2> QED
    BY <2>1 DEF Newer
<1>5. Cardinality(Newer(e)) <= Cardinality(Newer(d))
  BY <1>3, <1>4, NewerFinite, FS_Subset
<1>6. Cardinality(Newer(e)) < n
  BY <1>1, <1>2, <1>3, <1>5, NewerFinite
<1> QED
  BY <1>3, <1>6 DEF Candidates, Newer

\* Unless every day that is asked about is asked for, so many are.
LEMMA CandidatesMany ==
  ASSUME TypeOK, request.unit \in {"d", "w"},
         NEW d \in Int, AskedAbout(d), d <= Reference, d \notin Candidates
  PROVE  /\ Candidates \subseteq Int /\ IsFiniteSet(Candidates)
         /\ Cardinality(Candidates) \in Nat /\ Cardinality(Candidates) >= DateCount
<1> DEFINE R == Reference
<1>1. R \in Int /\ DateCount \in Nat /\ Week * DateCount \in Int
  BY ReferenceTyped, DateCountIs, Lengths DEF Positive
<1>2. Candidates \subseteq Int /\ IsFiniteSet(Candidates) /\ Cardinality(Candidates) \in Nat
  <2>1. IsFiniteSet(R - Week * DateCount .. R)
    BY <1>1, FS_Interval
  <2>2. Candidates \in SUBSET (R - Week * DateCount .. R)
    BY DEF Candidates
  <2>3. IsFiniteSet(Candidates)
    BY <2>1, <2>2, FS_Subset
  <2> QED
    BY <1>1, <2>2, <2>3, FS_CardinalityType
<1> DEFINE T == {k \in Nat : AskedAbout(R - k) /\ R - k \notin Candidates}
<1>3. R - d \in T
  <2>1. R - d \in Nat /\ R - (R - d) = d
    BY <1>1
  <2> QED
    BY <2>1
<1>4. PICK x \in T : \A y \in T : x <= y
  BY <1>3, LeastNumber
<1>5. /\ x \in Nat /\ R - x \in Int /\ R - x <= R
      /\ AskedAbout(R - x) /\ R - x \notin Candidates
  BY <1>1, <1>4
<1>6. Newer(R - x) \subseteq Candidates
  <2> SUFFICES ASSUME NEW e \in Newer(R - x), e \notin Candidates PROVE FALSE
    OBVIOUS
  <2>1. e \in R - x + 1 .. R /\ AskedAbout(e)
    BY DEF Newer
  <2>2. R - e \in Nat /\ R - (R - e) = e /\ R - e < x
    BY <1>1, <1>5, <2>1
  <2>3. R - e \in T
    BY <2>1, <2>2
  <2> QED
    BY <1>4, <1>5, <2>2, <2>3
<1> HIDE DEF T
<1>7. Cardinality(Newer(R - x)) >= DateCount
  BY <1>5, FarBack
<1>8. Cardinality(Newer(R - x)) <= Cardinality(Candidates)
  BY <1>2, <1>6, FS_Subset
<1>9. Cardinality(Newer(R - x)) \in Nat
  BY <1>5, NewerFinite
<1> QED
  BY <1>1, <1>2, <1>7, <1>8, <1>9

----------------------------------------------------------------------------
(* What has been asked for, and what a symbol that is done has left behind. *)

OnlyCandidates == pending \cup heard \subseteq Candidates
DoneOrServed == phase = "answered" => pending = {} \/ Served
Overtaken ==
  \A s \in resolved : \E h \in heard \cap trades[s] :
    \A i \in 1 .. Len(bars[s]) : Key(h) < KeyOf(s, i)
Fits ==
  ~Native /\ phase = "answered" => \A s \in Symbol : s \notin resolved => Len(bars[s]) <= Limit
OnDays == \A s \in Symbol : \A d \in trades[s] : AskedAbout(d)

Course == OnlyCandidates /\ DoneOrServed /\ Overtaken /\ Fits /\ OnDays

LEMMA CourseInit == Init => Course
<1> SUFFICES ASSUME Init PROVE Course
  OBVIOUS
<1>1. OnlyCandidates /\ DoneOrServed /\ Overtaken /\ Fits
  BY DEF Init, OnlyCandidates, DoneOrServed, Overtaken, Fits
<1>2. OnDays
  <2>1. PICK l \in Listing :
          trades = [s \in Symbol |-> {d \in l[s] : /\ AskedAbout(d)
                                                /\ d <= IF request.crypto THEN clock.utc ELSE clock.today}]
    BY DEF Init
  <2> QED
    BY <2>1 DEF OnDays
<1> QED
  BY <1>1, <1>2 DEF Course

\* The dates of a call depend on the request and the clock alone.
LEMMA SameCandidates ==
  ASSUME UNCHANGED <<request, clock>>
  PROVE  Candidates' = Candidates /\ \A d : AskedAbout(d)' <=> AskedAbout(d)
<1>1. /\ request' = request /\ clock' = clock /\ Limit' = Limit /\ (Native' <=> Native)
      /\ LatestCompleted' = LatestCompleted
  BY SameKeys, SameDates
<1>2. \A d : AskedAbout(d)' <=> AskedAbout(d)
  BY <1>1 DEF AskedAbout, Weekend, Weekday
<1>3. SourceFactor' = SourceFactor
  BY <1>1 DEF SourceFactor
<1>4. DateCount' = DateCount
  BY <1>1, <1>3 DEF DateCount, PaddingDays
<1>5. Reference' = Reference
  BY <1>1 DEF Reference
<1> QED
  BY <1>2, <1>4, <1>5 DEF Candidates

\* A step that leaves the symbols alone keeps their course.
LEMMA CourseKept ==
  ASSUME Course, UNCHANGED <<request, clock, heard, bars, active, resolved, trades, phase>>,
         pending' \subseteq pending
  PROVE  Course'
<1>1. /\ \A e : Key(e)' = Key(e)
      /\ Limit' = Limit /\ (Native' <=> Native)
      /\ Candidates' = Candidates /\ \A d : AskedAbout(d)' <=> AskedAbout(d)
  BY SameKeys, SameCandidates
<1>2. OnlyCandidates' /\ Overtaken' /\ Fits' /\ OnDays'
  BY <1>1 DEF Course, OnlyCandidates, Overtaken, Fits, OnDays, KeyOf
<1>3. DoneOrServed'
  <2>1. Served' <=> Served
    BY <1>1 DEF Served
  <2> QED
    BY <2>1 DEF Course, DoneOrServed
<1> QED
  BY <1>2, <1>3 DEF Course

\* While dates are asked for, none is dropped and none is added.
LEMMA CourseAsking ==
  ASSUME Course, phase' = "asking", UNCHANGED <<request, clock, trades>>,
         pending' \cup heard' \subseteq pending \cup heard
  PROVE  OnlyCandidates' /\ DoneOrServed' /\ Fits' /\ OnDays'
BY SameCandidates DEF Course, OnlyCandidates, DoneOrServed, Fits, OnDays

LEMMA DailyCourse == ASSUME IInv, Course, DateAnswersDaily PROVE Course'
<1>1. PICK d \in pending : Reads(d) /\ heard' = heard \cup {d}
  BY DEF DateAnswersDaily
<1>2. Native /\ resolved' = resolved /\ resolved = {}
  BY DEF DateAnswersDaily, IInv, OnePath
<1>3. /\ phase' = "asking" /\ pending' \subseteq pending
      /\ UNCHANGED <<request, clock, trades>>
  BY <1>1 DEF Reads
<1>4. OnlyCandidates' /\ DoneOrServed' /\ Fits' /\ OnDays'
  BY <1>1, <1>3, CourseAsking
<1>5. Overtaken'
  BY <1>2 DEF Overtaken
<1> QED
  BY <1>4, <1>5 DEF Course

\* A symbol is done when a day of a bucket older than its candles is read.
LEMMA HistoryCourse == ASSUME IInv, Order, Course, DateAnswersHistory PROVE Course'
<1>1. PICK d \in pending :
        /\ Reads(d) /\ heard' = heard \cup {d}
        /\ bars' = [s \in Symbol |-> IF Completes(s, d) THEN Append(bars[s], active[s].bar) ELSE bars[s]]
        /\ active' = [s \in Symbol |-> NextBucket(s, d)]
        /\ resolved' = resolved \cup {s \in Symbol : Resolves(s, d)}
  BY DEF DateAnswersHistory
<1>2. ~Native
  BY DEF DateAnswersHistory
<1>3. /\ phase = "asking" /\ d \in Int /\ d \in pending
      /\ UNCHANGED <<request, clock, trades, phase>>
  BY <1>1, ReadsEffect DEF IInv
<1>4. \A e : Key(e)' = Key(e)
  BY <1>3, SameKeys
<1>5. OnlyCandidates' /\ DoneOrServed' /\ Fits' /\ OnDays'
  BY <1>1, <1>3, CourseAsking DEF Reads
<1>6. Overtaken'
  <2>1. ASSUME NEW s \in resolved'
        PROVE  \E h \in heard' \cap trades[s] : \A i \in 1 .. Len(bars'[s]) : Key(h) < Key(bars'[s][i].time)
    <3>1. s \in Symbol /\ resolved \subseteq Symbol
      BY <1>1, <2>1 DEF IInv, TypeOK
    <3>2. \/ Passes(s, d) /\ (s \in resolved' <=> s \in resolved)
          \/ Opens(s, d) /\ s \notin resolved'
          \/ Extends(s, d) /\ s \notin resolved'
          \/ Closes(s, d)
      BY <1>1, <1>2, <1>3, <3>1, HistoryCases
    <3>3. CASE s \in resolved /\ bars'[s] = bars[s]
      BY <1>1, <3>3 DEF Course, Overtaken, KeyOf
    <3>4. CASE Closes(s, d)
      <4>1. d \in heard' \cap trades[s]
        BY <1>1, <3>4 DEF Closes
      <4>2. active[s] # Nothing /\ active[s].key # Key(d) /\ bars'[s] = Append(bars[s], active[s].bar)
        BY <3>4 DEF Closes
      <4>3. bars[s] \in Seq(Bar) /\ Key(d) < Key(active[s].bar.time)
        <5>1. Key(d) \in Int
          BY <1>3, KeyMonotone, RequestTyped DEF IInv
        <5> QED
          BY <1>3, <3>1, <4>2, <5>1, OpenBucket DEF IInv, TypeOK
      <4>4. \A i \in 1 .. Len(bars[s]) : Key(d) < Key(bars[s][i].time)
        BY <1>3, <3>1 DEF IInv, OlderToCome
      <4>5. \A i \in 1 .. Len(bars'[s]) : Key(d) < Key(bars'[s][i].time)
        BY <4>2, <4>3, <4>4
      <4> QED
        BY <4>1, <4>5
    <3> QED
      BY <2>1, <3>2, <3>3, <3>4 DEF Passes
  <2> QED
    BY <1>3, <1>4, <2>1 DEF Overtaken, KeyOf
<1> QED
  BY <1>5, <1>6 DEF Course

\* A call that ends has read every date, or has served every symbol.
LEMMA FinishCourse == ASSUME IInv, Course, Finish PROVE Course'
<1>1. /\ phase = "asking" /\ Ends /\ phase' = "answered"
      /\ bars' = [s \in Symbol |-> IF active[s] # Nothing THEN Append(bars[s], active[s].bar) ELSE bars[s]]
      /\ UNCHANGED <<request, clock, trades, pending, heard, active, resolved>>
  BY DEF Finish
<1>2. /\ \A e : Key(e)' = Key(e)
      /\ Limit' = Limit /\ (Native' <=> Native)
      /\ Candidates' = Candidates /\ \A d : AskedAbout(d)' <=> AskedAbout(d)
  BY <1>1, SameKeys, SameCandidates
<1>3. ASSUME NEW s \in Symbol, Native \/ s \in resolved PROVE bars'[s] = bars[s]
  BY <1>1, <1>3 DEF IInv, OnePath, TypeOK
<1>4. OnlyCandidates' /\ OnDays'
  BY <1>1, <1>2 DEF Course, OnlyCandidates, OnDays
<1>5. DoneOrServed'
  <2>1. Served => Served'
    BY <1>1, <1>2, <1>3 DEF Served
  <2> QED
    BY <1>1, <2>1 DEF Ends, DoneOrServed
<1>6. Overtaken'
  BY <1>1, <1>2, <1>3 DEF Course, Overtaken, KeyOf, IInv, TypeOK
<1>7. Fits'
  <2>1. ASSUME ~Native, NEW s \in Symbol, s \notin resolved PROVE Len(bars'[s]) <= Limit
    <3>1. Len(bars[s]) < Limit /\ Limit \in Int /\ Len(bars[s]) \in Nat
      BY <1>1, <2>1, LimitPositive DEF IInv, Short, TypeOK, Positive
    <3>2. Len(bars'[s]) = Len(bars[s]) \/ Len(bars'[s]) = Len(bars[s]) + 1
      BY <1>1 DEF IInv, TypeOK, Bucket
    <3> QED
      BY <3>1, <3>2
  <2> QED
    BY <1>1, <1>2, <2>1 DEF Fits
<1> QED
  BY <1>4, <1>5, <1>6, <1>7 DEF Course

LEMMA CourseStep == ASSUME IInv, Order, Course, [Next]_vars PROVE Course'
<1>1. CASE UNCHANGED vars
  BY <1>1, CourseKept DEF vars
<1>2. CASE DateFails
  <2>1. PICK d \in pending : Reads(d)
    BY <1>2 DEF DateFails
  <2> QED
    BY <1>2, <2>1, CourseKept DEF DateFails, Reads
<1> QED
  BY <1>1, <1>2, DailyCourse, HistoryCourse, FinishCourse DEF Next

----------------------------------------------------------------------------
(* The dates asked for reach back far enough. *)

LEMMA TimesUp ==
  ASSUME NEW a \in Int, NEW b \in Int, NEW n \in Positive, a <= b
  PROVE  a * n \in Int /\ b * n \in Int /\ a * n <= b * n
<1>1. n \in Int /\ n > 0 /\ a * n = n * a /\ b * n = n * b /\ n * a \in Int /\ n * b \in Int
  BY SMT DEF Positive
<1>2. CASE a = b
  BY <1>1, <1>2
<1>3. CASE b > a
  <2>1. n * b >= n * a + n
    BY <1>3, TimesMonotone
  <2> QED
    BY <1>1, <2>1
<1> QED
  BY <1>2, <1>3

\* A symbol that traded on a day before the oldest date asked for, and missed no
\* more dates since than there is padding, has filled more buckets than were
\* asked for.
LEMMA Spanned ==
  ASSUME IInv, Order, Course, request.unit \in {"d", "w"}, Limit * SourceFactor <= MaxCandles,
         pending = {}, Failed = {},
         NEW s \in Symbol, Cardinality(Missed(s)) <= PaddingDays,
         NEW d \in trades[s], d <= Reference, d \notin Candidates,
         NEW K, IsFiniteSet(K), Cardinality(K) <= Limit,
         Key(d) \in K, \A h \in heard \cap trades[s] : Key(h) \in K
  PROVE  FALSE
<1> DEFINE C == Candidates
           both == C \cap trades[s]
           W == both \cup {d}
           missed == Missed(s)
           F == SourceFactor
<1>1. TypeOK /\ d \in Int /\ AskedAbout(d)
  BY DEF IInv, TypeOK, Course, OnDays
<1>2. /\ C \subseteq Int /\ IsFiniteSet(C) /\ Cardinality(C) \in Nat
      /\ Cardinality(C) >= DateCount
  BY <1>1, CandidatesMany
<1>3. /\ DateCount \in Nat /\ Limit * F \in Nat /\ PaddingDays \in Nat
      /\ DateCount >= Limit * F + PaddingDays
      /\ F \in Positive /\ Limit \in Int
  BY <1>1, DateCountIs, SlotsCounted, LimitPositive DEF Positive
<1>4. C \subseteq heard
  BY DEF Failed
<1>5. ASSUME NEW c \in C PROVE c \in Int /\ d < c /\ c <= Reference /\ AskedAbout(c)
  <2>1. c \in Int /\ c <= Reference
    BY <1>1, <1>2, CandidatesBounded
  <2>2. AskedAbout(c)
    BY DEF Candidates
  <2>3. ~(c <= d)
    BY <1>1, <2>1, CandidatesReach
  <2> QED
    BY <1>1, <2>1, <2>2, <2>3
<1>6. C \subseteq both \cup missed /\ missed \subseteq C
  BY <1>5 DEF Missed
<1> HIDE DEF C, missed, F
<1>7. IsFiniteSet(both) /\ Cardinality(both) \in Nat /\ Cardinality(both) >= Cardinality(C) - PaddingDays
  <2>1. IsFiniteSet(both) /\ IsFiniteSet(missed)
    BY <1>2, <1>6, FS_Intersection, FS_Subset
  <2>2. Cardinality(both) \in Nat /\ Cardinality(missed) \in Nat
    BY <2>1, FS_CardinalityType
  <2> HIDE DEF both
  <2>3. /\ IsFiniteSet(both \cup missed) /\ IsFiniteSet(both \cap missed)
        /\ Cardinality(both \cup missed)
             = Cardinality(both) + Cardinality(missed) - Cardinality(both \cap missed)
    BY <2>1, FS_Union, FS_Intersection
  <2>4. Cardinality(both \cap missed) \in Nat
    BY <2>3, FS_CardinalityType
  <2>5. Cardinality(C) <= Cardinality(both \cup missed)
    BY <1>6, <2>3, FS_Subset
  <2>6. Cardinality(missed) <= PaddingDays
    BY DEF missed
  <2> DEFINE b == Cardinality(both)
             m == Cardinality(missed)
             i == Cardinality(both \cap missed)
             c == Cardinality(C)
  <2>7. b \in Nat /\ m \in Nat /\ i \in Nat /\ c \in Nat /\ c <= b + m - i /\ m <= PaddingDays
        /\ PaddingDays \in Nat
    BY <1>2, <1>3, <2>2, <2>3, <2>4, <2>5, <2>6
  <2> HIDE DEF b, m, i, c
  <2>8. b \in Nat /\ b >= c - PaddingDays
    BY <2>7
  <2> QED
    BY <2>1, <2>8 DEF b, c
<1>8. IsFiniteSet(W) /\ Cardinality(W) = Cardinality(both) + 1
  <2>1. d \notin both
    BY DEF C
  <2> HIDE DEF both
  <2> QED
    BY <1>7, <2>1, FS_AddElement
<1>9. Cardinality(W) <= Cardinality(K) * F
  <2>1. W \in SUBSET Int
    BY <1>1, <1>2
  <2>2. \A e \in W : AskedAbout(e) /\ Key(e) \in K
    BY <1>1, <1>4, <1>5
  <2> HIDE DEF W
  <2> QED
    BY <1>1, <2>1, <2>2, Crowded DEF F
<1>10. Cardinality(K) \in Nat
  BY FS_CardinalityType
<1>11. Cardinality(K) * F \in Int /\ Cardinality(K) * F <= Limit * F
  <2>1. Cardinality(K) \in Int
    BY <1>10
  <2> QED
    BY <1>3, <2>1, TimesUp
<1> HIDE DEF W, both
<1> DEFINE k == Cardinality(K) * F
           l == Limit * F
           w == Cardinality(W)
           b == Cardinality(both)
           c == Cardinality(C)
<1>12. /\ k \in Int /\ l \in Int /\ b \in Nat /\ c \in Nat /\ w = b + 1 /\ b >= c - PaddingDays
       /\ DateCount \in Nat /\ PaddingDays \in Nat
       /\ c >= DateCount /\ DateCount >= l + PaddingDays /\ w <= k /\ k <= l
  BY <1>2, <1>3, <1>7, <1>8, <1>9, <1>11
<1> HIDE DEF k, l, w, b, c
<1> QED
  BY <1>12

\* A series has no more buckets than candles.
LEMMA SeriesKeys ==
  ASSUME IInv, NEW s \in Symbol, NEW n, n = Len(bars[s]), NEW K, K = {KeyOf(s, i) : i \in 1 .. n}
  PROVE  n \in Nat /\ IsFiniteSet(K) /\ Cardinality(K) \in Nat /\ Cardinality(K) <= n
<1> DEFINE f == [i \in 1 .. n |-> KeyOf(s, i)]
<1>1. n \in Nat
  BY DEF IInv, TypeOK
<1>2. f \in Surjection(1 .. n, K)
  BY DEF Surjection
<1>3. IsFiniteSet(1 .. n) /\ Cardinality(1 .. n) = n
  <2>1. /\ IsFiniteSet(1 .. n)
        /\ Cardinality(1 .. n) = IF 1 > n THEN 0 ELSE n - 1 + 1
    <3>1. 1 \in Int /\ n \in Int
      BY <1>1
    <3> QED
      BY <3>1, FS_Interval
  <2> QED
    BY <1>1, <2>1
<1> HIDE DEF f
<1>4. IsFiniteSet(K) /\ Cardinality(K) <= Cardinality(1 .. n)
  BY <1>2, <1>3, FS_Surjection
<1> QED
  BY <1>1, <1>3, <1>4, FS_CardinalityType

\* With one bucket more, so many and one.
LEMMA OneMore ==
  ASSUME NEW K, IsFiniteSet(K), NEW x
  PROVE  /\ IsFiniteSet(K \cup {x}) /\ Cardinality(K) \in Nat /\ Cardinality(K \cup {x}) \in Nat
         /\ Cardinality(K \cup {x}) <= Cardinality(K) + 1
<1>1. /\ IsFiniteSet(K \cup {x}) /\ Cardinality(K) \in Nat
      /\ Cardinality(K \cup {x}) = IF x \in K THEN Cardinality(K) ELSE Cardinality(K) + 1
  BY FS_AddElement, FS_CardinalityType
<1> QED
  BY <1>1

\* The oldest completed candle has every day of its bucket.
LEMMA OldestWhole ==
  ASSUME IInv, Order, Course, phase = "answered", Failed = {}, request.unit \in {"d", "w"},
         Limit * SourceFactor <= MaxCandles,
         NEW s \in Symbol, Cardinality(Missed(s)) <= PaddingDays, NEW j \in 1 .. Len(bars[s]),
         NEW d \in trades[s], Key(d) = KeyOf(s, j)
  PROVE  d \in bars[s][j].merged
<1> DEFINE t == bars[s][j].time
           n == Len(bars[s])
           K == {KeyOf(s, i) : i \in 1 .. n}
<1>1. /\ TypeOK /\ d \in Int /\ AskedAbout(d) /\ n \in Nat
      /\ t \in heard \cap trades[s] /\ t \in Int /\ Key(t) = KeyOf(s, j)
      /\ bars[s][j].merged = DatesOf(s, KeyOf(s, j))
  BY BarTyped DEF IInv, TypeOK, Course, OnDays, KeyOf, MadeOf
<1> HIDE DEF t
<1>2. SUFFICES ASSUME d \notin heard PROVE FALSE
  BY <1>1 DEF DatesOf
<1>3. ~Native
  BY <1>1, <1>2, NativeKey
<1>4. d <= Reference
  <2>1. Reference = clock.utc /\ clock.utc \in Int /\ clock.today \in Int
        /\ (clock.utc = clock.today \/ clock.utc = clock.today + 1)
    BY <1>1, <1>3, ReferenceTyped, ClockAssumption DEF TypeOK
  <2>2. d <= IF request.crypto THEN clock.utc ELSE clock.today
    BY DEF Order, Past
  <2> QED
    BY <1>1, <2>1, <2>2
\* A symbol that is done has an older day than d, which was asked for.
<1>5. s \notin resolved
  <2> SUFFICES ASSUME s \in resolved PROVE FALSE
    OBVIOUS
  <2>1. PICK h \in heard \cap trades[s] : Key(h) < KeyOf(s, j)
    BY DEF Course, Overtaken
  <2>2. h \in Int /\ h \in Candidates
    BY DEF IInv, TypeOK, Course, OnlyCandidates
  <2>3. h < d
    BY <1>1, <2>1, <2>2, KeysTellDays
  <2>4. d \in Candidates
    BY <1>1, <1>4, <2>2, <2>3, CandidatesReach
  <2>5. d \in pending
    BY <1>2, <2>4 DEF Failed
  <2> QED
    BY <1>1, <2>1, <2>2, <2>3, <2>5 DEF IInv, InOrder
<1>6. pending = {}
  BY <1>3, <1>5 DEF Course, DoneOrServed, Served
<1>7. d \notin Candidates
  BY <1>2, <1>6 DEF Failed
<1>8. \A h \in heard \cap trades[s] : Key(h) \in K
  BY <1>5 DEF Order, Kept
<1>9. Key(d) \in K
  BY <1>1
<1>10. n \in Nat /\ n <= Limit /\ Limit \in Nat
  BY <1>1, <1>3, <1>5, LimitPositive DEF Course, Fits, Positive
<1>11. IsFiniteSet(K) /\ Cardinality(K) \in Nat /\ Cardinality(K) <= n
  BY SeriesKeys
<1> HIDE DEF K, n
<1>12. Cardinality(K) <= Limit
  BY <1>10, <1>11
<1> QED
  BY <1>4, <1>6, <1>7, <1>8, <1>9, <1>11, <1>12, Spanned

\* A symbol with fewer candles than were asked for has none left out.
LEMMA NoneOlder ==
  ASSUME IInv, Order, Course, phase = "answered", Failed = {}, request.unit \in {"d", "w"},
         Limit * SourceFactor <= MaxCandles,
         NEW s \in Symbol, Cardinality(Missed(s)) <= PaddingDays, Len(bars[s]) < Limit,
         Len(bars[s]) \in 1 .. Len(bars[s]), NEW d \in trades[s]
  PROVE  d >= bars[s][Len(bars[s])].time
<1> DEFINE n == Len(bars[s])
           t == bars[s][n].time
           K == {KeyOf(s, i) : i \in 1 .. n}
<1>1. /\ TypeOK /\ d \in Int /\ AskedAbout(d) /\ n \in Nat /\ Limit \in Nat
      /\ t \in heard \cap trades[s] /\ t \in Int
  BY BarTyped, LimitPositive DEF IInv, TypeOK, Course, OnDays, Positive
<1>2. s \notin resolved
  BY <1>1 DEF TypeOK
<1>3. pending = {}
  BY <1>1, <1>2 DEF Course, DoneOrServed, Served
<1>4. \A h \in heard \cap trades[s] : \E i \in 1 .. n : KeyOf(s, i) = Key(h)
  BY <1>2 DEF Order, Kept
<1> SUFFICES ASSUME ~(d >= t) PROVE FALSE
  OBVIOUS
<1> HIDE DEF n, t
<1>5. d < t
  BY <1>1
<1>6. d \notin heard
  <2> SUFFICES ASSUME d \in heard PROVE FALSE
    OBVIOUS
  <2>1. PICK i \in 1 .. n : KeyOf(s, i) = Key(d)
    BY <1>4
  <2>2. i \in 1 .. Len(bars[s])
    BY DEF n
  <2>3. /\ bars[s][i].time \in Int
        /\ MadeOf(bars[s][i], DatesOf(s, KeyOf(s, i)))
    BY <2>2, BarTyped
  <2>4. bars[s][i].time <= d
    BY <2>1, <2>3 DEF MadeOf, DatesOf
  <2>5. t <= bars[s][i].time
    <3>1. CASE i = n
      BY <1>1, <3>1 DEF t
    <3>2. CASE i # n
      <4>1. i < n
        BY <1>1, <3>2
      <4>2. bars[s][n].time < bars[s][i].time
        BY <2>2, <4>1, GoesBack DEF n
      <4> QED
        BY <1>1, <2>3, <4>2 DEF t
    <3> QED
      BY <3>1, <3>2
  <2> QED
    BY <1>1, <1>5, <2>3, <2>4, <2>5
<1>7. d \notin Candidates
  BY <1>3, <1>6 DEF Failed
<1>8. d <= Reference
  <2>1. t \in Candidates
    BY <1>1 DEF Course, OnlyCandidates
  <2>2. t <= Reference /\ Reference \in Int
    BY <1>1, <2>1, CandidatesBounded, ReferenceTyped
  <2> QED
    BY <1>1, <1>5, <2>2
<1>9. IsFiniteSet(K) /\ Cardinality(K) \in Nat /\ Cardinality(K) <= n
  BY SeriesKeys DEF n
<1>10. \A h \in heard \cap trades[s] : Key(h) \in K \cup {Key(d)}
  BY <1>4
<1> HIDE DEF K
<1> DEFINE L == K \cup {Key(d)}
<1>11. IsFiniteSet(L) /\ Cardinality(L) \in Nat /\ Cardinality(L) <= Cardinality(K) + 1
  BY <1>9, OneMore
<1>12. Key(d) \in L /\ \A h \in heard \cap trades[s] : Key(h) \in L
  BY <1>10
<1> HIDE DEF L
<1>13. Cardinality(L) <= Limit
  <2>1. n < Limit
    BY DEF n
  <2> QED
    BY <1>1, <1>9, <1>11, <2>1
<1> QED
  BY <1>3, <1>7, <1>8, <1>11, <1>12, <1>13, Spanned

\* The completed candles are candles.
LEMMA LastOfTyped ==
  ASSUME NEW seq \in Seq(Bar), NEW n \in Nat
  PROVE  LastOf(seq, n) \in Seq(Bar)
<1> DEFINE first == Len(seq) - n + 1
<1>1. CASE Len(seq) <= n
  BY <1>1 DEF LastOf
<1>2. CASE ~(Len(seq) <= n)
  <2>1. LastOf(seq, n) = SubSeq(seq, first, Len(seq))
    BY <1>2 DEF LastOf
  <2>2. first \in Int /\ first >= 1 /\ Len(seq) \in Int
    BY <1>2
  <2>3. \A k \in first .. Len(seq) : seq[k] \in Bar
    BY <2>2
  <2> HIDE DEF first
  <2> QED
    BY <2>1, <2>2, <2>3, SubSeqProperties
<1> QED
  BY <1>1, <1>2

LEMMA AnswerTyped ==
  ASSUME IInv, Order, NEW s \in Symbol
  PROVE  Answer(s) \in Seq(Bar)
<1> DEFINE recent == Recent(s)
<1>1. recent \in Seq(Bar)
  BY RecentIs
<1>2. request.wanted \in Nat
  <2>1. request.wanted \in 1 .. MaxCandles /\ MaxCandles \in Nat
    BY WantedAssumption, Lengths DEF IInv, TypeOK, Positive
  <2> QED
    BY <2>1
<1> HIDE DEF recent
<1>3. CASE recent = <<>>
  BY <1>3 DEF Answer, recent
<1>4. CASE recent # <<>>
  <2>1. Len(recent) \in Nat /\ Len(recent) - 1 \in Int /\ 1 \in Int
        /\ \A k \in 1 .. Len(recent) - 1 : recent[k] \in Bar
    BY <1>1
  <2>2. SubSeq(recent, 1, Len(recent) - 1) \in Seq(Bar)
    BY <2>1, SubSeqProperties
  <2> DEFINE shown == IF IsClosed(Last(recent)) THEN recent ELSE Front(recent)
  <2>3. shown \in Seq(Bar)
    BY <1>1, <2>2 DEF Front
  <2>4. Answer(s) = LastOf(shown, request.wanted)
    BY <1>4 DEF Answer, recent
  <2> HIDE DEF shown
  <2> QED
    BY <1>2, <2>3, <2>4, LastOfTyped
<1> QED
  BY <1>3, <1>4

\* An answer with fewer candles than were asked for goes back to the oldest candle.
LEMMA AnswerLength ==
  ASSUME IInv, Order, NEW s \in Symbol, Answer(s) # <<>>, request.wanted # MaxCandles
  PROVE  \/ Len(Answer(s)) = request.wanted
         \/ /\ Len(bars[s]) < Limit /\ Len(bars[s]) \in 1 .. Len(bars[s])
            /\ Answer(s)[1] = bars[s][Len(bars[s])]
<1> DEFINE m == Given(s)
           w == request.wanted
           recent == Recent(s)
           shown == IF IsClosed(Last(recent)) THEN recent ELSE Front(recent)
<1>1. /\ m \in Nat /\ m <= Len(bars[s]) /\ Len(bars[s]) \in Nat
      /\ recent = [k \in 1 .. m |-> bars[s][m + 1 - k]]
      /\ recent \in Seq(Bar) /\ Len(recent) = m
  BY RecentIs
<1>2. recent # <<>>
  BY DEF Answer
<1>3. Answer(s) = LastOf(shown, w)
  BY <1>2 DEF Answer
<1>4. w \in Nat /\ w >= 1 /\ Limit = w + 1
  <2>1. w \in 1 .. MaxCandles /\ MaxCandles \in Nat
    BY WantedAssumption, Lengths DEF IInv, TypeOK, Positive
  <2>2. w < MaxCandles
    BY <2>1
  <2> QED
    BY <2>1, <2>2 DEF Limit
<1>5. m = IF Len(bars[s]) < Limit THEN Len(bars[s]) ELSE Limit
  BY DEF Given
<1> HIDE DEF m, w, recent
<1>6. m >= 1
  BY <1>1, <1>2
<1>7. /\ shown \in Seq(Bar) /\ (Len(shown) = m \/ Len(shown) = m - 1)
      /\ Len(shown) >= 1 => shown[1] = recent[1]
  <2>1. CASE IsClosed(Last(recent))
    BY <1>1, <2>1
  <2>2. CASE ~IsClosed(Last(recent))
    <3>1. shown = SubSeq(recent, 1, m - 1)
      BY <1>1, <2>2 DEF Front
    <3>2. 1 \in Int /\ m - 1 \in Int /\ \A k \in 1 .. m - 1 : recent[k] \in Bar
      BY <1>1
    <3> HIDE DEF shown
    <3>3. /\ shown \in Seq(Bar) /\ Len(shown) = (IF 1 <= m - 1 THEN m - 1 - 1 + 1 ELSE 0)
          /\ \A k \in 1 .. m - 1 - 1 + 1 : shown[k] = recent[1 + k - 1]
      BY <3>1, <3>2, SubSeqProperties
    <3>4. Len(shown) = m - 1
      BY <1>1, <1>6, <3>3
    <3>5. Len(shown) >= 1 => 1 \in 1 .. m - 1 - 1 + 1 /\ 1 + 1 - 1 = 1
      BY <1>1, <3>4
    <3> QED
      BY <3>3, <3>4, <3>5
  <2> QED
    BY <2>1, <2>2
<1> HIDE DEF shown
<1>8. Len(shown) \in Nat
  BY <1>7
<1>9. CASE Len(bars[s]) < Limit
  <2>1. m = Len(bars[s]) /\ m <= w
    BY <1>1, <1>4, <1>5, <1>9
  <2>2. Len(shown) <= w
    BY <1>1, <1>4, <1>7, <1>8, <2>1
  <2>3. Answer(s) = shown
    BY <1>3, <2>2 DEF LastOf
  <2>4. Len(shown) >= 1
    BY <1>7, <1>8, <2>3
  <2>5. recent[1] = bars[s][m]
    <3>1. 1 \in 1 .. m /\ m + 1 - 1 = m
      BY <1>1, <1>6
    <3> QED
      BY <1>1, <3>1
  <2>6. Len(bars[s]) \in 1 .. Len(bars[s])
    BY <1>1, <1>6, <2>1
  <2>7. Answer(s)[1] = bars[s][Len(bars[s])]
    BY <1>7, <2>1, <2>3, <2>4, <2>5
  <2> QED
    BY <1>9, <2>6, <2>7
<1>10. CASE ~(Len(bars[s]) < Limit)
  <2>1. m = w + 1
    BY <1>4, <1>5, <1>10
  <2>2. Len(shown) = w + 1 \/ Len(shown) = w
    BY <1>4, <1>7, <2>1
  <2>3. CASE Len(shown) <= w
    <3>1. Answer(s) = shown /\ Len(shown) = w
      BY <1>3, <1>4, <2>2, <2>3 DEF LastOf
    <3> QED
      BY <3>1 DEF w
  <2>4. CASE ~(Len(shown) <= w)
    <3> DEFINE first == Len(shown) - w + 1
    <3>1. Answer(s) = SubSeq(shown, first, Len(shown))
      BY <1>3, <2>4 DEF LastOf
    <3>2. first \in Int /\ first >= 1 /\ Len(shown) \in Int /\ first <= Len(shown)
          /\ Len(shown) - first + 1 = w
      BY <1>4, <1>8, <2>4
    <3>3. \A k \in first .. Len(shown) : shown[k] \in Bar
      BY <1>7, <1>8, <3>2
    <3> HIDE DEF first
    <3>4. Len(Answer(s)) = Len(shown) - first + 1
      BY <3>1, <3>2, <3>3, SubSeqProperties
    <3> QED
      BY <3>2, <3>4 DEF w
  <2> QED
    BY <2>3, <2>4 DEF w
<1> QED
  BY <1>9, <1>10

\* The dates that are asked for reach back far enough: for every calendar, amount and
\* count, when no date fails, a symbol that missed no more dates than there is
\* padding gets the candles asked for or all of its history, and its oldest candle
\* is whole
\* (_grouped_history_candidate_dates).
THEOREM HistoryWholeHolds == Spec => []HistoryWhole
<1>1. IInv /\ Order /\ Course => HistoryWhole
  <2> SUFFICES ASSUME IInv, Order, Course,
                      phase = "answered", Failed = {}, request.unit # "mo",
                      Limit * SourceFactor <= MaxCandles,
                      NEW s \in Symbol, Cardinality(Missed(s)) <= PaddingDays, Answer(s) # <<>>
               PROVE  /\ \A d \in trades[s] : Key(d) = Key(Answer(s)[1].time) => d \in Answer(s)[1].merged
                      /\ \/ Len(Answer(s)) = request.wanted
                         \/ ReachesListing(s)
                         \/ request.wanted = MaxCandles
    BY DEF HistoryWhole
  <2>1. request.unit \in {"d", "w"}
    BY RequestTyped DEF IInv, Unit
  <2>2. 1 \in 1 .. Len(Answer(s))
    <3>1. Answer(s) \in Seq(Bar)
      BY AnswerTyped
    <3> QED
      BY <3>1
  <2>3. ASSUME NEW d \in trades[s], Key(d) = Key(Answer(s)[1].time)
        PROVE  d \in Answer(s)[1].merged
    <3>1. PICK j \in 1 .. Len(bars[s]) : Answer(s)[1] = bars[s][j]
      BY <2>2, AnswerFrom
    <3>2. Key(d) = KeyOf(s, j)
      BY <2>3, <3>1 DEF KeyOf
    <3> QED
      BY <2>1, <3>1, <3>2, OldestWhole
  <2>4. \/ Len(Answer(s)) = request.wanted \/ ReachesListing(s) \/ request.wanted = MaxCandles
    <3> SUFFICES ASSUME Len(Answer(s)) # request.wanted, request.wanted # MaxCandles
                 PROVE  ReachesListing(s)
      OBVIOUS
    <3>1. /\ Len(bars[s]) < Limit /\ Len(bars[s]) \in 1 .. Len(bars[s])
          /\ Answer(s)[1] = bars[s][Len(bars[s])]
      BY AnswerLength
    <3>2. \A d \in trades[s] : d >= bars[s][Len(bars[s])].time
      BY <2>1, <3>1, NoneOlder
    <3> QED
      BY <3>1, <3>2 DEF ReachesListing
  <2> QED
    BY <2>3, <2>4
<1>2. Init => IInv /\ Order /\ Course
  BY InvInit, OrderInit, CourseInit
<1>3. IInv /\ Order /\ Course /\ [Next]_vars => (IInv /\ Order /\ Course)'
  BY InvStep, OrderStep, CourseStep
<1> QED
  BY <1>1, <1>2, <1>3, PTL DEF Spec
=============================================================================
