--------------------------- MODULE ScreeningProofs ---------------------------
(***************************************************************************)
(* For every universe, request and market, and whatever the filters on the *)
(* candles answer: a scan keeps and drops the symbols its filters say, and *)
(* tells the first one that drops a symbol (ScanExact); and with the same  *)
(* data the detail view agrees (DetailAgrees).                             *)
(***************************************************************************)
EXTENDS Screening, FiniteSetTheorems, SequenceTheorems, TLAPS

----------------------------------------------------------------------------
(* Least numbers. *)

Less == {pair \in Nat \X Nat : pair[1] < pair[2]}

LEMMA LessWellFounded == IsWellFoundedOn(Less, Nat)
BY NatLessThanWellFounded DEF OpToRel, Less

\* Among numbers there is a least one.
LEMMA LeastNumber ==
  ASSUME NEW T \in SUBSET Nat, T # {}
  PROVE  \E x \in T : \A y \in T : x <= y
<1>1. PICK x \in T : \A y \in T : ~(<<y, x>> \in Less)
  BY LessWellFounded, WFMin
<1>2. ASSUME NEW y \in T PROVE x <= y
  <2>1. x \in Nat /\ y \in Nat /\ ~(<<y, x>> \in Less)
    BY <1>1
  <2>2. <<y, x>> \in Nat \X Nat /\ <<y, x>>[1] = y /\ <<y, x>>[2] = x
    BY <2>1
  <2>3. ~(y < x)
    BY <2>1, <2>2 DEF Less
  <2> QED
    BY <2>1, <2>3
<1> QED
  BY <1>2

\* Numbers with a bound have a greatest one.
LEMMA GreatestNumber ==
  ASSUME NEW S \in SUBSET Nat, S # {}, NEW b \in Nat, \A x \in S : x <= b
  PROVE  \E n \in S : \A m \in S : m <= n
<1> DEFINE T == {x \in Nat : \A m \in S : m <= x}
<1>1. b \in T /\ T \in SUBSET Nat
  OBVIOUS
<1>2. PICK n \in T : \A y \in T : n <= y
  BY <1>1, LeastNumber
<1>3. n \in S
  <2> SUFFICES ASSUME n \notin S PROVE FALSE
    OBVIOUS
  <2>1. \A m \in S : m \in Nat /\ m <= n /\ m # n
    BY <1>2
  <2>2. n \in Nat /\ n > 0
    <3>1. PICK m \in S : m \in Nat /\ m <= n /\ m # n
      BY <2>1
    <3>2. n \in Nat
      BY <1>2
    <3> QED
      BY <3>1, <3>2
  <2>3. n - 1 \in T
    BY <2>1, <2>2
  <2> QED
    BY <1>2, <2>2, <2>3
<1> QED
  BY <1>2, <1>3

----------------------------------------------------------------------------
(* Parts of a sequence. *)

\* Every rank is that of a place.
LEMMA PlaceOfRank ==
  ASSUME NEW n \in Nat, NEW P \in SUBSET (1 .. n), NEW k \in 1 .. Cardinality(P)
  PROVE  \E i \in P : Cardinality({j \in P : j <= i}) = k
<1> DEFINE Below(i) == {j \in P : j <= i}
           T == {i \in 0 .. n : Cardinality(Below(i)) >= k}
<1>1. IsFiniteSet(P) /\ P \subseteq 1 .. n /\ \A j \in P : j \in Int /\ 1 <= j /\ j <= n
  <2>1. P \subseteq 1 .. n /\ 1 \in Int /\ n \in Int
    OBVIOUS
  <2>2. IsFiniteSet(1 .. n)
    BY <2>1, FS_Interval
  <2>3. IsFiniteSet(P)
    BY <2>1, <2>2, FS_Subset
  <2>4. \A j \in P : j \in Int /\ 1 <= j /\ j <= n
    BY <2>1
  <2> QED
    BY <2>1, <2>3, <2>4
<1>2. \A i \in 0 .. n : IsFiniteSet(Below(i)) /\ Cardinality(Below(i)) \in Nat
  <2>1. \A i \in 0 .. n : Below(i) \subseteq P
    OBVIOUS
  <2> QED
    BY <1>1, <2>1, FS_Subset, FS_CardinalityType
<1>3. Cardinality(P) \in Nat /\ k \in Nat /\ k >= 1 /\ k <= Cardinality(P)
  BY <1>1, FS_CardinalityType
<1>4. n \in T
  <2>1. Below(n) = P
    BY <1>1
  <2> QED
    BY <1>3, <2>1
<1>5. PICK i \in T : \A y \in T : i <= y
  <2>1. T \in SUBSET Nat /\ T # {}
    BY <1>4
  <2> HIDE DEF T
  <2> QED
    BY <2>1, LeastNumber
<1>6. i # 0
  <2>1. Below(0) = {}
    <3>1. \A j \in P : ~(j <= 0)
      BY <1>1
    <3> QED
      BY <3>1
  <2>2. Cardinality(Below(0)) = 0
    BY <2>1, FS_EmptySet
  <2> QED
    BY <1>3, <1>5, <2>2
<1>7. i \in 1 .. n /\ i - 1 \in 0 .. n /\ i - 1 \notin T
  <2>1. i \in 1 .. n /\ i - 1 \in 0 .. n /\ ~(i <= i - 1)
    BY <1>5, <1>6
  <2> QED
    BY <1>5, <2>1
<1>8. Cardinality(Below(i)) >= k /\ Cardinality(Below(i - 1)) < k
      /\ Cardinality(Below(i)) \in Nat /\ Cardinality(Below(i - 1)) \in Nat
  <2>1. i \in 0 .. n /\ i - 1 \in 0 .. n /\ Cardinality(Below(i)) >= k /\ ~(Cardinality(Below(i - 1)) >= k)
    BY <1>5, <1>7
  <2>2. Cardinality(Below(i)) \in Nat /\ Cardinality(Below(i - 1)) \in Nat
    BY <1>2, <2>1
  <2> HIDE DEF Below
  <2> QED
    BY <1>3, <2>1, <2>2
<1>9. i \in P
  <2> SUFFICES ASSUME i \notin P PROVE FALSE
    OBVIOUS
  <2>1. Below(i) = Below(i - 1)
    <3>1. \A j \in P : j <= i <=> j <= i - 1
      BY <1>1, <1>7
    <3> QED
      BY <3>1
  <2> QED
    BY <1>3, <1>8, <2>1
<1>10. Cardinality(Below(i)) = Cardinality(Below(i - 1)) + 1
  <2>1. Below(i) = Below(i - 1) \cup {i} /\ i \notin Below(i - 1)
    <3>1. \A j \in P : (j <= i <=> j <= i - 1 \/ j = i) /\ ~(i <= i - 1)
      BY <1>1, <1>7
    <3> QED
      BY <1>9, <3>1
  <2> HIDE DEF Below
  <2> QED
    BY <1>2, <1>7, <2>1, FS_AddElement
<1>11. Cardinality(Below(i)) = k
  BY <1>3, <1>8, <1>10
<1> QED
  BY <1>9, <1>11

\* Those are as many as their places, and each is at one of them.
LEMMA ThoseAre ==
  ASSUME NEW S, NEW seq \in Seq(S), NEW places \in SUBSET (DOMAIN seq)
  PROVE  /\ Those(seq, places) \in Seq(S)
         /\ Len(Those(seq, places)) = Cardinality(places)
         /\ Len(Those(seq, places)) \in Nat /\ Len(Those(seq, places)) <= Len(seq)
         /\ \A k \in 1 .. Len(Those(seq, places)) : \E i \in places : Those(seq, places)[k] = seq[i]
<1> DEFINE n == Len(seq)
           m == Cardinality(places)
           At(k) == CHOOSE i \in places : Cardinality({j \in places : j <= i}) = k
<1>1. n \in Nat /\ DOMAIN seq = 1 .. n
  OBVIOUS
<1>2. IsFiniteSet(1 .. n) /\ Cardinality(1 .. n) = n
  <2>1. 1 \in Int /\ n \in Int
    BY <1>1
  <2>2. IsFiniteSet(1 .. n) /\ Cardinality(1 .. n) = IF 1 > n THEN 0 ELSE n - 1 + 1
    BY <2>1, FS_Interval
  <2> QED
    BY <1>1, <2>2
<1>3. m \in Nat /\ m <= n
  BY <1>1, <1>2, FS_Subset, FS_CardinalityType
<1>4. \A k \in 1 .. m : At(k) \in places
  BY <1>1, PlaceOfRank
<1>5. Those(seq, places) = [k \in 1 .. m |-> seq[At(k)]]
  BY DEF Those
<1>6. \A k \in 1 .. m : seq[At(k)] \in S
  <2>1. \A i \in places : seq[i] \in S
    BY <1>1
  <2> HIDE DEF At
  <2> QED
    BY <1>4, <2>1
<1> HIDE DEF At, m
<1>7. Those(seq, places) \in Seq(S) /\ Len(Those(seq, places)) = m
  BY <1>3, <1>5, <1>6
<1>8. \A k \in 1 .. m : \E i \in places : Those(seq, places)[k] = seq[i]
  BY <1>4, <1>5
<1> QED
  BY <1>3, <1>7, <1>8 DEF m

\* Taking every place takes the sequence.
LEMMA ThoseAll ==
  ASSUME NEW S, NEW seq \in Seq(S)
  PROVE  Those(seq, DOMAIN seq) = seq
<1> DEFINE n == Len(seq)
<1>1. n \in Nat /\ DOMAIN seq = 1 .. n /\ seq = [k \in 1 .. n |-> seq[k]]
  OBVIOUS
<1>2. ASSUME NEW i \in 1 .. n PROVE Cardinality({j \in 1 .. n : j <= i}) = i
  <2>1. {j \in 1 .. n : j <= i} = 1 .. i
    BY <1>1
  <2>2. i \in Int /\ 1 \in Int /\ i >= 1
    BY <1>1
  <2>3. Cardinality(1 .. i) = IF 1 > i THEN 0 ELSE i - 1 + 1
    BY <2>2, FS_Interval
  <2>4. Cardinality(1 .. i) = i
    BY <2>2, <2>3
  <2> QED
    BY <2>1, <2>4
<1>3. Cardinality(1 .. n) = n
  <2>1. 1 \in Int /\ n \in Int
    BY <1>1
  <2>2. Cardinality(1 .. n) = IF 1 > n THEN 0 ELSE n - 1 + 1
    BY <2>1, FS_Interval
  <2> QED
    BY <1>1, <2>2
<1>4. ASSUME NEW k \in 1 .. n
      PROVE  (CHOOSE i \in 1 .. n : Cardinality({j \in 1 .. n : j <= i}) = k) = k
  BY <1>2
<1>5. Those(seq, 1 .. n) = [k \in 1 .. n |-> seq[k]]
  <2> DEFINE At(k) == CHOOSE i \in 1 .. n : Cardinality({j \in 1 .. n : j <= i}) = k
  <2>1. Those(seq, 1 .. n) = [k \in 1 .. n |-> seq[At(k)]]
    BY <1>3 DEF Those
  <2>2. \A k \in 1 .. n : At(k) = k
    BY <1>4
  <2> HIDE DEF At
  <2> QED
    BY <2>1, <2>2
<1> QED
  BY <1>1, <1>5

\* The last of a sequence are at its end, as many as asked for if it has them.
LEMMA LastOfIs ==
  ASSUME NEW S, NEW seq \in Seq(S), NEW n \in Nat
  PROVE  /\ LastOf(seq, n) \in Seq(S)
         /\ Len(LastOf(seq, n)) = (IF Len(seq) <= n THEN Len(seq) ELSE n)
         /\ Len(seq) \in Nat /\ Len(LastOf(seq, n)) \in Nat /\ Len(LastOf(seq, n)) <= n
         /\ \A k \in 1 .. Len(LastOf(seq, n)) :
              \E i \in 1 .. Len(seq) : /\ LastOf(seq, n)[k] = seq[i]
                                       /\ k = Len(LastOf(seq, n)) => i = Len(seq)
<1> DEFINE l == Len(seq)
           first == l - n + 1
<1>1. l \in Nat /\ n \in Nat /\ \A i \in 1 .. l : seq[i] \in S
  OBVIOUS
<1>2. CASE l <= n
  <2>1. LastOf(seq, n) = seq
    BY <1>2 DEF LastOf
  <2>2. \A k \in 1 .. l : k = l => k = Len(seq)
    OBVIOUS
  <2> QED
    BY <1>1, <1>2, <2>1, <2>2
<1>3. CASE ~(l <= n)
  <2>1. first \in Int /\ l \in Int /\ first <= l + 1 /\ first >= 1 /\ l - first + 1 = n
    <3> HIDE DEF l
    <3> QED
      BY <1>1, <1>3
  <2>2. LastOf(seq, n) = SubSeq(seq, first, l)
    BY <1>3 DEF LastOf
  <2>3. \A i \in first .. l : seq[i] \in S
    BY <1>1, <2>1
  <2> HIDE DEF first, l
  <2>4. /\ LastOf(seq, n) \in Seq(S) /\ Len(LastOf(seq, n)) = l - first + 1
        /\ \A i \in 1 .. l - first + 1 : LastOf(seq, n)[i] = seq[first + i - 1]
    BY <2>1, <2>2, <2>3, SubSeqProperties
  <2>5. \A i \in 1 .. n : first + i - 1 \in 1 .. l /\ (i = n => first + i - 1 = l)
    BY <1>1, <2>1
  <2> QED
    BY <1>1, <1>3, <2>1, <2>4, <2>5 DEF l
<1> QED
  BY <1>2, <1>3

----------------------------------------------------------------------------
(* The candles that the filters are given. *)

LEMMA Numbers ==
  /\ MaxCandles \in Nat /\ MaxCandles >= 2 /\ DetailFloor \in Nat /\ DetailFloor >= 1
  /\ DetailFloor <= MaxCandles /\ MinDead \in Nat
BY NumberAssumption

LEMMA RequestTyped ==
  ASSUME request \in Request
  PROVE  /\ request.on \subseteq Filter /\ request.forming \in BOOLEAN /\ request.crypto \in BOOLEAN
         /\ request.adr.days \in Nat /\ request.adr.days >= 1
         /\ request.gap.days \in Nat /\ request.gap.days >= 1
<1>1. request \in RequestType
  BY RequestAssumption
<1> QED
  BY <1>1 DEF RequestType

LEMMA MarketTyped ==
  ASSUME market \in Market, NEW s \in Symbol
  PROVE  market.candles[s] \in Seq(Candle) /\ market.days[s] \in Seq(Day)
BY MarketAssumption

\* A scan asks for one candle at least, and no more than the screener allows.
LEMMA RequiredIs ==
  ASSUME request \in Request
  PROVE  Required \in Nat /\ Required >= 1 /\ Required <= MaxCandles
<1> DEFINE asked == {1} \cup {Asked(f) : f \in request.on \cap Charted}
           b == Need["dead_assets"] + Need["indicators"] + Need["channel_respect"]
                  + Need["confluence"] + 1
<1>1. /\ Need["dead_assets"] \in Nat /\ Need["indicators"] \in Nat
      /\ Need["channel_respect"] \in Nat /\ Need["confluence"] \in Nat
  BY NeedAssumption DEF Charted
<1>2. \A f \in Charted : Asked(f) \in Nat /\ Asked(f) <= b
  <2>1. ASSUME NEW f \in Charted PROVE Asked(f) \in Nat /\ Asked(f) <= b
    <3>1. Asked(f) = 1 \/ Asked(f) = Need[f]
      BY DEF Asked
    <3>2. f = "dead_assets" \/ f = "indicators" \/ f = "channel_respect" \/ f = "confluence"
      BY DEF Charted
    <3> QED
      BY <1>1, <3>1, <3>2
  <2> QED
    BY <2>1
<1>3. asked \subseteq Nat /\ 1 \in asked /\ b \in Nat /\ \A x \in asked : x <= b
  BY <1>1, <1>2
<1> HIDE DEF asked, b
<1>4. \E n \in asked : \A m \in asked : m <= n
  <2>1. asked \in SUBSET Nat /\ asked # {}
    BY <1>3
  <2> QED
    BY <1>3, <2>1, GreatestNumber
<1> DEFINE most == CHOOSE n \in asked : \A m \in asked : m <= n
<1>5. most \in asked /\ \A m \in asked : m <= most
  BY <1>4
<1>6. most \in Nat /\ most >= 1
  BY <1>3, <1>5
<1>7. Required = Lesser(MaxCandles, most)
  BY DEF Required, asked
<1> HIDE DEF most
<1> QED
  BY <1>6, <1>7, Numbers DEF Lesser

LEMMA BeforeIs ==
  ASSUME NEW candles \in Seq(Candle), NEW t \in Int
  PROVE  /\ Before(candles, t) \in Seq(Candle)
         /\ Len(Before(candles, t)) \in Nat /\ Len(Before(candles, t)) <= Len(candles)
         /\ \A k \in 1 .. Len(Before(candles, t)) : Before(candles, t)[k].time < t
<1> DEFINE places == {i \in DOMAIN candles : candles[i].time < t}
<1>1. places \in SUBSET (DOMAIN candles) /\ Before(candles, t) = Those(candles, places)
  BY DEF Before
<1>2. \A i \in places : candles[i].time < t
  OBVIOUS
<1> HIDE DEF places
<1> QED
  BY <1>1, <1>2, ThoseAre

LEMMA DaysBeforeIs ==
  ASSUME NEW days \in Seq(Day), NEW t \in Int
  PROVE  /\ DaysBefore(days, t) \in Seq(Day)
         /\ Len(DaysBefore(days, t)) \in Nat /\ Len(DaysBefore(days, t)) <= Len(days)
         /\ \A k \in 1 .. Len(DaysBefore(days, t)) : DaysBefore(days, t)[k].day < t
<1> DEFINE places == {i \in DOMAIN days : days[i].day < t}
<1>1. places \in SUBSET (DOMAIN days) /\ DaysBefore(days, t) = Those(days, places)
  BY DEF DaysBefore
<1>2. \A i \in places : days[i].day < t
  OBVIOUS
<1> HIDE DEF places
<1> QED
  BY <1>1, <1>2, ThoseAre

LEMMA PricesAre ==
  ASSUME NEW candles \in Seq(Candle)
  PROVE  /\ Prices(candles) \in Seq(Price) /\ Len(Prices(candles)) = Len(candles)
         /\ Len(candles) \in Nat
         /\ \A i \in 1 .. Len(candles) : Prices(candles)[i] = candles[i].price
<1>1. Len(candles) \in Nat /\ DOMAIN candles = 1 .. Len(candles)
  OBVIOUS
<1>2. ASSUME NEW i \in 1 .. Len(candles) PROVE candles[i].price \in Price
  <2>1. candles[i] \in Candle
    BY <1>1
  <2> QED
    BY <2>1 DEF Candle
<1>3. Prices(candles) = [i \in 1 .. Len(candles) |-> candles[i].price]
  BY <1>1 DEF Prices
<1> QED
  BY <1>1, <1>2, <1>3

\* The candles before the one that forms, or up to it, are of the market.
Known(s) == Before(market.candles[s], IF request.forming THEN now + 1 ELSE now)

LEMMA FetchedIs ==
  ASSUME request \in Request, market \in Market, now \in Nat, NEW s \in Symbol, NEW limit \in Nat
  PROVE  /\ Known(s) \in Seq(Candle) /\ Fetched(s, limit) = LastOf(Known(s), limit)
         /\ Fetched(s, limit) \in Seq(Candle)
         /\ Len(Fetched(s, limit)) \in Nat /\ Len(Fetched(s, limit)) <= limit
<1>1. (IF request.forming THEN now + 1 ELSE now) \in Int
  OBVIOUS
<1>2. Known(s) \in Seq(Candle)
  BY <1>1, MarketTyped, BeforeIs DEF Known
<1>3. Fetched(s, limit) = LastOf(Known(s), limit)
  BY DEF Fetched, Known
<1> QED
  BY <1>2, <1>3, LastOfIs

LEMMA CompletedIs ==
  ASSUME request \in Request, market \in Market, now \in Nat, NEW s \in Symbol, NEW limit \in Nat
  PROVE  /\ Completed(s, limit) \in Seq(Price)
         /\ Len(Completed(s, limit)) \in Nat /\ Len(Completed(s, limit)) <= limit
<1> DEFINE n == Lesser(MaxCandles, limit + 1)
           closed == Before(Fetched(s, n), now)
<1>1. n \in Nat
  BY Numbers DEF Lesser
<1> HIDE DEF n
<1>2. Fetched(s, n) \in Seq(Candle) /\ now \in Int
  BY <1>1, FetchedIs
<1>3. closed \in Seq(Candle)
  BY <1>2, BeforeIs
<1>4. Prices(closed) \in Seq(Price)
  BY <1>3, PricesAre
<1>5. Completed(s, limit) = LastOf(Prices(closed), limit)
  BY DEF Completed, n
<1> HIDE DEF closed
<1> QED
  BY <1>4, <1>5, LastOfIs

\* The windows of the scan and of the detail view are prices, and the scan's no
\* longer than asked for.
LEMMA WindowsAre ==
  ASSUME request \in Request, market \in Market, now \in Nat, NEW s \in Symbol
  PROVE  /\ ScanWindow(s) \in Seq(Price) /\ Len(ScanWindow(s)) \in Nat
         /\ Len(ScanWindow(s)) <= Required
         /\ DetailWindow(s) \in Seq(Price)
<1>1. Required \in Nat /\ Required >= 1 /\ DetailFloor \in Nat
  BY RequiredIs, Numbers
<1>2. ScanWindow(s) \in Seq(Price) /\ Len(ScanWindow(s)) \in Nat /\ Len(ScanWindow(s)) <= Required
  <2>1. CASE NeedsHistory
    BY <1>1, <2>1, CompletedIs DEF ScanWindow
  <2>2. CASE ~NeedsHistory
    <3>1. 1 \in Nat
      OBVIOUS
    <3>2. /\ Fetched(s, 1) \in Seq(Candle)
          /\ Len(Fetched(s, 1)) \in Nat /\ Len(Fetched(s, 1)) <= 1
      BY <3>1, FetchedIs
    <3>3. ScanWindow(s) = Prices(Fetched(s, 1))
      BY <2>2 DEF ScanWindow
    <3>4. ScanWindow(s) \in Seq(Price) /\ Len(ScanWindow(s)) = Len(Fetched(s, 1))
      BY <3>2, <3>3, PricesAre
    <3> QED
      BY <1>1, <3>2, <3>4
  <2> QED
    BY <2>1, <2>2
<1>3. DetailWindow(s) \in Seq(Price)
  <2>1. (IF Required < DetailFloor THEN DetailFloor ELSE Required) \in Nat
    BY <1>1
  <2> QED
    BY <2>1, CompletedIs DEF DetailWindow
<1> QED
  BY <1>2, <1>3

\* The days of a filter are over: as many as asked for, or none when they must be all.
LEMMA DailyWindowIs ==
  ASSUME request \in Request, market \in Market, today \in Nat, NEW s \in Symbol,
         NEW days \in Nat, NEW minimum \in Nat
  PROVE  /\ DailyWindow(s, days, minimum) \in Seq(Day)
         /\ \A k \in 1 .. Len(DailyWindow(s, days, minimum)) :
              DailyWindow(s, days, minimum)[k].day < today
         /\ minimum = days => \/ DailyWindow(s, days, minimum) = <<>>
                              \/ Len(DailyWindow(s, days, minimum)) = days
<1> DEFINE n == Lesser(MaxCandles, days + 1)
           recent == LastOf(Daily(s), n)
           closed == DaysBefore(recent, today)
           window == DailyWindow(s, days, minimum)
<1>1. n \in Nat /\ today \in Int /\ (IF request.crypto THEN today + 1 ELSE today) \in Int
  BY Numbers DEF Lesser
<1> HIDE DEF n
<1>2. Daily(s) \in Seq(Day)
  BY <1>1, MarketTyped, DaysBeforeIs DEF Daily
<1>3. recent \in Seq(Day)
  BY <1>1, <1>2, LastOfIs
<1> HIDE DEF recent
<1>4. /\ closed \in Seq(Day) /\ Len(closed) \in Nat
      /\ \A k \in 1 .. Len(closed) : closed[k].day < today
  BY <1>1, <1>3, DaysBeforeIs
<1>5. window = IF Len(closed) < minimum THEN <<>> ELSE LastOf(closed, days)
  BY DEF DailyWindow, recent, n
<1> HIDE DEF closed, window
<1>6. CASE Len(closed) < minimum
  BY <1>5, <1>6 DEF window
<1>7. CASE ~(Len(closed) < minimum)
  <2>1. window = LastOf(closed, days)
    BY <1>5, <1>7
  <2>2. /\ window \in Seq(Day) /\ Len(window) = (IF Len(closed) <= days THEN Len(closed) ELSE days)
        /\ \A k \in 1 .. Len(window) : \E i \in 1 .. Len(closed) : window[k] = closed[i]
    BY <1>4, <2>1, LastOfIs
  <2>3. minimum = days => Len(window) = days
    BY <1>4, <1>7, <2>2
  <2> QED
    BY <1>4, <2>2, <2>3 DEF window
<1> QED
  BY <1>6, <1>7
----------------------------------------------------------------------------
(* The stages of a scan. *)

\* The stages in their order; indicators only when they are asked for.
StageAt(i) ==
  CASE i = 1 -> "price_range"
    [] i = 2 -> "dead_assets"
    [] i = 3 -> "adr"
    [] i = 4 -> "gap_exclusion"
    [] i = 5 /\ On("indicators") -> "indicators"
    [] OTHER -> "post_filters"

Asset == [window : Seq(Price), price : Nat, told : Seq(Filter)]

ScanTyped ==
  /\ request \in Request /\ market \in Market /\ now \in Nat /\ today \in Nat /\ steady \in BOOLEAN
  /\ scan = [pc |-> scan.pc, fetched |-> scan.fetched, left |-> scan.left, stages |-> scan.stages,
             assets |-> scan.assets, adr |-> scan.adr, gap |-> scan.gap]
  /\ scan.pc \in Stage \cup {"fetching", "answered"}
  /\ scan.fetched \subseteq Symbol
  /\ scan.stages \in Seq([name : Stage, left : SUBSET Symbol])
  /\ scan.assets \in [Symbol -> Asset]
  /\ \A s \in Symbol : Len(scan.assets[s].window) <= Required
  /\ scan.adr \in [Symbol -> Seq(Day)] /\ scan.gap \in [Symbol -> Seq(Day)]

DetailTyped ==
  /\ detail = [pc |-> detail.pc, symbol |-> detail.symbol, window |-> detail.window,
               passed |-> detail.passed]
  /\ detail.pc \in {"idle", "adr", "gap_exclusion", "shown", "missing", "failed"}
  /\ detail.symbol \in Symbol /\ detail.window \in Seq(Price)
  /\ detail.passed \in [Filter -> BOOLEAN]

\* How many stages are over.
Course ==
  /\ scan.pc \in {"fetching", "price_range"} => Len(scan.stages) = 0
  /\ scan.pc = "dead_assets" => Len(scan.stages) = 1
  /\ scan.pc = "adr" => Len(scan.stages) = 2
  /\ scan.pc = "gap_exclusion" => Len(scan.stages) = 3
  /\ scan.pc = "indicators" => Len(scan.stages) = 4 /\ On("indicators")
  /\ scan.pc = "post_filters" => Len(scan.stages) = (IF On("indicators") THEN 5 ELSE 4)
  /\ scan.pc = "answered" =>
       \/ Len(scan.stages) = 0 /\ scan.fetched = {}
       \/ Len(scan.stages) = (IF On("indicators") THEN 6 ELSE 5)
  /\ scan.pc \notin {"channel_respect", "confluence"}

\* The filter of a stage fails a symbol, on the candles it was given.
Fails(s, stage) ==
  LET asset == scan.assets[s]
  IN CASE stage = "price_range" -> On("price_range") /\ ~InPriceRange(asset.price)
       [] stage = "dead_assets" -> On("dead_assets") /\ DeadOutcome(asset.window) = "fails"
       [] stage = "adr" -> On("adr") /\ AdrApplies /\ ~AdrPasses(scan.adr[s])
       [] stage = "gap_exclusion" -> On("gap_exclusion") /\ ~GapPasses(scan.gap[s])
       [] stage = "indicators" -> On("indicators") /\ IndicatorOutcome(s, asset.window) # "passes"
       [] OTHER -> \E f \in {"channel_respect", "confluence"} :
                     On(f) /\ Verdict(f, asset.window) # "passes"

\* The symbols left after the i-th stage.
LeftAt(i) == IF i = 0 THEN scan.fetched ELSE scan.stages[i].left

\* Each stage has left the symbols left to it that it does not fail, and no
\* symbol has come back.
Judged ==
  /\ \A i \in 1 .. Len(scan.stages) :
       /\ scan.stages[i].name = StageAt(i)
       /\ LeftAt(i) = {s \in LeftAt(i - 1) : ~Fails(s, StageAt(i))}
  /\ scan.left = LeftAt(Len(scan.stages))
  /\ \A i \in 0 .. Len(scan.stages) : scan.left \subseteq LeftAt(i)

\* The days an average range is over are those asked for, and they are over.
DaysRead ==
  \A s \in Symbol :
    /\ scan.adr[s] = <<>> \/ Len(scan.adr[s]) = request.adr.days
    /\ \A k \in 1 .. Len(scan.adr[s]) : scan.adr[s][k].day < today

IInv == ScanTyped /\ DetailTyped /\ Course /\ Judged /\ DaysRead

----------------------------------------------------------------------------
(* The market at rest. *)

\* The scan was given what the provider still says.
ScanCurrent ==
  /\ scan.pc # "fetching" => scan.fetched = {s \in Symbol : ScanWindow(s) # <<>>}
  /\ \A s \in scan.fetched : /\ scan.assets[s].window = ScanWindow(s)
                             /\ scan.assets[s].price = Last(ScanWindow(s))
  /\ Len(scan.stages) >= 3 /\ On("adr") /\ AdrApplies =>
       \A s \in LeftAt(2) : scan.adr[s] = DailyWindow(s, request.adr.days, request.adr.days)
  /\ Len(scan.stages) >= 4 /\ On("gap_exclusion") =>
       \A s \in LeftAt(3) : scan.gap[s] = DailyWindow(s, request.gap.days, 2)

\* What the filters say of s on what the provider still says, at the step pc of
\* the detail view.
Says(pc, s, window, passed) ==
  /\ pc = "idle" => \A f \in Filter : passed[f]
  /\ pc = "failed" => /\ DetailWindow(s) # <<>> /\ On("indicators")
                      /\ IndicatorOutcome(s, DetailWindow(s)) = "raises"
  /\ pc \in {"adr", "gap_exclusion", "shown"} =>
       /\ window # <<>> /\ window = DetailWindow(s)
       /\ passed["price_range"] <=> (On("price_range") => InPriceRange(Last(window)))
       /\ passed["dead_assets"] <=> (On("dead_assets") => DeadOutcome(window) # "fails")
       /\ passed["indicators"] <=> (On("indicators") => IndicatorOutcome(s, window) = "passes")
  /\ pc = "adr" => passed["adr"]
  /\ pc \in {"gap_exclusion", "shown"} =>
       (passed["adr"] <=> (On("adr") /\ AdrApplies =>
          AdrPasses(DailyWindow(s, request.adr.days, request.adr.days))))
  /\ pc = "shown" =>
       /\ passed["gap_exclusion"] <=>
            (On("gap_exclusion") => GapPasses(DailyWindow(s, request.gap.days, 2)))
       /\ \A f \in {"channel_respect", "confluence"} :
            passed[f] <=> (On(f) => Verdict(f, window) = "passes")

\* So was the detail view, and it has kept what the filters say.
DetailCurrent ==
  /\ Says(detail.pc, detail.symbol, detail.window, detail.passed)
  /\ detail.pc # "idle" => scan.pc = "answered"

Current == steady => ScanCurrent /\ DetailCurrent
----------------------------------------------------------------------------
(* A request is the same for every stage. *)

LEMMA SameRequest ==
  ASSUME request' = request
  PROVE  /\ \A f : On(f)' <=> On(f)
         /\ AdrApplies' <=> AdrApplies
         /\ (NeedsHistory)' <=> NeedsHistory
         /\ Required' = Required
         /\ \A price : InPriceRange(price)' <=> InPriceRange(price)
         /\ \A s, w : IndicatorOutcome(s, w)' = IndicatorOutcome(s, w)
         /\ \A w : DeadOutcome(w)' = DeadOutcome(w)
         /\ \A i : StageAt(i)' = StageAt(i)
<1>1. \A f : On(f)' <=> On(f)
  BY DEF On
<1>2. AdrApplies' <=> AdrApplies
  BY DEF AdrApplies
<1>3. (NeedsHistory)' <=> NeedsHistory
  BY DEF NeedsHistory
<1>4. Required' = Required
  BY DEF Required, Asked
<1>5. \A price : InPriceRange(price)' <=> InPriceRange(price)
  BY DEF InPriceRange
<1>6. \A s, w : IndicatorOutcome(s, w)' = IndicatorOutcome(s, w)
  BY DEF IndicatorOutcome
<1>7. \A w : DeadOutcome(w)' = DeadOutcome(w)
  BY DEF DeadOutcome
<1>8. \A i : StageAt(i)' = StageAt(i)
  BY DEF StageAt, On
<1> QED
  BY <1>1, <1>2, <1>3, <1>4, <1>5, <1>6, <1>7, <1>8

LEMMA StagePlaces ==
  ASSUME NEW i
  PROVE  /\ StageAt(i) = "price_range" <=> i = 1
         /\ StageAt(i) = "dead_assets" <=> i = 2
         /\ StageAt(i) = "adr" <=> i = 3
         /\ StageAt(i) = "gap_exclusion" <=> i = 4
         /\ StageAt(i) \in Stage
<1>1. CASE i = 1
  BY <1>1 DEF StageAt, Stage, Filter
<1>2. CASE i = 2
  BY <1>2 DEF StageAt, Stage, Filter
<1>3. CASE i = 3
  BY <1>3 DEF StageAt, Stage, Filter
<1>4. CASE i = 4
  BY <1>4 DEF StageAt, Stage, Filter
<1>5. CASE i \notin {1, 2, 3, 4}
  <2>1. StageAt(i) = "indicators" \/ StageAt(i) = "post_filters"
    BY <1>5 DEF StageAt
  <2> QED
    BY <1>5, <2>1 DEF Stage, Filter
<1> QED
  BY <1>1, <1>2, <1>3, <1>4, <1>5

LEMMA SameAdr ==
  ASSUME request' = request, NEW w
  PROVE  AdrPasses(w)' <=> AdrPasses(w)
BY DEF AdrPasses

LEMMA SameGap ==
  ASSUME request' = request, NEW w
  PROVE  GapPasses(w)' <=> GapPasses(w)
<1>1. Gaps(w)' = Gaps(w)
  BY DEF Gaps, Adjacent, GapUp, GapDown
<1> QED
  BY <1>1 DEF GapPasses

\* A stage judges a symbol by the same candles for the rest of the scan.
LEMMA FailsKept ==
  ASSUME request' = request, NEW s, NEW i,
         scan'.assets[s].window = scan.assets[s].window,
         scan'.assets[s].price = scan.assets[s].price,
         StageAt(i) = "adr" => scan'.adr[s] = scan.adr[s],
         StageAt(i) = "gap_exclusion" => scan'.gap[s] = scan.gap[s]
  PROVE  Fails(s, StageAt(i))' <=> Fails(s, StageAt(i))
<1>0. StageAt(i)' = StageAt(i)
  BY SameRequest
<1>1. CASE StageAt(i) = "price_range"
  BY <1>0, <1>1, SameRequest DEF Fails
<1>2. CASE StageAt(i) = "dead_assets"
  BY <1>0, <1>2, SameRequest DEF Fails
<1>3. CASE StageAt(i) = "adr"
  BY <1>0, <1>3, SameRequest, SameAdr DEF Fails
<1>4. CASE StageAt(i) = "gap_exclusion"
  BY <1>0, <1>4, SameRequest, SameGap DEF Fails
<1>5. CASE StageAt(i) = "indicators"
  BY <1>0, <1>5, SameRequest DEF Fails
<1>6. CASE StageAt(i) \notin {"price_range", "dead_assets", "adr", "gap_exclusion", "indicators"}
  BY <1>0, <1>6, SameRequest DEF Fails
<1> QED
  BY <1>1, <1>2, <1>3, <1>4, <1>5, <1>6

----------------------------------------------------------------------------
(* A stage ends. *)

LEMMA LeftTyped ==
  ASSUME ScanTyped, Judged
  PROVE  /\ scan.left \subseteq scan.fetched /\ scan.left \subseteq Symbol
         /\ Len(scan.stages) \in Nat
<1>1. Len(scan.stages) \in Nat /\ scan.fetched \subseteq Symbol
  BY DEF ScanTyped
<1>2. scan.left \subseteq LeftAt(0)
  BY <1>1 DEF Judged
<1> QED
  BY <1>1, <1>2 DEF LeftAt

LEMMA StageEndsIs ==
  ASSUME ScanTyped, NEW stage, NEW kept, NEW told \in [Symbol -> Seq(Filter)], NEW next,
         NEW e, e = StageEnds(stage, kept, told, next)
  PROVE  /\ e = [pc |-> next, fetched |-> scan.fetched, left |-> kept,
                 stages |-> Append(scan.stages, [name |-> stage, left |-> kept]),
                 assets |-> e.assets, adr |-> scan.adr, gap |-> scan.gap]
         /\ e.assets \in [Symbol -> Asset]
         /\ \A s \in Symbol : /\ e.assets[s].window = scan.assets[s].window
                              /\ e.assets[s].price = scan.assets[s].price
<1> DEFINE assets == [s \in Symbol |->
                  IF s \in kept THEN [scan.assets[s] EXCEPT !.told = told[s]] ELSE scan.assets[s]]
<1>1. e = [pc |-> next, fetched |-> scan.fetched, left |-> kept,
           stages |-> Append(scan.stages, [name |-> stage, left |-> kept]),
           assets |-> assets, adr |-> scan.adr, gap |-> scan.gap]
  <2>1. scan = [pc |-> scan.pc, fetched |-> scan.fetched, left |-> scan.left, stages |-> scan.stages,
                assets |-> scan.assets, adr |-> scan.adr, gap |-> scan.gap]
    BY DEF ScanTyped
  <2>2. e = [scan EXCEPT !.pc = next, !.left = kept,
               !.stages = Append(scan.stages, [name |-> stage, left |-> kept]), !.assets = assets]
    BY DEF StageEnds
  <2> HIDE DEF assets
  <2> QED
    BY <2>1, <2>2
<1>2. ASSUME NEW s \in Symbol
      PROVE  /\ assets[s] \in Asset
             /\ assets[s].window = scan.assets[s].window /\ assets[s].price = scan.assets[s].price
  <2>1. scan.assets[s] \in Asset /\ told[s] \in Seq(Filter)
    BY DEF ScanTyped
  <2>2. [scan.assets[s] EXCEPT !.told = told[s]] =
          [window |-> scan.assets[s].window, price |-> scan.assets[s].price, told |-> told[s]]
    BY <2>1 DEF Asset
  <2>3. assets[s] = IF s \in kept THEN [scan.assets[s] EXCEPT !.told = told[s]] ELSE scan.assets[s]
    OBVIOUS
  <2> HIDE DEF assets
  <2> QED
    BY <2>1, <2>2, <2>3 DEF Asset
<1>3. assets \in [Symbol -> Asset]
  BY <1>2
<1> HIDE DEF assets
<1>4. e.assets = assets
  BY <1>1
<1> QED
  BY <1>1, <1>2, <1>3, <1>4

\* What a stage does: it leaves those it does not fail, on the candles that
\* were read for it, and touches nothing an earlier stage has judged by.
Closes(stage, next) ==
  /\ UNCHANGED <<request, market, now, today, detail>>
  /\ scan' = [pc |-> next, fetched |-> scan.fetched, left |-> scan'.left,
              stages |-> Append(scan.stages, [name |-> stage, left |-> scan'.left]),
              assets |-> scan'.assets, adr |-> scan'.adr, gap |-> scan'.gap]
  /\ scan'.left \subseteq scan.left
  /\ scan'.assets \in [Symbol -> Asset]
  /\ \A s \in Symbol : /\ scan'.assets[s].window = scan.assets[s].window
                       /\ scan'.assets[s].price = scan.assets[s].price
  /\ scan'.adr \in [Symbol -> Seq(Day)] /\ (scan'.adr = scan.adr \/ stage = "adr")
  /\ scan'.gap \in [Symbol -> Seq(Day)] /\ (scan'.gap = scan.gap \/ stage = "gap_exclusion")
  /\ \A s \in scan.left : s \in scan'.left <=> ~Fails(s, stage)'

LEMMA StageStep ==
  ASSUME ScanTyped, Judged, steady' \in BOOLEAN, NEW n \in Nat, n = Len(scan.stages),
         NEW stage, stage = StageAt(n + 1), NEW next \in Stage \cup {"answered"},
         Closes(stage, next)
  PROVE  /\ ScanTyped' /\ Judged' /\ scan'.pc = next
         /\ Len(scan'.stages) = n + 1
<1> DEFINE noted == [name |-> stage, left |-> scan'.left]
           Noted == [name : Stage, left : SUBSET Symbol]
<1>0. UNCHANGED <<request, market, now, today, detail>> /\ stage \in Stage
  BY StagePlaces DEF Closes
<1>1. /\ scan' = [pc |-> next, fetched |-> scan.fetched, left |-> scan'.left,
                  stages |-> Append(scan.stages, noted),
                  assets |-> scan'.assets, adr |-> scan'.adr, gap |-> scan'.gap]
      /\ scan'.pc = next /\ scan'.fetched = scan.fetched
      /\ scan'.stages = Append(scan.stages, noted)
      /\ scan'.assets \in [Symbol -> Asset]
      /\ \A s \in Symbol : /\ scan'.assets[s].window = scan.assets[s].window
                           /\ scan'.assets[s].price = scan.assets[s].price
      /\ scan'.adr \in [Symbol -> Seq(Day)] /\ (scan'.adr = scan.adr \/ stage = "adr")
      /\ scan'.gap \in [Symbol -> Seq(Day)] /\ (scan'.gap = scan.gap \/ stage = "gap_exclusion")
      /\ scan'.left \subseteq scan.left
  BY DEF Closes
<1>2. scan.left \subseteq scan.fetched /\ scan.left \subseteq Symbol
  BY LeftTyped
<1>3. /\ scan.stages \in Seq(Noted) /\ noted \in Noted /\ n \in Nat
      /\ scan'.stages \in Seq(Noted) /\ Len(scan'.stages) = n + 1
      /\ \A i \in 1 .. n : scan'.stages[i] = scan.stages[i]
      /\ scan'.stages[n + 1] = noted
  <2>1. scan.stages \in Seq(Noted) /\ noted \in Noted
    BY <1>0, <1>1, <1>2 DEF ScanTyped
  <2>2. n \in Nat
    BY <2>1
  <2> HIDE DEF noted, Noted
  <2> QED
    BY <1>1, <2>1, <2>2, AppendProperties
<1>4. ScanTyped'
  <2>1. \A s \in Symbol : Len(scan'.assets[s].window) <= Required
    BY <1>1 DEF ScanTyped
  <2>2. Required' = Required
    BY <1>0, SameRequest
  <2>3. scan'.pc \in Stage \cup {"answered"}
    BY <1>1
  <2>4. request \in Request /\ market \in Market /\ now \in Nat /\ today \in Nat /\ scan.fetched \subseteq Symbol
    BY DEF ScanTyped
  <2> QED
    BY <1>0, <1>1, <1>3, <2>1, <2>2, <2>3, <2>4 DEF ScanTyped
<1>5. \A i : StageAt(i)' = StageAt(i)
  BY <1>0, SameRequest
<1>6. ASSUME NEW i \in 1 .. n, NEW s \in Symbol
      PROVE  Fails(s, StageAt(i))' <=> Fails(s, StageAt(i))
  <2>0. (StageAt(i) = "adr" => i = 3) /\ (StageAt(i) = "gap_exclusion" => i = 4)
    BY StagePlaces
  <2>1. (stage = "adr" => n + 1 = 3) /\ (stage = "gap_exclusion" => n + 1 = 4)
    BY StagePlaces
  <2>2. /\ StageAt(i) = "adr" => scan'.adr[s] = scan.adr[s]
        /\ StageAt(i) = "gap_exclusion" => scan'.gap[s] = scan.gap[s]
    BY <1>1, <2>0, <2>1
  <2>3. scan'.assets[s].window = scan.assets[s].window /\ scan'.assets[s].price = scan.assets[s].price
    BY <1>1
  <2> QED
    BY <1>0, <2>2, <2>3, FailsKept
<1>7. /\ \A i \in 0 .. n : LeftAt(i)' = LeftAt(i)
      /\ LeftAt(n + 1)' = scan'.left
  BY <1>1, <1>3 DEF LeftAt
<1>8. /\ \A i \in 1 .. n : scan'.stages[i].name = StageAt(i)'
      /\ scan'.stages[n + 1].name = StageAt(n + 1)'
  BY <1>3, <1>5 DEF Judged
<1>9. ASSUME NEW i \in 1 .. n
      PROVE  LeftAt(i)' = {s \in LeftAt(i - 1)' : ~Fails(s, StageAt(i))'}
  <2>1. LeftAt(i)' = LeftAt(i) /\ LeftAt(i - 1)' = LeftAt(i - 1)
    BY <1>3, <1>7
  <2>2. LeftAt(i) = {s \in LeftAt(i - 1) : ~Fails(s, StageAt(i))}
    BY DEF Judged
  <2>3. LeftAt(i - 1) \subseteq Symbol
    <3>1. CASE i = 1
      BY <3>1 DEF LeftAt, ScanTyped
    <3>2. CASE i # 1
      <4>1. i - 1 \in 1 .. n /\ i - 1 # 0
        BY <3>2
      <4> HIDE DEF Noted
      <4>2. scan.stages[i - 1] \in Noted
        <5>1. scan.stages \in Seq(Noted) /\ Len(scan.stages) = n
          BY <1>3
        <5> QED
          BY <4>1, <5>1
      <4> USE DEF Noted
      <4> QED
        BY <4>1, <4>2 DEF LeftAt
    <3> QED
      BY <3>1, <3>2
  <2>4. \A s \in LeftAt(i - 1) : Fails(s, StageAt(i))' <=> Fails(s, StageAt(i))
    BY <1>6, <2>3
  <2> QED
    BY <2>1, <2>2, <2>4
<1>10. LeftAt(n + 1)' = {s \in LeftAt(n)' : ~Fails(s, StageAt(n + 1))'}
  <2>0. \A s \in scan.left : s \in scan'.left <=> ~Fails(s, StageAt(n + 1))'
    <3>1. stage = StageAt(n + 1)'
      BY <1>5
    <3> QED
      BY <3>1 DEF Closes
  <2>1. LeftAt(n)' = LeftAt(n) /\ LeftAt(n) = scan.left
    BY <1>3, <1>7 DEF Judged
  <2> QED
    BY <1>1, <1>7, <2>0, <2>1
<1>11. \A i \in 0 .. n + 1 : scan'.left \subseteq LeftAt(i)'
  <2>1. \A i \in 0 .. n : scan'.left \subseteq LeftAt(i)'
    BY <1>1, <1>7 DEF Judged
  <2>2. \A i \in 0 .. n + 1 : i \in 0 .. n \/ i = n + 1
    OBVIOUS
  <2> QED
    BY <1>7, <2>1, <2>2
<1>12. Judged'
  <2>1. Len(scan'.stages) = n + 1 /\ n \in Nat /\ (n + 1) - 1 = n
    BY <1>3
  <2>2. ASSUME NEW i \in 1 .. Len(scan'.stages)
        PROVE  /\ scan'.stages[i].name = StageAt(i)'
               /\ LeftAt(i)' = {s \in LeftAt(i - 1)' : ~Fails(s, StageAt(i))'}
    <3>1. CASE i \in 1 .. n
      BY <1>8, <1>9, <3>1
    <3>2. CASE i = n + 1
      BY <1>8, <1>10, <2>1, <3>2
    <3> QED
      BY <2>1, <3>1, <3>2
  <2>3. scan'.left = LeftAt(Len(scan.stages))'
    BY <1>1, <1>7, <2>1
  <2>4. \A i \in 0 .. Len(scan'.stages) : scan'.left \subseteq LeftAt(i)'
    BY <1>1, <1>11, <2>1
  <2> QED
    BY <2>2, <2>3, <2>4 DEF Judged
<1> QED
  BY <1>1, <1>3, <1>4, <1>12

LEMMA ToldAre ==
  ASSUME ScanTyped, NEW f \in Filter, NEW marked
  PROVE  Told \in [Symbol -> Seq(Filter)] /\ Adding(f, marked) \in [Symbol -> Seq(Filter)]
<1>1. Told \in [Symbol -> Seq(Filter)]
  BY DEF Told, ScanTyped, Asset
<1>2. \A s \in Symbol : Append(Told[s], f) \in Seq(Filter)
  BY <1>1
<1> QED
  BY <1>1, <1>2 DEF Adding

LEMMA StartsWell == Init => IInv
<1> SUFFICES ASSUME Init PROVE IInv
  OBVIOUS
<1>0. Symbol # {} /\ Start.now \in Nat /\ Start.today \in Nat
  BY NumberAssumption
<1>1. /\ NoAsset \in Asset /\ Len(NoAsset.window) = 0
      /\ NoDays \in [Symbol -> Seq(Day)] /\ \A s \in Symbol : NoDays[s] = <<>>
      /\ Len(<<>>) = 0 /\ \A S : <<>> \in Seq(S)
  BY DEF NoAsset, NoDays, Asset
<1>2. request \in Request /\ market \in Market /\ Required \in Nat
  BY RequiredIs DEF Init
<1>3. scan = [pc |-> "fetching", fetched |-> {}, left |-> {}, stages |-> <<>>,
             assets |-> [s \in Symbol |-> NoAsset], adr |-> NoDays, gap |-> NoDays]
  BY DEF Init
<1>4. ScanTyped
  BY <1>0, <1>1, <1>2, <1>3 DEF ScanTyped, Init
<1>5. DetailTyped
  <2>1. (CHOOSE s \in Symbol : TRUE) \in Symbol
    BY <1>0
  <2> QED
    BY <1>1, <2>1 DEF DetailTyped, Init
<1>6. Course
  BY <1>1, <1>3 DEF Course
<1>7. Judged
  BY <1>1, <1>3 DEF Judged, LeftAt
<1>8. DaysRead
  BY <1>1, <1>3 DEF DaysRead
<1> QED
  BY <1>4, <1>5, <1>6, <1>7, <1>8 DEF IInv

----------------------------------------------------------------------------
(* Each stage of the scan is one. *)

LEMMA PlainStage ==
  ASSUME ScanTyped, Judged, UNCHANGED <<request, market, now, today, detail>>,
         NEW stage, NEW kept, kept \subseteq scan.left, NEW told \in [Symbol -> Seq(Filter)], NEW next,
         scan' = StageEnds(stage, kept, told, next)
  PROVE  /\ scan'.left = kept /\ scan'.adr = scan.adr /\ scan'.gap = scan.gap
         /\ \A s \in scan.left : /\ scan'.assets[s].window = scan.assets[s].window
                                 /\ scan'.assets[s].price = scan.assets[s].price
         /\ (\A s \in scan.left : s \in kept <=> ~Fails(s, stage)') => Closes(stage, next)
<1> DEFINE e == StageEnds(stage, kept, told, next)
<1>1. /\ e = [pc |-> next, fetched |-> scan.fetched, left |-> kept,
              stages |-> Append(scan.stages, [name |-> stage, left |-> kept]),
              assets |-> e.assets, adr |-> scan.adr, gap |-> scan.gap]
      /\ e.assets \in [Symbol -> Asset]
      /\ \A s \in Symbol : /\ e.assets[s].window = scan.assets[s].window
                           /\ e.assets[s].price = scan.assets[s].price
  BY StageEndsIs
<1>2. scan' = e /\ UNCHANGED <<request, market, now, today, detail>> /\ scan.left \subseteq Symbol
  BY LeftTyped
<1> HIDE DEF e
<1>3. /\ scan'.left = kept /\ scan'.assets = e.assets /\ scan'.adr = scan.adr /\ scan'.gap = scan.gap
  BY <1>1, <1>2
<1>4. scan.adr \in [Symbol -> Seq(Day)] /\ scan.gap \in [Symbol -> Seq(Day)]
  BY DEF ScanTyped
<1>5. ASSUME \A s \in scan.left : s \in kept <=> ~Fails(s, stage)'
      PROVE  Closes(stage, next)
  BY <1>1, <1>2, <1>3, <1>4, <1>5 DEF Closes
<1> QED
  BY <1>1, <1>2, <1>3, <1>5

LEMMA PriceRangeCloses ==
  ASSUME IInv, PriceRange PROVE Closes("price_range", "dead_assets")
<1> DEFINE kept == {s \in scan.left : On("price_range") => InPriceRange(scan.assets[s].price)}
<1>1. ScanTyped /\ Judged /\ UNCHANGED <<request, market, now, today, detail>>
  BY DEF IInv, PriceRange
<1>2. Told \in [Symbol -> Seq(Filter)]
  BY <1>1, ToldAre DEF Filter
<1>3. scan' = StageEnds("price_range", kept, Told, "dead_assets") /\ kept \subseteq scan.left
  BY DEF PriceRange
<1>4. ASSUME NEW s \in scan.left, scan'.assets[s].price = scan.assets[s].price
      PROVE  s \in kept <=> ~Fails(s, "price_range")'
  BY <1>1, <1>4, SameRequest DEF Fails
<1> HIDE DEF kept
<1> QED
  BY <1>1, <1>2, <1>3, <1>4, PlainStage

LEMMA DeadAssetsCloses ==
  ASSUME IInv, DeadAssets PROVE Closes("dead_assets", "adr")
<1> DEFINE kept == {s \in scan.left : On("dead_assets") => DeadOutcome(Window(s)) # "fails"}
           marked == {s \in scan.left : On("dead_assets") /\ DeadOutcome(Window(s)) = "recovers"}
           told == Adding("dead_assets", marked)
<1>1. ScanTyped /\ Judged /\ UNCHANGED <<request, market, now, today, detail>>
  BY DEF IInv, DeadAssets
<1>2. told \in [Symbol -> Seq(Filter)]
  BY <1>1, ToldAre DEF Filter
<1>3. scan' = StageEnds("dead_assets", kept, told, "adr") /\ kept \subseteq scan.left
  BY DEF DeadAssets
<1>4. ASSUME NEW s \in scan.left, scan'.assets[s].window = scan.assets[s].window
      PROVE  s \in kept <=> ~Fails(s, "dead_assets")'
  BY <1>1, <1>4, SameRequest DEF Fails, Window
<1> HIDE DEF kept, told
<1> QED
  BY <1>1, <1>2, <1>3, <1>4, PlainStage

LEMMA IndicatorsCloses ==
  ASSUME IInv, Indicators PROVE Closes("indicators", "post_filters")
<1> DEFINE kept == {s \in scan.left : IndicatorOutcome(s, Window(s)) = "passes"}
           told == [s \in Symbol |-> <<"indicators">>]
<1>1. ScanTyped /\ Judged /\ UNCHANGED <<request, market, now, today, detail>> /\ On("indicators")
  BY DEF IInv, Indicators, Course
<1>2. told \in [Symbol -> Seq(Filter)]
  BY DEF Filter
<1>3. scan' = StageEnds("indicators", kept, told, "post_filters") /\ kept \subseteq scan.left
  BY DEF Indicators
<1>4. ASSUME NEW s \in scan.left, scan'.assets[s].window = scan.assets[s].window
      PROVE  s \in kept <=> ~Fails(s, "indicators")'
  BY <1>1, <1>4, SameRequest DEF Fails, Window
<1> HIDE DEF kept, told
<1> QED
  BY <1>1, <1>2, <1>3, <1>4, PlainStage

LEMMA PostFiltersCloses ==
  ASSUME IInv, PostFilters PROVE Closes("post_filters", "answered")
<1> DEFINE passes(s, f) == On(f) => Verdict(f, Window(s)) = "passes"
           kept == {s \in scan.left : passes(s, "channel_respect") /\ passes(s, "confluence")}
           names == <<"channel_respect", "confluence", "price_range">>
           places == {i \in DOMAIN names : On(names[i])}
           marks == Those(names, places)
           told == [s \in Symbol |-> Told[s] \o marks]
<1>1. ScanTyped /\ Judged /\ UNCHANGED <<request, market, now, today, detail>>
  BY DEF IInv, PostFilters
<1>2. told \in [Symbol -> Seq(Filter)]
  <2>1. names \in Seq(Filter) /\ places \in SUBSET (DOMAIN names)
    BY DEF Filter
  <2> HIDE DEF names, places
  <2>2. marks \in Seq(Filter)
    BY <2>1, ThoseAre
  <2>3. Told \in [Symbol -> Seq(Filter)]
    BY <1>1, ToldAre DEF Filter
  <2> HIDE DEF marks
  <2> QED
    BY <2>2, <2>3
<1>3. scan' = StageEnds("post_filters", kept, told, "answered") /\ kept \subseteq scan.left
  BY DEF PostFilters
<1>4. ASSUME NEW s \in scan.left, scan'.assets[s].window = scan.assets[s].window
      PROVE  s \in kept <=> ~Fails(s, "post_filters")'
  BY <1>1, <1>4, SameRequest DEF Fails, Window
<1> HIDE DEF kept, told
<1> QED
  BY <1>1, <1>2, <1>3, <1>4, PlainStage

LEMMA DaysOfAre ==
  ASSUME request \in Request, market \in Market, today \in Nat, NEW asked, NEW served,
         NEW days \in Nat, NEW minimum \in Nat, NEW all, all = DaysOf(asked, served, days, minimum)
  PROVE  /\ all \in [Symbol -> Seq(Day)]
         /\ \A s \in Symbol :
              /\ \A k \in 1 .. Len(all[s]) : all[s][k].day < today
              /\ s \in asked /\ s \in served => all[s] = DailyWindow(s, days, minimum)
<1>1. all = [s \in Symbol |-> IF s \in asked \cap served THEN DailyWindow(s, days, minimum) ELSE <<>>]
  BY DEF DaysOf
<1>2. <<>> \in Seq(Day) /\ Len(<<>>) = 0
  OBVIOUS
<1>3. ASSUME NEW s \in Symbol
      PROVE  /\ all[s] \in Seq(Day)
             /\ \A k \in 1 .. Len(all[s]) : all[s][k].day < today
             /\ s \in asked /\ s \in served => all[s] = DailyWindow(s, days, minimum)
  <2>1. CASE s \in asked \cap served
    <3>1. all[s] = DailyWindow(s, days, minimum)
      BY <1>1, <2>1
    <3> QED
      BY <3>1, DailyWindowIs
  <2>2. CASE ~(s \in asked \cap served)
    <3>1. all[s] = <<>>
      BY <1>1, <2>2
    <3> QED
      BY <1>2, <2>2, <3>1
  <2> QED
    BY <2>1, <2>2
<1>4. all \in [Symbol -> Seq(Day)]
  BY <1>1, <1>3
<1> QED
  BY <1>3, <1>4

LEMMA AllDaysOf ==
  ASSUME request \in Request, market \in Market, today \in Nat, NEW asked, NEW served,
         NEW days \in Nat, NEW all, all = DaysOf(asked, served, days, days), NEW s \in Symbol
  PROVE  all[s] = <<>> \/ Len(all[s]) = days
<1>1. all[s] = IF s \in asked \cap served THEN DailyWindow(s, days, days) ELSE <<>>
  BY DEF DaysOf
<1>2. DailyWindow(s, days, days) = <<>> \/ Len(DailyWindow(s, days, days)) = days
  BY DailyWindowIs
<1> QED
  BY <1>1, <1>2

LEMMA AdrCloses ==
  ASSUME IInv, AverageDailyRange
  PROVE  /\ Closes("adr", "gap_exclusion") /\ steady' \in BOOLEAN /\ DaysRead'
         /\ steady' => steady
         /\ steady' /\ On("adr") /\ AdrApplies =>
              \A s \in scan.left : scan'.adr[s] = DailyWindow(s, request.adr.days, request.adr.days)
<1>1. /\ ScanTyped /\ Judged /\ DaysRead /\ UNCHANGED <<request, market, now, today, detail>>
      /\ request \in Request /\ market \in Market /\ today \in Nat
      /\ scan.left \subseteq Symbol
      /\ scan.adr \in [Symbol -> Seq(Day)] /\ scan.gap \in [Symbol -> Seq(Day)]
  BY LeftTyped DEF IInv, AverageDailyRange, ScanTyped
<1>2. CASE On("adr") /\ AdrApplies
  <2>1. PICK served \in SUBSET scan.left :
          LET days == DaysOf(scan.left, served, request.adr.days, request.adr.days)
              kept == {s \in scan.left : AdrPasses(days[s])}
          IN /\ Served(scan.left, served)
             /\ scan' = [StageEnds("adr", kept, Adding("adr", kept), "gap_exclusion")
                           EXCEPT !.adr = days]
    BY <1>2 DEF AverageDailyRange
  <2> DEFINE days == DaysOf(scan.left, served, request.adr.days, request.adr.days)
             kept == {s \in scan.left : AdrPasses(days[s])}
             told == Adding("adr", kept)
             e == StageEnds("adr", kept, told, "gap_exclusion")
  <2>2. steady' \in BOOLEAN
    BY <1>1, <2>1 DEF Served, ScanTyped
  <2>3. told \in [Symbol -> Seq(Filter)]
    BY <1>1, ToldAre DEF Filter
  <2>4. /\ days \in [Symbol -> Seq(Day)]
        /\ \A s \in Symbol : /\ \A k \in 1 .. Len(days[s]) : days[s][k].day < today
                             /\ days[s] = <<>> \/ Len(days[s]) = request.adr.days
    <3>1. request.adr.days \in Nat
      BY <1>1, RequestTyped
    <3>2. ASSUME NEW d \in Nat, NEW w, w = DaysOf(scan.left, served, d, d)
          PROVE  /\ w \in [Symbol -> Seq(Day)]
                 /\ \A s \in Symbol : /\ \A k \in 1 .. Len(w[s]) : w[s][k].day < today
                                      /\ w[s] = <<>> \/ Len(w[s]) = d
      <4>1. request \in Request /\ market \in Market /\ today \in Nat
        BY <1>1
      <4>2. w \in [Symbol -> Seq(Day)] /\ \A s \in Symbol : \A k \in 1 .. Len(w[s]) : w[s][k].day < today
        BY <3>2, <4>1, DaysOfAre
      <4>3. \A s \in Symbol : w[s] = <<>> \/ Len(w[s]) = d
        BY <3>2, <4>1, AllDaysOf
      <4> QED
        BY <4>2, <4>3
    <3> QED
      BY <3>1, <3>2
  <2>5. scan' = [e EXCEPT !.adr = days] /\ kept \subseteq scan.left
    BY <2>1
  <2>6. \A s \in scan.left : s \in kept <=> AdrPasses(days[s])
    OBVIOUS
  <2>e. e = StageEnds("adr", kept, told, "gap_exclusion")
    OBVIOUS
  <2> HIDE DEF days, kept, told, e
  <2>7. /\ e = [pc |-> "gap_exclusion", fetched |-> scan.fetched, left |-> kept,
                stages |-> Append(scan.stages, [name |-> "adr", left |-> kept]),
                assets |-> e.assets, adr |-> scan.adr, gap |-> scan.gap]
        /\ e.assets \in [Symbol -> Asset]
        /\ \A s \in Symbol : /\ e.assets[s].window = scan.assets[s].window
                             /\ e.assets[s].price = scan.assets[s].price
    BY <1>1, <2>3, <2>e, StageEndsIs
  <2>8. /\ scan'.left = kept /\ scan'.assets = e.assets /\ scan'.adr = days /\ scan'.gap = scan.gap
        /\ scan' = [pc |-> "gap_exclusion", fetched |-> scan.fetched, left |-> kept,
                    stages |-> Append(scan.stages, [name |-> "adr", left |-> kept]),
                    assets |-> e.assets, adr |-> days, gap |-> scan.gap]
    <3> DEFINE stages == Append(scan.stages, [name |-> "adr", left |-> kept])
    <3>1. e = [pc |-> "gap_exclusion", fetched |-> scan.fetched, left |-> kept, stages |-> stages,
               assets |-> e.assets, adr |-> scan.adr, gap |-> scan.gap]
      BY <2>7
    <3> HIDE DEF stages
    <3>2. scan' = [pc |-> "gap_exclusion", fetched |-> scan.fetched, left |-> kept, stages |-> stages,
                   assets |-> e.assets, adr |-> days, gap |-> scan.gap]
      BY <2>5, <3>1
    <3> QED
      BY <3>2 DEF stages
  <2>9. ASSUME NEW s \in scan.left PROVE s \in kept <=> ~Fails(s, "adr")'
    BY <1>1, <1>2, <2>6, <2>8, SameRequest, SameAdr DEF Fails
  <2>10. Closes("adr", "gap_exclusion")
    BY <1>1, <2>4, <2>5, <2>7, <2>8, <2>9 DEF Closes
  <2>11. DaysRead'
    BY <1>1, <2>4, <2>8 DEF DaysRead
  <2>12. steady' => steady /\ served = scan.left
    BY <2>1 DEF Served
  <2>13. ASSUME steady', NEW s \in scan.left
         PROVE  scan'.adr[s] = DailyWindow(s, request.adr.days, request.adr.days)
    <3>1. s \in Symbol /\ s \in served
      BY <1>1, <2>12, <2>13
    <3>2. days = [r \in Symbol |-> IF r \in scan.left \cap served
                                  THEN DailyWindow(r, request.adr.days, request.adr.days) ELSE <<>>]
      BY DEF days, DaysOf
    <3>3. days[s] = DailyWindow(s, request.adr.days, request.adr.days)
      BY <3>1, <3>2
    <3> QED
      BY <2>8, <3>3
  <2> QED
    BY <2>2, <2>10, <2>11, <2>12, <2>13
<1>3. CASE ~(On("adr") /\ AdrApplies)
  <2>1. scan' = StageEnds("adr", scan.left, Told, "gap_exclusion") /\ UNCHANGED steady
    BY <1>3 DEF AverageDailyRange
  <2>2. Told \in [Symbol -> Seq(Filter)]
    BY <1>1, ToldAre DEF Filter
  <2>3. \A s \in scan.left : ~Fails(s, "adr")'
    BY <1>1, <1>3, SameRequest DEF Fails
  <2>4. Closes("adr", "gap_exclusion") /\ scan'.adr = scan.adr
    BY <1>1, <2>1, <2>2, <2>3, PlainStage
  <2>5. steady' \in BOOLEAN
    BY <1>1, <2>1 DEF ScanTyped
  <2>6. DaysRead'
    BY <1>1, <2>4 DEF DaysRead
  <2> QED
    BY <1>3, <2>1, <2>4, <2>5, <2>6
<1> QED
  BY <1>2, <1>3

LEMMA GapsClose ==
  ASSUME IInv, GapExclusion, NEW next, next = AfterGaps
  PROVE  /\ Closes("gap_exclusion", next) /\ steady' \in BOOLEAN /\ scan'.adr = scan.adr
         /\ steady' => steady
         /\ steady' /\ On("gap_exclusion") =>
              \A s \in scan.left : scan'.gap[s] = DailyWindow(s, request.gap.days, 2)
<1>1. /\ ScanTyped /\ Judged /\ UNCHANGED <<request, market, now, today, detail>>
      /\ request \in Request /\ market \in Market /\ today \in Nat
      /\ scan.left \subseteq Symbol
      /\ scan.adr \in [Symbol -> Seq(Day)] /\ scan.gap \in [Symbol -> Seq(Day)]
  BY LeftTyped DEF IInv, GapExclusion, ScanTyped
<1>2. CASE On("gap_exclusion")
  <2>1. PICK served \in SUBSET scan.left :
          LET days == DaysOf(scan.left, served, request.gap.days, 2)
              kept == {s \in scan.left : GapPasses(days[s])}
          IN /\ Served(scan.left, served)
             /\ scan' = [StageEnds("gap_exclusion", kept, Adding("gap_exclusion", kept), AfterGaps)
                           EXCEPT !.gap = days]
    BY <1>2 DEF GapExclusion
  <2> DEFINE days == DaysOf(scan.left, served, request.gap.days, 2)
             kept == {s \in scan.left : GapPasses(days[s])}
             told == Adding("gap_exclusion", kept)
             e == StageEnds("gap_exclusion", kept, told, next)
  <2>2. steady' \in BOOLEAN
    BY <1>1, <2>1 DEF Served, ScanTyped
  <2>3. told \in [Symbol -> Seq(Filter)]
    BY <1>1, ToldAre DEF Filter
  <2>4. days \in [Symbol -> Seq(Day)]
    <3>1. request.gap.days \in Nat /\ 2 \in Nat
      BY <1>1, RequestTyped
    <3> QED
      BY <1>1, <3>1, DaysOfAre
  <2>5. scan' = [e EXCEPT !.gap = days] /\ kept \subseteq scan.left
    BY <2>1
  <2>6. \A s \in scan.left : s \in kept <=> GapPasses(days[s])
    OBVIOUS
  <2>e. e = StageEnds("gap_exclusion", kept, told, next)
    OBVIOUS
  <2> HIDE DEF days, kept, told, e
  <2>7. /\ e = [pc |-> next, fetched |-> scan.fetched, left |-> kept,
                stages |-> Append(scan.stages, [name |-> "gap_exclusion", left |-> kept]),
                assets |-> e.assets, adr |-> scan.adr, gap |-> scan.gap]
        /\ e.assets \in [Symbol -> Asset]
        /\ \A s \in Symbol : /\ e.assets[s].window = scan.assets[s].window
                             /\ e.assets[s].price = scan.assets[s].price
    BY <1>1, <2>3, <2>e, StageEndsIs, SMTT(30)
  <2>8. /\ scan'.left = kept /\ scan'.assets = e.assets /\ scan'.adr = scan.adr /\ scan'.gap = days
        /\ scan' = [pc |-> next, fetched |-> scan.fetched, left |-> kept,
                    stages |-> Append(scan.stages, [name |-> "gap_exclusion", left |-> kept]),
                    assets |-> e.assets, adr |-> scan.adr, gap |-> days]
    <3> DEFINE stages == Append(scan.stages, [name |-> "gap_exclusion", left |-> kept])
    <3>1. e = [pc |-> next, fetched |-> scan.fetched, left |-> kept, stages |-> stages,
               assets |-> e.assets, adr |-> scan.adr, gap |-> scan.gap]
      BY <2>7
    <3> HIDE DEF stages
    <3>2. scan' = [pc |-> next, fetched |-> scan.fetched, left |-> kept, stages |-> stages,
                   assets |-> e.assets, adr |-> scan.adr, gap |-> days]
      BY <2>5, <3>1
    <3> QED
      BY <3>2 DEF stages
  <2>9. ASSUME NEW s \in scan.left PROVE s \in kept <=> ~Fails(s, "gap_exclusion")'
    BY <1>1, <1>2, <2>6, <2>8, SameRequest, SameGap DEF Fails
  <2>10. Closes("gap_exclusion", next)
    BY <1>1, <2>4, <2>5, <2>7, <2>8, <2>9 DEF Closes
  <2>12. steady' => steady /\ served = scan.left
    BY <2>1 DEF Served
  <2>13. ASSUME steady', NEW s \in scan.left
         PROVE  scan'.gap[s] = DailyWindow(s, request.gap.days, 2)
    <3>1. s \in Symbol /\ s \in served
      BY <1>1, <2>12, <2>13
    <3>2. days = [r \in Symbol |-> IF r \in scan.left \cap served
                                  THEN DailyWindow(r, request.gap.days, 2) ELSE <<>>]
      BY DEF days, DaysOf
    <3>3. days[s] = DailyWindow(s, request.gap.days, 2)
      BY <3>1, <3>2
    <3> QED
      BY <2>8, <3>3
  <2> QED
    BY <2>2, <2>8, <2>10, <2>12, <2>13
<1>3. CASE ~On("gap_exclusion")
  <2>1. scan' = StageEnds("gap_exclusion", scan.left, Told, next) /\ UNCHANGED steady
    BY <1>3 DEF GapExclusion
  <2>2. Told \in [Symbol -> Seq(Filter)]
    BY <1>1, ToldAre DEF Filter
  <2>3. \A s \in scan.left : ~Fails(s, "gap_exclusion")'
    BY <1>1, <1>3, SameRequest DEF Fails
  <2>4. Closes("gap_exclusion", next) /\ scan'.adr = scan.adr
    BY <1>1, <2>1, <2>2, <2>3, PlainStage
  <2>5. steady' \in BOOLEAN
    BY <1>1, <2>1 DEF ScanTyped
  <2> QED
    BY <1>3, <2>1, <2>4, <2>5
<1> QED
  BY <1>2, <1>3

----------------------------------------------------------------------------
(* The invariant. *)

\* Where a stage leads to.
LEMMA ClosesCourse ==
  ASSUME IInv, steady' \in BOOLEAN, DaysRead', NEW n \in Nat, n = Len(scan.stages),
         NEW stage, stage = StageAt(n + 1), NEW next \in Stage \cup {"answered"},
         Closes(stage, next),
         \/ next = "dead_assets" /\ n = 0
         \/ next = "adr" /\ n = 1
         \/ next = "gap_exclusion" /\ n = 2
         \/ next = "indicators" /\ n = 3 /\ On("indicators")
         \/ next = "post_filters" /\ n = 4 /\ On("indicators")
         \/ next = "post_filters" /\ n = 3 /\ ~On("indicators")
         \/ next = "answered" /\ n = 5 /\ On("indicators")
         \/ next = "answered" /\ n = 4 /\ ~On("indicators")
  PROVE  IInv'
<1>1. ScanTyped /\ Judged /\ DetailTyped
  BY DEF IInv
<1>2. ScanTyped' /\ Judged' /\ scan'.pc = next /\ Len(scan'.stages) = n + 1
  BY <1>1, StageStep
<1>3. UNCHANGED <<request, market, now, today, detail>>
  BY DEF Closes
<1>4. DetailTyped'
  BY <1>1, <1>3 DEF DetailTyped
<1>5. Course'
  <2>1. On("indicators")' <=> On("indicators")
    BY <1>3, SameRequest
  <2>2. CASE next = "dead_assets" /\ n = 0
    BY <1>2, <2>1, <2>2 DEF Course
  <2>3. CASE next = "adr" /\ n = 1
    BY <1>2, <2>1, <2>3 DEF Course
  <2>4. CASE next = "gap_exclusion" /\ n = 2
    BY <1>2, <2>1, <2>4 DEF Course
  <2>5. CASE next = "indicators" /\ n = 3 /\ On("indicators")
    BY <1>2, <2>1, <2>5 DEF Course
  <2>6. CASE next = "post_filters" /\ n = 4 /\ On("indicators")
    BY <1>2, <2>1, <2>6 DEF Course
  <2>7. CASE next = "post_filters" /\ n = 3 /\ ~On("indicators")
    BY <1>2, <2>1, <2>7 DEF Course
  <2>8. CASE next = "answered" /\ n = 5 /\ On("indicators")
    BY <1>2, <2>1, <2>8 DEF Course
  <2>9. CASE next = "answered" /\ n = 4 /\ ~On("indicators")
    BY <1>2, <2>1, <2>9 DEF Course
  <2> QED
    BY <2>2, <2>3, <2>4, <2>5, <2>6, <2>7, <2>8, <2>9
<1> QED
  BY <1>2, <1>4, <1>5 DEF IInv

\* The stages that read no days.
LEMMA DaysStay ==
  ASSUME IInv, scan'.adr = scan.adr, UNCHANGED <<request, today>> PROVE DaysRead'
BY DEF IInv, DaysRead

LEMMA PlainStagesKeep ==
  ASSUME IInv, PriceRange \/ DeadAssets \/ Indicators \/ PostFilters PROVE IInv'
<1>0. scan.stages \in Seq([name : Stage, left : SUBSET Symbol]) /\ Len(scan.stages) \in Nat /\ steady \in BOOLEAN
  BY LeftTyped DEF IInv, ScanTyped
<1>1. CASE PriceRange
  <2>1. Closes("price_range", "dead_assets") /\ UNCHANGED steady /\ Len(scan.stages) = 0
    BY <1>1, PriceRangeCloses DEF PriceRange, IInv, Course
  <2>2. DaysRead'
    BY <2>1, DaysStay DEF Closes
  <2>3. "price_range" = StageAt(0 + 1) /\ "dead_assets" \in Stage
    BY DEF StageAt, Stage, Filter
  <2> QED
    BY <1>0, <2>1, <2>2, <2>3, ClosesCourse
<1>2. CASE DeadAssets
  <2>1. Closes("dead_assets", "adr") /\ UNCHANGED steady /\ Len(scan.stages) = 1
    BY <1>2, DeadAssetsCloses DEF DeadAssets, IInv, Course
  <2>2. DaysRead'
    BY <2>1, DaysStay DEF Closes
  <2>3. "dead_assets" = StageAt(1 + 1) /\ "adr" \in Stage
    BY DEF StageAt, Stage, Filter
  <2> QED
    BY <1>0, <2>1, <2>2, <2>3, ClosesCourse
<1>3. CASE Indicators
  <2>1. Closes("indicators", "post_filters") /\ UNCHANGED steady /\ Len(scan.stages) = 4 /\ On("indicators")
    BY <1>3, IndicatorsCloses DEF Indicators, IInv, Course
  <2>2. DaysRead'
    BY <2>1, DaysStay DEF Closes
  <2>3. "indicators" = StageAt(4 + 1) /\ "post_filters" \in Stage
    BY <2>1 DEF StageAt, Stage, Filter
  <2> QED
    BY <1>0, <2>1, <2>2, <2>3, ClosesCourse
<1>4. CASE PostFilters
  <2>1. Closes("post_filters", "answered") /\ UNCHANGED steady
        /\ Len(scan.stages) = (IF On("indicators") THEN 5 ELSE 4)
    BY <1>4, PostFiltersCloses DEF PostFilters, IInv, Course
  <2>2. DaysRead'
    BY <2>1, DaysStay DEF Closes
  <2>3. PICK n \in Nat : n = Len(scan.stages) /\ n = (IF On("indicators") THEN 5 ELSE 4)
    BY <1>0, <2>1
  <2>4. "post_filters" = StageAt(n + 1)
    BY <2>3 DEF StageAt
  <2> QED
    BY <1>0, <2>1, <2>2, <2>3, <2>4, ClosesCourse
<1> QED
  BY <1>1, <1>2, <1>3, <1>4

LEMMA DailyStagesKeep ==
  ASSUME IInv, AverageDailyRange \/ GapExclusion PROVE IInv'
<1>0. Len(scan.stages) \in Nat
  BY LeftTyped DEF IInv, ScanTyped
<1>1. CASE AverageDailyRange
  <2>1. Closes("adr", "gap_exclusion") /\ steady' \in BOOLEAN /\ DaysRead'
    BY <1>1, AdrCloses
  <2>2. Len(scan.stages) = 2
    BY <1>1 DEF AverageDailyRange, IInv, Course
  <2>3. "adr" = StageAt(2 + 1) /\ "gap_exclusion" \in Stage
    BY DEF StageAt, Stage, Filter
  <2> QED
    BY <2>1, <2>2, <2>3, ClosesCourse
<1>2. CASE GapExclusion
  <2>1. PICK next : next = AfterGaps
    OBVIOUS
  <2>2. Closes("gap_exclusion", next) /\ steady' \in BOOLEAN /\ scan'.adr = scan.adr
    BY <1>2, <2>1, GapsClose
  <2>3. Len(scan.stages) = 3
    BY <1>2 DEF GapExclusion, IInv, Course
  <2>4. DaysRead'
    BY <2>2, DaysStay DEF Closes
  <2>5. "gap_exclusion" = StageAt(3 + 1) /\ "indicators" \in Stage /\ "post_filters" \in Stage
    BY DEF StageAt, Stage, Filter
  <2>6. next = (IF On("indicators") THEN "indicators" ELSE "post_filters")
    BY <2>1 DEF AfterGaps
  <2> QED
    BY <2>2, <2>3, <2>4, <2>5, <2>6, ClosesCourse
<1> QED
  BY <1>1, <1>2

LEMMA FetchKeeps ==
  ASSUME IInv, ScanFetches PROVE IInv'
<1>1. PICK served \in SUBSET Symbol :
        LET found == {s \in served : ScanWindow(s) # <<>>}
        IN /\ Served(Symbol, served)
           /\ scan' = [scan EXCEPT
               !.pc = IF found = {} THEN "answered" ELSE "price_range",
               !.fetched = found, !.left = found,
               !.assets = [s \in Symbol |->
                  IF s \in found THEN [window |-> ScanWindow(s), told |-> <<>>,
                                       price |-> Last(ScanWindow(s))]
                                 ELSE NoAsset]]
  BY Zenon DEF ScanFetches
<1> DEFINE found == {s \in served : ScanWindow(s) # <<>>}
           assets == [s \in Symbol |->
                  IF s \in found THEN [window |-> ScanWindow(s), told |-> <<>>,
                                       price |-> Last(ScanWindow(s))]
                                 ELSE NoAsset]
           pc == IF found = {} THEN "answered" ELSE "price_range"
<1>2. /\ ScanTyped /\ DetailTyped /\ Course /\ Judged /\ DaysRead
      /\ UNCHANGED <<request, market, now, today, detail>> /\ scan.pc = "fetching"
      /\ request \in Request /\ market \in Market /\ now \in Nat /\ today \in Nat
      /\ Len(scan.stages) = 0
  BY DEF IInv, ScanTyped, ScanFetches, Course
<1>3. scan' = [pc |-> pc, fetched |-> found, left |-> found, stages |-> scan.stages,
               assets |-> assets, adr |-> scan.adr, gap |-> scan.gap]
  <2>1. scan = [pc |-> scan.pc, fetched |-> scan.fetched, left |-> scan.left, stages |-> scan.stages,
                assets |-> scan.assets, adr |-> scan.adr, gap |-> scan.gap]
    BY <1>2 DEF ScanTyped
  <2>2. scan' = [scan EXCEPT !.pc = pc, !.fetched = found, !.left = found, !.assets = assets]
    BY <1>1
  <2> HIDE DEF pc, found, assets
  <2> QED
    BY <2>1, <2>2
<1>4. Required' = Required /\ Required \in Nat
  BY <1>2, SameRequest, RequiredIs
<1>5. ASSUME NEW s \in Symbol PROVE assets[s] \in Asset /\ Len(assets[s].window) <= Required
  <2>1. CASE s \in found
    <3>1. assets[s] = [window |-> ScanWindow(s), told |-> <<>>, price |-> Last(ScanWindow(s))]
      BY <2>1
    <3>2. ScanWindow(s) \in Seq(Price) /\ Len(ScanWindow(s)) \in Nat /\ Len(ScanWindow(s)) <= Required
          /\ ScanWindow(s) # <<>>
      BY <1>2, <2>1, WindowsAre
    <3>3. Last(ScanWindow(s)) \in Price
      BY <3>2 DEF Last
    <3>4. Last(ScanWindow(s)) \in Nat
      BY <3>3, PriceAssumption
    <3> HIDE DEF assets
    <3> QED
      BY <3>1, <3>2, <3>4 DEF Asset
  <2>2. CASE s \notin found
    <3>1. assets[s] = NoAsset
      BY <2>2
    <3>2. NoAsset \in Asset /\ Len(NoAsset.window) = 0
      BY DEF NoAsset, Asset
    <3> HIDE DEF assets
    <3> QED
      BY <1>4, <3>1, <3>2
  <2> QED
    BY <2>1, <2>2
<1>6. assets \in [Symbol -> Asset]
  BY <1>5
<1>7. found \subseteq Symbol /\ pc \in {"answered", "price_range"} /\ (pc = "answered" => found = {})
  OBVIOUS
<1>8. steady' \in BOOLEAN
  BY <1>1, <1>2 DEF Served, ScanTyped
<1> HIDE DEF found, assets, pc
<1>9. ScanTyped'
  BY <1>2, <1>3, <1>4, <1>5, <1>6, <1>7, <1>8 DEF ScanTyped, Stage, Filter
<1>10. Judged' /\ Course'
  <2>1. scan'.stages = scan.stages /\ Len(scan.stages) = 0 /\ scan'.left = found /\ scan'.fetched = found
        /\ scan'.pc = pc
    BY <1>2, <1>3
  <2>2. Judged'
    BY <2>1 DEF Judged, LeftAt
  <2>3. Course'
    BY <1>7, <2>1 DEF Course
  <2> QED
    BY <2>2, <2>3
<1>11. DetailTyped' /\ DaysRead'
  <2>1. DetailTyped'
    BY <1>2 DEF DetailTyped
  <2>2. scan'.adr = scan.adr
    BY <1>3
  <2> QED
    BY <1>2, <2>1, <2>2 DEF DaysRead
<1> QED
  BY <1>9, <1>10, <1>11 DEF IInv

\* The steps that do not touch the scan.
LEMMA ScanRests ==
  ASSUME IInv, UNCHANGED <<request, market, scan>>, now' \in Nat, today' \in Nat, today' >= today,
         steady' \in BOOLEAN, DetailTyped'
  PROVE  IInv'
<1>1. ScanTyped /\ Course /\ Judged /\ DaysRead /\ UNCHANGED <<request, market, scan>>
  BY DEF IInv
<1>2. Required' = Required /\ (On("indicators")' <=> On("indicators")) /\ \A i : StageAt(i)' = StageAt(i)
  BY <1>1, SameRequest
<1>3. ScanTyped'
  BY <1>1, <1>2 DEF ScanTyped
<1>4. Course'
  BY <1>1, <1>2 DEF Course
<1>5. Judged'
  <2>1. \A i : LeftAt(i)' = LeftAt(i)
    BY <1>1 DEF LeftAt
  <2>2. ASSUME NEW i \in 1 .. Len(scan.stages)
        PROVE  LeftAt(i)' = {s \in LeftAt(i - 1)' : ~Fails(s, StageAt(i))'}
    <3>1. \A s : Fails(s, StageAt(i))' <=> Fails(s, StageAt(i))
      BY <1>1, FailsKept
    <3>2. LeftAt(i) = {s \in LeftAt(i - 1) : ~Fails(s, StageAt(i))}
      BY <1>1 DEF Judged
    <3> QED
      BY <2>1, <3>1, <3>2
  <2>3. \A i \in 1 .. Len(scan.stages) : scan.stages[i].name = StageAt(i)
    BY <1>1 DEF Judged
  <2>4. scan.left = LeftAt(Len(scan.stages)) /\ \A i \in 0 .. Len(scan.stages) : scan.left \subseteq LeftAt(i)
    BY <1>1 DEF Judged
  <2>5. scan'.left = LeftAt(Len(scan.stages))'
    BY <1>1, <2>1, <2>4
  <2> QED
    BY <1>1, <1>2, <2>1, <2>2, <2>3, <2>4, <2>5 DEF Judged
<1>6. DaysRead'
  <2>1. ASSUME NEW s \in Symbol, NEW k \in 1 .. Len(scan.adr[s]) PROVE scan.adr[s][k].day < today'
    <3>1. scan.adr[s] \in Seq(Day)
      BY <1>1 DEF ScanTyped
    <3>2. scan.adr[s][k] \in Day
      BY <3>1
    <3>3. scan.adr[s][k].day \in Nat /\ today \in Nat /\ scan.adr[s][k].day < today
      BY <1>1, <3>2 DEF Day, DaysRead, ScanTyped
    <3> QED
      BY <3>3
  <2>2. \A s \in Symbol : scan.adr[s] = <<>> \/ Len(scan.adr[s]) = request.adr.days
    BY <1>1 DEF DaysRead
  <2> QED
    BY <1>1, <2>1, <2>2 DEF DaysRead
<1> QED
  BY <1>3, <1>4, <1>5, <1>6 DEF IInv

LEMMA TickKeeps == ASSUME IInv, Tick PROVE IInv'
<1>1. /\ UNCHANGED <<request, market, scan>> /\ UNCHANGED detail
      /\ now' = now + 1 /\ today' \in {today, today + 1} /\ steady' = FALSE
      /\ now \in Nat /\ today \in Nat /\ DetailTyped
  BY DEF Tick, IInv, ScanTyped
<1>2. DetailTyped'
  BY <1>1 DEF DetailTyped
<1>3. steady' \in BOOLEAN
  BY <1>1
<1>4. now' \in Nat /\ (today' = today \/ today' = today + 1)
  BY <1>1
<1>5. today' \in Nat /\ today' >= today
  BY <1>1, <1>4
<1> QED
  BY <1>1, <1>2, <1>3, <1>4, <1>5, ScanRests

LEMMA DetailAskedKeeps == ASSUME IInv, DetailAsked PROVE IInv'
<1>1. /\ ScanTyped /\ DetailTyped /\ UNCHANGED <<request, market, now, today, scan>>
      /\ request \in Request /\ market \in Market /\ now \in Nat /\ today \in Nat
  BY DEF IInv, ScanTyped, DetailAsked
<1>2. PICK s \in Symbol, served \in SUBSET Symbol :
        LET window == IF s \in served THEN DetailWindow(s) ELSE <<>>
            outcome == IF On("indicators") THEN IndicatorOutcome(s, window) ELSE "passes"
        IN /\ Served({s}, served)
           /\ detail' = [detail EXCEPT !.symbol = s, !.window = window,
                !.pc = IF window = <<>> THEN "missing"
                       ELSE IF outcome = "raises" THEN "failed" ELSE "adr",
                !.passed = IF window = <<>> THEN @ ELSE
                   [detail.passed EXCEPT !["indicators"] = outcome = "passes",
                            !["price_range"] = On("price_range") => InPriceRange(Last(window)),
                            !["dead_assets"] = On("dead_assets") => DeadOutcome(window) # "fails"]]
  BY Zenon DEF DetailAsked
<1> DEFINE window == IF s \in served THEN DetailWindow(s) ELSE <<>>
           outcome == IF On("indicators") THEN IndicatorOutcome(s, window) ELSE "passes"
           pc == IF window = <<>> THEN "missing" ELSE IF outcome = "raises" THEN "failed" ELSE "adr"
           tests == [detail.passed EXCEPT !["indicators"] = outcome = "passes",
                            !["price_range"] = On("price_range") => InPriceRange(Last(window)),
                            !["dead_assets"] = On("dead_assets") => DeadOutcome(window) # "fails"]
           passed == IF window = <<>> THEN detail.passed ELSE tests
<1>3. detail' = [detail EXCEPT !.pc = pc, !.symbol = s, !.window = window, !.passed = passed]
  BY <1>2, Zenon
<1>4. window \in Seq(Price)
  BY <1>1, WindowsAre
<1>5. passed \in [Filter -> BOOLEAN]
  BY <1>1 DEF DetailTyped
<1>6. pc \in {"missing", "failed", "adr"}
  OBVIOUS
<1>7. steady' \in BOOLEAN
  BY <1>1, <1>2 DEF Served, ScanTyped
<1> HIDE DEF window, pc, passed, tests, outcome
<1>8. DetailTyped'
  <2>1. detail = [pc |-> detail.pc, symbol |-> detail.symbol, window |-> detail.window,
                  passed |-> detail.passed]
    BY <1>1 DEF DetailTyped
  <2>2. detail' = [pc |-> pc, symbol |-> s, window |-> window, passed |-> passed]
    BY <1>3, <2>1
  <2> QED
    BY <1>4, <1>5, <1>6, <2>2 DEF DetailTyped
<1> QED
  BY <1>1, <1>7, <1>8, ScanRests

LEMMA DetailAdrKeeps == ASSUME IInv, DetailAdr PROVE IInv'
<1>0. UNCHANGED <<request, market, now, today, scan>>
  BY Zenon DEF DetailAdr
<1>1. /\ ScanTyped /\ DetailTyped /\ UNCHANGED <<request, market, now, today, scan>>
      /\ now \in Nat /\ today \in Nat
  BY <1>0 DEF IInv, ScanTyped
<1>2. detail = [pc |-> detail.pc, symbol |-> detail.symbol, window |-> detail.window,
                passed |-> detail.passed]
  BY <1>1 DEF DetailTyped
<1>3. CASE On("adr") /\ AdrApplies
  <2>1. PICK served \in SUBSET {detail.symbol} :
          /\ Served({detail.symbol}, served)
          /\ detail' = [detail EXCEPT !.pc = "gap_exclusion", !.passed =
               [detail.passed EXCEPT !["adr"] =
                  AdrPasses(DetailDays(request.adr.days, request.adr.days, served))]]
    BY <1>3, Zenon DEF DetailAdr
  <2> DEFINE verdict == AdrPasses(DetailDays(request.adr.days, request.adr.days, served))
  <2>2. verdict \in BOOLEAN
    BY DEF AdrPasses
  <2>3. detail' = [detail EXCEPT !.pc = "gap_exclusion", !.passed = [detail.passed EXCEPT !["adr"] = verdict]]
    BY <2>1
  <2>4. steady' \in BOOLEAN
    BY <1>1, <2>1 DEF Served, ScanTyped
  <2> HIDE DEF verdict
  <2>5. detail' = [pc |-> "gap_exclusion", symbol |-> detail.symbol, window |-> detail.window,
                   passed |-> [detail.passed EXCEPT !["adr"] = verdict]]
    BY <1>2, <2>3
  <2>6. DetailTyped'
    BY <1>1, <2>2, <2>5 DEF DetailTyped
  <2> QED
    BY <1>1, <2>4, <2>6, ScanRests
<1>4. CASE ~(On("adr") /\ AdrApplies)
  <2>1. detail' = [detail EXCEPT !.pc = "gap_exclusion"] /\ UNCHANGED steady
    BY <1>4, Zenon DEF DetailAdr
  <2>2. detail' = [pc |-> "gap_exclusion", symbol |-> detail.symbol, window |-> detail.window,
                   passed |-> detail.passed]
    BY <1>2, <2>1
  <2>3. DetailTyped'
    BY <1>1, <2>2 DEF DetailTyped
  <2>4. steady' \in BOOLEAN
    BY <1>1, <2>1 DEF ScanTyped
  <2> QED
    BY <1>1, <2>3, <2>4, ScanRests
<1> QED
  BY <1>3, <1>4

\* What the last step of the detail view makes of the gaps.
Showing(gaps) ==
  LET passes(f) == On(f) => Verdict(f, detail.window) = "passes"
  IN [detail EXCEPT !.pc = "shown",
        !.passed = [detail.passed EXCEPT !["gap_exclusion"] = gaps,
                                         !["channel_respect"] = passes("channel_respect"),
                                         !["confluence"] = passes("confluence")]]

LEMMA GapsShown ==
  ASSUME DetailGaps
  PROVE  \/ /\ On("gap_exclusion")
            /\ \E served \in SUBSET {detail.symbol} :
                 /\ Served({detail.symbol}, served)
                 /\ detail' = Showing(GapPasses(DetailDays(request.gap.days, 2, served)))
         \/ ~On("gap_exclusion") /\ detail' = Showing(TRUE) /\ UNCHANGED steady
BY Zenon DEF DetailGaps, Showing

LEMMA DetailGapsKeeps == ASSUME IInv, DetailGaps PROVE IInv'
<1>0. UNCHANGED <<request, market, now, today, scan>>
  BY Zenon DEF DetailGaps
<1>1. /\ ScanTyped /\ DetailTyped /\ UNCHANGED <<request, market, now, today, scan>>
      /\ now \in Nat /\ today \in Nat
  BY <1>0 DEF IInv, ScanTyped
<1>2. PICK gaps \in BOOLEAN : detail' = Showing(gaps)
  <2>1. \A served : GapPasses(DetailDays(request.gap.days, 2, served)) \in BOOLEAN
    BY DEF GapPasses
  <2> QED
    BY <2>1, GapsShown
<1>3. steady' \in BOOLEAN
  BY <1>1, GapsShown DEF Served, ScanTyped
<1>4. DetailTyped'
  <2> DEFINE passes(f) == On(f) => Verdict(f, detail.window) = "passes"
             passed == [detail.passed EXCEPT !["gap_exclusion"] = gaps,
                                         !["channel_respect"] = passes("channel_respect"),
                                         !["confluence"] = passes("confluence")]
  <2>1. detail = [pc |-> detail.pc, symbol |-> detail.symbol, window |-> detail.window,
                  passed |-> detail.passed]
    BY <1>1 DEF DetailTyped
  <2>2. passed \in [Filter -> BOOLEAN]
    BY <1>1 DEF DetailTyped
  <2>3. detail' = [detail EXCEPT !.pc = "shown", !.passed = passed]
    BY <1>2 DEF Showing
  <2> HIDE DEF passed
  <2>4. detail' = [pc |-> "shown", symbol |-> detail.symbol, window |-> detail.window, passed |-> passed]
    BY <2>1, <2>3
  <2> QED
    BY <1>1, <2>2, <2>4 DEF DetailTyped
<1> QED
  BY <1>1, <1>3, <1>4, ScanRests

\* Init => IInv and IInv /\ [Next]_vars => IInv'.
LEMMA IInvHolds == Spec => []IInv
<1>1. IInv /\ [Next]_vars => IInv'
  <2> SUFFICES ASSUME IInv, [Next]_vars PROVE IInv'
    OBVIOUS
  <2>1. CASE Tick
    BY <2>1, TickKeeps
  <2>2. CASE ScanFetches
    BY <2>2, FetchKeeps
  <2>3. CASE PriceRange \/ DeadAssets \/ Indicators \/ PostFilters
    BY <2>3, PlainStagesKeep
  <2>4. CASE AverageDailyRange \/ GapExclusion
    BY <2>4, DailyStagesKeep
  <2>5. CASE DetailAsked
    BY <2>5, DetailAskedKeeps
  <2>6. CASE DetailAdr
    BY <2>6, DetailAdrKeeps
  <2>7. CASE DetailGaps
    BY <2>7, DetailGapsKeeps
  <2>8. CASE UNCHANGED vars
    <3>1. UNCHANGED <<request, market, scan>> /\ UNCHANGED detail /\ UNCHANGED <<now, today, steady>>
          /\ now \in Nat /\ today \in Nat /\ steady \in BOOLEAN /\ DetailTyped
      BY <2>8 DEF vars, IInv, ScanTyped
    <3>2. DetailTyped'
      BY <3>1 DEF DetailTyped
    <3>3. today' \in Nat /\ today' >= today /\ now' \in Nat
      BY <3>1
    <3> QED
      BY <3>1, <3>2, <3>3, ScanRests
  <2> QED
    BY <2>1, <2>2, <2>3, <2>4, <2>5, <2>6, <2>7, <2>8 DEF Next
<1> QED
  BY <1>1, StartsWell, PTL DEF Spec

----------------------------------------------------------------------------
(* What the invariant says of the answer. *)

LEMMA TypeOKFollows == IInv => TypeOK
<1> SUFFICES ASSUME IInv PROVE TypeOK
  OBVIOUS
<1>1. ScanTyped /\ DetailTyped /\ Judged /\ scan.left \subseteq scan.fetched
  BY LeftTyped DEF IInv
<1>2. ASSUME NEW i \in 1 .. Len(scan.stages)
      PROVE  scan.stages[i].name \in Stage /\ scan.left \subseteq scan.stages[i].left
  <2>1. scan.stages[i].name = StageAt(i)
    BY <1>1 DEF Judged
  <2>2. Len(scan.stages) \in Nat /\ i \in 0 .. Len(scan.stages) /\ i # 0
    BY <1>1, LeftTyped
  <2>3. scan.left \subseteq LeftAt(i)
    BY <1>1, <2>2 DEF Judged
  <2> QED
    BY <2>1, <2>2, <2>3, StagePlaces DEF LeftAt
<1>3. ASSUME NEW s \in Symbol
      PROVE  /\ scan.assets[s].window \in Seq(Price)
             /\ Len(scan.assets[s].window) <= Required
             /\ scan.assets[s].told \in Seq(Filter)
             /\ scan.adr[s] \in Seq(Day) /\ scan.gap[s] \in Seq(Day)
  <2>1. scan.assets[s] \in Asset
    BY <1>1 DEF ScanTyped
  <2> QED
    BY <1>1, <2>1 DEF ScanTyped, Asset
<1> QED
  BY <1>1, <1>2, <1>3 DEF TypeOK, ScanTyped, DetailTyped

\* A stage fails exactly the symbols for which a filter's promise is broken.
LEMMA FailsIsBlames ==
  ASSUME IInv, NEW s \in Symbol
  PROVE  \A stage \in {"price_range", "dead_assets", "adr", "gap_exclusion", "indicators", "post_filters"} :
           Fails(s, stage) <=> Blames(s, stage)
<1>1. /\ ScanTyped /\ DaysRead /\ request \in RequestType /\ request \in Request
      /\ scan.assets[s] \in Asset
  BY RequestAssumption DEF IInv, ScanTyped
<1>2. Fails(s, "price_range") <=> Blames(s, "price_range")
  <2>1. /\ scan.assets[s].price \in Nat
        /\ request.price.min \in Nat /\ request.price.max \in Nat
    BY <1>1 DEF Asset, RequestType
  <2>2. InPriceRange(scan.assets[s].price) <=>
          scan.assets[s].price \in request.price.min .. request.price.max
    BY <2>1 DEF InPriceRange
  <2> QED
    BY <2>2 DEF Fails, Blames, Promises
<1>3. Fails(s, "dead_assets") <=> Blames(s, "dead_assets")
  <2>1. Len(scan.assets[s].window) \in Nat /\ MinDead \in Nat
    BY <1>1, Numbers DEF Asset
  <2>2. DeadOutcome(scan.assets[s].window) = "fails" <=>
          Len(scan.assets[s].window) >= MinDead /\ Verdict("dead_assets", scan.assets[s].window) = "fails"
    BY <2>1 DEF DeadOutcome
  <2> QED
    BY <2>2 DEF Fails, Blames, Promises
<1>4. Fails(s, "adr") <=> Blames(s, "adr")
  <2>1. AdrPasses(scan.adr[s]) => scan.adr[s] # <<>>
    BY DEF AdrPasses
  <2>2. /\ scan.adr[s] \in Seq(Day) /\ (scan.adr[s] = <<>> \/ Len(scan.adr[s]) = request.adr.days)
        /\ \A k \in 1 .. Len(scan.adr[s]) : scan.adr[s][k].day < today
    BY <1>1 DEF ScanTyped, DaysRead
  <2>3. \A d \in Range(scan.adr[s]) : d.day < today
    BY <2>2 DEF Range
  <2> QED
    BY <2>1, <2>2, <2>3 DEF Fails, Blames, Promises
<1>5. Fails(s, "gap_exclusion") <=> Blames(s, "gap_exclusion")
  BY DEF Fails, Blames, Promises
<1>6. Fails(s, "indicators") <=> Blames(s, "indicators")
  BY DEF Fails, Blames, Promises
<1>7. Fails(s, "post_filters") <=> Blames(s, "post_filters")
  BY DEF Fails, Blames, Promises, On
<1> QED
  BY <1>2, <1>3, <1>4, <1>5, <1>6, <1>7

\* A symbol is left when no stage has failed it.
LEMMA LeftIs ==
  ASSUME IInv, NEW s \in scan.fetched
  PROVE  s \in scan.left <=> \A i \in 1 .. Len(scan.stages) : ~Fails(s, StageAt(i))
<1> DEFINE n == Len(scan.stages)
<1>1. ScanTyped /\ Course /\ Judged /\ scan.left = LeftAt(n) /\ n \in Nat
  BY LeftTyped DEF IInv, Judged
<1>2. \A i \in 1 .. n : s \in LeftAt(i) <=> s \in LeftAt(i - 1) /\ ~Fails(s, StageAt(i))
  BY <1>1 DEF Judged
<1>3. s \in LeftAt(0)
  BY DEF LeftAt
<1>4. n \in {0, 1, 2, 3, 4, 5, 6}
  BY <1>1 DEF Course, ScanTyped, Stage, Filter
<1> HIDE DEF n
<1> DEFINE Stays(i) == s \in LeftAt(i)
           Goes(i) == Fails(s, StageAt(i))
<1>5. Stays(0) /\ \A i \in 1 .. n : Stays(i) <=> Stays(i - 1) /\ ~Goes(i)
  BY <1>2, <1>3
<1> HIDE DEF Stays, Goes
<1>6. Stays(n) <=> \A i \in 1 .. n : ~Goes(i)
  <2>1. n >= 1 => (Stays(1) <=> ~Goes(1))
    BY <1>1, <1>5
  <2>2. n >= 2 => (Stays(2) <=> Stays(1) /\ ~Goes(2))
    BY <1>1, <1>5
  <2>3. n >= 3 => (Stays(3) <=> Stays(2) /\ ~Goes(3))
    BY <1>1, <1>5
  <2>4. n >= 4 => (Stays(4) <=> Stays(3) /\ ~Goes(4))
    BY <1>1, <1>5
  <2>5. n >= 5 => (Stays(5) <=> Stays(4) /\ ~Goes(5))
    BY <1>1, <1>5
  <2>6. n >= 6 => (Stays(6) <=> Stays(5) /\ ~Goes(6))
    BY <1>1, <1>5
  <2>7. CASE n = 0
    BY <1>5, <2>7
  <2>8. CASE n = 1
    <3>1. \A i \in 1 .. n : i = 1
      BY <2>8
    <3> QED
      BY <2>1, <2>8, <3>1
  <2>9. CASE n = 2
    <3>1. 1 .. n = {1, 2}
      BY <2>9
    <3> QED
      BY <2>1, <2>2, <2>9, <3>1
  <2>10. CASE n = 3
    <3>1. 1 .. n = {1, 2, 3}
      BY <2>10
    <3> QED
      BY <2>1, <2>2, <2>3, <2>10, <3>1
  <2>11. CASE n = 4
    <3>1. 1 .. n = {1, 2, 3, 4}
      BY <2>11
    <3> QED
      BY <2>1, <2>2, <2>3, <2>4, <2>11, <3>1
  <2>12. CASE n = 5
    <3>1. 1 .. n = {1, 2, 3, 4, 5}
      BY <2>12
    <3> QED
      BY <2>1, <2>2, <2>3, <2>4, <2>5, <2>12, <3>1
  <2>13. CASE n = 6
    <3>1. 1 .. n = {1, 2, 3, 4, 5, 6}
      BY <2>13
    <3> QED
      BY <2>1, <2>2, <2>3, <2>4, <2>5, <2>6, <2>13, <3>1
  <2> QED
    BY <1>4, <2>7, <2>8, <2>9, <2>10, <2>11, <2>12, <2>13
<1> QED
  BY <1>1, <1>6 DEF Stays, Goes, n

\* How many stages there were, when a symbol was fetched.
LEMMA StagesOver ==
  ASSUME IInv, scan.pc = "answered", scan.fetched # {}
  PROVE  /\ Len(scan.stages) = (IF On("indicators") THEN 6 ELSE 5)
         /\ StageAt(1) = "price_range" /\ StageAt(2) = "dead_assets" /\ StageAt(3) = "adr"
         /\ StageAt(4) = "gap_exclusion" /\ (On("indicators") => StageAt(5) = "indicators")
         /\ StageAt(Len(scan.stages)) = "post_filters"
<1>1. Len(scan.stages) = (IF On("indicators") THEN 6 ELSE 5)
  BY DEF IInv, Course
<1>2. /\ StageAt(1) = "price_range" /\ StageAt(2) = "dead_assets" /\ StageAt(3) = "adr"
      /\ StageAt(4) = "gap_exclusion" /\ (On("indicators") => StageAt(5) = "indicators")
  BY DEF StageAt
<1>3. CASE On("indicators")
  BY <1>1, <1>2, <1>3 DEF StageAt
<1>4. CASE ~On("indicators")
  BY <1>1, <1>2, <1>4 DEF StageAt
<1> QED
  BY <1>3, <1>4

LEMMA AnswerExactFollows == IInv => AnswerExact
<1> SUFFICES ASSUME IInv, scan.pc = "answered", NEW s \in scan.left, NEW f \in request.on
             PROVE  Promises(s, f)
  BY DEF AnswerExact
<1>1. /\ s \in scan.fetched /\ s \in Symbol /\ f \in Filter /\ On(f)
  <2>1. request \in Request /\ ScanTyped /\ Judged
    BY DEF IInv, ScanTyped
  <2> QED
    BY <2>1, LeftTyped, RequestTyped DEF On
<1> DEFINE n == Len(scan.stages)
<1>2. /\ n = (IF On("indicators") THEN 6 ELSE 5)
      /\ StageAt(1) = "price_range" /\ StageAt(2) = "dead_assets" /\ StageAt(3) = "adr"
      /\ StageAt(4) = "gap_exclusion" /\ (On("indicators") => StageAt(5) = "indicators")
      /\ StageAt(n) = "post_filters"
  BY <1>1, StagesOver
<1>3. \A i \in 1 .. n : ~Fails(s, StageAt(i))
  BY <1>1, LeftIs
<1> HIDE DEF n
<1>4. n = 5 \/ n = 6
  BY <1>2
<1>5. (n = 5 => ~On("indicators")) /\ 1 \in 1 .. n /\ 2 \in 1 .. n /\ 3 \in 1 .. n /\ 4 \in 1 .. n /\ 5 \in 1 .. n /\ n \in 1 .. n
  <2>1. CASE On("indicators")
    BY <1>2, <2>1
  <2>2. CASE ~On("indicators")
    BY <1>2, <2>2
  <2> QED
    BY <2>1, <2>2
<1>6. /\ ~Fails(s, "price_range") /\ ~Fails(s, "dead_assets") /\ ~Fails(s, "adr")
      /\ ~Fails(s, "gap_exclusion") /\ (On("indicators") => ~Fails(s, "indicators"))
      /\ ~Fails(s, "post_filters")
  BY <1>2, <1>3, <1>5
<1>7. /\ ~Blames(s, "price_range") /\ ~Blames(s, "dead_assets") /\ ~Blames(s, "adr")
      /\ ~Blames(s, "gap_exclusion") /\ (On("indicators") => ~Blames(s, "indicators"))
      /\ ~Blames(s, "post_filters")
  BY <1>1, <1>6, FailsIsBlames
<1>8. CASE f \in {"channel_respect", "confluence"}
  BY <1>7, <1>8 DEF Blames
<1>9. CASE f \notin {"channel_respect", "confluence"}
  <2>1. f \in {"price_range", "dead_assets", "adr", "gap_exclusion", "indicators"}
    BY <1>1, <1>9 DEF Filter
  <2> QED
    BY <1>1, <1>7, <2>1 DEF Blames
<1> QED
  BY <1>8, <1>9

LEMMA ReasonsExactFollows == IInv => ReasonsExact
<1> SUFFICES ASSUME IInv, scan.pc = "answered", NEW s \in scan.fetched, s \notin scan.left
             PROVE  \E i \in DOMAIN Order :
                      /\ Reason(s) = Order[i] /\ Blames(s, Order[i])
                      /\ \A j \in 1 .. i - 1 : ~Blames(s, Order[j])
  BY DEF ReasonsExact, Reason
<1> DEFINE n == Len(scan.stages)
           gone == {i \in 1 .. n : s \notin scan.stages[i].left}
           first == CHOOSE i \in gone : \A j \in gone : i <= j
<1>1. /\ s \in Symbol /\ n \in Nat /\ Judged
  BY LeftTyped DEF IInv, ScanTyped
<1>2. /\ n = (IF On("indicators") THEN 6 ELSE 5)
      /\ StageAt(1) = "price_range" /\ StageAt(2) = "dead_assets" /\ StageAt(3) = "adr"
      /\ StageAt(4) = "gap_exclusion" /\ (On("indicators") => StageAt(5) = "indicators")
      /\ StageAt(n) = "post_filters"
  BY StagesOver
<1>3. n \in gone
  <2>1. n \in 1 .. n /\ n # 0
    BY <1>1, <1>2
  <2>2. scan.left = LeftAt(n)
    BY <1>1 DEF Judged
  <2> QED
    BY <2>1, <2>2 DEF LeftAt
<1>4. first \in gone /\ \A j \in gone : first <= j
  <2>1. gone \in SUBSET Nat /\ gone # {}
    BY <1>1, <1>3
  <2>2. \E i \in gone : \A j \in gone : i <= j
    <3> HIDE DEF gone
    <3> QED
      BY <2>1, LeastNumber
  <2> QED
    BY <2>2
<1>5. Reason(s) = scan.stages[first].name
  BY DEF Reason
<1> HIDE DEF first
<1>6. first \in 1 .. n /\ s \notin LeftAt(first) /\ scan.stages[first].name = StageAt(first)
  BY <1>1, <1>4 DEF LeftAt, Judged
<1>7. ASSUME NEW k \in 0 .. first - 1 PROVE s \in LeftAt(k)
  <2>1. CASE k = 0
    BY <2>1 DEF LeftAt
  <2>2. CASE k # 0
    <3>1. k \in 1 .. n /\ ~(first <= k)
      BY <1>1, <1>6, <2>2
    <3>2. k \notin gone
      BY <1>4, <3>1
    <3> QED
      BY <2>2, <3>1, <3>2 DEF LeftAt
  <2> QED
    BY <2>1, <2>2
<1>8. \A k \in 1 .. n : s \in LeftAt(k) <=> s \in LeftAt(k - 1) /\ ~Fails(s, StageAt(k))
  BY <1>1 DEF Judged
<1>9. Fails(s, StageAt(first))
  <2>1. first - 1 \in 0 .. first - 1
    BY <1>6
  <2> QED
    BY <1>6, <1>7, <1>8, <2>1
<1>10. \A k \in 1 .. first - 1 : ~Fails(s, StageAt(k))
  <2>1. \A k \in 1 .. first - 1 : k \in 0 .. first - 1 /\ k \in 1 .. n
    BY <1>1, <1>6
  <2> QED
    BY <1>7, <1>8, <2>1
<1>11. Reason(s) = StageAt(first)
  BY <1>5, <1>6
<1> HIDE DEF n, gone
<1>12. \A stage \in {"price_range", "dead_assets", "adr", "gap_exclusion", "indicators", "post_filters"} :
         Fails(s, stage) <=> Blames(s, stage)
  BY <1>1, FailsIsBlames
<1>13. /\ DOMAIN Order = {1, 2, 3, 4, 5, 6}
       /\ Order[1] = "price_range" /\ Order[2] = "dead_assets" /\ Order[3] = "adr"
       /\ Order[4] = "gap_exclusion" /\ Order[5] = "indicators" /\ Order[6] = "post_filters"
  BY DEF Order
<1>14. first \in {1, 2, 3, 4, 5, 6}
  BY <1>2, <1>6
<1>15. ASSUME NEW i \in {1, 2, 3, 4, 5, 6}, Order[i] = StageAt(first),
              \A j \in 1 .. i - 1 : ~Fails(s, Order[j])
       PROVE  \E x \in DOMAIN Order : /\ Reason(s) = Order[x] /\ Blames(s, Order[x])
                                      /\ \A j \in 1 .. x - 1 : ~Blames(s, Order[j])
  <2>1. i \in DOMAIN Order /\ Reason(s) = Order[i] /\ Fails(s, Order[i])
    BY <1>9, <1>11, <1>13, <1>15
  <2>2. \A j \in 1 .. i : Order[j] \in {"price_range", "dead_assets", "adr", "gap_exclusion", "indicators", "post_filters"}
    <3>1. \A j \in 1 .. i : j \in {1, 2, 3, 4, 5, 6}
      OBVIOUS
    <3> QED
      BY <1>13, <3>1
  <2>3. Blames(s, Order[i])
    BY <1>12, <2>1, <2>2
  <2>4. \A j \in 1 .. i - 1 : ~Blames(s, Order[j])
    BY <1>12, <1>15, <2>2
  <2> QED
    BY <2>1, <2>3, <2>4
<1>16. CASE first \in {1, 2, 3, 4}
  <2>1. Order[first] = StageAt(first)
    BY <1>2, <1>13, <1>16
  <2>2. \A j \in 1 .. first - 1 : j \in {1, 2, 3}
    BY <1>16
  <2>3. \A j \in 1 .. first - 1 : Order[j] = StageAt(j)
    BY <1>2, <1>13, <2>2
  <2> QED
    BY <1>10, <1>15, <1>16, <2>1, <2>3
<1>17. CASE first = 5 /\ On("indicators")
  <2>1. Order[5] = StageAt(5)
    BY <1>2, <1>13, <1>17
  <2>2. \A j \in 1 .. 5 - 1 : j \in {1, 2, 3, 4}
    OBVIOUS
  <2>3. \A j \in 1 .. 5 - 1 : Order[j] = StageAt(j)
    BY <1>2, <1>13, <2>2
  <2> QED
    BY <1>10, <1>15, <1>17, <2>1, <2>3
<1>18. CASE (first = 5 /\ ~On("indicators")) \/ first = 6
  <2>1. Order[6] = StageAt(first)
    <3>1. first = n
      BY <1>2, <1>6, <1>18
    <3> QED
      BY <1>2, <1>13, <3>1
  <2>2. \A j \in {1, 2, 3, 4} : ~Fails(s, Order[j])
    <3>1. \A j \in {1, 2, 3, 4} : j \in 1 .. first - 1 /\ Order[j] = StageAt(j)
      BY <1>2, <1>13, <1>18
    <3> QED
      BY <1>10, <3>1
  <2>3. ~Fails(s, Order[5])
    <3>1. CASE On("indicators")
      <4>1. 5 \in 1 .. first - 1 /\ Order[5] = StageAt(5)
        BY <1>2, <1>13, <1>18, <3>1
      <4> QED
        BY <1>10, <4>1
    <3>2. CASE ~On("indicators")
      BY <1>13, <3>2 DEF Fails
    <3> QED
      BY <3>1, <3>2
  <2>4. \A j \in 1 .. 6 - 1 : j \in {1, 2, 3, 4} \/ j = 5
    OBVIOUS
  <2>5. \A j \in 1 .. 6 - 1 : ~Fails(s, Order[j])
    BY <2>2, <2>3, <2>4
  <2> QED
    BY <1>15, <2>1, <2>5
<1> QED
  BY <1>14, <1>16, <1>17, <1>18

\* Whatever the market does between the stages, a symbol is in the answer if
\* it keeps what every enabled filter promises, on the candles read for that
\* filter; and of a symbol that is not, the audit names the first filter that
\* fails it (_run_filter_pipeline, _exclusion_reasons).
THEOREM ScanExactHolds == Spec => []ScanExact
<1>1. IInv => ScanExact
  BY TypeOKFollows, AnswerExactFollows, ReasonsExactFollows DEF ScanExact
<1> QED
  BY <1>1, IInvHolds, PTL

----------------------------------------------------------------------------
(* The market at rest. *)

LEMMA SameMarket ==
  ASSUME UNCHANGED <<request, market, now, today>>
  PROVE  /\ \A s : ScanWindow(s)' = ScanWindow(s)
         /\ \A s : DetailWindow(s)' = DetailWindow(s)
         /\ \A s, days, minimum : DailyWindow(s, days, minimum)' = DailyWindow(s, days, minimum)
<1>1. \A s, limit : Fetched(s, limit)' = Fetched(s, limit)
  BY DEF Fetched
<1>2. \A s, limit : Completed(s, limit)' = Completed(s, limit)
  BY <1>1 DEF Completed
<1>3. (NeedsHistory' <=> NeedsHistory) /\ Required' = Required
  BY SameRequest
<1>4. \A s : ScanWindow(s)' = ScanWindow(s)
  BY <1>1, <1>2, <1>3 DEF ScanWindow
<1>5. \A s : DetailWindow(s)' = DetailWindow(s)
  BY <1>2, <1>3 DEF DetailWindow
<1>6. \A s : Daily(s)' = Daily(s)
  BY DEF Daily
<1>7. \A s, days, minimum : DailyWindow(s, days, minimum)' = DailyWindow(s, days, minimum)
  BY <1>6 DEF DailyWindow
<1> QED
  BY <1>4, <1>5, <1>7

LEMMA SaysKept ==
  ASSUME UNCHANGED <<request, market, now, today>>
  PROVE  \A pc, s, window, passed : Says(pc, s, window, passed)' <=> Says(pc, s, window, passed)
<1>1. /\ \A s : DetailWindow(s)' = DetailWindow(s)
      /\ \A s, days, minimum : DailyWindow(s, days, minimum)' = DailyWindow(s, days, minimum)
      /\ \A f : On(f)' <=> On(f)
      /\ AdrApplies' <=> AdrApplies
      /\ \A price : InPriceRange(price)' <=> InPriceRange(price)
      /\ \A s, w : IndicatorOutcome(s, w)' = IndicatorOutcome(s, w)
      /\ \A w : DeadOutcome(w)' = DeadOutcome(w)
      /\ \A w : AdrPasses(w)' <=> AdrPasses(w)
      /\ \A w : GapPasses(w)' <=> GapPasses(w)
  BY SameMarket, SameRequest, SameAdr, SameGap
<1> QED
  BY <1>1 DEF Says

LEMMA NextStage ==
  ASSUME NEW n \in Nat
  PROVE  /\ (n + 1 = 3 <=> n = 2) /\ (n + 1 = 4 <=> n = 3)
         /\ (n + 1 >= 3 /\ n # 2 => n >= 3) /\ (n + 1 >= 4 /\ n # 3 => n >= 4)
OBVIOUS

\* A stage that was given what the provider still says keeps the scan so.
LEMMA StageCurrent ==
  ASSUME IInv, ScanCurrent, DetailCurrent, NEW n \in Nat, n = Len(scan.stages),
         NEW stage, stage = StageAt(n + 1), NEW next \in Stage \cup {"answered"},
         Closes(stage, next), steady' \in BOOLEAN,
         scan.pc \notin {"fetching", "answered"},
         stage = "adr" /\ On("adr") /\ AdrApplies =>
           \A s \in scan.left : scan'.adr[s] = DailyWindow(s, request.adr.days, request.adr.days),
         stage = "gap_exclusion" /\ On("gap_exclusion") =>
           \A s \in scan.left : scan'.gap[s] = DailyWindow(s, request.gap.days, 2)
  PROVE  ScanCurrent' /\ DetailCurrent'
<1>1. /\ ScanTyped /\ Judged /\ UNCHANGED <<request, market, now, today>> /\ detail' = detail
      /\ scan.fetched \subseteq Symbol /\ scan.stages \in Seq([name : Stage, left : SUBSET Symbol])
  BY DEF IInv, Closes, ScanTyped
<1>2. ScanTyped' /\ Judged' /\ scan'.pc = next /\ Len(scan'.stages) = n + 1
  BY <1>1, StageStep
<1>3. /\ scan'.fetched = scan.fetched
      /\ scan'.stages = Append(scan.stages, [name |-> stage, left |-> scan'.left])
      /\ \A s \in Symbol : /\ scan'.assets[s].window = scan.assets[s].window
                           /\ scan'.assets[s].price = scan.assets[s].price
      /\ scan'.adr = scan.adr \/ stage = "adr"
      /\ scan'.gap = scan.gap \/ stage = "gap_exclusion"
      /\ scan'.left \subseteq scan.left
  BY DEF Closes
<1>4. \A i \in 0 .. n : LeftAt(i)' = LeftAt(i)
  <2>1. \A i \in 1 .. n : scan'.stages[i] = scan.stages[i]
    BY <1>1, <1>3
  <2>2. \A i \in 0 .. n : i # 0 => i \in 1 .. n
    OBVIOUS
  <2> QED
    BY <1>3, <2>1, <2>2 DEF LeftAt
<1>5. LeftAt(n) = scan.left
  BY <1>1 DEF Judged
<1>6. (stage = "adr" <=> n = 2) /\ (stage = "gap_exclusion" <=> n = 3)
  <2>1. (stage = "adr" <=> n + 1 = 3) /\ (stage = "gap_exclusion" <=> n + 1 = 4)
    BY StagePlaces
  <2>2. (n + 1 = 3 <=> n = 2) /\ (n + 1 = 4 <=> n = 3)
    BY NextStage
  <2> QED
    BY <2>1, <2>2
<1>7. /\ \A s : ScanWindow(s)' = ScanWindow(s)
      /\ \A s : DetailWindow(s)' = DetailWindow(s)
      /\ \A s, days, minimum : DailyWindow(s, days, minimum)' = DailyWindow(s, days, minimum)
      /\ \A f : On(f)' <=> On(f)
      /\ AdrApplies' <=> AdrApplies
  BY <1>1, SameMarket, SameRequest
<1>8. next # "fetching"
  BY DEF Stage, Filter
<1>9. ScanCurrent'
  <2>1. scan.fetched = {s \in Symbol : ScanWindow(s) # <<>>}
    BY DEF ScanCurrent
  <2>2. scan'.fetched = {s \in Symbol : ScanWindow(s)' # <<>>}
    BY <1>3, <1>7, <2>1
  <2>3. \A s \in scan'.fetched : /\ scan'.assets[s].window = ScanWindow(s)'
                                 /\ scan'.assets[s].price = Last(ScanWindow(s)')
    BY <1>1, <1>3, <1>7 DEF ScanCurrent
  <2>4. ASSUME n + 1 >= 3, On("adr"), AdrApplies, NEW s \in LeftAt(2)'
        PROVE  scan'.adr[s] = DailyWindow(s, request.adr.days, request.adr.days)
    <3>1. LeftAt(2)' = LeftAt(2)
      BY <1>4, <2>4
    <3>2. CASE n = 2
      BY <1>5, <1>6, <2>4, <3>1, <3>2
    <3>3. CASE n # 2
      <4>1. scan'.adr = scan.adr
        BY <1>3, <1>6, <3>3
      <4>2. n >= 3
        BY <2>4, <3>3, NextStage
      <4> QED
        BY <2>4, <3>1, <4>1, <4>2 DEF ScanCurrent
    <3> QED
      BY <3>2, <3>3
  <2>5. ASSUME n + 1 >= 4, On("gap_exclusion"), NEW s \in LeftAt(3)'
        PROVE  scan'.gap[s] = DailyWindow(s, request.gap.days, 2)
    <3>1. LeftAt(3)' = LeftAt(3)
      BY <1>4, <2>5
    <3>2. CASE n = 3
      BY <1>5, <1>6, <2>5, <3>1, <3>2
    <3>3. CASE n # 3
      <4>1. scan'.gap = scan.gap
        BY <1>3, <1>6, <3>3
      <4>2. n >= 4
        BY <2>5, <3>3, NextStage
      <4> QED
        BY <2>5, <3>1, <4>1, <4>2 DEF ScanCurrent
    <3> QED
      BY <3>2, <3>3
  <2>6. (Len(scan'.stages) >= 3 /\ On("adr")' /\ AdrApplies') =>
           \A s \in LeftAt(2)' : scan'.adr[s] = DailyWindow(s, request.adr.days, request.adr.days)'
    BY <1>1, <1>2, <1>7, <2>4
  <2>7. (Len(scan'.stages) >= 4 /\ On("gap_exclusion")') =>
           \A s \in LeftAt(3)' : scan'.gap[s] = DailyWindow(s, request.gap.days, 2)'
    BY <1>1, <1>2, <1>7, <2>5
  <2> QED
    BY <2>2, <2>3, <2>6, <2>7 DEF ScanCurrent
<1>10. DetailCurrent'
  <2>1. detail.pc = "idle" /\ Says(detail.pc, detail.symbol, detail.window, detail.passed)
    BY DEF DetailCurrent
  <2> QED
    BY <1>1, <2>1, SaysKept DEF DetailCurrent
<1> QED
  BY <1>9, <1>10

LEMMA StagesCurrent ==
  ASSUME IInv, Current, steady',
         PriceRange \/ DeadAssets \/ AverageDailyRange \/ GapExclusion \/ Indicators \/ PostFilters
  PROVE  ScanCurrent' /\ DetailCurrent'
<1>0. Len(scan.stages) \in Nat /\ steady \in BOOLEAN
  BY LeftTyped DEF IInv, ScanTyped
<1>1. CASE PriceRange
  <2>1. /\ Closes("price_range", "dead_assets") /\ UNCHANGED steady /\ Len(scan.stages) = 0
        /\ scan.pc = "price_range"
    BY <1>1, PriceRangeCloses DEF PriceRange, IInv, Course
  <2>2. "price_range" = StageAt(0 + 1) /\ "dead_assets" \in Stage
    BY DEF StageAt, Stage, Filter
  <2>3. steady' \in BOOLEAN /\ ScanCurrent /\ DetailCurrent
    BY <1>0, <2>1 DEF Current
  <2> QED
    BY <2>1, <2>2, <2>3, StageCurrent
<1>2. CASE DeadAssets
  <2>1. /\ Closes("dead_assets", "adr") /\ UNCHANGED steady /\ Len(scan.stages) = 1
        /\ scan.pc = "dead_assets"
    BY <1>2, DeadAssetsCloses DEF DeadAssets, IInv, Course
  <2>2. "dead_assets" = StageAt(1 + 1) /\ "adr" \in Stage
    BY DEF StageAt, Stage, Filter
  <2>3. steady' \in BOOLEAN /\ ScanCurrent /\ DetailCurrent
    BY <1>0, <2>1 DEF Current
  <2> QED
    BY <2>1, <2>2, <2>3, StageCurrent
<1>3. CASE AverageDailyRange
  <2>1. /\ Closes("adr", "gap_exclusion") /\ steady' \in BOOLEAN
        /\ steady' => steady
        /\ On("adr") /\ AdrApplies =>
             \A s \in scan.left : scan'.adr[s] = DailyWindow(s, request.adr.days, request.adr.days)
    BY <1>3, AdrCloses
  <2>2. Len(scan.stages) = 2 /\ scan.pc = "adr"
    BY <1>3 DEF AverageDailyRange, IInv, Course
  <2>3. "adr" = StageAt(2 + 1) /\ "gap_exclusion" \in Stage
    BY DEF StageAt, Stage, Filter
  <2>4. ScanCurrent /\ DetailCurrent
    BY <2>1 DEF Current
  <2> QED
    BY <2>1, <2>2, <2>3, <2>4, StageCurrent
<1>4. CASE GapExclusion
  <2>1. PICK next : next = AfterGaps
    OBVIOUS
  <2>2. /\ Closes("gap_exclusion", next) /\ steady' \in BOOLEAN
        /\ steady' => steady
        /\ On("gap_exclusion") =>
             \A s \in scan.left : scan'.gap[s] = DailyWindow(s, request.gap.days, 2)
    BY <1>4, <2>1, GapsClose
  <2>3. Len(scan.stages) = 3 /\ scan.pc = "gap_exclusion"
    BY <1>4 DEF GapExclusion, IInv, Course
  <2>4. "gap_exclusion" = StageAt(3 + 1) /\ next \in Stage
    BY <2>1 DEF StageAt, Stage, Filter, AfterGaps
  <2>5. ScanCurrent /\ DetailCurrent
    BY <2>2 DEF Current
  <2> QED
    BY <2>2, <2>3, <2>4, <2>5, StageCurrent
<1>5. CASE Indicators
  <2>1. /\ Closes("indicators", "post_filters") /\ UNCHANGED steady /\ Len(scan.stages) = 4
        /\ scan.pc = "indicators" /\ On("indicators")
    BY <1>5, IndicatorsCloses DEF Indicators, IInv, Course
  <2>2. "indicators" = StageAt(4 + 1) /\ "post_filters" \in Stage
    BY <2>1 DEF StageAt, Stage, Filter
  <2>3. steady' \in BOOLEAN /\ ScanCurrent /\ DetailCurrent
    BY <1>0, <2>1 DEF Current
  <2> QED
    BY <2>1, <2>2, <2>3, StageCurrent
<1>6. CASE PostFilters
  <2>1. /\ Closes("post_filters", "answered") /\ UNCHANGED steady
        /\ Len(scan.stages) = (IF On("indicators") THEN 5 ELSE 4)
        /\ scan.pc = "post_filters"
    BY <1>6, PostFiltersCloses DEF PostFilters, IInv, Course
  <2>2. PICK n \in Nat : n = Len(scan.stages) /\ n = (IF On("indicators") THEN 5 ELSE 4)
    BY <1>0, <2>1
  <2>3. "post_filters" = StageAt(n + 1)
    BY <2>2 DEF StageAt
  <2>4. steady' \in BOOLEAN /\ ScanCurrent /\ DetailCurrent
    BY <1>0, <2>1 DEF Current
  <2> QED
    BY <2>1, <2>2, <2>3, <2>4, StageCurrent
<1> QED
  BY <1>1, <1>2, <1>3, <1>4, <1>5, <1>6

LEMMA FetchCurrent ==
  ASSUME IInv, Current, steady', ScanFetches PROVE ScanCurrent' /\ DetailCurrent'
<1>1. PICK served \in SUBSET Symbol :
        LET found == {s \in served : ScanWindow(s) # <<>>}
        IN /\ Served(Symbol, served)
           /\ scan' = [scan EXCEPT
               !.pc = IF found = {} THEN "answered" ELSE "price_range",
               !.fetched = found, !.left = found,
               !.assets = [s \in Symbol |->
                  IF s \in found THEN [window |-> ScanWindow(s), told |-> <<>>,
                                       price |-> Last(ScanWindow(s))]
                                 ELSE NoAsset]]
  BY Zenon DEF ScanFetches
<1> DEFINE found == {s \in served : ScanWindow(s) # <<>>}
           assets == [s \in Symbol |->
                  IF s \in found THEN [window |-> ScanWindow(s), told |-> <<>>,
                                       price |-> Last(ScanWindow(s))]
                                 ELSE NoAsset]
           pc == IF found = {} THEN "answered" ELSE "price_range"
<1>2. /\ UNCHANGED <<request, market, now, today>> /\ detail' = detail /\ scan.pc = "fetching"
      /\ Len(scan.stages) = 0
  BY DEF IInv, ScanFetches, Course
<1>3. steady /\ served = Symbol
  BY <1>1 DEF Served
<1>4. scan' = [pc |-> pc, fetched |-> found, left |-> found, stages |-> scan.stages,
               assets |-> assets, adr |-> scan.adr, gap |-> scan.gap]
  <2>1. scan = [pc |-> scan.pc, fetched |-> scan.fetched, left |-> scan.left, stages |-> scan.stages,
                assets |-> scan.assets, adr |-> scan.adr, gap |-> scan.gap]
    BY DEF IInv, ScanTyped
  <2>2. scan' = [scan EXCEPT !.pc = pc, !.fetched = found, !.left = found, !.assets = assets]
    BY <1>1
  <2> HIDE DEF pc, found, assets
  <2> QED
    BY <2>1, <2>2
<1>5. found = {s \in Symbol : ScanWindow(s) # <<>>}
  BY <1>3
<1>6. ASSUME NEW s \in found
      PROVE  assets[s].window = ScanWindow(s) /\ assets[s].price = Last(ScanWindow(s))
  <2>1. s \in Symbol
    OBVIOUS
  <2>2. assets[s] = [window |-> ScanWindow(s), told |-> <<>>, price |-> Last(ScanWindow(s))]
    BY <2>1
  <2> HIDE DEF assets
  <2> QED
    BY <2>2
<1> HIDE DEF found, assets, pc
<1>7. \A s : ScanWindow(s)' = ScanWindow(s)
  BY <1>2, SameMarket
<1>8. scan'.fetched = found /\ scan'.assets = assets /\ scan'.stages = scan.stages
  BY <1>4
<1>9. scan'.fetched = {s \in Symbol : ScanWindow(s)' # <<>>}
  BY <1>5, <1>7, <1>8
<1>10. \A s \in scan'.fetched : /\ scan'.assets[s].window = ScanWindow(s)'
                                /\ scan'.assets[s].price = Last(ScanWindow(s)')
  BY <1>6, <1>7, <1>8
<1>11. ~(Len(scan'.stages) >= 3) /\ ~(Len(scan'.stages) >= 4)
  BY <1>2, <1>8
<1>12. ScanCurrent'
  BY <1>9, <1>10, <1>11 DEF ScanCurrent
<1>13. DetailCurrent'
  <2>1. detail.pc = "idle" /\ Says(detail.pc, detail.symbol, detail.window, detail.passed)
    BY <1>2, <1>3 DEF Current, DetailCurrent
  <2> QED
    BY <1>2, <2>1, SaysKept DEF DetailCurrent
<1> QED
  BY <1>12, <1>13

\* The steps that touch neither the scan nor the market.
LEMMA ScanCurrentRests ==
  ASSUME ScanCurrent, UNCHANGED <<request, market, now, today, scan>>
  PROVE  ScanCurrent'
<1>1. /\ \A s : ScanWindow(s)' = ScanWindow(s)
      /\ \A s, days, minimum : DailyWindow(s, days, minimum)' = DailyWindow(s, days, minimum)
      /\ \A f : On(f)' <=> On(f)
      /\ AdrApplies' <=> AdrApplies
  BY SameMarket, SameRequest
<1>2. \A i : LeftAt(i)' = LeftAt(i)
  BY DEF LeftAt
<1>3. scan'.pc # "fetching" => scan'.fetched = {s \in Symbol : ScanWindow(s)' # <<>>}
  BY <1>1 DEF ScanCurrent
<1>4. \A s \in scan'.fetched : /\ scan'.assets[s].window = ScanWindow(s)'
                               /\ scan'.assets[s].price = Last(ScanWindow(s)')
  BY <1>1 DEF ScanCurrent
<1>5. (Len(scan'.stages) >= 3 /\ On("adr")' /\ AdrApplies') =>
         \A s \in LeftAt(2)' : scan'.adr[s] = DailyWindow(s, request.adr.days, request.adr.days)'
  BY <1>1, <1>2 DEF ScanCurrent
<1>6. (Len(scan'.stages) >= 4 /\ On("gap_exclusion")') =>
         \A s \in LeftAt(3)' : scan'.gap[s] = DailyWindow(s, request.gap.days, 2)'
  BY <1>1, <1>2 DEF ScanCurrent
<1> QED
  BY <1>3, <1>4, <1>5, <1>6 DEF ScanCurrent

LEMMA DetailAskedCurrent ==
  ASSUME IInv, Current, steady', DetailAsked PROVE DetailCurrent'
<1>1. /\ DetailTyped /\ UNCHANGED <<request, market, now, today>> /\ scan' = scan
      /\ scan.pc = "answered" /\ detail.pc = "idle"
  BY Zenon DEF IInv, DetailAsked
<1>2. PICK s \in Symbol, served \in SUBSET Symbol :
        LET window == IF s \in served THEN DetailWindow(s) ELSE <<>>
            outcome == IF On("indicators") THEN IndicatorOutcome(s, window) ELSE "passes"
        IN /\ Served({s}, served)
           /\ detail' = [detail EXCEPT !.symbol = s, !.window = window,
                !.pc = IF window = <<>> THEN "missing"
                       ELSE IF outcome = "raises" THEN "failed" ELSE "adr",
                !.passed = IF window = <<>> THEN @ ELSE
                   [detail.passed EXCEPT !["indicators"] = outcome = "passes",
                            !["price_range"] = On("price_range") => InPriceRange(Last(window)),
                            !["dead_assets"] = On("dead_assets") => DeadOutcome(window) # "fails"]]
  BY Zenon DEF DetailAsked
<1> DEFINE window == IF s \in served THEN DetailWindow(s) ELSE <<>>
           outcome == IF On("indicators") THEN IndicatorOutcome(s, window) ELSE "passes"
           pc == IF window = <<>> THEN "missing" ELSE IF outcome = "raises" THEN "failed" ELSE "adr"
           tests == [detail.passed EXCEPT !["indicators"] = outcome = "passes",
                            !["price_range"] = On("price_range") => InPriceRange(Last(window)),
                            !["dead_assets"] = On("dead_assets") => DeadOutcome(window) # "fails"]
           passed == IF window = <<>> THEN detail.passed ELSE tests
<1>3. detail' = [detail EXCEPT !.pc = pc, !.symbol = s, !.window = window, !.passed = passed]
  BY <1>2, Zenon
<1>4. steady /\ served = {s}
  BY <1>2 DEF Served
<1>5. window = DetailWindow(s)
  BY <1>4
<1>6. detail.passed \in [Filter -> BOOLEAN] /\ \A f \in Filter : detail.passed[f]
  BY <1>1, <1>4 DEF Current, DetailCurrent, Says, DetailTyped
<1> HIDE DEF window
<1>7. /\ tests["indicators"] <=> outcome = "passes"
      /\ tests["price_range"] <=> (On("price_range") => InPriceRange(Last(window)))
      /\ tests["dead_assets"] <=> (On("dead_assets") => DeadOutcome(window) # "fails")
      /\ tests["adr"]
  BY <1>6 DEF Filter
<1>8. outcome = "passes" <=> (On("indicators") => IndicatorOutcome(s, window) = "passes")
  OBVIOUS
<1>9. outcome = "raises" <=> On("indicators") /\ IndicatorOutcome(s, window) = "raises"
  OBVIOUS
<1>10. detail'.pc = pc /\ detail'.symbol = s /\ detail'.window = window /\ detail'.passed = passed
  <2> HIDE DEF pc, passed
  <2>1. detail = [pc |-> detail.pc, symbol |-> detail.symbol, window |-> detail.window,
                  passed |-> detail.passed]
    BY <1>1 DEF DetailTyped
  <2>2. detail' = [pc |-> pc, symbol |-> s, window |-> window, passed |-> passed]
    BY <1>3, <2>1
  <2> QED
    BY <2>2
<1> HIDE DEF outcome, tests
<1>11. Says(pc, s, window, passed)
  <2>1. CASE window = <<>>
    <3>1. pc = "missing"
      BY <2>1
    <3> HIDE DEF pc, passed
    <3> QED
      BY <3>1 DEF Says
  <2>2. CASE window # <<>> /\ outcome = "raises"
    <3>1. pc = "failed"
      BY <2>2
    <3> HIDE DEF pc, passed
    <3> QED
      BY <1>5, <1>9, <2>2, <3>1 DEF Says
  <2>3. CASE window # <<>> /\ outcome # "raises"
    <3>1. pc = "adr" /\ passed = tests
      BY <2>3
    <3> HIDE DEF pc, passed
    <3> QED
      BY <1>5, <1>7, <1>8, <2>3, <3>1 DEF Says
  <2> QED
    BY <2>1, <2>2, <2>3
<1> QED
  BY <1>1, <1>10, <1>11, SaysKept DEF DetailCurrent

LEMMA DetailAdrCurrent ==
  ASSUME IInv, Current, steady', DetailAdr PROVE DetailCurrent'
<1>0. UNCHANGED <<request, market, now, today, scan>> /\ detail.pc = "adr"
  BY Zenon DEF DetailAdr
<1> DEFINE s == detail.symbol
           days == request.adr.days
<1>1. /\ UNCHANGED <<request, market, now, today>> /\ scan' = scan /\ DetailTyped
      /\ detail = [pc |-> detail.pc, symbol |-> s, window |-> detail.window, passed |-> detail.passed]
      /\ detail.passed \in [Filter -> BOOLEAN] /\ s \in Symbol
  BY <1>0 DEF IInv, DetailTyped
<1>2. ASSUME NEW passed \in [Filter -> BOOLEAN], steady,
             detail' = [pc |-> "gap_exclusion", symbol |-> s, window |-> detail.window, passed |-> passed],
             \A f \in Filter : f # "adr" => (passed[f] <=> detail.passed[f]),
             passed["adr"] <=> (On("adr") /\ AdrApplies => AdrPasses(DailyWindow(s, days, days)))
      PROVE  DetailCurrent'
  <2>1. Says("adr", s, detail.window, detail.passed) /\ scan.pc = "answered"
    BY <1>0, <1>2 DEF Current, DetailCurrent
  <2>2. Says("gap_exclusion", s, detail.window, passed)
    BY <1>2, <2>1 DEF Says, Filter
  <2>3. detail'.pc = "gap_exclusion" /\ detail'.symbol = s /\ detail'.window = detail.window
        /\ detail'.passed = passed
    BY <1>2
  <2> QED
    BY <1>1, <2>1, <2>2, <2>3, SaysKept DEF DetailCurrent
<1>3. CASE On("adr") /\ AdrApplies
  <2>1. PICK served \in SUBSET {detail.symbol} :
          /\ Served({detail.symbol}, served)
          /\ detail' = [detail EXCEPT !.pc = "gap_exclusion", !.passed =
               [detail.passed EXCEPT !["adr"] =
                  AdrPasses(DetailDays(request.adr.days, request.adr.days, served))]]
    BY <1>3, Zenon DEF DetailAdr
  <2>2. steady /\ served = {s}
    BY <2>1 DEF Served
  <2>3. DetailDays(days, days, served) = DailyWindow(s, days, days)
    BY <1>1, <2>2 DEF DetailDays, DaysOf
  <2> DEFINE verdict == AdrPasses(DailyWindow(s, days, days))
             passed == [detail.passed EXCEPT !["adr"] = verdict]
  <2>4. verdict \in BOOLEAN
    BY DEF AdrPasses
  <2>5. detail' = [detail EXCEPT !.pc = "gap_exclusion", !.passed = passed]
    BY <2>1, <2>3
  <2>6. passed \in [Filter -> BOOLEAN] /\ (passed["adr"] <=> verdict)
        /\ \A f \in Filter : f # "adr" => (passed[f] <=> detail.passed[f])
    <3> HIDE DEF verdict
    <3> QED
      BY <1>1, <2>4 DEF Filter
  <2> HIDE DEF passed
  <2>7. detail' = [pc |-> "gap_exclusion", symbol |-> s, window |-> detail.window, passed |-> passed]
    BY <1>1, <2>5
  <2> QED
    BY <1>2, <1>3, <2>2, <2>6, <2>7
<1>4. CASE ~(On("adr") /\ AdrApplies)
  <2>1. detail' = [detail EXCEPT !.pc = "gap_exclusion"] /\ UNCHANGED steady
    BY <1>4, Zenon DEF DetailAdr
  <2>2. detail' = [pc |-> "gap_exclusion", symbol |-> s, window |-> detail.window,
                   passed |-> detail.passed]
    BY <1>1, <2>1
  <2>3. detail.passed["adr"]
    BY <1>0, <2>1 DEF Current, DetailCurrent, Says
  <2> QED
    BY <1>1, <1>2, <1>4, <2>1, <2>2, <2>3
<1> QED
  BY <1>3, <1>4

LEMMA DetailGapsCurrent ==
  ASSUME IInv, Current, steady', DetailGaps PROVE DetailCurrent'
<1>0. UNCHANGED <<request, market, now, today, scan>> /\ detail.pc = "gap_exclusion"
  BY Zenon DEF DetailGaps
<1> DEFINE s == detail.symbol
           days == request.gap.days
<1>1. /\ UNCHANGED <<request, market, now, today>> /\ scan' = scan /\ DetailTyped
      /\ detail = [pc |-> detail.pc, symbol |-> s, window |-> detail.window, passed |-> detail.passed]
      /\ detail.passed \in [Filter -> BOOLEAN] /\ s \in Symbol
  BY <1>0 DEF IInv, DetailTyped
<1>2. PICK gaps \in BOOLEAN :
        /\ detail' = Showing(gaps) /\ steady
        /\ gaps <=> (On("gap_exclusion") => GapPasses(DailyWindow(s, days, 2)))
  <2>1. CASE On("gap_exclusion")
    <3>1. PICK served \in SUBSET {detail.symbol} :
            /\ Served({detail.symbol}, served)
            /\ detail' = Showing(GapPasses(DetailDays(request.gap.days, 2, served)))
      BY <2>1, GapsShown
    <3>2. steady /\ served = {s}
      BY <3>1 DEF Served
    <3>3. DetailDays(days, 2, served) = DailyWindow(s, days, 2)
      BY <1>1, <3>2 DEF DetailDays, DaysOf
    <3>4. GapPasses(DailyWindow(s, days, 2)) \in BOOLEAN
      BY DEF GapPasses
    <3> QED
      BY <2>1, <3>1, <3>2, <3>3, <3>4
  <2>2. CASE ~On("gap_exclusion")
    <3>1. detail' = Showing(TRUE) /\ UNCHANGED steady
      BY <2>2, GapsShown
    <3> QED
      BY <2>2, <3>1
  <2> QED
    BY <2>1, <2>2
<1> DEFINE passes(f) == On(f) => Verdict(f, detail.window) = "passes"
           passed == [detail.passed EXCEPT !["gap_exclusion"] = gaps,
                                           !["channel_respect"] = passes("channel_respect"),
                                           !["confluence"] = passes("confluence")]
<1>3. detail' = [detail EXCEPT !.pc = "shown", !.passed = passed]
  BY <1>2 DEF Showing
<1>4. /\ passed["gap_exclusion"] <=> gaps
      /\ \A f \in {"channel_respect", "confluence"} : passed[f] <=> passes(f)
      /\ \A f \in {"price_range", "dead_assets", "indicators", "adr"} : passed[f] <=> detail.passed[f]
  BY <1>1 DEF Filter
<1> HIDE DEF passed
<1>5. detail' = [pc |-> "shown", symbol |-> s, window |-> detail.window, passed |-> passed]
  BY <1>1, <1>3
<1>6. Says("gap_exclusion", s, detail.window, detail.passed) /\ scan.pc = "answered"
  BY <1>0, <1>2 DEF Current, DetailCurrent
<1>7. Says("shown", s, detail.window, passed)
  BY <1>2, <1>4, <1>6 DEF Says
<1>8. detail'.pc = "shown" /\ detail'.symbol = s /\ detail'.window = detail.window
      /\ detail'.passed = passed
  BY <1>5
<1> QED
  BY <1>1, <1>6, <1>7, <1>8, SaysKept DEF DetailCurrent

LEMMA CurrentHolds == Spec => []Current
<1>1. Init => Current
  <2> SUFFICES ASSUME Init PROVE Current
    OBVIOUS
  <2>1. /\ scan.pc = "fetching" /\ scan.fetched = {} /\ scan.stages = <<>> /\ Len(<<>>) = 0
        /\ detail.pc = "idle" /\ \A f \in Filter : detail.passed[f]
    BY DEF Init
  <2> QED
    BY <2>1 DEF Current, ScanCurrent, DetailCurrent, Says
<1>2. IInv /\ Current /\ [Next]_vars => Current'
  <2> SUFFICES ASSUME IInv, Current, [Next]_vars, steady' PROVE ScanCurrent' /\ DetailCurrent'
    BY DEF Current
  <2>1. CASE Tick
    BY <2>1 DEF Tick
  <2>2. CASE ScanFetches
    BY <2>2, FetchCurrent
  <2>3. CASE PriceRange \/ DeadAssets \/ AverageDailyRange \/ GapExclusion \/ Indicators \/ PostFilters
    BY <2>3, StagesCurrent
  <2>4. CASE DetailAsked \/ DetailAdr \/ DetailGaps
    <3>1. DetailCurrent'
      BY <2>4, DetailAskedCurrent, DetailAdrCurrent, DetailGapsCurrent
    <3>2. UNCHANGED <<request, market, now, today, scan>>
      <4>1. CASE DetailAsked
        BY <4>1, Zenon DEF DetailAsked
      <4>2. CASE DetailAdr
        BY <4>2, Zenon DEF DetailAdr
      <4>3. CASE DetailGaps
        BY <4>3, Zenon DEF DetailGaps
      <4> QED
        BY <2>4, <4>1, <4>2, <4>3
    <3>3. steady
      <4>1. CASE DetailAsked
        <5>1. \E s \in Symbol, served \in SUBSET Symbol : Served({s}, served)
          BY <4>1, Zenon DEF DetailAsked
        <5> QED
          BY <5>1 DEF Served
      <4>2. CASE DetailAdr
        <5>1. (\E served : Served({detail.symbol}, served)) \/ UNCHANGED steady
          BY <4>2, Zenon DEF DetailAdr
        <5> QED
          BY <5>1 DEF Served
      <4>3. CASE DetailGaps
        BY <4>3, GapsShown DEF Served
      <4> QED
        BY <2>4, <4>1, <4>2, <4>3
    <3> QED
      BY <3>1, <3>2, <3>3, ScanCurrentRests DEF Current
  <2>5. CASE UNCHANGED vars
    <3>1. UNCHANGED <<request, market, now, today, scan>> /\ detail' = detail /\ steady
      BY <2>5 DEF vars
    <3>2. ScanCurrent'
      BY <3>1, ScanCurrentRests DEF Current
    <3>3. DetailCurrent'
      BY <3>1, SaysKept DEF Current, DetailCurrent
    <3> QED
      BY <3>2, <3>3
  <2> QED
    BY <2>1, <2>2, <2>3, <2>4, <2>5 DEF Next
<1> QED
  BY <1>1, <1>2, IInvHolds, PTL DEF Spec

----------------------------------------------------------------------------
(* The two evaluations agree. *)

LEMMA OneAtMost ==
  ASSUME NEW n \in Nat, n >= 1
  PROVE  (IF n <= 1 THEN n ELSE 1) = 1
OBVIOUS

\* The newest candle known is the last of both windows, unless it is open.
LEMMA SameLast ==
  ASSUME request \in Request, market \in Market, now \in Nat, NEW s \in Symbol,
         NEW limit \in Nat, limit >= 1, Completed(s, limit) # <<>>
  PROVE  /\ Fetched(s, 1) # <<>> /\ Prices(Fetched(s, 1)) # <<>>
         /\ ~request.forming => Last(Prices(Fetched(s, 1))) = Last(Completed(s, limit))
<1> DEFINE n == Lesser(MaxCandles, limit + 1)
           known == Known(s)
           recent == Fetched(s, n)
           closed == Before(recent, now)
           window == Completed(s, limit)
<1>1. n \in Nat /\ n >= 1 /\ now \in Int
  BY Numbers DEF Lesser
<1> HIDE DEF n
<1>2. /\ known \in Seq(Candle) /\ Len(known) \in Nat
      /\ recent = LastOf(known, n) /\ Fetched(s, 1) = LastOf(known, 1)
      /\ recent \in Seq(Candle) /\ Fetched(s, 1) \in Seq(Candle)
  BY <1>1, FetchedIs
<1>3. /\ closed \in Seq(Candle) /\ Len(closed) \in Nat /\ Len(closed) <= Len(recent)
  BY <1>1, <1>2, BeforeIs
<1>4. window = LastOf(Prices(closed), limit)
  BY DEF Completed, n
<1> HIDE DEF known, recent, closed, window
<1>5. /\ Prices(closed) \in Seq(Price) /\ Len(Prices(closed)) = Len(closed)
      /\ \A i \in 1 .. Len(closed) : Prices(closed)[i] = closed[i].price
  BY <1>3, PricesAre
<1>6. /\ window \in Seq(Price)
      /\ Len(window) = (IF Len(closed) <= limit THEN Len(closed) ELSE limit)
      /\ \A k \in 1 .. Len(window) :
           \E i \in 1 .. Len(closed) : /\ window[k] = Prices(closed)[i]
                                       /\ k = Len(window) => i = Len(closed)
  BY <1>4, <1>5, LastOfIs
<1>7. Len(window) >= 1 /\ Len(window) \in Nat
  <2>1. window # <<>>
    BY DEF window
  <2> QED
    BY <1>6, <2>1
<1>8. Len(closed) >= 1
  BY <1>3, <1>6, <1>7
<1>9. /\ Len(recent) = (IF Len(known) <= n THEN Len(known) ELSE n)
      /\ \A k \in 1 .. Len(recent) :
           \E i \in 1 .. Len(known) : recent[k] = known[i] /\ (k = Len(recent) => i = Len(known))
      /\ Len(recent) \in Nat
  BY <1>1, <1>2, LastOfIs
<1>10. Len(known) >= 1
  BY <1>1, <1>2, <1>3, <1>8, <1>9
<1> DEFINE one == LastOf(known, 1)
<1>11. /\ Len(one) = (IF Len(known) <= 1 THEN Len(known) ELSE 1) /\ one \in Seq(Candle)
       /\ \A k \in 1 .. Len(one) :
            \E i \in 1 .. Len(known) : one[k] = known[i] /\ (k = Len(one) => i = Len(known))
  <2>1. 1 \in Nat
    OBVIOUS
  <2> QED
    BY <1>2, <2>1, LastOfIs
<1> HIDE DEF one
<1>12. Len(one) = 1 /\ one[1] = known[Len(known)]
  <2>1. (IF Len(known) <= 1 THEN Len(known) ELSE 1) = 1
    BY <1>2, <1>10, OneAtMost
  <2>2. Len(one) = 1
    BY <1>11, <2>1
  <2>3. 1 \in 1 .. Len(one)
    BY <2>2
  <2> QED
    BY <1>11, <2>2, <2>3
<1>13. Prices(one) \in Seq(Price) /\ Len(Prices(one)) = 1 /\ Prices(one)[1] = known[Len(known)].price
  <2>1. Prices(one) \in Seq(Price) /\ Len(Prices(one)) = Len(one) /\ \A i \in 1 .. Len(one) : Prices(one)[i] = one[i].price
    BY <1>11, PricesAre
  <2>2. 1 \in 1 .. Len(one)
    BY <1>12
  <2> QED
    BY <1>12, <2>1, <2>2
<1>14. Fetched(s, 1) = one /\ one # <<>> /\ Prices(one) # <<>>
  BY <1>2, <1>12, <1>13 DEF one
<1>15. ASSUME ~request.forming PROVE Last(Prices(one)) = Last(window)
  <2>1. known = Before(market.candles[s], now) /\ market.candles[s] \in Seq(Candle)
    BY <1>15, MarketTyped DEF known, Known
  <2>2. \A i \in 1 .. Len(known) : known[i].time < now
    BY <1>1, <2>1, BeforeIs
  <2>3. \A k \in 1 .. Len(recent) : recent[k].time < now
    BY <1>9, <2>2
  <2>4. {k \in DOMAIN recent : recent[k].time < now} = DOMAIN recent
    <3>1. DOMAIN recent = 1 .. Len(recent)
      BY <1>2
    <3>2. \A k \in DOMAIN recent : recent[k].time < now
      BY <2>3, <3>1
    <3> QED
      BY <3>2
  <2>5. closed = recent
    BY <1>2, <2>4, ThoseAll DEF closed, Before
  <2>6. Len(recent) \in 1 .. Len(recent)
    BY <1>8, <1>9, <2>5
  <2>7. recent[Len(recent)] = known[Len(known)]
    BY <1>9, <2>6
  <2>8. Len(window) \in 1 .. Len(window)
    BY <1>7
  <2>9. window[Len(window)] = Prices(closed)[Len(closed)]
    BY <1>6, <2>8
  <2>10. Prices(closed)[Len(closed)] = recent[Len(recent)].price
    BY <1>5, <2>5, <2>6
  <2> QED
    BY <1>13, <2>7, <2>9, <2>10 DEF Last
<1> QED
  BY <1>14, <1>15 DEF window

LEMMA WindowsAgree ==
  ASSUME request \in Request, market \in Market, now \in Nat, NEW s \in Symbol,
         IF NeedsHistory THEN Required >= DetailFloor ELSE On("price_range") => ~request.forming,
         DetailWindow(s) # <<>>
  PROVE  /\ ScanWindow(s) # <<>>
         /\ NeedsHistory => ScanWindow(s) = DetailWindow(s)
         /\ On("price_range") => Last(ScanWindow(s)) = Last(DetailWindow(s))
<1>1. Required \in Nat /\ Required >= 1 /\ DetailFloor \in Nat /\ DetailFloor >= 1
  BY RequiredIs, Numbers
<1>2. CASE NeedsHistory
  <2>1. ~(Required < DetailFloor)
    BY <1>1, <1>2
  <2>2. DetailWindow(s) = Completed(s, Required)
    BY <2>1 DEF DetailWindow
  <2>3. ScanWindow(s) = Completed(s, Required)
    BY <1>2 DEF ScanWindow
  <2> QED
    BY <2>2, <2>3
<1>3. CASE ~NeedsHistory
  <2> DEFINE limit == IF Required < DetailFloor THEN DetailFloor ELSE Required
  <2>1. limit \in Nat /\ limit >= 1
    BY <1>1
  <2>2. DetailWindow(s) = Completed(s, limit)
    BY DEF DetailWindow
  <2>3. ScanWindow(s) = Prices(Fetched(s, 1))
    BY <1>3 DEF ScanWindow
  <2>4. On("price_range") => ~request.forming
    BY <1>3
  <2> HIDE DEF limit
  <2>5. /\ Prices(Fetched(s, 1)) # <<>>
        /\ ~request.forming => Last(Prices(Fetched(s, 1))) = Last(Completed(s, limit))
    BY <2>1, <2>2, SameLast
  <2> QED
    BY <1>3, <2>2, <2>3, <2>4, <2>5
<1> QED
  BY <1>2, <1>3

\* Once the detail view has judged a symbol, its verdict is the scan's.
LEMMA Agreement ==
  ASSUME IInv, ScanCurrent, DetailCurrent, detail.pc \in {"shown", "failed"},
         IF NeedsHistory THEN Required >= DetailFloor ELSE On("price_range") => ~request.forming
  PROVE  detail.symbol \in scan.left <=>
           detail.pc = "shown" /\ \A f \in request.on : detail.passed[f]
<1> DEFINE s == detail.symbol
           W == DetailWindow(s)
           asset == scan.assets[s]
           Fine(stage) == ~Fails(s, stage)
           Days == DailyWindow(s, request.adr.days, request.adr.days)
           Jumps == DailyWindow(s, request.gap.days, 2)
<1>1. /\ request \in Request /\ market \in Market /\ now \in Nat /\ s \in Symbol
      /\ scan.pc = "answered" /\ Says(detail.pc, s, detail.window, detail.passed)
  BY DEF IInv, ScanTyped, DetailTyped, DetailCurrent
<1>2. W # <<>>
  BY <1>1 DEF Says
<1>3. /\ ScanWindow(s) # <<>>
      /\ NeedsHistory => ScanWindow(s) = W
      /\ On("price_range") => Last(ScanWindow(s)) = Last(W)
  BY <1>1, <1>2, WindowsAgree
<1>4. s \in scan.fetched /\ asset.window = ScanWindow(s) /\ asset.price = Last(ScanWindow(s))
  BY <1>1, <1>3 DEF ScanCurrent
<1>5. /\ Len(scan.stages) = (IF On("indicators") THEN 6 ELSE 5)
      /\ StageAt(1) = "price_range" /\ StageAt(2) = "dead_assets" /\ StageAt(3) = "adr"
      /\ StageAt(4) = "gap_exclusion" /\ (On("indicators") => StageAt(5) = "indicators")
      /\ StageAt(Len(scan.stages)) = "post_filters"
  BY <1>1, <1>4, StagesOver
<1>6. s \in scan.left <=> /\ Fine("price_range") /\ Fine("dead_assets") /\ Fine("adr")
                          /\ Fine("gap_exclusion") /\ Fine("indicators") /\ Fine("post_filters")
  <2>1. s \in scan.left <=> \A i \in 1 .. Len(scan.stages) : Fine(StageAt(i))
    BY <1>4, LeftIs
  <2>2. ~On("indicators") => Fine("indicators")
    BY DEF Fails
  <2> HIDE DEF Fine
  <2>3. CASE On("indicators")
    <3>1. 1 .. Len(scan.stages) = {1, 2, 3, 4, 5, 6} /\ Len(scan.stages) = 6
      BY <1>5, <2>3
    <3> QED
      BY <1>5, <2>1, <2>3, <3>1
  <2>4. CASE ~On("indicators")
    <3>1. 1 .. Len(scan.stages) = {1, 2, 3, 4, 5} /\ Len(scan.stages) = 5
      BY <1>5, <2>4
    <3> QED
      BY <1>5, <2>1, <2>2, <2>4, <3>1
  <2> QED
    BY <2>3, <2>4
<1>7. /\ ~NeedsHistory => /\ ~On("dead_assets") /\ ~On("channel_respect") /\ ~On("confluence")
                          /\ On("indicators") => request.fundamental
  BY DEF NeedsHistory, On, Charted
<1>8. Fine("price_range") <=> (On("price_range") => InPriceRange(Last(W)))
  BY <1>3, <1>4 DEF Fails
<1>9. Fine("dead_assets") <=> (On("dead_assets") => DeadOutcome(W) # "fails")
  BY <1>3, <1>4, <1>7 DEF Fails
<1>10. Fine("indicators") <=> (On("indicators") => IndicatorOutcome(s, W) = "passes")
  <2>1. request.fundamental => IndicatorOutcome(s, asset.window) = IndicatorOutcome(s, W)
    BY DEF IndicatorOutcome
  <2> QED
    BY <1>3, <1>4, <1>7, <2>1 DEF Fails
<1>11. Fine("post_filters") <=>
         \A f \in {"channel_respect", "confluence"} : On(f) => Verdict(f, W) = "passes"
  <2>1. Fine("post_filters") <=>
          \A f \in {"channel_respect", "confluence"} : On(f) => Verdict(f, asset.window) = "passes"
    BY DEF Fails
  <2> QED
    BY <1>3, <1>4, <1>7, <2>1
<1>12. /\ Fine("price_range") /\ Fine("dead_assets") => s \in LeftAt(2)
       /\ Fine("price_range") /\ Fine("dead_assets") /\ Fine("adr") => s \in LeftAt(3)
  <2>1. \A i \in 1 .. Len(scan.stages) : LeftAt(i) = {x \in LeftAt(i - 1) : ~Fails(x, StageAt(i))}
    BY DEF IInv, Judged
  <2>2. {1, 2, 3} \subseteq 1 .. Len(scan.stages) /\ 1 - 1 = 0 /\ 2 - 1 = 1 /\ 3 - 1 = 2
    BY <1>5
  <2>3. s \in LeftAt(0)
    BY <1>4 DEF LeftAt
  <2>4. Fine(StageAt(1)) => s \in LeftAt(1)
    BY <2>1, <2>2, <2>3
  <2>5. s \in LeftAt(1) /\ Fine(StageAt(2)) => s \in LeftAt(2)
    BY <2>1, <2>2
  <2>6. s \in LeftAt(2) /\ Fine(StageAt(3)) => s \in LeftAt(3)
    BY <2>1, <2>2
  <2> HIDE DEF Fine
  <2> QED
    BY <1>5, <2>4, <2>5, <2>6
<1>13. Len(scan.stages) >= 3 /\ Len(scan.stages) >= 4
  BY <1>5
<1>14. Fine("price_range") /\ Fine("dead_assets") =>
         (Fine("adr") <=> (On("adr") /\ AdrApplies => AdrPasses(Days)))
  BY <1>12, <1>13 DEF ScanCurrent, Fails
<1>15. Fine("price_range") /\ Fine("dead_assets") /\ Fine("adr") =>
         (Fine("gap_exclusion") <=> (On("gap_exclusion") => GapPasses(Jumps)))
  BY <1>12, <1>13 DEF ScanCurrent, Fails
<1>16. s \in scan.left <=>
         /\ On("price_range") => InPriceRange(Last(W))
         /\ On("dead_assets") => DeadOutcome(W) # "fails"
         /\ On("adr") /\ AdrApplies => AdrPasses(Days)
         /\ On("gap_exclusion") => GapPasses(Jumps)
         /\ On("indicators") => IndicatorOutcome(s, W) = "passes"
         /\ \A f \in {"channel_respect", "confluence"} : On(f) => Verdict(f, W) = "passes"
  <2> HIDE DEF Fine, W, Days, Jumps
  <2> QED
    BY <1>6, <1>8, <1>9, <1>10, <1>11, <1>14, <1>15
<1>17. CASE detail.pc = "failed"
  <2>1. On("indicators") /\ IndicatorOutcome(s, W) # "passes"
    BY <1>1, <1>17 DEF Says
  <2> QED
    BY <1>16, <1>17, <2>1
<1>18. CASE detail.pc = "shown"
  <2> DEFINE passed == detail.passed
  <2>1. (\A f \in request.on : passed[f]) <=> \A f \in Filter : On(f) => passed[f]
    BY <1>1, RequestTyped DEF On
  <2>2. detail.window = W
    BY <1>1, <1>18 DEF Says
  <2>3. /\ passed["price_range"] <=> (On("price_range") => InPriceRange(Last(W)))
        /\ passed["dead_assets"] <=> (On("dead_assets") => DeadOutcome(W) # "fails")
        /\ passed["indicators"] <=> (On("indicators") => IndicatorOutcome(s, W) = "passes")
        /\ passed["adr"] <=> (On("adr") /\ AdrApplies => AdrPasses(Days))
        /\ passed["gap_exclusion"] <=> (On("gap_exclusion") => GapPasses(Jumps))
        /\ \A f \in {"channel_respect", "confluence"} :
             passed[f] <=> (On(f) => Verdict(f, W) = "passes")
    BY <1>1, <1>18, <2>2 DEF Says
  <2> HIDE DEF passed, W, Days, Jumps
  <2>4. (\A f \in Filter : On(f) => passed[f]) <=>
          /\ On("price_range") => passed["price_range"]
          /\ On("dead_assets") => passed["dead_assets"]
          /\ On("adr") => passed["adr"]
          /\ On("gap_exclusion") => passed["gap_exclusion"]
          /\ On("indicators") => passed["indicators"]
          /\ \A f \in {"channel_respect", "confluence"} : On(f) => passed[f]
    BY DEF Filter
  <2>5. s \in scan.left <=> \A f \in Filter : On(f) => passed[f]
    BY <1>16, <2>3, <2>4
  <2> QED
    BY <1>18, <2>1, <2>5 DEF passed
<1> QED
  BY <1>17, <1>18

\* With the same market data the detail view passes a symbol on every filter of
\* the request if and only if the scan answered with it, for every market and
\* whatever the filters on the candles say (get_asset_detail against
\* _run_filter_pipeline).
THEOREM DetailAgreesHolds == Spec => []DetailAgrees
<1>1. IInv /\ Current => DetailAgrees
  BY Agreement DEF Current, DetailAgrees, Agree
<1> QED
  BY <1>1, IInvHolds, CurrentHolds, PTL
=============================================================================
