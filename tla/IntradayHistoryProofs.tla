------------------------ MODULE IntradayHistoryProofs ------------------------
(***************************************************************************)
(* For every stock, session, ratio, page and cap: the payload that an      *)
(* intraday download builds is the recent past of the sessions (HistoryExact), *)
(* whatever the pages, the failures, the widening and the clock between    *)
(* them did.                                                               *)
(***************************************************************************)
EXTENDS IntradayHistory, FiniteSetTheorems, WellFoundedInduction, TLAPS

----------------------------------------------------------------------------
(* Least and greatest numbers. *)

Less == {pair \in Nat \X Nat : pair[1] < pair[2]}

LEMMA LessWellFounded == IsWellFoundedOn(Less, Nat)
BY NatLessThanWellFounded DEF OpToRel, Less

\* Among numbers there is a least one, and Min is it.
LEMMA MinIs ==
  ASSUME NEW T \in SUBSET Nat, T # {}
  PROVE  Min(T) \in T /\ \A y \in T : Min(T) <= y
<1>1. PICK x \in T : \A y \in T : ~(<<y, x>> \in Less)
  BY LessWellFounded, WFMin
<1>2. ASSUME NEW y \in T PROVE x <= y
  <2>1. x \in Nat /\ y \in Nat /\ ~(<<y, x>> \in Less)
    BY <1>1
  <2>2. <<y, x>> \in Nat \X Nat /\ <<y, x>>[1] = y /\ <<y, x>>[2] = x
    BY <2>1
  <2>3. ~(y < x)
    BY <2>1, <2>2 DEF Less
  <2> QED
    BY <2>1, <2>3
<1> QED
  BY <1>2 DEF Min

\* Numbers with a bound have a greatest one.
LEMMA Greatest ==
  ASSUME NEW b \in Nat, NEW S \in SUBSET (0 .. b), S # {}
  PROVE  \E n \in S : \A m \in S : m <= n
<1> DEFINE T == {x \in Nat : \A m \in S : m <= x}
<1>1. b \in T /\ T \in SUBSET Nat
  OBVIOUS
<1> DEFINE n == Min(T)
<1>2. n \in T /\ \A y \in T : n <= y
  BY <1>1, MinIs
<1> HIDE DEF n
<1>3. n \in S
  <2> SUFFICES ASSUME n \notin S PROVE FALSE
    OBVIOUS
  <2>1. \A m \in S : m \in Nat /\ m <= n /\ m # n
    BY <1>2
  <2>2. n \in Nat /\ n > 0
    <3>1. PICK m \in S : m \in Nat /\ m <= n /\ m # n
      BY <2>1
    <3>2. n \in Nat
      BY <1>2
    <3> QED
      BY <3>1, <3>2
  <2>3. n - 1 \in T
    BY <2>1, <2>2
  <2> QED
    BY <1>2, <2>2, <2>3
<1> QED
  BY <1>2, <1>3

\* The lesser and the greater of two numbers.
LEMMA MinOfTwo ==
  ASSUME NEW a \in Int, NEW b \in Int
  PROVE  Min({a, b}) \in {a, b} /\ Min({a, b}) <= a /\ Min({a, b}) <= b
<1>1. \E x \in {a, b} : \A y \in {a, b} : x =< y
  <2>1. CASE a <= b
    BY <2>1
  <2>2. CASE b <= a
    BY <2>2
  <2> QED
    BY <2>1, <2>2
<1> QED
  BY <1>1 DEF Min

LEMMA MaxOfTwo ==
  ASSUME NEW a \in Int, NEW b \in Int
  PROVE  Max({a, b}) \in {a, b} /\ Max({a, b}) >= a /\ Max({a, b}) >= b
<1>1. \E x \in {a, b} : \A y \in {a, b} : x >= y
  <2>1. CASE a >= b
    BY <2>1
  <2>2. CASE b >= a
    BY <2>2
  <2> QED
    BY <2>1, <2>2
<1> QED
  BY <1>1 DEF Max

----------------------------------------------------------------------------
(* The most recent of a set. *)

\* What is later than a recent one is recent.
LEMMA RecentUp ==
  ASSUME NEW b \in Nat, NEW S \in SUBSET (0 .. b), NEW n \in Nat,
         NEW x \in Recent(S, n), NEW y \in S, y >= x
  PROVE  y \in Recent(S, n)
<1> DEFINE Later(z) == {w \in S : w > z}
<1>1. x \in S /\ Cardinality(Later(x)) < n /\ \A w \in S : w \in Nat
  BY DEF Recent
<1>2. IsFiniteSet(0 .. b)
  BY FS_Interval
<1>3. IsFiniteSet(S)
  BY <1>2, FS_Subset
<1>4. IsFiniteSet(Later(x))
  BY <1>3, FS_Subset
<1>5. Later(y) \in SUBSET Later(x)
  <2>1. ASSUME NEW w \in S, w > y PROVE w > x
    <3>1. w \in Nat /\ x \in Nat /\ y \in Nat
      BY <1>1
    <3> QED
      BY <2>1, <3>1
  <2> QED
    BY <2>1
<1>6. /\ Cardinality(Later(y)) <= Cardinality(Later(x))
      /\ Cardinality(Later(x)) \in Nat /\ Cardinality(Later(y)) \in Nat
  BY <1>4, <1>5, FS_Subset, FS_CardinalityType
<1>7. Cardinality(Later(y)) < n
  BY <1>1, <1>6
<1> QED
  BY <1>7 DEF Recent

\* There is a recent one.
LEMMA RecentSome ==
  ASSUME NEW b \in Nat, NEW S \in SUBSET (0 .. b), NEW n \in Nat, n > 0, S # {}
  PROVE  Recent(S, n) # {}
<1>1. PICK x \in S : \A y \in S : y <= x
  BY Greatest
<1>2. {y \in S : y > x} = {}
  <2>1. \A y \in S : y \in Nat /\ x \in Nat /\ ~(y > x)
    BY <1>1
  <2> QED
    BY <2>1
<1>3. Cardinality({y \in S : y > x}) = 0
  BY <1>2, FS_EmptySet
<1> QED
  BY <1>3 DEF Recent

\* They are as many as asked for at most.
LEMMA RecentCount ==
  ASSUME NEW b \in Nat, NEW S \in SUBSET (0 .. b), NEW n \in Nat
  PROVE  /\ IsFiniteSet(S) /\ IsFiniteSet(Recent(S, n))
         /\ Cardinality(Recent(S, n)) \in Nat /\ Cardinality(Recent(S, n)) <= n
<1> DEFINE R == Recent(S, n)
<1>1. R \in SUBSET S /\ S \in SUBSET Nat /\ \A y \in R : y \in S /\ y \in Nat
  BY DEF Recent
<1>2. IsFiniteSet(0 .. b)
  BY FS_Interval
<1>3. IsFiniteSet(S)
  BY <1>2, FS_Subset
<1>4. IsFiniteSet(R) /\ Cardinality(R) \in Nat
  BY <1>1, <1>3, FS_Subset, FS_CardinalityType
<1>5. CASE R = {}
  BY <1>3, <1>4, <1>5, FS_EmptySet
<1>6. CASE R # {}
  <2> DEFINE r == Min(R)
             L == {y \in S : y > r}
  <2>1. r \in R /\ \A y \in R : r <= y
    <3>1. R \in SUBSET Nat
      BY <1>1
    <3> HIDE DEF R
    <3> QED
      BY <1>6, <3>1, MinIs
  <2>2. Cardinality(L) < n
    BY <2>1 DEF Recent
  <2>3. IsFiniteSet(L) /\ Cardinality(L) \in Nat
    BY <1>3, FS_Subset, FS_CardinalityType
  <2> HIDE DEF r
  <2>4. R \in SUBSET (L \cup {r})
    <3> HIDE DEF R
    <3>1. ASSUME NEW y \in R PROVE y \in S /\ (y = r \/ y > r)
      <4>1. y \in S /\ y \in Nat /\ r \in Nat /\ r <= y
        BY <1>1, <2>1
      <4> QED
        BY <4>1
    <3> QED
      BY <3>1
  <2>5. /\ IsFiniteSet(L \cup {r})
        /\ Cardinality(L \cup {r}) = Cardinality(L) + 1
    <3> HIDE DEF R
    <3>1. r \in Nat /\ ~(r > r)
      BY <1>1, <2>1
    <3>2. r \notin L
      BY <3>1
    <3> HIDE DEF L
    <3> QED
      BY <2>3, <3>2, FS_AddElement
  <2>6. Cardinality(R) <= Cardinality(L) + 1
    BY <2>4, <2>5, FS_Subset
  <2> QED
    BY <1>3, <1>4, <2>2, <2>3, <2>6
<1> QED
  BY <1>5, <1>6

\* When they are fewer, they are all.
LEMMA RecentAll ==
  ASSUME NEW b \in Nat, NEW S \in SUBSET (0 .. b), NEW n \in Nat, Cardinality(Recent(S, n)) # n
  PROVE  Recent(S, n) = S
<1> DEFINE R == Recent(S, n)
<1>1. /\ IsFiniteSet(S) /\ IsFiniteSet(R)
      /\ Cardinality(R) \in Nat /\ Cardinality(R) < n
  BY RecentCount
<1>2. SUFFICES ASSUME S \ R # {} PROVE FALSE
  BY DEF Recent
<1>3. PICK x \in S \ R : \A y \in S \ R : y <= x
  BY <1>2, Greatest
<1> DEFINE L == {y \in S : y > x}
<1>4. L \in SUBSET R
  <2>1. \A y \in S : y \in Nat /\ x \in Nat /\ (y \notin R => ~(y > x))
    BY <1>3
  <2> HIDE DEF R
  <2> QED
    BY <2>1
<1>5. Cardinality(L) <= Cardinality(R) /\ Cardinality(L) \in Nat
  BY <1>1, <1>4, FS_Subset, FS_CardinalityType
<1>6. Cardinality(L) < n
  BY <1>1, <1>5
<1>7. x \in R
  BY <1>3, <1>6 DEF Recent
<1> QED
  BY <1>3, <1>7

----------------------------------------------------------------------------
(* The session *)

LEMMA Numbers ==
  /\ DayBars \in Nat /\ DayBars > 0 /\ Open \in Nat /\ SessionBars \in Nat
  /\ Ratio \in Nat /\ Ratio > 0 /\ Bar \in Nat /\ Bar > 0 /\ StretchMin \in Nat
  /\ Ratio <= StretchMin + 1 /\ MaxTime \in Nat
  /\ SourceCap \in Nat /\ SourceCap > 0 /\ MinPadding \in Nat /\ MinPadding > 0
  /\ MinPage \in Nat /\ MinPage > 0 /\ MaxPage \in Nat /\ MaxPage > 0
  /\ MaxPages \in Nat /\ MaxPages > 0 /\ Attempts \in Nat /\ Attempts > 0
  /\ Stretch \in Nat /\ MaxCandles \in Nat /\ MaxCandles > 0
  /\ \A limit \in Wanted : limit \in Nat /\ limit > 0
BY SessionAssumption, LimitAssumption DEF Positive

\* Division rounds down.
LEMMA DivBounds ==
  ASSUME NEW x \in Nat, NEW n \in Nat, n > 0
  PROVE  x \div n \in Nat /\ (x \div n) * n <= x /\ x < (x \div n) * n + n
         /\ (x \div n) * n \in Nat /\ x % n = x - (x \div n) * n
BY SMT

\* Division keeps the order.
LEMMA DivMonotone ==
  ASSUME NEW x \in Nat, NEW y \in Nat, NEW n \in Nat, n > 0, x <= y
  PROVE  x \div n <= y \div n
<1> DEFINE p == x \div n
           q == y \div n
<1>1. p \in Nat /\ q \in Nat /\ p * n <= x /\ y < q * n + n /\ p * n \in Nat /\ q * n \in Nat
  BY DivBounds
<1> HIDE DEF p, q
<1>2. SUFFICES ASSUME p > q PROVE FALSE
  BY <1>1 DEF p, q
<1>3. p >= q + 1
  BY <1>1, <1>2
<1>4. p * n >= (q + 1) * n
  BY <1>1, <1>3, SMT
<1>5. (q + 1) * n = q * n + n
  BY <1>1, SMT
<1> QED
  BY <1>1, <1>4, <1>5

\* A larger day begins a day later.
LEMMA TimesMonotone ==
  ASSUME NEW p \in Nat, NEW q \in Nat, NEW n \in Nat, p < q
  PROVE  p * n + n <= q * n
BY SMT

\* A bucket starts in the session, at its bar or less than a bucket before it.
LEMMA StartIs ==
  ASSUME NEW b \in Nat, InSession(b)
  PROVE  /\ SessionOpen(b) \in Nat /\ Start(b) \in Nat
         /\ SessionOpen(b) <= Start(b) /\ Start(b) <= b /\ b < Start(b) + Ratio
         /\ b < (b \div DayBars) * DayBars + DayBars
         /\ SessionOpen(b) = (b \div DayBars) * DayBars + Open
         /\ (b \div DayBars) * DayBars \in Nat /\ b \div DayBars \in Nat
<1> DEFINE d == b \div DayBars
           k == d * DayBars
           o == SessionOpen(b)
<1>1. /\ d \in Nat /\ k <= b /\ b < k + DayBars /\ k \in Nat /\ b % DayBars = b - k
  BY DivBounds, Numbers
<1>2. o = k + Open
  BY DEF SessionOpen
<1>3. b % DayBars >= Open
  BY Numbers, <1>1 DEF InSession
<1> HIDE DEF d, k
<1>4. o \in Nat /\ o <= b
  BY <1>1, <1>2, <1>3, Numbers
<1> DEFINE r == b - o
           t == (r \div Ratio) * Ratio
<1>5. Start(b) = o + t
  BY DEF Start
<1> HIDE DEF o
<1>6. r \in Nat
  BY <1>4
<1> HIDE DEF r
<1>7. t \in Nat /\ t <= r /\ r < t + Ratio
  BY <1>6, DivBounds, Numbers
<1> HIDE DEF t
<1>8. o + t \in Nat /\ o <= o + t /\ o + t <= b /\ b < o + t + Ratio
  BY <1>4, <1>7, Numbers DEF r
<1> QED
  BY <1>1, <1>2, <1>4, <1>5, <1>8 DEF d, k, o

\* Later bars are in later buckets, or in the same.
LEMMA StartMonotone ==
  ASSUME NEW x \in Nat, NEW y \in Nat, InSession(x), InSession(y), x <= y
  PROVE  Start(x) <= Start(y)
<1> DEFINE d == x \div DayBars
           e == y \div DayBars
<1>1. /\ d \in Nat /\ e \in Nat /\ d * DayBars \in Nat /\ e * DayBars \in Nat
      /\ SessionOpen(x) = d * DayBars + Open /\ SessionOpen(y) = e * DayBars + Open
      /\ Start(x) \in Nat /\ Start(y) \in Nat /\ Start(x) <= x /\ SessionOpen(y) <= Start(y)
      /\ x < d * DayBars + DayBars /\ SessionOpen(x) <= x /\ SessionOpen(y) <= y
  <2>1. Start(x) <= x /\ Start(y) <= y /\ SessionOpen(x) <= Start(x) /\ SessionOpen(y) <= Start(y)
    BY StartIs
  <2> QED
    BY <2>1, StartIs
<1>2. d <= e
  BY DivMonotone, Numbers
<1>3. CASE d = e
  <2> DEFINE o == SessionOpen(x)
  <2>1. SessionOpen(y) = o /\ o \in Nat /\ o <= x
    BY <1>1, <1>3, Numbers
  <2>2. Start(x) = o + ((x - o) \div Ratio) * Ratio /\ Start(y) = o + ((y - o) \div Ratio) * Ratio
    BY <2>1 DEF Start
  <2> HIDE DEF o
  <2> DEFINE u == x - o
             v == y - o
  <2>3. u \in Nat /\ v \in Nat /\ u <= v
    BY <2>1
  <2> HIDE DEF u, v
  <2>4. /\ u \div Ratio <= v \div Ratio /\ u \div Ratio \in Nat /\ v \div Ratio \in Nat
        /\ (u \div Ratio) * Ratio \in Nat /\ (v \div Ratio) * Ratio \in Nat
    BY <2>3, DivMonotone, DivBounds, Numbers
  <2> DEFINE f == u \div Ratio
             g == v \div Ratio
  <2>5. f * Ratio <= g * Ratio
    <3>1. CASE f = g
      BY <3>1, <2>4
    <3>2. CASE f < g
      <4>1. f \in Nat /\ g \in Nat
        BY <2>4
      <4> HIDE DEF f, g
      <4>2. f * Ratio + Ratio <= g * Ratio
        BY <3>2, <4>1, TimesMonotone, Numbers
      <4> QED
        BY <4>2, <2>4, Numbers DEF f, g
    <3> QED
      BY <3>1, <3>2, <2>4
  <2> QED
    BY <2>1, <2>2, <2>4, <2>5 DEF u, v
<1>4. CASE d < e
  <2>1. d * DayBars + DayBars <= e * DayBars
    BY <1>1, <1>4, TimesMonotone, Numbers
  <2> HIDE DEF d, e
  <2> QED
    BY <1>1, <2>1, Numbers
<1> HIDE DEF d, e
<1> QED
  BY <1>1, <1>2, <1>3, <1>4

----------------------------------------------------------------------------
(* How much is asked for *)

LEMMA PaddingIs ==
  ASSUME NEW n \in Nat, NEW cap \in Nat
  PROVE  Padding(n, cap) \in Nat /\ Padding(n, cap) >= MinPadding
         /\ Padding(n, cap) <= MinPadding + cap
<1> DEFINE m == Min({n, cap})
           q == (m + 4) \div 5
<1>1. m \in {n, cap} /\ m <= cap
  BY MinOfTwo
<1> HIDE DEF m
<1>2. m \in Nat
  BY <1>1
<1>3. q \in Nat /\ q <= m + 1 /\ (m > 0 => q <= m) /\ (m = 0 => q = 0)
  BY <1>2
<1> HIDE DEF q
<1>4. q <= cap
  BY <1>1, <1>2, <1>3
<1>5. Max({MinPadding, q}) \in {MinPadding, q} /\ Max({MinPadding, q}) >= MinPadding
  <2>1. MinPadding \in Int /\ q \in Int
    BY <1>3, Numbers
  <2> QED
    BY <2>1, MaxOfTwo
<1>6. Padding(n, cap) = Max({MinPadding, q})
  BY DEF Padding, q, m
<1> QED
  BY <1>3, <1>4, <1>5, <1>6, Numbers

\* A first source is longer than the candles asked for, or at its cap.
LEMMA FirstSourceIs ==
  ASSUME NEW limit \in Wanted
  PROVE  /\ FirstSource(limit) \in 1 .. SourceCap
         /\ FirstSource(limit) = SourceCap \/ FirstSource(limit) >= (limit + 1) * Ratio
<1> DEFINE n == limit + Padding(limit, MaxCandles)
           m == n * Ratio
<1>1. n \in Nat /\ n >= limit + 1 /\ limit \in Nat /\ limit > 0
  <2>1. limit \in Nat /\ limit > 0 /\ MaxCandles \in Nat /\ MinPadding \in Nat /\ MinPadding > 0
    BY Numbers
  <2>2. Padding(limit, MaxCandles) \in Nat /\ Padding(limit, MaxCandles) >= MinPadding
    BY <2>1, PaddingIs
  <2> QED
    BY <2>1, <2>2
<1> HIDE DEF n
<1>2. m \in Nat /\ m > 0 /\ m >= (limit + 1) * Ratio
  <2>1. n * Ratio \in Nat /\ (limit + 1) * Ratio \in Nat /\ (limit + 1) * Ratio > 0
    BY <1>1, Numbers, SMT
  <2>2. n * Ratio >= (limit + 1) * Ratio
    BY <1>1, Numbers, SMT
  <2> QED
    BY <2>1, <2>2
<1> HIDE DEF m
<1>3. Min({SourceCap, m}) \in {SourceCap, m} /\ Min({SourceCap, m}) <= SourceCap
  <2>1. SourceCap \in Int /\ m \in Int
    BY <1>2, Numbers
  <2> QED
    BY <2>1, MinOfTwo
<1>4. FirstSource(limit) = Min({SourceCap, m})
  BY DEF FirstSource, m, n
<1> QED
  BY <1>2, <1>3, <1>4, Numbers

Most == 2 * SourceCap + MinPadding

\* A target is a number of bars that a page can be asked for.
LEMMA TargetIs ==
  ASSUME NEW source \in 1 .. SourceCap
  PROVE  Target[source] \in 1 .. Most
<1> DEFINE k == (5 * source + 1) \div 2
           limit == Min({SourceCap, k})
<1>1. source \in Nat /\ source >= 1
  BY Numbers
<1>2. k \in Nat /\ k >= 1
  BY <1>1
<1> HIDE DEF k
<1>3. limit \in {SourceCap, k} /\ limit <= SourceCap
  BY <1>2, MinOfTwo, Numbers
<1> HIDE DEF limit
<1>4. limit \in Nat /\ limit >= 1
  BY <1>2, <1>3, Numbers
<1>5. /\ Padding(limit, SourceCap) \in Nat
      /\ Padding(limit, SourceCap) <= MinPadding + SourceCap
  BY <1>4, PaddingIs, Numbers
<1>6. Target[source] = limit + Padding(limit, SourceCap)
  BY DEF Target, limit, k
<1> QED
  BY <1>3, <1>4, <1>5, <1>6, Numbers DEF Most

\* A page brings a bar at least, and looks back over more bars than a bucket has.
LEMMA PageIs ==
  ASSUME NEW n \in 1 .. Most
  PROVE  /\ PageBars[n] \in Nat /\ PageBars[n] > 0
         /\ PageSpan[n] \in Int /\ PageSpan[n] > StretchMin
<1> DEFINE a == n + Padding(n, MaxCandles)
           m == Max({MinPage, a})
           c == Min({MaxPage, m})
<1>1. n \in Nat
  BY Numbers DEF Most
<1>2. a \in Nat
  <2>1. MaxCandles \in Nat
    BY Numbers
  <2>2. Padding(n, MaxCandles) \in Nat
    BY <1>1, <2>1, PaddingIs
  <2> QED
    BY <1>1, <2>2
<1> HIDE DEF a
<1>3. m \in {MinPage, a} /\ m >= MinPage
  BY <1>2, MaxOfTwo, Numbers
<1> HIDE DEF m
<1>4. m \in Nat /\ m > 0
  BY <1>2, <1>3, Numbers
<1>5. c \in {MaxPage, m}
  <2>1. MaxPage \in Int /\ m \in Int
    BY <1>4, Numbers
  <2> QED
    BY <2>1, MinOfTwo
<1> HIDE DEF c
<1>6. c \in Nat /\ c > 0
  BY <1>4, <1>5, Numbers
<1>7. PageBars[n] = c
  BY DEF PageBars, Most, c, m, a
<1> DEFINE u == Stretch * c
           v == c + StretchMin
<1>8. n \in DOMAIN PageBars
  BY DEF PageBars, Most
<1>9. PageSpan[n] = Max({u, v})
  BY <1>7, <1>8 DEF PageSpan
<1>10. u \in Int /\ v \in Int /\ v > StretchMin
  BY <1>6, Numbers
<1> HIDE DEF u, v
<1>11. Max({u, v}) \in {u, v} /\ Max({u, v}) >= v
  BY <1>10, MaxOfTwo
<1>12. Max({u, v}) > StretchMin /\ Max({u, v}) \in Int
  BY <1>10, <1>11, Numbers
<1> QED
  BY <1>6, <1>7, <1>9, <1>12

----------------------------------------------------------------------------
(* The inductive invariant *)

\* What a download has is of the stock, and no newer than the clock.
Past == fetch.got \subseteq traded /\ fetch.read <= now

\* No bar is missing between those that it has and the time it began.
PagesJoin ==
  \A g \in fetch.got, b \in traded : b < Slot(fetch.read) /\ b >= g => b \in fetch.got

\* The next page ends with the bar before the oldest one, or at the time of the beginning.
Position ==
  fetch.pc = "asking" =>
    /\ fetch.pages < MaxPages
    /\ fetch.to = IF fetch.got = {} THEN Slot(fetch.read) ELSE Min(fetch.got) - 1

\* After an empty page no bar is there for as long as a bucket takes.
Silence ==
  fetch.pc = "answered" =>
    /\ ~ fetch.empty => fetch.got # {}
    /\ fetch.empty /\ fetch.got # {} =>
         \A b \in traded : b < Slot(fetch.read) /\ b < Min(fetch.got)
                             => b + StretchMin + 1 < Min(fetch.got)

\* A source below its cap has more bars than the buckets asked for can take.
SourceLong == fetch.source = SourceCap \/ fetch.source >= (fetch.limit + 1) * Ratio

IInv == /\ HistoryExact
        /\ Past /\ PagesJoin /\ Position /\ Silence /\ SourceLong

Newest == MaxTime \div Bar

LEMMA SlotIs ==
  ASSUME NEW t \in 0 .. MaxTime
  PROVE  /\ Newest \in Nat /\ Bars = 0 .. Newest
         /\ Slot(t) \in Nat /\ Slot(t) \in Bars
         /\ \A u \in 0 .. MaxTime : u <= t => Slot(u) <= Slot(t)
<1>1. Newest \in Nat /\ Bars = 0 .. Newest
  BY DivBounds, Numbers DEF Newest, Bars
<1>2. t \in Nat /\ t <= MaxTime
  BY Numbers
<1>3. Slot(t) \in Nat
  BY <1>2, DivBounds, Numbers DEF Slot
<1>4. Slot(t) <= Newest
  BY <1>2, DivMonotone, Numbers DEF Slot, Newest
<1>5. ASSUME NEW u \in 0 .. MaxTime, u <= t PROVE Slot(u) <= Slot(t)
  <2>1. u \in Nat
    BY Numbers
  <2> QED
    BY <1>2, <1>5, <2>1, DivMonotone, Numbers DEF Slot
<1> QED
  BY <1>1, <1>3, <1>4, <1>5

\* The types of the parts of a state.
LEMMA Typed ==
  ASSUME TypeOK
  PROVE  /\ now \in 0 .. MaxTime /\ traded \in SUBSET Bars /\ traded \in Trading
         /\ Newest \in Nat /\ Bars = 0 .. Newest /\ \A b \in traded : b \in Nat
         /\ fetch \in FetchState /\ fetch.limit \in Wanted /\ fetch.limit \in Nat /\ fetch.limit > 0
         /\ fetch.source \in 1 .. SourceCap /\ fetch.attempt \in 1 .. Attempts
         /\ fetch.pages \in 0 .. MaxPages /\ fetch.to \in Int /\ fetch.empty \in BOOLEAN
         /\ fetch.got \in SUBSET Bars /\ fetch.got \in SUBSET Nat
         /\ fetch.forming \in SUBSET Bars /\ fetch.read \in 0 .. MaxTime
<1>1. now \in 0 .. MaxTime /\ traded \in Trading /\ fetch \in FetchState
  BY DEF TypeOK
<1>2. Newest \in Nat /\ Bars = 0 .. Newest
  BY <1>1, SlotIs
<1>3. traded \in SUBSET Bars
  BY <1>1, TradingAssumption
<1>4. fetch.limit \in Wanted /\ fetch.got \in SUBSET Bars
  BY <1>1 DEF FetchState
<1>5. /\ fetch.source \in 1 .. SourceCap /\ fetch.attempt \in 1 .. Attempts
      /\ fetch.pages \in 0 .. MaxPages /\ fetch.to \in Int /\ fetch.empty \in BOOLEAN
      /\ fetch.forming \in SUBSET Bars /\ fetch.read \in 0 .. MaxTime
  BY <1>1 DEF FetchState
<1>6. \A b \in Bars : b \in Nat
  BY <1>2
<1>7. fetch.limit \in Nat /\ fetch.limit > 0
  BY <1>4, Numbers
<1> QED
  BY <1>1, <1>2, <1>3, <1>4, <1>5, <1>6, <1>7

\* A download begins with nothing, at the time of the clock.
LEMMA BeginsClean ==
  ASSUME TypeOK, NEW source \in 1 .. SourceCap, NEW attempt \in 1 .. Attempts,
         fetch' = Download0(source, attempt)
  PROVE  /\ fetch' \in FetchState /\ fetch'.got = {} /\ fetch'.pc = "asking"
         /\ fetch'.to = Slot(now) /\ fetch'.read = now /\ fetch'.pages = 0
         /\ fetch'.source = source /\ fetch'.limit = fetch.limit
<1>1. Slot(now) \in Int /\ 0 \in 0 .. MaxPages /\ now \in 0 .. MaxTime /\ fetch \in FetchState
  BY Typed, SlotIs, Numbers
<1> QED
  BY <1>1 DEF Download0, FetchState

\* A step that builds no payload leaves what was said of it.
LEMMA PayloadKept ==
  ASSUME BucketsExact, OldestWhole, UNCHANGED <<traded, payload>>
  PROVE  BucketsExact' /\ OldestWhole'
BY DEF BucketsExact, OldestWhole

LEMMA InvInit == ASSUME Init PROVE IInv
<1>1. now \in 0 .. MaxTime /\ traded \in Trading /\ payload = Nothing /\ answer = Nothing
  BY LimitAssumption DEF Init
<1>2. PICK limit \in Wanted :
        fetch = [pc |-> "asking", limit |-> limit, source |-> FirstSource(limit),
                 attempt |-> 1, pages |-> 0, to |-> Slot(now), empty |-> FALSE,
                 got |-> {}, forming |-> {}, read |-> now]
  BY DEF Init
<1>3. FirstSource(limit) \in 1 .. SourceCap /\ Slot(now) \in Int
      /\ 1 \in 1 .. Attempts /\ 0 \in 0 .. MaxPages
  BY <1>1, FirstSourceIs, SlotIs, Numbers
<1>4. fetch \in FetchState
  BY <1>1, <1>2, <1>3 DEF FetchState
<1>5. TypeOK /\ BucketsExact /\ OldestWhole
  BY <1>1, <1>4 DEF TypeOK, BucketsExact, OldestWhole
<1>6. Past /\ PagesJoin /\ Silence
  BY <1>1, <1>2 DEF Past, PagesJoin, Silence
<1>7. Position
  BY <1>2, Numbers DEF Position
<1>8. SourceLong
  BY <1>2, FirstSourceIs DEF SourceLong
<1> QED
  BY <1>5, <1>6, <1>7, <1>8 DEF IInv, HistoryExact

\* A download that begins anew.
LEMMA InvBegins ==
  ASSUME IInv, NEW source \in 1 .. SourceCap, NEW attempt \in 1 .. Attempts,
         source = SourceCap \/ source >= (fetch.limit + 1) * Ratio,
         fetch' = Download0(source, attempt), UNCHANGED <<now, traded, payload, answer>>
  PROVE  IInv'
<1>1. TypeOK /\ BucketsExact /\ OldestWhole
  BY DEF IInv, HistoryExact
<1>2. /\ fetch' \in FetchState /\ fetch'.got = {} /\ fetch'.pc = "asking"
      /\ fetch'.to = Slot(now) /\ fetch'.read = now /\ fetch'.pages = 0
      /\ fetch'.source = source /\ fetch'.limit = fetch.limit
  BY <1>1, BeginsClean
<1>3. TypeOK'
  BY <1>1, <1>2 DEF TypeOK
<1>4. BucketsExact' /\ OldestWhole'
  BY <1>1, PayloadKept
<1>5. now \in Int
  BY <1>1, Typed, Numbers
<1>6. Past' /\ PagesJoin' /\ Silence' /\ SourceLong'
  BY <1>2, <1>5 DEF Past, PagesJoin, Silence, SourceLong
<1>7. Position'
  BY <1>2, Numbers DEF Position
<1> QED
  BY <1>3, <1>4, <1>6, <1>7 DEF IInv, HistoryExact

LEMMA InvPage == ASSUME IInv, Page PROVE IInv'
<1> DEFINE slot == Slot(now)
           wanted == Max({1, Target[fetch.source] - Cardinality(fetch.got)})
           span == PageSpan[wanted]
<1>1. TypeOK /\ BucketsExact /\ OldestWhole /\ Past /\ PagesJoin /\ Position /\ SourceLong
  BY DEF IInv, HistoryExact
<1>2. fetch.pc = "asking" /\ UNCHANGED <<now, traded, payload, answer>>
  BY DEF Page
<1>3. wanted \in 1 .. Most
  <2>1. Target[fetch.source] \in 1 .. Most
    BY <1>1, Typed, TargetIs
  <2>2. IsFiniteSet(0 .. Newest)
    BY <1>1, Typed, FS_Interval
  <2>3. Cardinality(fetch.got) \in Nat
    BY <1>1, <2>2, Typed, FS_Subset, FS_CardinalityType
  <2>4. Most \in Nat /\ Most >= 1
    BY Numbers DEF Most
  <2> DEFINE t == Target[fetch.source] - Cardinality(fetch.got)
  <2>5. t \in Int /\ t <= Most
    BY <2>1, <2>3, <2>4
  <2> HIDE DEF t
  <2>6. Max({1, t}) \in {1, t} /\ Max({1, t}) >= 1
    BY <2>5, MaxOfTwo
  <2> QED
    BY <2>4, <2>5, <2>6 DEF t
<1> HIDE DEF wanted
<1>4. PageBars[wanted] \in Nat /\ PageBars[wanted] > 0 /\ span \in Int /\ span > StretchMin
  BY <1>3, PageIs
<1>5. PICK last \in {slot - 1, slot} :
        LET shown == {b \in traded : b <= last /\ b <= fetch.to /\ b > fetch.to - span}
            page == Recent(shown, PageBars[wanted])
        IN  fetch' = [fetch EXCEPT !.pc = "answered", !.pages = @ + 1,
                                   !.empty = page = {}, !.got = @ \cup page,
                                   !.forming = @ \cup (page \cap {slot})]
  BY DEF Page, wanted
<1> HIDE DEF span
<1> DEFINE shown == {b \in traded : b <= last /\ b <= fetch.to /\ b > fetch.to - span}
           page == Recent(shown, PageBars[wanted])
<1>6. /\ fetch'.pc = "answered" /\ fetch'.pages = fetch.pages + 1 /\ fetch'.empty = (page = {})
      /\ fetch'.got = fetch.got \cup page /\ fetch'.forming = fetch.forming \cup (page \cap {slot})
      /\ fetch'.limit = fetch.limit /\ fetch'.source = fetch.source /\ fetch'.read = fetch.read
      /\ fetch'.to = fetch.to /\ fetch'.attempt = fetch.attempt
      /\ fetch' = [fetch EXCEPT !.pc = "answered", !.pages = @ + 1,
                                   !.empty = page = {}, !.got = @ \cup page,
                                   !.forming = @ \cup (page \cap {slot})]
  BY <1>1, <1>5, Typed DEF FetchState
<1>7. shown \in SUBSET (0 .. Newest) /\ page \in SUBSET shown /\ Newest \in Nat
  BY <1>1, Typed DEF Recent
<1>8. /\ slot \in Nat /\ last \in Int /\ Slot(fetch.read) \in Nat /\ fetch.to \in Int
      /\ Slot(fetch.read) <= slot /\ slot - 1 <= last
  BY <1>1, Typed, SlotIs DEF Past
<1> HIDE DEF page, slot
<1>9. TypeOK'
  <2>1. fetch.pages + 1 \in 0 .. MaxPages
    BY <1>1, <1>2, Typed, Numbers DEF Position
  <2>2. page \in SUBSET Bars
    BY <1>1, <1>7, Typed
  <2>3. fetch' \in FetchState
    BY <1>1, <1>6, <2>1, <2>2, Typed DEF FetchState
  <2> QED
    BY <1>1, <1>2, <2>3 DEF TypeOK
<1>10. BucketsExact' /\ OldestWhole'
  BY <1>1, <1>2, PayloadKept
<1>11. Past'
  <2>1. page \in SUBSET traded
    BY <1>7
  <2> QED
    BY <1>1, <1>2, <1>6, <2>1 DEF Past
\* A bar that the provider could have shown, and later than one of the page, is there.
<1>12. ASSUME NEW b \in traded, b < Slot(fetch.read), b <= fetch.to, b > fetch.to - span
       PROVE  b \in shown
  <2>1. b \in Nat
    BY <1>1, Typed
  <2>2. b <= last
    BY <1>8, <1>12, <2>1
  <2> QED
    BY <1>12, <2>2
<1>13. ASSUME NEW b \in traded, b < Slot(fetch.read), b > fetch.to
       PROVE  b \in fetch.got
  <2>1. b \in Nat
    BY <1>1, Typed
  <2>2. fetch.to = IF fetch.got = {} THEN Slot(fetch.read) ELSE Min(fetch.got) - 1
    BY <1>1, <1>2 DEF Position
  <2>3. fetch.got # {}
    BY <1>8, <1>13, <2>1, <2>2
  <2>4. Min(fetch.got) \in fetch.got /\ Min(fetch.got) \in Nat
    BY <1>1, <2>3, Typed, MinIs
  <2>5. b >= Min(fetch.got)
    BY <1>13, <2>1, <2>2, <2>3, <2>4
  <2> QED
    BY <1>1, <1>13, <2>4, <2>5 DEF PagesJoin
<1>14. PagesJoin'
  <2> SUFFICES ASSUME NEW g \in fetch.got \cup page, NEW b \in traded, b < Slot(fetch.read), b >= g
               PROVE  b \in fetch.got \cup page
    BY <1>2, <1>6 DEF PagesJoin
  <2>1. CASE g \in fetch.got
    BY <1>1, <2>1 DEF PagesJoin
  <2>2. CASE g \in page
    <3>1. g \in shown /\ b \in Nat /\ g \in Nat
      BY <1>1, <1>7, <2>2, Typed
    <3>2. CASE b > fetch.to
      BY <1>13, <3>2
    <3>3. CASE b <= fetch.to
      <4>1. g > fetch.to - span
        BY <3>1
      <4>2. b > fetch.to - span
        BY <1>4, <1>8, <3>1, <4>1
      <4>3. b \in shown
        BY <1>12, <3>3, <4>2
      <4>4. b \in page
        <5> HIDE DEF shown
        <5> QED
          BY <1>4, <1>7, <2>2, <4>3, RecentUp DEF page
      <4> QED
        BY <4>4
    <3> QED
      BY <1>8, <3>1, <3>2, <3>3
  <2> QED
    BY <2>1, <2>2
<1>15. Position'
  BY <1>6 DEF Position
<1>16. Silence'
  <2>1. ASSUME ~ fetch'.empty PROVE fetch'.got # {}
    BY <1>6, <2>1
  <2>2. ASSUME fetch'.empty, fetch'.got # {}, NEW b \in traded,
               b < Slot(fetch.read), b < Min(fetch'.got)
        PROVE  b + StretchMin + 1 < Min(fetch'.got)
    <3>1. page = {} /\ fetch'.got = fetch.got
      BY <1>6, <2>2
    <3>2. shown = {}
      <4> HIDE DEF shown
      <4> QED
        BY <1>4, <1>7, <3>1, RecentSome DEF page
    <3>3. Min(fetch.got) \in Nat
      BY <1>1, <2>2, <3>1, Typed, MinIs
    <3>4. fetch.to = Min(fetch.got) - 1
      BY <1>1, <1>2, <2>2, <3>1 DEF Position
    <3>5. b \in Nat
      BY <1>1, Typed
    <3>6. b <= fetch.to
      BY <2>2, <3>1, <3>3, <3>4, <3>5
    <3>7. ~(b > fetch.to - span)
      BY <1>12, <2>2, <3>2, <3>6
    <3> QED
      BY <1>4, <3>1, <3>3, <3>4, <3>5, <3>7, Numbers
  <2> QED
    BY <1>2, <1>6, <2>1, <2>2 DEF Silence
<1>17. SourceLong'
  BY <1>1, <1>6 DEF SourceLong
<1> QED
  BY <1>9, <1>10, <1>11, <1>14, <1>15, <1>16, <1>17 DEF IInv, HistoryExact

LEMMA InvNextPage == ASSUME IInv, NextPage PROVE IInv'
<1>1. TypeOK /\ BucketsExact /\ OldestWhole /\ Past /\ PagesJoin /\ Silence /\ SourceLong
  BY DEF IInv, HistoryExact
<1>2. /\ fetch.pc = "answered" /\ ~ fetch.empty /\ fetch.pages < MaxPages
      /\ fetch' = [fetch EXCEPT !.pc = "asking", !.to = NextTo(fetch.got)]
      /\ UNCHANGED <<now, traded, payload, answer>>
  BY DEF NextPage, MorePages
<1>3. fetch.got # {}
  BY <1>1, <1>2 DEF Silence
<1>4. NextTo(fetch.got) = Min(fetch.got) - 1 /\ NextTo(fetch.got) \in Int
  BY <1>1, <1>3, Typed, MinIs DEF NextTo
<1>5. /\ fetch' \in FetchState /\ fetch'.pc = "asking" /\ fetch'.to = Min(fetch.got) - 1
      /\ fetch'.got = fetch.got /\ fetch'.read = fetch.read /\ fetch'.pages = fetch.pages
      /\ fetch'.source = fetch.source /\ fetch'.limit = fetch.limit
  BY <1>1, <1>2, <1>4, Typed DEF FetchState
<1>6. TypeOK'
  BY <1>1, <1>2, <1>5 DEF TypeOK
<1>7. BucketsExact' /\ OldestWhole'
  BY <1>1, <1>2, PayloadKept
<1>8. Past' /\ PagesJoin' /\ Silence' /\ SourceLong'
  BY <1>1, <1>2, <1>5 DEF Past, PagesJoin, Silence, SourceLong
<1>9. Position'
  BY <1>2, <1>3, <1>5 DEF Position
<1> QED
  BY <1>6, <1>7, <1>8, <1>9 DEF IInv, HistoryExact

\* A download that ends leaves what it has, or drops it.
LEMMA InvEnds ==
  ASSUME IInv, NEW pc \in {"built", "failed"}, fetch' \in FetchState, fetch'.pc = pc,
         fetch'.got \subseteq fetch.got, fetch'.got # {} => fetch'.got = fetch.got,
         fetch'.read = fetch.read, fetch'.source = fetch.source, fetch'.limit = fetch.limit,
         UNCHANGED <<now, traded>>,
         payload' \in Payload \cup {Nothing}, BucketsExact', OldestWhole',
         answer' \in [at : 0 .. MaxTime, closed : BOOLEAN] \cup {Nothing}
  PROVE  IInv'
<1>1. TypeOK /\ Past /\ PagesJoin /\ SourceLong
  BY DEF IInv, HistoryExact
<1>2. TypeOK'
  BY <1>1 DEF TypeOK
<1>3. Past' /\ SourceLong' /\ Position' /\ Silence'
  BY <1>1 DEF Past, SourceLong, Position, Silence
<1>4. PagesJoin'
  BY <1>1 DEF PagesJoin
<1> QED
  BY <1>2, <1>3, <1>4 DEF IInv, HistoryExact

LEMMA InvNoBars == ASSUME IInv, NoBars PROVE IInv'
<1>1. TypeOK /\ BucketsExact /\ OldestWhole
  BY DEF IInv, HistoryExact
<1>2. fetch' = [fetch EXCEPT !.pc = "failed"] /\ UNCHANGED <<now, traded, payload, answer>>
  BY DEF NoBars
<1>3. /\ fetch' \in FetchState /\ fetch'.pc = "failed" /\ fetch'.got = fetch.got
      /\ fetch'.read = fetch.read /\ fetch'.source = fetch.source /\ fetch'.limit = fetch.limit
  BY <1>1, <1>2, Typed DEF FetchState
<1>4. BucketsExact' /\ OldestWhole'
  BY <1>1, <1>2, PayloadKept
<1>5. /\ payload' \in Payload \cup {Nothing}
      /\ answer' \in [at : 0 .. MaxTime, closed : BOOLEAN] \cup {Nothing}
  BY <1>1, <1>2 DEF TypeOK
<1> QED
  BY <1>2, <1>3, <1>4, <1>5, InvEnds

LEMMA InvPageFails == ASSUME IInv, PageFails PROVE IInv'
<1>1. TypeOK /\ BucketsExact /\ OldestWhole /\ SourceLong
  BY DEF IInv, HistoryExact
<1>2. UNCHANGED <<now, traded, payload, answer>>
  BY DEF PageFails
<1>3. CASE fetch.attempt < Attempts
  <2>1. fetch' = Download0(fetch.source, fetch.attempt + 1)
    BY <1>3 DEF PageFails
  <2>2. fetch.attempt + 1 \in 1 .. Attempts /\ fetch.source \in 1 .. SourceCap
    BY <1>1, <1>3, Typed, Numbers
  <2>3. fetch.source = SourceCap \/ fetch.source >= (fetch.limit + 1) * Ratio
    BY <1>1 DEF SourceLong
  <2> QED
    BY <1>2, <2>1, <2>2, <2>3, InvBegins
<1>4. CASE ~(fetch.attempt < Attempts)
  <2>1. fetch' = [fetch EXCEPT !.pc = "failed"]
    BY <1>4 DEF PageFails
  <2>2. /\ fetch' \in FetchState /\ fetch'.pc = "failed" /\ fetch'.got = fetch.got
        /\ fetch'.read = fetch.read /\ fetch'.source = fetch.source /\ fetch'.limit = fetch.limit
    BY <1>1, <2>1, Typed DEF FetchState
  <2>3. BucketsExact' /\ OldestWhole'
    BY <1>1, <1>2, PayloadKept
  <2>4. /\ payload' \in Payload \cup {Nothing}
        /\ answer' \in [at : 0 .. MaxTime, closed : BOOLEAN] \cup {Nothing}
    BY <1>1, <1>2 DEF TypeOK
  <2> QED
    BY <1>2, <2>2, <2>3, <2>4, InvEnds
<1> QED
  BY <1>3, <1>4

LEMMA InvWiden == ASSUME IInv, Widen PROVE IInv'
<1>1. TypeOK /\ SourceLong
  BY DEF IInv, HistoryExact
<1> DEFINE source == Min({SourceCap, 2 * fetch.source})
<1>2. fetch' = Download0(source, 1) /\ UNCHANGED <<now, traded, payload, answer>>
      /\ fetch.source < SourceCap
  BY DEF Widen
<1>3. fetch.source \in Nat /\ fetch.source >= 1 /\ SourceCap \in Nat
  BY <1>1, Typed, Numbers
<1>4. source \in {SourceCap, 2 * fetch.source} /\ source <= SourceCap
  <2>1. 2 * fetch.source \in Int /\ SourceCap \in Int
    BY <1>3
  <2> QED
    BY <2>1, MinOfTwo
<1> HIDE DEF source
<1>5. source \in 1 .. SourceCap /\ 1 \in 1 .. Attempts
  BY <1>3, <1>4, Numbers
<1>6. source = SourceCap \/ source >= (fetch.limit + 1) * Ratio
  <2>1. CASE source = SourceCap
    BY <2>1
  <2>2. CASE source = 2 * fetch.source
    <3>1. fetch.source >= (fetch.limit + 1) * Ratio
      BY <1>1, <1>2, <1>3 DEF SourceLong
    <3>2. (fetch.limit + 1) * Ratio \in Nat
      BY <1>1, Typed, Numbers, SMT
    <3> DEFINE k == (fetch.limit + 1) * Ratio
    <3> HIDE DEF k
    <3>3. 2 * fetch.source >= k
      BY <1>3, <3>1, <3>2 DEF k
    <3> QED
      BY <2>2, <3>3 DEF k
  <2> QED
    BY <1>4, <2>1, <2>2
<1> QED
  BY <1>2, <1>5, <1>6, InvBegins

\* The answer a scan gets is of the clock, and marked or not.
LEMMA AnswerTyped ==
  ASSUME TypeOK, NEW bars, answer' = [at |-> now, closed |-> LastClosed(bars)]
  PROVE  answer' \in [at : 0 .. MaxTime, closed : BOOLEAN] \cup {Nothing}
<1>1. LastClosed(bars) \in BOOLEAN
  BY DEF LastClosed
<1> QED
  BY <1>1, Typed

LEMMA InvServe == ASSUME IInv, Serve PROVE IInv'
<1>1. TypeOK /\ BucketsExact /\ OldestWhole /\ Past /\ PagesJoin /\ Position /\ Silence /\ SourceLong
  BY DEF IInv, HistoryExact
<1>2. UNCHANGED <<now, traded, fetch, payload>> /\ answer' = [at |-> now, closed |-> LastClosed(payload.bars)]
  BY DEF Serve
<1>3. TypeOK'
  BY <1>1, <1>2, AnswerTyped DEF TypeOK
<1>4. BucketsExact' /\ OldestWhole'
  BY <1>1, <1>2, PayloadKept
<1>5. Past' /\ PagesJoin' /\ Position' /\ Silence' /\ SourceLong'
  BY <1>1, <1>2 DEF Past, PagesJoin, Position, Silence, SourceLong
<1> QED
  BY <1>3, <1>4, <1>5 DEF IInv, HistoryExact

LEMMA InvTick == ASSUME IInv, Tick \/ UNCHANGED vars PROVE IInv'
<1>1. TypeOK /\ BucketsExact /\ OldestWhole /\ Past /\ PagesJoin /\ Position /\ Silence /\ SourceLong
  BY DEF IInv, HistoryExact
<1>2. UNCHANGED <<traded, fetch, payload, answer>> /\ now' \in 0 .. MaxTime /\ now <= now'
  BY <1>1, Typed, Numbers DEF Tick, vars
<1>3. TypeOK'
  BY <1>1, <1>2 DEF TypeOK
<1>4. BucketsExact' /\ OldestWhole'
  BY <1>1, <1>2, PayloadKept
<1>5. Past'
  BY <1>1, <1>2, Typed, Numbers DEF Past
<1>6. PagesJoin' /\ Position' /\ Silence' /\ SourceLong'
  BY <1>1, <1>2 DEF PagesJoin, Position, Silence, SourceLong
<1> QED
  BY <1>3, <1>4, <1>5, <1>6 DEF IInv, HistoryExact

----------------------------------------------------------------------------
(* The step that builds the payload *)

\* The buckets' starts are bars, and each bar of a session has one.
LEMMA StartsAre ==
  ASSUME NEW m \in Nat, NEW S \in SUBSET (0 .. m), \A b \in S : InSession(b)
  PROVE  /\ Starts(S) \in SUBSET (0 .. m)
         /\ \A b \in S : Start(b) \in Starts(S)
         /\ \A t \in Starts(S) : \E b \in S : t = Start(b)
<1>1. ASSUME NEW b \in S PROVE Start(b) \in 0 .. m
  <2>1. b \in Nat /\ b <= m /\ InSession(b)
    OBVIOUS
  <2>2. Start(b) \in Nat /\ Start(b) <= b
    BY <2>1, StartIs
  <2> QED
    BY <2>1, <2>2
<1> QED
  BY <1>1 DEF Starts

\* Buckets are no longer than their ratio: so many bars fill more than so many buckets.
LEMMA BarsOfBuckets ==
  ASSUME NEW m \in Nat, NEW S \in SUBSET (0 .. m), \A b \in S : InSession(b),
         NEW n \in Nat, Cardinality(S) >= (n + 1) * Ratio
  PROVE  Cardinality(Starts(S)) > n
<1> DEFINE T == Starts(S)
           K == 0 .. (Ratio - 1)
           f == [b \in S |-> <<Start(b), b - Start(b)>>]
<1>1. T \in SUBSET (0 .. m) /\ \A b \in S : Start(b) \in T
  BY StartsAre
<1>2. IsFiniteSet(0 .. m)
  BY FS_Interval
<1>3. IsFiniteSet(T) /\ Cardinality(T) \in Nat
  <2> HIDE DEF T
  <2> QED
    BY <1>1, <1>2, FS_Subset, FS_CardinalityType
<1>4. IsFiniteSet(K) /\ Cardinality(K) = Ratio
  <2>1. 0 \in Int /\ Ratio - 1 \in Int /\ ~(0 > Ratio - 1) /\ (Ratio - 1) - 0 + 1 = Ratio
    BY Numbers
  <2> QED
    BY <2>1, FS_Interval
<1>5. ASSUME NEW b \in S PROVE b \in Nat /\ Start(b) \in Nat /\ b - Start(b) \in K
  <2>1. b \in Nat /\ InSession(b)
    OBVIOUS
  <2>2. Start(b) \in Nat /\ Start(b) <= b /\ b < Start(b) + Ratio
    BY <2>1, StartIs
  <2> QED
    BY <2>1, <2>2, Numbers
<1> HIDE DEF T, K
<1>6. f \in Injection(S, T \X K)
  <2>1. f \in [S -> T \X K]
    BY <1>1, <1>5
  <2>2. ASSUME NEW a \in S, NEW b \in S, f[a] = f[b] PROVE a = b
    <3>1. Start(a) = Start(b) /\ a - Start(a) = b - Start(b)
      BY <2>2
    <3> QED
      BY <1>5, <3>1
  <2> HIDE DEF f
  <2> QED
    BY <2>1, <2>2 DEF Injection, IsInjective
<1> HIDE DEF f
<1>7. IsFiniteSet(T \X K) /\ Cardinality(T \X K) = Cardinality(T) * Ratio
  BY <1>3, <1>4, FS_Product
<1>8. IsFiniteSet(S) /\ Cardinality(S) \in Nat
  BY <1>2, FS_Subset, FS_CardinalityType
<1>9. Cardinality(S) <= Cardinality(T) * Ratio
  BY <1>6, <1>7, FS_Injection
<1> DEFINE t == Cardinality(T)
           c == Cardinality(S)
<1>10. t \in Nat /\ c \in Nat /\ c >= (n + 1) * Ratio /\ c <= t * Ratio
  BY <1>3, <1>8, <1>9
<1> HIDE DEF t, c
<1>11. SUFFICES ASSUME t <= n PROVE FALSE
  BY <1>3 DEF t, T
<1>12. t * Ratio \in Nat /\ n * Ratio \in Nat /\ (n + 1) * Ratio = n * Ratio + Ratio /\ t * Ratio <= n * Ratio
  BY <1>10, <1>11, Numbers, SMT
<1> QED
  BY <1>10, <1>12, Numbers

\* What a download has, filtered and cut, and the buckets that are kept of it.
LEMMA SourceIs ==
  ASSUME IInv, SourceBars # {}
  PROVE  /\ SourceBars \in SUBSET (0 .. Newest) /\ SourceBars \in SUBSET fetch.got
         /\ \A b \in SourceBars : InSession(b) /\ b \in Nat
         /\ Starts(SourceBars) \in SUBSET (0 .. Newest)
         /\ Kept \in SUBSET SourceBars /\ Kept # {} /\ Kept \in SUBSET Nat
         /\ \A b \in Kept : Start(b) \in Recent(Starts(SourceBars), fetch.limit)
         /\ \A m \in SourceBars, b \in fetch.got : InSession(b) /\ b >= m => b \in SourceBars
<1> DEFINE S == {b \in fetch.got : InSession(b)}
           R == Recent(Starts(SourceBars), fetch.limit)
<1>1. TypeOK
  BY DEF IInv, HistoryExact
<1>2. Newest \in Nat /\ S \in SUBSET (0 .. Newest)
  BY <1>1, Typed
<1>3. SourceBars = Recent(S, fetch.source) /\ SourceBars \in SUBSET S
  BY DEF SourceBars, Recent
<1>4. \A b \in SourceBars : InSession(b) /\ b \in Nat
  BY <1>2, <1>3
<1>5. /\ Starts(SourceBars) \in SUBSET (0 .. Newest)
      /\ \A b \in SourceBars : Start(b) \in Starts(SourceBars)
      /\ \A t \in Starts(SourceBars) : \E b \in SourceBars : t = Start(b)
  <2>1. SourceBars \in SUBSET (0 .. Newest)
    BY <1>2, <1>3
  <2> QED
    BY <1>2, <1>4, <2>1, StartsAre
<1>6. R # {}
  <2>1. Starts(SourceBars) # {}
    BY <1>5
  <2>2. fetch.limit \in Nat /\ fetch.limit > 0
    BY <1>1, Typed
  <2> QED
    BY <1>2, <1>5, <2>1, <2>2, RecentSome
<1>7. Kept # {}
  <2>1. PICK t \in R : TRUE
    BY <1>6
  <2>2. t \in Starts(SourceBars)
    BY DEF Recent
  <2>3. PICK b \in SourceBars : t = Start(b)
    BY <1>5, <2>2
  <2> QED
    BY <2>1, <2>3 DEF Kept
<1>8. ASSUME NEW m \in SourceBars, NEW b \in fetch.got, InSession(b), b >= m
      PROVE  b \in SourceBars
  <2>1. m \in Recent(S, fetch.source) /\ b \in S
    BY <1>3, <1>8
  <2>2. fetch.source \in Nat
    BY <1>1, Typed, Numbers
  <2> HIDE DEF S
  <2> QED
    BY <1>2, <1>3, <1>8, <2>1, <2>2, RecentUp
<1>9. Kept \in SUBSET SourceBars /\ \A b \in Kept : Start(b) \in R
  BY DEF Kept
<1>10. SourceBars \in SUBSET (0 .. Newest) /\ SourceBars \in SUBSET fetch.got
  BY <1>2, <1>3
<1> QED
  BY <1>4, <1>5, <1>7, <1>8, <1>9, <1>10

\* A bar of a session, before the beginning of the download and not before one that is
\* kept, or in a bucket that is, is kept when it is not before the source's bars.
LEMMA KeptUp ==
  ASSUME IInv, SourceBars # {}, NEW m \in Kept, NEW x \in SourceBars,
         NEW b \in traded, InSession(b), b < Slot(fetch.read), b >= x, Start(b) >= Start(m)
  PROVE  b \in Kept
<1>1. TypeOK /\ PagesJoin
  BY DEF IInv, HistoryExact
<1>2. x \in fetch.got
  BY SourceIs
<1>3. b \in fetch.got
  BY <1>1, <1>2 DEF PagesJoin
<1>4. b \in SourceBars
  BY <1>3, SourceIs
<1>5. Start(b) \in Starts(SourceBars)
  BY <1>4 DEF Starts
<1>6. Newest \in Nat /\ fetch.limit \in Nat
  BY <1>1, Typed
<1>7. Start(m) \in Recent(Starts(SourceBars), fetch.limit)
  BY SourceIs
<1>8. Starts(SourceBars) \in SUBSET (0 .. Newest)
  BY SourceIs
<1>9. Start(b) \in Recent(Starts(SourceBars), fetch.limit)
  BY <1>5, <1>6, <1>7, <1>8, RecentUp
<1> QED
  BY <1>4, <1>9 DEF Kept

LEMMA KeptExact ==
  ASSUME IInv, SourceBars # {}
  PROVE  /\ Kept \subseteq {b \in traded : InSession(b)}
         /\ \A b \in traded : InSession(b) /\ b < Slot(fetch.read) /\ b > Min(Kept) => b \in Kept
         /\ Cardinality(Starts(Kept)) <= fetch.limit
<1> DEFINE R == Recent(Starts(SourceBars), fetch.limit)
<1>1. TypeOK /\ Past
  BY DEF IInv, HistoryExact
<1>2. Min(Kept) \in Kept /\ Min(Kept) \in Nat
  BY SourceIs, MinIs
<1>3. Kept \subseteq {b \in traded : InSession(b)}
  BY <1>1, SourceIs DEF Past
<1>4. ASSUME NEW b \in traded, InSession(b), b < Slot(fetch.read), b > Min(Kept)
      PROVE  b \in Kept
  <2>1. b \in Nat /\ b >= Min(Kept)
    BY <1>1, <1>2, <1>4, Typed
  <2>2. Min(Kept) \in SourceBars /\ InSession(Min(Kept))
    BY <1>2, SourceIs
  <2>3. Start(b) >= Start(Min(Kept))
    <3>1. Start(Min(Kept)) <= Start(b)
      BY <1>2, <1>4, <2>1, <2>2, StartMonotone
    <3>2. Start(Min(Kept)) \in Nat /\ Start(b) \in Nat
      BY <1>2, <1>4, <2>1, <2>2, StartIs
    <3> QED
      BY <3>1, <3>2
  <2> QED
    BY <1>2, <1>4, <2>1, <2>2, <2>3, KeptUp
<1>5. Cardinality(Starts(Kept)) <= fetch.limit
  <2>1. Starts(Kept) \in SUBSET R
    BY SourceIs DEF Starts
  <2>2. Newest \in Nat /\ fetch.limit \in Nat
    BY <1>1, Typed
  <2>3. Starts(SourceBars) \in SUBSET (0 .. Newest)
    BY SourceIs
  <2>4. IsFiniteSet(R) /\ Cardinality(R) \in Nat /\ Cardinality(R) <= fetch.limit
    BY <2>2, <2>3, RecentCount
  <2> HIDE DEF R
  <2>5. Cardinality(Starts(Kept)) <= Cardinality(R) /\ Cardinality(Starts(Kept)) \in Nat
    BY <2>1, <2>4, FS_Subset, FS_CardinalityType
  <2> QED
    BY <2>2, <2>4, <2>5
<1> QED
  BY <1>3, <1>4, <1>5

\* A source as long as asked for begins before the oldest bucket that is kept.
LEMMA KeptAfterFull ==
  ASSUME IInv, SourceBars # {}, Cardinality(SourceBars) = fetch.source, fetch.source < SourceCap,
         NEW m \in Kept
  PROVE  \E x \in SourceBars : Start(x) < Start(m)
<1> DEFINE T == Starts(SourceBars)
           R == Recent(T, fetch.limit)
<1>1. TypeOK /\ SourceLong
  BY DEF IInv, HistoryExact
<1>2. Newest \in Nat /\ fetch.limit \in Nat /\ fetch.source \in Nat /\ SourceCap \in Nat
  BY <1>1, Typed, Numbers
<1>3. fetch.source >= (fetch.limit + 1) * Ratio
  BY <1>1, <1>2 DEF SourceLong
<1>4. SourceBars \in SUBSET (0 .. Newest) /\ \A b \in SourceBars : InSession(b)
  BY SourceIs
<1>5. Cardinality(T) > fetch.limit
  BY <1>2, <1>3, <1>4, BarsOfBuckets
<1>6. T \in SUBSET (0 .. Newest) /\ Start(m) \in R
  BY SourceIs
<1>7. Cardinality(R) <= fetch.limit /\ Cardinality(R) \in Nat
  <2> HIDE DEF T
  <2> QED
    BY <1>2, <1>6, RecentCount
<1>8. T # R
  <2>1. SUFFICES ASSUME T = R PROVE FALSE
    OBVIOUS
  <2>2. Cardinality(T) = Cardinality(R)
    BY <2>1
  <2> HIDE DEF T, R
  <2> QED
    BY <1>2, <1>5, <1>7, <2>2
<1>9. R \in SUBSET T
  BY DEF Recent
<1>10. PICK t \in T : t \notin R
  BY <1>8, <1>9
<1>11. t \in Nat /\ Start(m) \in Nat /\ Start(m) \in T
  BY <1>6, <1>9, <1>10
<1>12. ~(t >= Start(m))
  <2> HIDE DEF T
  <2> QED
    BY <1>2, <1>6, <1>10, RecentUp
<1>13. PICK x \in SourceBars : t = Start(x)
  BY <1>10 DEF Starts
<1> QED
  BY <1>11, <1>12, <1>13

\* The oldest bucket that is kept is whole, unless the download stopped in it.
LEMMA KeptWhole ==
  ASSUME IInv, SourceBars # {}, fetch.pc = "answered", OldestBecause # "stopped",
         OldestBecause = "full" => fetch.source < SourceCap,
         NEW b \in traded, InSession(b), b < Slot(fetch.read), Start(b) = Start(Min(Kept))
  PROVE  b \in Kept
<1> DEFINE m == Min(Kept)
<1>1. TypeOK /\ PagesJoin /\ Silence
  BY DEF IInv, HistoryExact
<1>2. m \in Kept /\ m \in Nat /\ \A y \in Kept : m <= y
  BY SourceIs, MinIs
<1> HIDE DEF m
<1>3. m \in SourceBars /\ InSession(m) /\ b \in Nat /\ m \in fetch.got
  BY <1>1, <1>2, SourceIs, Typed
<1>4. Start(b) = Start(m) /\ Start(m) \in Nat /\ Start(m) <= m /\ m < Start(m) + Ratio
      /\ Start(b) <= b /\ b < Start(m) + Ratio
  <2>1. Start(b) = Start(m)
    BY DEF m
  <2>2. Start(m) \in Nat /\ Start(m) <= m /\ m < Start(m) + Ratio
    BY <1>2, <1>3, StartIs
  <2>3. Start(b) <= b /\ b < Start(b) + Ratio
    BY <1>3, StartIs
  <2> QED
    BY <2>1, <2>2, <2>3
<1>5. SUFFICES \E x \in SourceBars : b >= x
  <2>1. Start(b) >= Start(m)
    BY <1>4
  <2> QED
    BY <1>2, <1>5, <2>1, KeptUp
<1>6. CASE Cardinality(SourceBars) = fetch.source
  <2>1. fetch.source < SourceCap
    BY <1>6 DEF OldestBecause
  <2>2. PICK x \in SourceBars : Start(x) < Start(m)
    BY <1>2, <1>6, <2>1, KeptAfterFull
  <2>3. x \in Nat /\ InSession(x)
    BY SourceIs
  <2>4. ~(b < x)
    <3>1. SUFFICES ASSUME b <= x PROVE b >= x
      BY <1>3, <2>3
    <3>2. Start(b) <= Start(x)
      BY <1>3, <2>3, <3>1, StartMonotone
    <3>3. Start(x) \in Nat
      BY <2>3, StartIs
    <3> QED
      BY <1>4, <2>2, <3>2, <3>3
  <2> QED
    BY <1>3, <2>3, <2>4
<1>7. CASE Cardinality(SourceBars) # fetch.source
  <2> DEFINE S == {y \in fetch.got : InSession(y)}
  <2>1. fetch.empty
    BY <1>1, <1>7, Typed DEF OldestBecause
  <2>2. Newest \in Nat /\ fetch.source \in Nat /\ S \in SUBSET (0 .. Newest)
    BY <1>1, Typed, Numbers
  <2>3. SourceBars = Recent(S, fetch.source)
    BY DEF SourceBars
  <2>4. SourceBars = S
    <3> HIDE DEF S
    <3> QED
      BY <1>7, <2>2, <2>3, RecentAll
  <2>5. fetch.got # {} /\ fetch.got \in SUBSET Nat
    BY <1>1, <1>3, Typed
  <2>6. Min(fetch.got) \in fetch.got /\ Min(fetch.got) \in Nat /\ Min(fetch.got) <= m
    BY <1>3, <2>5, MinIs
  <2>7. CASE b >= Min(fetch.got)
    <3>1. b \in fetch.got
      BY <1>1, <2>6, <2>7 DEF PagesJoin
    <3>2. b \in SourceBars
      BY <2>4, <3>1
    <3> QED
      BY <1>3, <3>2
  <2>8. CASE b < Min(fetch.got)
    <3>1. b + StretchMin + 1 < Min(fetch.got)
      BY <1>1, <2>1, <2>5, <2>8 DEF Silence
    <3>2. b + Ratio < m
      BY <1>2, <1>3, <2>6, <3>1, Numbers
    <3> QED
      BY <1>2, <1>3, <1>4, <3>2, Numbers
  <2> QED
    BY <1>3, <2>6, <2>7, <2>8
<1> QED
  BY <1>6, <1>7

LEMMA InvBuild == ASSUME IInv, Build PROVE IInv'
<1>1. TypeOK /\ Past
  BY DEF IInv, HistoryExact
<1>2. /\ fetch.pc = "answered" /\ SourceBars # {} /\ UNCHANGED <<now, traded>>
      /\ payload' = [bars |-> Kept, forming |-> fetch.forming \cap Kept, limit |-> fetch.limit,
                     source |-> fetch.source, oldest |-> OldestBecause,
                     read |-> fetch.read, built |-> now]
      /\ answer' = [at |-> now, closed |-> LastClosed(Kept)]
      /\ fetch' = [fetch EXCEPT !.pc = "built", !.got = {}, !.forming = {}]
  BY DEF Build
<1>3. /\ fetch' \in FetchState /\ fetch'.pc = "built" /\ fetch'.got = {}
      /\ fetch'.read = fetch.read /\ fetch'.source = fetch.source /\ fetch'.limit = fetch.limit
  BY <1>1, <1>2, Typed DEF FetchState
<1>4. Kept \in SUBSET Bars
  BY <1>1, <1>2, SourceIs, Typed
<1>5. OldestBecause \in {"full", "silence", "stopped"}
  BY DEF OldestBecause
<1>6. payload' \in Payload
  BY <1>1, <1>2, <1>4, <1>5, Typed DEF Payload
<1>7. /\ payload'.bars = Kept /\ payload'.limit = fetch.limit /\ payload'.read = fetch.read
      /\ payload'.source = fetch.source /\ payload'.oldest = OldestBecause
  BY <1>2
<1>8. BucketsExact'
  BY <1>2, <1>7, KeptExact DEF BucketsExact
<1>9. OldestWhole'
  <2> SUFFICES ASSUME OldestBecause # "stopped", OldestBecause = "full" => fetch.source < SourceCap,
                      NEW b \in traded, InSession(b), b < Slot(fetch.read),
                      Start(b) = Start(Min(Kept))
               PROVE  b \in Kept
    BY <1>2, <1>7 DEF OldestWhole
  <2> QED
    BY <1>2, KeptWhole
<1>10. answer' \in [at : 0 .. MaxTime, closed : BOOLEAN] \cup {Nothing}
  BY <1>1, <1>2, AnswerTyped
<1> QED
  BY <1>2, <1>3, <1>6, <1>8, <1>9, <1>10, InvEnds

----------------------------------------------------------------------------
(* The theorems *)

\* The invariant holds at the beginning and after every step.
THEOREM Inductive == Spec => []IInv
<1>1. Init => IInv
  BY InvInit
<1>2. IInv /\ [Next]_vars => IInv'
  BY InvPage, InvNextPage, InvPageFails, InvNoBars, InvWiden, InvBuild, InvServe, InvTick
     DEF Next, Ended
<1> QED
  BY <1>1, <1>2, PTL DEF Spec

\* For every stock and session: the payload is the recent past of the sessions, and its
\* oldest candle is whole where the source is (_request_polygon_session_anchored_candles).
THEOREM HistoryHolds == Spec => []HistoryExact
<1>1. IInv => HistoryExact
  BY DEF IInv
<1> QED
  BY <1>1, Inductive, PTL
=============================================================================
