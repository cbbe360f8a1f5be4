-------------------------- MODULE TrendChannelsProofs --------------------------
(***************************************************************************)
(* For every chart, of any shapes, every span and setting (of at most ten  *)
(* bars if the span is 2): the channel that is shown lived as it says (ShownIsTrue), *)
(* one that broke gives no signal (NoSignalAfterBreak), neither direction  *)
(* is favoured (AreasMirrored), and with one channel at a time it stays    *)
(* until a newer one comes (ShownStays).                                   *)
(***************************************************************************)
EXTENDS TrendChannels, TLAPS, WellFoundedInduction

USE SpanAssumption, BoundAssumption, MissingAssumption, ShapesAssumption

----------------------------------------------------------------------------
(* Channels with the same pivots have the same lines. *)

Same(a, b) ==
  /\ a.direction = b.direction /\ a.first = b.first /\ a.second = b.second
  /\ a.created = b.created /\ a.ranges = b.ranges /\ a.of = b.of

\* Their slope, offsets and ends are equal, and so is which bars are outside.
LEMMA SameLines ==
  ASSUME NEW a, NEW b, Same(a, b)
  PROVE  /\ D(a) = D(b) /\ Step(a) = Step(b)
         /\ \A name : Offset(a, name) = Offset(b, name)
         /\ \A name, i : EndAt(a, name, i) = EndAt(b, name, i)
         /\ \A cs, i : Outside(cs, a, i) <=> Outside(cs, b, i)
<1>1. PivotSpan(a) = PivotSpan(b)
  BY DEF Same, PivotSpan
<1>2. D(a) = D(b) /\ Step(a) = Step(b)
  BY <1>1 DEF Same, D, Step
<1>3. Zone(a) = Zone(b) /\ Width(a) = Width(b)
  BY <1>1 DEF Same, Zone, Width
<1>4. \A name : Offset(a, name) = Offset(b, name)
  BY <1>3 DEF Same, Offset
<1>5. \A name, i : EndAt(a, name, i) = EndAt(b, name, i)
  BY <1>2, <1>4 DEF Same, EndAt
<1>6. \A cs, i : Outside(cs, a, i) <=> Outside(cs, b, i)
  BY <1>2, <1>5 DEF Outside
<1> QED
  BY <1>2, <1>4, <1>5, <1>6

\* A bar breaks a channel that was advanced to it if it is outside, and only then.
LEMMA BreaksOutside ==
  ASSUME NEW cs, NEW n \in 1 .. MaxBars, NEW ch \in Channel, ch.advances = n - ch.created + 1
  PROVE  /\ BreakOf(ch, cs[n]) \in {Missing, "up", "down"}
         /\ BreakOf(ch, cs[n]) = Missing <=> ~Outside(cs, ch, n)
<1>1. \A name : EndPrice(ch) + Offset(ch, name) = EndAt(ch, name, n)
  BY DEF EndPrice, EndAt
<1>2. Missing \notin {"up", "down"}
  BY MissingAssumption DEF Directions
<1> QED
  BY <1>1, <1>2 DEF BreakOf, Outside

----------------------------------------------------------------------------
(* The invariant of the replay, also of its intermediate steps: s is [open,  *)
(* last] when the bars up to m of chart cs are done for the directions       *)
(* "done", and those before for the others.                                  *)

\* An open channel has reached bar m, and no bar was outside.
Lives(cs, d, ch, m) ==
  /\ ch \in Channel /\ ch.direction = d /\ ch.brokenAt = Missing
  /\ ch.advances = m - ch.created + 1
  /\ ch.created <= m => ch.end = m
  /\ \A i \in ch.created .. m : ~Outside(cs, ch, i)

\* A broken one ended at the first bar that was.
Ended(cs, ch, m) ==
  /\ ch.brokenAt \in ch.created .. m /\ Outside(cs, ch, ch.brokenAt)
  /\ \A i \in ch.created .. ch.brokenAt - 1 : ~Outside(cs, ch, i)

\* The last channel, if it is not broken, is open, though only its open copy is
\* advanced; with one channel at a time what is open is the last.
Replay(cs, s, n, done) ==
  /\ s = [open |-> s.open, last |-> s.last]
  /\ s.open \in [Directions -> Channel \cup {Missing}]
  /\ s.last \in Channel \cup {Missing}
  /\ \A d \in Directions : s.open[d] # Missing =>
       /\ s.open[d].created <= n
       /\ Lives(cs, d, s.open[d], IF d \in done THEN n ELSE n - 1)
  /\ s.last # Missing =>
       /\ s.last.created <= n
       /\ s.last.brokenAt # Missing => Ended(cs, s.last, IF done = {} THEN n - 1 ELSE n)
       /\ s.last.brokenAt = Missing /\ keep =>
            \E d \in Directions : s.open[d] # Missing /\ Same(s.open[d], s.last)
  /\ wait => \A d, e \in Directions : s.open[d] # Missing /\ s.open[e] # Missing => d = e
  /\ wait /\ keep => \A d \in Directions : s.open[d] # Missing =>
       s.last # Missing /\ s.last.brokenAt = Missing /\ Same(s.open[d], s.last)

\* With one channel at a time and the last kept: the last is the one before, or newer.
Newer(s, t) ==
  wait /\ keep /\ s.last # Missing =>
    t.last # Missing /\ (t.last.created > s.last.created \/ Same(t.last, s.last))

Inv == TypeOK /\ Replay(bars, [open |-> open, last |-> last], Len(bars), Directions)

\* What is newer than something newer is newer.
LEMMA NewerChain ==
  ASSUME NEW s, NEW t, NEW u, Newer(s, t), Newer(t, u),
         {s.last, t.last, u.last} \subseteq Channel \cup {Missing}
  PROVE  Newer(s, u)
<1> SUFFICES ASSUME wait, keep, s.last # Missing
             PROVE  u.last # Missing /\ (u.last.created > s.last.created \/ Same(u.last, s.last))
  BY DEF Newer
<1>1. /\ t.last # Missing /\ (t.last.created > s.last.created \/ Same(t.last, s.last))
      /\ u.last # Missing /\ (u.last.created > t.last.created \/ Same(u.last, t.last))
  BY DEF Newer
<1>2. s.last.created \in Int /\ t.last.created \in Int /\ u.last.created \in Int
  BY <1>1, BoundAssumption DEF Channel
<1> QED
  BY <1>1, <1>2 DEF Same

\* One direction at a time.
LEMMA OtherDirection ==
  ASSUME NEW d \in Directions
  PROVE  LET other == CHOOSE e \in Directions : e # d
         IN other \in Directions /\ other # d /\ \A e \in Directions : e = d \/ e = other
BY DEF Directions

\* A channel may open.
LEMMA OpeningStep ==
  ASSUME NEW cs \in Seq(Shapes), NEW n \in 1 .. MaxBars, n = Len(cs), NEW d \in Directions,
         NEW atr \in [sum : Nat, of : Nat \ {0}],
         NEW s, Replay(cs, s, n, {}), NEW known, NEW confirmed \in Seq(Pivot),
         wait \in BOOLEAN, keep \in BOOLEAN
  PROVE  LET t == Opening(cs, atr, d, known, confirmed, s)
         IN Replay(cs, t, n, {}) /\ Newer(s, t)
<1> DEFINE ch == Opened(cs, atr, d, confirmed)
           other == CHOOSE e \in Directions : e # d
           t == Opening(cs, atr, d, known, confirmed, s)
           opening == Opens(d, known, confirmed, s.open) /\ atr.sum > 0
<1>1. CASE ~opening
  <2>1. t = s
    BY <1>1 DEF Opening
  <2>2. Newer(s, s)
    BY DEF Newer, Same
  <2> QED
    BY <2>1, <2>2
<1>2. CASE opening
  <2>1. /\ t = [open |-> [s.open EXCEPT ![d] = ch, ![other] = IF keep THEN @ ELSE Missing], last |-> ch]
        /\ confirmed[1] \in Pivot /\ confirmed[2] \in Pivot /\ atr.sum \in Nat /\ atr.of \in Nat \ {0}
        /\ s.open[d] = Missing /\ (wait => \A e \in Directions : s.open[e] = Missing)
    <3>1. t = [open |-> [s.open EXCEPT ![d] = ch, ![other] = IF keep THEN @ ELSE Missing], last |-> ch]
      BY <1>2 DEF Opening
    <3>2. Len(confirmed) = 2 /\ s.open[d] = Missing /\ (wait => \A e \in Directions : s.open[e] = Missing)
      BY <1>2 DEF Opens
    <3>3. confirmed[1] \in Pivot /\ confirmed[2] \in Pivot
      <4> HIDE DEF ch, other, t, opening
      <4>1. \A i \in 1 .. Len(confirmed) : confirmed[i] \in Pivot
        OBVIOUS
      <4> QED
        BY <3>2, <4>1
    <3> QED
      BY <1>2, <3>1, <3>2, <3>3
  <2>2. /\ ch \in Channel /\ ch.direction = d /\ ch.brokenAt = Missing /\ ch.created = n
        /\ ch.advances = 0
    BY <2>1 DEF Opened, Channel, Pivot
  <2>3. ch # Missing
    BY <2>2, MissingAssumption
  <2> HIDE DEF ch
  <2>4. /\ other \in Directions /\ other # d /\ \A e \in Directions : e = d \/ e = other
    BY OtherDirection
  <2> HIDE DEF other
  <2>5. /\ s.open \in [Directions -> Channel \cup {Missing}]
        /\ t.open = [s.open EXCEPT ![d] = ch, ![other] = IF keep THEN @ ELSE Missing] /\ t.last = ch
        /\ t = [open |-> t.open, last |-> t.last]
    BY <2>1 DEF Replay
  <2> HIDE DEF t
  <2>6. /\ t.open[d] = ch /\ t.open[other] = (IF keep THEN s.open[other] ELSE Missing)
        /\ t.open \in [Directions -> Channel \cup {Missing}]
    BY <2>2, <2>4, <2>5
  <2>7. Lives(cs, d, ch, n - 1)
    BY <2>2 DEF Lives
  <2>8. \A e \in Directions : t.open[e] # Missing => Lives(cs, e, t.open[e], n - 1)
    BY <2>4, <2>6, <2>7 DEF Replay
  <2>9. wait => \A e \in Directions : t.open[e] # Missing => e = d
    BY <2>1, <2>4, <2>6
  <2>10. Same(ch, ch)
    BY DEF Same
  <2>a. /\ \A e \in Directions : t.open[e] # Missing => Lives(cs, e, t.open[e], IF e \in {} THEN n ELSE n - 1)
        /\ wait => \A e, f \in Directions : t.open[e] # Missing /\ t.open[f] # Missing => e = f
    BY <2>8, <2>9
  <2>b. /\ t.last.created <= n /\ t.last.brokenAt = Missing /\ t.last # Missing
        /\ t.open[d] # Missing /\ Same(t.open[d], t.last)
        /\ t.last \in Channel \cup {Missing}
    BY <2>2, <2>3, <2>5, <2>6, <2>10
  <2>c. wait => \A e \in Directions : t.open[e] # Missing => Same(t.open[e], t.last)
    BY <2>9, <2>b
  <2>11. Replay(cs, t, n, {})
    BY <2>5, <2>6, <2>a, <2>b, <2>c DEF Replay
  <2>12. ASSUME wait, keep, s.last # Missing
         PROVE  s.last.created < n
    <3>1. s.last.brokenAt # Missing
      BY <2>1, <2>12 DEF Replay
    <3>2. Ended(cs, s.last, n - 1) /\ s.last \in Channel
      BY <2>12, <3>1 DEF Replay
    <3>3. s.last.created \in Int
      BY <3>2 DEF Channel
    <3> QED
      BY <3>2, <3>3 DEF Ended
  <2>13. Newer(s, t)
    BY <2>2, <2>3, <2>5, <2>12 DEF Newer
  <2> QED
    BY <2>11, <2>13 DEF t
<1> QED
  BY <1>1, <1>2

\* An open channel is advanced, or breaks.
LEMMA AdvancingStep ==
  ASSUME NEW cs \in Seq(Shapes), NEW n \in 1 .. MaxBars, n = Len(cs), NEW d \in Directions,
         NEW done \in SUBSET Directions, d \notin done,
         NEW s, Replay(cs, s, n, done), wait \in BOOLEAN, keep \in BOOLEAN
  PROVE  LET t == Advancing(cs, d, s)
         IN Replay(cs, t, n, done \cup {d}) /\ Newer(s, t)
<1> DEFINE old == s.open[d]
           ch == Advanced(old, n)
           how == BreakOf(ch, cs[n])
           t == Advancing(cs, d, s)
<1>0. /\ s.open \in [Directions -> Channel \cup {Missing}] /\ s.last \in Channel \cup {Missing}
      /\ s = [open |-> s.open, last |-> s.last]
  BY DEF Replay
<1>a. Newer(s, s)
  BY DEF Newer, Same
<1>b. ASSUME NEW x, Ended(cs, x, IF done = {} THEN n - 1 ELSE n), x \in Channel
      PROVE  Ended(cs, x, n)
  BY <1>b DEF Ended, Channel
<1>1. CASE old = Missing
  <2>1. t = s
    BY <1>1 DEF Advancing
  <2>2. Replay(cs, s, n, done \cup {d})
    BY <1>1, <1>b DEF Replay
  <2> QED
    BY <1>a, <2>1, <2>2
<1>2. CASE old # Missing
  <2>1. /\ old \in Channel /\ Lives(cs, d, old, n - 1)
    BY <1>0, <1>2 DEF Replay
  <2>2. /\ old.created \in 1 .. n /\ old.advances = n - old.created
        /\ old.brokenAt = Missing /\ old.direction = d
        /\ \A i \in old.created .. n - 1 : ~Outside(cs, old, i)
    <3>1. /\ old.created \in 1 .. MaxBars /\ old.created <= n
          /\ old.advances = n - 1 - old.created + 1
      BY <1>2, <2>1 DEF Lives, Channel, Replay
    <3> DEFINE k == old.created
    <3>a. k \in 1 .. MaxBars /\ k <= n /\ n \in Int /\ old.advances = n - 1 - k + 1
      BY <3>1
    <3> HIDE DEF k
    <3>b. k \in 1 .. n /\ n - 1 - k + 1 = n - k
      BY <3>a
    <3>2. old.created \in 1 .. n /\ old.advances = n - old.created
      BY <3>a, <3>b DEF k
    <3> QED
      BY <2>1, <3>2 DEF Lives
  <2>3. /\ ch \in Channel /\ ch.direction = d /\ ch.created = old.created /\ ch.brokenAt = Missing
        /\ ch.advances = n - ch.created + 1 /\ ch.end = n /\ Same(ch, old)
    <3>1. ch = [old EXCEPT !.end = n, !.advances = @ + 1]
      BY DEF Advanced
    <3>2. /\ ch.direction = d /\ ch.first = old.first /\ ch.second = old.second
          /\ ch.created = old.created /\ ch.ranges = old.ranges /\ ch.of = old.of /\ ch.end = n
          /\ ch.advances = old.advances + 1 /\ ch.brokenAt = Missing /\ ch.broke = old.broke
      BY <2>1, <2>2, <3>1 DEF Channel
    <3>3. /\ old.advances + 1 \in 0 .. MaxBars /\ old.advances + 1 = n - old.created + 1
          /\ n \in 1 .. MaxBars
      BY <2>2
    <3> DEFINE more == old.advances + 1
    <3>a. ch = [old EXCEPT !.end = n, !.advances = more]
      BY <2>1, <3>1 DEF Channel
    <3> HIDE DEF more, ch
    <3>4. ch \in Channel
      <4>1. more \in 0 .. MaxBars
        BY <3>3 DEF more
      <4> QED
        BY <2>1, <3>a, <4>1 DEF Channel
    <3>5. ch.advances = n - ch.created + 1
      BY <3>2, <3>3
    <3> QED
      BY <2>2, <3>2, <3>4, <3>5 DEF Same
  <2> HIDE DEF ch
  <2>4. \A i : Outside(cs, ch, i) <=> Outside(cs, old, i)
    BY <2>3, SameLines
  <2>5. how \in {Missing, "up", "down"} /\ (how = Missing <=> ~Outside(cs, ch, n))
    BY <2>3, BreaksOutside
  <2> HIDE DEF how
  <2>6. ch # Missing
    BY <2>3, MissingAssumption
  <2>7. CASE how = Missing
    <3>1. t = [s EXCEPT !.open[d] = ch]
      BY <1>2, <2>7 DEF Advancing, ch, how
    <3>2. /\ t.open = [s.open EXCEPT ![d] = ch] /\ t.last = s.last
          /\ t = [open |-> t.open, last |-> t.last]
      BY <1>0, <3>1
    <3> HIDE DEF t
    <3>3. /\ t.open \in [Directions -> Channel \cup {Missing}] /\ t.open[d] = ch
          /\ \A e \in Directions : e # d => t.open[e] = s.open[e]
      BY <1>0, <2>3, <3>2
    <3>4. Lives(cs, d, ch, n)
      BY <2>2, <2>3, <2>4, <2>5, <2>7 DEF Lives
    <3>5. \A e \in Directions : t.open[e] # Missing =>
            /\ t.open[e].created <= n
            /\ Lives(cs, e, t.open[e], IF e \in done \cup {d} THEN n ELSE n - 1)
      BY <2>2, <2>3, <3>3, <3>4 DEF Replay
    <3>6. \A e \in Directions : (t.open[e] # Missing <=> s.open[e] # Missing)
                              /\ (Same(s.open[e], s.last) => Same(t.open[e], s.last))
      BY <1>2, <2>3, <2>6, <3>3 DEF Same
    <3>7. Replay(cs, t, n, done \cup {d})
      BY <1>0, <1>b, <3>2, <3>3, <3>5, <3>6 DEF Replay
    <3>8. Newer(s, t)
      BY <1>a, <3>2 DEF Newer
    <3> QED
      BY <3>7, <3>8 DEF t
  <2>8. CASE how # Missing
    <3> DEFINE gone == Broken(ch, n, how)
    <3>1. t = [open |-> [s.open EXCEPT ![d] = Missing], last |-> gone]
      BY <1>2, <2>8 DEF Advancing, ch, how
    <3>2. /\ gone \in Channel /\ gone.brokenAt = n /\ gone.created = ch.created /\ Same(gone, ch)
      <4>1. gone = [ch EXCEPT !.brokenAt = n, !.broke = how]
        BY DEF Broken
      <4>2. /\ gone.direction = ch.direction /\ gone.first = ch.first /\ gone.second = ch.second
            /\ gone.created = ch.created /\ gone.ranges = ch.ranges /\ gone.of = ch.of /\ gone.brokenAt = n
        BY <2>3, <4>1 DEF Channel
      <4>3. gone \in Channel
        BY <2>3, <2>5, <4>1 DEF Channel
      <4> QED
        BY <4>2, <4>3 DEF Same
    <3>3. gone # Missing /\ gone.brokenAt # Missing
      BY <3>2, MissingAssumption
    <3> HIDE DEF gone
    <3>4. /\ t.open = [s.open EXCEPT ![d] = Missing] /\ t.last = gone
          /\ t = [open |-> t.open, last |-> t.last]
      BY <3>1
    <3> HIDE DEF t
    <3>5. /\ t.open \in [Directions -> Channel \cup {Missing}] /\ t.open[d] = Missing
          /\ \A e \in Directions : e # d => t.open[e] = s.open[e]
      BY <1>0, <3>4
    <3>6. \A i : Outside(cs, gone, i) <=> Outside(cs, old, i)
      BY <2>4, <3>2, SameLines
    <3>7. Ended(cs, gone, n)
      BY <2>2, <2>3, <2>4, <2>5, <2>8, <3>2, <3>6 DEF Ended
    <3>8. \A e \in Directions : t.open[e] # Missing =>
            e # d /\ Lives(cs, e, t.open[e], IF e \in done \cup {d} THEN n ELSE n - 1)
      BY <3>5 DEF Replay
    <3>9. wait => \A e \in Directions : t.open[e] = Missing
      BY <1>2, <3>5 DEF Replay
    <3>10. Replay(cs, t, n, done \cup {d})
      BY <2>2, <2>3, <3>2, <3>3, <3>4, <3>5, <3>7, <3>8, <3>9 DEF Replay
    <3>11. Newer(s, t)
      BY <1>2, <2>3, <3>2, <3>3, <3>4 DEF Newer, Replay, Same
    <3> QED
      BY <3>10, <3>11 DEF t
  <2> QED
    BY <2>7, <2>8
<1> QED
  BY <1>1, <1>2

----------------------------------------------------------------------------
(* A bar. *)

\* Before a bar is replayed, each open channel is advanced to the bar before it.
LEMMA ReplayStarts ==
  ASSUME NEW cs, NEW s, NEW n, NEW m, m - 1 = n,
         s = [open |-> s.open, last |-> s.last],
         s.open \in [Directions -> Channel \cup {Missing}], s.last \in Channel \cup {Missing},
         \A d \in Directions : s.open[d] # Missing =>
           s.open[d].created <= m /\ Lives(cs, d, s.open[d], n),
         s.last # Missing =>
           /\ s.last.created <= m
           /\ s.last.brokenAt # Missing => Ended(cs, s.last, n)
           /\ s.last.brokenAt = Missing /\ keep =>
                \E d \in Directions : s.open[d] # Missing /\ Same(s.open[d], s.last),
         wait => \A d, e \in Directions : s.open[d] # Missing /\ s.open[e] # Missing => d = e,
         wait /\ keep => \A d \in Directions : s.open[d] # Missing =>
           s.last # Missing /\ s.last.brokenAt = Missing /\ Same(s.open[d], s.last)
  PROVE  Replay(cs, s, m, {})
<1>1. /\ \A d \in Directions : (IF d \in {} THEN m ELSE m - 1) = n
      /\ (IF {} = {} THEN m - 1 ELSE m) = n
  OBVIOUS
<1>2. \A d \in Directions : s.open[d] # Missing =>
        /\ s.open[d].created <= m
        /\ Lives(cs, d, s.open[d], IF d \in {} THEN m ELSE m - 1)
  BY <1>1
<1>3. s.last # Missing =>
        /\ s.last.created <= m
        /\ s.last.brokenAt # Missing => Ended(cs, s.last, IF {} = {} THEN m - 1 ELSE m)
        /\ s.last.brokenAt = Missing /\ keep =>
             \E d \in Directions : s.open[d] # Missing /\ Same(s.open[d], s.last)
  BY <1>1
<1> QED
  BY <1>2, <1>3 DEF Replay

\* With one more bar in the chart, nothing that was said of those before changes.
LEMMA StartingStep ==
  ASSUME NEW c \in Shapes, Inv, Len(bars) < MaxBars
  PROVE  LET cs == Append(bars, c)
         IN /\ cs \in Seq(Shapes) /\ Len(cs) = Len(bars) + 1 /\ Len(cs) \in 1 .. MaxBars
            /\ Replay(cs, [open |-> open, last |-> last], Len(cs), {})
<1> DEFINE cs == Append(bars, c)
           s == [open |-> open, last |-> last]
           n == Len(bars)
           m == n + 1
<1>1. /\ bars \in Seq(Shapes) /\ n \in 0 .. MaxBars - 1
      /\ open \in [Directions -> Channel \cup {Missing}] /\ last \in Channel \cup {Missing}
      /\ Replay(bars, s, n, Directions)
  BY DEF Inv, TypeOK
<1>2. /\ cs \in Seq(Shapes) /\ Len(cs) = n + 1 /\ Len(cs) \in 1 .. MaxBars
      /\ \A i \in 1 .. n : cs[i] = bars[i]
  BY <1>1
<1>3. s.open = open /\ s.last = last
  OBVIOUS
<1> HIDE DEF cs, s, n
<1>4. ASSUME NEW ch, NEW i \in 1 .. n
      PROVE  Outside(cs, ch, i) <=> Outside(bars, ch, i)
  BY <1>2 DEF Outside
<1>5. m - 1 = n /\ m = n + 1
  BY <1>1
<1> HIDE DEF m
<1>6. ASSUME NEW e \in Directions, open[e] # Missing
      PROVE  Lives(cs, e, open[e], n)
  <2>1. Lives(bars, e, open[e], n)
    BY <1>1, <1>3, <1>6 DEF Replay
  <2>2. open[e].created \in 1 .. MaxBars
    BY <2>1 DEF Lives, Channel
  <2>3. \A i \in open[e].created .. n : i \in 1 .. n
    BY <1>1, <2>2
  <2> QED
    BY <1>4, <2>1, <2>3 DEF Lives
<1>7. ASSUME last # Missing
      PROVE  /\ last.created <= n + 1
             /\ last.brokenAt # Missing => Ended(cs, last, n)
             /\ last.brokenAt = Missing /\ keep =>
                  \E d \in Directions : open[d] # Missing /\ Same(open[d], last)
  <2>1. /\ last.created <= n /\ last \in Channel
        /\ last.brokenAt # Missing => Ended(bars, last, n)
        /\ last.brokenAt = Missing /\ keep =>
             \E d \in Directions : open[d] # Missing /\ Same(open[d], last)
    BY <1>1, <1>3, <1>7 DEF Replay, Directions
  <2>2. last.created \in 1 .. MaxBars
    BY <2>1 DEF Channel
  <2>3. ASSUME last.brokenAt # Missing
        PROVE  Ended(cs, last, n)
    <3>1. /\ last.brokenAt \in 1 .. n
          /\ \A i \in last.created .. last.brokenAt - 1 : i \in 1 .. n
      BY <1>1, <2>1, <2>2, <2>3 DEF Ended
    <3> QED
      BY <1>4, <2>1, <2>3, <3>1 DEF Ended
  <2> QED
    BY <1>1, <2>1, <2>2, <2>3
<1>8. Replay(cs, s, m, {})
  <2>1. s = [open |-> s.open, last |-> s.last]
    BY DEF s
  <2>2. \A e \in Directions : open[e] # Missing => open[e].created <= m
    <3>1. \A e \in Directions : open[e] # Missing =>
            open[e].created <= n /\ open[e].created \in 1 .. MaxBars
      BY <1>1, <1>3 DEF Replay, Lives, Channel
    <3> QED
      BY <1>1, <1>5, <3>1
  <2>3. /\ wait => \A d, e \in Directions : open[d] # Missing /\ open[e] # Missing => d = e
        /\ wait /\ keep => \A d \in Directions : open[d] # Missing =>
             last # Missing /\ last.brokenAt = Missing /\ Same(open[d], last)
    BY <1>1, <1>3 DEF Replay
  <2>4. \A d \in Directions : s.open[d] # Missing =>
          s.open[d].created <= m /\ Lives(cs, d, s.open[d], n)
    BY <1>3, <1>6, <2>2
  <2>5. s.last # Missing =>
          /\ s.last.created <= m
          /\ s.last.brokenAt # Missing => Ended(cs, s.last, n)
          /\ s.last.brokenAt = Missing /\ keep =>
               \E d \in Directions : s.open[d] # Missing /\ Same(s.open[d], s.last)
    BY <1>3, <1>5, <1>7
  <2>6. s.open \in [Directions -> Channel \cup {Missing}] /\ s.last \in Channel \cup {Missing}
    BY <1>1, <1>3
  <2>7. /\ wait => \A d, e \in Directions : s.open[d] # Missing /\ s.open[e] # Missing => d = e
        /\ wait /\ keep => \A d \in Directions : s.open[d] # Missing =>
             s.last # Missing /\ s.last.brokenAt = Missing /\ Same(s.open[d], s.last)
    BY <1>3, <2>3
  <2> QED
    BY <1>5, <2>1, <2>4, <2>5, <2>6, <2>7, ReplayStarts
<1> QED
  BY <1>2, <1>5, <1>8 DEF cs, s, n

\* An average true range is a fraction.
LEMMA AveragedTyped ==
  ASSUME NEW cs \in Seq(Shapes), Len(cs) \in 1 .. MaxBars, NEW before \in [sum : Nat, of : Nat \ {0}]
  PROVE  Averaged(cs, before) \in [sum : Nat, of : Nat \ {0}]
<1> DEFINE n == Len(cs)
           range == TrueRange(cs, n)
<1>1. /\ n \in Nat \ {0} /\ cs[n] \in Shapes /\ (n # 1 => cs[n - 1] \in Shapes)
      /\ before.sum \in Nat /\ before.of \in Nat \ {0}
  <2>1. n \in 1 .. MaxBars /\ MaxBars \in Nat
    OBVIOUS
  <2>2. \A k \in 1 .. n : cs[k] \in Shapes
    OBVIOUS
  <2> HIDE DEF n
  <2>3. n \in 1 .. n /\ n \in Nat \ {0} /\ (n # 1 => n - 1 \in 1 .. n)
    BY <2>1
  <2> QED
    BY <2>2, <2>3
<1>2. \A c \in Shapes : c.high \in Nat /\ c.low \in Nat /\ c.close \in Nat /\ c.low <= c.high
  BY CandlesAssumption
<1>3. \A x, y \in Nat : Distance(x, y) \in Nat /\ Larger(x, y) \in Nat
  BY DEF Distance, Larger
<1> HIDE DEF n
<1>4. range \in Nat
  <2>1. Height(cs[n]) \in Nat
    <3>1. cs[n].high \in Nat /\ cs[n].low \in Nat /\ cs[n].low <= cs[n].high
      BY <1>1, <1>2
    <3> QED
      BY <3>1 DEF Height
  <2>2. CASE n = 1
    BY <2>1, <2>2 DEF TrueRange
  <2>3. CASE n # 1
    <3> DEFINE p == cs[n - 1].close
    <3>a. p \in Nat /\ cs[n].high \in Nat /\ cs[n].low \in Nat
      BY <1>1, <1>2, <2>3
    <3> HIDE DEF p
    <3>1. Distance(cs[n].high, p) \in Nat /\ Distance(cs[n].low, p) \in Nat
      BY <1>3, <3>a
    <3>2. Larger(Distance(cs[n].high, p), Distance(cs[n].low, p)) \in Nat
      BY <1>3, <3>1
    <3>3. Larger(Height(cs[n]), Larger(Distance(cs[n].high, p), Distance(cs[n].low, p))) \in Nat
      BY <1>3, <2>1, <3>2
    <3> QED
      BY <2>3, <3>3 DEF TrueRange, p
  <2> QED
    BY <2>2, <2>3
<1> HIDE DEF range
<1>5. before.of * range \in Nat /\ 10 * before.of \in Nat \ {0}
  BY <1>1, <1>4
<1>6. before.sum + range \in Nat /\ 9 * before.sum + before.of * range \in Nat
  <2> DEFINE x == before.of * range
  <2>1. x \in Nat
    BY <1>5
  <2> HIDE DEF x
  <2>2. before.sum + range \in Nat /\ 9 * before.sum + x \in Nat
    BY <1>1, <1>4, <2>1
  <2> QED
    BY <2>2 DEF x
<1>7. /\ n <= 10 => Averaged(cs, before) = [sum |-> before.sum + range, of |-> n]
      /\ ~(n <= 10) => Averaged(cs, before) = [sum |-> 9 * before.sum + before.of * range, of |-> 10 * before.of]
  BY DEF Averaged, n, range
<1> QED
  BY <1>1, <1>5, <1>6, <1>7

\* A pivot that is confirmed has its bar and a price.
LEMMA ConfirmingTyped ==
  ASSUME NEW cs \in Seq(Shapes), Len(cs) \in 1 .. MaxBars, NEW known \in Seq(Pivot),
         Len(known) <= 2, NEW isPivot \in BOOLEAN, NEW price,
         Len(cs) > 2 * Span => price \in Nat
  PROVE  /\ Confirming(cs, known, isPivot, price) \in Seq(Pivot)
         /\ Len(Confirming(cs, known, isPivot, price)) <= 2
<1> DEFINE new == [index |-> Len(cs) - Span, price |-> price]
<1>1. CASE ~(Len(cs) > 2 * Span /\ isPivot)
  BY <1>1 DEF Confirming
<1>2. CASE Len(cs) > 2 * Span /\ isPivot
  <2>1. new \in Pivot
    BY <1>2 DEF Pivot
  <2>2. CASE known = <<>>
    <3>1. Confirming(cs, known, isPivot, price) = <<>> \o <<new>>
      BY <1>2, <2>2 DEF Confirming
    <3> QED
      BY <2>1, <3>1
  <2>3. CASE known # <<>>
    <3>1. Confirming(cs, known, isPivot, price) = <<known[Len(known)]>> \o <<new>>
      BY <1>2, <2>3 DEF Confirming
    <3>2. known[Len(known)] \in Pivot
      BY <2>3
    <3> QED
      BY <2>1, <3>1, <3>2
  <2> QED
    BY <2>2, <2>3
<1> QED
  BY <1>1, <1>2

\* The known pivots of a kind stay two at most.
LEMMA ConfirmedTyped ==
  ASSUME NEW cs \in Seq(Shapes), Len(cs) \in 1 .. MaxBars, NEW known \in Seq(Pivot),
         Len(known) <= 2
  PROVE  /\ ConfirmedHighs(cs, known) \in Seq(Pivot) /\ Len(ConfirmedHighs(cs, known)) <= 2
         /\ ConfirmedLows(cs, known) \in Seq(Pivot) /\ Len(ConfirmedLows(cs, known)) <= 2
<1> DEFINE i == Len(cs) - Span
<1>1. Len(cs) > 2 * Span => i > 0 /\ cs[i].high \in Nat /\ cs[i].low \in Nat
  <2> SUFFICES ASSUME Len(cs) > 2 * Span
               PROVE  i > 0 /\ cs[i].high \in Nat /\ cs[i].low \in Nat
    OBVIOUS
  <2>1. i \in 1 .. Len(cs)
    OBVIOUS
  <2>2. cs[i] \in Shapes
    BY <2>1
  <2> QED
    BY <2>1, <2>2
<1>2. /\ (i > Span /\ PivotHigh(cs, i)) \in BOOLEAN
      /\ (i > Span /\ PivotLow(cs, i)) \in BOOLEAN
  BY DEF PivotHigh, PivotLow
<1>3. /\ Len(cs) > 2 * Span => (IF i > 0 THEN cs[i].high ELSE 0) \in Nat
      /\ Len(cs) > 2 * Span => (IF i > 0 THEN cs[i].low ELSE 0) \in Nat
  BY <1>1
<1> QED
  BY <1>2, <1>3, ConfirmingTyped DEF ConfirmedHighs, ConfirmedLows

\* Of an empty chart there is nothing to say.
LEMMA InvInit == Init => Inv
<1> SUFFICES ASSUME Init PROVE Inv
  OBVIOUS
<1>1. /\ bars = <<>> /\ Len(bars) = 0 /\ last = Missing
      /\ \A d \in Directions : open[d] = Missing
      /\ open \in [Directions -> Channel \cup {Missing}]
  BY DEF Init
<1>2. TypeOK
  BY <1>1 DEF Init, TypeOK
<1>3. Replay(bars, [open |-> open, last |-> last], 0, Directions)
  BY <1>1 DEF Replay
<1> QED
  BY <1>1, <1>2, <1>3 DEF Inv

\* A bar keeps the invariant, and what is last is what was, or newer.
LEMMA BarKeeps ==
  ASSUME Inv, Bar
  PROVE  Inv' /\ Newer([open |-> open, last |-> last], [open |-> open', last |-> last'])
<1>1. PICK c \in Shapes :
        LET cs == Append(bars, c)
            hs == ConfirmedHighs(cs, highs)
            ls == ConfirmedLows(cs, lows)
            atr == Averaged(cs, average)
            opened == Opening(cs, atr, "up", lows, ls,
                              Opening(cs, atr, "down", highs, hs, [open |-> open, last |-> last]))
            done == Advancing(cs, "up", Advancing(cs, "down", opened))
        IN /\ bars' = cs /\ average' = atr /\ UNCHANGED <<wait, keep>>
           /\ highs' = hs /\ lows' = ls /\ open' = done.open /\ last' = done.last
  BY DEF Bar
<1> DEFINE cs == Append(bars, c)
           n == Len(cs)
           hs == ConfirmedHighs(cs, highs)
           ls == ConfirmedLows(cs, lows)
           s0 == [open |-> open, last |-> last]
           atr == Averaged(cs, average)
           s1 == Opening(cs, atr, "down", highs, hs, s0)
           s2 == Opening(cs, atr, "up", lows, ls, s1)
           s3 == Advancing(cs, "down", s2)
           s4 == Advancing(cs, "up", s3)
<1>2. /\ bars' = cs /\ average' = atr /\ wait' = wait /\ keep' = keep /\ highs' = hs /\ lows' = ls
      /\ open' = s4.open /\ last' = s4.last
  BY <1>1
<1>3. /\ wait \in BOOLEAN /\ keep \in BOOLEAN /\ Len(bars) < MaxBars
      /\ highs \in Seq(Pivot) /\ Len(highs) <= 2 /\ lows \in Seq(Pivot) /\ Len(lows) <= 2
  BY DEF Inv, TypeOK, Bar
<1>4. /\ cs \in Seq(Shapes) /\ n \in 1 .. MaxBars /\ n = Len(cs) /\ Replay(cs, s0, n, {})
  BY <1>3, StartingStep
<1>a. atr \in [sum : Nat, of : Nat \ {0}]
  BY <1>4, AveragedTyped DEF Inv, TypeOK
<1> HIDE DEF atr
<1> HIDE DEF cs, n, s0
<1>5. /\ hs \in Seq(Pivot) /\ Len(hs) <= 2 /\ ls \in Seq(Pivot) /\ Len(ls) <= 2
  BY <1>3, <1>4, ConfirmedTyped
<1> HIDE DEF hs, ls
<1>6. "down" \in Directions /\ "up" \in Directions /\ {} \in SUBSET Directions
      /\ {} \cup {"down"} = {"down"} /\ {"down"} \in SUBSET Directions
      /\ "up" \notin {"down"} /\ {"down"} \cup {"up"} = Directions
  BY DEF Directions
<1>7. Replay(cs, s1, n, {}) /\ Newer(s0, s1)
  BY <1>3, <1>4, <1>5, <1>6, <1>a, OpeningStep
<1> HIDE DEF s1
<1>8. Replay(cs, s2, n, {}) /\ Newer(s1, s2)
  BY <1>3, <1>4, <1>5, <1>6, <1>7, <1>a, OpeningStep
<1> HIDE DEF s2
<1>9. Replay(cs, s3, n, {"down"}) /\ Newer(s2, s3)
  <2>1. Replay(cs, s3, n, {} \cup {"down"}) /\ Newer(s2, s3)
    BY <1>3, <1>4, <1>6, <1>8, AdvancingStep
  <2> QED
    BY <1>6, <2>1
<1> HIDE DEF s3
<1>10. Replay(cs, s4, n, Directions) /\ Newer(s3, s4)
  <2>1. Replay(cs, s4, n, {"down"} \cup {"up"}) /\ Newer(s3, s4)
    BY <1>3, <1>4, <1>6, <1>9, AdvancingStep
  <2> QED
    BY <1>6, <2>1
<1> HIDE DEF s4
<1>11. Newer(s0, s4)
  <2>1. {s0.last, s1.last, s2.last, s3.last, s4.last} \subseteq Channel \cup {Missing}
    BY <1>4, <1>7, <1>8, <1>9, <1>10 DEF Replay
  <2>2. Newer(s0, s2)
    BY <1>7, <1>8, <2>1, NewerChain
  <2>3. Newer(s0, s3)
    BY <1>9, <2>1, <2>2, NewerChain
  <2> QED
    BY <1>10, <2>1, <2>3, NewerChain
<1>12. s4 = [open |-> open', last |-> last']
  BY <1>2, <1>10 DEF Replay
<1>13. TypeOK'
  <2>1. /\ s4.open \in [Directions -> Channel \cup {Missing}] /\ s4.last \in Channel \cup {Missing}
        /\ \A d \in Directions : s4.open[d] # Missing =>
             s4.open[d].direction = d /\ s4.open[d].brokenAt = Missing
    BY <1>10 DEF Replay, Lives
  <2> QED
    BY <1>2, <1>3, <1>4, <1>5, <1>a, <2>1 DEF TypeOK
<1>14. Inv'
  BY <1>2, <1>4, <1>10, <1>12, <1>13 DEF Inv, Replay, Lives, Ended
<1> QED
  BY <1>11, <1>12, <1>14 DEF s0

----------------------------------------------------------------------------
(* The channel that is shown. *)

\* It is one of those in order, and none is newer; none before it is as new.
Order == <<open["down"], open["up"], IF keep THEN last ELSE Missing>>
Newest(k) ==
  /\ Order[k] # Missing /\ Shown = Order[k]
  /\ \A j \in 1 .. 3 : Order[j] # Missing =>
       /\ Order[j].created <= Order[k].created
       /\ Order[j].created = Order[k].created => k <= j

LEMMA ShownIsNewest ==
  ASSUME Inv
  PROVE  /\ Shown = Missing => \A k \in 1 .. 3 : Order[k] = Missing
         /\ Shown # Missing => \E k \in 1 .. 3 : Newest(k)
<1> DEFINE there == {k \in 1 .. 3 : Order[k] # Missing}
           newest == {k \in there : \A j \in there : Order[j].created <= Order[k].created}
           least == CHOOSE k \in newest : \A j \in newest : k <= j
<1>1. Shown = IF there = {} THEN Missing ELSE Order[least]
  BY DEF Shown, Order
<1>2. \A k \in there : Order[k] \in Channel /\ Order[k].created \in Int
  <2>1. /\ open["down"] \in Channel \cup {Missing} /\ open["up"] \in Channel \cup {Missing}
        /\ last \in Channel \cup {Missing}
    BY DEF Inv, TypeOK, Directions
  <2>2. ASSUME NEW k \in there
        PROVE  Order[k] \in Channel
    <3>1. k \in 1 .. 3 /\ Order[k] # Missing
      OBVIOUS
    <3>2. CASE k = 1
      BY <2>1, <3>1, <3>2 DEF Order
    <3>3. CASE k = 2
      BY <2>1, <3>1, <3>3 DEF Order
    <3>4. CASE k = 3
      BY <2>1, <3>1, <3>4 DEF Order
    <3> QED
      BY <3>1, <3>2, <3>3, <3>4
  <2> QED
    BY <2>2 DEF Channel
<1>3. there \subseteq 1 .. 3
  OBVIOUS
<1> HIDE DEF there
<1>4. ASSUME there # {}
      PROVE  /\ least \in newest /\ \A j \in newest : least <= j
  <2>1. newest # {}
    <3>1. PICK one \in there : TRUE
      BY <1>4
    <3>2. \A j \in there : j = 1 \/ j = 2 \/ j = 3
      BY <1>3
    <3>3. \E k \in there : \A j \in there : Order[j].created <= Order[k].created
      BY <1>2, <3>1, <3>2
    <3> QED
      BY <3>3
  <2>2. \A k \in newest : k = 1 \/ k = 2 \/ k = 3
    BY <1>3
  <2> HIDE DEF newest
  <2>3. \E k \in newest : \A j \in newest : k <= j
    <3>1. CASE 1 \in newest
      BY <2>2, <3>1
    <3>2. CASE 1 \notin newest /\ 2 \in newest
      BY <2>2, <3>2
    <3>3. CASE 1 \notin newest /\ 2 \notin newest
      BY <2>1, <2>2, <3>3
    <3> QED
      BY <3>1, <3>2, <3>3
  <2> QED
    BY <2>3
<1>5. ASSUME there # {}
      PROVE  Newest(least) /\ least \in 1 .. 3 /\ Shown # Missing
  <2>1. /\ least \in there /\ \A j \in there : Order[j].created <= Order[least].created
    BY <1>4, <1>5
  <2>2. ASSUME NEW j \in there, Order[j].created = Order[least].created
        PROVE  least <= j
    <3>1. j \in newest
      BY <2>1, <2>2
    <3> QED
      BY <1>4, <1>5, <3>1
  <2>3. Shown = Order[least]
    BY <1>1, <1>5
  <2>4. \A j \in 1 .. 3 : Order[j] # Missing => j \in there
    BY DEF there
  <2>5. Order[least] # Missing /\ least \in 1 .. 3
    BY <2>1 DEF there
  <2> HIDE DEF least
  <2> QED
    BY <2>1, <2>2, <2>3, <2>4, <2>5 DEF Newest
<1>6. CASE there = {}
  BY <1>1, <1>6 DEF there, Newest
<1>7. CASE there # {}
  BY <1>5, <1>7
<1> QED
  BY <1>6, <1>7

\* It is an open channel, or a broken one that is kept.
LEMMA ShownLives ==
  ASSUME Inv, Shown # Missing
  PROVE  LET n == Len(bars)
         IN \/ \E d \in Directions : /\ open[d] # Missing /\ Shown = open[d]
                                     /\ Lives(bars, d, Shown, n) /\ Shown.created <= n
            \/ /\ keep /\ last # Missing /\ Shown = last
               /\ Shown.brokenAt # Missing /\ Ended(bars, Shown, n)
<1> DEFINE n == Len(bars)
           s == [open |-> open, last |-> last]
<1>1. PICK k \in 1 .. 3 : Newest(k)
  BY ShownIsNewest
<1>2. Replay(bars, s, n, Directions) /\ s.open = open /\ s.last = last
  BY DEF Inv
<1> HIDE DEF s, n
<1>3. ASSUME NEW d \in Directions, open[d] # Missing, Shown = open[d]
      PROVE  Lives(bars, d, Shown, n) /\ Shown.created <= n
  BY <1>2, <1>3 DEF Replay
<1>4. CASE k = 1 \/ k = 2
  <2>1. \E d \in Directions : open[d] # Missing /\ Shown = open[d]
    BY <1>1, <1>4 DEF Newest, Order, Directions
  <2> QED
    BY <1>3, <2>1 DEF n
<1>5. CASE k = 3
  <2>1. keep /\ last # Missing /\ Shown = last
    BY <1>1, <1>5 DEF Newest, Order
  <2>2. last.brokenAt # Missing
    <3> SUFFICES ASSUME last.brokenAt = Missing
                 PROVE  FALSE
      OBVIOUS
    <3>1. PICK d \in Directions : open[d] # Missing /\ Same(open[d], last)
      BY <1>2, <2>1 DEF Replay
    <3>2. PICK j \in 1 .. 2 : Order[j] = open[d]
      <4>1. CASE d = "down"
        <5>1. Order[1] = open[d]
          BY <4>1 DEF Order
        <5> QED
          BY <5>1
      <4>2. CASE d = "up"
        <5>1. Order[2] = open[d]
          BY <4>2 DEF Order
        <5> QED
          BY <5>1
      <4> QED
        BY <4>1, <4>2 DEF Directions
    <3>3. Order[j].created = Order[3].created
      BY <2>1, <3>1, <3>2 DEF Same, Order
    <3> QED
      BY <1>1, <1>5, <3>1, <3>2, <3>3 DEF Newest
  <2>3. Ended(bars, last, n)
    BY <1>2, <2>1, <2>2 DEF Replay, Directions
  <2> QED
    BY <2>1, <2>2, <2>3 DEF n
<1> QED
  BY <1>4, <1>5

\* What lives was never outside, and what ended was then.
LEMMA InvShownIsTrue == Inv => ShownIsTrue
<1> SUFFICES ASSUME Inv, Shown # Missing
             PROVE  LET ch == Shown
                        life == ch.created .. IF ch.brokenAt = Missing THEN Len(bars) ELSE ch.brokenAt - 1
                    IN /\ \A i \in life : ~Outside(bars, ch, i)
                       /\ IF ch.brokenAt = Missing THEN ch.end = Len(bars)
                          ELSE Outside(bars, ch, ch.brokenAt)
  BY DEF ShownIsTrue
<1>1. CASE \E d \in Directions : Lives(bars, d, Shown, Len(bars)) /\ Shown.created <= Len(bars)
  BY <1>1 DEF Lives
<1>2. CASE Shown.brokenAt # Missing /\ Ended(bars, Shown, Len(bars))
  BY <1>2 DEF Ended
<1> QED
  BY <1>1, <1>2, ShownLives

----------------------------------------------------------------------------
(* No signal after the break. *)

\* Some numbers have a least one.
LEMMA LeastIsOne ==
  ASSUME NEW T \in SUBSET Nat, T # {}
  PROVE  \E x \in T : \A y \in T : x <= y
<1> DEFINE Less == {ss \in Nat \X Nat : ss[1] < ss[2]}
<1>1. IsWellFoundedOn(Less, Nat)
  BY NatLessThanWellFounded DEF OpToRel
<1> HIDE DEF Less
<1>2. PICK x \in T : \A y \in T : ~(<<y, x>> \in Less)
  BY <1>1, WFMin
<1>3. ASSUME NEW y \in T
      PROVE  x <= y
  <2>1. x \in Nat /\ y \in Nat /\ ~(y < x)
    BY <1>2 DEF Less
  <2> QED
    BY <2>1
<1> QED
  BY <1>3

\* A set of bars has a latest one: that after which the fewest bars are left.
LEMMA LatestIsOne ==
  ASSUME NEW n \in Nat, NEW S \in SUBSET (1 .. n), S # {}
  PROVE  Latest(S) \in S
<1> DEFINE Left == {n - i : i \in S}
<1>1. Left \in SUBSET Nat /\ Left # {}
  <2>1. \A i \in S : n - i \in Nat
    OBVIOUS
  <2> QED
    BY <2>1
<1>2. PICK x \in Left : \A y \in Left : x <= y
  BY <1>1, LeastIsOne
<1>3. PICK i \in S : x = n - i
  BY <1>2
<1>4. ASSUME NEW j \in S
      PROVE  j <= i
  <2>1. n - i <= n - j
    BY <1>2, <1>3
  <2> QED
    BY <2>1
<1> QED
  BY <1>4 DEF Latest

\* A run of bars ends, and an event is, at a bar that may give a signal.
LEMMA InvNoSignal == Inv => NoSignalAfterBreak
<1> DEFINE ch == Shown
           n == Len(bars)
           scaled == [i \in DOMAIN bars |-> Scaled(bars[i], Unit(ch))]
<1> SUFFICES ASSUME Inv, Shown # Missing, Shown.brokenAt # Missing,
                    NEW r \in AreaRules, AreaPasses(bars, ch, r)
             PROVE  IF r.action \in Interaction
                    THEN LatestEvent(scaled, AreaTarget(bars, ch, r), r) <= ch.brokenAt
                    ELSE ch.brokenAt = n
  BY DEF NoSignalAfterBreak
<1>1. bars \in Seq(Shapes) /\ n \in Nat
  BY DEF Inv, TypeOK
<1>2. Ended(bars, ch, n) /\ ch \in Channel
  <2>1. ~\E d \in Directions : Lives(bars, d, Shown, n)
    BY DEF Lives
  <2>2. Ended(bars, ch, n) /\ last # Missing /\ Shown = last
    BY <2>1, ShownLives
  <2> QED
    BY <2>2 DEF Inv, TypeOK
<1>3. ch.brokenAt \in Int /\ ch.brokenAt <= n
  BY <1>1, <1>2 DEF Ended, Channel
<1>4. ASSUME NEW i \in Eligible(ch, n)
      PROVE  i <= ch.brokenAt
  BY DEF Eligible
<1> HIDE DEF ch, n
<1>5. CASE r.action \in Interaction
  <2> DEFINE target == AreaTarget(bars, ch, r)
             S == {i \in 1 .. Len(scaled) : Happens(scaled, target, i, r)}
  <2>1. DOMAIN target = Eligible(ch, n)
    BY DEF AreaTarget, n
  <2>2. Interacts(scaled, target, r)
    BY <1>5 DEF AreaPasses, ch
  <2>3. LatestEvent(scaled, target, r) # Missing
    BY <2>2 DEF Interacts, AgeInRange
  <2>4. Len(scaled) = n
    BY <1>1 DEF n
  <2> HIDE DEF scaled, target
  <2>5. \A i \in S : i \in Eligible(ch, n)
    BY <2>1 DEF Happens, ComesFrom, Reclaims
  <2>6. S \in SUBSET (1 .. n)
    BY <1>1, <2>4
  <2>7. LatestEvent(scaled, target, r) = Latest(S)
    BY DEF LatestEvent
  <2> HIDE DEF S
  <2>8. S # {}
    BY <2>3, <2>7 DEF Latest
  <2>9. Latest(S) \in S
    BY <1>1, <2>6, <2>8, LatestIsOne
  <2> QED
    BY <1>4, <1>5, <2>5, <2>7, <2>9 DEF target
<1>6. CASE r.action \notin Interaction
  <2> DEFINE holding == {i \in DOMAIN bars : AreaHolds(bars, ch, r, i)}
  <2>1. RunStart(n, holding) # Missing
    BY <1>6 DEF AreaPasses, ch, n
  <2>2. n \in holding
    BY <2>1 DEF RunStart
  <2>3. n \in Eligible(ch, n)
    BY <2>2 DEF AreaHolds, n
  <2> QED
    BY <1>1, <1>3, <1>4, <1>6, <2>3
<1> QED
  BY <1>5, <1>6

----------------------------------------------------------------------------
(* One channel at a time. *)

\* What is shown is the last, but for how far it was advanced.
ShownLast ==
  wait /\ keep =>
    /\ Shown # Missing <=> last # Missing
    /\ Shown # Missing => Same(Shown, last) /\ Shown \in Channel /\ last \in Channel

\* What is open is then the last, and what is broken is shown as the last.
LEMMA InvShownLast == Inv => ShownLast
<1> SUFFICES ASSUME Inv, wait, keep
             PROVE  /\ Shown # Missing <=> last # Missing
                    /\ Shown # Missing => Same(Shown, last) /\ Shown \in Channel /\ last \in Channel
  BY DEF ShownLast
<1>1. /\ last \in Channel \cup {Missing}
      /\ \A d \in Directions : open[d] # Missing =>
           open[d] \in Channel /\ last # Missing /\ Same(open[d], last)
  BY DEF Inv, TypeOK, Replay
<1>2. ASSUME Shown = Missing
      PROVE  last = Missing
  <2>1. Order[3] = Missing
    BY <1>2, ShownIsNewest
  <2> QED
    BY <2>1 DEF Order
<1>3. ASSUME Shown # Missing
      PROVE  /\ last # Missing /\ Same(Shown, last) /\ Shown \in Channel
  <2>1. CASE \E d \in Directions : open[d] # Missing /\ Shown = open[d]
    BY <1>1, <2>1
  <2>2. CASE last # Missing /\ Shown = last
    BY <1>1, <2>2 DEF Same
  <2> QED
    BY <1>3, <2>1, <2>2, ShownLives
<1> QED
  BY <1>1, <1>2, <1>3

\* As the last stays or is newer, so is what is shown.
LEMMA ShownNewer ==
  ASSUME ShownLast, ShownLast', wait' = wait, keep' = keep,
         Newer([open |-> open, last |-> last], [open |-> open', last |-> last'])
  PROVE  wait /\ keep /\ Shown # Missing =>
           /\ Shown' # Missing
           /\ \/ Shown'.created > Shown.created
              \/ <<Shown'.first, Shown'.second, Shown'.direction>>
                   = <<Shown.first, Shown.second, Shown.direction>>
<1> SUFFICES ASSUME wait, keep, Shown # Missing
             PROVE  /\ Shown' # Missing
                    /\ \/ Shown'.created > Shown.created
                       \/ <<Shown'.first, Shown'.second, Shown'.direction>>
                            = <<Shown.first, Shown.second, Shown.direction>>
  OBVIOUS
<1>1. /\ last # Missing /\ Same(Shown, last)
      /\ Shown' # Missing <=> last' # Missing
      /\ Shown' # Missing => Same(Shown', last')
  BY DEF ShownLast, Same
<1>2. last' # Missing /\ (last'.created > last.created \/ Same(last', last))
  BY <1>1 DEF Newer
<1> QED
  BY <1>1, <1>2 DEF Same

----------------------------------------------------------------------------
(* The theorems. *)

\* The replay keeps its invariant, bar by bar.
LEMMA InvHolds == Spec => []Inv
<1>1. Inv /\ [Next]_vars => Inv'
  <2> SUFFICES ASSUME Inv, [Next]_vars
               PROVE  Inv'
    OBVIOUS
  <2>1. CASE Next
    BY <2>1, BarKeeps DEF Next
  <2>2. CASE UNCHANGED vars
    BY <2>2 DEF vars, Inv, TypeOK, Replay, Lives, Ended
  <2> QED
    BY <2>1, <2>2
<1> QED
  BY <1>1, InvInit, PTL DEF Spec

----------------------------------------------------------------------------
(* The second pivot of a channel is later than the first, and far enough     *)
(* from it that no channel is created before bar 3 * Span + 2.               *)

Soonest == 3 * Span + 2
Ahead(ch) == ch # Missing => ch.first.index < ch.second.index /\ ch.created >= Soonest
AllAhead(s) == (\A d \in Directions : Ahead(s.open[d])) /\ Ahead(s.last)

\* Pivots known when a chart had n bars, in order.
InOrder(known, n) ==
  /\ \A k \in DOMAIN known : known[k].index <= n - Span
  /\ Len(known) = 2 => known[1].index < known[2].index

\* Pivots known are pivots of the chart.
Whole(cs, i) == i \in Span + 1 .. Len(cs) - Span
HighPivots(cs, known) == \A k \in DOMAIN known : Whole(cs, known[k].index) /\ PivotHigh(cs, known[k].index)
LowPivots(cs, known) == \A k \in DOMAIN known : Whole(cs, known[k].index) /\ PivotLow(cs, known[k].index)

\* Two pivots of a kind are further apart than either looks.
LEMMA PivotsApart ==
  ASSUME NEW cs \in Seq(Shapes), NEW i \in Nat, NEW j \in Nat, Whole(cs, i), Whole(cs, j), i < j,
         \/ PivotHigh(cs, i) /\ PivotHigh(cs, j)
         \/ PivotLow(cs, i) /\ PivotLow(cs, j)
  PROVE  j > i + Span
<1> SUFFICES ASSUME j <= i + Span
             PROVE  FALSE
  OBVIOUS
<1>1. i \in 1 .. Len(cs) /\ j \in 1 .. Len(cs) /\ i \in j - Span .. j - 1 /\ j \in i + 1 .. i + Span
  <2>1. Len(cs) \in Nat /\ i >= 1 /\ j >= 1 /\ i <= Len(cs) - Span /\ j <= Len(cs) - Span
    BY DEF Whole
  <2> QED
    BY <2>1
<1>2. cs[i].high \in Nat /\ cs[j].high \in Nat /\ cs[i].low \in Nat /\ cs[j].low \in Nat
  <2>1. cs[i] \in Shapes /\ cs[j] \in Shapes
    BY <1>1
  <2> QED
    BY <2>1
<1>3. CASE PivotHigh(cs, i) /\ PivotHigh(cs, j)
  <2>1. cs[j].high > cs[i].high /\ cs[i].high >= cs[j].high
    BY <1>1, <1>3 DEF PivotHigh
  <2> QED
    BY <1>2, <2>1
<1>4. CASE PivotLow(cs, i) /\ PivotLow(cs, j)
  <2>1. cs[j].low < cs[i].low /\ cs[i].low <= cs[j].low
    BY <1>1, <1>4 DEF PivotLow
  <2> QED
    BY <1>2, <2>1
<1> QED
  BY <1>3, <1>4

\* A pivot stays one when the chart grows.
LEMMA PivotsStay ==
  ASSUME NEW cs \in Seq(Shapes), NEW c \in Shapes, NEW i \in Nat, Whole(cs, i)
  PROVE  LET more == Append(cs, c)
         IN /\ Whole(more, i)
            /\ PivotHigh(cs, i) => PivotHigh(more, i)
            /\ PivotLow(cs, i) => PivotLow(more, i)
<1> DEFINE more == Append(cs, c)
           n == Len(cs)
<1>1. /\ n \in Nat /\ Len(more) = n + 1 /\ \A k \in 1 .. n : more[k] = cs[k]
      /\ i \in Span + 1 .. n - Span
  BY DEF Whole
<1> HIDE DEF more, n
<1>2. /\ \A k \in i - Span .. i - 1 : k \in 1 .. n
      /\ \A k \in i + 1 .. i + Span : k \in 1 .. n
      /\ i \in 1 .. n /\ i \in Span + 1 .. n + 1 - Span
  BY <1>1
<1>3. Whole(more, i)
  BY <1>1, <1>2 DEF Whole
<1>4. PivotHigh(cs, i) => PivotHigh(more, i)
  BY <1>1, <1>2 DEF PivotHigh
<1>5. PivotLow(cs, i) => PivotLow(more, i)
  BY <1>1, <1>2 DEF PivotLow
<1> QED
  BY <1>3, <1>4, <1>5 DEF more

\* The elements of a sequence.
LEMMA Elements ==
  ASSUME NEW S, NEW s \in Seq(S)
  PROVE  Len(s) \in Nat /\ DOMAIN s = 1 .. Len(s) /\ \A k \in 1 .. Len(s) : s[k] \in S
OBVIOUS

\* What a bar confirms comes after the last one known.
Adds(cs, known, found) ==
  /\ Len(cs) > 2 * Span
  /\ Len(found) \in {1, 2} /\ DOMAIN found = 1 .. Len(found)
  /\ found[Len(found)].index = Len(cs) - Span
  /\ Len(found) = 2 => known # <<>> /\ found[1] = known[Len(known)]

\* Of one or two pivots, one that is not the last is the first of two.
LEMMA OlderOfTwo ==
  ASSUME NEW n \in {1, 2}, NEW k \in 1 .. n, k # n
  PROVE  k = 1 /\ n = 2
OBVIOUS

\* What is known is left as it is, or the new pivot is added to it.
LEMMA ConfirmingFound ==
  ASSUME NEW cs, Len(cs) \in 1 .. MaxBars, NEW known \in Seq(Pivot), NEW isPivot \in BOOLEAN,
         NEW price, NEW found, found = Confirming(cs, known, isPivot, price), found # known
  PROVE  isPivot /\ Adds(cs, known, found)
<1> DEFINE new == [index |-> Len(cs) - Span, price |-> price]
<1>1. Len(cs) > 2 * Span /\ isPivot
  BY DEF Confirming
<1>2. new.index = Len(cs) - Span
  OBVIOUS
<1>3. found = (IF known = <<>> THEN known ELSE <<known[Len(known)]>>) \o <<new>>
  BY <1>1 DEF Confirming
<1>4. \A x : LET one == <<>> \o <<x>>
             IN Len(one) = 1 /\ DOMAIN one = 1 .. 1 /\ one[1] = x
  OBVIOUS
<1>5. \A x, y : LET two == <<x>> \o <<y>>
                IN Len(two) = 2 /\ DOMAIN two = 1 .. 2 /\ two[1] = x /\ two[2] = y
  OBVIOUS
<1> HIDE DEF new
<1>6. CASE known = <<>>
  <2>1. found = <<>> \o <<new>>
    BY <1>3, <1>6
  <2>2. Len(found) = 1 /\ DOMAIN found = 1 .. 1 /\ found[1] = new
    BY <1>4, <2>1
  <2>3. Len(found) # 2
    BY <2>2
  <2>4. Len(found) \in {1, 2} /\ DOMAIN found = 1 .. Len(found) /\ found[Len(found)].index = Len(cs) - Span
    BY <1>2, <2>2
  <2>5. Adds(cs, known, found)
    BY <1>1, <2>3, <2>4 DEF Adds
  <2> QED
    BY <1>1, <2>5
<1>7. CASE known # <<>>
  <2> DEFINE one == known[Len(known)]
  <2>1. found = <<one>> \o <<new>>
    BY <1>3, <1>7
  <2> HIDE DEF one
  <2>2. Len(found) = 2 /\ DOMAIN found = 1 .. 2 /\ found[1] = one /\ found[2] = new
    BY <1>5, <2>1
  <2>3. found[1] = known[Len(known)]
    BY <2>2 DEF one
  <2>4. /\ Len(found) \in {1, 2} /\ DOMAIN found = 1 .. Len(found)
        /\ found[Len(found)] = new
    BY <2>2
  <2>5. Adds(cs, known, found)
    BY <1>1, <1>2, <1>7, <2>3, <2>4 DEF Adds
  <2> QED
    BY <1>1, <2>5
<1> QED
  BY <1>6, <1>7

\* Pivots that are known stay pivots on the longer chart, and the new one is one.
LEMMA ConfirmedFound ==
  ASSUME NEW cs \in Seq(Shapes), NEW c \in Shapes, NEW more, more = Append(cs, c),
         Len(more) \in 1 .. MaxBars, NEW known \in Seq(Pivot)
  PROVE  /\ HighPivots(cs, known) => HighPivots(more, ConfirmedHighs(more, known))
         /\ LowPivots(cs, known) => LowPivots(more, ConfirmedLows(more, known))
<1> DEFINE i == Len(more) - Span
<1>1. \A k \in DOMAIN known : known[k].index \in Nat
  <2>1. \A k \in DOMAIN known : known[k] \in Pivot
    OBVIOUS
  <2> QED
    BY <2>1 DEF Pivot
<1>2. /\ HighPivots(cs, known) => HighPivots(more, known)
      /\ LowPivots(cs, known) => LowPivots(more, known)
  BY <1>1, PivotsStay DEF HighPivots, LowPivots
<1>3. known # <<>> => Len(known) \in DOMAIN known
  OBVIOUS
<1>4. i > Span => Whole(more, i)
  <2>1. Len(more) \in Nat
    OBVIOUS
  <2> QED
    BY <2>1 DEF Whole
<1>5. (i > Span /\ PivotHigh(more, i)) \in BOOLEAN /\ (i > Span /\ PivotLow(more, i)) \in BOOLEAN
  BY DEF PivotHigh, PivotLow
<1> DEFINE highs_ == ConfirmedHighs(more, known)
           lows_ == ConfirmedLows(more, known)
<1>6. ASSUME HighPivots(cs, known), highs_ # known
      PROVE  HighPivots(more, highs_)
  <2>1. /\ i > Span /\ PivotHigh(more, i)
        /\ Len(highs_) \in {1, 2} /\ DOMAIN highs_ = 1 .. Len(highs_)
        /\ highs_[Len(highs_)].index = i
        /\ Len(highs_) = 2 => known # <<>> /\ highs_[1] = known[Len(known)]
    <3> DEFINE is == i > Span /\ PivotHigh(more, i)
               price == IF i > 0 THEN more[i].high ELSE 0
    <3>1. highs_ = Confirming(more, known, is, price)
      BY DEF ConfirmedHighs
    <3>2. is \in BOOLEAN
      BY <1>5
    <3> HIDE DEF is, price, highs_, i
    <3>3. is /\ Adds(more, known, highs_)
      BY <1>6, <3>1, <3>2, ConfirmingFound
    <3> QED
      BY <3>3 DEF is, i, Adds
  <2> HIDE DEF highs_, i
  <2>2. ASSUME NEW k \in DOMAIN highs_
        PROVE  Whole(more, highs_[k].index) /\ PivotHigh(more, highs_[k].index)
    <3>1. CASE k = Len(highs_)
      BY <1>4, <2>1, <3>1
    <3>2. CASE k # Len(highs_)
      <4>1. k = 1 /\ Len(highs_) = 2
        <5>1. Len(highs_) \in {1, 2} /\ k \in 1 .. Len(highs_)
          BY <2>1
        <5> QED
          BY <3>2, <5>1, OlderOfTwo
      <4> QED
        BY <1>2, <1>3, <1>6, <2>1, <4>1 DEF HighPivots
    <3> QED
      BY <3>1, <3>2
  <2> QED
    BY <2>2 DEF HighPivots
<1>7. ASSUME LowPivots(cs, known), lows_ # known
      PROVE  LowPivots(more, lows_)
  <2>1. /\ i > Span /\ PivotLow(more, i)
        /\ Len(lows_) \in {1, 2} /\ DOMAIN lows_ = 1 .. Len(lows_)
        /\ lows_[Len(lows_)].index = i
        /\ Len(lows_) = 2 => known # <<>> /\ lows_[1] = known[Len(known)]
    <3> DEFINE is == i > Span /\ PivotLow(more, i)
               price == IF i > 0 THEN more[i].low ELSE 0
    <3>1. lows_ = Confirming(more, known, is, price)
      BY DEF ConfirmedLows
    <3>2. is \in BOOLEAN
      BY <1>5
    <3> HIDE DEF is, price, lows_, i
    <3>3. is /\ Adds(more, known, lows_)
      BY <1>7, <3>1, <3>2, ConfirmingFound
    <3> QED
      BY <3>3 DEF is, i, Adds
  <2> HIDE DEF lows_, i
  <2>2. ASSUME NEW k \in DOMAIN lows_
        PROVE  Whole(more, lows_[k].index) /\ PivotLow(more, lows_[k].index)
    <3>1. CASE k = Len(lows_)
      BY <1>4, <2>1, <3>1
    <3>2. CASE k # Len(lows_)
      <4>1. k = 1 /\ Len(lows_) = 2
        <5>1. Len(lows_) \in {1, 2} /\ k \in 1 .. Len(lows_)
          BY <2>1
        <5> QED
          BY <3>2, <5>1, OlderOfTwo
      <4> QED
        BY <1>2, <1>3, <1>7, <2>1, <4>1 DEF LowPivots
    <3> QED
      BY <3>1, <3>2
  <2> QED
    BY <2>2 DEF LowPivots
<1> QED
  BY <1>2, <1>6, <1>7

\* When a second pivot is confirmed, the chart has room for both and for what each
\* looks at.
LEMMA SoonEnough ==
  ASSUME NEW cs \in Seq(Shapes), Len(cs) \in 1 .. MaxBars, NEW known \in Seq(Pivot),
         NEW found \in Seq(Pivot), InOrder(found, Len(cs)), found # known, Len(found) = 2,
         \/ found = ConfirmedHighs(cs, known) /\ HighPivots(cs, found)
         \/ found = ConfirmedLows(cs, known) /\ LowPivots(cs, found)
  PROVE  Len(cs) >= Soonest
<1> DEFINE x == found[1].index
           y == found[2].index
<1>1. x \in Nat /\ y \in Nat /\ x < y /\ 1 \in DOMAIN found /\ 2 \in DOMAIN found
  <2>1. /\ \A k \in 1 .. Len(found) : found[k] \in Pivot
        /\ DOMAIN found = 1 .. Len(found)
    BY Elements
  <2>2. found[1] \in Pivot /\ found[2] \in Pivot /\ 1 \in DOMAIN found /\ 2 \in DOMAIN found
    BY <2>1
  <2> QED
    BY <2>2 DEF Pivot, InOrder
<1>2. y = Len(cs) - Span
  <2>1. \E is \in BOOLEAN : \E price : found = Confirming(cs, known, is, price)
    <3>1. \A i : (i > Span /\ PivotHigh(cs, i)) \in BOOLEAN /\ (i > Span /\ PivotLow(cs, i)) \in BOOLEAN
      BY DEF PivotHigh, PivotLow
    <3> QED
      BY <3>1 DEF ConfirmedHighs, ConfirmedLows
  <2>2. Adds(cs, known, found)
    BY <2>1, ConfirmingFound
  <2> QED
    BY <2>2 DEF Adds
<1>3. /\ Whole(cs, x) /\ Whole(cs, y)
      /\ \/ PivotHigh(cs, x) /\ PivotHigh(cs, y)
         \/ PivotLow(cs, x) /\ PivotLow(cs, y)
  BY <1>1 DEF HighPivots, LowPivots
<1> HIDE DEF x, y
<1>4. y > x + Span
  BY <1>1, <1>3, PivotsApart
<1>5. Len(cs) \in Nat /\ x >= Span + 1
  BY <1>3 DEF Whole
<1> QED
  BY <1>1, <1>2, <1>4, <1>5 DEF Soonest

LEMMA ConfirmingInOrder ==
  ASSUME NEW cs, Len(cs) \in 1 .. MaxBars, NEW known \in Seq(Pivot), Len(known) <= 2,
         NEW isPivot, NEW price, InOrder(known, Len(cs) - 1)
  PROVE  InOrder(Confirming(cs, known, isPivot, price), Len(cs))
<1> DEFINE new == [index |-> Len(cs) - Span, price |-> price]
           after == Confirming(cs, known, isPivot, price)
<1>1. Len(cs) \in Int /\ Span \in Int /\ new.index = Len(cs) - Span
  OBVIOUS
<1>2. ASSUME NEW k \in DOMAIN known
      PROVE  known[k].index \in Int /\ known[k].index < Len(cs) - Span
  <2>1. known[k] \in Pivot /\ known[k].index <= Len(cs) - 1 - Span
    BY DEF InOrder
  <2>2. known[k].index \in Int
    BY <2>1 DEF Pivot
  <2> QED
    BY <1>1, <2>1, <2>2
<1>3. CASE after = known
  <2>1. Len(known) = 2 => known[1].index < known[2].index
    BY DEF InOrder
  <2>2. \A k \in DOMAIN known : known[k].index <= Len(cs) - Span
    BY <1>1, <1>2
  <2> QED
    BY <1>3, <2>1, <2>2 DEF InOrder
<1>4. CASE known = <<>> /\ after = <<>> \o <<new>>
  <2>1. after = <<new>>
    BY <1>4
  <2> HIDE DEF new
  <2> QED
    BY <1>1, <2>1 DEF InOrder
<1>5. CASE known # <<>> /\ after = <<known[Len(known)]>> \o <<new>>
  <2>1. Len(known) \in DOMAIN known
    BY <1>5
  <2>2. \A x, y : LET two == <<x>> \o <<y>>
                 IN Len(two) = 2 /\ DOMAIN two = {1, 2} /\ two[1] = x /\ two[2] = y
    OBVIOUS
  <2> HIDE DEF new, after
  <2>3. Len(after) = 2 /\ DOMAIN after = {1, 2} /\ after[1] = known[Len(known)] /\ after[2] = new
    BY <1>5, <2>2
  <2>4. after[1].index \in Int /\ after[1].index < Len(cs) - Span /\ after[2].index = Len(cs) - Span
    BY <1>1, <1>2, <2>1, <2>3
  <2>5. \A k \in DOMAIN after : after[k].index <= Len(cs) - Span
    BY <1>1, <2>3, <2>4
  <2>6. after[1].index < after[2].index
    BY <2>4
  <2> QED
    BY <2>5, <2>6 DEF InOrder, after
<1> QED
  BY <1>3, <1>4, <1>5 DEF Confirming

LEMMA ConfirmedInOrder ==
  ASSUME NEW cs, Len(cs) \in 1 .. MaxBars, NEW known \in Seq(Pivot), Len(known) <= 2,
         InOrder(known, Len(cs) - 1)
  PROVE  InOrder(ConfirmedHighs(cs, known), Len(cs)) /\ InOrder(ConfirmedLows(cs, known), Len(cs))
BY ConfirmingInOrder DEF ConfirmedHighs, ConfirmedLows

LEMMA OpeningAhead ==
  ASSUME NEW cs, NEW d \in Directions, NEW s, AllAhead(s),
         s.open \in [Directions -> Channel \cup {Missing}],
         NEW atr, NEW known, NEW confirmed, NEW n, InOrder(confirmed, n),
         confirmed # known /\ Len(confirmed) = 2 => Len(cs) >= Soonest
  PROVE  AllAhead(Opening(cs, atr, d, known, confirmed, s))
<1> DEFINE ch == Opened(cs, atr, d, confirmed)
           other == CHOOSE e \in Directions : e # d
           t == Opening(cs, atr, d, known, confirmed, s)
<1>1. CASE t = s
  BY <1>1
<1>2. CASE /\ Opens(d, known, confirmed, s.open)
           /\ t = [open |-> [s.open EXCEPT ![d] = ch, ![other] = IF keep THEN @ ELSE Missing], last |-> ch]
  <2>1. ch.first.index < ch.second.index /\ ch.created >= Soonest
    BY <1>2 DEF Opens, Opened, InOrder
  <2> HIDE DEF ch
  <2>2. other \in Directions /\ other # d /\ \A e \in Directions : e = d \/ e = other
    BY OtherDirection
  <2> HIDE DEF other
  <2>3. t.last = ch /\ t.open[d] = ch /\ t.open[other] \in {s.open[other], Missing}
    BY <1>2, <2>2
  <2> HIDE DEF t
  <2> QED
    BY <2>1, <2>2, <2>3 DEF AllAhead, Ahead, t
<1> QED
  BY <1>1, <1>2 DEF Opening

LEMMA AdvancingAhead ==
  ASSUME NEW cs, NEW d \in Directions, NEW s, AllAhead(s),
         s.open \in [Directions -> Channel \cup {Missing}]
  PROVE  AllAhead(Advancing(cs, d, s))
<1> DEFINE n == Len(cs)
           ch == Advanced(s.open[d], n)
           how == BreakOf(ch, cs[n])
           t == Advancing(cs, d, s)
<1>1. CASE s.open[d] = Missing
  BY <1>1 DEF Advancing
<1>2. CASE s.open[d] # Missing
  <2>1. /\ s.open[d] \in Channel /\ s.open[d].first.index < s.open[d].second.index
        /\ s.open[d].created >= Soonest
    BY <1>2 DEF AllAhead, Ahead
  <2>2. ch.first = s.open[d].first /\ ch.second = s.open[d].second /\ ch.created = s.open[d].created
        /\ Broken(ch, n, how).created = s.open[d].created
        /\ Broken(ch, n, how).first = s.open[d].first /\ Broken(ch, n, how).second = s.open[d].second
    BY <2>1 DEF Advanced, Broken, Channel
  <2>3. t = IF how = Missing THEN [s EXCEPT !.open[d] = ch]
            ELSE [open |-> [s.open EXCEPT ![d] = Missing], last |-> Broken(ch, n, how)]
    BY <1>2 DEF Advancing
  <2> HIDE DEF ch, how
  <2> QED
    BY <2>1, <2>2, <2>3 DEF AllAhead, Ahead
<1> QED
  BY <1>1, <1>2

PivotsAhead ==
  /\ HighPivots(bars, highs) /\ LowPivots(bars, lows)
  /\ InOrder(highs, Len(bars)) /\ InOrder(lows, Len(bars))
  /\ AllAhead([open |-> open, last |-> last])

LEMMA BarAhead ==
  ASSUME Inv, PivotsAhead, Bar
  PROVE  PivotsAhead'
<1>1. PICK c \in Shapes :
        LET cs == Append(bars, c)
            hs == ConfirmedHighs(cs, highs)
            ls == ConfirmedLows(cs, lows)
            atr == Averaged(cs, average)
            opened == Opening(cs, atr, "up", lows, ls,
                              Opening(cs, atr, "down", highs, hs, [open |-> open, last |-> last]))
            done == Advancing(cs, "up", Advancing(cs, "down", opened))
        IN /\ bars' = cs /\ average' = atr /\ UNCHANGED <<wait, keep>>
           /\ highs' = hs /\ lows' = ls /\ open' = done.open /\ last' = done.last
  BY DEF Bar
<1> DEFINE cs == Append(bars, c)
           n == Len(cs)
           hs == ConfirmedHighs(cs, highs)
           ls == ConfirmedLows(cs, lows)
           s0 == [open |-> open, last |-> last]
           atr == Averaged(cs, average)
           s1 == Opening(cs, atr, "down", highs, hs, s0)
           s2 == Opening(cs, atr, "up", lows, ls, s1)
           s3 == Advancing(cs, "down", s2)
           s4 == Advancing(cs, "up", s3)
<1>2. /\ bars' = cs /\ highs' = hs /\ lows' = ls /\ open' = s4.open /\ last' = s4.last
  BY <1>1
<1>3. /\ wait \in BOOLEAN /\ keep \in BOOLEAN /\ Len(bars) < MaxBars /\ bars \in Seq(Shapes)
      /\ highs \in Seq(Pivot) /\ Len(highs) <= 2 /\ lows \in Seq(Pivot) /\ Len(lows) <= 2
  BY DEF Inv, TypeOK, Bar
<1>4. /\ cs \in Seq(Shapes) /\ n \in 1 .. MaxBars /\ n = Len(cs) /\ Replay(cs, s0, n, {})
  BY <1>3, StartingStep
<1>a. atr \in [sum : Nat, of : Nat \ {0}]
  BY <1>4, AveragedTyped DEF Inv, TypeOK
<1> HIDE DEF atr
<1>5. n - 1 = Len(bars)
  BY <1>3
<1>6. AllAhead(s0)
  BY DEF PivotsAhead
<1>b. HighPivots(cs, hs) /\ LowPivots(cs, ls)
  <2>1. cs = Append(bars, c) /\ Len(cs) \in 1 .. MaxBars
    BY <1>4
  <2> HIDE DEF cs, n
  <2> QED
    BY <2>1, <1>3, ConfirmedFound DEF PivotsAhead
<1> HIDE DEF cs, n, s0
<1>7. InOrder(hs, n) /\ InOrder(ls, n) /\ hs \in Seq(Pivot) /\ ls \in Seq(Pivot)
      /\ Len(hs) <= 2 /\ Len(ls) <= 2
  BY <1>3, <1>4, <1>5, ConfirmedInOrder, ConfirmedTyped DEF PivotsAhead
<1>c. /\ hs # highs /\ Len(hs) = 2 => Len(cs) >= Soonest
      /\ ls # lows /\ Len(ls) = 2 => Len(cs) >= Soonest
  BY <1>3, <1>4, <1>7, <1>b, SoonEnough
<1> HIDE DEF hs, ls
<1>8. "down" \in Directions /\ "up" \in Directions /\ {} \in SUBSET Directions /\ {} \cup {"down"} = {"down"}
      /\ "down" \notin {}
  BY DEF Directions
<1>9. \A s, m, done : Replay(cs, s, m, done) => s.open \in [Directions -> Channel \cup {Missing}]
  BY DEF Replay
<1>10. Replay(cs, s1, n, {}) /\ AllAhead(s1)
  <2>1. Replay(cs, s1, n, {})
    BY <1>3, <1>4, <1>7, <1>8, <1>a, OpeningStep
  <2>2. AllAhead(s1)
    BY <1>4, <1>6, <1>7, <1>8, <1>9, <1>c, OpeningAhead
  <2> QED
    BY <2>1, <2>2
<1> HIDE DEF s1
<1>11. Replay(cs, s2, n, {}) /\ AllAhead(s2)
  <2>1. Replay(cs, s2, n, {})
    BY <1>3, <1>4, <1>7, <1>8, <1>10, <1>a, OpeningStep
  <2>2. AllAhead(s2)
    BY <1>7, <1>8, <1>9, <1>10, <1>c, OpeningAhead
  <2> QED
    BY <2>1, <2>2
<1> HIDE DEF s2
<1>12. Replay(cs, s3, n, {"down"}) /\ AllAhead(s3)
  <2>1. Replay(cs, s3, n, {} \cup {"down"})
    BY <1>3, <1>4, <1>8, <1>11, AdvancingStep
  <2>2. AllAhead(s3)
    BY <1>8, <1>9, <1>11, AdvancingAhead
  <2> QED
    BY <1>8, <2>1, <2>2
<1> HIDE DEF s3
<1>13. AllAhead(s4)
  BY <1>8, <1>9, <1>12, AdvancingAhead
<1> HIDE DEF s4
<1> QED
  BY <1>2, <1>4, <1>7, <1>13, <1>b DEF PivotsAhead, AllAhead

LEMMA AheadHolds == Spec => []PivotsAhead
<1>1. Init => PivotsAhead
  BY DEF Init, PivotsAhead, HighPivots, LowPivots, InOrder, AllAhead, Ahead
<1>2. Inv /\ PivotsAhead /\ [Next]_vars => PivotsAhead'
  <2> SUFFICES ASSUME Inv, PivotsAhead, [Next]_vars PROVE PivotsAhead'
    OBVIOUS
  <2>1. CASE Next
    BY <2>1, BarAhead DEF Next
  <2>2. CASE UNCHANGED vars
    BY <2>2 DEF vars, PivotsAhead, HighPivots, LowPivots, Whole, PivotHigh, PivotLow,
                 InOrder, AllAhead, Ahead
  <2> QED
    BY <2>1, <2>2
<1> QED
  BY <1>1, <1>2, InvHolds, PTL DEF Spec

----------------------------------------------------------------------------
(* Upside down. *)

\* Of a candle and a rule there is an image: the candle with its prices counted
\* down from an axis, and the rule about the area on the other side.
Upside(a, b, axis) ==
  /\ {b.open, b.high, b.low, b.close} \subseteq Int
  /\ a.open = axis - b.open /\ a.high = axis - b.low
  /\ a.low = axis - b.high /\ a.close = axis - b.close
OtherArea(area) ==
  CASE area = "top_line" -> "bottom_line" [] area = "bottom_line" -> "top_line"
    [] area = "top_zone" -> "bottom_zone" [] area = "bottom_zone" -> "top_zone" [] OTHER -> area
OtherAction(action) ==
  CASE action = "closed_above" -> "closed_below" [] action = "closed_below" -> "closed_above"
    [] action = "rejected_from_above" -> "rejected_from_below"
    [] action = "rejected_from_below" -> "rejected_from_above" [] OTHER -> action
OtherLine(name) ==
  CASE name = "top" -> "bottom" [] name = "bottom" -> "top"
    [] name = "top_zone_lower" -> "bottom_zone_upper" [] name = "bottom_zone_upper" -> "top_zone_lower"
    [] name = "middle_zone_lower" -> "middle_zone_upper" [] name = "middle_zone_upper" -> "middle_zone_lower"
    [] OTHER -> name
Side == {"up", "down", "any"}

\* Two rules about candles, the one of the other's image.
Images(q, r) ==
  /\ q.action = OtherAction(r.action) /\ q.breach = Turned(r.breach)
  /\ q.touch = r.touch /\ q.tolerance = 0 /\ r.tolerance = 0

LEMMA FlippedBody ==
  ASSUME NEW axis \in Int, NEW a, NEW b, Upside(a, b, axis)
  PROVE  /\ Top(b) \in Int /\ Bottom(b) \in Int
         /\ Top(a) = axis - Bottom(b) /\ Bottom(a) = axis - Top(b)
         /\ UpperWick(a) > 0 <=> LowerWick(b) > 0
         /\ LowerWick(a) > 0 <=> UpperWick(b) > 0
<1>1. /\ Top(b) \in Int /\ Bottom(b) \in Int
      /\ Top(a) = axis - Bottom(b) /\ Bottom(a) = axis - Top(b)
  BY DEF Upside, Top, Bottom, Larger, Smaller
<1>2. b.high \in Int /\ b.low \in Int /\ a.high = axis - b.low /\ a.low = axis - b.high
  BY DEF Upside
<1> QED
  BY <1>1, <1>2 DEF UpperWick, LowerWick

LEMMA FlippedTouch ==
  ASSUME NEW axis \in Int, NEW a, NEW b, Upside(a, b, axis), NEW v \in Int, NEW type, NEW side \in Side
  PROVE  Touches(a, 100 * (axis - v), 100 * (axis - v), type, Turned(side))
           <=> Touches(b, 100 * v, 100 * v, type, side)
<1>1. /\ Top(b) \in Int /\ Bottom(b) \in Int
      /\ Top(a) = axis - Bottom(b) /\ Bottom(a) = axis - Top(b)
      /\ UpperWick(a) > 0 <=> LowerWick(b) > 0
      /\ LowerWick(a) > 0 <=> UpperWick(b) > 0
  BY FlippedBody
<1>2. b.high \in Int /\ b.low \in Int /\ a.high = axis - b.low /\ a.low = axis - b.high
  BY DEF Upside
<1>3. Turned(side) = IF side = "up" THEN "down" ELSE IF side = "down" THEN "up" ELSE "any"
  BY DEF Turned, Side
<1>4. BodyOnSide(a, 100 * (axis - v), 100 * (axis - v), Turned(side))
        <=> BodyOnSide(b, 100 * v, 100 * v, side)
  BY <1>1, <1>3 DEF BodyOnSide, Side
<1>5. /\ 100 * Bottom(a) <= 100 * (axis - v) <=> 100 * Top(b) >= 100 * v
      /\ 100 * Top(a) >= 100 * (axis - v) <=> 100 * Bottom(b) <= 100 * v
      /\ 100 * Top(a) <= 100 * (axis - v) <=> 100 * Bottom(b) >= 100 * v
      /\ 100 * Bottom(a) >= 100 * (axis - v) <=> 100 * Top(b) <= 100 * v
      /\ 100 * a.high >= 100 * (axis - v) <=> 100 * b.low <= 100 * v
      /\ 100 * a.low <= 100 * (axis - v) <=> 100 * b.high >= 100 * v
  BY <1>1, <1>2
<1>6. BodyTouches(a, 100 * (axis - v), 100 * (axis - v), Turned(side))
        <=> BodyTouches(b, 100 * v, 100 * v, side)
  BY <1>4, <1>5 DEF BodyTouches
<1>7. WickTouches(a, 100 * (axis - v), 100 * (axis - v), Turned(side))
        <=> WickTouches(b, 100 * v, 100 * v, side)
  BY <1>1, <1>3, <1>4, <1>5 DEF WickTouches, Side
<1> QED
  BY <1>6, <1>7 DEF Touches

LEMMA FlippedBreach ==
  ASSUME NEW axis \in Int, NEW a, NEW b, Upside(a, b, axis), NEW over \in Int, NEW under \in Int,
         NEW side \in Side, NEW q, NEW r, Images(q, r)
  PROVE  Breaches(a, 100 * axis - under, 100 * axis - over, q, Turned(side))
           <=> Breaches(b, over, under, r, side)
<1>1. /\ Top(b) \in Int /\ Bottom(b) \in Int
      /\ Top(a) = axis - Bottom(b) /\ Bottom(a) = axis - Top(b)
  BY FlippedBody
<1>2. b.high \in Int /\ b.low \in Int /\ a.high = axis - b.low /\ a.low = axis - b.high
  BY DEF Upside
<1> DEFINE d(rule, way) == IF rule.breach = "any" THEN way ELSE rule.breach
<1>3. /\ d(q, Turned(side)) # "down" <=> d(r, side) # "up"
      /\ d(q, Turned(side)) # "up" <=> d(r, side) # "down"
  <2>1. q.breach = Turned(r.breach)
    BY DEF Images
  <2> QED
    BY <2>1 DEF Turned, Side
<1>4. /\ 100 * (IF q.touch = "body" THEN Top(a) ELSE a.high) > 100 * axis - under
           <=> 100 * (IF r.touch = "body" THEN Bottom(b) ELSE b.low) < under
      /\ 100 * (IF q.touch = "body" THEN Bottom(a) ELSE a.low) < 100 * axis - over
           <=> 100 * (IF r.touch = "body" THEN Top(b) ELSE b.high) > over
  <2>1. q.touch = r.touch
    BY DEF Images
  <2> QED
    BY <1>1, <1>2, <2>1
<1> QED
  BY <1>3, <1>4 DEF Breaches

LEMMA FlippedLineAction ==
  ASSUME NEW axis \in Int, NEW a, NEW b, Upside(a, b, axis), NEW v \in Int,
         NEW side \in Side, NEW q, NEW r, Images(q, r)
  PROVE  LineAction(a, axis - v, q, Turned(side)) <=> LineAction(b, v, r, side)
<1>1. /\ \A x \in Int : 100 * x - Distance(x, 0) * 0 = 100 * x /\ 100 * x + Distance(x, 0) * 0 = 100 * x
      /\ q.tolerance = 0 /\ r.tolerance = 0 /\ axis - v \in Int
  BY DEF Distance, Images
<1>2. Touches(a, 100 * (axis - v), 100 * (axis - v), q.touch, Turned(side))
        <=> Touches(b, 100 * v, 100 * v, r.touch, side)
  BY FlippedTouch DEF Images
<1>3. Breaches(a, 100 * (axis - v), 100 * (axis - v), q, Turned(side)) <=> Breaches(b, 100 * v, 100 * v, r, side)
  <2>1. 100 * v \in Int /\ 100 * (axis - v) = 100 * axis - 100 * v
    OBVIOUS
  <2> QED
    BY <2>1, FlippedBreach
<1>4. /\ 100 * a.close > 100 * (axis - v) <=> 100 * b.close < 100 * v
      /\ 100 * a.close < 100 * (axis - v) <=> 100 * b.close > 100 * v
      /\ 100 * (axis - v) <= 100 * a.close <=> 100 * b.close <= 100 * v
      /\ 100 * a.close <= 100 * (axis - v) <=> 100 * v <= 100 * b.close
  BY DEF Upside
<1>5. q.action = OtherAction(r.action)
  BY DEF Images
<1>6. LineAction(a, axis - v, q, Turned(side))
        <=> CASE q.action = "touched" -> Touches(a, 100 * (axis - v), 100 * (axis - v), q.touch, Turned(side))
              [] q.action = "closed_above" -> 100 * a.close > 100 * (axis - v)
              [] q.action = "closed_below" -> 100 * a.close < 100 * (axis - v)
              [] q.action = "on_line" -> 100 * (axis - v) <= 100 * a.close /\ 100 * a.close <= 100 * (axis - v)
              [] q.action = "breach" -> Breaches(a, 100 * (axis - v), 100 * (axis - v), q, Turned(side))
              [] OTHER -> FALSE
  BY <1>1 DEF LineAction
<1>7. LineAction(b, v, r, side)
        <=> CASE r.action = "touched" -> Touches(b, 100 * v, 100 * v, r.touch, side)
              [] r.action = "closed_above" -> 100 * b.close > 100 * v
              [] r.action = "closed_below" -> 100 * b.close < 100 * v
              [] r.action = "on_line" -> 100 * v <= 100 * b.close /\ 100 * b.close <= 100 * v
              [] r.action = "breach" -> Breaches(b, 100 * v, 100 * v, r, side)
              [] OTHER -> FALSE
  BY <1>1 DEF LineAction
<1> QED
  BY <1>2, <1>3, <1>4, <1>5, <1>6, <1>7 DEF OtherAction

LEMMA FlippedZoneAction ==
  ASSUME NEW axis \in Int, NEW a, NEW b, Upside(a, b, axis), NEW low \in Int, NEW high \in Int,
         NEW side \in Side, NEW q, NEW r, Images(q, r)
  PROVE  ZoneAction(a, axis - high, axis - low, q, Turned(side)) <=> ZoneAction(b, low, high, r, side)
<1>1. /\ \A x \in Int : 100 * x - Distance(x, 0) * 0 = 100 * x /\ 100 * x + Distance(x, 0) * 0 = 100 * x
      /\ q.tolerance = 0 /\ r.tolerance = 0 /\ axis - low \in Int /\ axis - high \in Int /\ q.touch = r.touch
  BY DEF Distance, Images
<1>2. Overlaps(a, 100 * (axis - high), 100 * (axis - low), q.touch) <=> Overlaps(b, 100 * low, 100 * high, r.touch)
  <2>1. /\ Top(b) \in Int /\ Bottom(b) \in Int
        /\ Top(a) = axis - Bottom(b) /\ Bottom(a) = axis - Top(b)
    BY FlippedBody
  <2>2. b.high \in Int /\ b.low \in Int /\ a.high = axis - b.low /\ a.low = axis - b.high
    BY DEF Upside
  <2> QED
    BY <1>1, <2>1, <2>2 DEF Overlaps
<1>3. Breaches(a, 100 * (axis - low), 100 * (axis - high), q, Turned(side)) <=> Breaches(b, 100 * high, 100 * low, r, side)
  <2>1. /\ 100 * low \in Int /\ 100 * (axis - low) = 100 * axis - 100 * low
        /\ 100 * high \in Int /\ 100 * (axis - high) = 100 * axis - 100 * high
    OBVIOUS
  <2> QED
    BY <2>1, FlippedBreach
<1>4. /\ a.close < axis - high <=> b.close > high
      /\ a.close > axis - low <=> b.close < low
  BY DEF Upside
<1>5. /\ q.action = OtherAction(r.action)
      /\ Turned(side) = "up" <=> side = "down"
      /\ Turned(side) = "down" <=> side = "up"
  BY DEF Images, Turned, Side
<1>6. ZoneAction(a, axis - high, axis - low, q, Turned(side))
        <=> CASE q.action = "entered" -> Overlaps(a, 100 * (axis - high), 100 * (axis - low), q.touch)
              [] q.action = "rejected" ->
                   /\ Overlaps(a, 100 * (axis - high), 100 * (axis - low), q.touch)
                   /\ \/ Turned(side) = "up" /\ a.close < axis - high
                      \/ Turned(side) = "down" /\ a.close > axis - low
              [] q.action = "breach" -> Breaches(a, 100 * (axis - low), 100 * (axis - high), q, Turned(side))
              [] OTHER -> FALSE
  BY <1>1 DEF ZoneAction
<1>7. ZoneAction(b, low, high, r, side)
        <=> CASE r.action = "entered" -> Overlaps(b, 100 * low, 100 * high, r.touch)
              [] r.action = "rejected" ->
                   /\ Overlaps(b, 100 * low, 100 * high, r.touch)
                   /\ \/ side = "up" /\ b.close < low
                      \/ side = "down" /\ b.close > high
              [] r.action = "breach" -> Breaches(b, 100 * high, 100 * low, r, side)
              [] OTHER -> FALSE
  BY <1>1 DEF ZoneAction
<1> QED
  BY <1>2, <1>3, <1>4, <1>5, <1>6, <1>7 DEF OtherAction

\* The image of a rule.
LEMMA MirroredRule ==
  ASSUME NEW r \in AreaRules
  PROVE  LET q == MirrorRule(r)
         IN /\ q.area = OtherArea(r.area) /\ q.action = OtherAction(r.action)
            /\ q.breach = Turned(r.breach)
            /\ q.touch = r.touch /\ q.tolerance = r.tolerance /\ q.window = r.window
            /\ q.confirm = r.confirm /\ q.ageMin = r.ageMin /\ q.ageMax = r.ageMax
<1> DEFINE area == OtherArea(r.area)
           action == OtherAction(r.action)
           breach == Turned(r.breach)
<1>1. MirrorRule(r) = [r EXCEPT !.area = area, !.action = action, !.breach = breach]
  BY DEF MirrorRule, OtherArea, OtherAction
<1>2. {"area", "action", "touch", "breach", "window", "tolerance", "confirm", "ageMin", "ageMax"} \subseteq DOMAIN r
  BY AreaRulesAssumption
<1> HIDE DEF area, action, breach
<1>3. LET q == [r EXCEPT !.area = area, !.action = action, !.breach = breach]
      IN /\ q.area = area /\ q.action = action /\ q.breach = breach
         /\ q.touch = r.touch /\ q.tolerance = r.tolerance /\ q.window = r.window
         /\ q.confirm = r.confirm /\ q.ageMin = r.ageMin /\ q.ageMax = r.ageMax
  BY <1>2
<1> QED
  BY <1>1, <1>3 DEF area, action, breach

\* The lines of the area on the other side.
LEMMA MirroredArea ==
  ASSUME NEW area
  PROVE  /\ IsLine(OtherArea(area)) <=> IsLine(area)
         /\ LineOf(OtherArea(area)) = OtherLine(LineOf(area)) /\ LineOf(area) \in LineName
         /\ ZoneOf(area)[1] \in LineName /\ ZoneOf(area)[2] \in LineName
         /\ ZoneOf(OtherArea(area))[1] = OtherLine(ZoneOf(area)[2])
         /\ ZoneOf(OtherArea(area))[2] = OtherLine(ZoneOf(area)[1])
         /\ SideOf(OtherArea(area)) = Turned(SideOf(area)) /\ SideOf(area) \in Side
<1>1. CASE area \in {"top_line", "bottom_line", "middle_line"}
  BY <1>1 DEF OtherArea, IsLine, LineOf, OtherLine, LineName, ZoneOf, SideOf, Side, Turned
<1>2. CASE area \in {"top_zone", "bottom_zone"}
  BY <1>2 DEF OtherArea, IsLine, LineOf, OtherLine, LineName, ZoneOf, SideOf, Side, Turned
<1>3. CASE area \notin {"top_line", "bottom_line", "middle_line", "top_zone", "bottom_zone"}
  BY <1>3 DEF OtherArea, IsLine, LineOf, OtherLine, LineName, ZoneOf, SideOf, Side, Turned
<1> QED
  BY <1>1, <1>2, <1>3

\* The image of a channel has its proportions, and falls where it rises.
LEMMA MirroredChannel ==
  ASSUME NEW ch \in Channel
  PROVE  LET m == MirrorChannel(ch)
         IN /\ m.direction = Turned(ch.direction) /\ m.first.index = ch.first.index
            /\ m.first.price = Axis - ch.first.price /\ m.second.index = ch.second.index
            /\ m.second.price = Axis - ch.second.price
            /\ m.created = ch.created /\ m.ranges = ch.ranges /\ m.of = ch.of /\ m.end = ch.end
            /\ m.advances = ch.advances /\ m.brokenAt = ch.brokenAt
<1>1. ch.first \in [index : 1 .. MaxBars, price : Nat] /\ ch.second \in [index : 1 .. MaxBars, price : Nat]
  BY DEF Channel, Pivot
<1> QED
  BY <1>1 DEF MirrorChannel, Channel

LEMMA MirroredWidths ==
  ASSUME NEW ch \in Channel
  PROVE  LET m == MirrorChannel(ch)
         IN /\ D(m) = D(ch) /\ D(ch) \in Int /\ Unit(m) = Unit(ch) /\ Unit(ch) \in Int
            /\ Zone(m) = Zone(ch) /\ Zone(ch) \in Int /\ Width(m) = Width(ch)
            /\ Width(ch) \in Int /\ (Width(ch) \div 2) \in Int /\ Width(ch) = 2 * (Width(ch) \div 2)
<1>1. MaxBars \in Int
  BY BoundAssumption
<1>2. /\ ch.first.index \in Int /\ ch.second.index \in Int /\ ch.of \in Int /\ ch.ranges \in Int
      /\ ch.end \in Int
  BY <1>1 DEF Channel, Pivot
<1>3. PivotSpan(MirrorChannel(ch)) = PivotSpan(ch) /\ PivotSpan(ch) \in Int
  BY <1>2, MirroredChannel DEF PivotSpan
<1>4. D(MirrorChannel(ch)) = D(ch) /\ D(ch) \in Int
  BY <1>2, <1>3, MirroredChannel DEF D
<1>5. Zone(MirrorChannel(ch)) = Zone(ch) /\ Zone(ch) \in Int
  BY <1>2, <1>3, MirroredChannel DEF Zone
<1>6. Unit(MirrorChannel(ch)) = Unit(ch) /\ Unit(ch) \in Int
  BY <1>2, <1>4, MirroredChannel DEF Unit
<1>7. PICK x \in Int : Width(ch) = 2 * x
  <2>1. ch.ranges * PivotSpan(ch) \in Int
    BY <1>2, <1>3
  <2>2. Zone(ch) = 12 * (ch.ranges * PivotSpan(ch))
    BY <1>2, <1>3 DEF Zone
  <2> DEFINE y == ch.ranges * PivotSpan(ch)
  <2>a. Width(ch) = 7 * (12 * y) /\ y \in Int
    BY <2>1, <2>2 DEF Width
  <2> HIDE DEF y
  <2>3. Width(ch) = 2 * (42 * y)
    BY <2>a
  <2> QED
    BY <2>a, <2>3
<1>8. (2 * x) \div 2 = x
  OBVIOUS
<1> QED
  BY <1>4, <1>5, <1>6, <1>7, <1>8 DEF Width

\* A line of the channel is the other line of its image, as far from the axis.
LEMMA MirroredOffset ==
  ASSUME NEW ch \in Channel, NEW name \in LineName
  PROVE  /\ Offset(ch, name) \in Int
         /\ Offset(MirrorChannel(ch), OtherLine(name)) = -Offset(ch, name)
<1> DEFINE m == MirrorChannel(ch)
           z == Zone(ch)
           half == Width(ch) \div 2
<1>1. z \in Int /\ half \in Int /\ Width(ch) = 2 * half /\ Zone(m) = z /\ Width(m) = 2 * half
      /\ Width(m) \div 2 = half
  BY MirroredWidths
<1>2. ch.direction \in {"up", "down"} /\ m.direction = IF ch.direction = "up" THEN "down" ELSE "up"
  BY MirroredChannel DEF Channel, Directions, Turned
<1> DEFINE lift(down) == IF down THEN 0 ELSE 2 * half
           offset(down, line) ==
             CASE line = "top" -> lift(down) + z
               [] line = "top_zone_lower" -> lift(down) - z
               [] line = "middle" -> lift(down) - half
               [] line = "middle_zone_upper" -> lift(down) - half + z
               [] line = "middle_zone_lower" -> lift(down) - half - z
               [] line = "bottom_zone_upper" -> lift(down) - 2 * half + z
               [] line = "bottom" -> lift(down) - 2 * half - z
<1>3. \A line : Offset(ch, line) = offset(ch.direction = "down", line)
  BY <1>1 DEF Offset
<1>4. \A line : Offset(m, line) = offset(m.direction = "down", line)
  BY <1>1 DEF Offset
<1>5. \A down \in BOOLEAN : offset(down, name) \in Int /\ offset(~down, OtherLine(name)) = -offset(down, name)
  BY <1>1 DEF LineName, OtherLine
<1>6. (m.direction = "down") <=> ~(ch.direction = "down")
  BY <1>2
<1> HIDE DEF m, offset
<1>7. offset(m.direction = "down", OtherLine(name)) = offset(~(ch.direction = "down"), OtherLine(name))
  BY <1>6
<1> QED
  BY <1>3, <1>4, <1>5, <1>7 DEF m

LEMMA MirroredEnd ==
  ASSUME NEW ch \in Channel
  PROVE  EndPrice(ch) \in Int /\ EndPrice(MirrorChannel(ch)) = Axis * D(ch) - EndPrice(ch)
<1> DEFINE m == MirrorChannel(ch)
           d == D(ch)
           p == ch.first.price
           q == ch.second.price
           n == ch.advances
           k == ch.of
<1>1. MaxBars \in Int /\ Axis \in Int
  BY BoundAssumption, AxisAssumption
<1>2. d \in Int /\ p \in Int /\ q \in Int /\ n \in Int /\ k \in Int /\ D(m) = d
  BY <1>1, MirroredWidths DEF Channel, Pivot
<1>3. EndPrice(ch) = q * d + n * (14 * k * (q - p))
  BY DEF EndPrice, Step
<1>4. EndPrice(m) = (Axis - q) * d + n * (14 * k * ((Axis - q) - (Axis - p)))
  BY <1>2, MirroredChannel DEF EndPrice, Step
<1> HIDE DEF m, d, p, q, n, k
<1>5. (Axis - q) - (Axis - p) = -(q - p) /\ q - p \in Int
  BY <1>1, <1>2
<1> DEFINE x == q - p
<1>6. 14 * k * (-x) = -(14 * k * x) /\ 14 * k * x \in Int
  BY <1>2, <1>5
<1> DEFINE y == 14 * k * x
<1>7. n * (-y) = -(n * y) /\ n * y \in Int
  BY <1>2, <1>6
<1>8. (Axis - q) * d = Axis * d - q * d /\ q * d \in Int /\ Axis * d \in Int
  BY <1>1, <1>2
<1>9. EndPrice(m) = (Axis * d - q * d) - n * y
  BY <1>1, <1>2, <1>4, <1>5, <1>6, <1>7, <1>8
<1>10. EndPrice(ch) = q * d + n * y
  BY <1>3
<1> HIDE DEF x, y
<1> QED
  BY <1>7, <1>8, <1>9, <1>10 DEF m, d

LEMMA MirroredLine ==
  ASSUME NEW ch \in Channel, NEW name \in LineName, NEW i \in Int
  PROVE  /\ LineValue(ch, name, i) \in Int
         /\ LineValue(MirrorChannel(ch), OtherLine(name), i) = Axis * Unit(ch) - LineValue(ch, name, i)
<1> DEFINE m == MirrorChannel(ch)
           d == D(ch)
           p == ch.first.price
           e == EndPrice(ch)
           o == Offset(ch, name)
           u == ch.end - ch.first.index
           j == i - ch.first.index
<1>1. MaxBars \in Int /\ Axis \in Int
  BY BoundAssumption, AxisAssumption
<1>2. d \in Int /\ p \in Int /\ e \in Int /\ o \in Int /\ u \in Int /\ j \in Int
  BY <1>1, MirroredWidths, MirroredEnd, MirroredOffset DEF Channel, Pivot
<1>3. LineValue(ch, name, i) = (p * d + o) * u + (e - p * d) * j
  BY DEF LineValue
<1>4. LineValue(m, OtherLine(name), i) = ((Axis - p) * d + -o) * u + ((Axis * d - e) - (Axis - p) * d) * j
  BY MirroredChannel, MirroredWidths, MirroredEnd, MirroredOffset DEF LineValue
<1>5. Unit(ch) = d * u
  BY DEF Unit
<1> HIDE DEF m, d, p, e, o, u, j
<1>6. (Axis - p) * d = Axis * d - p * d /\ p * d \in Int /\ Axis * d \in Int
  BY <1>1, <1>2
<1> DEFINE f == p * d
           g == Axis * d
<1>7. LineValue(m, OtherLine(name), i) = ((g - f) + -o) * u + ((g - e) - (g - f)) * j
  BY <1>4, <1>6
<1>8. LineValue(ch, name, i) = (f + o) * u + (e - f) * j
  BY <1>3
<1>9. Axis * Unit(ch) = g * u
  BY <1>1, <1>2, <1>5
<1>10. f \in Int /\ g \in Int
  BY <1>6
<1> HIDE DEF f, g
<1>11. (g - f) + -o = g - (f + o) /\ (g - e) - (g - f) = -(e - f) /\ f + o \in Int /\ e - f \in Int
  BY <1>2, <1>10
<1> DEFINE a == f + o
           b == e - f
<1>12. (g - a) * u = g * u - a * u /\ (-b) * j = -(b * j) /\ g * u \in Int /\ a * u \in Int /\ b * j \in Int
  BY <1>2, <1>10, <1>11
<1>13. LineValue(m, OtherLine(name), i) = (g - a) * u + (-b) * j
  BY <1>7, <1>11
<1>14. LineValue(ch, name, i) = a * u + b * j
  BY <1>8
<1> HIDE DEF a, b
<1>15. LineValue(m, OtherLine(name), i) = g * u - LineValue(ch, name, i) /\ LineValue(ch, name, i) \in Int
  BY <1>12, <1>13, <1>14
<1> QED
  BY <1>9, <1>15 DEF m

\* A candle in the units of a channel is upside down when the candle is.
LEMMA MirroredBar ==
  ASSUME NEW c \in Shapes, NEW u \in Int
  PROVE  /\ Upside(Scaled(MirrorBar(c), u), Scaled(c, u), Axis * u)
         /\ MirrorBar(c).low = Axis - c.high /\ MirrorBar(c).high = Axis - c.low
<1>1. Axis \in Int /\ c.open \in Int /\ c.high \in Int /\ c.low \in Int /\ c.close \in Int
  BY AxisAssumption, ShapesAssumption
<1>2. {"open", "high", "low", "close"} \subseteq DOMAIN c
  BY CandlesAssumption
<1>3. LET m == MirrorBar(c)
      IN /\ m.open = Axis - c.open /\ m.high = Axis - c.low /\ m.low = Axis - c.high
         /\ m.close = Axis - c.close /\ {"open", "high", "low", "close"} \subseteq DOMAIN m
  BY <1>2 DEF MirrorBar
<1>4. \A b : {"open", "high", "low", "close"} \subseteq DOMAIN b =>
        /\ Scaled(b, u).open = b.open * u /\ Scaled(b, u).high = b.high * u
        /\ Scaled(b, u).low = b.low * u /\ Scaled(b, u).close = b.close * u
  BY DEF Scaled
<1>5. \A x \in Int : x * u \in Int /\ (Axis - x) * u = Axis * u - x * u
  BY <1>1
<1> QED
  BY <1>1, <1>2, <1>3, <1>4, <1>5 DEF Upside

\* Charts of n candles and their lines that are each other's image.
FlippedCharts(axis, n, as, bs, la, lb) ==
  /\ axis \in Int /\ n \in Nat
  /\ as # <<>> /\ bs # <<>> /\ Len(as) = n /\ Len(bs) = n
  /\ \A i \in 1 .. n : Upside(as[i], bs[i], axis)
  /\ DOMAIN la = DOMAIN lb /\ DOMAIN lb \subseteq 1 .. n
  /\ \A i \in DOMAIN lb : lb[i] \in Int /\ la[i] = axis - lb[i]

\* Rules of an interaction from the one side and the other.
FlippedRules(q, r) ==
  /\ r.action \in {"rejected_from_above", "rejected_from_below"}
  /\ q.action = OtherAction(r.action) /\ q.ageMin = r.ageMin /\ q.ageMax = r.ageMax

\* An interaction with a line is its image's with the line's image.
LEMMA FlippedInteraction ==
  ASSUME NEW axis, NEW n, NEW as, NEW bs, NEW la, NEW lb, NEW q, NEW r,
         FlippedCharts(axis, n, as, bs, la, lb), FlippedRules(q, r)
  PROVE  Interacts(as, la, q) <=> Interacts(bs, lb, r)
<1> USE DEF FlippedCharts, FlippedRules
<1>1. ASSUME NEW i \in DOMAIN lb
      PROVE  /\ as[i].close > la[i] <=> bs[i].close < lb[i]
             /\ as[i].close < la[i] <=> bs[i].close > lb[i]
             /\ Crosses(as[i], la[i]) <=> Crosses(bs[i], lb[i])
  <2>1. Upside(as[i], bs[i], axis) /\ lb[i] \in Int /\ la[i] = axis - lb[i]
    OBVIOUS
  <2>2. /\ bs[i].close \in Int /\ bs[i].low \in Int /\ bs[i].high \in Int
        /\ as[i].close = axis - bs[i].close /\ as[i].low = axis - bs[i].high /\ as[i].high = axis - bs[i].low
    BY <2>1 DEF Upside
  <2> QED
    BY <2>1, <2>2 DEF Crosses
<1>2. \A i \in 1 .. n : Happens(as, la, i, q) <=> Happens(bs, lb, i, r)
  <2> TAKE i \in 1 .. n
  <2>1. \A below \in BOOLEAN : ComesFrom(as, la, i, ~below) <=> ComesFrom(bs, lb, i, below)
    BY <1>1 DEF ComesFrom
  <2>2. /\ ComesFrom(as, la, i, TRUE) <=> ComesFrom(bs, lb, i, FALSE)
        /\ ComesFrom(as, la, i, FALSE) <=> ComesFrom(bs, lb, i, TRUE)
    BY <2>1
  <2>3. ComesFrom(bs, lb, i, TRUE) \/ ComesFrom(bs, lb, i, FALSE) => i \in DOMAIN lb
    BY DEF ComesFrom
  <2>4. CASE r.action = "rejected_from_above"
    <3>1. q.action = "rejected_from_below"
      BY <2>4 DEF OtherAction
    <3> QED
      BY <1>1, <2>2, <2>3, <2>4, <3>1 DEF Happens
  <2>5. CASE r.action = "rejected_from_below"
    <3>1. q.action = "rejected_from_above"
      BY <2>5 DEF OtherAction
    <3> QED
      BY <1>1, <2>2, <2>3, <2>5, <3>1 DEF Happens
  <2> QED
    BY <2>4, <2>5
<1>3. {i \in 1 .. Len(as) : Happens(as, la, i, q)} = {i \in 1 .. Len(bs) : Happens(bs, lb, i, r)}
  BY <1>2
<1>4. LatestEvent(as, la, q) = LatestEvent(bs, lb, r)
  BY <1>3 DEF LatestEvent
<1>5. q.action # "reclaimed" /\ r.action # "reclaimed"
  BY DEF OtherAction
<1> QED
  BY <1>4, <1>5 DEF Interacts

\* Of a chart and a channel, the image of a candle's interaction with an area.
Imaged(cs, image) ==
  /\ cs \in Seq(Shapes) /\ cs # <<>> /\ image # <<>> /\ Len(image) = Len(cs) /\ DOMAIN image = DOMAIN cs
  /\ \A i \in DOMAIN cs : image[i] = MirrorBar(cs[i])

LEMMA MirroredHolds ==
  ASSUME NEW cs, NEW image, Imaged(cs, image), NEW ch \in Channel, NEW r \in AreaRules, r.tolerance = 0,
         NEW i \in DOMAIN cs
  PROVE  AreaHolds(image, MirrorChannel(ch), MirrorRule(r), i) <=> AreaHolds(cs, ch, r, i)
<1> DEFINE m == MirrorChannel(ch)
           q == MirrorRule(r)
           u == Unit(ch)
           a == Scaled(image[i], u)
           b == Scaled(cs[i], u)
           axis == Axis * u
           zone == ZoneOf(r.area)
<1>1. u \in Int /\ Unit(m) = u /\ axis \in Int
  BY MirroredWidths, AxisAssumption
<1>2. Upside(a, b, axis)
  <2>1. cs[i] \in Shapes /\ image[i] = MirrorBar(cs[i])
    BY DEF Imaged
  <2> QED
    BY <1>1, <2>1, MirroredBar
<1>3. i \in Int
  BY DEF Imaged
<1>4. Eligible(m, Len(image)) = Eligible(ch, Len(cs))
  BY MirroredChannel DEF Eligible, Imaged
<1>5. /\ Images(q, r) /\ q.area = OtherArea(r.area)
  BY MirroredRule DEF Images
<1>6. \A name \in LineName : /\ LineValue(ch, name, i) \in Int
                             /\ LineValue(m, OtherLine(name), i) = axis - LineValue(ch, name, i)
  BY <1>3, MirroredLine
<1>7. SideOf(r.area) \in Side /\ SideOf(q.area) = Turned(SideOf(r.area))
  BY <1>5, MirroredArea
<1>8. (IsLine(q.area) <=> IsLine(r.area))
  BY <1>5, MirroredArea
<1>9. LineAction(a, LineValue(m, LineOf(q.area), i), q, SideOf(q.area))
        <=> LineAction(b, LineValue(ch, LineOf(r.area), i), r, SideOf(r.area))
  <2>1. LineOf(q.area) = OtherLine(LineOf(r.area)) /\ LineOf(r.area) \in LineName
    BY <1>5, MirroredArea
  <2> DEFINE v == LineValue(ch, LineOf(r.area), i)
  <2>2. v \in Int /\ LineValue(m, LineOf(q.area), i) = axis - v
    BY <1>6, <2>1
  <2> HIDE DEF a, b, m, q, axis, v
  <2>3. LineAction(a, axis - v, q, Turned(SideOf(r.area))) <=> LineAction(b, v, r, SideOf(r.area))
    BY <1>1, <1>2, <1>5, <1>7, <2>2, FlippedLineAction
  <2> QED
    BY <1>7, <2>2, <2>3 DEF v
<1>10. ZoneAction(a, LineValue(m, ZoneOf(q.area)[1], i), LineValue(m, ZoneOf(q.area)[2], i), q, SideOf(q.area))
         <=> ZoneAction(b, LineValue(ch, zone[1], i), LineValue(ch, zone[2], i), r, SideOf(r.area))
  <2>1. /\ ZoneOf(q.area)[1] = OtherLine(zone[2]) /\ ZoneOf(q.area)[2] = OtherLine(zone[1])
        /\ zone[1] \in LineName /\ zone[2] \in LineName
    BY <1>5, MirroredArea
  <2> DEFINE low == LineValue(ch, zone[1], i)
             high == LineValue(ch, zone[2], i)
  <2>2. /\ low \in Int /\ LineValue(m, ZoneOf(q.area)[2], i) = axis - low
        /\ high \in Int /\ LineValue(m, ZoneOf(q.area)[1], i) = axis - high
    BY <1>6, <2>1
  <2> HIDE DEF a, b, m, q, axis, low, high
  <2>3. ZoneAction(a, axis - high, axis - low, q, Turned(SideOf(r.area))) <=> ZoneAction(b, low, high, r, SideOf(r.area))
    BY <1>1, <1>2, <1>5, <1>7, <2>2, FlippedZoneAction
  <2> QED
    BY <1>7, <2>2, <2>3 DEF low, high
<1>11. AreaHolds(image, m, q, i)
         <=> /\ i \in Eligible(m, Len(image))
             /\ IF IsLine(q.area)
                THEN LineAction(a, LineValue(m, LineOf(q.area), i), q, SideOf(q.area))
                ELSE ZoneAction(a, LineValue(m, ZoneOf(q.area)[1], i), LineValue(m, ZoneOf(q.area)[2], i),
                                q, SideOf(q.area))
  BY <1>1 DEF AreaHolds
<1>12. AreaHolds(cs, ch, r, i)
         <=> /\ i \in Eligible(ch, Len(cs))
             /\ IF IsLine(r.area)
                THEN LineAction(b, LineValue(ch, LineOf(r.area), i), r, SideOf(r.area))
                ELSE ZoneAction(b, LineValue(ch, zone[1], i), LineValue(ch, zone[2], i), r, SideOf(r.area))
  BY DEF AreaHolds
<1> HIDE DEF m, q, a, b, zone
<1> QED
  BY <1>4, <1>8, <1>9, <1>10, <1>11, <1>12 DEF m, q

LEMMA MirroredInteraction ==
  ASSUME NEW cs, NEW image, Imaged(cs, image), NEW ch \in Channel, NEW r \in AreaRules,
         r.action \in {"rejected_from_above", "rejected_from_below"}
  PROVE  LET m == MirrorChannel(ch)
             q == MirrorRule(r)
         IN Interacts([i \in DOMAIN image |-> Scaled(image[i], Unit(m))], AreaTarget(image, m, q), q)
              <=> Interacts([i \in DOMAIN cs |-> Scaled(cs[i], Unit(ch))], AreaTarget(cs, ch, r), r)
<1> DEFINE m == MirrorChannel(ch)
           q == MirrorRule(r)
           u == Unit(ch)
           axis == Axis * u
           n == Len(cs)
           as == [i \in DOMAIN image |-> Scaled(image[i], Unit(m))]
           bs == [i \in DOMAIN cs |-> Scaled(cs[i], u)]
           la == AreaTarget(image, m, q)
           lb == AreaTarget(cs, ch, r)
           edge == IF IsLine(r.area) THEN LineOf(r.area)
                   ELSE ZoneOf(r.area)[IF r.action = "rejected_from_below" THEN 1 ELSE 2]
<1>1. u \in Int /\ Unit(m) = u /\ axis \in Int
  BY MirroredWidths, AxisAssumption
<1>2. n \in Nat /\ n # 0 /\ DOMAIN cs = 1 .. n /\ DOMAIN image = 1 .. n /\ Len(image) = n
  BY DEF Imaged
<1>3. \A i \in 1 .. n : Upside(as[i], bs[i], axis)
  <2> TAKE i \in 1 .. n
  <2>1. cs[i] \in Shapes /\ image[i] = MirrorBar(cs[i])
    BY <1>2 DEF Imaged
  <2>2. as[i] = Scaled(image[i], u) /\ bs[i] = Scaled(cs[i], u)
    BY <1>1, <1>2
  <2> QED
    BY <1>1, <2>1, <2>2, MirroredBar
<1>4. /\ q.area = OtherArea(r.area) /\ q.action = OtherAction(r.action)
      /\ q.ageMin = r.ageMin /\ q.ageMax = r.ageMax
  BY MirroredRule
<1>5. /\ edge \in LineName
      /\ OtherLine(edge) = IF IsLine(q.area) THEN LineOf(q.area)
                           ELSE ZoneOf(q.area)[IF q.action = "rejected_from_below" THEN 1 ELSE 2]
  <2>1. q.action = "rejected_from_below" <=> r.action # "rejected_from_below"
    BY <1>4 DEF OtherAction
  <2> QED
    BY <1>4, <2>1, MirroredArea
<1>6. lb = [i \in Eligible(ch, n) |-> LineValue(ch, edge, i)]
  BY DEF AreaTarget
<1>7. la = [i \in Eligible(m, n) |-> LineValue(m, OtherLine(edge), i)]
  BY <1>2, <1>5 DEF AreaTarget
<1>8. Eligible(m, n) = Eligible(ch, n) /\ Eligible(ch, n) \subseteq 1 .. n
  <2>1. ch.first.index \in 1 .. MaxBars /\ MaxBars \in Int
    BY BoundAssumption DEF Channel, Pivot
  <2> QED
    BY <2>1, MirroredChannel DEF Eligible
<1>9. \A i \in Int : LineValue(ch, edge, i) \in Int /\ LineValue(m, OtherLine(edge), i) = axis - LineValue(ch, edge, i)
  BY <1>5, MirroredLine
<1>10. /\ DOMAIN la = DOMAIN lb /\ DOMAIN lb \subseteq 1 .. n
       /\ \A i \in DOMAIN lb : lb[i] \in Int /\ la[i] = axis - lb[i]
  <2> HIDE DEF la, lb, m, axis, edge, n
  <2>1. \A i \in Eligible(ch, n) : i \in Int
    BY <1>8
  <2> QED
    BY <1>6, <1>7, <1>8, <1>9, <2>1
<1>11. Len(as) = n /\ Len(bs) = n /\ as # <<>> /\ bs # <<>>
  <2>1. Len(as) = n /\ Len(bs) = n
    BY <1>2
  <2> HIDE DEF as, bs, n
  <2> QED
    BY <1>2, <2>1
<1> HIDE DEF as, bs, la, lb, n, axis, q
<1>12. Interacts(as, la, q) <=> Interacts(bs, lb, r)
  <2>1. FlippedCharts(axis, n, as, bs, la, lb)
    BY <1>1, <1>2, <1>3, <1>10, <1>11 DEF FlippedCharts
  <2>2. FlippedRules(q, r)
    BY <1>4 DEF FlippedRules
  <2> QED
    BY <2>1, <2>2, FlippedInteraction
<1> QED
  BY <1>12 DEF as, bs, la, lb, q

\* Whatever is asked of the two sides alike, the image obeys when the channel does.
LEMMA MirroredPasses ==
  ASSUME NEW cs, NEW image, Imaged(cs, image), NEW ch \in Channel, NEW r \in AreaRules,
         r.tolerance = 0, ~r.confirm.on, r.action \notin {"piercing", "reclaimed"}
  PROVE  AreaPasses(image, MirrorChannel(ch), MirrorRule(r)) = AreaPasses(cs, ch, r)
<1> DEFINE m == MirrorChannel(ch)
           q == MirrorRule(r)
           holding(chart, channel, rule) == {i \in DOMAIN chart : AreaHolds(chart, channel, rule, i)}
<1>1. /\ q.action = OtherAction(r.action) /\ q.window = r.window /\ q.confirm = r.confirm
  BY MirroredRule
<1>2. q.action \in Interaction <=> r.action \in Interaction
  BY <1>1 DEF OtherAction, Interaction
<1>3. CASE r.action \in Interaction
  <2>1. r.action \in {"rejected_from_above", "rejected_from_below"}
    BY <1>3 DEF Interaction
  <2>2. Interacts([i \in DOMAIN image |-> Scaled(image[i], Unit(m))], AreaTarget(image, m, q), q)
          <=> Interacts([i \in DOMAIN cs |-> Scaled(cs[i], Unit(ch))], AreaTarget(cs, ch, r), r)
    BY <2>1, MirroredInteraction
  <2>3. AreaPasses(image, m, q)
          = Interacts([i \in DOMAIN image |-> Scaled(image[i], Unit(m))], AreaTarget(image, m, q), q)
    BY <1>2, <1>3 DEF AreaPasses
  <2>4. AreaPasses(cs, ch, r)
          = Interacts([i \in DOMAIN cs |-> Scaled(cs[i], Unit(ch))], AreaTarget(cs, ch, r), r)
    BY <1>3 DEF AreaPasses
  <2>5. \A xs, line, rule : Interacts(xs, line, rule) \in BOOLEAN
    BY DEF Interacts
  <2> QED
    BY <2>2, <2>3, <2>4, <2>5
<1>4. CASE r.action \notin Interaction
  <2>1. holding(image, m, q) = holding(cs, ch, r)
    BY MirroredHolds DEF Imaged
  <2>2. Len(image) = Len(cs)
    BY DEF Imaged
  <2>3. \A start : Confirmed(image, start, q.confirm) = TRUE /\ Confirmed(cs, start, r.confirm) = TRUE
    BY <1>1 DEF Confirmed
  <2> DEFINE start == RunStart(Len(cs), holding(cs, ch, r))
  <2>4. AreaPasses(image, m, q) = (start # Missing /\ Len(cs) - start + 1 = r.window)
    BY <1>1, <1>2, <1>4, <2>1, <2>2, <2>3 DEF AreaPasses
  <2>5. AreaPasses(cs, ch, r) = (start # Missing /\ Len(cs) - start + 1 = r.window)
    BY <1>4, <2>3 DEF AreaPasses
  <2> QED
    BY <2>4, <2>5
<1> QED
  BY <1>3, <1>4

\* A bar is not above a channel and below it: the image of the one is the other.
LEMMA MirroredBreak ==
  ASSUME NEW ch \in Channel, Ahead(ch), NEW c \in Shapes
  PROVE  BreakOf(MirrorChannel(ch), MirrorBar(c)) = Turned(BreakOf(ch, c))
<1> DEFINE m == MirrorChannel(ch)
           d == D(ch)
           above == EndPrice(ch) + Offset(ch, "top")
           under == EndPrice(ch) + Offset(ch, "bottom")
<1>1. MaxBars \in Int /\ Axis \in Int
  BY BoundAssumption, AxisAssumption
<1>2. PivotSpan(ch) \in Nat /\ ch.of \in Nat /\ ch.ranges \in Nat
  <2>1. ch # Missing
    BY MissingAssumption
  <2>2. ch.first.index \in Int /\ ch.second.index \in Int /\ ch.first.index < ch.second.index
    BY <1>1, <2>1 DEF Channel, Pivot, Ahead
  <2> QED
    BY <1>1, <2>2 DEF Channel, PivotSpan
<1>3. d \in Nat
  BY <1>2 DEF D
<1>4. Zone(ch) \in Nat
  BY <1>2 DEF Zone
<1>5. above \in Int /\ under \in Int /\ under <= above
  <2>1. "top" \in LineName /\ "bottom" \in LineName
    BY DEF LineName
  <2>2. EndPrice(ch) \in Int /\ Offset(ch, "top") \in Int /\ Offset(ch, "bottom") \in Int
    BY <2>1, MirroredEnd, MirroredOffset
  <2>3. Width(ch) \in Int /\ Width(ch) = 7 * Zone(ch)
    BY MirroredWidths DEF Width
  <2> DEFINE lift == IF ch.direction = "down" THEN 0 ELSE Width(ch)
  <2>4. Offset(ch, "top") = lift + Zone(ch) /\ Offset(ch, "bottom") = lift - Width(ch) - Zone(ch)
    BY DEF Offset
  <2>5. lift \in Int
    BY <2>3
  <2> HIDE DEF lift
  <2>6. Offset(ch, "bottom") <= Offset(ch, "top")
    BY <1>4, <2>3, <2>4, <2>5
  <2> QED
    BY <2>2, <2>6
<1>6. c.low \in Int /\ c.high \in Int /\ c.low <= c.high
  BY ShapesAssumption, CandlesAssumption
<1>7. D(m) = d /\ EndPrice(m) + Offset(m, "top") = Axis * d - under
      /\ EndPrice(m) + Offset(m, "bottom") = Axis * d - above
  <2>1. "top" \in LineName /\ "bottom" \in LineName /\ OtherLine("top") = "bottom" /\ OtherLine("bottom") = "top"
    BY DEF LineName, OtherLine
  <2>2. /\ EndPrice(ch) \in Int /\ Offset(ch, "top") \in Int /\ Offset(ch, "bottom") \in Int
        /\ EndPrice(m) = Axis * d - EndPrice(ch)
        /\ Offset(m, "bottom") = -Offset(ch, "top") /\ Offset(m, "top") = -Offset(ch, "bottom")
    BY <2>1, MirroredEnd, MirroredOffset
  <2>3. D(m) = d /\ Axis * d \in Int
    BY <1>1, <1>3, MirroredWidths
  <2> HIDE DEF d, m
  <2> QED
    BY <2>2, <2>3
<1>8. MirrorBar(c).low = Axis - c.high /\ MirrorBar(c).high = Axis - c.low
  BY MirroredBar
<1> HIDE DEF d, above, under, m
<1> DEFINE low == c.low * d
           high == c.high * d
<1>9. /\ low \in Int /\ high \in Int /\ Axis * d \in Int
      /\ (Axis - c.high) * d = Axis * d - high /\ (Axis - c.low) * d = Axis * d - low
  BY <1>1, <1>3, <1>6
<1>10. low <= high
  <2> DEFINE x == c.high - c.low
  <2>1. x \in Nat /\ c.high = c.low + x
    BY <1>6
  <2> HIDE DEF x
  <2>2. (c.low + x) * d = c.low * d + x * d /\ x * d \in Nat
    BY <1>3, <1>6, <2>1
  <2> QED
    BY <1>9, <2>1, <2>2
<1>11. Missing # "up" /\ Missing # "down"
  BY MissingAssumption DEF Directions
<1> DEFINE shift == Axis * d
<1>12. shift \in Int
  BY <1>9
<1>13. /\ Axis * d - high > Axis * d - under <=> high < under
       /\ Axis * d - low < Axis * d - above <=> low > above
       /\ ~(low > above /\ high < under)
  <2> HIDE DEF shift, low, high
  <2>1. (shift - high > shift - under <=> high < under) /\ (shift - low < shift - above <=> low > above)
        /\ ~(low > above /\ high < under)
    BY <1>5, <1>9, <1>10, <1>12
  <2> QED
    BY <2>1 DEF shift
<1>14. BreakOf(ch, c) = CASE low > above -> "up" [] high < under -> "down" [] OTHER -> Missing
  BY DEF BreakOf, d, above, under
<1>15. BreakOf(m, MirrorBar(c))
         = CASE Axis * d - high > Axis * d - under -> "up"
             [] Axis * d - low < Axis * d - above -> "down" [] OTHER -> Missing
  <2>1. MirrorBar(c).low * D(m) = Axis * d - high /\ MirrorBar(c).high * D(m) = Axis * d - low
    BY <1>7, <1>8, <1>9
  <2> HIDE DEF low, high
  <2> QED
    BY <1>7, <2>1 DEF BreakOf
<1>16. BreakOf(m, MirrorBar(c)) = CASE high < under -> "up" [] low > above -> "down" [] OTHER -> Missing
  BY <1>13, <1>15
<1> HIDE DEF low, high
<1>17. CASE low > above
  BY <1>11, <1>13, <1>14, <1>16, <1>17 DEF Turned, m
<1>18. CASE ~(low > above) /\ high < under
  BY <1>11, <1>13, <1>14, <1>16, <1>18 DEF Turned, m
<1>19. CASE ~(low > above) /\ ~(high < under)
  BY <1>11, <1>13, <1>14, <1>16, <1>19 DEF Turned, m
<1> QED
  BY <1>17, <1>18, <1>19

LEMMA InvAreasMirrored ==
  ASSUME Inv, PivotsAhead
  PROVE  AreasMirrored
<1> DEFINE ch == Shown
           image == [i \in DOMAIN bars |-> MirrorBar(bars[i])]
           n == Len(bars)
<1> SUFFICES ASSUME Shown # Missing
             PROVE  /\ BreakOf(MirrorChannel(ch), image[n]) = Turned(BreakOf(ch, bars[n]))
                    /\ \A r \in AreaRules :
                         r.tolerance = 0 /\ ~r.confirm.on /\ r.action \notin {"piercing", "reclaimed"} =>
                           AreaPasses(image, MirrorChannel(ch), MirrorRule(r)) = AreaPasses(bars, ch, r)
  BY DEF AreasMirrored
<1>1. bars \in Seq(Shapes) /\ n \in Nat /\ DOMAIN bars = 1 .. n
  BY DEF Inv, TypeOK
<1>2. ch \in Channel /\ Ahead(ch) /\ ch.created <= n
  <2>1. \/ \E d \in Directions : open[d] # Missing /\ Shown = open[d] /\ Shown.created <= n
        \/ last # Missing /\ Shown = last /\ Ended(bars, Shown, n)
    BY ShownLives
  <2>2. /\ \A d \in Directions : open[d] # Missing => open[d] \in Channel /\ Ahead(open[d])
        /\ last # Missing => last \in Channel /\ Ahead(last)
    BY DEF Inv, TypeOK, PivotsAhead, AllAhead
  <2>3. ch \in Channel /\ Ahead(ch)
    BY <2>1, <2>2
  <2>4. Ended(bars, Shown, n) => ch.created <= n
    <3>1. ch.created \in Int
      BY <2>3, BoundAssumption DEF Channel
    <3> QED
      BY <1>1, <3>1 DEF Ended
  <2> QED
    BY <2>1, <2>3, <2>4
<1>3. n \in 1 .. n
  <2>1. ch.created \in 1 .. MaxBars /\ MaxBars \in Int
    BY <1>2, BoundAssumption DEF Channel
  <2> HIDE DEF n, ch
  <2> QED
    BY <1>1, <1>2, <2>1
<1>4. image[n] = MirrorBar(bars[n]) /\ bars[n] \in Shapes
  BY <1>1, <1>3
<1>5. Imaged(bars, image)
  <2>1. Len(image) = n /\ DOMAIN image = 1 .. n
    BY <1>1
  <2>2. \A i \in DOMAIN bars : image[i] = MirrorBar(bars[i])
    OBVIOUS
  <2>3. bars # <<>>
    BY <1>1, <1>3
  <2>4. image # <<>>
    <3> HIDE DEF image, n
    <3> QED
      BY <1>1, <1>3, <2>1
  <2> QED
    BY <1>1, <2>1, <2>2, <2>3, <2>4 DEF Imaged
<1> HIDE DEF image, ch, n
<1>6. BreakOf(MirrorChannel(ch), image[n]) = Turned(BreakOf(ch, bars[n]))
  BY <1>2, <1>4, MirroredBreak
<1>7. ASSUME NEW r \in AreaRules, r.tolerance = 0, ~r.confirm.on, r.action \notin {"piercing", "reclaimed"}
      PROVE  AreaPasses(image, MirrorChannel(ch), MirrorRule(r)) = AreaPasses(bars, ch, r)
  BY <1>2, <1>5, <1>7, MirroredPasses
<1> QED
  BY <1>6, <1>7

----------------------------------------------------------------------------
(* What holds of every chart: of any length from Span 3 on, and of up to ten *)
(* bars with Span 2 (BoundAssumption).                                      *)

\* Through the whole replay pivots, channels and settings keep their types, and an
\* open channel is of its direction and not broken (trend_channels.py:104).
THEOREM TypeCorrect == Spec => []TypeOK
<1>1. Inv => TypeOK
  BY DEF Inv
<1> QED
  BY <1>1, InvHolds, PTL

\* For every chart the channel shown lived as it says: no bar of its life was
\* outside but the one that broke it (trend_channels.py:104, :411).
THEOREM ShownIsTrueHolds == Spec => []ShownIsTrue
BY InvShownIsTrue, InvHolds, PTL

\* For every chart and every set of rules, a channel that broke gives no signal
\* on bars after its break (trend_channels.py:582).
THEOREM NoSignalAfterBreakHolds == Spec => []NoSignalAfterBreak
BY InvNoSignal, InvHolds, PTL

\* With one channel at a time and the last one kept, the channel shown stays on
\* its pivots until a newer one comes (trend_channels.py:104, :433).
THEOREM ShownStaysHolds == Spec => ShownStays
<1> DEFINE Stays ==
      wait /\ keep /\ Shown # Missing =>
        /\ Shown' # Missing
        /\ \/ Shown'.created > Shown.created
           \/ <<Shown'.first, Shown'.second, Shown'.direction>>
                = <<Shown.first, Shown.second, Shown.direction>>
<1>1. Inv /\ ShownLast /\ ShownLast' /\ [Next]_vars => [Stays]_vars
  <2> SUFFICES ASSUME Inv, ShownLast, ShownLast', Next
               PROVE  Stays
    OBVIOUS
  <2>1. Newer([open |-> open, last |-> last], [open |-> open', last |-> last'])
    BY BarKeeps DEF Next
  <2>2. wait' = wait /\ keep' = keep
    BY DEF Next, Bar
  <2> QED
    BY <2>1, <2>2, ShownNewer
<1> QED
  BY <1>1, InvShownLast, InvHolds, PTL DEF Spec, ShownStays

\* No channel is created before bar 3 * Span + 2, as its second pivot is further from
\* the first than either looks, and confirmed late: so of a chart longer than ten
\* bars only one with Span 2 can have a channel whose average true range would
\* depend on bars to come (trend_channels.py:60, :562).
THEOREM OpensLate ==
  Spec => [](\A ch \in {open["down"], open["up"], last} :
               ch # Missing => ch.created >= 3 * Span + 2)
<1>1. PivotsAhead => \A ch \in {open["down"], open["up"], last} :
                       ch # Missing => ch.created >= 3 * Span + 2
  BY DEF PivotsAhead, AllAhead, Ahead, Soonest, Directions
<1> QED
  BY <1>1, AheadHolds, PTL

\* Neither direction is favoured: for every chart, and every rule without a
\* tolerance and a confirmation, the channel upside down breaks and obeys the
\* mirrored rule just when it does as it is (trend_channels.py:391, :556).
THEOREM AreasMirroredHolds == Spec => []AreasMirrored
BY InvAreasMirrored, InvHolds, AheadHolds, PTL
=============================================================================
