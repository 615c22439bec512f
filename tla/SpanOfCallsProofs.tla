------------------------- MODULE SpanOfCallsProofs -------------------------
(***************************************************************************)
(* The incremental window is the union of the trailing calls, and matches  *)
(* are recorded exactly at the starts of runs, for every window size,      *)
(* every thread and every rule set.                                        *)
(***************************************************************************)
EXTENDS SpanOfCalls, TLAPS

\* The calls of a thread are feature sets.
LEMMA CallFacts ==
    ASSUME TypeOK
    PROVE  /\ calls \in Seq(Call)
           /\ Len(calls) \in Nat
           /\ \A i \in 1 .. Len(calls) : calls[i] \in Call /\ i \in DOMAIN calls
  BY ThreadsAssumption DEF TypeOK

\* What the keys and the locations of a union are.
LEMMA UnionFacts ==
    ASSUME NEW lo, NEW hi
    PROVE  /\ UnionOf(lo, hi) = [f \in DOMAIN UnionOf(lo, hi) |-> UnionOf(lo, hi)[f]]
           /\ \A f : f \in DOMAIN UnionOf(lo, hi) <=> \E i \in lo .. hi : f \in DOMAIN calls[i]
           /\ \A f \in DOMAIN UnionOf(lo, hi) : \A l :
                l \in UnionOf(lo, hi)[f] <=> \E i \in lo .. hi : f \in DOMAIN calls[i] /\ l \in calls[i][f]
  BY DEF UnionOf

\* Appending a call to a window extends its union.
LEMMA AddIsUnion ==
    ASSUME TypeOK, NEW lo \in Nat, NEW hi \in Nat, lo <= hi + 1
    PROVE  Add(UnionOf(lo, hi), calls[hi + 1]) = UnionOf(lo, hi + 1)
<1> DEFINE F == UnionOf(lo, hi)
           G == UnionOf(lo, hi + 1)
           new == calls[hi + 1]
           A == Add(F, new)
<1>1. \A i : i \in lo .. hi + 1 <=> i \in lo .. hi \/ i = hi + 1
  OBVIOUS
<1>2. DOMAIN A = DOMAIN F \union DOMAIN new /\ A = [f \in DOMAIN A |-> A[f]]
  BY DEF Add
<1>3. ASSUME NEW f PROVE f \in DOMAIN G <=> f \in DOMAIN A
  BY <1>1, <1>2, UnionFacts
<1>4. ASSUME NEW f \in DOMAIN A, NEW l PROVE l \in G[f] <=> l \in A[f]
  <2>1. l \in A[f] <=> (f \in DOMAIN F /\ l \in F[f]) \/ (f \in DOMAIN new /\ l \in new[f])
    BY <1>2 DEF Add
  <2>2. l \in G[f] <=> \E i \in lo .. hi + 1 : f \in DOMAIN calls[i] /\ l \in calls[i][f]
    BY <1>3, UnionFacts
  <2>3. (f \in DOMAIN F /\ l \in F[f]) <=> \E i \in lo .. hi : f \in DOMAIN calls[i] /\ l \in calls[i][f]
    BY UnionFacts
  <2> QED
    BY <1>1, <2>1, <2>2, <2>3
<1>5. DOMAIN G = DOMAIN A
  BY <1>3
<1>6. \A f \in DOMAIN A : G[f] = A[f]
  BY <1>4
<1>7. G = [f \in DOMAIN G |-> G[f]]
  BY UnionFacts
<1> HIDE DEF F, G, A, new
<1>8. G = A
  BY <1>2, <1>5, <1>6, <1>7
<1> QED
  BY <1>8 DEF F, G, A, new

\* A full window: removing the oldest call and adding the new one gives the
\* union of the window that starts one call later.  A location that the oldest
\* call shares with another is the NoAddress of a global feature, which the
\* new call brings back.
LEMMA SlideIsUnion ==
    ASSUME TypeOK, NEW lo \in Nat, NEW hi \in Nat, 1 <= lo, lo <= hi, hi + 1 <= Len(calls)
    PROVE  Add(Remove(UnionOf(lo, hi), calls[lo]), calls[hi + 1]) = UnionOf(lo + 1, hi + 1)
<1> DEFINE F == UnionOf(lo, hi)
           old == calls[lo]
           new == calls[hi + 1]
           R == Remove(F, old)
           A == Add(R, new)
           G == UnionOf(lo + 1, hi + 1)
<1>1. \A i : i \in lo + 1 .. hi + 1 <=> (i \in lo .. hi /\ i # lo) \/ i = hi + 1
  OBVIOUS
<1>2. \A i \in lo .. hi + 1 : i \in 1 .. Len(calls) /\ i \in DOMAIN calls /\ calls[i] \in Call
  BY CallFacts
<1>3. old \in Call /\ new \in Call
  BY <1>2
<1>4. \A i \in lo + 1 .. hi + 1 : \A f \in DOMAIN calls[i] :
         f \in DOMAIN old => calls[i][f] \intersect old[f] \subseteq {NoAddress}
  <2> TAKE i \in lo + 1 .. hi + 1
  <2> TAKE f \in DOMAIN calls[i]
  <2>1. i \in DOMAIN calls /\ lo \in DOMAIN calls /\ i # lo /\ calls \in Threads
    BY <1>1, <1>2 DEF TypeOK
  <2> QED
    BY <2>1, OwnLocationsAssumption
<1>5. \A i \in lo .. hi + 1 : \A f \in DOMAIN calls[i] :
         NoAddress \in calls[i][f] => f \in DOMAIN new /\ NoAddress \in new[f]
  BY <1>2, <1>3, GlobalAssumption
<1>6. \A f : f \in DOMAIN F <=> \E i \in lo .. hi : f \in DOMAIN calls[i]
  BY UnionFacts
<1>7. \A f \in DOMAIN F : \A l :
         l \in F[f] <=> \E i \in lo .. hi : f \in DOMAIN calls[i] /\ l \in calls[i][f]
  BY UnionFacts
<1>8. \A f : f \in DOMAIN G <=> \E i \in lo + 1 .. hi + 1 : f \in DOMAIN calls[i]
  BY UnionFacts
<1>9. \A f \in DOMAIN G : \A l :
         l \in G[f] <=> \E i \in lo + 1 .. hi + 1 : f \in DOMAIN calls[i] /\ l \in calls[i][f]
  BY UnionFacts
<1>10. G = [f \in DOMAIN G |-> G[f]]
  BY UnionFacts
<1>11. \A i \in lo .. hi + 1 : \A f \in DOMAIN calls[i] : calls[i][f] # {}
  BY <1>2, FunctionAssumption
<1> HIDE DEF F, G
<1>12. DOMAIN R = {g \in DOMAIN F : g \notin Leaving(old) \/ F[g] \ old[g] # {}}
  BY DEF Remove
<1>13. \A f \in DOMAIN R : R[f] = IF f \in Leaving(old) THEN F[f] \ old[f] ELSE F[f]
  BY DEF Remove
<1>14. DOMAIN A = DOMAIN R \union DOMAIN new /\ A = [f \in DOMAIN A |-> A[f]]
  BY DEF Add
<1>15. \A f \in DOMAIN A : \A l :
          l \in A[f] <=> (f \in DOMAIN R /\ l \in R[f]) \/ (f \in DOMAIN new /\ l \in new[f])
  BY DEF Add
<1> HIDE DEF R, A
<1>16. ASSUME NEW f, f \in DOMAIN G PROVE f \in DOMAIN A
  <2>1. PICK i \in lo + 1 .. hi + 1 : f \in DOMAIN calls[i]
    BY <1>8, <1>16
  <2>2. CASE i = hi + 1
    BY <2>1, <2>2, <1>14 DEF new
  <2>3. CASE i # hi + 1
    <3>1. i \in lo .. hi /\ f \in DOMAIN F
      BY <2>1, <2>3, <1>1, <1>6
    <3>2. CASE f \notin Leaving(old)
      BY <3>1, <3>2, <1>12, <1>14
    <3>3. CASE f \in Leaving(old)
      <4>1. PICK l : l \in calls[i][f]
        BY <1>11, <2>1, <3>1
      <4>2. l \in F[f]
        BY <4>1, <1>7, <2>1, <3>1
      <4>3. CASE l \in old[f]
        <5>1. l = NoAddress
          BY <4>1, <4>3, <1>4, <2>1, <3>3 DEF Leaving
        <5> QED
          BY <5>1, <4>1, <1>5, <2>1, <3>1, <1>14
      <4>4. CASE l \notin old[f]
        BY <4>2, <4>4, <3>1, <1>12, <1>14
      <4> QED
        BY <4>3, <4>4
    <3> QED
      BY <3>2, <3>3
  <2> QED
    BY <2>2, <2>3
<1>17. ASSUME NEW f, f \in DOMAIN A PROVE f \in DOMAIN G
  <2>1. CASE f \in DOMAIN new
    BY <2>1, <1>8, <1>1 DEF new
  <2>2. CASE f \in DOMAIN R
    <3>1. f \in DOMAIN F
      BY <2>2, <1>12
    <3>2. CASE f \notin Leaving(old)
      <4>1. PICK i \in lo .. hi : f \in DOMAIN calls[i]
        BY <3>1, <1>6
      <4>2. CASE i # lo
        BY <4>1, <4>2, <1>1, <1>8
      <4>3. CASE i = lo
        <5>1. f \in DOMAIN old /\ old[f] = {NoAddress}
          BY <4>1, <4>3, <3>2 DEF Leaving, old
        <5>2. f \in DOMAIN new
          BY <5>1, <4>1, <4>3, <1>5 DEF old
        <5> QED
          BY <5>2, <2>1
      <4> QED
        BY <4>2, <4>3
    <3>3. CASE f \in Leaving(old)
      <4>1. PICK l : l \in F[f] /\ l \notin old[f]
        BY <2>2, <3>3, <1>12
      <4>2. PICK i \in lo .. hi : f \in DOMAIN calls[i] /\ l \in calls[i][f]
        BY <4>1, <3>1, <1>7
      <4>3. i # lo
        BY <4>1, <4>2 DEF old
      <4> QED
        BY <4>2, <4>3, <1>1, <1>8
    <3> QED
      BY <3>2, <3>3
  <2> QED
    BY <1>17, <1>14, <2>1, <2>2
<1>18. DOMAIN A = DOMAIN G
  BY <1>16, <1>17
<1>19. ASSUME NEW f \in DOMAIN G, NEW l \in G[f] PROVE l \in A[f]
  <2>1. PICK i \in lo + 1 .. hi + 1 : f \in DOMAIN calls[i] /\ l \in calls[i][f]
    BY <1>9
  <2>2. CASE i = hi + 1
    BY <2>1, <2>2, <1>15, <1>18 DEF new
  <2>3. CASE i # hi + 1
    <3>1. i \in lo .. hi /\ f \in DOMAIN F /\ l \in F[f]
      BY <2>1, <2>3, <1>1, <1>6, <1>7
    <3>2. CASE f \in Leaving(old) /\ l \in old[f]
      <4>1. l = NoAddress
        BY <2>1, <3>2, <1>4 DEF Leaving
      <4> QED
        BY <4>1, <2>1, <3>1, <1>5, <1>15, <1>18
    <3>3. CASE ~ (f \in Leaving(old) /\ l \in old[f])
      <4>1. f \in DOMAIN R
        BY <3>1, <3>3, <1>12
      <4>2. l \in R[f]
        BY <4>1, <3>1, <3>3, <1>13
      <4> QED
        BY <4>1, <4>2, <1>15, <1>18
    <3> QED
      BY <3>2, <3>3
  <2> QED
    BY <2>2, <2>3
<1>20. ASSUME NEW f \in DOMAIN G, NEW l \in A[f] PROVE l \in G[f]
  <2>1. CASE f \in DOMAIN new /\ l \in new[f]
    BY <2>1, <1>1, <1>9 DEF new
  <2>2. CASE f \in DOMAIN R /\ l \in R[f]
    <3>1. f \in DOMAIN F /\ l \in F[f]
      BY <2>2, <1>12, <1>13
    <3>2. PICK i \in lo .. hi : f \in DOMAIN calls[i] /\ l \in calls[i][f]
      BY <3>1, <1>7
    <3>3. CASE i # lo
      BY <3>2, <3>3, <1>1, <1>9
    <3>4. CASE i = lo
      <4>1. f \notin Leaving(old)
        BY <2>2, <3>2, <3>4, <1>13 DEF old
      <4>2. l = NoAddress
        BY <4>1, <3>2, <3>4 DEF Leaving, old
      <4>3. f \in DOMAIN new /\ l \in new[f]
        BY <4>2, <3>2, <1>5
      <4> QED
        BY <4>3, <2>1
    <3> QED
      BY <3>3, <3>4
  <2> QED
    BY <2>1, <2>2, <1>15, <1>18
<1>21. \A f \in DOMAIN G : A[f] = G[f]
  BY <1>19, <1>20
<1>22. A = G
  BY <1>10, <1>14, <1>18, <1>21
<1> QED
  BY <1>22 DEF A, R, F, G, old, new

\* How the start of the window moves.
LEMMA FirstFacts ==
    ASSUME TypeOK, WindowIsTrailing, n < Len(calls)
    PROVE  /\ n \in Nat /\ First(n) \in Nat /\ First(n) >= 1
           /\ IsFull => n >= SpanSize /\ First(n) <= n /\ First(n + 1) = First(n) + 1
           /\ ~ IsFull => n < SpanSize /\ First(n) = 1 /\ First(n + 1) = 1
  BY CallFacts, SpanSizeAssumption DEF TypeOK, WindowIsTrailing, First, IsFull

\* The next call, in the window: it still is the trailing window.
LEMMA SlideWindowTrails ==
    ASSUME TypeOK, WindowIsTrailing, Slide
    PROVE  /\ window' \in Seq(Call) /\ Len(window') <= SpanSize
           /\ WindowIsTrailing'
<1> DEFINE kept == IF IsFull THEN Tail(window) ELSE window
           new == calls[n + 1]
<1>1. n \in Nat /\ n < Len(calls) /\ n' = n + 1 /\ calls' = calls /\ new \in Call
  BY CallFacts DEF Slide, TypeOK
<1>2. window \in Seq(Call) /\ Len(window) \in Nat /\ Len(window) <= SpanSize
  BY DEF TypeOK
<1>3. IsFull => window # <<>>
  BY <1>2, SpanSizeAssumption DEF IsFull
<1>4. kept \in Seq(Call) /\ Len(kept) = (IF IsFull THEN Len(window) - 1 ELSE Len(window))
  BY <1>2, <1>3
<1>5. \A k \in 1 .. Len(kept) : kept[k] = IF IsFull THEN window[k + 1] ELSE window[k]
  BY <1>2, <1>3
<1>6. Len(kept) = n - First(n + 1) + 1
  BY <1>1, <1>4, FirstFacts DEF WindowIsTrailing
<1>7. \A k \in 1 .. Len(kept) : kept[k] = calls[First(n + 1) + k - 1]
  <2> TAKE k \in 1 .. Len(kept)
  <2>1. CASE IsFull
    <3>1. k + 1 \in 1 .. Len(window) /\ First(n) + (k + 1) - 1 = First(n + 1) + k - 1
      BY <2>1, <1>1, <1>2, <1>4, FirstFacts
    <3> QED
      BY <2>1, <3>1, <1>5 DEF WindowIsTrailing
  <2>2. CASE ~ IsFull
    <3>1. k \in 1 .. Len(window) /\ First(n) + k - 1 = First(n + 1) + k - 1
      BY <2>2, <1>1, <1>2, <1>4, FirstFacts
    <3> QED
      BY <2>2, <3>1, <1>5 DEF WindowIsTrailing
  <2> QED
    BY <2>1, <2>2
<1>8. window' = Append(kept, new)
  BY DEF Slide, SlideWindow
<1> HIDE DEF kept, new
<1>9. Len(window') = Len(kept) + 1 /\ window' \in Seq(Call)
  BY <1>1, <1>4, <1>8
<1>10. \A k \in 1 .. Len(kept) + 1 : window'[k] = IF k <= Len(kept) THEN kept[k] ELSE new
  BY <1>1, <1>4, <1>8
<1>11. First(n + 1) \in Nat /\ First(n + 1) <= n + 1
  BY <1>1, FirstFacts
<1>12. \A k \in 1 .. Len(window') : window'[k] = calls[First(n + 1) + k - 1]
  <2> TAKE k \in 1 .. Len(window')
  <2>1. CASE k <= Len(kept)
    BY <2>1, <1>1, <1>4, <1>7, <1>9, <1>10
  <2>2. CASE k > Len(kept)
    <3>1. k = Len(kept) + 1 /\ First(n + 1) + k - 1 = n + 1
      BY <2>2, <1>1, <1>4, <1>6, <1>9, <1>11
    <3> QED
      BY <2>2, <3>1, <1>9, <1>10 DEF new
  <2> QED
    BY <2>1, <2>2, <1>1, <1>4, <1>9
<1>13. Len(window') <= SpanSize
  BY <1>2, <1>4, <1>9, SpanSizeAssumption DEF IsFull
<1>14. Len(window') = (n + 1) - First(n + 1) + 1
  BY <1>1, <1>6, <1>9, <1>11
<1> QED
  BY <1>1, <1>9, <1>12, <1>13, <1>14 DEF WindowIsTrailing

\* The next call, in the union.
LEMMA SlideUnion ==
    ASSUME TypeOK, WindowIsTrailing, LiveUnion, Slide
    PROVE  current' = UnionOf(First(n + 1), n + 1)
<1>1. n \in Nat /\ n + 1 <= Len(calls) /\ n < Len(calls)
  BY CallFacts DEF Slide, TypeOK
<1>2. current' = SlideFeatures(calls[n + 1])
  BY DEF Slide
<1>3. CASE IsFull
  <2>1. Head(window) = calls[First(n)]
    <3>1. window \in Seq(Call) /\ Len(window) >= 1 /\ window # <<>>
      BY <1>3, SpanSizeAssumption DEF IsFull, TypeOK
    <3>2. window[1] = calls[First(n) + 1 - 1]
      BY <3>1 DEF WindowIsTrailing
    <3> QED
      BY <1>1, <3>1, <3>2, FirstFacts
  <2>2. current' = Add(Remove(UnionOf(First(n), n), calls[First(n)]), calls[n + 1])
    BY <1>2, <1>3, <2>1 DEF SlideFeatures, LiveUnion
  <2>3. First(n) \in Nat /\ 1 <= First(n) /\ First(n) <= n /\ First(n + 1) = First(n) + 1
    BY <1>1, <1>3, FirstFacts
  <2> QED
    BY <1>1, <2>2, <2>3, SlideIsUnion
<1>4. CASE ~ IsFull
  <2>1. current' = Add(UnionOf(First(n), n), calls[n + 1])
    BY <1>2, <1>4 DEF SlideFeatures, LiveUnion
  <2>2. First(n) = 1 /\ First(n + 1) = 1
    BY <1>1, <1>4, FirstFacts
  <2> QED
    BY <1>1, <2>1, <2>2, AddIsUnion
<1> QED
  BY <1>3, <1>4

\* A step leaves the matches of the spans passed before as they are.
LEMMA MatchedStable ==
    ASSUME ruleset' = ruleset, calls' = calls
    PROVE  /\ \A i : MatchedAt(i)' = MatchedAt(i)
           /\ \A i : Starts(i)' = Starts(i)
           /\ \A r : Deps(r)' = Deps(r)
<1>1. ASSUME NEW i PROVE MatchedAt(i)' = MatchedAt(i)
  BY DEF MatchedAt, Matched, UnionOf
<1>2. ASSUME NEW i PROVE Starts(i)' = Starts(i)
  BY <1>1 DEF Starts
<1>3. ASSUME NEW r PROVE Deps(r)' = Deps(r)
  BY DEF Deps
<1> QED
  BY <1>1, <1>2, <1>3

\* A new matcher satisfies the invariant.
LEMMA InitInv == Init => Inv
<1> SUFFICES ASSUME Init PROVE Inv
  OBVIOUS
<1>1. calls \in Seq(Call) /\ Len(calls) \in Nat
  BY ThreadsAssumption DEF Init
<1>2. TypeOK
  BY <1>1, SpanSizeAssumption DEF Init, TypeOK
<1>3. First(n) = 1
  BY SpanSizeAssumption DEF Init, First
<1>4. WindowIsTrailing
  BY <1>3 DEF Init, WindowIsTrailing
<1>5. LiveUnion
  <2>1. First(n) .. n = {}
    BY <1>3 DEF Init
  <2>2. UNION {DOMAIN calls[i] : i \in {}} = {}
    OBVIOUS
  <2>3. DOMAIN UnionOf(First(n), n) = {}
    BY <2>1, <2>2 DEF UnionOf
  <2>4. current = [f \in {} |-> {}]
    BY DEF Init, EmptySet
  <2> QED
    BY <2>3, <2>4, UnionFacts DEF LiveUnion
<1>6. last = MatchedAt(n)
  BY DEF Init, MatchedAt
<1>7. 1 .. Passed = {}
  BY DEF Init, Passed
<1> QED
  BY <1>2, <1>4, <1>5, <1>6, <1>7 DEF Init, Inv, RecordsStarts, RunIsRecorded

\* What Match records at the new call.
LEMMA MatchRecords ==
    ASSUME Inv, Match
    PROVE  /\ last' = MatchedAt(n + 1)
           /\ recorded' = recorded \union {<<r, n + 1>> : r \in
                 Starts(n + 1) \union (MatchedAt(n + 1) \intersect UNION {Deps(q) : q \in Starts(n + 1)})}
           /\ MatchedAt(n + 1) \subseteq Rule
<1>1. status = "matching" /\ Slide /\ n \in Nat
  BY DEF Match, Slide, Inv, TypeOK
<1>2. current' = UnionOf(First(n + 1), n + 1)
  BY <1>1, SlideUnion DEF Inv
<1>3. Matched(current', n + 1) = MatchedAt(n + 1)
  BY <1>1, <1>2 DEF MatchedAt
<1>4. last = MatchedAt(n)
  BY <1>1 DEF Inv
<1>5. Starts(n + 1) = MatchedAt(n + 1) \ last
  <2>1. \A i : Starts(i) = MatchedAt(i) \ MatchedAt(i - 1)
    BY DEF Starts
  <2>2. Starts(n + 1) = MatchedAt(n + 1) \ MatchedAt((n + 1) - 1)
    BY <2>1
  <2>3. (n + 1) - 1 = n
    BY <1>1
  <2> QED
    BY <1>4, <2>2, <2>3
<1> DEFINE now == MatchedAt(n + 1)
           deps == UNION {Deps(q) : q \in Starts(n + 1)}
<1>6. Suppressed(now) = last \ deps
  BY <1>5 DEF Suppressed
<1> HIDE DEF now, deps
<1>7. recorded' = recorded \union {<<r, n + 1>> : r \in now \ Suppressed(now)} /\ last' = now
  BY <1>3 DEF Match, Remember, now
<1>8. now \ Suppressed(now) = Starts(n + 1) \union (now \intersect deps)
  BY <1>5, <1>6 DEF now
<1>9. now \subseteq Rule
  BY <1>1 DEF now, MatchedAt, Matched
<1> QED
  BY <1>7, <1>8, <1>9 DEF now, deps

\* Every call preserves the invariant.
LEMMA MatchInv == Inv /\ Match => Inv'
<1> SUFFICES ASSUME Inv, Match PROVE Inv'
  OBVIOUS
<1> DEFINE m == n + 1
           new == Starts(m) \union (MatchedAt(m) \intersect UNION {Deps(q) : q \in Starts(m)})
<1>1. /\ TypeOK /\ WindowIsTrailing /\ LiveUnion /\ RecordsStarts /\ RunIsRecorded
      /\ last = MatchedAt(n) /\ Slide
  BY DEF Inv, Match, Slide
<1>2. /\ status = "matching" /\ status' = status /\ calls' = calls /\ ruleset' = ruleset
      /\ n' = m /\ n \in Nat /\ n < Len(calls) /\ Len(calls) \in Nat
  BY <1>1, CallFacts DEF Match, Slide, TypeOK
<1>3. last' = MatchedAt(m) /\ recorded' = recorded \union {<<r, m>> : r \in new} /\ MatchedAt(m) \subseteq Rule
  BY MatchRecords
<1>4. new \subseteq MatchedAt(m)
  BY DEF Starts
<1>5. recorded \subseteq Rule \X (1 .. n)
  BY <1>1 DEF TypeOK
<1>6. Passed = n /\ Passed' = m
  BY <1>2 DEF Passed
<1>7. \A i : MatchedAt(i)' = MatchedAt(i) /\ Starts(i)' = Starts(i)
  BY <1>2, MatchedStable
<1> HIDE DEF new
<1>8. TypeOK'
  <2>1. recorded' \subseteq Rule \X (1 .. m)
    BY <1>2, <1>3, <1>4, <1>5
  <2>2. last' \subseteq Rule
    BY <1>3
  <2>3. window' \in Seq(Call) /\ Len(window') <= SpanSize
    BY <1>1, SlideWindowTrails
  <2> QED
    BY <1>1, <1>2, <2>1, <2>2, <2>3 DEF TypeOK
<1>9. WindowIsTrailing'
  BY <1>1, SlideWindowTrails
<1>10. LiveUnion'
  <2>1. current' = UnionOf(First(m), m)
    BY <1>1, SlideUnion
  <2> QED
    BY <1>2, <2>1 DEF LiveUnion, UnionOf
<1>11. (last = MatchedAt(n))'
  BY <1>2, <1>3, <1>7
<1>12. ASSUME NEW i \in Nat, i = m PROVE RecordedAt(i)' = new
  <2>1. \A r : <<r, i>> \in recorded' <=> r \in new
    BY <1>2, <1>3, <1>5, <1>12
  <2>2. new \subseteq Rule
    BY <1>3, <1>4
  <2>3. RecordedAt(i)' = {r \in Rule : <<r, i>> \in recorded'}
    BY DEF RecordedAt
  <2> QED
    BY <2>1, <2>2, <2>3
<1>13. \A i \in 1 .. n : RecordedAt(i)' = RecordedAt(i)
  <2> TAKE i \in 1 .. n
  <2>1. \A r : <<r, i>> \in recorded' <=> <<r, i>> \in recorded
    BY <1>2, <1>3
  <2> QED
    BY <2>1 DEF RecordedAt
<1>14. RecordsStarts'
  <2>1. \A i \in 1 .. m : RecordedAt(i)' =
           Starts(i) \union (MatchedAt(i) \intersect UNION {Deps(q) : q \in Starts(i)})
    <3> TAKE i \in 1 .. m
    <3>1. CASE i = m
      BY <3>1, <1>12 DEF new
    <3>2. CASE i # m
      BY <3>2, <1>1, <1>2, <1>6, <1>13 DEF RecordsStarts
    <3> QED
      BY <3>1, <3>2
  <2>2. \A r : Deps(r)' = Deps(r)
    BY <1>2, MatchedStable
  <2> QED
    BY <1>6, <1>7, <2>1, <2>2 DEF RecordsStarts
<1>15. RunIsRecorded'
  <2>1. ASSUME NEW i \in 1 .. m, NEW r \in MatchedAt(i)
        PROVE  \E j \in 1 .. i : <<r, j>> \in recorded' /\ \A k \in j .. i : r \in MatchedAt(k)
    <3>1. CASE i # m
      <4>1. i \in 1 .. n
        BY <3>1, <1>2
      <4>2. PICK j \in 1 .. i : <<r, j>> \in recorded /\ \A k \in j .. i : r \in MatchedAt(k)
        BY <4>1, <1>1, <1>6 DEF RunIsRecorded
      <4> QED
        BY <4>2, <1>3
    <3>2. CASE i = m /\ r \in new
      <4>1. m \in 1 .. i /\ <<r, m>> \in recorded' /\ m .. i = {m}
        BY <3>2, <1>2, <1>3
      <4> QED
        BY <3>2, <4>1
    <3>3. CASE i = m /\ r \notin new
      <4>1. r \in MatchedAt(n)
        <5>1. m - 1 = n
          BY <1>2
        <5> QED
          BY <3>3, <5>1 DEF new, Starts
      <4>2. n \in 1 .. n
        BY <4>1, <1>2 DEF MatchedAt
      <4>3. PICK j \in 1 .. n : <<r, j>> \in recorded /\ \A k \in j .. n : r \in MatchedAt(k)
        BY <4>1, <4>2, <1>1, <1>6 DEF RunIsRecorded
      <4>4. \A k \in j .. i : r \in MatchedAt(k)
        <5> TAKE k \in j .. i
        <5>1. k \in j .. n \/ k = m
          BY <3>3, <1>2
        <5> QED
          BY <5>1, <4>3, <3>3
      <4> QED
        BY <4>3, <4>4, <3>3, <1>2, <1>3
    <3> QED
      BY <3>1, <3>2, <3>3
  <2> QED
    BY <2>1, <1>6, <1>7 DEF RunIsRecorded
<1> QED
  BY <1>2, <1>8, <1>9, <1>10, <1>11, <1>14, <1>15 DEF Inv

\* So does a call on which the evaluator fails: it records nothing.
LEMMA FailInv == Inv /\ Fail => Inv'
<1> SUFFICES ASSUME Inv, Fail PROVE Inv'
  OBVIOUS
<1>1. /\ TypeOK /\ WindowIsTrailing /\ LiveUnion /\ RecordsStarts /\ RunIsRecorded /\ Slide
  BY DEF Inv, Fail, Slide
<1>2. /\ status = "matching" /\ status' = "error" /\ calls' = calls /\ ruleset' = ruleset
      /\ n' = n + 1 /\ n \in Nat /\ n < Len(calls) /\ Len(calls) \in Nat
      /\ last' = last /\ recorded' = recorded
  BY <1>1, CallFacts DEF Fail, Slide, TypeOK
<1>3. Passed = n /\ Passed' = n
  BY <1>2 DEF Passed
<1>4. \A i : MatchedAt(i)' = MatchedAt(i) /\ Starts(i)' = Starts(i)
  BY <1>2, MatchedStable
<1>5. \A r : Deps(r)' = Deps(r)
  BY <1>2, MatchedStable
<1>6. \A i : RecordedAt(i)' = RecordedAt(i)
  BY <1>2 DEF RecordedAt
<1>7. TypeOK'
  <2>1. recorded' \subseteq Rule \X (1 .. n')
    BY <1>1, <1>2 DEF TypeOK
  <2>2. window' \in Seq(Call) /\ Len(window') <= SpanSize
    BY <1>1, SlideWindowTrails
  <2> QED
    BY <1>1, <1>2, <2>1, <2>2 DEF TypeOK
<1>8. WindowIsTrailing'
  BY <1>1, SlideWindowTrails
<1>9. LiveUnion'
  <2>1. current' = UnionOf(First(n + 1), n + 1)
    BY <1>1, SlideUnion
  <2> QED
    BY <1>2, <2>1 DEF LiveUnion, UnionOf
<1>10. n' >= 1 /\ (RecordedAt(n) = {})'
  <2>1. \A r : <<r, n + 1>> \notin recorded
    BY <1>1, <1>2 DEF TypeOK
  <2> QED
    BY <1>2, <2>1 DEF RecordedAt
<1>11. RecordsStarts'
  BY <1>1, <1>3, <1>4, <1>5, <1>6 DEF RecordsStarts
<1>12. RunIsRecorded'
  BY <1>1, <1>2, <1>3, <1>4 DEF RunIsRecorded
<1> QED
  BY <1>2, <1>7, <1>8, <1>9, <1>10, <1>11, <1>12 DEF Inv

\* The end of the thread changes the status alone.
LEMMA FinishInv == Inv /\ Finish => Inv'
<1> SUFFICES ASSUME Inv, Finish PROVE Inv'
  OBVIOUS
<1>1. /\ status = "matching" /\ status' = "done" /\ calls' = calls /\ ruleset' = ruleset
      /\ n' = n /\ window' = window /\ current' = current /\ last' = last /\ recorded' = recorded
  BY DEF Finish
<1>2. Passed' = Passed
  BY <1>1 DEF Passed
<1>3. \A i : MatchedAt(i)' = MatchedAt(i) /\ Starts(i)' = Starts(i)
  BY <1>1, MatchedStable
<1>4. \A r : Deps(r)' = Deps(r)
  BY <1>1, MatchedStable
<1>5. \A i : RecordedAt(i)' = RecordedAt(i)
  BY <1>1 DEF RecordedAt
<1>6. TypeOK' /\ WindowIsTrailing' /\ LiveUnion'
  BY <1>1 DEF Inv, TypeOK, WindowIsTrailing, LiveUnion, UnionOf
<1>7. RecordsStarts'
  BY <1>2, <1>3, <1>4, <1>5 DEF Inv, RecordsStarts
<1>8. RunIsRecorded'
  BY <1>1, <1>2, <1>3 DEF Inv, RunIsRecorded
<1> QED
  BY <1>1, <1>3, <1>6, <1>7, <1>8 DEF Inv

\* A stuttering step changes nothing.
LEMMA StutterInv == Inv /\ UNCHANGED vars => Inv'
<1> SUFFICES ASSUME Inv, UNCHANGED vars PROVE Inv'
  OBVIOUS
<1>1. /\ status' = status /\ calls' = calls /\ ruleset' = ruleset
      /\ n' = n /\ window' = window /\ current' = current /\ last' = last /\ recorded' = recorded
  BY DEF vars
<1>2. Passed' = Passed
  BY <1>1 DEF Passed
<1>3. \A i : MatchedAt(i)' = MatchedAt(i) /\ Starts(i)' = Starts(i)
  BY <1>1, MatchedStable
<1>4. \A r : Deps(r)' = Deps(r)
  BY <1>1, MatchedStable
<1>5. \A i : RecordedAt(i)' = RecordedAt(i)
  BY <1>1 DEF RecordedAt
<1>6. TypeOK' /\ WindowIsTrailing' /\ LiveUnion'
  BY <1>1 DEF Inv, TypeOK, WindowIsTrailing, LiveUnion, UnionOf
<1>7. RecordsStarts'
  BY <1>2, <1>3, <1>4, <1>5 DEF Inv, RecordsStarts
<1>8. RunIsRecorded'
  BY <1>1, <1>2, <1>3 DEF Inv, RunIsRecorded
<1>9. (status = "error" => n >= 1 /\ RecordedAt(n) = {})'
  BY <1>1 DEF Inv, RecordedAt
<1> QED
  BY <1>1, <1>3, <1>6, <1>7, <1>8, <1>9 DEF Inv

\* The inductive invariant holds in every reachable state of the matcher.
THEOREM Invariance == Spec => []Inv
<1>1. Init => Inv
  BY InitInv
<1>2. Inv /\ [Next]_vars => Inv'
  BY MatchInv, FailInv, FinishInv, StutterInv DEF Next, Returned
<1> QED
  BY <1>1, <1>2, PTL DEF Spec

\* The matcher's state is well typed, and the window holds at most SPAN_SIZE
\* calls.
THEOREM TypeCorrect == Spec => []TypeOK
<1>1. Inv => TypeOK
  BY DEF Inv
<1> QED
  BY <1>1, Invariance, PTL

\* SpanOfCallsMatcher::next keeps current_features equal to the union of the
\* calls in the window, for every window size and every thread.
THEOREM WindowIsLive == Spec => []LiveUnion
<1>1. Inv => LiveUnion
  BY DEF Inv
<1> QED
  BY <1>1, Invariance, PTL

\* Suppression records exactly the starts of runs and the dependencies of
\* rules that start.
THEOREM StartsAreRecorded == Spec => []RecordsStarts
<1>1. Inv => RecordsStarts
  BY DEF Inv
<1> QED
  BY <1>1, Invariance, PTL

\* Suppression never hides the only record of a run of matches.
THEOREM RunsAreRecorded == Spec => []RunIsRecorded
<1>1. Inv => RunIsRecorded
  BY DEF Inv
<1> QED
  BY <1>1, Invariance, PTL
=============================================================================
