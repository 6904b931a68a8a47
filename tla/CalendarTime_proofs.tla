------------------------- MODULE CalendarTime_proofs -------------------------
(****************************************************************************)
(* What the recursive functions of CalendarTime compute, for every calendar *)
(* and every time: the search for an allowed day ends, with the nearest     *)
(* one; an offset of n days passes n allowed days; the hours to wait are    *)
(* the least; rows of pipelines are rows.                                   *)
(*                                                                          *)
(* Induction here is about sets: a set of naturals has a least member       *)
(* (LeastOfNat), so one that has 0 and every successor has them all         *)
(* (NatCovered).  A recursive function f is a CHOOSE; that one satisfies    *)
(* its equation is shown by a function that does, which is then f.          *)
(****************************************************************************)
EXTENDS CalendarTime, FiniteSets, FiniteSetTheorems, NaturalsInduction,
        WellFoundedInduction, TLAPS

-----------------------------------------------------------------------------
(* Least and greatest members, and induction. *)

NatLess == {ss \in Nat \X Nat : ss[1] < ss[2]}

LEMMA NatWellFounded == IsWellFoundedOn(NatLess, Nat)
  BY NatLessThanWellFounded DEF OpToRel, NatLess

LEMMA LeastOfNat ==
  ASSUME NEW S \in SUBSET Nat, S # {}
  PROVE  \E m \in S : \A n \in S : m <= n
<1>1. PICK x \in S : \A y \in S : <<y, x>> \notin NatLess
  BY WFMin, NatWellFounded
<1>2. \A y \in S : y < x => <<y, x>> \in NatLess
  BY DEF NatLess
<1>3. \A y \in S : ~(y < x)
  BY <1>1, <1>2
<1> QED BY <1>3

LEMMA NatCovered ==
  ASSUME NEW S, 0 \in S, \A n \in Nat : n \in S => n + 1 \in S
  PROVE  Nat \subseteq S
<1>1. SUFFICES ASSUME Nat \ S # {} PROVE FALSE
  OBVIOUS
<1>2. PICK m \in Nat \ S : \A n \in Nat \ S : m <= n
  BY <1>1, LeastOfNat
<1>3. m # 0 /\ m - 1 \in Nat /\ m - 1 \in S
  BY <1>2
<1>4. (m - 1) + 1 = m
  BY <1>2
<1> QED BY <1>2, <1>3, <1>4

(* A family of subsets of a finite set that has the empty one and grows by  *)
(* any element has the set itself.                                          *)
LEMMA FiniteCovered ==
  ASSUME NEW S, IsFiniteSet(S), NEW F, {} \in F,
         \A T \in SUBSET S : \A x \in S : T \in F => T \cup {x} \in F
  PROVE  S \in F
<1> DEFINE Out == (SUBSET S) \ F
<1>1. SUFFICES ASSUME Out # {} PROVE FALSE
  OBVIOUS
<1>2. /\ IsWellFoundedOn(StrictSubsetOrdering(S), SUBSET S)
  BY FS_StrictSubsetOrderingWellFounded, FS_FiniteSubsetsOfFinite
<1>3. PICK T \in Out : \A U \in Out : <<U, T>> \notin StrictSubsetOrdering(S)
  <2> HIDE DEF Out
  <2>1. Out \subseteq SUBSET S
    BY DEF Out
  <2> QED BY <1>1, <1>2, <2>1, WFMin
<1>4. PICK x : x \in T
  <2>1. T # {}
    BY <1>3
  <2> QED BY <2>1
<1>5. T \ {x} \in SUBSET S /\ (T \ {x}) \cup {x} = T
  BY <1>4
<1>6. T \ {x} \in Out
  BY <1>4, <1>5
<1>7. <<T \ {x}, T>> \in StrictSubsetOrdering(S)
  BY <1>4, <1>5 DEF StrictSubsetOrdering
<1> QED BY <1>3, <1>6, <1>7

LEMMA GreatestExists ==
  ASSUME NEW S \in SUBSET Int, IsFiniteSet(S), S # {}
  PROVE  \E m \in S : \A n \in S : n <= m
<1> DEFINE Topped == {T \in SUBSET S : T # {} => \E m \in T : \A n \in T : n <= m}
<1>1. {} \in Topped
  OBVIOUS
<1>2. ASSUME NEW T \in SUBSET S, NEW x \in S, T \in Topped
      PROVE  T \cup {x} \in Topped
  <2>1. CASE T = {}
    <3>1. x \in T \cup {x} /\ \A n \in T \cup {x} : n <= x
      BY <2>1
    <3> QED BY <3>1
  <2>2. CASE T # {}
    <3>1. PICK m \in T : \A n \in T : n <= m
      BY <1>2, <2>2
    <3>2. \E k \in T \cup {x} : \A n \in T \cup {x} : n <= k
      <4>1. CASE x <= m
        BY <3>1, <4>1
      <4>2. CASE ~(x <= m)
        <5>1. \A n \in T \cup {x} : n <= x
          BY <3>1, <4>2
        <5> QED BY <5>1
      <4> QED BY <4>1, <4>2
    <3> QED BY <3>2
  <2> QED BY <2>1, <2>2
<1>3. S \in Topped
  <2> HIDE DEF Topped
  <2> QED BY <1>1, <1>2, FiniteCovered
<1> QED BY <1>3

LEMMA GreatestIs ==
  ASSUME NEW S, NEW m \in Int, S \subseteq Int, m \in S, \A n \in S : n <= m
  PROVE  Greatest(S) = m
<1>1. \E k \in S : \A n \in S : n <= k
  OBVIOUS
<1>2. Greatest(S) \in S /\ \A n \in S : n <= Greatest(S)
  BY <1>1 DEF Greatest
<1>3. Greatest(S) \in Int /\ m <= Greatest(S) /\ Greatest(S) <= m
  BY <1>2
<1> QED BY <1>3

LEMMA LeastIs ==
  ASSUME NEW S, NEW m \in Int, S \subseteq Int, m \in S, \A n \in S : m <= n
  PROVE  Least(S) = m
<1>1. \E k \in S : \A n \in S : k <= n
  OBVIOUS
<1>2. Least(S) \in S /\ \A n \in S : Least(S) <= n
  BY <1>1 DEF Least
<1>3. Least(S) \in Int /\ m <= Least(S) /\ Least(S) <= m
  BY <1>2
<1> QED BY <1>3

(* A sequence of integers in which each follows from its number and the one *)
(* before: the loops of the code.                                           *)
Upto(x0, next, n) ==
  {h \in [0 .. n -> Int] : h[0] = x0 /\ \A i \in 0 .. n - 1 : h[i + 1] = next[i + 1][h[i]]}

LEMMA UptoExists ==
  ASSUME NEW x0 \in Int, NEW next \in [Nat -> [Int -> Int]], NEW n \in Nat
  PROVE  \E h : h \in Upto(x0, next, n)
<1> DEFINE Begun == {m \in Nat : \E h : h \in Upto(x0, next, m)}
<1>1. 0 \in Begun
  <2>1. [i \in 0 .. 0 |-> x0] \in Upto(x0, next, 0)
    BY DEF Upto
  <2> QED BY <2>1
<1>2. ASSUME NEW m \in Nat, m \in Begun PROVE m + 1 \in Begun
  <2>1. PICK h : h \in Upto(x0, next, m)
    BY <1>2
  <2> DEFINE k == [i \in 0 .. m + 1 |-> IF i = m + 1 THEN next[m + 1][h[m]] ELSE h[i]]
  <2>2. k \in [0 .. m + 1 -> Int] /\ k[0] = x0
    BY <2>1 DEF Upto
  <2>3. ASSUME NEW i \in 0 .. (m + 1) - 1 PROVE k[i + 1] = next[i + 1][k[i]]
    <3>1. CASE i = m
      BY <3>1
    <3>2. CASE i # m
      <4>1. i \in 0 .. m - 1
        BY <3>2
      <4> QED BY <2>1, <4>1 DEF Upto
    <3> QED BY <3>1, <3>2
  <2>4. k \in Upto(x0, next, m + 1)
    <3> HIDE DEF k
    <3> QED BY <2>2, <2>3 DEF Upto
  <2>5. \E l : l \in Upto(x0, next, m + 1)
    BY <2>4
  <2> QED BY <2>5
<1>3. Nat \subseteq Begun
  <2> HIDE DEF Begun
  <2> QED BY <1>1, <1>2, NatCovered
<1> QED BY <1>3

LEMMA UptoUnique ==
  ASSUME NEW x0 \in Int, NEW next \in [Nat -> [Int -> Int]], NEW n \in Nat, NEW m \in Nat,
         NEW h \in Upto(x0, next, n), NEW k \in Upto(x0, next, m)
  PROVE  \A i \in Nat : i <= n /\ i <= m => h[i] = k[i]
<1> DEFINE Same == {i \in Nat : i <= n /\ i <= m => h[i] = k[i]}
<1>1. 0 \in Same
  BY DEF Upto
<1>2. ASSUME NEW i \in Nat, i \in Same PROVE i + 1 \in Same
  <2>1. SUFFICES ASSUME i + 1 <= n, i + 1 <= m PROVE h[i + 1] = k[i + 1]
    OBVIOUS
  <2>2. i \in 0 .. n - 1 /\ i \in 0 .. m - 1 /\ h[i] = k[i]
    BY <1>2, <2>1
  <2> QED BY <2>2 DEF Upto
<1>3. Nat \subseteq Same
  <2> HIDE DEF Same
  <2> QED BY <1>1, <1>2, NatCovered
<1> QED BY <1>3

LEMMA IterationExists ==
  ASSUME NEW x0 \in Int, NEW next \in [Nat -> [Int -> Int]]
  PROVE  \E g \in [Nat -> Int] :
           g[0] = x0 /\ \A n \in Nat : g[n + 1] = next[n + 1][g[n]]
<1> DEFINE some(n) == CHOOSE h : h \in Upto(x0, next, n)
           g == [n \in Nat |-> some(n)[n]]
<1>1. ASSUME NEW n \in Nat PROVE some(n) \in Upto(x0, next, n)
  BY UptoExists
<1>2. \A n \in Nat : g[n] = some(n)[n]
  OBVIOUS
<1>3. \A n \in Nat : some(n)[n] \in Int
  <2> HIDE DEF some
  <2> QED BY <1>1 DEF Upto
<1>4. g \in [Nat -> Int]
  <2> HIDE DEF some
  <2> QED BY <1>3
<1> HIDE DEF g, some
<1>5. g[0] = x0
  BY <1>1, <1>2 DEF Upto
<1>6. ASSUME NEW n \in Nat PROVE g[n + 1] = next[n + 1][g[n]]
  <2>1. n + 1 \in Nat /\ n \in 0 .. (n + 1) - 1 /\ n <= n + 1
    OBVIOUS
  <2>2. some(n + 1) \in Upto(x0, next, n + 1) /\ some(n) \in Upto(x0, next, n)
    BY <1>1, <2>1
  <2>3. some(n)[n] = some(n + 1)[n]
    BY <2>1, <2>2, UptoUnique
  <2>4. some(n + 1)[n + 1] = next[n + 1][some(n + 1)[n]]
    BY <2>1, <2>2 DEF Upto
  <2> QED BY <1>2, <2>1, <2>3, <2>4
<1> QED BY <1>4, <1>5, <1>6

-----------------------------------------------------------------------------
(* Days that are allowed. *)

IsCalendar(cal) ==
  /\ cal.weekdays \subseteq [from : 0 .. 6, to : 0 .. 6]
  /\ cal.skipDays \subseteq Nat /\ IsFiniteSet(cal.skipDays)
  /\ Searchable(cal)

Empty(cal) == cal.weekdays = {} /\ cal.skipDays = {}

(* Of one weekday in n + 1 weeks, n days to skip leave one. *)
LEMMA SkippedLeavesOne ==
  ASSUME NEW skip, IsFiniteSet(skip), NEW d \in Int, NEW week \in {7, -7}
  PROVE  \E i \in 0 .. Cardinality(skip) : d + week * i \notin skip
<1> DEFINE n == Cardinality(skip)
<1>1. n \in Nat
  BY FS_CardinalityType
<1>2. SUFFICES ASSUME \A i \in 0 .. n : d + week * i \in skip PROVE FALSE
  OBVIOUS
<1> DEFINE f == [i \in 0 .. n |-> d + week * i]
<1>3. IsFiniteSet(0 .. n) /\ Cardinality(0 .. n) = n + 1
  BY <1>1, FS_Interval
<1>4. f \in [0 .. n -> skip]
  BY <1>2
<1>5. \A i, j \in 0 .. n : i # j => f[i] # f[j]
  BY <1>1
<1>6. Cardinality(skip) < Cardinality(0 .. n)
  BY <1>1, <1>3
<1>7. \E i, j \in 0 .. n : i # j /\ f[i] = f[j]
  <2> HIDE DEF f
  <2> QED BY <1>3, <1>4, <1>6, FS_PigeonHole
<1> QED BY <1>5, <1>7

(* The search for a day ends: the next one, and the last one, is at most    *)
(* one week per day to skip away, and one more.                             *)
LEMMA AllowedAhead ==
  ASSUME NEW cal, IsCalendar(cal), ~Empty(cal), NEW d \in Int
  PROVE  \E k \in 0 .. 7 * Cardinality(cal.skipDays) + 6 : Allowed(cal, d + k)
<1>1. PICK range \in cal.weekdays : range.from <= range.to
  BY DEF IsCalendar, Searchable, Empty
<1>2. range.from \in 0 .. 6 /\ range.to \in 0 .. 6
  BY <1>1 DEF IsCalendar
<1> DEFINE w == range.from
           n == Cardinality(cal.skipDays)
<1>3. n \in Nat
  BY FS_CardinalityType DEF IsCalendar
<1>4. PICK r \in 0 .. 6 : (d + r) % 7 = w
  <2> DEFINE r == (w - (d % 7)) % 7
  <2>1. r \in 0 .. 6 /\ (d + r) % 7 = w
    BY <1>2
  <2> HIDE DEF r, w
  <2> QED BY <2>1
<1>5. PICK i \in 0 .. n : (d + r) + 7 * i \notin cal.skipDays
  <2>1. d + r \in Int /\ IsFiniteSet(cal.skipDays)
    BY DEF IsCalendar
  <2> QED BY <2>1, SkippedLeavesOne
<1>6. ((d + r) + 7 * i) % 7 = w
  BY <1>2, <1>3, <1>4
<1>7. Allowed(cal, (d + r) + 7 * i)
  BY <1>1, <1>2, <1>5, <1>6 DEF Allowed
<1>8. r + 7 * i \in 0 .. 7 * n + 6 /\ (d + r) + 7 * i = d + (r + 7 * i)
  BY <1>3
<1> QED BY <1>7, <1>8

LEMMA AllowedBehind ==
  ASSUME NEW cal, IsCalendar(cal), ~Empty(cal), NEW d \in Int
  PROVE  \E k \in 0 .. 7 * Cardinality(cal.skipDays) + 6 : Allowed(cal, d - k)
<1>1. PICK range \in cal.weekdays : range.from <= range.to
  BY DEF IsCalendar, Searchable, Empty
<1>2. range.from \in 0 .. 6 /\ range.to \in 0 .. 6
  BY <1>1 DEF IsCalendar
<1> DEFINE w == range.from
           n == Cardinality(cal.skipDays)
<1>3. n \in Nat
  BY FS_CardinalityType DEF IsCalendar
<1>4. PICK r \in 0 .. 6 : (d - r) % 7 = w
  <2> DEFINE r == IF w <= (d % 7) THEN (d % 7) - w ELSE (d % 7) - w + 7
  <2>1. r \in 0 .. 6 /\ (d - r) % 7 = w
    <3>1. d = 7 * (d \div 7) + (d % 7) /\ d % 7 \in 0 .. 6 /\ d \div 7 \in Int
      OBVIOUS
    <3>2. \A q \in Int : (7 * q + w) % 7 = w
      BY <1>2
    <3>3. d - r = 7 * (d \div 7) + w \/ d - r = 7 * (d \div 7 - 1) + w
      BY <1>2, <3>1
    <3> QED BY <1>2, <3>1, <3>2, <3>3
  <2> HIDE DEF r, w
  <2> QED BY <2>1
<1>5. PICK i \in 0 .. n : (d - r) + (-7) * i \notin cal.skipDays
  <2>1. d - r \in Int /\ IsFiniteSet(cal.skipDays)
    BY DEF IsCalendar
  <2> QED BY <2>1, SkippedLeavesOne
<1>6. ((d - r) + (-7) * i) % 7 = w
  BY <1>2, <1>3, <1>4
<1>7. Allowed(cal, (d - r) + (-7) * i)
  BY <1>1, <1>2, <1>5, <1>6 DEF Allowed
<1>8. r + 7 * i \in 0 .. 7 * n + 6 /\ (d - r) + (-7) * i = d - (r + 7 * i)
  BY <1>3
<1> QED BY <1>7, <1>8

-----------------------------------------------------------------------------
(* The search. *)

Steps == {1, -1}

LEMMA DayShift ==
  ASSUME NEW t \in Int, NEW n \in Int
  PROVE  /\ Day(t) \in Int /\ Day(t + 24 * n) = Day(t) + n
         /\ Hour(t) \in 0 .. 23 /\ Hour(t + 24 * n) = Hour(t) /\ t = 24 * Day(t) + Hour(t)
  BY DEF Day, Hour

(* Steps to the nearest day that is allowed. *)
Distance(cal, d, step, k) ==
  /\ k \in Nat /\ Allowed(cal, d + step * k)
  /\ \A j \in 0 .. k - 1 : ~Allowed(cal, d + step * j)

LEMMA DistanceExists ==
  ASSUME NEW cal, IsCalendar(cal), ~Empty(cal), NEW d \in Int, NEW step \in Steps
  PROVE  \E k : Distance(cal, d, step, k) /\ k <= 7 * Cardinality(cal.skipDays) + 6
<1> DEFINE S == {k \in Nat : Allowed(cal, d + step * k)}
           bound == 7 * Cardinality(cal.skipDays) + 6
<1>1. Cardinality(cal.skipDays) \in Nat
  BY FS_CardinalityType DEF IsCalendar
<1>2. PICK k \in 0 .. bound : Allowed(cal, d + step * k)
  <2>1. CASE step = 1
    <3>1. PICK k \in 0 .. bound : Allowed(cal, d + k)
      BY AllowedAhead
    <3>2. d + k = d + step * k
      BY <1>1, <2>1
    <3> QED BY <3>1, <3>2
  <2>2. CASE step = -1
    <3>1. PICK k \in 0 .. bound : Allowed(cal, d - k)
      BY AllowedBehind
    <3>2. d - k = d + step * k
      BY <1>1, <2>2
    <3> QED BY <3>1, <3>2
  <2> QED BY <2>1, <2>2 DEF Steps
<1>3. k \in S
  BY <1>1, <1>2
<1>4. PICK m \in S : \A n \in S : m <= n
  <2> HIDE DEF S
  <2>1. S \in SUBSET Nat /\ S # {}
    BY <1>3 DEF S
  <2> QED BY <2>1, LeastOfNat
<1>5. Distance(cal, d, step, m)
  BY <1>4 DEF Distance
<1> QED BY <1>1, <1>2, <1>3, <1>4, <1>5

LEMMA DistanceUnique ==
  ASSUME NEW cal, NEW d \in Int, NEW step \in Steps, NEW k, NEW m,
         Distance(cal, d, step, k), Distance(cal, d, step, m)
  PROVE  k = m
  BY DEF Distance

LEMMA DistanceStep ==
  ASSUME NEW cal, NEW d \in Int, NEW step \in Steps, NEW k
  PROVE  /\ Distance(cal, d, step, 0) <=> Allowed(cal, d)
         /\ k \in Nat => (Distance(cal, d, step, k + 1)
                            <=> ~Allowed(cal, d) /\ Distance(cal, d + step, step, k))
<1>1. d + step * 0 = d
  BY DEF Steps
<1>2. Distance(cal, d, step, 0) <=> Allowed(cal, d)
  BY <1>1 DEF Distance
<1>3. ASSUME k \in Nat
      PROVE  Distance(cal, d, step, k + 1) <=> ~Allowed(cal, d) /\ Distance(cal, d + step, step, k)
  <2>1. \A j \in Nat : d + step * (j + 1) = (d + step) + step * j
    BY DEF Steps
  <2>2. (\A j \in 0 .. (k + 1) - 1 : ~Allowed(cal, d + step * j))
          <=> ~Allowed(cal, d) /\ \A j \in 0 .. k - 1 : ~Allowed(cal, (d + step) + step * j)
    <3>1. ASSUME \A j \in 0 .. (k + 1) - 1 : ~Allowed(cal, d + step * j)
          PROVE  ~Allowed(cal, d) /\ \A j \in 0 .. k - 1 : ~Allowed(cal, (d + step) + step * j)
      <4>1. 0 \in 0 .. (k + 1) - 1 /\ \A j \in 0 .. k - 1 : j \in Nat /\ j + 1 \in 0 .. (k + 1) - 1
        BY <1>3
      <4>2. ~Allowed(cal, d)
        BY <1>1, <3>1, <4>1
      <4>3. ASSUME NEW j \in 0 .. k - 1 PROVE ~Allowed(cal, (d + step) + step * j)
        BY <2>1, <3>1, <4>1
      <4> QED BY <4>2, <4>3
    <3>2. ASSUME ~Allowed(cal, d), \A j \in 0 .. k - 1 : ~Allowed(cal, (d + step) + step * j),
                 NEW i \in 0 .. (k + 1) - 1
          PROVE  ~Allowed(cal, d + step * i)
      <4>1. CASE i = 0
        BY <1>1, <3>2, <4>1
      <4>2. CASE i # 0
        <5>1. i - 1 \in 0 .. k - 1 /\ i - 1 \in Nat /\ (i - 1) + 1 = i
          BY <1>3, <4>2
        <5>2. d + step * i = (d + step) + step * (i - 1)
          BY <2>1, <5>1
        <5> QED BY <3>2, <5>1, <5>2
      <4> QED BY <4>1, <4>2
    <3> QED BY <3>1, <3>2
  <2> QED BY <1>3, <2>1, <2>2 DEF Distance
<1> QED BY <1>2, <1>3

(* The recursion of FitsIn, and what it comes to. *)
Searches(f, cal, step) ==
  f = [u \in Int |-> IF Allowed(cal, Day(u)) THEN u ELSE f[u + 24 * step]]

LEMMA SearchExists ==
  ASSUME NEW cal, IsCalendar(cal), ~Empty(cal), NEW step \in Steps
  PROVE  \E f : Searches(f, cal, step)
<1> DEFINE far(u) == CHOOSE k : Distance(cal, Day(u), step, k)
           f == [u \in Int |-> u + (24 * step) * far(u)]
<1>1. ASSUME NEW u \in Int PROVE Distance(cal, Day(u), step, far(u)) /\ far(u) \in Nat
  <2>1. \E k : Distance(cal, Day(u), step, k)
    BY DayShift, DistanceExists
  <2> QED BY <2>1 DEF Distance
<1> HIDE DEF far
<1>2. ASSUME NEW u \in Int
      PROVE  f[u] = IF Allowed(cal, Day(u)) THEN u ELSE f[u + 24 * step]
  <2>1. step \in Int /\ u + 24 * step \in Int /\ Day(u) \in Int
        /\ Day(u + 24 * step) = Day(u) + step
    BY DayShift DEF Steps
  <2>2. CASE Allowed(cal, Day(u))
    <3>1. far(u) = 0
      BY <1>1, <2>1, <2>2, DistanceStep, DistanceUnique
    <3> QED BY <2>1, <2>2, <3>1
  <2>3. CASE ~Allowed(cal, Day(u))
    <3>1. far(u + 24 * step) \in Nat /\ Distance(cal, Day(u) + step, step, far(u + 24 * step))
      BY <1>1, <2>1
    <3>2. Distance(cal, Day(u), step, far(u + 24 * step) + 1)
      BY <2>1, <2>3, <3>1, DistanceStep
    <3>3. far(u) = far(u + 24 * step) + 1
      BY <1>1, <2>1, <3>2, DistanceUnique
    <3>4. u + (24 * step) * far(u) = (u + 24 * step) + (24 * step) * far(u + 24 * step)
      BY <3>1, <3>3 DEF Steps
    <3> QED BY <2>1, <2>3, <3>4
  <2> QED BY <2>2, <2>3
<1>3. Searches(f, cal, step)
  <2>1. f = [u \in Int |-> f[u]]
    OBVIOUS
  <2> HIDE DEF f
  <2> QED BY <1>2, <2>1 DEF Searches
<1> QED BY <1>3

LEMMA SearchFinds ==
  ASSUME NEW cal, NEW step \in Steps, NEW f, Searches(f, cal, step)
  PROVE  \A k \in Nat : \A u \in Int : Distance(cal, Day(u), step, k) => f[u] = u + (24 * step) * k
<1> DEFINE Found == {k \in Nat : \A u \in Int :
                       Distance(cal, Day(u), step, k) => f[u] = u + (24 * step) * k}
<1>1. \A u \in Int : f[u] = IF Allowed(cal, Day(u)) THEN u ELSE f[u + 24 * step]
  BY DEF Searches
<1>2. 0 \in Found
  <2> SUFFICES ASSUME NEW u \in Int, Distance(cal, Day(u), step, 0)
               PROVE  f[u] = u + (24 * step) * 0
    OBVIOUS
  <2>1. Allowed(cal, Day(u))
    BY DayShift, DistanceStep
  <2> QED BY <1>1, <2>1 DEF Steps
<1>3. ASSUME NEW k \in Nat, k \in Found PROVE k + 1 \in Found
  <2> SUFFICES ASSUME NEW u \in Int, Distance(cal, Day(u), step, k + 1)
               PROVE  f[u] = u + (24 * step) * (k + 1)
    OBVIOUS
  <2>1. u + 24 * step \in Int /\ Day(u) \in Int /\ Day(u + 24 * step) = Day(u) + step
    BY DayShift DEF Steps
  <2>2. ~Allowed(cal, Day(u)) /\ Distance(cal, Day(u + 24 * step), step, k)
    BY <2>1, DistanceStep
  <2>3. f[u] = (u + 24 * step) + (24 * step) * k
    BY <1>1, <1>3, <2>1, <2>2
  <2> QED BY <2>3 DEF Steps
<1>4. Nat \subseteq Found
  <2> HIDE DEF Found
  <2> QED BY <1>2, <1>3, NatCovered
<1> QED BY <1>4

LEMMA FitsInIs ==
  ASSUME NEW cal, IsCalendar(cal), NEW t \in Int, NEW step \in Steps
  PROVE  /\ Empty(cal) => FitsIn(t, cal, step) = t
         /\ ~Empty(cal) => \E k \in 0 .. 7 * Cardinality(cal.skipDays) + 6 :
              Distance(cal, Day(t), step, k) /\ FitsIn(t, cal, step) = t + (24 * step) * k
<1>1. ASSUME Empty(cal) PROVE FitsIn(t, cal, step) = t
  BY <1>1 DEF Empty, FitsIn
<1>2. ASSUME ~Empty(cal)
      PROVE  \E k \in 0 .. 7 * Cardinality(cal.skipDays) + 6 :
               Distance(cal, Day(t), step, k) /\ FitsIn(t, cal, step) = t + (24 * step) * k
  <2>1. PICK k : Distance(cal, Day(t), step, k) /\ k <= 7 * Cardinality(cal.skipDays) + 6
    BY <1>2, DayShift, DistanceExists
  <2>2. PICK g : Searches(g, cal, step)
    BY <1>2, SearchExists
  <2>3. \E f : Searches(f, cal, step) /\ FitsIn(t, cal, step) = f[t]
    BY <1>2, <2>2 DEF Empty, FitsIn, Searches
  <2>4. FitsIn(t, cal, step) = t + (24 * step) * k /\ k \in Nat
    BY <2>1, <2>3, SearchFinds DEF Distance
  <2>5. Cardinality(cal.skipDays) \in Nat
    BY FS_CardinalityType DEF IsCalendar
  <2> QED BY <2>1, <2>4, <2>5
<1> QED BY <1>1, <1>2

(* Whatever the weekdays and the days to skip, as long as a weekday is left *)
(* the recursion of fitsInForward ends, with the hour of the time on the    *)
(* first allowed day from its day on, in a week per day to skip and one     *)
(* more.                                                                    *)
THEOREM NextDayFits ==
  ASSUME NEW cal, IsCalendar(cal), ~Empty(cal), NEW t \in Int
  PROVE  LET u == FitsInForward(t, cal) IN
         /\ u \in Int /\ Hour(u) = Hour(t) /\ Allowed(cal, Day(u))
         /\ Day(u) - Day(t) \in 0 .. 7 * Cardinality(cal.skipDays) + 6
         /\ \A d \in Day(t) .. Day(u) - 1 : ~Allowed(cal, d)
<1> DEFINE u == FitsInForward(t, cal)
<1>1. PICK k \in 0 .. 7 * Cardinality(cal.skipDays) + 6 :
        Distance(cal, Day(t), 1, k) /\ u = t + (24 * 1) * k
  BY FitsInIs DEF FitsInForward, Steps
<1> HIDE DEF u
<1>2. Cardinality(cal.skipDays) \in Nat /\ k \in Nat
  BY <1>1, FS_CardinalityType DEF IsCalendar
<1>3. u = t + 24 * k /\ u \in Int /\ k \in Int
  BY <1>1, <1>2
<1>4. Hour(u) = Hour(t) /\ Day(u) = Day(t) + k /\ Day(t) \in Int
  BY <1>2, <1>3, DayShift
<1>5. Allowed(cal, Day(t) + k) /\ \A j \in 0 .. k - 1 : ~Allowed(cal, Day(t) + j)
  <2>1. \A j \in Nat : Day(t) + 1 * j = Day(t) + j
    BY <1>4
  <2> QED BY <1>1, <1>2, <2>1 DEF Distance
<1>6. ASSUME NEW d \in Day(t) .. Day(u) - 1 PROVE ~Allowed(cal, d)
  <2>1. d - Day(t) \in 0 .. k - 1 /\ Day(t) + (d - Day(t)) = d
    BY <1>2, <1>4
  <2> QED BY <1>5, <2>1
<1> QED BY <1>1, <1>2, <1>3, <1>4, <1>5, <1>6 DEF u

(* The same of fitsInBackward and the last allowed day.                     *)
THEOREM LastDayFits ==
  ASSUME NEW cal, IsCalendar(cal), ~Empty(cal), NEW t \in Int
  PROVE  LET u == FitsInBackward(t, cal) IN
         /\ u \in Int /\ Hour(u) = Hour(t) /\ Allowed(cal, Day(u))
         /\ Day(t) - Day(u) \in 0 .. 7 * Cardinality(cal.skipDays) + 6
         /\ \A d \in Day(u) + 1 .. Day(t) : ~Allowed(cal, d)
<1> DEFINE u == FitsInBackward(t, cal)
<1>1. PICK k \in 0 .. 7 * Cardinality(cal.skipDays) + 6 :
        Distance(cal, Day(t), -1, k) /\ u = t + (24 * (-1)) * k
  BY FitsInIs DEF FitsInBackward, Steps
<1> HIDE DEF u
<1>2. Cardinality(cal.skipDays) \in Nat /\ k \in Nat
  BY <1>1, FS_CardinalityType DEF IsCalendar
<1>3. u = t + 24 * (-k) /\ u \in Int /\ -k \in Int
  BY <1>1, <1>2
<1>4. Hour(u) = Hour(t) /\ Day(u) = Day(t) - k /\ Day(t) \in Int
  BY <1>2, <1>3, DayShift
<1>5. Allowed(cal, Day(t) - k) /\ \A j \in 0 .. k - 1 : ~Allowed(cal, Day(t) - j)
  <2>1. \A j \in Nat : Day(t) + (-1) * j = Day(t) - j
    BY <1>4
  <2> QED BY <1>1, <1>2, <2>1 DEF Distance
<1>6. ASSUME NEW d \in Day(u) + 1 .. Day(t) PROVE ~Allowed(cal, d)
  <2>1. Day(t) - d \in 0 .. k - 1 /\ Day(t) - (Day(t) - d) = d
    BY <1>2, <1>4
  <2> QED BY <1>5, <2>1
<1> QED BY <1>1, <1>2, <1>3, <1>4, <1>5, <1>6 DEF u

LEMMA FitsInType ==
  ASSUME NEW cal, IsCalendar(cal), NEW t \in Int
  PROVE  FitsInForward(t, cal) \in Int /\ FitsInBackward(t, cal) \in Int
<1>1. CASE Empty(cal)
  BY <1>1, FitsInIs DEF FitsInForward, FitsInBackward, Steps
<1>2. CASE ~Empty(cal)
  BY <1>2, NextDayFits, LastDayFits
<1> QED BY <1>1, <1>2

-----------------------------------------------------------------------------
(* Offsets. *)

(* The loops of getTimeWithOffset. *)
Loops(f, t, h, cal) ==
  f = [n \in Nat |-> IF n = 0 THEN t ELSE Round(f[n - 1], Left(h, n - 1), cal)]

LEMMA LeastOfTwo ==
  ASSUME NEW a \in Int, NEW b \in Int
  PROVE  /\ Least({a, b}) = IF a <= b THEN a ELSE b
         /\ Greatest({a, b}) = IF a <= b THEN b ELSE a
<1>1. CASE a <= b
  <2>1. Least({a, b}) = a
    BY <1>1, LeastIs
  <2>2. Greatest({a, b}) = b
    BY <1>1, GreatestIs
  <2> QED BY <1>1, <2>1, <2>2
<1>2. CASE ~(a <= b)
  <2>1. Least({a, b}) = b
    BY <1>2, LeastIs
  <2>2. Greatest({a, b}) = a
    BY <1>2, GreatestIs
  <2> QED BY <1>2, <2>1, <2>2
<1> QED BY <1>1, <1>2

LEMMA TwoType ==
  ASSUME NEW a \in Int, NEW b \in Int
  PROVE  Least({a, b}) \in Int /\ Greatest({a, b}) \in Int
  BY LeastOfTwo

LEMMA RoundType ==
  ASSUME NEW cal, IsCalendar(cal), NEW t \in Int, NEW n \in Int, NEW h \in Int
  PROVE  Round(t, Left(h, n), cal) \in Int
<1>1. Left(h, n) \in Int /\ 24 \in Int /\ -24 \in Int
  BY DEF Left
<1>2. Least({Left(h, n), 24}) \in Int /\ Greatest({Left(h, n), -24}) \in Int
  BY <1>1, TwoType, Zenon
<1> QED BY <1>2, FitsInType DEF Round

LEMMA MovesExist ==
  ASSUME NEW cal, IsCalendar(cal), NEW t \in Int, NEW h \in Int
  PROVE  \E g \in [Nat -> Int] : Loops(g, t, h, cal)
<1> DEFINE next == [n \in Nat |-> [u \in Int |-> Round(u, Left(h, n - 1), cal)]]
<1>1. next \in [Nat -> [Int -> Int]]
  BY RoundType
<1>2. PICK g \in [Nat -> Int] : g[0] = t /\ \A n \in Nat : g[n + 1] = next[n + 1][g[n]]
  <2> HIDE DEF next
  <2> QED BY <1>1, IterationExists
<1>3. ASSUME NEW n \in Nat, n # 0 PROVE g[n] = Round(g[n - 1], Left(h, n - 1), cal)
  <2>1. n - 1 \in Nat /\ (n - 1) + 1 = n /\ g[n - 1] \in Int
    BY <1>3
  <2>2. next[n][g[n - 1]] = Round(g[n - 1], Left(h, n - 1), cal)
    BY <2>1
  <2> HIDE DEF next
  <2> QED BY <1>2, <2>1, <2>2
<1>4. Loops(g, t, h, cal)
  BY <1>2, <1>3 DEF Loops
<1> QED BY <1>4

LEMMA MovesFollow ==
  ASSUME NEW cal, IsCalendar(cal), NEW t \in Int, NEW h \in Int
  PROVE  Loops(Moves(t, h, cal), t, h, cal)
<1>1. \E g : g = [n \in Nat |-> IF n = 0 THEN t ELSE Round(g[n - 1], Left(h, n - 1), cal)]
  <2>1. PICK g : Loops(g, t, h, cal)
    BY MovesExist
  <2>2. g = [n \in Nat |-> IF n = 0 THEN t ELSE Round(g[n - 1], Left(h, n - 1), cal)]
    BY <2>1 DEF Loops
  <2> QED BY <2>2
<1>2. Moves(t, h, cal) = [n \in Nat |-> IF n = 0 THEN t
                            ELSE Round(Moves(t, h, cal)[n - 1], Left(h, n - 1), cal)]
  BY <1>1 DEF Moves
<1> QED BY <1>2 DEF Loops

LEMMA MovesAre ==
  ASSUME NEW cal, IsCalendar(cal), NEW t \in Int, NEW h \in Int
  PROVE  /\ Moves(t, h, cal)[0] = t
         /\ \A n \in Nat : /\ Moves(t, h, cal)[n] \in Int
                           /\ Moves(t, h, cal)[n + 1] = Round(Moves(t, h, cal)[n], Left(h, n), cal)
<1> DEFINE g == Moves(t, h, cal)
           Typed == {n \in Nat : g[n] \in Int}
<1>1. Loops(g, t, h, cal)
  BY MovesFollow
<1> HIDE DEF g
<1>2. g[0] = t
  BY <1>1 DEF Loops
<1>3. ASSUME NEW n \in Nat PROVE g[n + 1] = Round(g[n], Left(h, n), cal)
  <2>1. n + 1 \in Nat /\ n + 1 # 0 /\ (n + 1) - 1 = n
    OBVIOUS
  <2> QED BY <1>1, <2>1 DEF Loops
<1>4. 0 \in Typed /\ \A n \in Nat : n \in Typed => n + 1 \in Typed
  BY <1>2, <1>3, RoundType
<1>5. Nat \subseteq Typed
  <2> HIDE DEF Typed
  <2> QED BY <1>4, NatCovered
<1> QED BY <1>2, <1>3, <1>5 DEF g

(* An offset leads from any time to a time, in every calendar.              *)
LEMMA OffsetType ==
  ASSUME NEW cal, IsCalendar(cal), NEW t \in Int, NEW offset,
         offset.hours \in Int, offset.at \in 0 .. 24
  PROVE  TimeWithOffset(t, offset, cal) \in Int
<1>1. Rounds(offset.hours) \in Nat
  BY DEF Rounds
<1>2. Moves(t, offset.hours, cal)[Rounds(offset.hours)] \in Int
  BY <1>1, MovesAre
<1> DEFINE u == Moves(t, offset.hours, cal)[Rounds(offset.hours)]
<1>3. Day(u) \in Int
  BY <1>2, DayShift
<1>4. TimeWithOffset(t, offset, cal) = IF offset.at = 24 THEN u ELSE 24 * Day(u) + offset.at
  BY DEF TimeWithOffset
<1> HIDE DEF u
<1> QED BY <1>2, <1>3, <1>4 DEF u

AllowedIn(cal, d, e) == {x \in d .. e : Allowed(cal, x)}

LEMMA AllowedOneMore ==
  ASSUME NEW cal, NEW a \in Int, NEW b \in Int, NEW c \in Int, NEW S, NEW n \in Nat,
         IsFiniteSet(S), Cardinality(S) = n, Allowed(cal, c)
  PROVE  /\ S = AllowedIn(cal, a, b) /\ a <= b + 1 /\ b < c /\ AllowedIn(cal, b + 1, c - 1) = {}
              => IsFiniteSet(AllowedIn(cal, a, c)) /\ Cardinality(AllowedIn(cal, a, c)) = n + 1
         /\ S = AllowedIn(cal, b, a) /\ b <= a + 1 /\ c < b /\ AllowedIn(cal, c + 1, b - 1) = {}
              => IsFiniteSet(AllowedIn(cal, c, a)) /\ Cardinality(AllowedIn(cal, c, a)) = n + 1
<1>1. c \notin S => IsFiniteSet(S \cup {c}) /\ Cardinality(S \cup {c}) = n + 1
  BY FS_AddElement
<1>2. ASSUME S = AllowedIn(cal, a, b), a <= b + 1, b < c, AllowedIn(cal, b + 1, c - 1) = {}
      PROVE  AllowedIn(cal, a, c) = S \cup {c} /\ c \notin S
  BY <1>2 DEF AllowedIn
<1>3. ASSUME S = AllowedIn(cal, b, a), b <= a + 1, c < b, AllowedIn(cal, c + 1, b - 1) = {}
      PROVE  AllowedIn(cal, c, a) = S \cup {c} /\ c \notin S
  BY <1>3 DEF AllowedIn
<1> QED BY <1>1, <1>2, <1>3

LEMMA RoundOfDay ==
  ASSUME NEW cal, NEW n \in Nat, NEW j \in Nat, j < n, NEW u \in Int
  PROVE  /\ Round(u, Left(24 * n, j), cal) = FitsInForward(u + 24, cal)
         /\ Round(u, Left(-24 * n, j), cal) = FitsInBackward(u + (-24), cal)
<1>1. Left(24 * n, j) >= 24 /\ Left(24 * n, j) \in Int
  BY DEF Left
<1>2. Left(-24 * n, j) <= -24 /\ Left(-24 * n, j) \in Int
  BY DEF Left
<1>3. ASSUME NEW a \in Int, a >= 24 PROVE Least({a, 24}) = 24
  <2>1. 24 \in {a, 24} /\ {a, 24} \subseteq Int /\ \A m \in {a, 24} : 24 <= m
    BY <1>3
  <2> QED BY <2>1, LeastIs
<1>4. ASSUME NEW a \in Int, a <= -24 PROVE Greatest({a, -24}) = -24
  <2>1. -24 \in {a, -24} /\ {a, -24} \subseteq Int /\ \A m \in {a, -24} : m <= -24
    BY <1>4
  <2> QED BY <2>1, GreatestIs
<1>5. Round(u, Left(24 * n, j), cal) = FitsInForward(u + 24, cal)
  BY <1>1, <1>3 DEF Round
<1>6. Round(u, Left(-24 * n, j), cal) = FitsInBackward(u + (-24), cal)
  BY <1>2, <1>4 DEF Round
<1> QED BY <1>5, <1>6

(* An offset of n days leads to the n-th allowed day from the next one on,  *)
(* at the same hour (getTimeWithOffset).                                    *)
THEOREM OffsetCountsDays ==
  ASSUME NEW cal, IsCalendar(cal), ~Empty(cal), NEW t \in Int, NEW n \in Nat \ {0}
  PROVE  LET u == TimeWithOffset(t, [hours |-> 24 * n, at |-> 24], cal) IN
         /\ u \in Int /\ Hour(u) = Hour(t) /\ Allowed(cal, Day(u))
         /\ Cardinality(AllowedIn(cal, Day(t) + 1, Day(u))) = n
<1> DEFINE g == Moves(t, 24 * n, cal)
           Passed == {j \in Nat : j <= n =>
             /\ g[j] \in Int /\ Hour(g[j]) = Hour(t) /\ Day(t) <= Day(g[j])
             /\ j > 0 => Allowed(cal, Day(g[j]))
             /\ IsFiniteSet(AllowedIn(cal, Day(t) + 1, Day(g[j])))
             /\ Cardinality(AllowedIn(cal, Day(t) + 1, Day(g[j]))) = j}
<1>1. Day(t) \in Int /\ g[0] = t /\ \A j \in Nat : g[j] \in Int /\ Day(g[j]) \in Int
  <2>1. 24 * n \in Int
    OBVIOUS
  <2>2. g[0] = t /\ \A j \in Nat : g[j] \in Int
    BY <2>1, MovesAre
  <2> HIDE DEF g
  <2>3. ASSUME NEW x \in Int PROVE Day(x) \in Int
    BY DEF Day
  <2> QED BY <2>2, <2>3
<1>2. \A j \in Nat : j < n => g[j + 1] = FitsInForward(g[j] + 24, cal)
  <2> SUFFICES ASSUME NEW j \in Nat, j < n PROVE g[j + 1] = FitsInForward(g[j] + 24, cal)
    OBVIOUS
  <2>1. 24 * n \in Int /\ n \in Nat
    OBVIOUS
  <2>2. g[j + 1] = Round(g[j], Left(24 * n, j), cal) /\ g[j] \in Int
    BY <2>1, MovesAre
  <2> HIDE DEF g
  <2> QED BY <2>1, <2>2, RoundOfDay
<1> HIDE DEF g
<1>3. 0 \in Passed
  <2>1. AllowedIn(cal, Day(t) + 1, Day(t)) = {}
    BY <1>1 DEF AllowedIn
  <2> QED BY <1>1, <2>1, FS_EmptySet
<1>4. ASSUME NEW j \in Nat, j \in Passed PROVE j + 1 \in Passed
  <2> SUFFICES ASSUME j + 1 <= n
               PROVE  /\ g[j + 1] \in Int /\ Hour(g[j + 1]) = Hour(t) /\ Day(t) <= Day(g[j + 1])
                      /\ Allowed(cal, Day(g[j + 1]))
                      /\ IsFiniteSet(AllowedIn(cal, Day(t) + 1, Day(g[j + 1])))
                      /\ Cardinality(AllowedIn(cal, Day(t) + 1, Day(g[j + 1]))) = j + 1
    OBVIOUS
  <2>1. /\ g[j] \in Int /\ Hour(g[j]) = Hour(t) /\ Day(t) <= Day(g[j])
        /\ IsFiniteSet(AllowedIn(cal, Day(t) + 1, Day(g[j])))
        /\ Cardinality(AllowedIn(cal, Day(t) + 1, Day(g[j]))) = j
    BY <1>4
  <2> DEFINE v == g[j] + 24
             u == FitsInForward(v, cal)
  <2>2. g[j + 1] = u
    BY <1>2
  <2>3. v \in Int /\ Day(v) = Day(g[j]) + 1 /\ Hour(v) = Hour(g[j])
    BY <1>1 DEF Day, Hour
  <2> HIDE DEF v
  <2>4. /\ u \in Int /\ Hour(u) = Hour(v) /\ Allowed(cal, Day(u))
        /\ Day(u) - Day(v) \in 0 .. 7 * Cardinality(cal.skipDays) + 6
        /\ \A d \in Day(v) .. Day(u) - 1 : ~Allowed(cal, d)
    BY <2>3, NextDayFits
  <2> HIDE DEF u
  <2>5. Day(u) \in Int /\ Day(v) \in Int
    BY <2>3, <2>4, DayShift
  <2>6. Day(g[j]) < Day(u)
    BY <1>1, <2>3, <2>4, <2>5
  <2>7. AllowedIn(cal, Day(g[j]) + 1, Day(u) - 1) = {}
    BY <2>3, <2>4 DEF AllowedIn
  <2>8. Day(t) + 1 <= Day(g[j]) + 1 /\ Day(t) + 1 \in Int
    BY <1>1, <2>1
  <2>9. /\ IsFiniteSet(AllowedIn(cal, Day(t) + 1, Day(u)))
        /\ Cardinality(AllowedIn(cal, Day(t) + 1, Day(u))) = j + 1
    BY <1>1, <2>1, <2>4, <2>5, <2>6, <2>7, <2>8, AllowedOneMore
  <2> QED BY <1>1, <2>1, <2>2, <2>3, <2>4, <2>5, <2>6, <2>9
<1>5. n \in Passed
  <2> HIDE DEF Passed
  <2>1. Nat \subseteq Passed
    BY <1>3, <1>4, NatCovered
  <2> QED BY <2>1
<1>6. TimeWithOffset(t, [hours |-> 24 * n, at |-> 24], cal) = g[n]
  <2>1. Rounds(24 * n) = n
    BY DEF Rounds
  <2> QED BY <2>1 DEF TimeWithOffset, g
<1> QED BY <1>5, <1>6

(* An offset of minus n days leads to the n-th allowed day back from the    *)
(* day before, at the same hour (getTimeWithOffset).                        *)
THEOREM OffsetCountsDaysBack ==
  ASSUME NEW cal, IsCalendar(cal), ~Empty(cal), NEW t \in Int, NEW n \in Nat \ {0}
  PROVE  LET u == TimeWithOffset(t, [hours |-> -24 * n, at |-> 24], cal) IN
         /\ u \in Int /\ Hour(u) = Hour(t) /\ Allowed(cal, Day(u))
         /\ Cardinality(AllowedIn(cal, Day(u), Day(t) - 1)) = n
<1> DEFINE g == Moves(t, -24 * n, cal)
           Passed == {j \in Nat : j <= n =>
             /\ g[j] \in Int /\ Hour(g[j]) = Hour(t) /\ Day(g[j]) <= Day(t)
             /\ j > 0 => Allowed(cal, Day(g[j]))
             /\ IsFiniteSet(AllowedIn(cal, Day(g[j]), Day(t) - 1))
             /\ Cardinality(AllowedIn(cal, Day(g[j]), Day(t) - 1)) = j}
<1>1. Day(t) \in Int /\ g[0] = t /\ \A j \in Nat : g[j] \in Int /\ Day(g[j]) \in Int
  <2>1. -24 * n \in Int
    OBVIOUS
  <2>2. g[0] = t /\ \A j \in Nat : g[j] \in Int
    BY <2>1, MovesAre
  <2> HIDE DEF g
  <2>3. ASSUME NEW x \in Int PROVE Day(x) \in Int
    BY DEF Day
  <2> QED BY <2>2, <2>3
<1>2. \A j \in Nat : j < n => g[j + 1] = FitsInBackward(g[j] + (-24), cal)
  <2> SUFFICES ASSUME NEW j \in Nat, j < n PROVE g[j + 1] = FitsInBackward(g[j] + (-24), cal)
    OBVIOUS
  <2>1. -24 * n \in Int /\ n \in Nat
    OBVIOUS
  <2>2. g[j + 1] = Round(g[j], Left(-24 * n, j), cal) /\ g[j] \in Int
    BY <2>1, MovesAre
  <2> HIDE DEF g
  <2> QED BY <2>1, <2>2, RoundOfDay
<1> HIDE DEF g
<1>3. 0 \in Passed
  <2>1. AllowedIn(cal, Day(t), Day(t) - 1) = {}
    BY <1>1 DEF AllowedIn
  <2> QED BY <1>1, <2>1, FS_EmptySet
<1>4. ASSUME NEW j \in Nat, j \in Passed PROVE j + 1 \in Passed
  <2> SUFFICES ASSUME j + 1 <= n
               PROVE  /\ g[j + 1] \in Int /\ Hour(g[j + 1]) = Hour(t) /\ Day(g[j + 1]) <= Day(t)
                      /\ Allowed(cal, Day(g[j + 1]))
                      /\ IsFiniteSet(AllowedIn(cal, Day(g[j + 1]), Day(t) - 1))
                      /\ Cardinality(AllowedIn(cal, Day(g[j + 1]), Day(t) - 1)) = j + 1
    OBVIOUS
  <2>1. /\ g[j] \in Int /\ Hour(g[j]) = Hour(t) /\ Day(g[j]) <= Day(t)
        /\ IsFiniteSet(AllowedIn(cal, Day(g[j]), Day(t) - 1))
        /\ Cardinality(AllowedIn(cal, Day(g[j]), Day(t) - 1)) = j
    BY <1>4
  <2> DEFINE v == g[j] + (-24)
             u == FitsInBackward(v, cal)
  <2>2. g[j + 1] = u
    BY <1>2
  <2>3. v \in Int /\ Day(v) = Day(g[j]) - 1 /\ Hour(v) = Hour(g[j])
    BY <1>1 DEF Day, Hour
  <2> HIDE DEF v
  <2>4. /\ u \in Int /\ Hour(u) = Hour(v) /\ Allowed(cal, Day(u))
        /\ Day(v) - Day(u) \in 0 .. 7 * Cardinality(cal.skipDays) + 6
        /\ \A d \in Day(u) + 1 .. Day(v) : ~Allowed(cal, d)
    BY <2>3, LastDayFits
  <2> HIDE DEF u
  <2>5. Day(u) \in Int /\ Day(v) \in Int
    BY <2>3, <2>4, DayShift
  <2>6. Day(u) < Day(g[j])
    BY <1>1, <2>3, <2>4, <2>5
  <2>7. AllowedIn(cal, Day(u) + 1, Day(g[j]) - 1) = {}
    BY <2>3, <2>4 DEF AllowedIn
  <2>8. Day(g[j]) <= (Day(t) - 1) + 1 /\ Day(t) - 1 \in Int
    BY <1>1, <2>1
  <2>9. /\ IsFiniteSet(AllowedIn(cal, Day(u), Day(t) - 1))
        /\ Cardinality(AllowedIn(cal, Day(u), Day(t) - 1)) = j + 1
    BY <1>1, <2>1, <2>4, <2>5, <2>6, <2>7, <2>8, AllowedOneMore
  <2> QED BY <1>1, <2>1, <2>2, <2>3, <2>4, <2>5, <2>6, <2>9
<1>5. n \in Passed
  <2> HIDE DEF Passed
  <2>1. Nat \subseteq Passed
    BY <1>3, <1>4, NatCovered
  <2> QED BY <2>1
<1>6. TimeWithOffset(t, [hours |-> -24 * n, at |-> 24], cal) = g[n]
  <2>1. Rounds(-24 * n) = n
    BY DEF Rounds
  <2> QED BY <2>1 DEF TimeWithOffset, g
<1> QED BY <1>5, <1>6

-----------------------------------------------------------------------------
(* Hours. *)

Window(h) == h.from \in 0 .. 23 /\ h.to \in Int /\ h.from < h.to /\ h.to <= h.from + 24

(* A window that began today or the day before. *)
OpenWindow(h, t) == \E d \in {Day(t) - 1, Day(t)} : 24 * d + h.from <= t /\ t < 24 * d + h.to
Opens(hours, t) == hours = {} \/ \E h \in hours : OpenWindow(h, t)

Wait(h, t) == IF Hour(t) < h.from THEN h.from - Hour(t) ELSE 24 + h.from - Hour(t)

LEMMA InWindowOpen ==
  ASSUME NEW h, Window(h), NEW t \in Int
  PROVE  InWindow(h, t) <=> OpenWindow(h, t)
<1>1. Day(t) \in Int /\ Hour(t) \in 0 .. 23 /\ t = 24 * Day(t) + Hour(t)
  BY DEF Day, Hour
<1> QED BY <1>1 DEF InWindow, OpenWindow, Window

LEMMA Clock ==
  ASSUME NEW d \in Int, NEW h \in 0 .. 23, NEW m \in 0 .. 24, NEW t, t = 24 * d + h
  PROVE  Day(t + m) = IF h + m < 24 THEN d ELSE IF h + m < 48 THEN d + 1 ELSE d + 2
  BY DEF Day

LEMMA WaitOpens ==
  ASSUME NEW h, Window(h), NEW t \in Int, ~InWindow(h, t)
  PROVE  /\ Wait(h, t) \in 1 .. 24 /\ OpenWindow(h, t + Wait(h, t))
         /\ \A m \in 0 .. Wait(h, t) - 1 : ~OpenWindow(h, t + m)
<1>1. Day(t) \in Int /\ Hour(t) \in 0 .. 23 /\ t = 24 * Day(t) + Hour(t)
  BY DEF Day, Hour
<1>2. Wait(h, t) \in 1 .. 24
  BY <1>1 DEF Wait, Window
<1>3. \A m \in 0 .. 24 : Day(t + m) = IF Hour(t) + m < 24 THEN Day(t)
                                      ELSE IF Hour(t) + m < 48 THEN Day(t) + 1 ELSE Day(t) + 2
  <2> DEFINE d == Day(t)
             k == Hour(t)
  <2>1. d \in Int /\ k \in 0 .. 23 /\ t = 24 * d + k
    BY <1>1
  <2> HIDE DEF d, k
  <2>2. \A m \in 0 .. 24 : Day(t + m) = IF k + m < 24 THEN d ELSE IF k + m < 48 THEN d + 1 ELSE d + 2
    BY <2>1, Clock
  <2> QED BY <2>2 DEF d, k
<1>4. OpenWindow(h, t + Wait(h, t))
  <2>2. CASE Hour(t) < h.from
    <3>1. Wait(h, t) = h.from - Hour(t) /\ h.from \in 0 .. 23
      BY <2>2 DEF Wait, Window
    <3>2. Day(t + Wait(h, t)) = Day(t)
      BY <1>1, <1>2, <1>3, <3>1
    <3> QED BY <1>1, <2>2, <3>1, <3>2 DEF OpenWindow, Window
  <2>3. CASE ~(Hour(t) < h.from)
    <3>1. Wait(h, t) = 24 + h.from - Hour(t) /\ h.from \in 0 .. 23
      BY <2>3 DEF Wait, Window
    <3>2. Day(t + Wait(h, t)) = Day(t) + 1
      BY <1>1, <1>2, <1>3, <3>1
    <3> QED BY <1>1, <2>3, <3>1, <3>2 DEF OpenWindow, Window
  <2> QED BY <2>2, <2>3
<1>5. ASSUME NEW m \in 0 .. Wait(h, t) - 1 PROVE ~OpenWindow(h, t + m)
  <2>1. m \in 0 .. 24
    BY <1>2
  <2>2. CASE Hour(t) < h.from
    <3>1. Wait(h, t) = h.from - Hour(t) /\ h.from \in 0 .. 23
      BY <2>2 DEF Wait, Window
    <3>2. Day(t + m) = Day(t)
      BY <1>1, <1>2, <1>3, <2>1, <3>1
    <3> QED BY <1>1, <2>2, <3>1, <3>2 DEF OpenWindow, InWindow, Window
  <2>3. CASE ~(Hour(t) < h.from)
    <3>1. Wait(h, t) = 24 + h.from - Hour(t) /\ h.from \in 0 .. 23
      BY <2>3 DEF Wait, Window
    <3>2. Day(t + m) = Day(t) \/ Day(t + m) = Day(t) + 1
      BY <1>1, <1>2, <1>3, <2>1, <3>1
    <3> QED BY <1>1, <2>3, <3>1, <3>2 DEF OpenWindow, InWindow, Window
  <2> QED BY <2>2, <2>3
<1> QED BY <1>2, <1>4, <1>5

(* inCalendarHours says 0 in the hours of the calendar, and otherwise after *)
(* how long they begin: then they do, and not before.                       *)
THEOREM HoursAreNext ==
  ASSUME NEW hours, \A h \in hours : Window(h), NEW t \in Int
  PROVE  LET n == HoursToWait(t, hours) IN
         /\ n \in 0 .. 24 /\ Opens(hours, t + n)
         /\ \A m \in 0 .. n - 1 : ~Opens(hours, t + m)
<1>1. CASE hours = {} \/ \E h \in hours : InWindow(h, t)
  <2>1. HoursToWait(t, hours) = 0 /\ t + 0 = t
    BY <1>1 DEF HoursToWait
  <2> QED BY <1>1, <2>1, InWindowOpen DEF Opens
<1>2. CASE ~(hours = {} \/ \E h \in hours : InWindow(h, t))
  <2> DEFINE waits == {24} \cup {Wait(h, t) : h \in hours}
             n == Least(waits)
  <2>1. HoursToWait(t, hours) = n
    BY <1>2 DEF HoursToWait, Wait
  <2>2. \A h \in hours : /\ Wait(h, t) \in 1 .. 24 /\ OpenWindow(h, t + Wait(h, t))
                         /\ \A m \in 0 .. Wait(h, t) - 1 : ~OpenWindow(h, t + m)
    BY <1>2, WaitOpens
  <2>3. waits \in SUBSET Nat /\ waits # {} /\ waits \subseteq 1 .. 24
    BY <2>2
  <2>4. n \in waits /\ \A k \in waits : n <= k
    <3> HIDE DEF waits
    <3>1. \E m \in waits : \A k \in waits : m <= k
      BY <2>3, LeastOfNat
    <3> QED BY <3>1 DEF Least
  <2> HIDE DEF n
  <2>5. n \in 1 .. 24 /\ \A h \in hours : n <= Wait(h, t)
    BY <2>3, <2>4
  <2>6. PICK h \in hours : n = Wait(h, t)
    <3>1. PICK h \in hours : TRUE
      BY <1>2
    <3>2. CASE n = 24
      <4>1. Wait(h, t) = 24
        BY <2>2, <2>5, <3>2
      <4> QED BY <3>2, <4>1
    <3>3. CASE n # 24
      BY <2>4, <3>3
    <3> QED BY <3>2, <3>3
  <2>7. ASSUME NEW m \in 0 .. n - 1 PROVE ~Opens(hours, t + m)
    <3>1. \A k \in hours : m \in 0 .. Wait(k, t) - 1
      BY <2>2, <2>5
    <3> QED BY <1>2, <2>2, <3>1 DEF Opens
  <2> QED BY <2>1, <2>2, <2>5, <2>6, <2>7 DEF Opens
<1> QED BY <1>1, <1>2

-----------------------------------------------------------------------------
(* Rows of pipelines. *)

(* i and j are the same pipeline, or all from i to j are Always ones. *)
Row(stages, i, j) == i = j \/ \A k \in i .. j : ~stages[k].leaderOnly
RowTo(stages, i) == {j \in 1 .. i : Row(stages, j, i)}
RowFrom(stages, i) == {j \in i .. Len(stages) : Row(stages, i, j)}

IsBegins(b, stages) ==
  b = [i \in DOMAIN stages |->
        IF i = 1 \/ stages[i].leaderOnly \/ stages[i - 1].leaderOnly THEN i ELSE b[i - 1]]
IsEnds(b, stages) ==
  b = [i \in DOMAIN stages |->
        IF i = Len(stages) \/ stages[i].leaderOnly \/ stages[i + 1].leaderOnly THEN i ELSE b[i + 1]]

(* The bounds of the rows satisfy the equations. *)
LEMMA RowBegins ==
  ASSUME NEW S, NEW stages \in Seq(S), NEW i \in DOMAIN stages
  PROVE  Least(RowTo(stages, i)) =
           IF i = 1 \/ stages[i].leaderOnly \/ stages[i - 1].leaderOnly THEN i
           ELSE Least(RowTo(stages, i - 1))
<1>1. DOMAIN stages = 1 .. Len(stages) /\ Len(stages) \in Nat /\ i \in Nat
  OBVIOUS
<1>2. CASE i = 1 \/ stages[i].leaderOnly \/ stages[i - 1].leaderOnly
  <2>1. \A j \in 1 .. i : Row(stages, j, i) => j = i
    BY <1>1, <1>2 DEF Row
  <2>2. RowTo(stages, i) = {i}
    BY <1>1, <2>1 DEF RowTo, Row
  <2>3. Least({i}) = i
    <3>1. i \in Int /\ {i} \subseteq Int /\ i \in {i} /\ \A n \in {i} : i <= n
      BY <1>1
    <3> QED BY <3>1, LeastIs
  <2> QED BY <1>2, <2>2, <2>3
<1>3. CASE ~(i = 1 \/ stages[i].leaderOnly \/ stages[i - 1].leaderOnly)
  <2>1. i - 1 \in 1 .. i /\ i - 1 \in Nat /\ i - 1 \in DOMAIN stages
    BY <1>1, <1>3
  <2>2. \A j \in 1 .. i - 1 : Row(stages, j, i) <=> Row(stages, j, i - 1)
    BY <1>1, <1>3, <2>1 DEF Row
  <2>3. RowTo(stages, i) = RowTo(stages, i - 1) \cup {i}
    BY <1>1, <1>3, <2>1, <2>2 DEF RowTo, Row
  <2>4. i - 1 \in RowTo(stages, i - 1) /\ RowTo(stages, i - 1) \subseteq 1 .. i - 1
    BY <1>3, <2>1 DEF RowTo, Row
  <2> DEFINE S0 == RowTo(stages, i - 1)
             m == Least(S0)
  <2>5. m \in S0 /\ \A n \in S0 : m <= n
    <3> HIDE DEF S0
    <3>1. S0 \in SUBSET Nat /\ S0 # {}
      BY <2>4 DEF S0
    <3>2. \E x \in S0 : \A n \in S0 : x <= n
      BY <3>1, LeastOfNat
    <3> QED BY <3>2 DEF Least
  <2>6. m \in Int /\ m < i
    <3> HIDE DEF m
    <3> QED BY <1>1, <2>4, <2>5
  <2> HIDE DEF m
  <2>7. Least(S0 \cup {i}) = m
    <3>1. S0 \cup {i} \subseteq Int /\ m \in S0 \cup {i} /\ \A n \in S0 \cup {i} : m <= n
      BY <1>1, <2>4, <2>5, <2>6
    <3> QED BY <2>6, <3>1, LeastIs
  <2> QED BY <1>3, <2>3, <2>7 DEF m
<1> QED BY <1>2, <1>3

LEMMA BeginsFollow ==
  ASSUME NEW S, NEW stages \in Seq(S)
  PROVE  IsBegins(Begins(stages), stages)
<1> DEFINE b == [i \in DOMAIN stages |-> Least(RowTo(stages, i))]
<1>1. ASSUME NEW i \in DOMAIN stages, ~(i = 1 \/ stages[i].leaderOnly \/ stages[i - 1].leaderOnly)
      PROVE  b[i - 1] = Least(RowTo(stages, i - 1))
  <2>1. i - 1 \in DOMAIN stages
    BY <1>1
  <2> QED BY <2>1
<1>2. IsBegins(b, stages)
  BY <1>1, RowBegins DEF IsBegins
<1>3. \E g : g = [i \in DOMAIN stages |->
        IF i = 1 \/ stages[i].leaderOnly \/ stages[i - 1].leaderOnly THEN i ELSE g[i - 1]]
  <2> HIDE DEF b
  <2> QED BY <1>2 DEF IsBegins
<1>4. Begins(stages) = [i \in DOMAIN stages |->
        IF i = 1 \/ stages[i].leaderOnly \/ stages[i - 1].leaderOnly THEN i ELSE Begins(stages)[i - 1]]
  BY <1>3 DEF Begins
<1> QED BY <1>4 DEF IsBegins

(* A pipeline's row begins at the first of the pipelines before it with     *)
(* only Always ones from there to it; a LeaderOnly one is a row of its own  *)
(* (pipelineGroups).                                                        *)
THEOREM RowsBegin ==
  ASSUME NEW S, NEW stages \in Seq(S), NEW i \in DOMAIN stages
  PROVE  Begins(stages)[i] = Least({j \in 1 .. i : Row(stages, j, i)})
<1> DEFINE Right == {n \in Nat : n \in DOMAIN stages => Begins(stages)[n] = Least(RowTo(stages, n))}
<1>1. IsBegins(Begins(stages), stages)
  BY BeginsFollow
<1>2. 0 \in Right
  OBVIOUS
<1>3. ASSUME NEW n \in Nat, n \in Right PROVE n + 1 \in Right
  <2> SUFFICES ASSUME n + 1 \in DOMAIN stages
               PROVE  Begins(stages)[n + 1] = Least(RowTo(stages, n + 1))
    OBVIOUS
  <2>1. (n + 1) - 1 = n /\ (n + 1 # 1 => n \in DOMAIN stages)
    OBVIOUS
  <2>2. Begins(stages)[n + 1] =
          IF n + 1 = 1 \/ stages[n + 1].leaderOnly \/ stages[n].leaderOnly THEN n + 1 ELSE Begins(stages)[n]
    BY <1>1, <2>1 DEF IsBegins
  <2>3. Least(RowTo(stages, n + 1)) =
          IF n + 1 = 1 \/ stages[n + 1].leaderOnly \/ stages[n].leaderOnly THEN n + 1
          ELSE Least(RowTo(stages, n))
    BY <2>1, RowBegins
  <2> QED BY <1>3, <2>1, <2>2, <2>3
<1>4. i \in Right
  <2> HIDE DEF Right
  <2>1. Nat \subseteq Right
    BY <1>2, <1>3, NatCovered
  <2> QED BY <2>1
<1> QED BY <1>4 DEF RowTo

LEMMA RowEnds ==
  ASSUME NEW S, NEW stages \in Seq(S), NEW i \in DOMAIN stages
  PROVE  Greatest(RowFrom(stages, i)) =
           IF i = Len(stages) \/ stages[i].leaderOnly \/ stages[i + 1].leaderOnly THEN i
           ELSE Greatest(RowFrom(stages, i + 1))
<1>1. DOMAIN stages = 1 .. Len(stages) /\ Len(stages) \in Nat /\ i \in Nat
  OBVIOUS
<1>2. CASE i = Len(stages) \/ stages[i].leaderOnly \/ stages[i + 1].leaderOnly
  <2>1. \A j \in i .. Len(stages) : Row(stages, i, j) => j = i
    BY <1>1, <1>2 DEF Row
  <2>2. RowFrom(stages, i) = {i}
    BY <1>1, <2>1 DEF RowFrom, Row
  <2>3. Greatest({i}) = i
    <3>1. i \in Int /\ {i} \subseteq Int /\ i \in {i} /\ \A n \in {i} : n <= i
      BY <1>1
    <3> QED BY <3>1, GreatestIs
  <2> QED BY <1>2, <2>2, <2>3
<1>3. CASE ~(i = Len(stages) \/ stages[i].leaderOnly \/ stages[i + 1].leaderOnly)
  <2>1. i + 1 \in i .. Len(stages) /\ i + 1 \in Nat /\ i + 1 \in DOMAIN stages
    BY <1>1, <1>3
  <2>2. \A j \in i + 1 .. Len(stages) : Row(stages, i, j) <=> Row(stages, i + 1, j)
    BY <1>1, <1>3, <2>1 DEF Row
  <2>3. RowFrom(stages, i) = RowFrom(stages, i + 1) \cup {i}
    BY <1>1, <1>3, <2>1, <2>2 DEF RowFrom, Row
  <2>4. i + 1 \in RowFrom(stages, i + 1) /\ RowFrom(stages, i + 1) \subseteq i + 1 .. Len(stages)
    BY <1>3, <2>1 DEF RowFrom, Row
  <2> DEFINE S0 == RowFrom(stages, i + 1)
             m == Greatest(S0)
  <2>5. m \in S0 /\ \A n \in S0 : n <= m
    <3> HIDE DEF S0
    <3>1. S0 \in SUBSET Int /\ S0 # {} /\ S0 \subseteq i + 1 .. Len(stages)
      BY <1>1, <2>4 DEF S0
    <3>2. IsFiniteSet(i + 1 .. Len(stages))
      BY <1>1, FS_Interval
    <3>3. \E x \in S0 : \A n \in S0 : n <= x
      BY <3>1, <3>2, FS_Subset, GreatestExists
    <3> QED BY <3>3 DEF Greatest
  <2>6. m \in Int /\ i < m
    <3> HIDE DEF m
    <3> QED BY <1>1, <2>4, <2>5
  <2> HIDE DEF m
  <2>7. Greatest(S0 \cup {i}) = m
    <3>1. S0 \cup {i} \subseteq Int /\ m \in S0 \cup {i} /\ \A n \in S0 \cup {i} : n <= m
      BY <1>1, <2>4, <2>5, <2>6
    <3> QED BY <2>6, <3>1, GreatestIs
  <2> QED BY <1>3, <2>3, <2>7 DEF m
<1> QED BY <1>2, <1>3

LEMMA EndsFollow ==
  ASSUME NEW S, NEW stages \in Seq(S)
  PROVE  IsEnds(Ends(stages), stages)
<1> DEFINE b == [i \in DOMAIN stages |-> Greatest(RowFrom(stages, i))]
<1>1. ASSUME NEW i \in DOMAIN stages, ~(i = Len(stages) \/ stages[i].leaderOnly \/ stages[i + 1].leaderOnly)
      PROVE  b[i + 1] = Greatest(RowFrom(stages, i + 1))
  <2>1. i + 1 \in DOMAIN stages
    BY <1>1
  <2> QED BY <2>1
<1>2. IsEnds(b, stages)
  BY <1>1, RowEnds DEF IsEnds
<1>3. \E g : g = [i \in DOMAIN stages |->
        IF i = Len(stages) \/ stages[i].leaderOnly \/ stages[i + 1].leaderOnly THEN i ELSE g[i + 1]]
  <2> HIDE DEF b
  <2> QED BY <1>2 DEF IsEnds
<1>4. Ends(stages) = [i \in DOMAIN stages |->
        IF i = Len(stages) \/ stages[i].leaderOnly \/ stages[i + 1].leaderOnly THEN i ELSE Ends(stages)[i + 1]]
  BY <1>3 DEF Ends
<1> QED BY <1>4 DEF IsEnds

(* A pipeline's row ends at the last of the pipelines after it with only    *)
(* Always ones from it to there; a LeaderOnly one is a row of its own       *)
(* (pipelineGroups).                                                        *)
THEOREM RowsEnd ==
  ASSUME NEW S, NEW stages \in Seq(S), NEW i \in DOMAIN stages
  PROVE  Ends(stages)[i] = Greatest({j \in i .. Len(stages) : Row(stages, i, j)})
<1> DEFINE l == Len(stages)
           Right == {n \in Nat : l - n \in DOMAIN stages =>
                                 Ends(stages)[l - n] = Greatest(RowFrom(stages, l - n))}
<1>1. IsEnds(Ends(stages), stages) /\ l \in Nat /\ DOMAIN stages = 1 .. l
  BY EndsFollow
<1> HIDE DEF l
<1>2. \A k \in DOMAIN stages : Ends(stages)[k] =
        IF k = l \/ stages[k].leaderOnly \/ stages[k + 1].leaderOnly THEN k ELSE Ends(stages)[k + 1]
  BY <1>1 DEF IsEnds, l
<1>3. \A k \in DOMAIN stages : Greatest(RowFrom(stages, k)) =
        IF k = l \/ stages[k].leaderOnly \/ stages[k + 1].leaderOnly THEN k
        ELSE Greatest(RowFrom(stages, k + 1))
  BY RowEnds DEF l
<1>4. 0 \in Right
  <2> SUFFICES ASSUME l - 0 \in DOMAIN stages
               PROVE  Ends(stages)[l - 0] = Greatest(RowFrom(stages, l - 0))
    OBVIOUS
  <2>1. l - 0 = l
    BY <1>1
  <2> QED BY <1>2, <1>3, <2>1
<1>5. ASSUME NEW n \in Nat, n \in Right PROVE n + 1 \in Right
  <2> SUFFICES ASSUME l - (n + 1) \in DOMAIN stages
               PROVE  Ends(stages)[l - (n + 1)] = Greatest(RowFrom(stages, l - (n + 1)))
    OBVIOUS
  <2> DEFINE k == l - (n + 1)
  <2>1. k + 1 = l - n /\ k + 1 \in DOMAIN stages /\ k \in DOMAIN stages
    BY <1>1
  <2>2. Ends(stages)[k + 1] = Greatest(RowFrom(stages, k + 1))
    BY <1>5, <2>1
  <2> HIDE DEF k
  <2>3. Ends(stages)[k] = Greatest(RowFrom(stages, k))
    BY <1>2, <1>3, <2>1, <2>2
  <2> QED BY <2>3 DEF k
<1>6. l - i \in Right
  <2> HIDE DEF Right
  <2>1. Nat \subseteq Right
    BY <1>4, <1>5, NatCovered
  <2>2. l - i \in Nat
    BY <1>1
  <2> QED BY <2>1, <2>2
<1>7. l - (l - i) = i
  BY <1>1
<1> QED BY <1>6, <1>7 DEF RowFrom

(* A finite set of integers, one of which is a natural number, has a        *)
(* greatest member, and it is a natural number.                             *)
LEMMA GreatestInNat ==
  ASSUME NEW S \in SUBSET Int, IsFiniteSet(S), NEW n \in S, n \in Nat
  PROVE  Greatest(S) \in Nat
<1>1. \E m \in S : \A k \in S : k <= m
  BY GreatestExists
<1>2. Greatest(S) \in S /\ n <= Greatest(S)
  BY <1>1 DEF Greatest
<1>3. Greatest(S) \in Int
  BY <1>2
<1> QED BY <1>2, <1>3

LEMMA FiniteImage ==
  ASSUME NEW S, IsFiniteSet(S), NEW f
  PROVE  IsFiniteSet({f[x] : x \in S})
<1> DEFINE F == {T \in SUBSET S : IsFiniteSet({f[x] : x \in T})}
<1>1. {} \in F
  <2>1. {f[x] : x \in {}} = {}
    OBVIOUS
  <2> QED BY <2>1, FS_EmptySet
<1>2. ASSUME NEW T \in SUBSET S, NEW x \in S, T \in F PROVE T \cup {x} \in F
  <2>1. {f[y] : y \in T \cup {x}} = {f[y] : y \in T} \cup {f[x]}
    OBVIOUS
  <2>2. IsFiniteSet({f[y] : y \in T} \cup {f[x]})
    BY <1>2, FS_AddElement
  <2>3. T \cup {x} \in SUBSET S
    OBVIOUS
  <2> QED BY <2>1, <2>2, <2>3
<1>3. S \in F
  <2> HIDE DEF F
  <2> QED BY <1>1, <1>2, FiniteCovered
<1> QED BY <1>3
=============================================================================
