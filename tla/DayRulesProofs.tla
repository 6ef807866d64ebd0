--------------------------- MODULE DayRulesProofs ---------------------------
(***************************************************************************)
(* Proofs about DayRules for days of one length and every course of the    *)
(* Moon within the bounds stated here: wherever tithis begin and however   *)
(* their lengths vary, a festival is kept on exactly one day.              *)
(***************************************************************************)
EXTENDS DayRules, TLAPS, FiniteSetTheorems

Times == INSTANCE LocalTimeProofs

-----------------------------------------------------------------------------
(* The Moon.                                                               *)

\* The tithis from somewhere before the days that are looked at to somewhere after
\* them: one after another, each of one of the lengths.
Chain(s, lengths) ==
  /\ s \in Seq(Int) /\ Len(s) > 0
  /\ \A i \in 1..(Len(s) - 1) : s[i + 1] - s[i] \in lengths
  /\ \A i, j \in 1..Len(s) : i < j => s[i] < s[j]

\* The tithis that are known begin at times, and reach over all the rules look at.
LEMMA ChainOfTimes ==
  ASSUME NEW lengths, NEW s, Chain(s, lengths)
  PROVE  Len(s) \in Nat /\ \A i \in 1..Len(s) : s[i] \in Int
BY DEF Chain

SkyInv ==
  /\ fest \in Festivals /\ first \in Int
  /\ Chain(begins, Lengths[fest]) /\ begins[1] <= Past /\ begins[Len(begins)] > Future

\* Tithis last at least four fifths of a day.
LongTithis == \A f \in Festivals : \A n \in Lengths[f] : n \in Int /\ 5 * n >= 4 * Day

\* Days are one as long as another.
SteadyDays == Drift = 0

LEMMA DayFacts ==
  /\ Day \in Nat \ {0} /\ Daytime \in Int /\ 0 < Daytime /\ Daytime < Day
  /\ Past \in Int /\ -2 * Day <= Past /\ Past <= -Day
  /\ Future \in Int /\ Day < Future + 1 /\ 5 * Future <= 9 * Day /\ 9 * Day < 5 * Future + 5
<1>1. Day \in Nat \ {0} /\ Daytime \in Int /\ 0 < Daytime /\ Daytime < Day
  <2>1. Day \in Nat \ {0} /\ Daytime \in 1..(Day - 1)
    BY FestivalsAssumption, Zenon
  <2> QED
    BY <2>1
<1>2. Past \in Int /\ -2 * Day <= Past /\ Past <= -Day
  BY <1>1 DEF Past
<1>3. Future \in Int /\ Day < Future + 1 /\ 5 * Future <= 9 * Day /\ 9 * Day < 5 * Future + 5
  BY <1>1 DEF Future
<1> QED
  BY <1>1, <1>2, <1>3

\* The greatest of some positions.
LEMMA LastPosition ==
  ASSUME NEW n \in Nat, NEW T \in SUBSET (1..n), T # {}
  PROVE  Max(T) \in T /\ Max(T) \in 1..n /\ \A j \in T : j <= Max(T)
<1>1. T \in SUBSET Int /\ n \in Int /\ \A x \in T : x <= n
  OBVIOUS
<1>2. \E x \in T : \A y \in T : y <= x
  BY <1>1, Times!GreatestInteger, DayFacts
<1>3. \E x \in T : \A y \in T : x >= y
  BY <1>1, <1>2
<1>4. Max(T) \in T /\ \A y \in T : Max(T) >= y
  BY <1>3, Zenon DEF Max
<1> QED
  BY <1>1, <1>4

\* The position of the tithi at a time.
IndexIn(s, t) == Max({i \in DOMAIN s : s[i] <= t})

LEMMA IndexIsLast ==
  ASSUME NEW lengths, NEW s, Chain(s, lengths), NEW t \in Int, s[1] <= t
  PROVE  LET k == IndexIn(s, t)
         IN /\ k \in 1..Len(s) /\ k \in Int /\ Len(s) \in Nat /\ s[k] \in Int /\ s[k] <= t
            /\ \A j \in 1..Len(s) : s[j] <= t => j <= k
            /\ t < s[Len(s)] => k + 1 \in 1..Len(s) /\ s[k + 1] \in Int /\ t < s[k + 1]
<1> DEFINE T == {i \in DOMAIN s : s[i] <= t}
           n == Len(s)
           k == IndexIn(s, t)
<1>1. n \in Nat /\ n > 0 /\ DOMAIN s = 1..n /\ \A i \in 1..n : s[i] \in Int
  BY DEF Chain
<1>2. 1 \in T /\ T \in SUBSET (1..n)
  BY <1>1
<1>3. k = Max(T)
  BY DEF IndexIn
<1> HIDE DEF T, k
<1>4. Max(T) \in T /\ Max(T) \in 1..n /\ \A j \in T : j <= Max(T)
  BY <1>1, <1>2, LastPosition
<1>5. k \in 1..n /\ k \in Int /\ s[k] <= t /\ \A j \in 1..n : s[j] <= t => j <= k
  BY <1>1, <1>3, <1>4 DEF T
<1>6. ASSUME t < s[n] PROVE k + 1 \in 1..n /\ s[k + 1] \in Int /\ t < s[k + 1]
  <2>0. s[n] \in Int /\ ~(s[n] <= t) /\ k \in 1..n /\ k \in Int
    BY <1>1, <1>5, <1>6
  <2>1. k # n
    BY <1>5, <2>0
  <2> HIDE DEF n
  <2>2. k + 1 \in 1..n /\ ~(k + 1 <= k)
    BY <1>1, <2>0, <2>1
  <2>3. ~(s[k + 1] <= t) /\ s[k + 1] \in Int
    BY <1>1, <1>5, <2>2
  <2> QED
    BY <2>2, <2>3
<1> QED
  BY <1>1, <1>5, <1>6 DEF k

LEMMA IndexIsUnique ==
  ASSUME NEW lengths, NEW s, Chain(s, lengths), NEW t \in Int, NEW k, k \in 1..Len(s), k + 1 \in 1..Len(s),
         s[k] <= t, t < s[k + 1]
  PROVE  IndexIn(s, t) = k
<1> DEFINE n == Len(s)
           m == IndexIn(s, t)
<1>1. n \in Nat /\ k \in 1..n /\ k + 1 \in 1..n /\ \A i \in 1..n : s[i] \in Int
  BY DEF Chain
<1>2. \A i, j \in 1..n : i <= j => s[i] <= s[j]
  <2> SUFFICES ASSUME NEW i \in 1..n, NEW j \in 1..n, i <= j PROVE s[i] <= s[j]
    OBVIOUS
  <2>1. i < j => s[i] < s[j]
    BY DEF Chain
  <2> QED
    BY <1>1, <2>1
<1>3. s[1] <= t /\ 1 \in 1..n
  BY <1>1, <1>2
<1>4. m \in 1..n /\ s[m] <= t /\ k <= m
  BY <1>1, <1>3, IndexIsLast
<1> HIDE DEF m
<1>5. ~(k + 1 <= m)
  BY <1>1, <1>2, <1>4
<1> QED
  BY <1>1, <1>4, <1>5 DEF m

\* The same for the times the rules look at.
LEMMA IndexFacts ==
  ASSUME SkyInv, NEW t \in Int, Past <= t, t <= Future
  PROVE  /\ Index(t) \in 1..Len(begins) /\ Index(t) + 1 \in 1..Len(begins)
         /\ Index(t) \in Int /\ Ordinal(t) \in Int /\ Ordinal(t) = first + Index(t) - 1
         /\ begins[Index(t)] \in Int /\ begins[Index(t) + 1] \in Int
         /\ begins[Index(t)] <= t /\ t < begins[Index(t) + 1]
         /\ \A j \in 1..Len(begins) : begins[j] <= t => j <= Index(t)
<1>1. Chain(begins, Lengths[fest]) /\ begins[1] <= Past /\ begins[Len(begins)] > Future /\ first \in Int
  BY DEF SkyInv
<1>2. begins[1] \in Int /\ begins[Len(begins)] \in Int
  BY <1>1 DEF Chain
<1>3. begins[1] <= t /\ t < begins[Len(begins)]
  BY <1>1, <1>2, DayFacts
<1> QED
  <2>1. Index(t) = IndexIn(begins, t)
    BY DEF Index, IndexIn
  <2> QED
    BY <1>1, <1>3, <2>1, IndexIsLast DEF Ordinal

\* Tithis go on, and at most k of them begin within k times four fifths of a day.
LEMMA OrdinalsGrow ==
  ASSUME SkyInv, LongTithis, NEW t \in Int, NEW u \in Int, Past <= t, t <= u, u <= Future
  PROVE  /\ Ordinal(t) \in Int /\ Ordinal(u) \in Int /\ Ordinal(t) <= Ordinal(u)
         /\ 5 * (u - t) <= 4 * Day => Ordinal(u) <= Ordinal(t) + 1
         /\ 5 * (u - t) <= 8 * Day => Ordinal(u) <= Ordinal(t) + 2
<1> DEFINE i == Index(t)
           j == Index(u)
           n == Len(begins)
<1>1. /\ i \in 1..n /\ i + 1 \in 1..n /\ i \in Int /\ Ordinal(t) = first + i - 1
      /\ begins[i] <= t /\ t < begins[i + 1]
  BY DayFacts, IndexFacts
<1>2. /\ j \in 1..n /\ j \in Int /\ Ordinal(u) = first + j - 1 /\ begins[j] <= u
      /\ \A k \in 1..n : begins[k] <= u => k <= j
  BY DayFacts, IndexFacts
<1>3. first \in Int /\ n \in Nat /\ Day \in Int /\ fest \in Festivals /\ \A k \in 1..n : begins[k] \in Int
  BY DayFacts DEF SkyInv, Chain
<1> HIDE DEF i, j, n
<1>4. i <= j
  <2>1. begins[i] <= u
    BY <1>1, <1>3
  <2> QED
    BY <1>1, <1>2, <2>1
<1>5. \A k \in 1..n : k + 1 \in 1..n => 5 * (begins[k + 1] - begins[k]) >= 4 * Day
  <2> SUFFICES ASSUME NEW k \in 1..n, k + 1 \in 1..n PROVE 5 * (begins[k + 1] - begins[k]) >= 4 * Day
    OBVIOUS
  <2>1. k \in 1..(n - 1)
    BY <1>3
  <2>2. begins[k + 1] - begins[k] \in Lengths[fest]
    BY <2>1 DEF SkyInv, Chain, n
  <2> QED
    BY <1>3, <2>2 DEF LongTithis
<1>6. \A k, l \in 1..n : k <= l => begins[k] <= begins[l]
  <2> SUFFICES ASSUME NEW k \in 1..n, NEW l \in 1..n, k <= l PROVE begins[k] <= begins[l]
    OBVIOUS
  <2>1. k < l => begins[k] < begins[l]
    BY DEF SkyInv, Chain, n
  <2> QED
    BY <1>3, <2>1
<1>7. ASSUME 5 * (u - t) <= 4 * Day PROVE j <= i + 1
  <2> SUFFICES ASSUME i + 2 <= j PROVE FALSE
    BY <1>1, <1>2
  <2>1. i + 2 \in 1..n /\ (i + 1) + 1 = i + 2
    BY <1>1, <1>2, <1>3
  <2>2. 5 * (begins[i + 2] - begins[i + 1]) >= 4 * Day
    BY <1>1, <1>5, <2>1
  <2>3. begins[i + 2] <= begins[j]
    BY <1>2, <1>6, <2>1
  <2>4. begins[i + 2] \in Int /\ begins[i + 1] \in Int /\ begins[j] \in Int
    BY <1>1, <1>2, <1>3, <2>1
  <2> QED
    BY <1>1, <1>2, <1>3, <1>7, <2>2, <2>3, <2>4
<1>8. ASSUME 5 * (u - t) <= 8 * Day PROVE j <= i + 2
  <2> SUFFICES ASSUME i + 3 <= j PROVE FALSE
    BY <1>1, <1>2
  <2>1. i + 2 \in 1..n /\ (i + 1) + 1 = i + 2 /\ i + 3 \in 1..n /\ (i + 2) + 1 = i + 3
    BY <1>1, <1>2, <1>3
  <2>2. 5 * (begins[i + 2] - begins[i + 1]) >= 4 * Day /\ 5 * (begins[i + 3] - begins[i + 2]) >= 4 * Day
    BY <1>1, <1>5, <2>1
  <2>3. begins[i + 3] <= begins[j]
    BY <1>2, <1>6, <2>1
  <2>4. begins[i + 2] \in Int /\ begins[i + 1] \in Int /\ begins[i + 3] \in Int /\ begins[j] \in Int
    BY <1>1, <1>2, <1>3, <2>1
  <2> QED
    BY <1>1, <1>2, <1>3, <1>8, <2>2, <2>3, <2>4
<1> QED
  BY <1>1, <1>2, <1>3, <1>4, <1>7, <1>8

-----------------------------------------------------------------------------
(* The tithis that are added from day to day.                              *)

\* What one round of growing makes of some courses.
Rounds(S) == UNION {Continued(x) : x \in S}

LEMMA GrownTwice == ASSUME NEW s PROVE Grown(s, 2) = Rounds(Rounds({s}))
<1> DEFINE F(g) == [i \in 0..2 |-> IF i = 0 THEN {s} ELSE UNION {Continued(x) : x \in g[i - 1]}]
           h == [i \in 0..2 |-> IF i = 0 THEN {s} ELSE IF i = 1 THEN Rounds({s}) ELSE Rounds(Rounds({s}))]
           f == CHOOSE g : g = F(g)
<1>1. h = F(h)
  <2> SUFFICES ASSUME NEW i \in 0..2
               PROVE  h[i] = IF i = 0 THEN {s} ELSE UNION {Continued(x) : x \in h[i - 1]}
    OBVIOUS
  <2>1. i = 0 \/ i = 1 \/ i = 2
    OBVIOUS
  <2>2. h[0] = {s} /\ h[1] = Rounds({s}) /\ h[2] = Rounds(Rounds({s}))
    OBVIOUS
  <2>3. 1 - 1 = 0 /\ 2 - 1 = 1
    OBVIOUS
  <2> HIDE DEF h
  <2> QED
    BY <2>1, <2>2, <2>3 DEF Rounds
<1>2. f = F(f)
  <2> HIDE DEF F, h
  <2> QED
    BY <1>1
<1>3. f[0] = {s} /\ f[1] = Rounds(f[0]) /\ f[2] = Rounds(f[1])
  <2> HIDE DEF f
  <2>1. f = [i \in 0..2 |-> IF i = 0 THEN {s} ELSE UNION {Continued(x) : x \in f[i - 1]}]
    BY <1>2
  <2>2. /\ f[0] = (IF 0 = 0 THEN {s} ELSE UNION {Continued(x) : x \in f[0 - 1]})
        /\ f[1] = (IF 1 = 0 THEN {s} ELSE UNION {Continued(x) : x \in f[1 - 1]})
        /\ f[2] = (IF 2 = 0 THEN {s} ELSE UNION {Continued(x) : x \in f[2 - 1]})
    <3> HIDE <1>2
    <3>1. 0 \in 0..2 /\ 1 \in 0..2 /\ 2 \in 0..2
      OBVIOUS
    <3> QED
      BY <2>1, <3>1, Zenon
  <2>3. 1 - 1 = 0 /\ 2 - 1 = 1 /\ 1 # 0 /\ 2 # 0
    OBVIOUS
  <2> QED
    BY <2>2, <2>3 DEF Rounds
<1>4. Grown(s, 2) = f[2]
  BY DEF Grown
<1> QED
  BY <1>3, <1>4

LEMMA GrownSixfold ==
  ASSUME NEW s PROVE Grown(s, 6) = Rounds(Rounds(Rounds(Rounds(Rounds(Rounds({s}))))))
<1> DEFINE r1 == Rounds({s})
           r2 == Rounds(r1)
           r3 == Rounds(r2)
           r4 == Rounds(r3)
           r5 == Rounds(r4)
           r6 == Rounds(r5)
           F(g) == [i \in 0..6 |-> IF i = 0 THEN {s} ELSE UNION {Continued(x) : x \in g[i - 1]}]
           h == [i \in 0..6 |-> CASE i = 0 -> {s} [] i = 1 -> r1 [] i = 2 -> r2 [] i = 3 -> r3
                                   [] i = 4 -> r4 [] i = 5 -> r5 [] i = 6 -> r6]
           f == CHOOSE g : g = F(g)
<1>1. h = F(h)
  <2> HIDE DEF r1, r2, r3, r4, r5, r6
  <2> SUFFICES ASSUME NEW i \in 0..6
               PROVE  h[i] = IF i = 0 THEN {s} ELSE UNION {Continued(x) : x \in h[i - 1]}
    OBVIOUS
  <2>1. i \in {0, 1, 2, 3, 4, 5, 6}
    OBVIOUS
  <2>2. h[0] = {s} /\ h[1] = r1 /\ h[2] = r2 /\ h[3] = r3 /\ h[4] = r4 /\ h[5] = r5 /\ h[6] = r6
    OBVIOUS
  <2>3. 1 - 1 = 0 /\ 2 - 1 = 1 /\ 3 - 1 = 2 /\ 4 - 1 = 3 /\ 5 - 1 = 4 /\ 6 - 1 = 5
    OBVIOUS
  <2> HIDE DEF h
  <2> QED
    BY <2>1, <2>2, <2>3 DEF Rounds, r1, r2, r3, r4, r5, r6
<1>2. f = F(f)
  <2> HIDE DEF F, h
  <2> QED
    BY <1>1
<1>3. /\ f[0] = {s} /\ f[1] = Rounds(f[0]) /\ f[2] = Rounds(f[1]) /\ f[3] = Rounds(f[2])
      /\ f[4] = Rounds(f[3]) /\ f[5] = Rounds(f[4]) /\ f[6] = Rounds(f[5])
  <2> HIDE DEF f
  <2>1. f = [i \in 0..6 |-> IF i = 0 THEN {s} ELSE UNION {Continued(x) : x \in f[i - 1]}]
    BY <1>2
  <2>2. \A i \in 0..6 : f[i] = IF i = 0 THEN {s} ELSE UNION {Continued(x) : x \in f[i - 1]}
    <3> HIDE <1>2
    <3> QED
      BY <2>1, Zenon
  <2>3. f[0] = {s} /\ \A i \in 1..6 : f[i] = Rounds(f[i - 1])
    BY <2>2 DEF Rounds
  <2>4. 1 - 1 = 0 /\ 2 - 1 = 1 /\ 3 - 1 = 2 /\ 4 - 1 = 3 /\ 5 - 1 = 4 /\ 6 - 1 = 5
    OBVIOUS
  <2> QED
    BY <2>3, <2>4
<1>4. Grown(s, 6) = f[6]
  BY DEF Grown
<1> HIDE DEF f
<1> QED
  BY <1>3, <1>4

\* A round keeps what there is, and adds a tithi unless there are enough.
LEMMA RoundAdds ==
  ASSUME LongTithis, fest \in Festivals, NEW s, Chain(s, Lengths[fest]), NEW x \in Continued(s)
  PROVE  /\ Chain(x, Lengths[fest]) /\ Len(s) <= Len(x) /\ \A i \in 1..Len(s) : x[i] = s[i]
         /\ \/ x[Len(x)] > Future
            \/ Len(x) = Len(s) + 1 /\ 5 * (x[Len(x)] - s[Len(s)]) >= 4 * Day
<1> DEFINE n == Len(s)
<1>1. n \in Nat /\ n > 0 /\ s \in Seq(Int) /\ n \in 1..n /\ \A i \in 1..n : s[i] \in Int
  BY DEF Chain
<1>2. CASE s[n] > Future
  <2>1. x = s
    BY <1>2 DEF Continued
  <2> QED
    BY <1>1, <1>2, <2>1
<1>3. CASE ~(s[n] > Future)
  <2>1. PICK length \in Lengths[fest] : x = Append(s, s[n] + length)
    BY <1>3 DEF Continued
  <2>2. length \in Int /\ 5 * length >= 4 * Day /\ length > 0
    BY <2>1, DayFacts DEF LongTithis
  <2> DEFINE e == s[n] + length
  <2>3. e \in Int /\ e - s[n] = length /\ s[n] < e
    BY <1>1, <2>2
  <2> HIDE DEF e
  <2>4. x \in Seq(Int) /\ Len(x) = n + 1 /\ x[n + 1] = e /\ \A i \in 1..n : x[i] = s[i]
    BY <1>1, <2>1, <2>3 DEF e
  <2>5. \A i \in 1..(Len(x) - 1) : x[i + 1] - x[i] \in Lengths[fest]
    <3> SUFFICES ASSUME NEW i \in 1..n PROVE x[i + 1] - x[i] \in Lengths[fest]
      BY <1>1, <2>4
    <3>1. CASE i = n
      BY <1>1, <2>1, <2>3, <2>4, <3>1
    <3>2. CASE i # n
      <4>1. i \in 1..(n - 1) /\ i + 1 \in 1..n
        BY <1>1, <3>2
      <4>2. s[i + 1] - s[i] \in Lengths[fest]
        BY <4>1 DEF Chain
      <4> QED
        BY <2>4, <4>1, <4>2
    <3> QED
      BY <3>1, <3>2
  <2>6. \A i \in 1..n : s[i] <= s[n]
    <3> SUFFICES ASSUME NEW i \in 1..n PROVE s[i] <= s[n]
      OBVIOUS
    <3>1. i < n => s[i] < s[n]
      BY <1>1 DEF Chain
    <3> QED
      BY <1>1, <3>1
  <2>7. \A i, j \in 1..Len(x) : i < j => x[i] < x[j]
    <3> SUFFICES ASSUME NEW i \in 1..(n + 1), NEW j \in 1..(n + 1), i < j PROVE x[i] < x[j]
      BY <2>4
    <3>1. CASE j = n + 1
      <4>1. i \in 1..n
        BY <1>1, <3>1
      <4>2. s[i] \in Int /\ s[n] \in Int /\ s[i] <= s[n]
        BY <1>1, <2>6, <4>1
      <4> QED
        BY <2>3, <2>4, <3>1, <4>1, <4>2
    <3>2. CASE j # n + 1
      <4>1. i \in 1..n /\ j \in 1..n
        BY <1>1, <3>2
      <4>2. s[i] < s[j]
        BY <4>1 DEF Chain
      <4> QED
        BY <2>4, <4>1, <4>2
    <3> QED
      BY <3>1, <3>2
  <2>8. Chain(x, Lengths[fest])
    BY <1>1, <2>4, <2>5, <2>7 DEF Chain
  <2> QED
    BY <1>1, <2>2, <2>3, <2>4, <2>8
<1> QED
  BY <1>2, <1>3

\* A course from a start that is long enough, or has a number of tithis.
Reaches(s, b, n) ==
  Chain(s, Lengths[fest]) /\ s[1] = b /\ (s[Len(s)] > Future \/ Len(s) = n)

\* Rounds, one after another.
LEMMA RoundsKeep ==
  ASSUME LongTithis, fest \in Festivals, NEW S, NEW b \in Int, NEW n \in Nat \ {0},
         \A s \in S : Reaches(s, b, n)
  PROVE  \A x \in Rounds(S) : Reaches(x, b, n + 1)
<1> SUFFICES ASSUME NEW x \in Rounds(S) PROVE Reaches(x, b, n + 1)
  OBVIOUS
<1>1. PICK s \in S : x \in Continued(s)
  BY DEF Rounds
<1>2. Chain(s, Lengths[fest]) /\ s[1] = b /\ (s[Len(s)] > Future \/ Len(s) = n)
  BY <1>1 DEF Reaches
<1>3. /\ Chain(x, Lengths[fest]) /\ Len(s) <= Len(x) /\ \A i \in 1..Len(s) : x[i] = s[i]
      /\ x[Len(x)] > Future \/ Len(x) = Len(s) + 1
  BY <1>1, <1>2, RoundAdds
<1>4. 1 \in 1..Len(s)
  BY <1>2 DEF Chain
<1>5. s[Len(s)] > Future => x = s
  BY <1>1 DEF Continued
<1> QED
  BY <1>2, <1>3, <1>4, <1>5 DEF Reaches

LEMMA InitSky == ASSUME LongTithis, Init PROVE SkyInv /\ Ordinal(0) = -3
<1>1. fest \in Festivals
  BY DEF Init
<1>2. PICK b \in Starts : b <= Past /\ begins \in {s \in Grown(<<b>>, 6) : s[2] > Past}
  BY DEF Init
<1>3. b \in Int
  BY <1>2, FestivalsAssumption, Zenon
<1> DEFINE S0 == {<<b>>}
           S1 == Rounds(S0)
           S2 == Rounds(S1)
           S3 == Rounds(S2)
           S4 == Rounds(S3)
           S5 == Rounds(S4)
<1>4. begins \in Rounds(S5) /\ begins[2] > Past
  BY <1>2, GrownSixfold
<1>5. \A s \in S0 : Reaches(s, b, 1)
  <2>1. <<b>> \in Seq(Int) /\ Len(<<b>>) = 1 /\ <<b>>[1] = b
    BY <1>3
  <2>2. Chain(<<b>>, Lengths[fest])
    BY <2>1 DEF Chain
  <2> QED
    BY <2>1, <2>2 DEF Reaches
<1> HIDE DEF S0, S1, S2, S3, S4, S5
<1>6. \A s \in S1 : Reaches(s, b, 2)
  BY <1>1, <1>3, <1>5, RoundsKeep, 1 + 1 = 2 DEF S1
<1>7. \A s \in S2 : Reaches(s, b, 3)
  BY <1>1, <1>3, <1>6, RoundsKeep, 2 + 1 = 3 DEF S2
<1>8. \A s \in S3 : Reaches(s, b, 4)
  BY <1>1, <1>3, <1>7, RoundsKeep, 3 + 1 = 4 DEF S3
<1>9. \A s \in S4 : Reaches(s, b, 5)
  BY <1>1, <1>3, <1>8, RoundsKeep, 4 + 1 = 5 DEF S4
<1>10. \A s \in S5 : Reaches(s, b, 6)
  BY <1>1, <1>3, <1>9, RoundsKeep, 5 + 1 = 6 DEF S5
<1>11. \A s \in Rounds(S5) : Reaches(s, b, 7)
  BY <1>1, <1>3, <1>10, RoundsKeep, 6 + 1 = 7
<1>12. Chain(begins, Lengths[fest]) /\ begins[1] = b /\ (begins[Len(begins)] > Future \/ Len(begins) = 7)
  BY <1>4, <1>11 DEF Reaches
<1>13. begins[Len(begins)] > Future
  <2> SUFFICES ASSUME Len(begins) = 7 PROVE begins[7] > Future
    BY <1>12
  <2>1. \A i \in 1..7 : begins[i] \in Int
    <3>1. \A i \in 1..Len(begins) : begins[i] \in Int
      BY <1>12, ChainOfTimes, Zenon
    <3> QED
      BY <3>1, Zenon
  <2>2. \A i \in 1..6 : 5 * (begins[i + 1] - begins[i]) >= 4 * Day
    <3> SUFFICES ASSUME NEW i \in 1..6 PROVE 5 * (begins[i + 1] - begins[i]) >= 4 * Day
      OBVIOUS
    <3>1. \A k \in 1..(Len(begins) - 1) : begins[k + 1] - begins[k] \in Lengths[fest]
      BY <1>12 DEF Chain
    <3>2. i \in 1..(Len(begins) - 1)
      OBVIOUS
    <3>3. begins[i + 1] - begins[i] \in Lengths[fest]
      BY <3>1, <3>2, Zenon
    <3> QED
      BY <1>1, <3>3 DEF LongTithis
  <2>3. /\ 5 * (begins[3] - begins[2]) >= 4 * Day /\ 5 * (begins[4] - begins[3]) >= 4 * Day
        /\ 5 * (begins[5] - begins[4]) >= 4 * Day /\ 5 * (begins[6] - begins[5]) >= 4 * Day
        /\ 5 * (begins[7] - begins[6]) >= 4 * Day
    <3>1. 2 + 1 = 3 /\ 3 + 1 = 4 /\ 4 + 1 = 5 /\ 5 + 1 = 6 /\ 6 + 1 = 7
      OBVIOUS
    <3> QED
      BY <2>2, <3>1
  <2>4. /\ begins[2] \in Int /\ begins[3] \in Int /\ begins[4] \in Int /\ begins[5] \in Int
        /\ begins[6] \in Int /\ begins[7] \in Int
    BY <2>1
  <2> QED
    BY <1>4, <2>3, <2>4, DayFacts
<1>14. begins[1] <= Past
  BY <1>2, <1>12
<1>15. first = -3 - (Index(0) - 1)
  BY DEF Init, Index
<1>16. Index(0) \in Int
  <2>1. Index(0) = IndexIn(begins, 0)
    BY DEF Index, IndexIn
  <2>2. begins[1] <= 0
    BY <1>3, <1>12, <1>14, DayFacts
  <2> QED
    BY <1>12, <2>1, <2>2, IndexIsLast
<1>17. SkyInv
  BY <1>1, <1>12, <1>13, <1>14, <1>15, <1>16 DEF SkyInv
<1>18. Ordinal(0) = -3
  BY <1>15, <1>16 DEF Ordinal
<1> QED
  BY <1>17, <1>18

\* The next day sees the same Moon a day earlier, and some more of it.
LEMMA NextSky ==
  ASSUME LongTithis, SkyInv, NextDay
  PROVE  /\ SkyInv'
         /\ \A x \in Int : Past <= x /\ x + Day <= Future =>
              /\ Ordinal(x)' = Ordinal(x + Day) /\ TithiAt(x)' = TithiAt(x + Day)
              /\ KaranaAt(x)' = KaranaAt(x + Day)
<1> DEFINE shifted == [i \in DOMAIN begins |-> begins[i] - Day]
           from == Max({i \in DOMAIN shifted : shifted[i] <= Past})
           n == Len(begins)
           rest == SubSeq(shifted, from, Len(shifted))
<1>1. begins' \in Grown(rest, 2) /\ first' = first + from - 1 /\ fest' = fest /\ Past' = Past
  BY DEF NextDay, Past
<1>2. /\ fest \in Festivals /\ first \in Int /\ begins \in Seq(Int) /\ n \in Nat /\ n > 0
      /\ DOMAIN begins = 1..n /\ \A i \in 1..n : begins[i] \in Int
      /\ Chain(begins, Lengths[fest]) /\ begins[1] <= Past /\ begins[n] > Future
  BY DEF SkyInv, Chain
<1>3. /\ shifted \in Seq(Int) /\ Len(shifted) = n /\ DOMAIN shifted = 1..n
      /\ \A i \in 1..n : shifted[i] = begins[i] - Day
  BY <1>2, DayFacts
<1>4. /\ from \in 1..n /\ from \in Int /\ shifted[from] <= Past
      /\ \A j \in 1..n : shifted[j] <= Past => j <= from
  <2> DEFINE T == {i \in DOMAIN shifted : shifted[i] <= Past}
  <2>1. 1 \in T /\ T \in SUBSET (1..n)
    BY <1>2, <1>3, DayFacts
  <2> HIDE DEF T
  <2>2. Max(T) \in T /\ Max(T) \in 1..n /\ \A j \in T : j <= Max(T)
    BY <1>2, <2>1, LastPosition
  <2> HIDE DEF shifted
  <2> QED
    BY <1>3, <2>2 DEF T
<1> HIDE DEF shifted, from
<1> DEFINE m == n - from + 1
<1>5. /\ rest \in Seq(Int) /\ Len(rest) = m /\ m \in Nat /\ m > 0
      /\ \A i \in 1..m : from + i - 1 \in 1..n /\ rest[i] = begins[from + i - 1] - Day
  <2>1. m \in Nat /\ m > 0 /\ \A i \in 1..m : from + i - 1 \in 1..n
    BY <1>2, <1>4
  <2>2. rest \in Seq(Int) /\ Len(rest) = m /\ \A i \in 1..m : rest[i] = shifted[from + i - 1]
    BY <1>2, <1>3, <1>4
  <2> QED
    BY <1>3, <2>1, <2>2
<1> HIDE DEF rest, m
<1>6. Chain(rest, Lengths[fest])
  <2>1. ASSUME NEW i \in 1..(m - 1) PROVE rest[i + 1] - rest[i] \in Lengths[fest]
    <3>1. i \in 1..m /\ i + 1 \in 1..m
      BY <1>5
    <3> DEFINE k == from + i - 1
    <3>2. k \in 1..n /\ k + 1 \in 1..n /\ from + (i + 1) - 1 = k + 1 /\ k \in Int
      BY <1>4, <1>5, <3>1
    <3>3. rest[i] = begins[k] - Day /\ rest[i + 1] = begins[k + 1] - Day
      BY <1>5, <3>1, <3>2
    <3> HIDE DEF k
    <3>4. begins[k + 1] - begins[k] \in Lengths[fest]
      <4>1. k \in 1..(n - 1)
        BY <1>2, <3>2
      <4> QED
        BY <1>2, <4>1 DEF Chain
    <3>5. begins[k] \in Int /\ begins[k + 1] \in Int
      BY <1>2, <3>2
    <3>6. rest[i + 1] - rest[i] = begins[k + 1] - begins[k]
      BY <3>3, <3>5, DayFacts
    <3> QED
      BY <3>4, <3>6
  <2>2. ASSUME NEW i \in 1..m, NEW j \in 1..m, i < j PROVE rest[i] < rest[j]
    <3> DEFINE k == from + i - 1
               l == from + j - 1
    <3>1. k \in 1..n /\ l \in 1..n /\ k < l /\ rest[i] = begins[k] - Day /\ rest[j] = begins[l] - Day
      BY <1>4, <1>5, <2>2
    <3> HIDE DEF k, l
    <3>2. begins[k] < begins[l] /\ begins[k] \in Int /\ begins[l] \in Int
      BY <1>2, <3>1 DEF Chain
    <3> QED
      BY <3>1, <3>2, DayFacts
  <2> QED
    BY <1>5, <2>1, <2>2 DEF Chain
<1>7. PICK y \in Continued(rest) : begins' \in Continued(y)
  BY <1>1, GrownTwice DEF Rounds
<1>8. /\ Chain(y, Lengths[fest]) /\ m <= Len(y) /\ \A i \in 1..m : y[i] = rest[i]
      /\ y[Len(y)] > Future \/ (Len(y) = m + 1 /\ 5 * (y[Len(y)] - rest[m]) >= 4 * Day)
  BY <1>2, <1>5, <1>6, <1>7, RoundAdds
<1>9. /\ Chain(begins', Lengths[fest]) /\ Len(y) <= Len(begins') /\ \A i \in 1..Len(y) : begins'[i] = y[i]
      /\ begins'[Len(begins')] > Future \/ 5 * (begins'[Len(begins')] - y[Len(y)]) >= 4 * Day
  BY <1>2, <1>7, <1>8, RoundAdds
<1>10. begins'[Len(begins')] > Future
  <2>1. y[Len(y)] > Future => begins' = y
    BY <1>7 DEF Continued
  <2>2. begins'[Len(begins')] \in Int /\ y[Len(y)] \in Int
    BY <1>8, <1>9 DEF Chain
  <2>3. rest[m] = begins[n] - Day /\ begins[n] \in Int
    <3>1. m \in 1..m /\ from + m - 1 = n /\ n \in 1..n
      BY <1>2, <1>4, <1>5 DEF m
    <3> QED
      BY <1>2, <1>5, <3>1
  <2> DEFINE z == begins'[Len(begins')]
             v == y[Len(y)]
             r == rest[m]
             e == begins[n]
  <2>4. /\ z \in Int /\ v \in Int /\ e \in Int /\ r = e - Day /\ e > Future
        /\ v > Future => z = v
        /\ v > Future \/ 5 * (v - r) >= 4 * Day
        /\ z > Future \/ 5 * (z - v) >= 4 * Day
    BY <1>2, <1>8, <1>9, <2>1, <2>2, <2>3
  <2> HIDE DEF z, v, r, e
  <2>5. z > Future
    BY <2>4, DayFacts
  <2> QED
    BY <2>5 DEF z
<1>11. m <= Len(begins') /\ Len(begins') \in Nat /\ \A i \in 1..m : begins'[i] = begins[from + i - 1] - Day
  <2>1. Len(y) \in Nat /\ Len(begins') \in Nat
    BY <1>8, <1>9 DEF Chain
  <2>2. \A i \in 1..m : i \in 1..Len(y)
    BY <1>5, <1>8, <2>1
  <2> QED
    BY <1>5, <1>8, <1>9, <2>1, <2>2
<1>12. SkyInv'
  <2>1. 1 \in 1..m /\ from + 1 - 1 = from
    BY <1>4, <1>5
  <2>2. begins'[1] = begins[from] - Day /\ shifted[from] = begins[from] - Day
    BY <1>3, <1>4, <1>11, <2>1
  <2>3. begins'[1] <= Past
    BY <1>4, <2>2
  <2>4. Future' = Future /\ Lengths[fest]' = Lengths[fest] /\ first' \in Int
    BY <1>1, <1>2, <1>4 DEF Future
  <2> QED
    BY <1>1, <1>2, <1>9, <1>10, <2>3, <2>4 DEF SkyInv
<1>13. ASSUME NEW x \in Int, Past <= x, x + Day <= Future
       PROVE  /\ Ordinal(x)' = Ordinal(x + Day) /\ TithiAt(x)' = TithiAt(x + Day)
              /\ KaranaAt(x)' = KaranaAt(x + Day)
  <2> DEFINE k == Index(x + Day)
             i == k - from + 1
  <2>0. x + Day \in Int /\ Past <= x + Day /\ x + Day <= Future
    BY <1>13, DayFacts
  <2>1. /\ k \in 1..n /\ k + 1 \in 1..n /\ k \in Int /\ Ordinal(x + Day) = first + k - 1
        /\ begins[k] \in Int /\ begins[k + 1] \in Int /\ begins[k] <= x + Day /\ x + Day < begins[k + 1]
        /\ \A j \in 1..n : begins[j] <= x + Day => j <= k
    BY <2>0, IndexFacts
  <2> HIDE DEF k
  <2>2. from <= k
    <3>1. begins[from] - Day <= Past /\ begins[from] \in Int
      BY <1>2, <1>3, <1>4
    <3>2. begins[from] <= x + Day
      BY <1>13, <3>1, DayFacts
    <3> QED
      BY <1>4, <2>1, <3>2
  <2>3. i \in 1..m /\ i + 1 \in 1..m /\ from + i - 1 = k /\ from + (i + 1) - 1 = k + 1
    BY <1>2, <1>4, <2>1, <2>2 DEF m
  <2>4. begins'[i] = begins[k] - Day /\ begins'[i + 1] = begins[k + 1] - Day
    BY <1>11, <2>3
  <2>5. i \in 1..Len(begins') /\ i + 1 \in 1..Len(begins') /\ begins'[i] <= x /\ x < begins'[i + 1]
    <3> HIDE DEF i
    <3> DEFINE l == Len(begins')
    <3>0. l \in Nat /\ m \in Nat /\ m <= l
      BY <1>5, <1>11
    <3> HIDE DEF l
    <3>3. i \in 1..l /\ i + 1 \in 1..l
      BY <2>3, <3>0
    <3>1. i \in 1..Len(begins') /\ i + 1 \in 1..Len(begins')
      BY <3>3 DEF l
    <3>2. begins[k] - Day <= x /\ x < begins[k + 1] - Day
      BY <1>13, <2>1, DayFacts
    <3> QED
      BY <2>4, <3>1, <3>2
  <2>6. Index(x)' = i
    <3>1. Index(x)' = IndexIn(begins', x)
      BY DEF Index, IndexIn
    <3> HIDE DEF i
    <3> QED
      BY <1>9, <1>13, <2>5, <3>1, IndexIsUnique
  <2>7. Ordinal(x)' = Ordinal(x + Day)
    BY <1>1, <1>2, <1>4, <2>1, <2>6 DEF Ordinal
  <2>8. TithiAt(x)' = TithiAt(x + Day)
    BY <1>1, <2>7 DEF TithiAt
  <2>9. /\ x - begins'[i] = (x + Day) - begins[k]
        /\ begins'[i + 1] - begins'[i] = begins[k + 1] - begins[k]
    BY <1>13, <2>1, <2>4, DayFacts
  <2>10. KaranaAt(x)' = 2 * TithiAt(x)' - (IF 2 * (x - begins'[i]) >= begins'[i + 1] - begins'[i] THEN 0 ELSE 1)
    BY <2>6 DEF KaranaAt
  <2>11. KaranaAt(x + Day) = 2 * TithiAt(x + Day)
           - (IF 2 * ((x + Day) - begins[k]) >= begins[k + 1] - begins[k] THEN 0 ELSE 1)
    BY DEF KaranaAt, k
  <2> QED
    BY <2>7, <2>8, <2>9, <2>10, <2>11
<1> QED
  BY <1>12, <1>13

-----------------------------------------------------------------------------
(* The decisive windows and what meets them.                               *)

\* The edges of an entry's decisive window.
Edges == Window(Daytime)[fest.when]
FirstEdge == Edges[1]
LastEdge == Edges[Len(Edges)]

LEMMA WindowFacts ==
  ASSUME fest \in Festivals
  PROVE  /\ FirstEdge \in Int /\ LastEdge \in Int /\ 0 <= FirstEdge /\ FirstEdge <= LastEdge
         /\ ~NightRule => 5 * FirstEdge <= 3 * Daytime
         /\ \/ Edges = <<FirstEdge>> /\ FirstEdge = LastEdge
            \/ Edges = <<FirstEdge, LastEdge>>
<1>1. fest.when \in Whens
  <2>1. Festivals \subseteq Festival
    BY FestivalsAssumption, Zenon
  <2> QED
    BY <2>1 DEF Festival
<1>2. Night(Daytime) \in Int /\ 0 <= Night(Daytime)
  BY DayFacts DEF Night
<1>3. CASE fest.when = "sunrise"
  <2>1. Edges = <<0>>
    BY <1>3 DEF Edges, Window
  <2> QED
    BY <2>1, DayFacts DEF FirstEdge, LastEdge
<1>4. CASE fest.when = "purvahna"
  <2>1. Edges = <<(4 * Daytime) \div 10>>
    BY <1>4 DEF Edges, Window
  <2>2. FirstEdge = (4 * Daytime) \div 10 /\ LastEdge = (4 * Daytime) \div 10
    BY <2>1 DEF FirstEdge, LastEdge
  <2> QED
    BY <2>1, <2>2, DayFacts
<1>5. CASE fest.when = "midday"
  <2>1. Edges = <<Daytime \div 2>>
    BY <1>5 DEF Edges, Window
  <2>2. FirstEdge = Daytime \div 2 /\ LastEdge = Daytime \div 2
    BY <2>1 DEF FirstEdge, LastEdge
  <2> QED
    BY <2>1, <2>2, DayFacts
<1>6. CASE fest.when = "aparahna"
  <2>1. Edges = <<(6 * Daytime) \div 10, (8 * Daytime) \div 10>>
    BY <1>6 DEF Edges, Window
  <2>2. FirstEdge = (6 * Daytime) \div 10 /\ LastEdge = (8 * Daytime) \div 10
    BY <2>1 DEF FirstEdge, LastEdge
  <2> QED
    BY <2>1, <2>2, DayFacts
<1>7. CASE fest.when = "pradosh"
  <2>1. Edges = <<Daytime, Daytime + 2 * Night(Daytime)>>
    BY <1>7 DEF Edges, Window
  <2>2. FirstEdge = Daytime /\ LastEdge = Daytime + 2 * Night(Daytime)
    BY <2>1 DEF FirstEdge, LastEdge
  <2> QED
    BY <1>2, <1>7, <2>1, <2>2, DayFacts DEF NightRule
<1>8. CASE fest.when = "nishita"
  <2>1. Edges = <<Daytime + 7 * Night(Daytime), Daytime + 8 * Night(Daytime)>>
    BY <1>8 DEF Edges, Window
  <2>2. FirstEdge = Daytime + 7 * Night(Daytime) /\ LastEdge = Daytime + 8 * Night(Daytime)
    BY <2>1 DEF FirstEdge, LastEdge
  <2> QED
    BY <1>2, <1>8, <2>1, <2>2, DayFacts DEF NightRule
<1> QED
  BY <1>1, <1>3, <1>4, <1>5, <1>6, <1>7, <1>8 DEF Whens

\* Within some days of the festival's tithi, that tithi, the one before and the one
\* after are told by their numbers.
LEMMA TithiByNumber ==
  ASSUME NEW n \in 1..30, NEW o \in Int, -20 <= o, o <= 20
  PROVE  LET tithi == ((n + o - 1) % 30) + 1
         IN (tithi = n <=> o = 0) /\ (tithi = Before(n) <=> o = -1) /\ (tithi = After(n) <=> o = 1)
BY DEF Before, After

LEMMA TithiFacts ==
  ASSUME fest \in Festivals, NEW t, Ordinal(t) \in Int, -20 <= Ordinal(t), Ordinal(t) <= 20
  PROVE  /\ TithiAt(t) = fest.tithi <=> Ordinal(t) = 0
         /\ TithiAt(t) = Before(fest.tithi) <=> Ordinal(t) = -1
         /\ TithiAt(t) = After(fest.tithi) <=> Ordinal(t) = 1
<1>1. fest.tithi \in 1..30
  <2>1. Festivals \subseteq Festival
    BY FestivalsAssumption, Zenon
  <2> QED
    BY <2>1 DEF Festival
<1> QED
  BY <1>1, TithiByNumber DEF TithiAt

\* How many edges of a window the tithi meets, if it has two edges and if it has one.
Meets(a, b, two) ==
  IF two THEN (IF a = 0 THEN 1 ELSE 0) + (IF b = 0 THEN 1 ELSE 0) ELSE IF a = 0 THEN 1 ELSE 0

LEMMA ScoreOfOne ==
  ASSUME NEW a PROVE Score(<<a>>) = IF a = fest.tithi THEN 1 ELSE 0
<1> DEFINE T == {i \in DOMAIN <<a>> : <<a>>[i] = fest.tithi}
<1>1. T = IF a = fest.tithi THEN {1} ELSE {}
  OBVIOUS
<1>2. Cardinality({1}) = 1 /\ Cardinality({}) = 0
  BY FS_Singleton, FS_EmptySet
<1>3. Score(<<a>>) = Cardinality(T)
  BY DEF Score
<1> HIDE DEF T
<1> QED
  BY <1>1, <1>2, <1>3

LEMMA ScoreOfTwo ==
  ASSUME NEW a, NEW b
  PROVE  Score(<<a, b>>) = (IF a = fest.tithi THEN 1 ELSE 0) + (IF b = fest.tithi THEN 1 ELSE 0)
<1> DEFINE T == {i \in DOMAIN <<a, b>> : <<a, b>>[i] = fest.tithi}
<1>1. T = IF a = fest.tithi THEN IF b = fest.tithi THEN {1} \cup {2} ELSE {1}
          ELSE IF b = fest.tithi THEN {2} ELSE {}
  OBVIOUS
<1>2. Cardinality({1}) = 1 /\ Cardinality({2}) = 1 /\ Cardinality({}) = 0 /\ IsFiniteSet({1})
  BY FS_Singleton, FS_EmptySet
<1>3. Cardinality({1} \cup {2}) = 2
  <2>1. 2 \notin {1} /\ 1 + 1 = 2
    OBVIOUS
  <2> QED
    BY <1>2, <2>1, FS_AddElement
<1>4. Score(<<a, b>>) = Cardinality(T)
  BY DEF Score
<1> HIDE DEF T
<1> QED
  BY <1>1, <1>2, <1>3, <1>4

\* The look at the window of the day that begins at d.
LEMMA LookFacts ==
  ASSUME fest \in Festivals, NEW d \in Int,
         Ordinal(d + FirstEdge) \in Int, -20 <= Ordinal(d + FirstEdge), Ordinal(d + FirstEdge) <= 20,
         Ordinal(d + LastEdge) \in Int, -20 <= Ordinal(d + LastEdge), Ordinal(d + LastEdge) <= 20
  PROVE  LET look == Tithis(fest.when, Daytime, d)
         IN /\ Score(look) = Meets(Ordinal(d + FirstEdge), Ordinal(d + LastEdge), Len(Edges) = 2)
            /\ look[1] = TithiAt(d + FirstEdge) /\ FinalOf(look) = TithiAt(d + LastEdge)
<1> DEFINE look == Tithis(fest.when, Daytime, d)
           A == TithiAt(d + FirstEdge)
           B == TithiAt(d + LastEdge)
<1>1. look = [i \in DOMAIN Edges |-> TithiAt(d + Edges[i])]
  BY DEF Tithis, Edges
<1>2. (A = fest.tithi <=> Ordinal(d + FirstEdge) = 0) /\ (B = fest.tithi <=> Ordinal(d + LastEdge) = 0)
  BY TithiFacts
<1>3. CASE Edges = <<FirstEdge>> /\ FirstEdge = LastEdge
  <2> DEFINE e == FirstEdge
  <2>1. \A x : x = [i \in DOMAIN <<e>> |-> TithiAt(d + <<e>>[i])] => x = <<TithiAt(d + e)>>
    <3> HIDE DEF e
    <3> QED
      OBVIOUS
  <2>2. look = <<A>> /\ A = B /\ Len(Edges) = 1
    BY <1>1, <1>3, <2>1
  <2> HIDE DEF look, A, B
  <2>3. Score(look) = (IF A = fest.tithi THEN 1 ELSE 0) /\ look[1] = A /\ FinalOf(look) = B
    BY <2>2, ScoreOfOne DEF FinalOf
  <2> QED
    BY <1>2, <2>2, <2>3 DEF Meets, look, A, B
<1>4. CASE Edges = <<FirstEdge, LastEdge>>
  <2> DEFINE e == FirstEdge
             f == LastEdge
  <2>1. \A x : x = [i \in DOMAIN <<e, f>> |-> TithiAt(d + <<e, f>>[i])] => x = <<TithiAt(d + e), TithiAt(d + f)>>
    <3> HIDE DEF e, f
    <3> QED
      OBVIOUS
  <2>2. look = <<A, B>> /\ Len(Edges) = 2
    BY <1>1, <1>4, <2>1
  <2> HIDE DEF look, A, B
  <2>3. /\ Score(look) = (IF A = fest.tithi THEN 1 ELSE 0) + (IF B = fest.tithi THEN 1 ELSE 0)
        /\ look[1] = A /\ FinalOf(look) = B
    BY <2>2, ScoreOfTwo DEF FinalOf
  <2> QED
    BY <1>2, <2>2, <2>3 DEF Meets, look, A, B
<1> QED
  BY <1>3, <1>4, WindowFacts

\* At most one tithi begins while none is as short as that, and one does while none is
\* longer.
LEMMA OrdinalsGrowWithin ==
  ASSUME SkyInv, NEW t \in Int, NEW u \in Int, Past <= t, t <= u, u <= Future
  PROVE  /\ (\A n \in Lengths[fest] : u - t <= n) => Ordinal(u) <= Ordinal(t) + 1
         /\ (\A n \in Lengths[fest] : n <= u - t) => Ordinal(t) + 1 <= Ordinal(u)
<1> DEFINE i == Index(t)
           j == Index(u)
           n == Len(begins)
<1>1. /\ i \in 1..n /\ i + 1 \in 1..n /\ i \in Int /\ Ordinal(t) = first + i - 1
      /\ begins[i] <= t /\ t < begins[i + 1]
  BY DayFacts, IndexFacts
<1>2. /\ j \in 1..n /\ j \in Int /\ Ordinal(u) = first + j - 1 /\ begins[j] <= u
      /\ \A k \in 1..n : begins[k] <= u => k <= j
  BY DayFacts, IndexFacts
<1>3. first \in Int /\ n \in Nat /\ fest \in Festivals /\ \A k \in 1..n : begins[k] \in Int
  BY DEF SkyInv, Chain
<1> HIDE DEF i, j, n
<1>4. \A k \in 1..n : k + 1 \in 1..n => begins[k + 1] - begins[k] \in Lengths[fest]
  <2> SUFFICES ASSUME NEW k \in 1..n, k + 1 \in 1..n PROVE begins[k + 1] - begins[k] \in Lengths[fest]
    OBVIOUS
  <2>1. k \in 1..(n - 1)
    BY <1>3
  <2> QED
    BY <2>1 DEF SkyInv, Chain, n
<1>5. ASSUME \A l \in Lengths[fest] : u - t <= l PROVE j <= i + 1
  <2> SUFFICES ASSUME i + 2 <= j PROVE FALSE
    BY <1>1, <1>2
  <2>1. i + 2 \in 1..n /\ (i + 1) + 1 = i + 2
    BY <1>1, <1>2, <1>3
  <2>2. begins[i + 2] - begins[i + 1] \in Lengths[fest]
    BY <1>1, <1>4, <2>1
  <2>3. u - t <= begins[i + 2] - begins[i + 1]
    BY <1>5, <2>2
  <2>4. begins[i + 2] <= begins[j]
    <3>1. i + 2 < j => begins[i + 2] < begins[j]
      BY <1>2, <2>1 DEF SkyInv, Chain, n
    <3> QED
      BY <1>1, <1>2, <1>3, <2>1, <3>1
  <2>5. begins[i + 2] \in Int /\ begins[i + 1] \in Int /\ begins[j] \in Int
    BY <1>1, <1>2, <1>3, <2>1
  <2> QED
    BY <1>1, <1>2, <2>3, <2>4, <2>5
<1>6. ASSUME \A l \in Lengths[fest] : l <= u - t PROVE i + 1 <= j
  <2>1. begins[i + 1] - begins[i] \in Lengths[fest]
    BY <1>1, <1>4
  <2>2. begins[i + 1] - begins[i] <= u - t
    BY <1>6, <2>1
  <2>3. begins[i + 1] \in Int /\ begins[i] \in Int
    BY <1>1, <1>3
  <2>4. begins[i + 1] <= u
    BY <1>1, <2>2, <2>3
  <2> QED
    BY <1>1, <1>2, <2>4
<1> QED
  BY <1>1, <1>2, <1>3, <1>5, <1>6

-----------------------------------------------------------------------------
(* Which day an entry with a tithi is kept.                                *)

\* What an entry asks of the Moon and of its window.  The window closes before four
\* fifths of the day; from a window whose next sunrise matters no tithi begins and ends
\* before that sunrise.  A first tithi is kept at sunrise.
SuitedTithi(f) ==
  LET edges == Window(Daytime)[f.when]
      closing == edges[Len(edges)]
  IN /\ 5 * closing <= 4 * Day
     /\ f.later \/ f.when \in {"pradosh", "nishita"} => \A n \in Lengths[f] : Day <= closing + n
     /\ f.tithi = 1 => f.when = "sunrise" /\ ~f.later /\ Contexts[f] \cap {"in adhika", "after adhika"} = {}

\* The tithis, counted from the festival's, at the edges of the window of the day that
\* begins at d.
Opens(d) == Ordinal(d + FirstEdge)
Closes(d) == Ordinal(d + LastEdge)

LEMMA EdgeNumbers ==
  ASSUME SkyInv, LongTithis, SuitedTithi(fest), fest.kind = "lunarTithi"
  PROVE  /\ Opens(-Day) \in Int /\ Closes(-Day) \in Int /\ Opens(0) \in Int /\ Closes(0) \in Int
         /\ Opens(Day) \in Int /\ Closes(Day) \in Int
         /\ Opens(-Day) <= Closes(-Day) /\ Closes(-Day) <= Ordinal(0) /\ Ordinal(0) <= Opens(0)
         /\ Opens(0) <= Closes(0) /\ Closes(0) <= Opens(Day) /\ Opens(Day) <= Closes(Day)
         /\ Closes(-Day) <= Opens(-Day) + 1 /\ Closes(0) <= Opens(0) + 1 /\ Closes(Day) <= Opens(Day) + 1
         /\ Ordinal(0) <= Opens(-Day) + 2 /\ Closes(0) <= Ordinal(0) + 1
         /\ Opens(0) <= Closes(-Day) + 2 /\ Opens(Day) <= Closes(0) + 2
         /\ ~NightRule => Opens(Day) <= Ordinal(0) + 2
         /\ fest.later \/ NightRule => Ordinal(0) <= Closes(-Day) + 1
<1> DEFINE F == FirstEdge
           L == LastEdge
           FU == Future
<1>1. fest \in Festivals /\ Past = -Day
  BY DEF SkyInv, Past
<1>2. /\ F \in Int /\ L \in Int /\ 0 <= F /\ F <= L /\ 5 * L <= 4 * Day /\ Day \in Int /\ Day > 0
      /\ ~NightRule => 5 * F <= 3 * Day
      /\ Day + L <= FU /\ FU \in Int
  <2>1. F \in Int /\ L \in Int /\ 0 <= F /\ F <= L /\ (~NightRule => 5 * F <= 3 * Daytime)
    BY <1>1, WindowFacts
  <2>2. 5 * L <= 4 * Day
    BY DEF SuitedTithi, LastEdge, Edges
  <2>3. FU = Day + (4 * Day) \div 5
    BY DEF Future
  <2> HIDE DEF F, L, FU
  <2> QED
    BY <2>1, <2>2, <2>3, DayFacts
<1> HIDE DEF F, L, FU
<1> DEFINE a == -Day + F
           b == -Day + L
           d == Day + F
           e == Day + L
<1>3. /\ a \in Int /\ b \in Int /\ F \in Int /\ L \in Int /\ d \in Int /\ e \in Int /\ 0 \in Int
      /\ -Day <= a /\ a <= b /\ b <= 0 /\ a <= 0 /\ b <= F /\ 0 <= F /\ 0 <= L /\ F <= L /\ L <= d
      /\ 0 <= d /\ d <= e /\ e <= FU
      /\ -Day <= b /\ -Day <= 0 /\ -Day <= F /\ -Day <= L /\ -Day <= d
      /\ b <= FU /\ 0 <= FU /\ F <= FU /\ L <= FU /\ d <= FU
  BY <1>2
<1>4. /\ 5 * (b - a) <= 4 * Day /\ 5 * (L - F) <= 4 * Day /\ 5 * (e - d) <= 4 * Day
      /\ 5 * (0 - a) <= 8 * Day /\ 5 * (L - 0) <= 4 * Day /\ 5 * (F - b) <= 8 * Day /\ 5 * (d - L) <= 8 * Day
      /\ ~NightRule => 5 * (d - 0) <= 8 * Day
  BY <1>2
<1>5. /\ Opens(-Day) = Ordinal(a) /\ Closes(-Day) = Ordinal(b) /\ Opens(0) = Ordinal(F)
      /\ Closes(0) = Ordinal(L) /\ Opens(Day) = Ordinal(d) /\ Closes(Day) = Ordinal(e)
  <2>1. 0 + F = F /\ 0 + L = L
    BY <1>2
  <2> QED
    BY <2>1 DEF Opens, Closes, F, L
<1> HIDE DEF a, b, d, e
<1>6. \A t, u \in Int : -Day <= t /\ t <= u /\ u <= FU =>
        /\ Ordinal(t) \in Int /\ Ordinal(u) \in Int /\ Ordinal(t) <= Ordinal(u)
        /\ 5 * (u - t) <= 4 * Day => Ordinal(u) <= Ordinal(t) + 1
        /\ 5 * (u - t) <= 8 * Day => Ordinal(u) <= Ordinal(t) + 2
  BY <1>1, OrdinalsGrow DEF FU
<1>7. Ordinal(a) \in Int /\ Ordinal(b) \in Int /\ Ordinal(a) <= Ordinal(b) /\ Ordinal(b) <= Ordinal(a) + 1
  BY <1>3, <1>4, <1>6
<1>8. Ordinal(0) \in Int /\ Ordinal(b) <= Ordinal(0)
  BY <1>3, <1>6
<1>9. Ordinal(0) <= Ordinal(a) + 2
  BY <1>3, <1>4, <1>6
<1>10. Ordinal(F) \in Int /\ Ordinal(0) <= Ordinal(F)
  BY <1>3, <1>6
<1>11. Ordinal(L) \in Int /\ Ordinal(F) <= Ordinal(L) /\ Ordinal(L) <= Ordinal(F) + 1
  BY <1>3, <1>4, <1>6
<1>12. Ordinal(L) <= Ordinal(0) + 1
  BY <1>3, <1>4, <1>6
<1>13. Ordinal(d) \in Int /\ Ordinal(L) <= Ordinal(d) /\ Ordinal(d) <= Ordinal(L) + 2
  BY <1>3, <1>4, <1>6
<1>14. Ordinal(e) \in Int /\ Ordinal(d) <= Ordinal(e) /\ Ordinal(e) <= Ordinal(d) + 1
  BY <1>3, <1>4, <1>6
<1>15. Ordinal(F) <= Ordinal(b) + 2
  BY <1>3, <1>4, <1>6
<1>16. ~NightRule => Ordinal(d) <= Ordinal(0) + 2
  BY <1>3, <1>4, <1>6
<1>17. fest.later \/ NightRule => Ordinal(0) <= Ordinal(b) + 1
  <2> SUFFICES ASSUME fest.later \/ NightRule PROVE Ordinal(0) <= Ordinal(b) + 1
    OBVIOUS
  <2>1. \A n \in Lengths[fest] : Day <= L + n
    BY DEF SuitedTithi, LastEdge, Edges, L, NightRule
  <2>2. \A n \in Lengths[fest] : n \in Int
    BY <1>1 DEF LongTithis
  <2>3. \A n \in Lengths[fest] : 0 - b <= n
    BY <1>2, <2>1, <2>2 DEF b
  <2> QED
    BY <1>1, <1>3, <2>3, OrdinalsGrowWithin DEF FU
<1> QED
  BY <1>5, <1>7, <1>8, <1>9, <1>10, <1>11, <1>12, <1>13, <1>14, <1>15, <1>16, <1>17

\* The festival's day is behind, told from the edges of two windows, a day apart.
Behind(p, q, a, b) ==
  IF fest.later
  THEN (a >= 1 /\ q >= 0) \/ p >= 1
  ELSE p >= 0 \/ (q >= 0 /\ b >= 1) \/ (~NightRule /\ a >= 1)
BehindToday == Behind(Opens(-Day), Closes(-Day), Opens(0), Closes(0))
BehindTomorrow == Behind(Opens(0), Closes(0), Opens(Day), Closes(Day))

ChosenDay == DecisiveDay(fest.when) \/ Fallback \/ Kshaya

LEMMA RuleByNumbers ==
  ASSUME SkyInv, LongTithis, SteadyDays, daytime = Daytime, SuitedTithi(fest), fest.kind = "lunarTithi",
         Ordinal(0) \in -3..5
  PROVE  /\ ChosenDay <=> BehindTomorrow /\ ~BehindToday
         /\ ChosenDay => Ordinal(0) \in {-1, 0}
         /\ Kshaya /\ ~fest.later => Ordinal(0) < 0
         /\ DecisiveDay(fest.when) /\ ~fest.later => Opens(0) = 0 \/ Closes(0) = 0
<1> DEFINE p == Opens(-Day)
           q == Closes(-Day)
           o == Ordinal(0)
           a == Opens(0)
           b == Closes(0)
           x == Opens(Day)
           y == Closes(Day)
           P == Score(Previous(fest.when))
           A == Score(At(fest.when))
           X == Score(NextOne(fest.when))
<1>1. /\ p \in Int /\ q \in Int /\ a \in Int /\ b \in Int /\ x \in Int /\ y \in Int /\ o \in Int
      /\ p <= q /\ q <= o /\ o <= a /\ a <= b /\ b <= x /\ x <= y
      /\ q <= p + 1 /\ b <= a + 1 /\ y <= x + 1
      /\ o <= p + 2 /\ b <= o + 1 /\ a <= q + 2 /\ x <= b + 2
      /\ ~NightRule => x <= o + 2
      /\ fest.later \/ NightRule => o <= q + 1
      /\ -3 <= o /\ o <= 5
  BY EdgeNumbers
<1>2. fest \in Festivals /\ Day \in Int /\ -Day \in Int /\ 0 \in Int
  BY DayFacts DEF SkyInv
<1>3. daytime - Drift = Daytime
  BY DayFacts DEF SteadyDays
<1>4. /\ At(fest.when) = Tithis(fest.when, Daytime, 0)
      /\ Previous(fest.when) = Tithis(fest.when, Daytime, -Day)
      /\ NextOne(fest.when) = Tithis(fest.when, Daytime, Day)
  BY <1>3 DEF At, Previous, NextOne
<1>5. /\ -20 <= p /\ p <= 20 /\ -20 <= q /\ q <= 20 /\ -20 <= a /\ a <= 20 /\ -20 <= b /\ b <= 20
      /\ -20 <= x /\ x <= 20 /\ -20 <= y /\ y <= 20
  BY <1>1
<1> DEFINE two == Len(Edges) = 2
<1>6. A = Meets(a, b, two) /\ At(fest.when)[1] = TithiAt(0 + FirstEdge) /\ FinalOf(At(fest.when)) = TithiAt(0 + LastEdge)
  BY <1>1, <1>2, <1>4, <1>5, LookFacts DEF Opens, Closes
<1>7. /\ P = Meets(p, q, two)
      /\ FinalOf(Previous(fest.when)) = TithiAt(-Day + LastEdge)
  BY <1>1, <1>2, <1>4, <1>5, LookFacts DEF Opens, Closes
<1>8. X = Meets(x, y, two) /\ NextOne(fest.when)[1] = TithiAt(Day + FirstEdge)
  BY <1>1, <1>2, <1>4, <1>5, LookFacts DEF Opens, Closes
<1>9. /\ TithiAt(0 + FirstEdge) = After(fest.tithi) <=> a = 1
      /\ TithiAt(0 + LastEdge) = Before(fest.tithi) <=> b = -1
      /\ TithiAt(-Day + LastEdge) = Before(fest.tithi) <=> q = -1
      /\ TithiAt(Day + FirstEdge) = After(fest.tithi) <=> x = 1
      /\ TithiAt(0) = fest.tithi <=> o = 0
  BY <1>1, <1>2, <1>5, TithiFacts DEF Opens, Closes
<1>10. KshayaDay(fest.when) <=> b = -1 /\ x = 1
  BY <1>6, <1>8, <1>9 DEF KshayaDay
<1>11. KshayaLater(fest.when) <=> q = -1 /\ a = 1
  BY <1>6, <1>7, <1>9 DEF KshayaLater
<1>12. DecisiveDay(fest.when) <=> A > 0 /\ IF fest.later THEN X = 0 ELSE P < A /\ X <= A
  BY DEF DecisiveDay
<1>13. Fallback <=> NightRule /\ o = 0 /\ P = 0 /\ A = 0
  BY <1>9 DEF Fallback
<1>14. Kshaya <=> ~NightRule /\ IF fest.later THEN q = -1 /\ a = 1 ELSE b = -1 /\ x = 1
  BY <1>10, <1>11 DEF Kshaya
<1>15. P \in Int /\ A \in Int /\ X \in Int
  BY <1>6, <1>7, <1>8 DEF Meets
<1>16. \/ P = Meets(p, q, TRUE) /\ A = Meets(a, b, TRUE) /\ X = Meets(x, y, TRUE)
       \/ p = q /\ a = b /\ x = y /\ P = Meets(p, q, FALSE) /\ A = Meets(a, b, FALSE) /\ X = Meets(x, y, FALSE)
  <2>1. CASE two
    BY <1>6, <1>7, <1>8, <2>1 DEF Meets
  <2>2. CASE ~two
    <3>1. FirstEdge = LastEdge
      <4>1. Edges = <<FirstEdge, LastEdge>> => two
        OBVIOUS
      <4> QED
        BY <1>2, <2>2, <4>1, WindowFacts
    <3> QED
      BY <1>6, <1>7, <1>8, <2>2, <3>1 DEF Meets, Opens, Closes
  <2> QED
    BY <2>1, <2>2
<1>17. /\ BehindToday <=> IF fest.later THEN (a >= 1 /\ q >= 0) \/ p >= 1
                          ELSE p >= 0 \/ (q >= 0 /\ b >= 1) \/ (~NightRule /\ a >= 1)
       /\ BehindTomorrow <=> IF fest.later THEN (x >= 1 /\ b >= 0) \/ a >= 1
                             ELSE a >= 0 \/ (b >= 0 /\ y >= 1) \/ (~NightRule /\ x >= 1)
  BY DEF BehindToday, BehindTomorrow, Behind
<1> HIDE DEF p, q, o, a, b, x, y, P, A, X, two
<1>18. CASE ~fest.later /\ ~NightRule
  <2>1. ChosenDay <=> (A > 0 /\ P < A /\ X <= A) \/ (b = -1 /\ x = 1)
    BY <1>12, <1>13, <1>14, <1>18 DEF ChosenDay
  <2>2. (A > 0 /\ P < A /\ X <= A) \/ (b = -1 /\ x = 1)
        <=> (a >= 0 \/ (b >= 0 /\ y >= 1) \/ x >= 1) /\ ~(p >= 0 \/ (q >= 0 /\ b >= 1) \/ a >= 1)
    BY <1>1, <1>15, <1>16 DEF Meets
  <2>3. (a >= 0 \/ (b >= 0 /\ y >= 1) \/ x >= 1) /\ ~(p >= 0 \/ (q >= 0 /\ b >= 1) \/ a >= 1) => o \in {-1, 0}
    BY <1>1, <1>18
  <2>4. (A > 0 /\ P < A /\ X <= A) => a = 0 \/ b = 0
    BY <1>16 DEF Meets
  <2>5. b = -1 => o < 0
    BY <1>1
  <2> QED
    BY <1>12, <1>14, <1>17, <1>18, <2>1, <2>2, <2>3, <2>4, <2>5 DEF a, b, o
<1>19. CASE ~fest.later /\ NightRule
  <2>1. ChosenDay <=> (A > 0 /\ P < A /\ X <= A) \/ (o = 0 /\ P = 0 /\ A = 0)
    BY <1>12, <1>13, <1>14, <1>19 DEF ChosenDay
  <2>2. (A > 0 /\ P < A /\ X <= A) \/ (o = 0 /\ P = 0 /\ A = 0)
        <=> (a >= 0 \/ (b >= 0 /\ y >= 1)) /\ ~(p >= 0 \/ (q >= 0 /\ b >= 1))
    BY <1>1, <1>15, <1>16, <1>19 DEF Meets
  <2>3. (a >= 0 \/ (b >= 0 /\ y >= 1)) /\ ~(p >= 0 \/ (q >= 0 /\ b >= 1)) => o \in {-1, 0}
    BY <1>1, <1>19
  <2>4. (A > 0 /\ P < A /\ X <= A) => a = 0 \/ b = 0
    BY <1>16 DEF Meets
  <2> QED
    BY <1>12, <1>14, <1>17, <1>19, <2>1, <2>2, <2>3, <2>4 DEF a, b, o
<1>20. CASE fest.later /\ ~NightRule
  <2>1. ChosenDay <=> (A > 0 /\ X = 0) \/ (q = -1 /\ a = 1)
    BY <1>12, <1>13, <1>14, <1>20 DEF ChosenDay
  <2>2. (A > 0 /\ X = 0) \/ (q = -1 /\ a = 1)
        <=> ((x >= 1 /\ b >= 0) \/ a >= 1) /\ ~((a >= 1 /\ q >= 0) \/ p >= 1)
    BY <1>1, <1>15, <1>16 DEF Meets
  <2>3. ((x >= 1 /\ b >= 0) \/ a >= 1) /\ ~((a >= 1 /\ q >= 0) \/ p >= 1) => o \in {-1, 0}
    BY <1>1, <1>20
  <2> QED
    BY <1>17, <1>20, <2>1, <2>2, <2>3 DEF o
<1>21. CASE fest.later /\ NightRule
  <2>1. ChosenDay <=> (A > 0 /\ X = 0) \/ (o = 0 /\ P = 0 /\ A = 0)
    BY <1>12, <1>13, <1>14, <1>21 DEF ChosenDay
  <2>2. (A > 0 /\ X = 0) \/ (o = 0 /\ P = 0 /\ A = 0)
        <=> ((x >= 1 /\ b >= 0) \/ a >= 1) /\ ~((a >= 1 /\ q >= 0) \/ p >= 1)
    BY <1>1, <1>15, <1>16, <1>21 DEF Meets
  <2>3. ((x >= 1 /\ b >= 0) \/ a >= 1) /\ ~((a >= 1 /\ q >= 0) \/ p >= 1) => o \in {-1, 0}
    BY <1>1, <1>21
  <2> QED
    BY <1>17, <1>21, <2>1, <2>2, <2>3 DEF o
<1> QED
  BY <1>18, <1>19, <1>20, <1>21

\* The lunation of the tithi and the one before.
LEMMA LunationsByContext ==
  /\ Moons("regular")[-1] = Lunation(10, FALSE) /\ Moons("regular")[0] = Lunation(11, FALSE)
  /\ Moons("in adhika")[-1] = Lunation(10, FALSE) /\ Moons("in adhika")[0] = Lunation(11, TRUE)
  /\ Moons("after adhika")[-1] = Lunation(11, TRUE) /\ Moons("after adhika")[0] = Lunation(11, FALSE)
  /\ Moons("before adhika")[-1] = Lunation(10, FALSE) /\ Moons("before adhika")[0] = Lunation(11, FALSE)
  /\ Moons("another month")[-1] = Lunation(9, FALSE) /\ Moons("another month")[0] = Lunation(10, FALSE)
BY DEF Moons, Around

LEMMA LunationFacts ==
  \A m : /\ Lunation(m, TRUE).month = m /\ Lunation(m, FALSE).month = m
         /\ Lunation(m, TRUE).adhika /\ ~Lunation(m, FALSE).adhika
BY DEF Lunation

\* On the day of the tithi the month is the festival's exactly when one is due.
LEMMA MonthByNumbers ==
  ASSUME SkyInv, LongTithis, SteadyDays, daytime = Daytime, SuitedTithi(fest), fest.kind = "lunarTithi",
         Ordinal(0) \in -3..5, context \in Contexts[fest], ChosenDay
  PROVE  MonthFits <=> Due
<1> DEFINE o == Ordinal(0)
           here == (fest.tithi + o - 1) \div 30
           before == Moons(context)[-1]
           own == Moons(context)[0]
<1>1. fest \in Festivals /\ fest.tithi \in 1..30 /\ fest.when \in Whens
  <2>1. Festivals \subseteq Festival
    BY FestivalsAssumption, Zenon
  <2> QED
    BY <2>1 DEF Festival, SkyInv
<1>2. context \in {"regular", "in adhika", "after adhika", "before adhika", "another month"}
  <2>1. Contexts \in [Festivals -> SUBSET
          {"regular", "in adhika", "after adhika", "before adhika", "another month"}]
    BY FestivalsAssumption, Zenon
  <2> QED
    BY <1>1, <2>1
<1>3. \/ context = "regular" /\ before = Lunation(10, FALSE) /\ own = Lunation(11, FALSE)
      \/ context = "in adhika" /\ before = Lunation(10, FALSE) /\ own = Lunation(11, TRUE)
      \/ context = "after adhika" /\ before = Lunation(11, TRUE) /\ own = Lunation(11, FALSE)
      \/ context = "before adhika" /\ before = Lunation(10, FALSE) /\ own = Lunation(11, FALSE)
      \/ context = "another month" /\ before = Lunation(9, FALSE) /\ own = Lunation(10, FALSE)
  <2>1. CASE context = "regular"
    BY <2>1, LunationsByContext, Zenon
  <2>2. CASE context = "in adhika"
    BY <2>2, LunationsByContext, Zenon
  <2>3. CASE context = "after adhika"
    BY <2>3, LunationsByContext, Zenon
  <2>4. CASE context = "before adhika"
    BY <2>4, LunationsByContext, Zenon
  <2>5. CASE context = "another month"
    BY <2>5, LunationsByContext, Zenon
  <2> QED
    BY <1>2, <2>1, <2>2, <2>3, <2>4, <2>5
<1>4. o \in {-1, 0} /\ (Kshaya /\ ~fest.later => o < 0)
      /\ (DecisiveDay(fest.when) /\ ~fest.later => Opens(0) = 0 \/ Closes(0) = 0)
  BY RuleByNumbers
<1>5. MoonAt(0) = Moons(context)[here]
  BY DEF MoonAt
<1>6. FollowsAdhika <=> here > -1 /\ Moons(context)[here - 1] = Lunation(MoonAt(0).month, TRUE)
  BY DEF FollowsAdhika
<1>7. Due <=> own.month = Month /\ (own.adhika => fest.adhika) /\ (fest.adhika => ~before.adhika)
  BY DEF Due
<1>8. MonthFits <=> /\ (IF Kshaya /\ fest.tithi = 1 THEN MonthAfter(MoonAt(0).month) ELSE MoonAt(0).month) = Month
                    /\ MoonAt(0).adhika => fest.adhika
                    /\ ~(fest.adhika /\ ~MoonAt(0).adhika /\ FollowsAdhika)
  BY DEF MonthFits
<1> HIDE DEF o, own, before
<1>9. CASE here = 0 /\ ~(Kshaya /\ fest.tithi = 1)
  <2>1. MoonAt(0) = own /\ (FollowsAdhika <=> before = Lunation(own.month, TRUE))
    <3> HIDE DEF here
    <3>1. here - 1 = -1 /\ here > -1
      BY <1>9
    <3> QED
      BY <1>5, <1>6, <1>9, <3>1 DEF own, before
  <2>2. own.month = Month <=> context # "another month"
    <3>1. context = "another month" => own.month = 10
      BY <1>3, LunationFacts
    <3>2. context # "another month" => own.month = 11
      BY <1>3, LunationFacts
    <3>3. Month = 11 /\ 10 # 11
      BY DEF Month
    <3> QED
      BY <3>1, <3>2, <3>3, Zenon
  <2>3. /\ own.adhika <=> context = "in adhika"
        /\ before.adhika <=> context = "after adhika"
    BY <1>3, LunationFacts
  <2>4. before = Lunation(own.month, TRUE) => context = "after adhika"
    BY <2>3, LunationFacts
  <2>5. context = "after adhika" => before = Lunation(own.month, TRUE)
    BY <1>3, LunationFacts
  <2> HIDE DEF here
  <2>6. MonthFits <=> /\ own.month = Month
                      /\ own.adhika => fest.adhika
                      /\ ~(fest.adhika /\ ~own.adhika /\ before = Lunation(own.month, TRUE))
    BY <1>8, <1>9, <2>1
  <2> QED
    BY <1>7, <2>2, <2>3, <2>4, <2>5, <2>6
<1>10. CASE here = -1 /\ Kshaya /\ fest.tithi = 1
  <2>1. MoonAt(0) = before /\ ~FollowsAdhika
    <3> HIDE DEF here
    <3>1. ~(here > -1)
      BY <1>10
    <3> QED
      BY <1>5, <1>6, <1>10, <3>1 DEF before
  <2>2. context \in {"regular", "before adhika", "another month"}
    BY <1>2, <1>10 DEF SuitedTithi
  <2>3. MonthAfter(10) = 11 /\ MonthAfter(9) = 10
    BY DEF MonthAfter
  <2>4. \/ before = Lunation(10, FALSE) /\ own = Lunation(11, FALSE)
        \/ before = Lunation(9, FALSE) /\ own = Lunation(10, FALSE)
    BY <1>3, <2>2
  <2>5. /\ ~before.adhika /\ ~own.adhika
        /\ (before.month = 10 /\ own.month = 11) \/ (before.month = 9 /\ own.month = 10)
    BY <2>4, LunationFacts
  <2> HIDE DEF here
  <2>6. MonthFits <=> MonthAfter(before.month) = Month
    BY <1>8, <1>10, <2>1, <2>5
  <2> QED
    BY <1>7, <2>3, <2>5, <2>6 DEF Month
<1>11. fest.tithi # 1 => here = 0
  <2> HIDE DEF here
  <2>1. fest.tithi # 1 => fest.tithi + o - 1 \in 0..29
    BY <1>1, <1>4
  <2> QED
    BY <2>1 DEF here
<1>12. CASE fest.tithi = 1
  <2>1. fest.when = "sunrise" /\ ~fest.later /\ ~NightRule
    BY <1>12 DEF SuitedTithi, NightRule
  <2>2. FirstEdge = 0 /\ LastEdge = 0
    BY <2>1 DEF FirstEdge, LastEdge, Edges, Window
  <2>3. Opens(0) = o /\ Closes(0) = o
    BY <2>2 DEF Opens, Closes, o
  <2>4. CASE Kshaya
    <3>1. o = -1
      BY <1>4, <2>1, <2>4
    <3>2. here = -1
      <4>1. fest.tithi + o - 1 = -1
        BY <1>12, <3>1
      <4> QED
        BY <4>1
    <3> HIDE DEF here
    <3> QED
      BY <1>10, <1>12, <2>4, <3>2
  <2>5. CASE ~Kshaya
    <3>1. DecisiveDay(fest.when)
      BY <2>1, <2>5 DEF ChosenDay, Fallback
    <3>2. o = 0
      BY <1>4, <2>1, <2>3, <3>1
    <3>3. here = 0
      BY <1>12, <3>2
    <3> HIDE DEF here
    <3> QED
      BY <1>9, <2>5, <3>3
  <2> QED
    BY <2>4, <2>5
<1> HIDE DEF here
<1> QED
  BY <1>9, <1>11, <1>12

LEMMA TithiKept ==
  ASSUME SkyInv, LongTithis, SteadyDays, daytime = Daytime, SuitedTithi(fest), fest.kind = "lunarTithi",
         Ordinal(0) \in -3..5, context \in Contexts[fest]
  PROVE  KeptToday <=> Due /\ BehindTomorrow /\ ~BehindToday
<1>1. KeptToday <=> MonthFits /\ ChosenDay
  BY DEF KeptToday, KeptAsTithi, ChosenDay
<1>2. ChosenDay <=> BehindTomorrow /\ ~BehindToday
  BY RuleByNumbers
<1>3. ChosenDay => (MonthFits <=> Due)
  BY MonthByNumbers
<1> QED
  BY <1>1, <1>2, <1>3

\* The tithi prevails on its day, before the next sunrise.
LEMMA TithiPrevails ==
  ASSUME SkyInv, LongTithis, SteadyDays, daytime = Daytime, SuitedTithi(fest), fest.kind = "lunarTithi",
         Ordinal(0) \in -3..5, ChosenDay
  PROVE  0 \in Ordinal(0)..Ordinal(Day - 1)
<1> DEFINE F == FirstEdge
           L == LastEdge
           e == Day - 1
           d == Day + F
<1>1. /\ Ordinal(0) \in {-1, 0} /\ BehindTomorrow
  BY RuleByNumbers
<1>2. /\ Opens(0) \in Int /\ Closes(0) \in Int /\ Opens(Day) \in Int /\ Closes(Day) \in Int
      /\ Opens(0) <= Closes(0)
  BY EdgeNumbers
<1>3. Closes(0) >= 0 \/ (~NightRule /\ Opens(Day) >= 1)
  BY <1>1, <1>2 DEF BehindTomorrow, Behind
<1>4. fest \in Festivals /\ Past = -Day
  BY DEF SkyInv, Past
<1>5. /\ F \in Int /\ L \in Int /\ 0 <= F /\ F <= L /\ (~NightRule => 5 * F <= 3 * Daytime)
  BY <1>4, WindowFacts
<1>6. 5 * L <= 4 * Day
  BY DEF SuitedTithi, LastEdge, Edges
<1> HIDE DEF F, L
<1>7. /\ e \in Int /\ d \in Int /\ -Day <= L /\ L <= e /\ -Day <= e /\ e <= Future /\ e <= d
      /\ d <= Future /\ 0 <= e /\ -Day <= 0 /\ 0 \in Int
      /\ ~NightRule => 5 * (d - e) <= 4 * Day
  BY <1>5, <1>6, DayFacts
<1>8. Closes(0) = Ordinal(L) /\ Opens(Day) = Ordinal(d)
  <2>1. 0 + L = L
    BY <1>5
  <2> QED
    BY <2>1 DEF Closes, Opens, L, F
<1> HIDE DEF e, d
<1>9. Ordinal(e) \in Int /\ Ordinal(L) <= Ordinal(e)
  BY <1>4, <1>5, <1>7, OrdinalsGrow
<1>10. ~NightRule => Ordinal(d) <= Ordinal(e) + 1
  BY <1>4, <1>5, <1>7, OrdinalsGrow
<1>11. Ordinal(e) >= 0
  BY <1>2, <1>3, <1>8, <1>9, <1>10
<1> QED
  BY <1>1, <1>9, <1>11 DEF e

-----------------------------------------------------------------------------
(* Which evening Holika Dahan is kept.                                     *)

\* What it asks: the second muhurta of the night ends before four fifths of the day, a
\* Purnima is not longer than a day and a quarter, and is not lost between two evenings.
SuitedHolika(f) ==
  /\ f.tithi = 15 /\ ~f.adhika
  /\ 5 * (Daytime + 2 * Night(Daytime)) <= 4 * Day
  /\ \A n \in Lengths[f] : 4 * n <= 5 * Day /\ Day <= n + 2 * Night(Daytime)

\* The tithis, counted from the festival's, at sunset and after two muhurtas.
Sunset(k) == Ordinal(Evening(k))
Pradosh(k) == Ordinal(Evening(k) + 2 * Night(daytime))

LEMMA EveningTimes ==
  ASSUME SteadyDays, daytime = Daytime
  PROVE  /\ Evening(-2) = Daytime - 2 * Day /\ Evening(-1) = Daytime - Day
         /\ Evening(0) = Daytime /\ Evening(1) = Daytime + Day
         /\ Night(daytime) \in Int /\ Night(daytime) >= 0 /\ 15 * Night(daytime) <= Day
<1>1. Night(daytime) \in Int /\ Night(daytime) >= 0 /\ 15 * Night(daytime) <= Day
  BY DayFacts DEF Night
<1>2. Evening(-1) = Daytime - Day
  BY DayFacts DEF Evening, SteadyDays
<1>3. Evening(-2) = Daytime - 2 * Day /\ Evening(0) = Daytime /\ Evening(1) = Daytime + Day
  <2>1. Evening(-2) = Daytime + (-2) * Day /\ Evening(0) = Daytime + 0 * Day /\ Evening(1) = Daytime + 1 * Day
    BY DEF Evening
  <2> QED
    BY <2>1, DayFacts
<1> QED
  BY <1>1, <1>2, <1>3

LEMMA EveningNumbers ==
  ASSUME SkyInv, LongTithis, SteadyDays, daytime = Daytime, SuitedHolika(fest), fest.kind = "holikaDahan"
  PROVE  /\ Sunset(-2) \in Int /\ Pradosh(-2) \in Int /\ Sunset(-1) \in Int /\ Pradosh(-1) \in Int
         /\ Sunset(0) \in Int /\ Pradosh(0) \in Int /\ Sunset(1) \in Int /\ Pradosh(1) \in Int
         /\ Sunset(-2) <= Pradosh(-2) /\ Pradosh(-2) <= Sunset(-1) /\ Sunset(-1) <= Pradosh(-1)
         /\ Pradosh(-1) <= Ordinal(0) /\ Ordinal(0) <= Sunset(0) /\ Sunset(0) <= Pradosh(0)
         /\ Pradosh(0) <= Sunset(1) /\ Sunset(1) <= Pradosh(1)
         /\ Pradosh(-2) <= Sunset(-2) + 1 /\ Pradosh(-1) <= Sunset(-1) + 1
         /\ Pradosh(0) <= Sunset(0) + 1 /\ Pradosh(1) <= Sunset(1) + 1
         /\ Sunset(-1) <= Pradosh(-2) + 1 /\ Sunset(0) <= Pradosh(-1) + 1 /\ Sunset(1) <= Pradosh(0) + 1
         /\ Pradosh(-2) + 1 <= Sunset(0) /\ Ordinal(0) \in Int
<1> DEFINE N == Night(daytime)
           FU == Future
           p == Daytime - 2 * Day
           q == p + 2 * N
           a == Daytime - Day
           b == a + 2 * N
           c == Daytime
           d == c + 2 * N
           e == Daytime + Day
           f == e + 2 * N
<1>1. fest \in Festivals /\ Past = -(2 * Day)
  BY DEF SkyInv, Past
<1>2. N \in Int /\ N >= 0 /\ 15 * N <= Day /\ 5 * (Daytime + 2 * N) <= 4 * Day
  BY EveningTimes DEF SuitedHolika
<1>3. /\ Day \in Int /\ Day > 0 /\ Daytime \in Int /\ 0 < Daytime /\ Daytime < Day
      /\ FU = Day + (4 * Day) \div 5
  BY DayFacts DEF Future
<1>4. \A n \in Lengths[fest] : n \in Int /\ 4 * n <= 5 * Day /\ Day <= n + 2 * N
  BY <1>1, EveningTimes DEF SuitedHolika, LongTithis
<1>5. /\ Sunset(-2) = Ordinal(p) /\ Pradosh(-2) = Ordinal(q) /\ Sunset(-1) = Ordinal(a) /\ Pradosh(-1) = Ordinal(b)
      /\ Sunset(0) = Ordinal(c) /\ Pradosh(0) = Ordinal(d) /\ Sunset(1) = Ordinal(e) /\ Pradosh(1) = Ordinal(f)
  BY EveningTimes DEF Sunset, Pradosh
<1> HIDE DEF N, FU
<1>6. /\ p \in Int /\ q \in Int /\ a \in Int /\ b \in Int /\ c \in Int /\ d \in Int /\ e \in Int /\ f \in Int /\ 0 \in Int
      /\ -(2 * Day) <= p /\ p <= q /\ q <= a /\ a <= b /\ b <= 0 /\ 0 <= c /\ c <= d /\ d <= e /\ e <= f /\ f <= FU
      /\ FU \in Int
  BY <1>2, <1>3
<1>7. 5 * (q - p) <= 4 * Day /\ 5 * (b - a) <= 4 * Day /\ 5 * (d - c) <= 4 * Day /\ 5 * (f - e) <= 4 * Day
  BY <1>2, <1>3
<1>8. /\ \A n \in Lengths[fest] : a - q <= n
      /\ \A n \in Lengths[fest] : c - b <= n
      /\ \A n \in Lengths[fest] : e - d <= n
      /\ \A n \in Lengths[fest] : n <= c - q
  BY <1>2, <1>3, <1>4
<1> HIDE DEF p, q, a, b, c, d, e, f
<1>9. \A t, u \in Int : -(2 * Day) <= t /\ t <= u /\ u <= FU =>
        /\ Ordinal(t) \in Int /\ Ordinal(u) \in Int /\ Ordinal(t) <= Ordinal(u)
        /\ 5 * (u - t) <= 4 * Day => Ordinal(u) <= Ordinal(t) + 1
  BY <1>1, OrdinalsGrow DEF FU
<1>10. \A t, u \in Int : -(2 * Day) <= t /\ t <= u /\ u <= FU =>
         /\ (\A n \in Lengths[fest] : u - t <= n) => Ordinal(u) <= Ordinal(t) + 1
         /\ (\A n \in Lengths[fest] : n <= u - t) => Ordinal(t) + 1 <= Ordinal(u)
  BY <1>1, OrdinalsGrowWithin DEF FU
<1>11. /\ -(2 * Day) <= q /\ -(2 * Day) <= a /\ -(2 * Day) <= b /\ -(2 * Day) <= 0 /\ -(2 * Day) <= c
       /\ -(2 * Day) <= d /\ -(2 * Day) <= e
       /\ e <= FU /\ d <= FU /\ c <= FU /\ 0 <= FU /\ b <= FU /\ a <= FU /\ q <= FU
       /\ b <= c /\ q <= c
  BY <1>3, <1>6
<1>12. Ordinal(p) \in Int /\ Ordinal(q) \in Int /\ Ordinal(p) <= Ordinal(q) /\ Ordinal(q) <= Ordinal(p) + 1
  BY <1>6, <1>7, <1>9, <1>11
<1>13. Ordinal(a) \in Int /\ Ordinal(q) <= Ordinal(a) /\ Ordinal(a) <= Ordinal(q) + 1
  BY <1>6, <1>8, <1>9, <1>10, <1>11
<1>14. Ordinal(b) \in Int /\ Ordinal(a) <= Ordinal(b) /\ Ordinal(b) <= Ordinal(a) + 1
  BY <1>6, <1>7, <1>9, <1>11
<1>15. Ordinal(0) \in Int /\ Ordinal(b) <= Ordinal(0)
  BY <1>6, <1>9, <1>11
<1>16. Ordinal(c) \in Int /\ Ordinal(0) <= Ordinal(c)
  BY <1>6, <1>9, <1>11
<1>17. Ordinal(c) <= Ordinal(b) + 1 /\ Ordinal(q) + 1 <= Ordinal(c)
  BY <1>6, <1>8, <1>10, <1>11
<1>18. Ordinal(d) \in Int /\ Ordinal(c) <= Ordinal(d) /\ Ordinal(d) <= Ordinal(c) + 1
  BY <1>6, <1>7, <1>9, <1>11
<1>19. Ordinal(e) \in Int /\ Ordinal(d) <= Ordinal(e) /\ Ordinal(e) <= Ordinal(d) + 1
  BY <1>6, <1>8, <1>9, <1>10, <1>11
<1>20. Ordinal(f) \in Int /\ Ordinal(e) <= Ordinal(f) /\ Ordinal(f) <= Ordinal(e) + 1
  BY <1>6, <1>7, <1>9, <1>11
<1> QED
  BY <1>5, <1>12, <1>13, <1>14, <1>15, <1>16, <1>17, <1>18, <1>19, <1>20

LEMMA PurnimaByNumbers ==
  ASSUME SkyInv, LongTithis, SteadyDays, daytime = Daytime, SuitedHolika(fest), fest.kind = "holikaDahan",
         Ordinal(0) \in -3..5, NEW k \in {-2, -1, 0, 1}
  PROVE  Purnima(k) <=> Sunset(k) <= 0 /\ 0 <= Pradosh(k)
<1>1. /\ Sunset(k) \in Int /\ Pradosh(k) \in Int /\ -20 <= Sunset(k) /\ Sunset(k) <= 20
      /\ -20 <= Pradosh(k) /\ Pradosh(k) <= 20 /\ Sunset(k) <= Pradosh(k) /\ Pradosh(k) <= Sunset(k) + 1
  <2>1. -3 <= Ordinal(0) /\ Ordinal(0) <= 5
    OBVIOUS
  <2>2. k = -2 \/ k = -1 \/ k = 0 \/ k = 1
    OBVIOUS
  <2> QED
    BY <2>1, <2>2, EveningNumbers
<1>2. fest.tithi = 15 /\ fest \in Festivals
  BY DEF SuitedHolika, SkyInv
<1>3. (TithiAt(Evening(k)) = 15 <=> Sunset(k) = 0)
      /\ (TithiAt(Evening(k) + 2 * Night(daytime)) = 15 <=> Pradosh(k) = 0)
  BY <1>1, <1>2, TithiFacts DEF Sunset, Pradosh
<1> QED
  BY <1>1, <1>3 DEF Purnima

\* An evening with Bhadra whose tithi lasts to the next one gives way to that.
GivesWay(k) == Bhadra(k) /\ Purnima(k + 1)

LEMMA ChoiceFacts ==
  ASSUME NEW k \in {-2, -1, 0}
  PROVE  /\ Choice(k) = k <=> Purnima(k) /\ ~GivesWay(k)
         /\ Choice(k) = k + 1 <=> Purnima(k) /\ GivesWay(k)
BY DEF Choice, NoEvening, GivesWay

LEMMA ChosenEvenings ==
  /\ HolikaChosen(0) <=> /\ MoonAt(0) = Lunation(Month, FALSE)
                         /\ \/ Purnima(0) /\ ~GivesWay(0) /\ ~(Purnima(-1) /\ ~GivesWay(-1))
                            \/ Purnima(-1) /\ GivesWay(-1)
  /\ HolikaChosen(-1) <=> /\ MoonAt(0) = Lunation(Month, FALSE)
                          /\ \/ Purnima(-1) /\ ~GivesWay(-1) /\ ~(Purnima(-2) /\ ~GivesWay(-2))
                             \/ Purnima(-2) /\ GivesWay(-2)
<1>1. 0 - 1 = -1 /\ -1 - 1 = -2 /\ -1 + 1 = 0 /\ -2 + 1 = -1
  OBVIOUS
<1>2. /\ Choice(0) = 0 <=> Purnima(0) /\ ~GivesWay(0)
      /\ Choice(-1) = -1 <=> Purnima(-1) /\ ~GivesWay(-1)
      /\ Choice(-1) = 0 <=> Purnima(-1) /\ GivesWay(-1)
      /\ Choice(-2) = -2 <=> Purnima(-2) /\ ~GivesWay(-2)
      /\ Choice(-2) = -1 <=> Purnima(-2) /\ GivesWay(-2)
  BY <1>1, ChoiceFacts
<1> QED
  BY <1>1, <1>2 DEF HolikaChosen

\* The evening is behind: Purnima was over before yesterday's second muhurta had ended, or
\* an evening that it had reached by then was kept.
EveningBehind == Pradosh(-2) >= 0 \/ (Pradosh(-1) >= 0 /\ ~GivesWay(-1))
EveningBehindTomorrow == Pradosh(-1) >= 0 \/ (Pradosh(0) >= 0 /\ ~GivesWay(0))

LEMMA EveningByNumbers ==
  ASSUME SkyInv, LongTithis, SteadyDays, daytime = Daytime, SuitedHolika(fest), fest.kind = "holikaDahan",
         Ordinal(0) \in -3..5
  PROVE  /\ HolikaChosen(0) <=> MoonAt(0) = Lunation(Month, FALSE) /\ EveningBehindTomorrow /\ ~EveningBehind
         /\ HolikaChosen(0) => Sunset(0) <= 0 /\ 0 <= Pradosh(0)
<1>1. /\ Purnima(-1) <=> Sunset(-1) <= 0 /\ 0 <= Pradosh(-1)
      /\ Purnima(0) <=> Sunset(0) <= 0 /\ 0 <= Pradosh(0)
  BY PurnimaByNumbers
<1>2. GivesWay(-1) => Purnima(0)
  <2>1. -1 + 1 = 0
    OBVIOUS
  <2> QED
    BY <2>1 DEF GivesWay
<1>3. /\ Pradosh(-2) \in Int /\ Sunset(-1) \in Int /\ Pradosh(-1) \in Int /\ Sunset(0) \in Int /\ Pradosh(0) \in Int
      /\ Pradosh(-2) <= Sunset(-1) /\ Sunset(-1) <= Pradosh(-1) /\ Pradosh(-1) <= Sunset(0) /\ Sunset(0) <= Pradosh(0)
      /\ Sunset(-1) <= Pradosh(-2) + 1 /\ Sunset(0) <= Pradosh(-1) + 1 /\ Pradosh(-2) + 1 <= Sunset(0)
  BY EveningNumbers
<1>4. \/ Purnima(0) /\ ~GivesWay(0) /\ ~(Purnima(-1) /\ ~GivesWay(-1))
      \/ Purnima(-1) /\ GivesWay(-1)
      <=> EveningBehindTomorrow /\ ~EveningBehind
  BY <1>1, <1>2, <1>3 DEF EveningBehindTomorrow, EveningBehind
<1>5. (Purnima(-1) /\ GivesWay(-1)) \/ Purnima(0) => Sunset(0) <= 0 /\ 0 <= Pradosh(0)
  BY <1>1, <1>2
<1> QED
  BY <1>4, <1>5, ChosenEvenings

\* Around Purnima the month is the festival's exactly when one is due.
LEMMA MonthOfPurnima ==
  ASSUME SkyInv, SuitedHolika(fest), Ordinal(0) \in -3..5, context \in Contexts[fest]
  PROVE  MoonAt(0) = Lunation(Month, FALSE) <=> Due
<1> DEFINE here == (fest.tithi + Ordinal(0) - 1) \div 30
           own == Moons(context)[0]
<1>1. fest.tithi = 15 /\ ~fest.adhika /\ fest \in Festivals
  BY DEF SuitedHolika, SkyInv
<1>2. fest.tithi + Ordinal(0) - 1 \in 0..29
  BY <1>1
<1>3. here = 0
  BY <1>2
<1>4. MoonAt(0) = own
  BY <1>3 DEF MoonAt
<1>5. context \in {"regular", "in adhika", "after adhika", "before adhika", "another month"}
  <2>1. Contexts \in [Festivals -> SUBSET
          {"regular", "in adhika", "after adhika", "before adhika", "another month"}]
    BY FestivalsAssumption, Zenon
  <2> QED
    BY <1>1, <2>1
<1>6. own = Lunation(11, FALSE) \/ own = Lunation(11, TRUE) \/ own = Lunation(10, FALSE)
  BY <1>5, LunationsByContext, Zenon
<1>7. Due <=> own.month = Month /\ ~own.adhika
  BY <1>1 DEF Due
<1> HIDE DEF own
<1>8. CASE own = Lunation(11, FALSE)
  BY <1>4, <1>7, <1>8, LunationFacts DEF Month
<1>9. CASE own = Lunation(11, TRUE)
  BY <1>4, <1>7, <1>9, LunationFacts DEF Month
<1>10. CASE own = Lunation(10, FALSE)
  BY <1>4, <1>7, <1>10, LunationFacts DEF Month
<1> QED
  BY <1>6, <1>8, <1>9, <1>10

-----------------------------------------------------------------------------
(* From day to day.                                                        *)

LEMMA NextWindow ==
  ASSUME SkyInv, LongTithis, SuitedTithi(fest), fest.kind = "lunarTithi", NextDay
  PROVE  BehindToday' <=> BehindTomorrow
<1>1. fest \in Festivals /\ Past = -Day /\ fest' = fest
  BY DEF SkyInv, Past, NextDay
<1>2. \E F, L \in Int : F = FirstEdge /\ L = LastEdge
  BY <1>1, WindowFacts
<1>3. PICK F \in Int, L \in Int : F = FirstEdge /\ L = LastEdge
  BY <1>2
<1>4. 0 <= F /\ F <= L /\ 5 * L <= 4 * Day
  <2>1. 5 * LastEdge <= 4 * Day
    BY DEF SuitedTithi, LastEdge, Edges
  <2> QED
    BY <1>1, <1>3, <2>1, WindowFacts
<1>5. FirstEdge' = F /\ LastEdge' = L
  BY <1>1, <1>3 DEF FirstEdge, LastEdge, Edges
<1>6. /\ Opens(-Day)' = Ordinal(-Day + F)' /\ Closes(-Day)' = Ordinal(-Day + L)'
      /\ Opens(0)' = Ordinal(0 + F)' /\ Closes(0)' = Ordinal(0 + L)'
  BY <1>5 DEF Opens, Closes, Ordinal, Index
<1>7. \A x \in Int : -Day <= x /\ x + Day <= Future => Ordinal(x)' = Ordinal(x + Day)
  BY <1>1, NextSky
<1>8. /\ -Day + F \in Int /\ -Day + L \in Int /\ 0 + F \in Int /\ 0 + L \in Int
      /\ -Day <= -Day + F /\ -Day <= -Day + L /\ -Day <= 0 + F /\ -Day <= 0 + L
      /\ (-Day + F) + Day = 0 + F /\ (-Day + L) + Day = 0 + L /\ (0 + F) + Day = Day + F /\ (0 + L) + Day = Day + L
      /\ 0 + F <= Future /\ 0 + L <= Future /\ Day + F <= Future /\ Day + L <= Future
  BY <1>4, DayFacts
<1>9. /\ Ordinal(-Day + F)' = Ordinal(0 + F) /\ Ordinal(-Day + L)' = Ordinal(0 + L)
      /\ Ordinal(0 + F)' = Ordinal(Day + F) /\ Ordinal(0 + L)' = Ordinal(Day + L)
  BY <1>7, <1>8
<1>10. /\ Opens(-Day)' = Opens(0) /\ Closes(-Day)' = Closes(0) /\ Opens(0)' = Opens(Day) /\ Closes(0)' = Closes(Day)
  BY <1>3, <1>6, <1>9 DEF Opens, Closes
<1>11. (fest.later <=> fest.later') /\ (NightRule <=> NightRule')
  BY <1>1 DEF NightRule
<1> QED
  BY <1>10, <1>11 DEF BehindToday, BehindTomorrow, Behind

LEMMA NextEvening ==
  ASSUME SkyInv, LongTithis, SteadyDays, daytime = Daytime, SuitedHolika(fest), fest.kind = "holikaDahan", NextDay
  PROVE  /\ \A k \in {-2, -1, 0} : Purnima(k)' <=> Purnima(k + 1)
         /\ \A k \in {-2, -1} : Bhadra(k)' <=> Bhadra(k + 1)
         /\ Pradosh(-2)' = Pradosh(-1) /\ Pradosh(-1)' = Pradosh(0)
<1> DEFINE N == Night(Daytime)
           E(k) == CASE k = -2 -> Daytime - 2 * Day [] k = -1 -> Daytime - Day [] k = 0 -> Daytime
                     [] k = 1 -> Daytime + Day
<1>1. Past = -(2 * Day) /\ daytime' = Daytime
  BY DayFacts DEF Past, NextDay, SteadyDays
<1>2. N \in Int /\ N >= 0 /\ 5 * (Daytime + 2 * N) <= 4 * Day /\ Night(daytime) = N /\ Night(daytime)' = N
  BY <1>1, EveningTimes DEF SuitedHolika
<1>3. \A k \in {-2, -1, 0, 1} : Evening(k) = E(k)
  BY EveningTimes
<1>4. \A k \in {-2, -1, 0, 1} : Evening(k)' = E(k)
  BY <1>1, <1>3 DEF Evening
<1>5. \A k \in {-2, -1, 0} : /\ E(k) \in Int /\ E(k + 1) = E(k) + Day /\ -(2 * Day) <= E(k)
                             /\ E(k) + 2 * N + Day <= Future
  <2> HIDE DEF N
  <2> QED
    BY <1>2, DayFacts
<1> HIDE DEF E, N
<1>6. \A x \in Int : -(2 * Day) <= x /\ x + Day <= Future =>
        /\ Ordinal(x)' = Ordinal(x + Day) /\ TithiAt(x)' = TithiAt(x + Day) /\ KaranaAt(x)' = KaranaAt(x + Day)
  BY <1>1, NextSky
<1>7. \A k \in {-2, -1, 0} : \A m \in {0, N, 2 * N} :
        /\ E(k) + m \in Int /\ E(k + 1) + m = E(k) + m + Day
        /\ -(2 * Day) <= E(k) + m /\ E(k) + m + Day <= Future
  BY <1>2, <1>5, DayFacts
<1>8. \A k \in {-2, -1, 0} : \A m \in {0, N, 2 * N} :
        /\ Ordinal(E(k) + m)' = Ordinal(E(k + 1) + m)
        /\ TithiAt(E(k) + m)' = TithiAt(E(k + 1) + m)
        /\ KaranaAt(E(k) + m)' = KaranaAt(E(k + 1) + m)
  BY <1>6, <1>7
<1>9. \A k \in {-2, -1, 0} : k \in {-2, -1, 0, 1} /\ k + 1 \in {-2, -1, 0, 1} /\ E(k) + 0 = E(k) /\ E(k + 1) + 0 = E(k + 1)
  BY <1>5, DayFacts
<1>10. ASSUME NEW k \in {-2, -1, 0} PROVE Purnima(k)' <=> Purnima(k + 1)
  <2>1. /\ TithiAt(Evening(k))' = TithiAt(E(k) + 0)'
        /\ TithiAt(Evening(k) + 2 * Night(daytime))' = TithiAt(E(k) + 2 * N)'
    BY <1>2, <1>4, <1>9 DEF TithiAt, Ordinal, Index
  <2>2. /\ TithiAt(Evening(k + 1)) = TithiAt(E(k + 1) + 0)
        /\ TithiAt(Evening(k + 1) + 2 * Night(daytime)) = TithiAt(E(k + 1) + 2 * N)
    BY <1>2, <1>3, <1>9
  <2> QED
    BY <1>8, <2>1, <2>2 DEF Purnima
<1>11. ASSUME NEW k \in {-2, -1} PROVE Bhadra(k)' <=> Bhadra(k + 1)
  <2>1. k \in {-2, -1, 0}
    OBVIOUS
  <2>2. \A i \in 0..2 : i * N \in {0, N, 2 * N} /\ N \in Int
    <3>1. N \in Int /\ 0 * N = 0 /\ 1 * N = N
      BY <1>2
    <3>2. \A i \in 0..2 : i = 0 \/ i = 1 \/ i = 2
      OBVIOUS
    <3> QED
      BY <3>1, <3>2
  <2>3. \A i \in 0..2 : KaranaAt(Evening(k) + i * Night(daytime))' = KaranaAt(E(k) + i * N)'
    BY <1>2, <1>4, <1>9, <2>1 DEF KaranaAt, TithiAt, Ordinal, Index
  <2>4. \A i \in 0..2 : KaranaAt(Evening(k + 1) + i * Night(daytime)) = KaranaAt(E(k + 1) + i * N)
    BY <1>2, <1>3, <1>9, <2>1
  <2>5. \A i \in 0..2 : KaranaAt(E(k) + i * N)' = KaranaAt(E(k + 1) + i * N)
    BY <1>8, <2>1, <2>2
  <2>6. \A i \in 0..2 : KaranaAt(Evening(k) + i * Night(daytime))' = KaranaAt(Evening(k + 1) + i * Night(daytime))
    BY <2>3, <2>4, <2>5
  <2> QED
    BY <2>6 DEF Bhadra, Vishti
<1>12. ASSUME NEW k \in {-2, -1} PROVE Pradosh(k)' = Pradosh(k + 1)
  <2>1. k \in {-2, -1, 0}
    OBVIOUS
  <2>2. Pradosh(k)' = Ordinal(E(k) + 2 * N)'
    BY <1>2, <1>4, <1>9, <2>1 DEF Pradosh, Ordinal, Index
  <2>3. Pradosh(k + 1) = Ordinal(E(k + 1) + 2 * N)
    BY <1>2, <1>3, <1>9, <2>1 DEF Pradosh
  <2> QED
    BY <1>8, <2>1, <2>2, <2>3
<1>13. Pradosh(-2)' = Pradosh(-1) /\ Pradosh(-1)' = Pradosh(0)
  <2>1. -2 + 1 = -1 /\ -1 + 1 = 0
    OBVIOUS
  <2> QED
    BY <1>12, <2>1
<1> QED
  BY <1>10, <1>11, <1>13

Suited(f) == IF f.kind = "holikaDahan" THEN SuitedHolika(f) ELSE SuitedTithi(f)
SuitedFestivals == \A f \in Festivals : Suited(f)

\* The festival's day is behind, today and tomorrow.
Gone == IF fest.kind = "holikaDahan" THEN EveningBehind ELSE BehindToday
GoneTomorrow == IF fest.kind = "holikaDahan" THEN EveningBehindTomorrow ELSE BehindTomorrow

\* What holds every morning: where the Moon is, that the festival has been kept if it
\* was due and its day is behind, and whether Holika Dahan was kept yesterday.
PlaceInv ==
  /\ SkyInv /\ context \in Contexts[fest]
  /\ daytime = Daytime /\ Ordinal(0) \in -3..5
KeptInv == kept = IF Due /\ Gone THEN 1 ELSE 0
HolikaInv == fest.kind = "holikaDahan" => (yesterday <=> HolikaChosen(-1))
DayInv == PlaceInv /\ KeptInv /\ HolikaInv

LEMMA FestivalFacts ==
  ASSUME SuitedFestivals, fest \in Festivals
  PROVE  \/ fest.kind = "holikaDahan" /\ SuitedHolika(fest)
         \/ fest.kind = "lunarTithi" /\ fest.kind # "holikaDahan" /\ SuitedTithi(fest)
<1>1. fest.kind \in {"lunarTithi", "holikaDahan"}
  <2>1. Festivals \subseteq Festival
    BY FestivalsAssumption, Zenon
  <2> QED
    BY <2>1 DEF Festival
<1>2. Suited(fest)
  BY DEF SuitedFestivals
<1> QED
  BY <1>1, <1>2 DEF Suited

\* Today is the day if it is due, not behind, and behind tomorrow; what is behind stays
\* behind.
LEMMA KeptByPlace ==
  ASSUME LongTithis, SteadyDays, SuitedFestivals, PlaceInv
  PROVE  /\ KeptToday <=> Due /\ GoneTomorrow /\ ~Gone
         /\ Gone => GoneTomorrow
         /\ Ordinal(0) = -3 => ~Gone
         /\ Over => Gone
         /\ KeptToday => 0 \in Ordinal(0)..Ordinal(Day - 1)
<1>1. SkyInv /\ context \in Contexts[fest] /\ daytime = Daytime /\ Ordinal(0) \in -3..5 /\ fest \in Festivals
  BY DEF PlaceInv, SkyInv
<1>2. CASE fest.kind = "holikaDahan" /\ SuitedHolika(fest)
  <2>1. KeptToday <=> Due /\ EveningBehindTomorrow /\ ~EveningBehind
    BY <1>1, <1>2, EveningByNumbers, MonthOfPurnima DEF KeptToday
  <2>2. /\ Pradosh(-2) \in Int /\ Sunset(-1) \in Int /\ Pradosh(-1) \in Int /\ Sunset(0) \in Int /\ Pradosh(0) \in Int
        /\ Pradosh(-2) <= Sunset(-1) /\ Sunset(-1) <= Pradosh(-1) /\ Pradosh(-1) <= Sunset(0)
        /\ Sunset(-1) <= Pradosh(-2) + 1 /\ Sunset(0) <= Pradosh(-1) + 1 /\ Pradosh(-1) <= Sunset(-1) + 1
        /\ Pradosh(-1) <= Ordinal(0) /\ Ordinal(0) <= Sunset(0) /\ Sunset(0) <= Pradosh(0) /\ Ordinal(0) \in Int
    BY <1>1, <1>2, EveningNumbers
  <2>3. EveningBehind => EveningBehindTomorrow
    BY <2>2 DEF EveningBehind, EveningBehindTomorrow
  <2>4. Ordinal(0) = -3 => ~EveningBehind
    BY <2>2 DEF EveningBehind
  <2>5. Over => EveningBehind
    BY <2>2 DEF EveningBehind, Over
  <2>6. KeptToday => 0 \in Ordinal(0)..Ordinal(Day - 1)
    <3> SUFFICES ASSUME KeptToday PROVE 0 \in Ordinal(0)..Ordinal(Day - 1)
      OBVIOUS
    <3>1. Sunset(0) <= 0 /\ 0 <= Pradosh(0)
      BY <1>1, <1>2, EveningByNumbers DEF KeptToday
    <3> DEFINE t == Daytime + 2 * Night(daytime)
               u == Day - 1
    <3>2. Pradosh(0) = Ordinal(t)
      BY <1>1, EveningTimes DEF Pradosh
    <3>3. t \in Int /\ u \in Int /\ Past <= t /\ t <= u /\ u <= Future
      <4>1. 5 * t <= 4 * Day /\ t >= 0 /\ t \in Int
        BY <1>1, <1>2, EveningTimes, DayFacts DEF SuitedHolika
      <4> HIDE DEF t
      <4> QED
        BY <4>1, DayFacts
    <3> HIDE DEF t, u
    <3>4. Ordinal(u) \in Int /\ Ordinal(t) <= Ordinal(u)
      BY <1>1, <3>3, OrdinalsGrow
    <3>5. Ordinal(u) >= 0 /\ Ordinal(0) <= 0
      BY <2>2, <3>1, <3>2, <3>4
    <3> QED
      BY <2>2, <3>4, <3>5 DEF u
  <2> QED
    BY <1>2, <2>1, <2>3, <2>4, <2>5, <2>6 DEF Gone, GoneTomorrow
<1>3. CASE fest.kind = "lunarTithi" /\ fest.kind # "holikaDahan" /\ SuitedTithi(fest)
  <2>1. KeptToday <=> Due /\ BehindTomorrow /\ ~BehindToday
    BY <1>1, <1>3, TithiKept
  <2>2. /\ Opens(-Day) \in Int /\ Closes(-Day) \in Int /\ Opens(0) \in Int /\ Closes(0) \in Int
        /\ Opens(Day) \in Int /\ Closes(Day) \in Int
        /\ Opens(-Day) <= Closes(-Day) /\ Closes(-Day) <= Ordinal(0) /\ Ordinal(0) <= Opens(0)
        /\ Opens(0) <= Closes(0) /\ Closes(0) <= Opens(Day) /\ Opens(Day) <= Closes(Day)
        /\ Ordinal(0) <= Opens(-Day) + 2 /\ Closes(0) <= Ordinal(0) + 1
    BY <1>1, <1>3, EdgeNumbers
  <2>3. BehindToday => BehindTomorrow
    <3> DEFINE p == Opens(-Day)
               q == Closes(-Day)
               a == Opens(0)
               b == Closes(0)
               x == Opens(Day)
               y == Closes(Day)
    <3>1. /\ p \in Int /\ q \in Int /\ a \in Int /\ b \in Int /\ x \in Int /\ y \in Int
          /\ p <= q /\ q <= a /\ a <= b /\ b <= x /\ x <= y
      BY <1>1, <2>2
    <3>2. /\ BehindToday <=> IF fest.later THEN (a >= 1 /\ q >= 0) \/ p >= 1
                             ELSE p >= 0 \/ (q >= 0 /\ b >= 1) \/ (~NightRule /\ a >= 1)
          /\ BehindTomorrow <=> IF fest.later THEN (x >= 1 /\ b >= 0) \/ a >= 1
                                ELSE a >= 0 \/ (b >= 0 /\ y >= 1) \/ (~NightRule /\ x >= 1)
      BY DEF BehindToday, BehindTomorrow, Behind
    <3> HIDE DEF p, q, a, b, x, y
    <3>3. CASE fest.later
      BY <3>1, <3>2, <3>3
    <3>4. CASE ~fest.later
      BY <3>1, <3>2, <3>4
    <3> QED
      BY <3>3, <3>4
  <2>4. Ordinal(0) = -3 => ~BehindToday
    BY <2>2 DEF BehindToday, Behind
  <2>5. Over => BehindToday
    BY <1>1, <2>2 DEF BehindToday, Behind, Over
  <2>6. KeptToday => ChosenDay
    BY <1>3 DEF KeptToday, KeptAsTithi, ChosenDay
  <2>7. KeptToday => 0 \in Ordinal(0)..Ordinal(Day - 1)
    BY <1>1, <1>3, <2>6, TithiPrevails
  <2> QED
    BY <1>3, <2>1, <2>3, <2>4, <2>5, <2>7 DEF Gone, GoneTomorrow
<1> QED
  BY <1>1, <1>2, <1>3, FestivalFacts

LEMMA InitDay == ASSUME LongTithis, SteadyDays, SuitedFestivals, Init PROVE DayInv
<1>1. SkyInv /\ Ordinal(0) = -3
  BY InitSky
<1>2. PlaceInv
  BY <1>1 DEF Init, PlaceInv
<1>3. ~Gone
  BY <1>1, <1>2, KeptByPlace
<1>4. KeptInv
  BY <1>3 DEF Init, KeptInv
<1>5. HolikaInv
  <2> SUFFICES ASSUME fest.kind = "holikaDahan" PROVE ~yesterday /\ ~HolikaChosen(-1)
    BY DEF HolikaInv
  <2>1. SuitedHolika(fest)
    BY <1>1, FestivalFacts DEF SkyInv
  <2>2. daytime = Daytime /\ ~yesterday /\ Ordinal(0) \in -3..5
    BY <1>1 DEF Init
  <2>3. /\ Purnima(-1) <=> Sunset(-1) <= 0 /\ 0 <= Pradosh(-1)
        /\ Purnima(-2) <=> Sunset(-2) <= 0 /\ 0 <= Pradosh(-2)
    BY <1>1, <2>1, <2>2, PurnimaByNumbers
  <2>4. Pradosh(-2) \in Int /\ Pradosh(-1) \in Int /\ Sunset(-1) \in Int
        /\ Pradosh(-2) <= Sunset(-1) /\ Sunset(-1) <= Pradosh(-1) /\ Pradosh(-1) <= Ordinal(0)
    BY <1>1, <2>1, <2>2, EveningNumbers
  <2>5. ~Purnima(-1) /\ ~Purnima(-2)
    BY <1>1, <2>3, <2>4
  <2> QED
    BY <2>2, <2>5, ChosenEvenings
<1> QED
  BY <1>2, <1>4, <1>5 DEF DayInv

\* The lunation at sunrise is the same on every day around Purnima.
LEMMA MoonStays ==
  ASSUME SuitedHolika(fest), Ordinal(0) \in -3..5, Ordinal(0)' \in -3..5, NextDay
  PROVE  MoonAt(0)' = MoonAt(0)
<1>1. fest.tithi = 15 /\ fest' = fest /\ context' = context
  BY DEF SuitedHolika, NextDay
<1>2. (fest.tithi + Ordinal(0) - 1) \div 30 = 0
  BY <1>1
<1>3. ((fest.tithi + Ordinal(0) - 1) \div 30)' = 0
  <2> DEFINE o == Ordinal(0)'
  <2>1. o \in -3..5
    OBVIOUS
  <2> HIDE DEF o
  <2>2. (15 + o - 1) \div 30 = 0
    BY <2>1
  <2> QED
    BY <1>1, <2>2 DEF o
<1> QED
  BY <1>1, <1>2, <1>3 DEF MoonAt

LEMMA NextDayKeeps ==
  ASSUME LongTithis, SteadyDays, SuitedFestivals, DayInv, NextDay
  PROVE  DayInv'
<1>1. /\ SkyInv /\ context \in Contexts[fest] /\ daytime = Daytime /\ Ordinal(0) \in -3..5 /\ fest \in Festivals
      /\ PlaceInv /\ KeptInv /\ HolikaInv
  BY DEF DayInv, PlaceInv, SkyInv
<1>2. fest' = fest /\ context' = context /\ daytime' = Daytime /\ ~Over
      /\ kept' = kept + (IF KeptToday THEN 1 ELSE 0) /\ yesterday' = KeptToday
  BY <1>1, DayFacts DEF NextDay, SteadyDays
<1>3. /\ SkyInv'
      /\ \A x \in Int : Past <= x /\ x + Day <= Future => Ordinal(x)' = Ordinal(x + Day)
  BY <1>1, NextSky
<1>4. Ordinal(0)' \in -3..5
  <2>1. 0 \in Int /\ Past <= 0 /\ 0 + Day <= Future /\ 0 + Day = Day
    BY DayFacts
  <2>2. Ordinal(0)' = Ordinal(Day)
    BY <1>3, <2>1
  <2>3. /\ Ordinal(0) \in Int /\ Ordinal(Day) \in Int /\ Ordinal(0) <= Ordinal(Day)
        /\ 5 * (Day - 0) <= 8 * Day => Ordinal(Day) <= Ordinal(0) + 2
    BY <1>1, <2>1, DayFacts, OrdinalsGrow
  <2>4. Ordinal(0) <= 3
    BY <1>1, <1>2 DEF Over
  <2> QED
    BY <1>1, <2>2, <2>3, <2>4, DayFacts
<1>5. PlaceInv'
  BY <1>1, <1>2, <1>3, <1>4 DEF PlaceInv
<1>6. Gone' <=> GoneTomorrow
  <2>1. CASE fest.kind = "holikaDahan" /\ SuitedHolika(fest)
    <3>1. /\ \A k \in {-2, -1, 0} : Purnima(k)' <=> Purnima(k + 1)
          /\ \A k \in {-2, -1} : Bhadra(k)' <=> Bhadra(k + 1)
          /\ Pradosh(-2)' = Pradosh(-1) /\ Pradosh(-1)' = Pradosh(0)
      BY <1>1, <2>1, NextEvening
    <3>2. -1 + 1 = 0 /\ 0 + 1 = 1
      OBVIOUS
    <3>3. GivesWay(-1)' <=> GivesWay(0)
      BY <3>1, <3>2 DEF GivesWay
    <3>4. EveningBehind' <=> EveningBehindTomorrow
      BY <3>1, <3>3 DEF EveningBehind, EveningBehindTomorrow
    <3> QED
      BY <1>2, <2>1, <3>4 DEF Gone, GoneTomorrow
  <2>2. CASE fest.kind = "lunarTithi" /\ fest.kind # "holikaDahan" /\ SuitedTithi(fest)
    <3>1. BehindToday' <=> BehindTomorrow
      BY <1>1, <2>2, NextWindow
    <3> QED
      BY <1>2, <2>2, <3>1 DEF Gone, GoneTomorrow
  <2> QED
    BY <1>1, <2>1, <2>2, FestivalFacts
<1>7. KeptInv'
  <2>1. Due' <=> Due
    BY <1>2 DEF Due
  <2>2. (KeptToday <=> Due /\ GoneTomorrow /\ ~Gone) /\ (Gone => GoneTomorrow)
    BY <1>1, KeptByPlace
  <2>3. kept = IF Due /\ Gone THEN 1 ELSE 0
    BY <1>1 DEF KeptInv
  <2>4. kept' = IF Due /\ GoneTomorrow THEN 1 ELSE 0
    BY <1>2, <2>2, <2>3
  <2> QED
    BY <1>6, <2>1, <2>4 DEF KeptInv
<1>8. HolikaInv'
  <2> SUFFICES ASSUME fest.kind = "holikaDahan" PROVE yesterday' <=> HolikaChosen(-1)'
    BY <1>2 DEF HolikaInv
  <2>1. SuitedHolika(fest)
    BY <1>1, FestivalFacts
  <2>2. /\ \A k \in {-2, -1, 0} : Purnima(k)' <=> Purnima(k + 1)
        /\ \A k \in {-2, -1} : Bhadra(k)' <=> Bhadra(k + 1)
    BY <1>1, <2>1, NextEvening
  <2>3. -2 + 1 = -1 /\ -1 + 1 = 0 /\ 0 + 1 = 1
    OBVIOUS
  <2>4. /\ Purnima(-2)' <=> Purnima(-1)
        /\ Purnima(-1)' <=> Purnima(0)
        /\ Purnima(0)' <=> Purnima(1)
        /\ Bhadra(-2)' <=> Bhadra(-1)
        /\ Bhadra(-1)' <=> Bhadra(0)
    BY <2>2, <2>3
  <2>5. (GivesWay(-2)' <=> GivesWay(-1)) /\ (GivesWay(-1)' <=> GivesWay(0))
    BY <2>3, <2>4 DEF GivesWay
  <2>6. MoonAt(0)' = MoonAt(0)
    BY <1>1, <1>2, <1>4, <2>1, MoonStays
  <2>7. HolikaChosen(0) <=> /\ MoonAt(0) = Lunation(Month, FALSE)
                            /\ \/ Purnima(0) /\ ~GivesWay(0) /\ ~(Purnima(-1) /\ ~GivesWay(-1))
                               \/ Purnima(-1) /\ GivesWay(-1)
    BY ChosenEvenings
  <2>8. HolikaChosen(-1)' <=> /\ MoonAt(0)' = Lunation(Month, FALSE)
                              /\ \/ Purnima(-1)' /\ ~GivesWay(-1)' /\ ~(Purnima(-2)' /\ ~GivesWay(-2)')
                                 \/ Purnima(-2)' /\ GivesWay(-2)'
    <3>1. /\ (Choice(-1) = -1)' <=> Purnima(-1)' /\ ~GivesWay(-1)'
          /\ (Choice(-2) = -2)' <=> Purnima(-2)' /\ ~GivesWay(-2)'
          /\ (Choice(-2) = -1)' <=> Purnima(-2)' /\ GivesWay(-2)'
      BY <2>3 DEF Choice, NoEvening, GivesWay
    <3>2. -1 - 1 = -2
      OBVIOUS
    <3> QED
      BY <3>1, <3>2 DEF HolikaChosen
  <2>9. yesterday' <=> HolikaChosen(0)
    BY <1>2 DEF KeptToday
  <2> QED
    BY <2>4, <2>5, <2>6, <2>7, <2>8, <2>9
<1> QED
  BY <1>5, <1>7, <1>8 DEF DayInv

LEMMA DayInvHolds ==
  ASSUME LongTithis, SteadyDays, SuitedFestivals
  PROVE  Spec => []DayInv
<1>1. Init => DayInv
  BY InitDay
<1>2. DayInv /\ [NextDay]_vars => DayInv'
  <2> SUFFICES ASSUME DayInv, [NextDay]_vars PROVE DayInv'
    OBVIOUS
  <2>1. CASE NextDay
    BY <2>1, NextDayKeeps
  <2>2. CASE UNCHANGED vars
    <3>1. /\ fest' = fest /\ context' = context /\ first' = first /\ begins' = begins
          /\ daytime' = daytime /\ kept' = kept /\ yesterday' = yesterday
      BY <2>2 DEF vars
    <3>2. Past' = Past /\ Future' = Future
      BY <3>1 DEF Past, Future
    <3>3. \A x : Ordinal(x)' = Ordinal(x) /\ TithiAt(x)' = TithiAt(x) /\ KaranaAt(x)' = KaranaAt(x)
      BY <3>1 DEF Ordinal, TithiAt, KaranaAt, Index
    <3>4. PlaceInv'
      BY <3>1, <3>2, <3>3 DEF DayInv, PlaceInv, SkyInv
    <3>5. (Due' <=> Due) /\ MoonAt(0)' = MoonAt(0)
      BY <3>1, <3>3 DEF Due, MoonAt
    <3>6. FirstEdge' = FirstEdge /\ LastEdge' = LastEdge /\ (NightRule' <=> NightRule)
          /\ \A k : Evening(k)' = Evening(k) /\ Night(daytime)' = Night(daytime)
      BY <3>1 DEF FirstEdge, LastEdge, Edges, NightRule, Evening
    <3>7. \A d : Opens(d)' = Opens(d) /\ Closes(d)' = Closes(d) /\ Pradosh(d)' = Pradosh(d)
      BY <3>1, <3>6 DEF Opens, Closes, Pradosh, Ordinal, Index
    <3>8. \A k : (Purnima(k)' <=> Purnima(k)) /\ (Bhadra(k)' <=> Bhadra(k))
      BY <3>1, <3>6 DEF Purnima, Bhadra, KaranaAt, TithiAt, Ordinal, Index
    <3>9. \A k : (GivesWay(k)' <=> GivesWay(k)) /\ Choice(k)' = Choice(k)
      BY <3>8 DEF GivesWay, Choice
    <3>10. Gone' <=> Gone
      BY <3>1, <3>6, <3>7, <3>9 DEF Gone, EveningBehind, BehindToday, Behind
    <3>11. HolikaChosen(-1)' <=> HolikaChosen(-1)
      BY <3>5, <3>9 DEF HolikaChosen
    <3>12. KeptInv' /\ HolikaInv'
      BY <3>1, <3>5, <3>10, <3>11 DEF DayInv, KeptInv, HolikaInv
    <3> QED
      BY <3>4, <3>12 DEF DayInv
  <2> QED
    BY <2>1, <2>2
<1> QED
  BY <1>1, <1>2, PTL DEF Spec

\* A festival that is due is kept on exactly one day, and one that is not due on none
\* (calendar.go:519-585; 403-431 for Holika Dahan): on days of one length, wherever tithis
\* begin and whichever of the lengths each has.  A first tithi beside an Adhika month
\* is left out: there the rule does give two days or none.
THEOREM FestivalsKeptOnce ==
  ASSUME LongTithis, SteadyDays, SuitedFestivals
  PROVE  Spec => []KeptOnce
<1>1. DayInv => KeptOnce
  <2> SUFFICES ASSUME DayInv PROVE KeptOnce
    OBVIOUS
  <2>1. kept = IF Due /\ Gone THEN 1 ELSE 0
    BY DEF DayInv, KeptInv
  <2>2. Over => Gone
    BY KeptByPlace DEF DayInv
  <2> QED
    BY <2>1, <2>2 DEF KeptOnce
<1> QED
  BY <1>1, DayInvHolds, PTL

\* A day that keeps a festival meets its tithi between its sunrise and the next
\* (calendar.go:519-585): neither a rule that takes the later day, nor one for a tithi
\* no window meets, nor the one for evenings gives it a day the tithi has left.
THEOREM FestivalsKeptInTheirTithi ==
  ASSUME LongTithis, SteadyDays, SuitedFestivals
  PROVE  Spec => []PrevailsThatDay
<1>1. DayInv => PrevailsThatDay
  BY KeptByPlace DEF DayInv, PrevailsThatDay
<1> QED
  BY <1>1, DayInvHolds, PTL

\* Holi is kept exactly on the day after Holika Dahan (calendar.go:586-593), although
\* each of the two days decides for itself, from evenings up to two days before to one after.
THEOREM HoliIsTheNextDay ==
  ASSUME LongTithis, SteadyDays, SuitedFestivals
  PROVE  Spec => []HoliFollowsHolika
<1>1. DayInv => HoliFollowsHolika
  BY DEF DayInv, HolikaInv, HoliFollowsHolika, HoliToday
<1> QED
  BY <1>1, DayInvHolds, PTL

=============================================================================
