--------------------------- MODULE LocalTimeProofs ---------------------------
(***************************************************************************)
(* Proofs about LocalTime for every zone and every unit of time.           *)
(***************************************************************************)
EXTENDS LocalTime, TLAPS, WellFoundedInduction

-----------------------------------------------------------------------------
(* Sets of numbers.                                                        *)

\* A set of natural numbers has a least element.
LEMMA LeastNatural ==
  ASSUME NEW T \in SUBSET Nat, T # {}
  PROVE  \E x \in T : \A y \in T : x <= y
<1> DEFINE R == OpToRel(<, Nat)
<1>1. R = {ss \in Nat \X Nat : ss[1] < ss[2]}
  BY DEF OpToRel
<1>2. IsWellFoundedOn(R, Nat)
  BY NatLessThanWellFounded
<1> HIDE DEF R
<1>3. PICK x \in T : \A y \in T : ~ (<<y, x>> \in R)
  BY <1>2, WFMin
<1>4. ASSUME NEW y \in T PROVE x <= y
  <2>1. <<y, x>> \in R <=> <<y, x>>[1] < <<y, x>>[2]
    BY <1>1
  <2>2. ~ (y < x)
    BY <1>3, <2>1
  <2> QED
    BY <2>2
<1> QED
  BY <1>4

\* A set of integers with a bound from above has a greatest element.
LEMMA GreatestInteger ==
  ASSUME NEW T \in SUBSET Int, T # {}, NEW b \in Int, \A x \in T : x <= b
  PROVE  \E x \in T : \A y \in T : y <= x
<1> DEFINE D == {b - x : x \in T}
<1>1. D \in SUBSET Nat
  <2> SUFFICES ASSUME NEW x \in T PROVE b - x \in Nat
    OBVIOUS
  <2>1. x \in Int /\ x <= b
    OBVIOUS
  <2> QED
    BY <2>1
<1>2. D # {}
  OBVIOUS
<1>3. PICK d \in D : \A e \in D : d <= e
  BY <1>1, <1>2, LeastNatural
<1>4. PICK x \in T : d = b - x
  OBVIOUS
<1>5. ASSUME NEW y \in T PROVE y <= x
  <2>1. d <= b - y
    BY <1>3
  <2>2. x \in Int /\ y \in Int
    OBVIOUS
  <2> HIDE DEF D
  <2> QED
    BY <1>4, <2>1, <2>2
<1> QED
  BY <1>5

\* A set of integers with a bound from below has a least element.
LEMMA LeastInteger ==
  ASSUME NEW T \in SUBSET Int, T # {}, NEW b \in Int, \A x \in T : b <= x
  PROVE  \E x \in T : \A y \in T : x <= y
<1> DEFINE D == {x - b : x \in T}
<1>1. D \in SUBSET Nat
  <2> SUFFICES ASSUME NEW x \in T PROVE x - b \in Nat
    OBVIOUS
  <2>1. x \in Int /\ b <= x
    OBVIOUS
  <2> QED
    BY <2>1
<1>2. D # {}
  OBVIOUS
<1>3. PICK d \in D : \A e \in D : d <= e
  BY <1>1, <1>2, LeastNatural
<1>4. PICK x \in T : d = x - b
  OBVIOUS
<1>5. ASSUME NEW y \in T PROVE x <= y
  <2>1. d <= y - b
    BY <1>3
  <2>2. x \in Int /\ y \in Int
    OBVIOUS
  <2> HIDE DEF D
  <2> QED
    BY <1>4, <2>1, <2>2
<1> QED
  BY <1>5

-----------------------------------------------------------------------------
(* Division.                                                               *)

LEMMA Division ==
  ASSUME NEW n \in Nat \ {0}, NEW a \in Int
  PROVE  /\ a \div n \in Int /\ a % n \in Int /\ 0 <= a % n /\ a % n < n
         /\ a = n * (a \div n) + (a % n)
OBVIOUS

\* Quotient and rest are the only ones.
LEMMA QuotientUnique ==
  ASSUME NEW n \in Nat \ {0}, NEW p \in Int, NEW q \in Int, NEW r \in Int, NEW s \in Int,
         0 <= r, r < n, 0 <= s, s < n, n * p + r = n * q + s
  PROVE  p = q /\ r = s
<1>1. n * (p - q) = s - r
  OBVIOUS
<1>2. CASE p > q
  <2>1. n * (p - q) >= n
    BY <1>2
  <2> QED
    BY <1>1, <2>1
<1>3. CASE p < q
  <2>1. n * (q - p) >= n
    BY <1>3
  <2>2. n * (q - p) = r - s
    OBVIOUS
  <2> QED
    BY <2>1, <2>2
<1>4. CASE p = q
  BY <1>4
<1> QED
  BY <1>2, <1>3, <1>4

LEMMA DivisionUnique ==
  ASSUME NEW n \in Nat \ {0}, NEW a \in Int, NEW q \in Int, NEW r \in Int,
         0 <= r, r < n, a = n * q + r
  PROVE  a \div n = q /\ a % n = r
BY Division, QuotientUnique

\* Whole multiples change the quotient only.
LEMMA RestShift ==
  ASSUME NEW n \in Nat \ {0}, NEW a \in Int, NEW k \in Int
  PROVE  (a + n * k) % n = a % n /\ (a + n * k) \div n = (a \div n) + k
<1>1. /\ a \div n \in Int /\ a % n \in Int /\ 0 <= a % n /\ a % n < n
      /\ a = n * (a \div n) + (a % n)
  BY Division
<1> DEFINE q == (a \div n) + k
           r == a % n
<1>2. q \in Int /\ r \in Int /\ a + n * k \in Int /\ a + n * k = n * q + r
  BY <1>1
<1> HIDE DEF q, r
<1>3. 0 <= r /\ r < n
  BY <1>1 DEF r
<1>4. (a + n * k) \div n = q /\ (a + n * k) % n = r
  BY <1>2, <1>3, DivisionUnique
<1> QED
  BY <1>4 DEF q, r

\* Between a quotient's first value and the next one's the index is the same.
LEMMA QuotientOf ==
  ASSUME NEW n \in Nat \ {0}, NEW u \in Int, NEW z \in Int
  PROVE  u \div n = z <=> n * z <= u /\ u < n * (z + 1)
<1>1. n * z \in Int /\ n * (z + 1) = n * z + n
  OBVIOUS
<1>2. ASSUME n * z <= u, u < n * (z + 1) PROVE u \div n = z
  <2> DEFINE r == u - n * z
  <2>1. r \in Int /\ 0 <= r /\ r < n /\ u = n * z + r
    BY <1>1, <1>2
  <2> HIDE DEF r
  <2> QED
    BY <2>1, DivisionUnique
<1>3. ASSUME u \div n = z PROVE n * z <= u /\ u < n * (z + 1)
  <2>1. u % n \in Int /\ 0 <= u % n /\ u % n < n /\ u = n * z + (u % n)
    BY <1>3, Division
  <2> QED
    BY <1>1, <2>1
<1> QED
  BY <1>2, <1>3

-----------------------------------------------------------------------------
(* Time zones.                                                             *)

\* A zone whose offsets are less than a day.
Bounded(zone) ==
  /\ \A o \in {zone.first} \cup {c.offset : c \in zone.changes} : o \in Int /\ -Day < o /\ o < Day
  /\ \A c \in zone.changes : c.at \in Int

\* And whose changes are at least so far apart.
Spaced(zone, gap) ==
  /\ Bounded(zone)
  /\ \A c, d \in zone.changes : c.at < d.at => c.at + gap <= d.at

\* The offset in force is the first one or that of a change.
LEMMA OffsetListed ==
  ASSUME NEW zone, Bounded(zone), NEW t \in Int
  PROVE  Offset(zone, t) \in {zone.first} \cup {c.offset : c \in zone.changes}
<1> DEFINE past == {c \in zone.changes : c.at <= t}
<1>1. CASE past = {}
  BY <1>1 DEF Offset
<1>2. CASE past # {}
  <2> DEFINE T == {c.at : c \in past}
  <2>1. T \in SUBSET Int /\ T # {} /\ \A x \in T : x <= t
    BY <1>2 DEF Bounded
  <2>2. PICK x \in T : \A y \in T : y <= x
    BY <2>1, GreatestInteger
  <2>3. PICK c \in past : x = c.at
    OBVIOUS
  <2>4. \A d \in past : d.at <= c.at
    BY <2>2, <2>3
  <2>5. (CHOOSE b \in past : \A d \in past : d.at <= b.at) \in past
    BY <2>4
  <2>6. Offset(zone, t) = (CHOOSE b \in past : \A d \in past : d.at <= b.at).offset
    BY <1>2 DEF Offset
  <2> QED
    BY <2>5, <2>6
<1> QED
  BY <1>1, <1>2

LEMMA OffsetBounds ==
  ASSUME NEW zone, Bounded(zone)
  PROVE  \A t \in Int : Offset(zone, t) \in Int /\ -Day < Offset(zone, t) /\ Offset(zone, t) < Day
BY OffsetListed, Zenon DEF Bounded

\* From one instant to another the offset changes only where a change lies between.
LEMMA OffsetKept ==
  ASSUME NEW zone, NEW s \in Int, NEW t \in Int,
         \A c \in zone.changes : c.at <= s <=> c.at <= t
  PROVE  Offset(zone, s) = Offset(zone, t)
<1> DEFINE Past(i) == {c \in zone.changes : c.at <= i}
           Latest(past) == IF past = {} THEN zone.first
                           ELSE (CHOOSE c \in past : \A d \in past : d.at <= c.at).offset
<1>1. \A i : Offset(zone, i) = Latest(Past(i))
  BY DEF Offset
<1>2. Past(s) = Past(t)
  BY Zenon
<1> HIDE DEF Past, Latest
<1> QED
  BY <1>1, <1>2

\* Within the gap the offset is the one before or the one after.
LEMMA OneChange ==
  ASSUME NEW zone, NEW gap \in Int, Spaced(zone, gap), NEW s \in Int, NEW t \in Int, NEW u \in Int,
         s <= t, t <= u, u <= s + gap
  PROVE  Offset(zone, t) \in {Offset(zone, s), Offset(zone, u)}
<1>1. CASE \E c \in zone.changes : s < c.at /\ c.at <= t
  <2>1. PICK c \in zone.changes : s < c.at /\ c.at <= t
    BY <1>1
  <2>2. ASSUME NEW d \in zone.changes PROVE d.at <= t <=> d.at <= u
    BY <2>1 DEF Spaced, Bounded
  <2> QED
    BY <2>2, OffsetKept
<1>2. CASE ~\E c \in zone.changes : s < c.at /\ c.at <= t
  <2>1. ASSUME NEW d \in zone.changes PROVE d.at <= s <=> d.at <= t
    BY <1>2 DEF Spaced, Bounded
  <2> QED
    BY <2>1, OffsetKept
<1> QED
  BY <1>1, <1>2

\* Of three instants within the gap, two have the same offset.
LEMMA TwoOffsets ==
  ASSUME NEW zone, NEW gap \in Int, Spaced(zone, gap), NEW x \in Int, NEW y \in Int, NEW z \in Int,
         \A s, t \in {x, y, z} : s <= t + gap,
         Offset(zone, x) # Offset(zone, y)
  PROVE  Offset(zone, z) \in {Offset(zone, x), Offset(zone, y)}
<1> DEFINE O(t) == Offset(zone, t)
<1>1. z <= x /\ x <= y => O(x) \in {O(z), O(y)}
  BY OneChange
<1>2. z <= y /\ y <= x => O(y) \in {O(z), O(x)}
  BY OneChange
<1>3. x <= z /\ z <= y => O(z) \in {O(x), O(y)}
  BY OneChange
<1>4. y <= z /\ z <= x => O(z) \in {O(x), O(y)}
  BY OneChange
<1>5. x <= y /\ y <= z => O(y) \in {O(x), O(z)}
  BY OneChange
<1>6. y <= x /\ x <= z => O(x) \in {O(y), O(z)}
  BY OneChange
<1> QED
  BY <1>1, <1>2, <1>3, <1>4, <1>5, <1>6

LEMMA SampledNear ==
  ASSUME NEW zone, NEW wall \in Int
  PROVE  {Offset(zone, wall - Day), Offset(zone, wall), Offset(zone, wall + Day)}
           \subseteq Sampled(zone, wall)
<1>1. wall + (-1) * Day = wall - Day /\ wall + 0 * Day = wall /\ wall + 1 * Day = wall + Day
  BY DayAssumption
<1>2. \A k \in {-1, 0, 1} : Offset(zone, wall + k * Day) \in Sampled(zone, wall)
  BY DEF Sampled
<1> QED
  BY <1>1, <1>2

\* Sampling finds every instant that shows a wall clock, so a time of birth is
\* refused exactly when the clock shows it twice or never (chart.go:65-80).
THEOREM SamplesSuffice ==
  ASSUME NEW zone, Spaced(zone, Day), NEW wall \in Int
  PROVE  Candidates(zone, wall) = {t \in Int : Wall(zone, t) = wall}
<1>1. ASSUME NEW t \in Int, Wall(zone, t) = wall PROVE t \in Candidates(zone, wall)
  <2>1. t = wall - Offset(zone, t) /\ wall - Day < t /\ t < wall + Day
    BY <1>1, OffsetBounds, DayAssumption DEF Wall, Spaced
  <2>2. CASE t <= wall
    <3>1. Offset(zone, t) \in {Offset(zone, wall - Day), Offset(zone, wall)}
      BY <2>1, <2>2, OneChange, DayAssumption
    <3>2. Offset(zone, t) \in Sampled(zone, wall)
      BY <3>1, SampledNear
    <3> QED
      BY <1>1, <2>1, <3>2 DEF Candidates
  <2>3. CASE wall <= t
    <3>1. Offset(zone, t) \in {Offset(zone, wall), Offset(zone, wall + Day)}
      BY <2>1, <2>3, OneChange, DayAssumption
    <3>2. Offset(zone, t) \in Sampled(zone, wall)
      BY <3>1, SampledNear
    <3> QED
      BY <1>1, <2>1, <3>2 DEF Candidates
  <2> QED
    BY <2>1, <2>2, <2>3
<1>2. ASSUME NEW t \in Candidates(zone, wall) PROVE t \in Int /\ Wall(zone, t) = wall
  <2>1. PICK k \in -2..2 : t = wall - Offset(zone, wall + k * Day)
    BY DEF Candidates, Sampled
  <2>2. wall + k * Day \in Int
    BY DayAssumption
  <2> QED
    BY <2>1, <2>2, OffsetBounds DEF Candidates, Spaced
<1> QED
  BY <1>1, <1>2

\* time.Date reaches every wall clock that exists: a date's midnight, and the year
\* scan's step to it, go wrong only where the clocks leave that midnight out
\* (calendar.go:279-282, festivals.go:74).
THEOREM InstantShows ==
  ASSUME NEW zone, Spaced(zone, 2 * Day), NEW wall \in Int, NEW t \in Int, Wall(zone, t) = wall
  PROVE  Wall(zone, Instant(zone, wall)) = wall
<1> DEFINE a == Offset(zone, wall)
           p == wall - a
           b == Offset(zone, p)
           i == wall - b
           o == Offset(zone, t)
<1>1. /\ a \in Int /\ -Day < a /\ a < Day
      /\ b \in Int /\ -Day < b /\ b < Day
      /\ o \in Int /\ -Day < o /\ o < Day
      /\ t = wall - o
  <2>1. a \in Int /\ -Day < a /\ a < Day
    BY OffsetBounds DEF Spaced
  <2> HIDE DEF a
  <2>2. b \in Int /\ -Day < b /\ b < Day /\ o \in Int /\ -Day < o /\ o < Day
    BY <2>1, OffsetBounds DEF Spaced
  <2> QED
    BY <2>1, <2>2 DEF Wall
<1>2. SUFFICES ASSUME Offset(zone, i) # b PROVE FALSE
  BY <1>1 DEF Wall, Instant
<1>3. a # b
  BY <1>2
<1>4. a = Offset(zone, i)
  <2> HIDE DEF a, b, o
  <2>1. a \in {Offset(zone, p), Offset(zone, i)}
    BY <1>1, <1>2, TwoOffsets, DayAssumption DEF a, b
  <2> QED
    BY <1>3, <2>1 DEF b
<1>5. o \in {b, Offset(zone, i)}
  <2> HIDE DEF a, b, o
  <2> QED
    BY <1>1, <1>2, TwoOffsets, DayAssumption DEF b, o
<1>6. CASE o = b
  BY <1>1, <1>2, <1>6
<1>7. CASE o = Offset(zone, i)
  BY <1>1, <1>3, <1>4, <1>7
<1> QED
  BY <1>5, <1>6, <1>7

-----------------------------------------------------------------------------
(* Events that return every day.                                           *)

\* Clocks are changed by margin at most in a day.
Steady(zone, margin) ==
  \A t, u \in Int : t <= u /\ u <= t + Day =>
    /\ Offset(zone, u) - Offset(zone, t) <= margin
    /\ Offset(zone, t) - Offset(zone, u) <= margin

\* The event is well away from midnight, by every clock the zone has.
AwayFromMidnight(zone, event, margin) ==
  \A t \in Int : LET clock == (event + Offset(zone, t)) % Day
                 IN 2 * margin <= clock /\ clock < Day - margin

\* An instant whose wall clock is within a date has that civil day.
LEMMA WithinDate ==
  ASSUME NEW zone, NEW t, NEW d \in Int, Wall(zone, t) \in Int,
         d * Day <= Wall(zone, t), Wall(zone, t) < d * Day + Day
  PROVE  CivilDay(zone, t) = d
<1> DEFINE r == Wall(zone, t) - d * Day
<1>1. Day \in Nat \ {0}
  BY DayAssumption
<1>2. d * Day \in Int /\ d * Day = Day * d
  BY <1>1
<1>3. r \in Int /\ 0 <= r /\ r < Day /\ Wall(zone, t) = Day * d + r
  BY <1>1, <1>2
<1> HIDE DEF r
<1> QED
  BY <1>1, <1>3, DivisionUnique DEF CivilDay

\* Wall clocks and conversions are instants as they are.
LEMMA WallsAreInt ==
  ASSUME NEW zone, Bounded(zone), NEW t \in Int
  PROVE  Offset(zone, t) \in Int /\ Wall(zone, t) \in Int /\ Wall(zone, t) = t + Offset(zone, t)
BY OffsetBounds DEF Wall

LEMMA InstantIsInt ==
  ASSUME NEW zone, Bounded(zone), NEW wall \in Int
  PROVE  Instant(zone, wall) \in Int
<1>1. Offset(zone, wall) \in Int
  BY OffsetBounds
<1>2. wall - Offset(zone, wall) \in Int
  BY <1>1
<1>3. Offset(zone, wall - Offset(zone, wall)) \in Int
  BY <1>2, OffsetBounds
<1> QED
  BY <1>3 DEF Instant

\* A multiple of a day that is less is a day less at least.
LEMMA DaysApart ==
  ASSUME NEW p \in Int, NEW q \in Int, p < q
  PROVE  Day * p \in Int /\ Day * q \in Int /\ Day * p + Day <= Day * q
<1>1. Day \in Nat \ {0} /\ q - p - 1 \in Nat
  BY DayAssumption
<1>2. Day * (q - p - 1) \in Nat /\ Day * q = Day * p + Day + Day * (q - p - 1)
  BY <1>1
<1> QED
  BY <1>1, <1>2

\* The first event at or after an instant is less than a day away, and a whole
\* number of days from any other.
LEMMA EventAfter ==
  ASSUME NEW event \in Int, NEW t \in Int
  PROVE  LET found == t + ((event - t) % Day)
         IN /\ found \in Int /\ t <= found /\ found < t + Day
            /\ \E k \in Int : found = event + Day * k
<1> DEFINE q == (event - t) \div Day
           r == (event - t) % Day
<1>1. Day \in Nat \ {0} /\ event - t \in Int
  BY DayAssumption
<1>2. q \in Int /\ r \in Int /\ 0 <= r /\ r < Day /\ event - t = Day * q + r
  BY <1>1, Division
<1> HIDE DEF q, r
<1>3. Day * (-q) = -(Day * q) /\ Day * q \in Int /\ -q \in Int
  BY <1>1, <1>2
<1>4. t + r = event + Day * (-q)
  BY <1>2, <1>3
<1>5. t + r \in Int /\ t <= t + r /\ t + r < t + Day /\ \E k \in Int : t + r = event + Day * k
  BY <1>1, <1>2, <1>3, <1>4
<1> QED
  BY <1>5 DEF r

\* The event looked for from the beginning of a date is on that date.
LEMMA EventOnItsDate ==
  ASSUME NEW margin \in Nat, margin < Day, NEW zone, NEW event \in Int,
         Bounded(zone), Steady(zone, margin), AwayFromMidnight(zone, event, margin),
         NEW d \in Int, NEW t \in Int,
         d * Day <= Wall(zone, t), Wall(zone, t) <= d * Day + margin
  PROVE  CivilDay(zone, t + ((event - t) % Day)) = d
<1> DEFINE rise == t + ((event - t) % Day)
           o == Offset(zone, rise)
           w == Wall(zone, rise)
           q == w \div Day
           r == w % Day
<1>1. Day \in Nat \ {0} /\ d * Day = Day * d /\ Day * d \in Int
  BY DayAssumption
<1>2. rise \in Int /\ t <= rise /\ rise < t + Day /\ \E k \in Int : rise = event + Day * k
  BY <1>1, EventAfter
<1> HIDE DEF rise
<1>3. o \in Int /\ w = rise + o /\ w \in Int
  BY <1>1, <1>2, WallsAreInt
<1>4. /\ Offset(zone, t) \in Int /\ Wall(zone, t) = t + Offset(zone, t)
      /\ o - Offset(zone, t) <= margin /\ Offset(zone, t) - o <= margin
  <2>1. t <= rise /\ rise <= t + Day
    BY <1>1, <1>2
  <2> QED
    BY <1>1, <1>2, <2>1, WallsAreInt DEF Steady
<1>5. Day * d - margin <= w /\ w < Day * d + Day + 2 * margin
  BY <1>1, <1>2, <1>3, <1>4
<1>6. q \in Int /\ r \in Int /\ w = Day * q + r /\ 2 * margin <= r /\ r < Day - margin
  <2>1. PICK k \in Int : rise = event + Day * k
    BY <1>2
  <2>2. event + o \in Int
    BY <1>1, <1>3
  <2>3. ((event + o) + Day * k) % Day = (event + o) % Day
    BY <1>1, <2>2, RestShift
  <2>4. Day * k \in Int /\ (event + o) + Day * k = w
    BY <1>1, <1>3, <2>1
  <2>5. 2 * margin <= (event + o) % Day /\ (event + o) % Day < Day - margin
    BY <1>2 DEF AwayFromMidnight
  <2>6. w \div Day \in Int /\ w % Day \in Int /\ w = Day * (w \div Day) + (w % Day)
    BY <1>1, <1>3, Division
  <2> QED
    BY <2>3, <2>4, <2>5, <2>6
<1>7. q = d
  <2> HIDE DEF q, r, w, o
  <2>1. q < d => FALSE
    <3>1. q < d => Day * q + Day <= Day * d /\ Day * q \in Int
      BY <1>6, DaysApart
    <3> QED
      BY <1>1, <1>3, <1>5, <1>6, <3>1
  <2>2. d < q => FALSE
    <3>1. d < q => Day * d + Day <= Day * q /\ Day * q \in Int
      BY <1>6, DaysApart
    <3> QED
      BY <1>1, <1>3, <1>5, <1>6, <3>1
  <2> QED
    BY <1>6, <2>1, <2>2
<1> QED
  BY <1>7 DEF CivilDay, rise

-----------------------------------------------------------------------------
(* The instants of a date.                                                 *)

\* Clocks that have shown midnight show later times from then on: they are not set
\* back to it or over it.
OnwardFromMidnight(zone) ==
  \A d, t, u \in Int : t < u /\ d * Day <= Wall(zone, t) => d * Day < Wall(zone, u)

\* An instant is after one that shows midnight where its clock is.
LEMMA PastMidnight ==
  ASSUME NEW zone, Bounded(zone), OnwardFromMidnight(zone), NEW d \in Int, NEW m \in Int, NEW t \in Int,
         Wall(zone, m) = d * Day
  PROVE  m <= t <=> d * Day <= Wall(zone, t)
<1>1. d * Day \in Int /\ Wall(zone, t) \in Int
  BY DayAssumption, WallsAreInt
<1>2. t < m => ~(d * Day <= Wall(zone, t))
  <2>1. t < m /\ d * Day <= Wall(zone, t) => d * Day < Wall(zone, m)
    BY DEF OnwardFromMidnight
  <2> DEFINE x == d * Day
  <2>2. x \in Int /\ Wall(zone, m) = x
    BY <1>1
  <2> HIDE DEF x
  <2>3. ~(x < Wall(zone, m))
    BY <2>2
  <2> QED
    BY <2>1, <2>3 DEF x
<1>3. m < t => d * Day <= Wall(zone, t)
  <2> DEFINE x == d * Day
  <2>1. m < t /\ x <= Wall(zone, m) => x < Wall(zone, t)
    BY DEF OnwardFromMidnight
  <2>2. x \in Int /\ Wall(zone, m) = x
    BY <1>1
  <2> HIDE DEF x
  <2>3. m < t => x <= Wall(zone, t)
    BY <1>1, <2>1, <2>2
  <2> QED
    BY <2>3 DEF x
<1>4. m = t => d * Day <= Wall(zone, t)
  <2> DEFINE x == d * Day
  <2>1. x \in Int /\ Wall(zone, m) = x
    BY <1>1
  <2> HIDE DEF x
  <2>2. m = t => x <= Wall(zone, t)
    BY <2>1
  <2> QED
    BY <2>2 DEF x
<1> QED
  BY <1>2, <1>3, <1>4

\* A date is what lies between its midnight and the next, if clocks show both.
LEMMA BetweenMidnights ==
  ASSUME NEW zone, Bounded(zone), OnwardFromMidnight(zone), NEW d \in Int, NEW t \in Int,
         Wall(zone, Midnight(zone, d)) = d * Day,
         Wall(zone, Midnight(zone, d + 1)) = (d + 1) * Day
  PROVE  CivilDay(zone, t) = d <=> Midnight(zone, d) <= t /\ t < Midnight(zone, d + 1)
<1> DEFINE w == Wall(zone, t)
           start == Midnight(zone, d)
           end == Midnight(zone, d + 1)
<1>1. Day \in Nat \ {0} /\ d * Day = Day * d /\ (d + 1) * Day = Day * (d + 1) /\ d * Day \in Int
      /\ d + 1 \in Int /\ (d + 1) * Day \in Int
  BY DayAssumption
<1>2. start \in Int /\ end \in Int /\ w \in Int
  BY <1>1, InstantIsInt, WallsAreInt DEF Midnight
<1>3. Wall(zone, start) = d * Day /\ Wall(zone, end) = (d + 1) * Day
  OBVIOUS
<1>4. start <= t <=> d * Day <= w
  <2> HIDE DEF start
  <2> QED
    BY <1>1, <1>2, <1>3, PastMidnight
<1>5. end <= t <=> (d + 1) * Day <= w
  <2> HIDE DEF end
  <2> QED
    BY <1>1, <1>2, <1>3, PastMidnight
<1>6. CivilDay(zone, t) = d <=> Day * d <= w /\ w < Day * (d + 1)
  <2> HIDE DEF w
  <2> QED
    BY <1>1, <1>2, QuotientOf DEF CivilDay, w
<1> HIDE DEF w, start, end
<1>7. t < end <=> w < (d + 1) * Day
  BY <1>1, <1>2, <1>5
<1> QED
  BY <1>1, <1>4, <1>6, <1>7 DEF start, end

\* Offsets within a day of one another.
LEMMA SteadyBetween ==
  ASSUME NEW margin \in Nat, NEW zone, Steady(zone, margin), NEW t \in Int, NEW u \in Int,
         t - u <= Day, u - t <= Day
  PROVE  Offset(zone, t) - Offset(zone, u) <= margin
<1>1. CASE t <= u
  <2>1. u <= t + Day
    BY DayAssumption
  <2> QED
    BY <1>1, <2>1 DEF Steady
<1>2. CASE u <= t
  <2>1. t <= u + Day
    BY DayAssumption
  <2> QED
    BY <1>2, <2>1 DEF Steady
<1> QED
  BY <1>1, <1>2

\* Where clocks change by margin at most, midnight is not shown later than that.
LEMMA MidnightIsNear ==
  ASSUME NEW margin \in Nat, margin < Day, NEW zone, Bounded(zone), Steady(zone, margin), NEW wall \in Int
  PROVE  Wall(zone, Instant(zone, wall)) <= wall + margin
<1> DEFINE a == Offset(zone, wall)
           p == wall - a
           b == Offset(zone, p)
           i == wall - b
<1>1. a \in Int /\ -Day < a /\ a < Day /\ p \in Int /\ Day \in Int
  BY OffsetBounds, DayAssumption
<1>2. b \in Int /\ i \in Int
  <2> HIDE DEF a
  <2>1. p \in Int
    BY <1>1
  <2> HIDE DEF p
  <2> QED
    BY <2>1, OffsetBounds
<1>3. a - b <= margin /\ b - a <= margin
  <2>1. wall - p <= Day /\ p - wall <= Day
    BY <1>1
  <2> HIDE DEF p
  <2> QED
    BY <1>1, <2>1, SteadyBetween
<1>4. Offset(zone, i) \in Int /\ Offset(zone, i) - b <= margin
  <2>1. Offset(zone, i) \in Int
    BY <1>2, OffsetBounds
  <2>2. p - i = b - a
    BY <1>1, <1>2
  <2> HIDE DEF p, i, a
  <2>3. p - i <= margin /\ i - p <= margin
    BY <1>1, <1>2, <1>3, <2>2
  <2>4. p - i <= Day /\ i - p <= Day
    BY <1>1, <1>2, <2>3
  <2> QED
    BY <1>1, <1>2, <2>1, <2>4, SteadyBetween
<1>5. Instant(zone, wall) = i /\ Wall(zone, i) = (wall - b) + Offset(zone, i)
  BY DEF Instant, Wall
<1> HIDE DEF i, b
<1> QED
  BY <1>2, <1>4, <1>5

-----------------------------------------------------------------------------
(* Elapsed time and dates.                                                 *)

\* A date begins at or before the wall clocks that show it.
LEMMA WallOfDate ==
  ASSUME NEW zone, Bounded(zone), NEW t \in Int
  PROVE  /\ CivilDay(zone, t) \in Int
         /\ Day * CivilDay(zone, t) \in Int
         /\ Day * CivilDay(zone, t) <= Wall(zone, t)
         /\ Wall(zone, t) < Day * CivilDay(zone, t) + Day
<1> DEFINE w == Wall(zone, t)
           q == w \div Day
           r == w % Day
<1>1. Day \in Nat \ {0} /\ w \in Int
  BY DayAssumption, WallsAreInt
<1> HIDE DEF w
<1>2. q \in Int /\ r \in Int /\ 0 <= r /\ r < Day /\ w = Day * q + r
  BY <1>1, Division
<1> HIDE DEF q, r
<1>3. Day * q \in Int /\ Day * q <= w /\ w < Day * q + Day
  BY <1>1, <1>2
<1> QED
  BY <1>2, <1>3 DEF CivilDay, q, w

\* Of what two days more have passed than n, n dates have passed.
LEMMA DatesPass ==
  ASSUME NEW zone, Bounded(zone), NEW t \in Int, NEW u \in Int, NEW n \in Int, t + (n + 2) * Day <= u
  PROVE  CivilDay(zone, t) + n <= CivilDay(zone, u)
<1> DEFINE a == CivilDay(zone, t)
           b == CivilDay(zone, u)
<1>1. Day \in Nat \ {0} /\ (n + 2) * Day = Day * n + 2 * Day /\ Day * n \in Int
  BY DayAssumption
<1>2. /\ a \in Int /\ Day * a \in Int /\ Day * a <= Wall(zone, t) /\ Wall(zone, t) < Day * a + Day
      /\ b \in Int /\ Day * b \in Int /\ Day * b <= Wall(zone, u) /\ Wall(zone, u) < Day * b + Day
  BY WallOfDate
<1>3. /\ Wall(zone, t) \in Int /\ Wall(zone, t) < t + Day
      /\ Wall(zone, u) \in Int /\ u - Day < Wall(zone, u)
  BY <1>1, OffsetBounds DEF Wall
<1> HIDE DEF a, b
<1>4. Day * a + Day * n < Day * b + Day
  BY <1>1, <1>2, <1>3
<1>5. b + 1 <= a + n => Day * (b + 1) <= Day * (a + n)
  <2>1. b + 1 \in Int /\ a + n \in Int
    BY <1>2
  <2> HIDE DEF a, b
  <2>2. ASSUME NEW x \in Int, NEW y \in Int, x <= y PROVE Day * x <= Day * y
    <3>1. x < y => Day * x + Day <= Day * y /\ Day * x \in Int /\ Day * y \in Int
      BY DaysApart
    <3> QED
      BY <1>1, <2>2, <3>1
  <2> QED
    BY <2>1, <2>2
<1>6. Day * (b + 1) = Day * b + Day /\ Day * (a + n) = Day * a + Day * n
  BY <1>1, <1>2
<1>7. ~(b + 1 <= a + n)
  BY <1>1, <1>2, <1>4, <1>5, <1>6
<1> QED
  BY <1>2, <1>7 DEF a, b

\* An event that returns after a day is on a later date.
LEMMA EventNextDay ==
  ASSUME NEW margin \in Nat, margin < Day, NEW zone, NEW event \in Int,
         Bounded(zone), Steady(zone, margin), AwayFromMidnight(zone, event, margin),
         NEW j \in Int, NEW e \in Int, e = event + Day * j
  PROVE  /\ CivilDay(zone, e) < CivilDay(zone, e + Day)
         /\ \A t \in Int : t <= e /\ e <= t + Day => CivilDay(zone, t) <= CivilDay(zone, e)
         /\ \A t \in Int : e <= t /\ t <= e + Day => CivilDay(zone, e) <= CivilDay(zone, t)
<1> DEFINE c == CivilDay(zone, e)
<1>1. Day \in Nat \ {0} /\ e + Day \in Int
  BY DayAssumption
<1>2. /\ c \in Int /\ Day * c \in Int
      /\ Day * c + 2 * margin <= Wall(zone, e) /\ Wall(zone, e) < Day * c + Day - margin
  <2> DEFINE w == Wall(zone, e)
             q == w \div Day
             r == w % Day
             o == Offset(zone, e)
  <2>1. o \in Int /\ w = e + o /\ w \in Int
    BY WallsAreInt
  <2>2. q \in Int /\ r \in Int /\ w = Day * q + r
    <3> HIDE DEF w
    <3> QED
      BY <1>1, <2>1, Division
  <2>3. 2 * margin <= (event + o) % Day /\ (event + o) % Day < Day - margin
    BY DEF AwayFromMidnight
  <2>4. r = (event + o) % Day
    <3>1. event + o \in Int /\ (event + o) + Day * j = w /\ Day * j \in Int
      BY <1>1, <2>1
    <3>2. ((event + o) + Day * j) % Day = (event + o) % Day
      <4> HIDE DEF o, w
      <4> QED
        BY <1>1, <3>1, RestShift
    <3> QED
      BY <3>1, <3>2
  <2>5. c = q
    BY DEF CivilDay
  <2> HIDE DEF q, r, c, o, w
  <2>6. Day * q \in Int /\ Day * q + 2 * margin <= w /\ w < Day * q + Day - margin
    BY <1>1, <2>2, <2>3, <2>4
  <2> QED
    BY <2>2, <2>5, <2>6 DEF w
<1> HIDE DEF c
<1>3. ASSUME NEW t \in Int, t <= e, e <= t + Day PROVE CivilDay(zone, t) <= c
  <2> DEFINE x == CivilDay(zone, t)
  <2>1. x \in Int /\ Day * x \in Int /\ Day * x <= Wall(zone, t)
    BY WallOfDate
  <2>2. Offset(zone, t) - Offset(zone, e) <= margin
    BY <1>3 DEF Steady
  <2>3. /\ Offset(zone, t) \in Int /\ Offset(zone, e) \in Int
        /\ Wall(zone, t) = t + Offset(zone, t) /\ Wall(zone, e) = e + Offset(zone, e)
    BY WallsAreInt
  <2>4. Wall(zone, t) < Day * c + Day
    BY <1>1, <1>2, <1>3, <2>2, <2>3
  <2> HIDE DEF x
  <2>5. c < x => Day * c + Day <= Day * x
    BY <1>2, <2>1, DaysApart
  <2>6. ~(c < x)
    BY <1>1, <1>2, <2>1, <2>3, <2>4, <2>5
  <2> QED
    BY <1>2, <2>1, <2>6 DEF x
<1>4. ASSUME NEW t \in Int, e <= t, t <= e + Day PROVE c <= CivilDay(zone, t)
  <2> DEFINE x == CivilDay(zone, t)
  <2>1. x \in Int /\ Day * x \in Int /\ Wall(zone, t) < Day * x + Day
    BY WallOfDate
  <2>2. Offset(zone, e) - Offset(zone, t) <= margin
    BY <1>4 DEF Steady
  <2>3. /\ Offset(zone, t) \in Int /\ Offset(zone, e) \in Int
        /\ Wall(zone, t) = t + Offset(zone, t) /\ Wall(zone, e) = e + Offset(zone, e)
    BY WallsAreInt
  <2>4. Day * c <= Wall(zone, t)
    BY <1>1, <1>2, <1>4, <2>2, <2>3
  <2> HIDE DEF x
  <2>5. x < c => Day * x + Day <= Day * c
    BY <1>2, <2>1, DaysApart
  <2>6. ~(x < c)
    BY <1>1, <1>2, <2>1, <2>3, <2>4, <2>5
  <2> QED
    BY <1>2, <2>1, <2>6 DEF x
<1>5. c < CivilDay(zone, e + Day)
  <2> DEFINE u == e + Day
             x == CivilDay(zone, u)
  <2>1. u \in Int /\ e <= u /\ u <= e + Day
    BY <1>1
  <2> HIDE DEF u
  <2>2. x \in Int /\ Day * x \in Int /\ Wall(zone, u) < Day * x + Day
    BY <2>1, WallOfDate
  <2>3. Offset(zone, e) - Offset(zone, u) <= margin
    BY <2>1 DEF Steady
  <2>4. /\ Offset(zone, u) \in Int /\ Offset(zone, e) \in Int
        /\ Wall(zone, u) = u + Offset(zone, u) /\ Wall(zone, e) = e + Offset(zone, e)
    BY <2>1, WallsAreInt
  <2>5. Day * c + Day <= Wall(zone, u)
    BY <1>1, <1>2, <2>1, <2>3, <2>4 DEF u
  <2> HIDE DEF x
  <2>6. c <= x /\ c # x
    <3>1. x < c => Day * x + Day <= Day * c
      BY <1>2, <2>2, DaysApart
    <3>2. ~(x < c)
      BY <1>1, <1>2, <2>1, <2>2, <2>4, <2>5, <3>1
    <3>3. c # x
      BY <1>1, <1>2, <2>1, <2>2, <2>4, <2>5
    <3> QED
      BY <1>2, <2>2, <3>2, <3>3
  <2>7. c < x
    BY <1>2, <2>2, <2>6
  <2> QED
    BY <2>7 DEF x, u
<1> QED
  BY <1>3, <1>4, <1>5 DEF c

\* Instants up to an event are on its date or before it, those from it on are not
\* before it, and the event returns on later dates only.
LEMMA EventDates ==
  ASSUME NEW margin \in Nat, margin < Day, NEW zone, NEW event \in Int,
         Bounded(zone), Steady(zone, margin), AwayFromMidnight(zone, event, margin),
         NEW j \in Int, NEW e \in Int, e = event + Day * j, NEW t \in Int
  PROVE  /\ t <= e => CivilDay(zone, t) <= CivilDay(zone, e)
         /\ e <= t => CivilDay(zone, e) <= CivilDay(zone, t)
         /\ e + Day <= t => CivilDay(zone, e) < CivilDay(zone, t)
<1> DEFINE C(i) == CivilDay(zone, i)
<1>1. Day \in Nat \ {0} /\ \A i \in Int : C(i) \in Int
  BY DayAssumption, WallOfDate
<1>2. /\ e - Day \in Int /\ e - Day = event + Day * (j - 1) /\ j - 1 \in Int
      /\ e + Day \in Int /\ e + Day = event + Day * (j + 1) /\ j + 1 \in Int
      /\ (e - Day) + Day = e
  <2>1. Day * (j - 1) = Day * j - Day /\ Day * (j + 1) = Day * j + Day /\ Day * j \in Int
    BY <1>1
  <2> QED
    BY <1>1, <2>1
<1>3. /\ C(e) < C(e + Day)
      /\ t <= e /\ e <= t + Day => C(t) <= C(e)
      /\ e <= t /\ t <= e + Day => C(e) <= C(t)
  BY EventNextDay
<1>4. /\ C(e - Day) < C((e - Day) + Day)
      /\ t <= e - Day /\ e - Day <= t + Day => C(t) <= C(e - Day)
  BY <1>2, EventNextDay
<1>5. e + Day <= t /\ t <= (e + Day) + Day => C(e + Day) <= C(t)
  BY <1>2, EventNextDay
<1>6. t + (0 + 2) * Day <= e => C(t) + 0 <= C(e)
  BY DatesPass
<1>7. e + (1 + 2) * Day <= t => C(e) + 1 <= C(t)
  BY DatesPass
<1>8. e + Day <= t => C(e) < C(t)
  <2>1. CASE t <= (e + Day) + Day
    BY <1>1, <1>2, <1>3, <1>5, <2>1
  <2>2. CASE e + (1 + 2) * Day <= t
    BY <1>1, <1>7, <2>2
  <2>3. CASE (e + Day) + Day <= t /\ t < e + (1 + 2) * Day
    <3>1. /\ (e + Day) + Day \in Int /\ (e + Day) + Day = event + Day * (j + 2) /\ j + 2 \in Int
      <4>1. Day * (j + 2) = Day * j + 2 * Day /\ Day * j \in Int
        BY <1>1
      <4> QED
        BY <1>1, <4>1
    <3>2. t <= ((e + Day) + Day) + Day
      BY <1>1, <2>3
    <3>3. C((e + Day) + Day) <= C(t)
      BY <2>3, <3>1, <3>2, EventNextDay
    <3>4. C(e + Day) < C((e + Day) + Day)
      BY <1>2, EventNextDay
    <3> QED
      BY <1>1, <1>2, <1>3, <3>1, <3>3, <3>4
  <2> QED
    BY <1>1, <2>1, <2>2, <2>3
<1>9. t <= e => C(t) <= C(e)
  <2>1. CASE e <= t + Day
    BY <1>3, <2>1
  <2>2. CASE t + 2 * Day <= e
    BY <1>1, <1>6, <2>2
  <2>3. CASE t + Day <= e /\ e <= t + 2 * Day
    BY <1>1, <1>2, <1>4, <2>3
  <2> QED
    BY <1>1, <2>1, <2>2, <2>3
<1>10. e <= t => C(e) <= C(t)
  <2>1. CASE t <= e + Day
    BY <1>3, <2>1
  <2>2. CASE e + Day <= t
    BY <1>1, <1>8, <2>2
  <2> QED
    BY <1>1, <2>1, <2>2
<1> QED
  BY <1>8, <1>9, <1>10

\* Midnights that clocks show are in the order of their dates.
LEMMA MidnightsInOrder ==
  ASSUME NEW margin \in Nat, margin < Day, NEW zone, Bounded(zone), Steady(zone, margin),
         NEW d \in Int, NEW e \in Int, d < e,
         Wall(zone, Midnight(zone, d)) = d * Day, Wall(zone, Midnight(zone, e)) = e * Day
  PROVE  Midnight(zone, d) < Midnight(zone, e)
<1> DEFINE t == Midnight(zone, d)
           u == Midnight(zone, e)
<1>1. /\ Day \in Nat \ {0} /\ d * Day = Day * d /\ e * Day = Day * e
      /\ Day * d \in Int /\ Day * e \in Int /\ Day * d + Day <= Day * e
  BY DayAssumption, DaysApart
<1>2. t \in Int /\ u \in Int
  BY <1>1, InstantIsInt DEF Midnight
<1>3. Wall(zone, t) = Day * d /\ Wall(zone, u) = Day * e
  BY <1>1
<1> HIDE DEF t, u
<1>4. /\ Wall(zone, t) = t + Offset(zone, t) /\ Offset(zone, t) \in Int
      /\ -Day < Offset(zone, t) /\ Offset(zone, t) < Day
      /\ Wall(zone, u) = u + Offset(zone, u) /\ Offset(zone, u) \in Int
      /\ -Day < Offset(zone, u) /\ Offset(zone, u) < Day
  BY <1>2, OffsetBounds DEF Wall
<1>5. ASSUME u <= t PROVE FALSE
  <2>1. t - u <= Day
    BY <1>1, <1>3, <1>4, <1>2
  <2>2. Offset(zone, u) - Offset(zone, t) <= margin
    BY <1>1, <1>2, <1>5, <2>1, SteadyBetween
  <2> QED
    BY <1>1, <1>2, <1>3, <1>4, <1>5, <2>2
<1> QED
  BY <1>2, <1>5 DEF t, u

\* The step of n dates from a midnight that is shown is the midnight n dates later.
LEMMA StepOfDates ==
  ASSUME NEW zone, NEW d \in Int, NEW n \in Int, Wall(zone, Midnight(zone, d)) = d * Day
  PROVE  AddDays(zone, Midnight(zone, d), n) = Midnight(zone, d + n)
<1>1. d * Day + n * Day = (d + n) * Day
  BY DayAssumption
<1> QED
  BY <1>1 DEF AddDays, Midnight
=============================================================================
