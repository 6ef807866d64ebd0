---------------------------- MODULE YearScanProofs ----------------------------
(***************************************************************************)
(* Proofs about YearScan for every year, place and sky.                    *)
(***************************************************************************)
EXTENDS YearScan, LocalTimeProofs

-----------------------------------------------------------------------------
(* The dates.                                                              *)

\* The place is accepted: its first of January is the date it is read as.
Accepted(s) == CivilDay(s.zone, Midnight(s.zone, 0)) = 0

\* Clocks that are changed by margin at most in a day; a wall clock in the first
\* margin of a date comes out there, even if clocks leave it out; and the Sun rises
\* well away from midnight, by every clock the zone has.
Orderly(s, margin) ==
  /\ Bounded(s.zone) /\ s.sunrise \in Int /\ s.daytime \in Int
  /\ \A d \in 0..YearLength, w \in Int :
       d * Day <= w /\ w <= d * Day + margin =>
         /\ d * Day <= Wall(s.zone, Instant(s.zone, w))
         /\ Wall(s.zone, Instant(s.zone, w)) <= d * Day + margin
  /\ Steady(s.zone, margin) /\ AwayFromMidnight(s.zone, s.sunrise, margin)

OrderlySkies(margin) == \A s \in Skies : Accepted(s) => Orderly(s, margin)

\* The walk is at the date it has counted up to, in that date's month, and in the
\* first margin of the date.
DateInv(margin) ==
  /\ sky \in Skies /\ month \in Months /\ listed \in Nat
  /\ result \in {"asked", "scanning", "answered", "failed", "refused"}
  /\ result = "asked" => month = 1 /\ listed = 0
  /\ result = "scanning" =>
       /\ Accepted(sky) /\ date \in Int
       /\ listed * Day <= Wall(sky.zone, date) /\ Wall(sky.zone, date) <= listed * Day + margin
       /\ Firsts[month] <= listed /\ listed <= Firsts[month + 1]
  /\ result = "answered" => listed = YearLength

\* A month begins before the year ends.
LEMMA MonthsInYear ==
  /\ Len(Firsts) \in Nat /\ YearLength \in Nat
  /\ \A m \in 1..Len(Firsts) : Firsts[m] \in Nat /\ Firsts[m] <= YearLength
<1>1. Len(Firsts) \in Nat /\ Len(Firsts) > 1 /\ \A m \in 1..Len(Firsts) : Firsts[m] \in Nat
  BY YearAssumption
<1>2. YearLength \in Nat
  BY <1>1 DEF YearLength
<1>3. ASSUME NEW m \in 1..Len(Firsts), ~(Firsts[m] <= YearLength) PROVE FALSE
  <2> DEFINE T == {k \in 1..Len(Firsts) : ~(Firsts[k] <= YearLength)}
  <2>1. T \in SUBSET Int /\ T # {} /\ Len(Firsts) \in Int /\ \A k \in T : k <= Len(Firsts)
    BY <1>1, <1>3
  <2>2. PICK k \in T : \A j \in T : j <= k
    BY <2>1, GreatestInteger
  <2>3. k \in 1..Len(Firsts) /\ ~(Firsts[k] <= YearLength)
    BY <2>2
  <2>4. k # Len(Firsts)
    BY <1>1, <1>2, <2>3 DEF YearLength
  <2>5. k \in Months /\ k + 1 \in 1..Len(Firsts) /\ ~(k + 1 <= k)
    BY <1>1, <2>3, <2>4 DEF Months
  <2>6. Firsts[k] < Firsts[k + 1]
    BY <2>5, YearAssumption
  <2>7. k + 1 \notin T
    BY <2>2, <2>5
  <2>8. Firsts[k + 1] <= YearLength
    BY <2>5, <2>7
  <2> QED
    BY <1>1, <1>2, <2>3, <2>5, <2>6, <2>8
<1> QED
  BY <1>1, <1>2, <1>3

LEMMA MonthFacts ==
  ASSUME NEW m \in Months
  PROVE  /\ m \in Int /\ 1 <= m /\ m < Len(Firsts) /\ Len(Firsts) \in Nat
         /\ Firsts[m] \in Nat /\ Firsts[m + 1] \in Nat
         /\ Firsts[m] < Firsts[m + 1] /\ Firsts[m + 1] <= YearLength /\ YearLength \in Nat
<1>1. Len(Firsts) \in Nat
  BY MonthsInYear
<1>2. m \in 1..Len(Firsts) /\ m + 1 \in 1..Len(Firsts)
  BY <1>1 DEF Months
<1> QED
  BY <1>1, <1>2, MonthsInYear, YearAssumption DEF Months

LEMMA NextDateInv ==
  ASSUME NEW margin \in Nat, margin < Day, OrderlySkies(margin), DateInv(margin), [Next]_vars
  PROVE  DateInv(margin)'
<1>1. Day \in Nat \ {0} /\ \A n \in Nat : n * Day \in Nat
  BY DayAssumption
<1>2. CASE Begin
  <2>1. month = 1 /\ listed = 0 /\ sky \in Skies
    BY <1>2 DEF Begin, DateInv
  <2>2. UNCHANGED <<sky, month, listed>> /\ result' \in {"scanning", "refused"}
        /\ (result' = "scanning" => Accepted(sky) /\ date' = Midnight(sky.zone, 0))
    BY <1>2 DEF Begin, Accepted
  <2>3. ASSUME result' = "scanning"
        PROVE  /\ date' \in Int
               /\ 0 * Day <= Wall(sky.zone, date') /\ Wall(sky.zone, date') <= 0 * Day + margin
    <3>1. Orderly(sky, margin) /\ Bounded(sky.zone)
      BY <2>1, <2>2, <2>3 DEF OrderlySkies, Orderly
    <3>2. 0 * Day \in Int /\ 0 * Day <= 0 * Day + margin /\ 0 \in 0..YearLength
      BY <1>1, MonthsInYear
    <3>3. date' = Instant(sky.zone, 0 * Day)
      BY <2>2, <2>3 DEF Midnight
    <3>4. date' \in Int
      BY <3>1, <3>2, <3>3, InstantIsInt
    <3> QED
      BY <3>1, <3>2, <3>3, <3>4 DEF Orderly
  <2>4. Firsts[1] <= 0 /\ 0 <= Firsts[1 + 1]
    <3>1. 1 \in Months
      BY <2>1 DEF DateInv
    <3> QED
      BY <3>1, MonthFacts, YearAssumption
  <2> QED
    BY <2>1, <2>2, <2>3, <2>4 DEF DateInv
<1>3. CASE ScanDay
  <2>1. /\ result = "scanning" /\ result' = "scanning" /\ InMonth
        /\ date' = AddDays(sky.zone, date, 1) /\ listed' = listed + 1 /\ UNCHANGED <<sky, month>>
    BY <1>3 DEF ScanDay
  <2>2. /\ Accepted(sky) /\ date \in Int /\ listed \in Nat /\ sky \in Skies /\ month \in Months
        /\ listed * Day <= Wall(sky.zone, date) /\ Wall(sky.zone, date) <= listed * Day + margin
        /\ Firsts[month] <= listed /\ listed <= Firsts[month + 1]
    BY <2>1 DEF DateInv
  <2>3. Orderly(sky, margin) /\ Bounded(sky.zone)
    BY <2>2 DEF OrderlySkies, Orderly
  <2>4. Wall(sky.zone, date) \in Int
    BY <2>2, <2>3, WallsAreInt
  <2>5. listed * Day \in Nat /\ (listed + 1) * Day = listed * Day + Day /\ listed + 1 \in Nat
    BY <1>1, <2>2
  <2>6. CivilDay(sky.zone, date) = listed
    BY <1>1, <2>2, <2>4, <2>5, WithinDate
  <2>7. listed + 1 <= Firsts[month + 1]
    BY <2>1, <2>2, <2>6, MonthFacts DEF InMonth
  <2>8. listed + 1 \in 0..YearLength
    BY <2>2, <2>7, MonthFacts
  <2> DEFINE w == Wall(sky.zone, date) + 1 * Day
  <2>9. w \in Int /\ (listed + 1) * Day <= w /\ w <= (listed + 1) * Day + margin
    BY <1>1, <2>2, <2>4, <2>5
  <2>10. date' = Instant(sky.zone, w)
    BY <2>1 DEF AddDays
  <2> HIDE DEF w
  <2>11. date' \in Int /\ (listed + 1) * Day <= Wall(sky.zone, date')
         /\ Wall(sky.zone, date') <= (listed + 1) * Day + margin
    BY <2>3, <2>8, <2>9, <2>10, InstantIsInt DEF Orderly
  <2> QED
    BY <2>1, <2>2, <2>5, <2>7, <2>11, MonthFacts DEF DateInv
<1>4. CASE NextMonth
  <2>1. result = "scanning" /\ ~InMonth /\ UNCHANGED <<sky, listed>>
    BY <1>4 DEF NextMonth
  <2>2. /\ Accepted(sky) /\ date \in Int /\ listed \in Nat /\ sky \in Skies /\ month \in Months
        /\ listed * Day <= Wall(sky.zone, date) /\ Wall(sky.zone, date) <= listed * Day + margin
        /\ Firsts[month] <= listed /\ listed <= Firsts[month + 1]
    BY <2>1 DEF DateInv
  <2>3. Orderly(sky, margin) /\ Bounded(sky.zone)
    BY <2>2 DEF OrderlySkies, Orderly
  <2>4. Wall(sky.zone, date) \in Int
    BY <2>2, <2>3, WallsAreInt
  <2>5. CivilDay(sky.zone, date) = listed
    BY <1>1, <2>2, <2>4, WithinDate
  <2>6. listed = Firsts[month + 1]
    BY <2>1, <2>2, <2>5, MonthFacts DEF InMonth
  <2>7. CASE month + 1 \in Months
    <3>1. month' = month + 1 /\ date' = Midnight(sky.zone, Firsts[month + 1]) /\ result' = "scanning"
      BY <1>4, <2>1, <2>7 DEF NextMonth
    <3>2. listed * Day \in Int /\ listed \in 0..YearLength /\ date' = Instant(sky.zone, listed * Day)
      BY <1>1, <2>2, <2>6, <3>1, MonthFacts DEF Midnight
    <3>3. listed * Day <= listed * Day + margin
      BY <3>2
    <3>4. date' \in Int /\ listed * Day <= Wall(sky.zone, date') /\ Wall(sky.zone, date') <= listed * Day + margin
      BY <2>3, <3>2, <3>3, InstantIsInt DEF Orderly
    <3>5. Firsts[month'] <= listed /\ listed <= Firsts[month' + 1]
      BY <2>6, <2>7, <3>1, MonthFacts
    <3> QED
      BY <2>1, <2>2, <2>7, <3>1, <3>4, <3>5 DEF DateInv
  <2>8. CASE month + 1 \notin Months
    <3>1. result' = "answered" /\ month' = month
      BY <1>4, <2>8 DEF NextMonth
    <3>2. month + 1 = Len(Firsts)
      BY <2>2, <2>8, MonthFacts DEF Months
    <3> QED
      BY <2>1, <2>2, <2>6, <3>1, <3>2 DEF DateInv, YearLength
  <2> QED
    BY <2>7, <2>8
<1>5. CASE DayFails \/ Ended
  <2>1. result' = "failed" /\ month' = 1 /\ listed' = 0 /\ sky' = sky
    BY <1>5 DEF DayFails, Ended, Fail
  <2>2. 1 \in Months
    BY YearAssumption DEF Months
  <2> QED
    BY <2>1, <2>2 DEF DateInv
<1>6. CASE UNCHANGED vars
  BY <1>6 DEF vars, DateInv
<1> QED
  BY <1>2, <1>3, <1>4, <1>5, <1>6 DEF Next

\* What a day of the walk is.
LEMMA TodayFacts ==
  ASSUME NEW d \in Today
  PROVE  /\ d.rise = date + ((sky.sunrise - date) % Day)
         /\ d.set = d.rise + (((sky.sunrise + sky.daytime) - d.rise) % Day)
         /\ \E end : /\ d.nextRise = end + ((sky.sunrise - end) % Day)
                     /\ end = AddDays(sky.zone, date, 1)
         /\ d.rise < d.set /\ d.set < d.nextRise /\ d.nextRise - d.rise < 2 * Day
<1> DEFINE end == AddDays(sky.zone, date, 1)
<1>1. \E r \in Sunrise(date) : \E s \in Sunset(r), n \in Sunrise(end) :
        d = [rise |-> r, set |-> s, nextRise |-> n]
  BY DEF Today, DayOf
<1>7. PICK r \in Sunrise(date) : \E s \in Sunset(r), n \in Sunrise(end) :
        d = [rise |-> r, set |-> s, nextRise |-> n]
  BY <1>1
<1>8. PICK s \in Sunset(r), n \in Sunrise(end) : d = [rise |-> r, set |-> s, nextRise |-> n]
  BY <1>7
<1>2. d.rise = r /\ d.set = s /\ d.nextRise = n
  BY <1>8
<1>3. r = date + ((sky.sunrise - date) % Day)
  BY DEF Sunrise, RiseSet
<1>4. s = r + (((sky.sunrise + sky.daytime) - r) % Day)
  BY DEF Sunset, RiseSet
<1>5. n = end + ((sky.sunrise - end) % Day)
  BY DEF Sunrise, RiseSet
<1>6. d.rise < d.set /\ d.set < d.nextRise /\ d.nextRise - d.rise < 2 * Day
  BY DEF Today, DayOf
<1> QED
  BY <1>2, <1>3, <1>4, <1>5, <1>6

\* Over changes of the clock and the seams of the monthly sessions, every date of
\* the year is listed once, in its order and with its own sunrise, wherever clocks
\* leave out no midnight that a zone west of UTC would turn into the day before
\* (festivals.go:73-94).
THEOREM DatesListedOnce ==
  ASSUME NEW margin \in Nat, margin < Day, OrderlySkies(margin)
  PROVE  Spec => []DatesOnce
<1>1. Init => DateInv(margin)
  <2>1. 1 \in Months
    BY YearAssumption DEF Months
  <2> QED
    BY <2>1 DEF Init, DateInv
<1>2. DateInv(margin) /\ [Next]_vars => DateInv(margin)'
  BY NextDateInv
<1>3. DateInv(margin) => DatesOnce
  <2> SUFFICES ASSUME DateInv(margin), AtDay
               PROVE  CivilDay(sky.zone, date) = listed /\ \A d \in Today : CivilDay(sky.zone, d.rise) = listed
    BY DEF DatesOnce, DateInv
  <2>1. /\ Accepted(sky) /\ date \in Int /\ listed \in Int /\ sky \in Skies
        /\ listed * Day <= Wall(sky.zone, date) /\ Wall(sky.zone, date) <= listed * Day + margin
    BY DEF DateInv, AtDay
  <2>2. Orderly(sky, margin) /\ Bounded(sky.zone)
    BY <2>1 DEF OrderlySkies, Orderly
  <2>3. Wall(sky.zone, date) \in Int /\ listed * Day \in Int /\ Day \in Int
    BY <2>1, <2>2, WallsAreInt, DayAssumption
  <2>4. CivilDay(sky.zone, date) = listed
    BY <2>1, <2>3, WithinDate
  <2>5. ASSUME NEW d \in Today PROVE CivilDay(sky.zone, d.rise) = listed
    <3>1. /\ sky.sunrise \in Int /\ Steady(sky.zone, margin)
          /\ AwayFromMidnight(sky.zone, sky.sunrise, margin)
      BY <2>2 DEF Orderly
    <3>2. CivilDay(sky.zone, date + ((sky.sunrise - date) % Day)) = listed
      BY <2>1, <2>2, <3>1, EventOnItsDate
    <3> QED
      BY <3>2, TodayFacts
  <2> QED
    BY <2>4, <2>5
<1> QED
  BY <1>1, <1>2, <1>3, PTL DEF Spec

-----------------------------------------------------------------------------
(* The lunar month.                                                        *)

\* The instants a sunrise of the year may have, with those of the windows after it.
InSpan(t) == t \in Int /\ -2 * Day <= t /\ t <= (YearLength + 3) * Day

\* New moons as far apart as the mean month but for a day, on every side of the
\* year, and the Sun's ingresses one after another from before them.
LunarSky(s) ==
  /\ s.moons \subseteq Int
  /\ \A m, n \in s.moons : m < n => Synodic - Day <= n - m
  /\ \A t : InSpan(t) =>
       \E m, n \in s.moons : /\ m <= t /\ t < n /\ n - m <= Synodic + Day
                             /\ \E k \in DOMAIN s.ingresses : s.ingresses[k] <= m
  /\ \E lo, hi \in Int : DOMAIN s.ingresses = lo..hi
  /\ \A k \in DOMAIN s.ingresses : s.ingresses[k] \in Int
  /\ \A j, k \in DOMAIN s.ingresses : j < k => s.ingresses[j] < s.ingresses[k]

\* The mean month is longer than the windows of three searches; the month before
\* the first day is none.
LunarSkies ==
  /\ Synodic \in Nat /\ Synodic >= 3 * Bracket
  /\ Lunar.prev \in Int /\ Lunar.next \in Int /\ Lunar.next <= Lunar.prev
  /\ \A s \in Skies : Accepted(s) => LunarSky(s)

\* The new moons around an instant of the year.
LEMMA MoonsAround ==
  ASSUME Synodic \in Nat, LunarSky(sky), NEW t, InSpan(t)
  PROVE  LET m == LastMoon(t)
             n == MoonAfter(t)
         IN /\ m \in sky.moons /\ n \in sky.moons /\ m \in Int /\ n \in Int
            /\ m <= t /\ t < n
            /\ \A x \in sky.moons : x <= m \/ n <= x
            /\ Synodic - Day <= n - m /\ n - m <= Synodic + Day
            /\ \E k \in DOMAIN sky.ingresses : sky.ingresses[k] <= m
<1> DEFINE before == {x \in sky.moons : x <= t}
           after == {x \in sky.moons : x > t}
           m == LastMoon(t)
           n == MoonAfter(t)
<1>1. t \in Int /\ sky.moons \subseteq Int
  BY DEF InSpan, LunarSky
<1>2. PICK m0, n0 \in sky.moons : /\ m0 <= t /\ t < n0 /\ n0 - m0 <= Synodic + Day
                                  /\ \E k \in DOMAIN sky.ingresses : sky.ingresses[k] <= m0
  BY DEF LunarSky
<1>3. m \in before /\ \A x \in before : x <= m
  <2>1. before \in SUBSET Int /\ before # {} /\ \A x \in before : x <= t
    BY <1>1, <1>2
  <2>2. \E x \in before : \A y \in before : y <= x
    BY <1>1, <2>1, GreatestInteger
  <2>3. \E x \in before : \A y \in before : x >= y
    BY <2>1, <2>2
  <2>4. m = CHOOSE x \in before : \A y \in before : x >= y
    BY DEF LastMoon, Max
  <2> HIDE DEF before, m
  <2> QED
    BY <2>1, <2>3, <2>4
<1>4. n \in after /\ \A x \in after : n <= x
  <2>1. after \in SUBSET Int /\ after # {} /\ \A x \in after : t <= x
    BY <1>1, <1>2
  <2>2. \E x \in after : \A y \in after : x <= y
    BY <1>1, <2>1, LeastInteger
  <2>4. n = CHOOSE x \in after : \A y \in after : x <= y
    BY DEF MoonAfter, Min
  <2> HIDE DEF after, n
  <2> QED
    BY <2>2, <2>4
<1> HIDE DEF m, n
<1>5. m \in sky.moons /\ n \in sky.moons /\ m \in Int /\ n \in Int /\ m <= t /\ t < n
  BY <1>1, <1>3, <1>4
<1>6. \A x \in sky.moons : x <= m \/ n <= x
  <2> TAKE x \in sky.moons
  <2>1. x \in Int /\ (x <= t \/ x > t)
    BY <1>1
  <2> QED
    BY <1>3, <1>4, <2>1
<1>7. m0 <= m /\ n <= n0 /\ m0 \in Int /\ n0 \in Int
  BY <1>1, <1>2, <1>3, <1>4
<1>8. Synodic - Day <= n - m
  <2>1. m < n
    BY <1>1, <1>5
  <2> QED
    BY <1>5, <2>1 DEF LunarSky
<1>9. \E k \in DOMAIN sky.ingresses : sky.ingresses[k] <= m
  <2>1. PICK k \in DOMAIN sky.ingresses : sky.ingresses[k] <= m0
    BY <1>2
  <2>2. sky.ingresses[k] \in Int
    BY DEF LunarSky
  <2> QED
    BY <1>5, <1>7, <2>1, <2>2
<1>10. n - m <= Synodic + Day
  <2>1. Day \in Int /\ Synodic \in Int /\ n0 - m0 <= Synodic + Day
    BY <1>2, DayAssumption
  <2> QED
    BY <1>5, <1>7, <2>1
<1> QED
  BY <1>5, <1>6, <1>8, <1>9, <1>10 DEF m, n

\* A window around an instant near a new moon shows that new moon and no other.
LEMMA NewMoonIsNearest ==
  ASSUME LunarSkies, LunarSky(sky), NEW m \in sky.moons, NEW guess \in Int,
         guess - m <= Day, m - guess <= Day, NEW n \in NewMoon(guess)
  PROVE  n = m /\ Known(guess + Bracket)
<1>1. /\ Day \in Int /\ Day > 0 /\ Bracket = 3 * Day /\ Synodic \in Int /\ Synodic >= 9 * Day
  BY DayAssumption DEF LunarSkies, Bracket
<1>2. /\ n \in sky.moons /\ guess - 3 * Day < n /\ n < guess + 3 * Day /\ Known(guess + Bracket)
  BY <1>1 DEF NewMoon
<1>3. m \in Int /\ n \in Int
  BY <1>2 DEF LunarSky
<1>4. m < n => Synodic - Day <= n - m
  BY <1>2 DEF LunarSky
<1>5. n < m => Synodic - Day <= m - n
  BY <1>2 DEF LunarSky
<1>6. ~(m < n) /\ ~(n < m)
  BY <1>1, <1>2, <1>3, <1>4, <1>5
<1> QED
  BY <1>2, <1>3, <1>6

\* The age of the Moon in mean months is wrong by less than the month is long or
\* short.
LEMMA MeanAge ==
  ASSUME NEW a \in Nat, NEW len \in Nat \ {0}, a < len, NEW mean \in Nat, NEW d \in Nat,
         len - mean <= d, mean - len <= d
  PROVE  LET q == (a * mean) \div len IN q \in Int /\ a - q <= d /\ q - a <= d
<1> DEFINE q == (a * mean) \div len
           r == (a * mean) % len
<1>1. a * mean \in Int
  OBVIOUS
<1>2. q \in Int /\ r \in Int /\ 0 <= r /\ r < len /\ a * mean = len * q + r
  BY <1>1, Division
<1> HIDE DEF q, r
<1>3. a * (len - mean) <= a * d /\ a * (mean - len) <= a * d /\ a * d <= len * d
  <2>1. \A x, y \in Int : x <= y => a * x <= a * y
    OBVIOUS
  <2>2. len - mean \in Int /\ mean - len \in Int /\ d \in Int
    OBVIOUS
  <2>3. a * d <= len * d
    OBVIOUS
  <2> QED
    BY <2>1, <2>2, <2>3
<1>4. a * (len - mean) = len * a - a * mean /\ a * (mean - len) = a * mean - len * a
  OBVIOUS
<1>5. len * a \in Int /\ len * q \in Int /\ len * d \in Int /\ a * d \in Int
  BY <1>2
<1>6. ASSUME a - q > d PROVE FALSE
  <2>1. q + d + 1 <= a /\ q + d + 1 \in Int
    BY <1>2, <1>6
  <2>2. len * (q + d + 1) <= len * a
    BY <2>1
  <2>3. len * (q + d + 1) = len * q + len * d + len
    BY <1>2
  <2> QED
    BY <1>1, <1>2, <1>3, <1>4, <1>5, <2>2, <2>3
<1>7. ASSUME q - a > d PROVE FALSE
  <2>1. a + d + 1 <= q /\ a + d + 1 \in Int
    BY <1>2, <1>7
  <2>2. len * (a + d + 1) <= len * q
    BY <1>2, <2>1
  <2>3. len * (a + d + 1) = len * a + len * d + len
    OBVIOUS
  <2> QED
    BY <1>1, <1>2, <1>3, <1>4, <1>5, <2>2, <2>3
<1> QED
  BY <1>2, <1>6, <1>7 DEF q

\* The guess of the last new moon is within a day of it.
LEMMA GuessIsNear ==
  ASSUME LunarSkies, LunarSky(sky), NEW t, InSpan(t)
  PROVE  Guess(t) \in Int /\ Guess(t) - LastMoon(t) <= Day /\ LastMoon(t) - Guess(t) <= Day
<1> DEFINE m == LastMoon(t)
           n == MoonAfter(t)
           q == ((t - m) * Synodic) \div (n - m)
<1>1. Synodic \in Nat /\ t \in Int /\ Day \in Nat
  BY DayAssumption DEF LunarSkies, InSpan
<1>2. /\ m \in Int /\ n \in Int /\ m <= t /\ t < n
      /\ Synodic - Day <= n - m /\ n - m <= Synodic + Day
  BY <1>1, MoonsAround
<1>3. Guess(t) = t - q
  BY DEF Guess
<1> HIDE DEF m, n
<1>4. /\ t - m \in Nat /\ n - m \in Nat \ {0} /\ t - m < n - m
      /\ (n - m) - Synodic <= Day /\ Synodic - (n - m) <= Day
  BY <1>1, <1>2
<1>5. q \in Int /\ (t - m) - q <= Day /\ q - (t - m) <= Day
  BY <1>1, <1>4, MeanAge
<1> HIDE DEF q
<1> QED
  BY <1>1, <1>2, <1>3, <1>5 DEF m

\* The ingress that came last.
LEMMA OrdinalIsLast ==
  ASSUME LunarSky(sky), NEW t \in Int, \E k \in DOMAIN sky.ingresses : sky.ingresses[k] <= t
  PROVE  /\ Ordinal(t) \in DOMAIN sky.ingresses /\ Ordinal(t) \in Int /\ sky.ingresses[Ordinal(t)] <= t
         /\ \A k \in DOMAIN sky.ingresses : sky.ingresses[k] <= t => k <= Ordinal(t)
<1> DEFINE past == {k \in DOMAIN sky.ingresses : sky.ingresses[k] <= t}
           o == Ordinal(t)
<1>1. PICK lo, hi \in Int : DOMAIN sky.ingresses = lo..hi
  BY DEF LunarSky
<1>2. past \in SUBSET Int /\ past # {} /\ \A k \in past : k <= hi
  BY <1>1
<1>3. \E j \in past : \A k \in past : k <= j
  BY <1>2, GreatestInteger
<1>4. \E j \in past : \A k \in past : j >= k
  BY <1>2, <1>3
<1>5. o = CHOOSE j \in past : \A k \in past : j >= k
  BY DEF Ordinal, Max
<1>6. o \in past /\ \A k \in past : o >= k
  <2> HIDE DEF o, past
  <2> QED
    BY <1>4, <1>5
<1>7. o \in Int /\ \A k \in past : k \in Int
  BY <1>2, <1>6
<1> HIDE DEF o
<1>8. o \in DOMAIN sky.ingresses /\ sky.ingresses[o] <= t /\ \A k \in past : k <= o
  BY <1>6, <1>7
<1> QED
  BY <1>7, <1>8 DEF o

\* Two instants are in one solar month if and only if no ingress is between them.
LEMMA SameSolarMonth ==
  ASSUME LunarSky(sky), NEW m \in Int, NEW n \in Int, m <= n,
         \E k \in DOMAIN sky.ingresses : sky.ingresses[k] <= m
  PROVE  Ordinal(m) = Ordinal(n)
           <=> ~\E k \in DOMAIN sky.ingresses : m < sky.ingresses[k] /\ sky.ingresses[k] <= n
<1>1. \A k \in DOMAIN sky.ingresses : sky.ingresses[k] \in Int
  BY DEF LunarSky
<1>2. \E k \in DOMAIN sky.ingresses : sky.ingresses[k] <= n
  BY <1>1
<1>3. /\ Ordinal(m) \in DOMAIN sky.ingresses /\ Ordinal(m) \in Int /\ sky.ingresses[Ordinal(m)] <= m
      /\ \A k \in DOMAIN sky.ingresses : sky.ingresses[k] <= m => k <= Ordinal(m)
  BY OrdinalIsLast
<1>4. /\ Ordinal(n) \in DOMAIN sky.ingresses /\ Ordinal(n) \in Int /\ sky.ingresses[Ordinal(n)] <= n
      /\ \A k \in DOMAIN sky.ingresses : sky.ingresses[k] <= n => k <= Ordinal(n)
  BY <1>2, OrdinalIsLast
<1>5. ASSUME NEW k \in DOMAIN sky.ingresses, m < sky.ingresses[k], sky.ingresses[k] <= n
      PROVE  Ordinal(m) # Ordinal(n)
  <2>1. k <= Ordinal(n) /\ k \in Int
    BY <1>4, <1>5 DEF LunarSky
  <2>2. k < Ordinal(n) => sky.ingresses[k] < sky.ingresses[Ordinal(n)]
    BY <1>4 DEF LunarSky
  <2>3. sky.ingresses[k] <= sky.ingresses[Ordinal(n)]
    <3>1. CASE k = Ordinal(n)
      BY <1>1, <3>1
    <3>2. CASE k # Ordinal(n)
      <4>1. k < Ordinal(n)
        BY <1>4, <2>1, <3>2
      <4> QED
        BY <1>1, <1>4, <2>2, <4>1
    <3> QED
      BY <3>1, <3>2
  <2> QED
    BY <1>1, <1>3, <1>4, <1>5, <2>3
<1>6. ASSUME ~\E k \in DOMAIN sky.ingresses : m < sky.ingresses[k] /\ sky.ingresses[k] <= n
      PROVE  Ordinal(m) = Ordinal(n)
  <2>1. sky.ingresses[Ordinal(n)] <= m
    BY <1>1, <1>4, <1>6
  <2>2. Ordinal(n) <= Ordinal(m)
    BY <1>3, <1>4, <2>1
  <2>3. sky.ingresses[Ordinal(m)] <= n
    BY <1>1, <1>3
  <2>4. Ordinal(m) <= Ordinal(n)
    BY <1>3, <1>4, <2>3
  <2> QED
    BY <1>3, <1>4, <2>2, <2>4
<1> QED
  BY <1>5, <1>6

\* A month that is looked up is the one in force, and the search has read three
\* days beyond the mean end of it.
LEMMA LunarMonthIsTrue ==
  ASSUME LunarSkies, LunarSky(sky), NEW t, InSpan(t), NEW moon \in LunarMonth(t)
  PROVE  moon = TrueMonth(t) /\ Known(moon.prev + Synodic + Bracket)
<1> DEFINE m == LastMoon(t)
           n == MoonAfter(t)
<1>1. /\ m \in sky.moons /\ n \in sky.moons /\ m \in Int /\ n \in Int /\ m <= t /\ t < n /\ t \in Int
      /\ Synodic - Day <= n - m /\ n - m <= Synodic + Day
      /\ \E k \in DOMAIN sky.ingresses : sky.ingresses[k] <= m
  BY MoonsAround DEF LunarSkies, InSpan
<1>2. Guess(t) \in Int /\ Guess(t) - m <= Day /\ m - Guess(t) <= Day
  BY GuessIsNear
<1> HIDE DEF m, n
<1>3. \A x \in NewMoon(Guess(t)) : x = m
  BY <1>1, <1>2, NewMoonIsNearest
<1>4. \A p \in MoonBefore(t) : p = m
  <2> TAKE p \in MoonBefore(t)
  <2>1. PICK x \in (IF Known(t) THEN NewMoon(Guess(t)) ELSE {}) : p \in IF x <= t THEN {x} ELSE NewMoon(x - Synodic)
    BY DEF MoonBefore
  <2>2. x = m
    BY <1>3, <2>1
  <2> QED
    BY <1>1, <2>1, <2>2
<1>5. PICK p \in MoonBefore(t) :
        moon \in {[prev |-> p, next |-> x, index |-> (Ordinal(p) + 1) % 12, adhika |-> Ordinal(p) = Ordinal(x)] :
                    x \in NewMoon(p + Synodic)}
  BY DEF LunarMonth
<1>6. p = m
  BY <1>4
<1>7. PICK x \in NewMoon(m + Synodic) :
        moon = [prev |-> m, next |-> x, index |-> (Ordinal(m) + 1) % 12, adhika |-> Ordinal(m) = Ordinal(x)]
  BY <1>5, <1>6
<1>8. x = n /\ Known(m + Synodic + Bracket)
  <2>1. Synodic \in Int /\ Day \in Int
    BY DayAssumption DEF LunarSkies
  <2>2. m + Synodic \in Int /\ (m + Synodic) - n <= Day /\ n - (m + Synodic) <= Day
    BY <1>1, <2>1
  <2> QED
    BY <1>1, <2>2, NewMoonIsNearest
<1>9. Ordinal(m) = Ordinal(n)
        <=> ~\E k \in DOMAIN sky.ingresses : m < sky.ingresses[k] /\ sky.ingresses[k] <= n
  <2>1. m <= n
    BY <1>1
  <2> QED
    BY <1>1, <2>1, SameSolarMonth
<1>10. moon = [prev |-> m, next |-> n, index |-> (Ordinal(m) + 1) % 12,
               adhika |-> ~\E k \in DOMAIN sky.ingresses : m < sky.ingresses[k] /\ sky.ingresses[k] <= n]
  BY <1>7, <1>8, <1>9
<1>11. TrueMonth(t) = [prev |-> m, next |-> n, index |-> (Ordinal(m) + 1) % 12,
               adhika |-> ~\E k \in DOMAIN sky.ingresses : m < sky.ingresses[k] /\ sky.ingresses[k] <= n]
  BY DEF TrueMonth, m, n
<1>12. moon.prev = m
  BY <1>10
<1> QED
  BY <1>8, <1>10, <1>11, <1>12

\* The month in force stays so until the next new moon.
LEMMA MonthLasts ==
  ASSUME LunarSkies, LunarSky(sky), NEW t, InSpan(t), NEW u \in Int, LastMoon(t) <= u, u < MoonAfter(t)
  PROVE  TrueMonth(u) = TrueMonth(t)
<1> DEFINE m == LastMoon(t)
           n == MoonAfter(t)
<1>1. /\ m \in Int /\ n \in Int /\ m <= t /\ t < n /\ t \in Int /\ m <= u /\ u < n
      /\ \A x \in sky.moons : x <= m \/ n <= x
  BY MoonsAround DEF LunarSkies, InSpan
<1> HIDE DEF m, n
<1>2. \A x \in sky.moons : (x <= u <=> x <= t) /\ (x > u <=> x > t)
  <2> TAKE x \in sky.moons
  <2>1. x \in Int
    BY DEF LunarSky
  <2> QED
    BY <1>1, <2>1
<1>3. {x \in sky.moons : x <= u} = {x \in sky.moons : x <= t} /\ {x \in sky.moons : x > u} = {x \in sky.moons : x > t}
  BY <1>2
<1>4. LastMoon(u) = LastMoon(t) /\ MoonAfter(u) = MoonAfter(t)
  BY <1>3 DEF LastMoon, MoonAfter
<1> QED
  BY <1>4 DEF TrueMonth

\* While the month that is carried lasts it is the month in force, and the search
\* that found it has read three days beyond its mean end.
LunarInv ==
  /\ lunar.prev \in Int /\ lunar.next \in Int
  /\ lunar.prev < lunar.next =>
       /\ Known(lunar.prev + Synodic + Bracket)
       /\ lunar.next <= lunar.prev + Synodic + Day
       /\ \A t \in Int : lunar.prev <= t /\ t < lunar.next => lunar = TrueMonth(t)

\* A day's sunrise is within the span of the sky.
LEMMA RiseInSpan ==
  ASSUME NEW margin \in Nat, margin < Day, OrderlySkies(margin), DateInv(margin), AtDay, NEW d \in Today
  PROVE  Accepted(sky) /\ sky \in Skies /\ InSpan(d.rise)
<1>1. /\ Accepted(sky) /\ date \in Int /\ listed \in Nat /\ sky \in Skies /\ month \in Months
      /\ listed * Day <= Wall(sky.zone, date) /\ Wall(sky.zone, date) <= listed * Day + margin
      /\ listed <= Firsts[month + 1]
  BY DEF DateInv, AtDay
<1>2. Orderly(sky, margin) /\ Bounded(sky.zone) /\ sky.sunrise \in Int
  BY <1>1 DEF OrderlySkies, Orderly
<1>3. /\ Offset(sky.zone, date) \in Int /\ -Day < Offset(sky.zone, date) /\ Offset(sky.zone, date) < Day
      /\ Wall(sky.zone, date) = date + Offset(sky.zone, date)
  BY <1>1, <1>2, OffsetBounds DEF Wall
<1>4. listed <= YearLength /\ YearLength \in Nat
  BY <1>1, MonthFacts
<1>5. listed * Day \in Nat /\ YearLength * Day \in Nat /\ listed * Day <= YearLength * Day
      /\ (YearLength + 3) * Day = YearLength * Day + 3 * Day /\ Day \in Nat
  <2>1. Day \in Nat /\ listed \in Nat /\ YearLength \in Nat /\ listed <= YearLength
    BY <1>1, <1>4, DayAssumption
  <2> QED
    BY <2>1
<1>6. d.rise \in Int /\ date <= d.rise /\ d.rise < date + Day
  BY <1>1, <1>2, TodayFacts, EventAfter
<1> QED
  BY <1>1, <1>3, <1>5, <1>6 DEF InSpan

\* The month of a day, carried or looked up.
LEMMA MonthTodayIsTrue ==
  ASSUME NEW margin \in Nat, margin < Day, OrderlySkies(margin), LunarSkies, DateInv(margin), LunarInv,
         AtDay, NEW d \in Today, NEW moon \in MonthToday(d.rise)
  PROVE  /\ moon = TrueMonth(d.rise) /\ Known(moon.prev + Synodic + Bracket)
         /\ moon.prev = LastMoon(d.rise) /\ moon.next = MoonAfter(d.rise)
<1>1. LunarSky(sky) /\ InSpan(d.rise) /\ d.rise \in Int
  BY RiseInSpan DEF LunarSkies, InSpan
<1>2. moon = TrueMonth(d.rise) /\ Known(moon.prev + Synodic + Bracket)
  <2>1. CASE lunar.prev <= d.rise /\ d.rise < lunar.next
    <3>1. moon = lunar
      BY <2>1 DEF MonthToday
    <3>2. lunar.prev < lunar.next
      BY <1>1, <2>1 DEF LunarInv
    <3> QED
      BY <1>1, <2>1, <3>1, <3>2 DEF LunarInv
  <2>2. CASE ~(lunar.prev <= d.rise /\ d.rise < lunar.next)
    <3>1. moon \in LunarMonth(d.rise)
      BY <2>2 DEF MonthToday
    <3> QED
      BY <1>1, <3>1, LunarMonthIsTrue
  <2> QED
    BY <2>1, <2>2
<1>3. moon.prev = LastMoon(d.rise) /\ moon.next = MoonAfter(d.rise)
  BY <1>2 DEF TrueMonth
<1> QED
  BY <1>2, <1>3

LEMMA NextLunarInv ==
  ASSUME NEW margin \in Nat, margin < Day, OrderlySkies(margin), LunarSkies, DateInv(margin), LunarInv, [Next]_vars
  PROVE  LunarInv'
<1>1. CASE ScanDay
  <2>1. AtDay /\ sky' = sky /\ result' = "scanning"
    BY <1>1 DEF ScanDay, AtDay
  <2>2. PICK d \in Today : \E moon \in MonthToday(d.rise) : lunar' = moon
    BY <1>1 DEF ScanDay
  <2>3. lunar' \in MonthToday(d.rise)
    BY <2>2
  <2> DEFINE m == LastMoon(d.rise)
             n == MoonAfter(d.rise)
  <2>4. /\ lunar' = TrueMonth(d.rise) /\ Known(lunar'.prev + Synodic + Bracket)
        /\ lunar'.prev = m /\ lunar'.next = n
    BY <2>1, <2>3, MonthTodayIsTrue
  <2>5. Accepted(sky) /\ LunarSky(sky) /\ InSpan(d.rise)
    BY <2>1, RiseInSpan DEF LunarSkies
  <2>6. m \in Int /\ n \in Int /\ n - m <= Synodic + Day
    BY <2>5, MoonsAround DEF LunarSkies
  <2>7. n <= m + Synodic + Day
    <3>1. Synodic \in Int /\ Day \in Int
      BY DayAssumption DEF LunarSkies
    <3> QED
      BY <2>6, <3>1
  <2>8. \A t \in Int : m <= t /\ t < n => lunar' = TrueMonth(t)
    BY <2>4, <2>5, MonthLasts
  <2>9. \A t : TrueMonth(t)' = TrueMonth(t)
    BY <2>1 DEF TrueMonth, LastMoon, MoonAfter, Ordinal
  <2> QED
    BY <2>1, <2>4, <2>5, <2>6, <2>7, <2>8, <2>9 DEF LunarInv, Known
<1>2. CASE DayFails \/ Ended
  <2>1. lunar' = Lunar
    BY <1>2 DEF DayFails, Ended, Fail
  <2>2. ~(Lunar.prev < Lunar.next) /\ Lunar.prev \in Int /\ Lunar.next \in Int
    BY DEF LunarSkies
  <2> QED
    BY <2>1, <2>2 DEF LunarInv
<1>3. CASE Begin \/ NextMonth \/ UNCHANGED vars
  <2>1. sky' = sky /\ lunar' = lunar
    BY <1>3 DEF Begin, NextMonth, vars
  <2>2. \A t : TrueMonth(t)' = TrueMonth(t)
    BY <2>1 DEF TrueMonth, LastMoon, MoonAfter, Ordinal
  <2> QED
    BY <2>1, <2>2 DEF LunarInv, Known
<1> QED
  BY <1>1, <1>2, <1>3 DEF Next

LEMMA InitInvs ==
  ASSUME NEW margin \in Nat, LunarSkies, Init
  PROVE  DateInv(margin) /\ LunarInv
<1>1. 1 \in Months
  BY YearAssumption DEF Months
<1>2. ~(Lunar.prev < Lunar.next) /\ Lunar.prev \in Int /\ Lunar.next \in Int
  BY DEF LunarSkies
<1> QED
  BY <1>1, <1>2 DEF Init, DateInv, LunarInv

\* The lunar month a day gets, carried from whatever earlier day and session or
\* looked up around an estimate, is the one in force at its sunrise
\* (festivals.go:109-113, calendar.go:84-161).
THEOREM MonthsAreInForce ==
  ASSUME NEW margin \in Nat, margin < Day, OrderlySkies(margin), LunarSkies
  PROVE  Spec => []MonthIsInForce
<1>1. Init => DateInv(margin) /\ LunarInv
  BY InitInvs
<1>2. DateInv(margin) /\ LunarInv /\ [Next]_vars => DateInv(margin)' /\ LunarInv'
  BY NextDateInv, NextLunarInv
<1>3. DateInv(margin) /\ LunarInv => MonthIsInForce
  BY MonthTodayIsTrue DEF MonthIsInForce
<1> QED
  BY <1>1, <1>2, <1>3, PTL DEF Spec

\* The next sunrise is a day later.
LEMMA NextRise ==
  ASSUME NEW margin \in Nat, margin < Day, OrderlySkies(margin), DateInv(margin), AtDay, NEW d \in Today
  PROVE  /\ d.rise \in Int /\ d.set \in Int /\ d.nextRise = d.rise + Day
         /\ d.rise < d.set /\ d.set < d.nextRise
<1>1. Accepted(sky) /\ sky \in Skies /\ date \in Int /\ Day \in Int
  BY DayAssumption DEF DateInv, AtDay
<1>2. Orderly(sky, margin) /\ Bounded(sky.zone) /\ sky.sunrise \in Int /\ sky.daytime \in Int
  BY <1>1 DEF OrderlySkies, Orderly
<1>3. d.rise \in Int /\ \E k \in Int : d.rise = sky.sunrise + Day * k
  <2>1. d.rise = date + ((sky.sunrise - date) % Day)
    BY TodayFacts
  <2> DEFINE found == date + ((sky.sunrise - date) % Day)
  <2>2. found \in Int /\ \E k \in Int : found = sky.sunrise + Day * k
    BY <1>1, <1>2, EventAfter
  <2> HIDE DEF found
  <2> QED
    BY <2>1, <2>2 DEF found
<1>4. AddDays(sky.zone, date, 1) \in Int
  <2>1. Wall(sky.zone, date) + 1 * Day \in Int
    BY <1>1, <1>2, WallsAreInt
  <2> QED
    BY <1>2, <2>1, InstantIsInt DEF AddDays
<1>5. d.nextRise \in Int /\ \E k \in Int : d.nextRise = sky.sunrise + Day * k
  <2> DEFINE end == AddDays(sky.zone, date, 1)
             found == end + ((sky.sunrise - end) % Day)
  <2>1. d.nextRise = found
    BY TodayFacts
  <2>2. found \in Int /\ \E k \in Int : found = sky.sunrise + Day * k
    <3>1. end \in Int
      BY <1>4
    <3> HIDE DEF end
    <3> QED
      BY <1>2, <3>1, EventAfter
  <2> HIDE DEF found
  <2> QED
    BY <2>1, <2>2
<1>6. d.set \in Int
  <2>1. sky.sunrise + sky.daytime \in Int
    BY <1>2
  <2> QED
    BY <1>3, <2>1, TodayFacts, EventAfter
<1>7. d.rise < d.set /\ d.set < d.nextRise /\ d.nextRise - d.rise < 2 * Day
  BY TodayFacts
<1>8. PICK j \in Int : d.rise = sky.sunrise + Day * j
  BY <1>3
<1>9. PICK k \in Int : d.nextRise = sky.sunrise + Day * k
  BY <1>5
<1>10. j < k
  <2>1. k < j => Day * k + Day <= Day * j /\ Day * k \in Int /\ Day * j \in Int
    BY DaysApart
  <2>2. k # j
    BY <1>3, <1>5, <1>6, <1>7, <1>8, <1>9
  <2>3. ~(k < j)
    BY <1>1, <1>2, <1>3, <1>5, <1>6, <1>7, <1>8, <1>9, <2>1, DayAssumption
  <2> QED
    BY <2>2, <2>3
<1>11. ~(j + 1 < k)
  <2>1. j + 1 < k => Day * (j + 1) + Day <= Day * k /\ Day * k \in Int /\ Day * (j + 1) \in Int
    BY DaysApart
  <2>2. Day * (j + 1) = Day * j + Day /\ Day * j \in Int
    BY <1>1
  <2> QED
    BY <1>1, <1>2, <1>3, <1>5, <1>7, <1>8, <1>9, <2>1, <2>2
<1>12. k = j + 1
  BY <1>10, <1>11
<1>13. Day * k = Day * j + Day /\ Day * j \in Int
  BY <1>1, <1>12
<1>14. d.nextRise = d.rise + Day
  BY <1>1, <1>2, <1>8, <1>9, <1>13
<1> QED
  BY <1>3, <1>6, <1>7, <1>14

\* The tithis that a listed day reads, in its own windows and in those of the next
\* evening, are read before the ephemeris ends: the search for the next new moon,
\* perhaps weeks ago, has read further (calendar.go:284-290, 507-516).
THEOREM WindowsAreKnown ==
  ASSUME NEW margin \in Nat, margin < Day, OrderlySkies(margin), LunarSkies,
         \A s \in Skies : s.horizon \in Int
  PROVE  Spec => []WindowsKnown
<1>1. Init => DateInv(margin) /\ LunarInv
  BY InitInvs
<1>2. DateInv(margin) /\ LunarInv /\ [Next]_vars => DateInv(margin)' /\ LunarInv'
  BY NextDateInv, NextLunarInv
<1>3. DateInv(margin) /\ LunarInv => WindowsKnown
  <2> SUFFICES ASSUME DateInv(margin), LunarInv, AtDay, NEW d \in Today, NEW moon \in MonthToday(d.rise)
               PROVE  Known(d.set + Day + (8 * (d.nextRise - d.set)) \div 15)
    BY DEF WindowsKnown
  <2>1. /\ Known(moon.prev + Synodic + Bracket)
        /\ moon.prev = LastMoon(d.rise) /\ moon.next = MoonAfter(d.rise)
    BY MonthTodayIsTrue
  <2> DEFINE m == LastMoon(d.rise)
             n == MoonAfter(d.rise)
  <2>2. Accepted(sky) /\ sky \in Skies /\ LunarSky(sky) /\ InSpan(d.rise) /\ Synodic \in Nat
    BY RiseInSpan DEF LunarSkies
  <2>3. m \in Int /\ n \in Int /\ d.rise < n /\ n - m <= Synodic + Day
    BY <2>2, MoonsAround
  <2>4. m + Synodic + 3 * Day < sky.horizon /\ sky.horizon \in Int
    BY <2>1, <2>2 DEF Known, Bracket
  <2>5. /\ d.rise \in Int /\ d.set \in Int /\ d.nextRise = d.rise + Day
        /\ d.rise < d.set /\ d.set < d.nextRise /\ Day \in Int /\ Synodic \in Int
    BY <2>2, NextRise, DayAssumption
  <2> HIDE DEF m, n
  <2> DEFINE night == d.nextRise - d.set
             part == (8 * night) \div 15
  <2>6. night \in Int /\ night > 0
    BY <2>5
  <2> HIDE DEF night
  <2>7. part \in Int /\ part <= night
    BY <2>6
  <2> HIDE DEF part
  <2>8. d.set + Day + part <= d.rise + 2 * Day
    BY <2>5, <2>7 DEF night
  <2>9. d.set + Day + part < sky.horizon
    BY <2>3, <2>4, <2>5, <2>7, <2>8
  <2> QED
    BY <2>9 DEF Known, part, night
<1> QED
  BY <1>1, <1>2, <1>3, PTL DEF Spec

-----------------------------------------------------------------------------
(* The samvat.                                                             *)

\* At most two years of ingresses, from before the year to after it, of which twelve
\* take longer than two months of the Moon.  The 12th begins the first solar month of
\* the year; the mean months counted back from any other reach the year before, or
\* this one.
SolarSky(s) ==
  /\ DOMAIN s.ingresses \subseteq -1..22
  /\ \A t : InSpan(t) => \E k \in DOMAIN s.ingresses : t < s.ingresses[k]
  /\ \A k \in DOMAIN s.ingresses :
       /\ k + 11 \in DOMAIN s.ingresses => s.ingresses[k + 11] - s.ingresses[k] > 2 * Synodic
       /\ k <= 11 => s.ingresses[k] + Day <= k * Synodic
       /\ k >= 11 => (k - 11) * Synodic + Day <= s.ingresses[k]

SolarSkies == \A s \in Skies : Accepted(s) => SolarSky(s)

\* A sign from the last new moon on, and from the next ingress.
LEMMA OrdinalNow ==
  ASSUME Synodic \in Nat, LunarSky(sky), SolarSky(sky), NEW t, InSpan(t)
  PROVE  LET p == LastMoon(t)
             o == Ordinal(p)
         IN /\ p \in Int /\ o \in DOMAIN sky.ingresses /\ o + 1 \in DOMAIN sky.ingresses /\ o \in Int
            /\ sky.ingresses[o] <= p /\ p < sky.ingresses[o + 1]
            /\ \A k \in DOMAIN sky.ingresses : sky.ingresses[k] \in Int
            /\ \A k \in DOMAIN sky.ingresses : sky.ingresses[k] <= p => k <= o
<1> DEFINE p == LastMoon(t)
           o == Ordinal(p)
<1>1. p \in Int /\ p <= t /\ t \in Int /\ \E k \in DOMAIN sky.ingresses : sky.ingresses[k] <= p
  BY MoonsAround DEF InSpan
<1> HIDE DEF p
<1>2. /\ o \in DOMAIN sky.ingresses /\ o \in Int /\ sky.ingresses[o] <= p
      /\ \A k \in DOMAIN sky.ingresses : sky.ingresses[k] <= p => k <= o
  BY <1>1, OrdinalIsLast
<1> HIDE DEF o
<1>3. PICK lo, hi \in Int : DOMAIN sky.ingresses = lo..hi
  BY DEF LunarSky
<1>4. PICK k \in DOMAIN sky.ingresses : t < sky.ingresses[k]
  BY DEF SolarSky
<1>5. \A j \in DOMAIN sky.ingresses : sky.ingresses[j] \in Int
  BY DEF LunarSky
<1>6. o < k
  <2>1. k < o => sky.ingresses[k] < sky.ingresses[o]
    BY <1>2, <1>4 DEF LunarSky
  <2>2. k \in Int /\ sky.ingresses[k] \in Int /\ sky.ingresses[o] \in Int
    BY <1>2, <1>3, <1>4, <1>5
  <2>3. k # o
    BY <1>1, <1>2, <1>4, <2>2
  <2> QED
    BY <1>1, <1>2, <1>4, <2>1, <2>2, <2>3
<1>7. o + 1 \in DOMAIN sky.ingresses
  BY <1>2, <1>3, <1>6
<1>8. p < sky.ingresses[o + 1]
  <2>1. sky.ingresses[o + 1] \in Int /\ ~(o + 1 <= o)
    BY <1>2, <1>5, <1>7
  <2>2. ~(sky.ingresses[o + 1] <= p)
    BY <1>2, <1>7, <2>1
  <2> QED
    BY <1>1, <2>1, <2>2
<1> QED
  BY <1>1, <1>2, <1>5, <1>7, <1>8 DEF p, o

\* By the wall clock what is a day from the first midnight is on its side of it.
LEMMA SideOfYear ==
  ASSUME NEW zone, Bounded(zone), NEW x \in Int
  PROVE  /\ x <= -Day => CivilDay(zone, x) < 0
         /\ Day <= x => ~(CivilDay(zone, x) < 0)
<1> DEFINE w == Wall(zone, x)
           q == w \div Day
<1>1. Day \in Nat \ {0} /\ w \in Int /\ (x <= -Day => w < 0) /\ (Day <= x => w > 0)
  BY DayAssumption, OffsetBounds DEF Wall
<1> HIDE DEF w
<1>2. q \in Int /\ w = Day * q + (w % Day) /\ w % Day \in Int /\ 0 <= w % Day /\ w % Day < Day
  BY <1>1, Division
<1> HIDE DEF q
<1>3. w < 0 => q < 0
  BY <1>1, <1>2
<1>4. w > 0 => ~(q < 0)
  <2>1. q < 0 => Day * q + Day <= Day * 0
    BY <1>2, DaysApart
  <2>2. Day * 0 = 0 /\ Day * q \in Int
    BY <1>1, <1>2
  <2> QED
    BY <1>1, <1>2, <2>1, <2>2
<1> QED
  BY <1>1, <1>3, <1>4 DEF CivilDay, q, w

\* The year of a month is that of the twelve ingresses its new moon is among.
LEMMA SamvatOfMonth ==
  ASSUME Synodic \in Nat, LunarSky(sky), SolarSky(sky), Bounded(sky.zone), NEW t, InSpan(t)
  PROVE  LET o == Ordinal(LastMoon(t))
         IN /\ o \in -1..22
            /\ TrueMonth(t).index = IF o < 11 THEN o + 1 ELSE o - 11
            /\ Samvat(TrueMonth(t)) = IF o < 11 THEN -1 ELSE 0
<1> DEFINE p == LastMoon(t)
           o == Ordinal(p)
           index == IF o < 11 THEN o + 1 ELSE o - 11
<1>1. /\ p \in Int /\ o \in DOMAIN sky.ingresses /\ o + 1 \in DOMAIN sky.ingresses /\ o \in Int
      /\ sky.ingresses[o] <= p /\ p < sky.ingresses[o + 1]
      /\ sky.ingresses[o] \in Int /\ sky.ingresses[o + 1] \in Int
  BY OrdinalNow
<1>2. TrueMonth(t).index = (o + 1) % 12 /\ TrueMonth(t).prev = p
  BY DEF TrueMonth
<1> HIDE DEF p, o
<1>3. o \in -1..22 /\ o + 1 \in -1..22
  BY <1>1 DEF SolarSky
<1>4. (o + 1) % 12 = index
  BY <1>3
<1>5. Day \in Nat \ {0}
  BY DayAssumption
<1>6. CASE o < 11
  <2>1. sky.ingresses[o + 1] + Day <= (o + 1) * Synodic
    BY <1>1, <1>3, <1>6 DEF SolarSky
  <2>2. (o + 1) * Synodic \in Int
    BY <1>3
  <2>3. p - (o + 1) * Synodic \in Int /\ p - (o + 1) * Synodic <= -Day
    BY <1>1, <1>5, <2>1, <2>2
  <2>4. CivilDay(sky.zone, p - (o + 1) * Synodic) < 0
    BY <2>3, SideOfYear
  <2>5. Samvat(TrueMonth(t)) = -1
    BY <1>2, <1>4, <1>6, <2>4 DEF Samvat
  <2> QED
    BY <1>2, <1>3, <1>4, <1>6, <2>5 DEF o, p
<1>7. CASE ~(o < 11)
  <2>1. (o - 11) * Synodic + Day <= sky.ingresses[o]
    BY <1>1, <1>3, <1>7 DEF SolarSky
  <2>2. (o - 11) * Synodic \in Int
    BY <1>3
  <2>3. p - (o - 11) * Synodic \in Int /\ Day <= p - (o - 11) * Synodic
    BY <1>1, <1>5, <2>1, <2>2
  <2>4. ~(CivilDay(sky.zone, p - (o - 11) * Synodic) < 0)
    BY <2>3, SideOfYear
  <2>5. Samvat(TrueMonth(t)) = 0
    BY <1>2, <1>4, <1>7, <2>4 DEF Samvat
  <2> QED
    BY <1>2, <1>3, <1>4, <1>7, <2>5 DEF o, p
<1> QED
  BY <1>6, <1>7

\* Within four days the new moon moves on by less than twelve signs.
LEMMA MonthsMoveOn ==
  ASSUME Synodic \in Nat, Synodic >= 3 * Bracket, LunarSky(sky), SolarSky(sky),
         NEW t, NEW u, InSpan(t), InSpan(u), t < u, u < t + 4 * Day
  PROVE  LET o == Ordinal(LastMoon(t)) v == Ordinal(LastMoon(u)) IN o <= v /\ v < o + 12
<1> DEFINE p == LastMoon(t)
           n == MoonAfter(t)
           q == LastMoon(u)
           o == Ordinal(p)
           v == Ordinal(q)
<1>1. /\ p \in Int /\ n \in Int /\ p <= t /\ t < n /\ n - p <= Synodic + Day /\ p \in sky.moons
  BY MoonsAround
<1>2. /\ q \in Int /\ q <= u /\ \A x \in sky.moons : x <= q \/ MoonAfter(u) <= x
      /\ u < MoonAfter(u) /\ MoonAfter(u) \in Int
  BY MoonsAround
<1>3. /\ o \in DOMAIN sky.ingresses /\ o + 1 \in DOMAIN sky.ingresses /\ o \in Int
      /\ sky.ingresses[o] <= p /\ p < sky.ingresses[o + 1]
      /\ \A k \in DOMAIN sky.ingresses : sky.ingresses[k] \in Int
  BY OrdinalNow
<1>4. /\ v \in DOMAIN sky.ingresses /\ v \in Int /\ sky.ingresses[v] <= q
      /\ \A k \in DOMAIN sky.ingresses : sky.ingresses[k] <= q => k <= v
  BY OrdinalNow
<1>5. t \in Int /\ u \in Int /\ Day \in Nat \ {0} /\ Synodic >= 9 * Day
  BY DayAssumption DEF InSpan, Bracket
<1>6. p <= q
  <2>1. p <= q \/ MoonAfter(u) <= p
    BY <1>1, <1>2
  <2> HIDE DEF p, q
  <2> QED
    BY <1>1, <1>2, <1>5, <2>1
<1>7. PICK lo, hi \in Int : DOMAIN sky.ingresses = lo..hi
  BY DEF LunarSky
<1> HIDE DEF p, n, q, o, v
<1>8. o <= v
  BY <1>1, <1>2, <1>3, <1>4, <1>6
<1>9. ASSUME ~(v < o + 12) PROVE FALSE
  <2>1. o + 12 \in DOMAIN sky.ingresses /\ (o + 1) + 11 = o + 12
    BY <1>3, <1>4, <1>7, <1>9
  <2>2. sky.ingresses[o + 12] - sky.ingresses[o + 1] > 2 * Synodic
    BY <1>3, <2>1 DEF SolarSky
  <2>3. sky.ingresses[o + 12] <= sky.ingresses[v]
    <3>1. o + 12 < v => sky.ingresses[o + 12] < sky.ingresses[v]
      BY <1>4, <2>1 DEF LunarSky
    <3>2. sky.ingresses[o + 12] \in Int /\ sky.ingresses[v] \in Int
      BY <1>3, <1>4, <2>1
    <3>3. o + 12 = v \/ o + 12 < v
      BY <1>3, <1>4, <1>9
    <3> QED
      BY <3>1, <3>2, <3>3
  <2>4. /\ sky.ingresses[o + 12] \in Int /\ sky.ingresses[v] \in Int /\ sky.ingresses[o + 1] \in Int
    BY <1>3, <1>4, <2>1
  <2>5. q - p < Synodic + 5 * Day
    BY <1>1, <1>2, <1>5
  <2>6. q - p > 2 * Synodic
    BY <1>1, <1>2, <1>3, <1>4, <2>2, <2>3, <2>4
  <2> QED
    BY <1>1, <1>2, <1>5, <2>5, <2>6
<1> QED
  BY <1>8, <1>9 DEF o, v, p, q

\* The sunrise of the next date is later, by less than four days.
LEMMA SunrisesMoveOn ==
  ASSUME NEW margin \in Nat, margin < Day, NEW zone, Bounded(zone), Steady(zone, margin),
         NEW event \in Int, NEW j \in Int, NEW k \in Int, NEW t, NEW u,
         t = event + Day * j, u = event + Day * k,
         CivilDay(zone, u) = CivilDay(zone, t) + 1
  PROVE  t < u /\ u < t + 4 * Day
<1> DEFINE a == Wall(zone, t)
           b == Wall(zone, u)
           c == a \div Day
           e == b \div Day
<1>1. Day \in Nat \ {0} /\ t \in Int /\ u \in Int
  BY DayAssumption
<1>2. /\ a \in Int /\ b \in Int /\ a = t + Offset(zone, t) /\ b = u + Offset(zone, u)
      /\ Offset(zone, t) \in Int /\ -Day < Offset(zone, t) /\ Offset(zone, t) < Day
      /\ Offset(zone, u) \in Int /\ -Day < Offset(zone, u) /\ Offset(zone, u) < Day
  BY <1>1, OffsetBounds DEF Wall
<1>3. e = c + 1
  BY DEF CivilDay
<1> HIDE DEF a, b
<1>4. /\ c \in Int /\ a = Day * c + (a % Day) /\ a % Day \in Int /\ 0 <= a % Day /\ a % Day < Day
      /\ e \in Int /\ b = Day * e + (b % Day) /\ b % Day \in Int /\ 0 <= b % Day /\ b % Day < Day
  BY <1>1, <1>2, Division
<1> HIDE DEF c, e
<1>5. Day * e = Day * c + Day /\ Day * c \in Int
  BY <1>1, <1>3, <1>4
<1>6. a < b /\ b < a + 2 * Day
  <2> DEFINE x == Day * c
             y == Day * e
             r == a % Day
             s == b % Day
  <2>1. a = x + r /\ b = y + s /\ y = x + Day /\ x \in Int /\ y \in Int
    BY <1>1, <1>4, <1>5
  <2>2. r \in Int /\ 0 <= r /\ r < Day /\ s \in Int /\ 0 <= s /\ s < Day
    BY <1>4
  <2> HIDE DEF x, y, r, s
  <2> QED
    BY <1>1, <2>1, <2>2
<1>7. u < t + 4 * Day /\ t - u < 2 * Day
  BY <1>1, <1>2, <1>6
<1>8. ASSUME k < j PROVE FALSE
  <2>1. Day * k + Day <= Day * j /\ Day * k \in Int /\ Day * j \in Int
    BY <1>8, DaysApart
  <2>2. ~(k + 1 < j)
    <3>1. k + 1 < j => Day * (k + 1) + Day <= Day * j
      BY DaysApart
    <3>2. Day * (k + 1) = Day * k + Day
      BY <1>1
    <3> QED
      BY <1>1, <1>7, <2>1, <3>1, <3>2
  <2>3. j = k + 1 /\ Day * j = Day * k + Day
    BY <1>1, <1>8, <2>2
  <2>4. t = u + Day
    BY <1>1, <2>1, <2>3
  <2>5. Offset(zone, u) - Offset(zone, t) <= margin
    BY <1>1, <2>4, SteadyBetween
  <2> QED
    BY <1>1, <1>2, <1>6, <2>4, <2>5
<1>9. k # j
  BY <1>1, <1>2, <1>6
<1>10. Day * j + Day <= Day * k /\ Day * k \in Int /\ Day * j \in Int
  BY <1>8, <1>9, DaysApart
<1> QED
  BY <1>1, <1>7, <1>10

\* The month that is carried is that of the day listed last.
WalkInv ==
  result = "scanning" /\ listed > 0 =>
    \E t : /\ InSpan(t) /\ lunar = TrueMonth(t) /\ CivilDay(sky.zone, t) = listed - 1
           /\ \E k \in Int : t = sky.sunrise + Day * k

\* What is known of the sunrise of the day at hand.
LEMMA RiseOfToday ==
  ASSUME NEW margin \in Nat, margin < Day, OrderlySkies(margin), LunarSkies, DateInv(margin), LunarInv,
         AtDay, NEW d \in Today, NEW moon \in MonthToday(d.rise)
  PROVE  /\ Accepted(sky) /\ sky \in Skies /\ Orderly(sky, margin) /\ LunarSky(sky)
         /\ InSpan(d.rise) /\ moon = TrueMonth(d.rise) /\ CivilDay(sky.zone, d.rise) = listed
         /\ \E k \in Int : d.rise = sky.sunrise + Day * k
<1>1. /\ Accepted(sky) /\ date \in Int /\ listed \in Int /\ sky \in Skies
      /\ listed * Day <= Wall(sky.zone, date) /\ Wall(sky.zone, date) <= listed * Day + margin
  BY DEF DateInv, AtDay
<1>2. /\ Orderly(sky, margin) /\ Bounded(sky.zone) /\ sky.sunrise \in Int /\ Steady(sky.zone, margin)
      /\ AwayFromMidnight(sky.zone, sky.sunrise, margin) /\ LunarSky(sky)
  BY <1>1 DEF OrderlySkies, Orderly, LunarSkies
<1>3. CivilDay(sky.zone, date + ((sky.sunrise - date) % Day)) = listed
  BY <1>1, <1>2, EventOnItsDate
<1>4. \E k \in Int : date + ((sky.sunrise - date) % Day) = sky.sunrise + Day * k
  BY <1>1, <1>2, EventAfter
<1>5. d.rise = date + ((sky.sunrise - date) % Day)
  BY TodayFacts
<1> QED
  BY <1>1, <1>2, <1>3, <1>4, <1>5, RiseInSpan, MonthTodayIsTrue

LEMMA NextWalkInv ==
  ASSUME NEW margin \in Nat, margin < Day, OrderlySkies(margin), LunarSkies,
         DateInv(margin), LunarInv, WalkInv, [Next]_vars
  PROVE  WalkInv'
<1>1. CASE ScanDay
  <2>1. AtDay /\ sky' = sky /\ result' = "scanning" /\ listed' = listed + 1 /\ listed \in Nat
    BY <1>1 DEF ScanDay, AtDay, DateInv
  <2>2. PICK d \in Today : \E moon \in MonthToday(d.rise) : lunar' = moon
    BY <1>1 DEF ScanDay
  <2>3. lunar' \in MonthToday(d.rise)
    BY <2>2
  <2>4. /\ InSpan(d.rise) /\ lunar' = TrueMonth(d.rise) /\ CivilDay(sky.zone, d.rise) = listed
        /\ \E k \in Int : d.rise = sky.sunrise + Day * k
    BY <2>1, <2>2, <2>3, RiseOfToday
  <2>5. \A t : TrueMonth(t)' = TrueMonth(t)
    BY <2>1 DEF TrueMonth, LastMoon, MoonAfter, Ordinal
  <2>6. listed' - 1 = listed
    BY <2>1
  <2> QED
    BY <2>1, <2>4, <2>5, <2>6 DEF WalkInv
<1>2. CASE DayFails \/ Ended
  BY <1>2 DEF DayFails, Ended, Fail, WalkInv
<1>3. CASE Begin
  BY <1>3 DEF Begin, DateInv, WalkInv
<1>4. CASE NextMonth \/ UNCHANGED vars
  <2>1. sky' = sky /\ lunar' = lunar /\ listed' = listed /\ (result' = "scanning" => result = "scanning")
    BY <1>4 DEF NextMonth, vars
  <2>2. \A t : TrueMonth(t)' = TrueMonth(t)
    BY <2>1 DEF TrueMonth, LastMoon, MoonAfter, Ordinal
  <2> QED
    BY <2>1, <2>2 DEF WalkInv
<1> QED
  BY <1>1, <1>2, <1>3, <1>4 DEF Next

\* The samvat changes with Chaitra and with no other month, although it is counted
\* back by mean months from a month found days and sessions before
\* (calendar.go:180-182).
THEOREM SamvatsTurn ==
  ASSUME NEW margin \in Nat, margin < Day, OrderlySkies(margin), LunarSkies, SolarSkies
  PROVE  Spec => SamvatTurns
<1> DEFINE Turns ==
      result' = "scanning" /\ listed > 0 /\ lunar' # lunar =>
        Samvat(lunar') - Samvat(lunar) = IF lunar'.index < lunar.index THEN 1 ELSE 0
<1>1. Init => DateInv(margin) /\ LunarInv /\ WalkInv
  <2>1. Init => WalkInv
    BY DEF Init, WalkInv
  <2> QED
    BY <2>1, InitInvs
<1>2. DateInv(margin) /\ LunarInv /\ WalkInv /\ [Next]_vars => DateInv(margin)' /\ LunarInv' /\ WalkInv'
  BY NextDateInv, NextLunarInv, NextWalkInv
<1>3. DateInv(margin) /\ LunarInv /\ WalkInv /\ [Next]_vars => [Turns]_vars
  <2> SUFFICES ASSUME DateInv(margin), LunarInv, WalkInv, [Next]_vars,
                      result' = "scanning", listed > 0, lunar' # lunar
               PROVE  Samvat(lunar') - Samvat(lunar) = IF lunar'.index < lunar.index THEN 1 ELSE 0
    OBVIOUS
  <2>1. ScanDay
    BY DEF Next, vars, Begin, NextMonth, DayFails, Ended, Fail
  <2>2. AtDay /\ result = "scanning" /\ listed \in Nat
    BY <2>1 DEF ScanDay, AtDay, DateInv
  <2>3. PICK d \in Today : lunar' \in MonthToday(d.rise)
    BY <2>1 DEF ScanDay
  <2>4. /\ Accepted(sky) /\ sky \in Skies /\ Orderly(sky, margin) /\ LunarSky(sky)
        /\ InSpan(d.rise) /\ lunar' = TrueMonth(d.rise) /\ CivilDay(sky.zone, d.rise) = listed
        /\ \E k \in Int : d.rise = sky.sunrise + Day * k
    BY <2>2, <2>3, RiseOfToday
  <2>5. PICK t : /\ InSpan(t) /\ lunar = TrueMonth(t) /\ CivilDay(sky.zone, t) = listed - 1
                 /\ \E k \in Int : t = sky.sunrise + Day * k
    BY <2>2 DEF WalkInv
  <2>6. /\ Synodic \in Nat /\ Synodic >= 3 * Bracket /\ SolarSky(sky) /\ Bounded(sky.zone)
        /\ Steady(sky.zone, margin) /\ sky.sunrise \in Int
    BY <2>4 DEF LunarSkies, SolarSkies, Orderly
  <2>7. t < d.rise /\ d.rise < t + 4 * Day
    <3>1. CivilDay(sky.zone, d.rise) = CivilDay(sky.zone, t) + 1
      BY <2>2, <2>4, <2>5
    <3>2. PICK j \in Int : t = sky.sunrise + Day * j
      BY <2>5
    <3>3. PICK k \in Int : d.rise = sky.sunrise + Day * k
      BY <2>4
    <3> QED
      BY <2>6, <3>1, <3>2, <3>3, SunrisesMoveOn
  <2> DEFINE o == Ordinal(LastMoon(t))
             v == Ordinal(LastMoon(d.rise))
  <2>8. o <= v /\ v < o + 12
    BY <2>4, <2>5, <2>6, <2>7, MonthsMoveOn
  <2>9. /\ o \in -1..22 /\ lunar.index = (IF o < 11 THEN o + 1 ELSE o - 11)
        /\ Samvat(lunar) = IF o < 11 THEN -1 ELSE 0
    BY <2>4, <2>5, <2>6, SamvatOfMonth
  <2>10. /\ v \in -1..22 /\ lunar'.index = (IF v < 11 THEN v + 1 ELSE v - 11)
         /\ Samvat(lunar') = IF v < 11 THEN -1 ELSE 0
    BY <2>4, <2>6, SamvatOfMonth
  <2> HIDE DEF o, v
  <2> QED
    BY <2>8, <2>9, <2>10
<1> QED
  BY <1>1, <1>2, <1>3, PTL DEF Spec, SamvatTurns

-----------------------------------------------------------------------------
(* The months of the Sun.                                                  *)

\* Dates begin at a midnight that clocks show, from weeks before the year to weeks
\* after it.
NoMidnightLeftOut(zone) == \A d \in -40..(YearLength + 40) : Wall(zone, Midnight(zone, d)) = d * Day

\* The Sun is above the horizon for a part of the day, in a sign for 29 to 32 days,
\* and in the sky that is given for a sign before and two after every sunrise.
SunSky(s) ==
  /\ s.sunrise \in -Day..Day /\ s.daytime \in 0..(Day - 1)
  /\ s.horizon \in Int /\ s.polar \in Int
  /\ NoMidnightLeftOut(s.zone)
  /\ \A k \in DOMAIN s.ingresses : k + 1 \in DOMAIN s.ingresses =>
       /\ 29 * Day <= s.ingresses[k + 1] - s.ingresses[k]
       /\ s.ingresses[k + 1] - s.ingresses[k] <= 32 * Day
  /\ \A t : InSpan(t) =>
       \E k \in DOMAIN s.ingresses : /\ {k - 1, k + 1, k + 2} \subseteq DOMAIN s.ingresses
                                     /\ s.ingresses[k] <= t /\ t < s.ingresses[k + 1]

SunSkies == \A s \in Skies : Accepted(s) => SunSky(s)

\* The ordinal is that of the sign whose two ingresses are around the instant.
LEMMA OrdinalBetween ==
  ASSUME LunarSky(sky), NEW k \in DOMAIN sky.ingresses, k + 1 \in DOMAIN sky.ingresses,
         NEW t \in Int, sky.ingresses[k] <= t, t < sky.ingresses[k + 1]
  PROVE  Ordinal(t) = k
<1>1. PICK lo, hi \in Int : DOMAIN sky.ingresses = lo..hi
  BY DEF LunarSky
<1>2. /\ Ordinal(t) \in DOMAIN sky.ingresses /\ Ordinal(t) \in Int /\ sky.ingresses[Ordinal(t)] <= t
      /\ \A j \in DOMAIN sky.ingresses : sky.ingresses[j] <= t => j <= Ordinal(t)
  BY OrdinalIsLast
<1>3. \A j \in DOMAIN sky.ingresses : j \in Int /\ sky.ingresses[j] \in Int
  BY <1>1 DEF LunarSky
<1>4. k <= Ordinal(t)
  BY <1>2
<1>5. ASSUME k < Ordinal(t) PROVE FALSE
  <2>1. k + 1 < Ordinal(t) => sky.ingresses[k + 1] < sky.ingresses[Ordinal(t)]
    BY <1>2 DEF LunarSky
  <2>2. k + 1 = Ordinal(t) \/ k + 1 < Ordinal(t)
    BY <1>2, <1>3, <1>5
  <2>3. sky.ingresses[k + 1] \in Int /\ sky.ingresses[Ordinal(t)] \in Int
    BY <1>2, <1>3
  <2> QED
    BY <1>2, <2>1, <2>2, <2>3
<1> QED
  BY <1>2, <1>3, <1>4, <1>5

\* The signs around an instant of the year.
LEMMA SignsAround ==
  ASSUME LunarSky(sky), SunSky(sky), NEW t, InSpan(t)
  PROVE  LET o == Ordinal(t)
             g == sky.ingresses
         IN /\ o \in Int /\ {o - 1, o, o + 1, o + 2} \subseteq DOMAIN g
            /\ g[o - 1] \in Int /\ g[o] \in Int /\ g[o + 1] \in Int /\ g[o + 2] \in Int
            /\ g[o] <= t /\ t < g[o + 1]
            /\ 29 * Day <= g[o] - g[o - 1] /\ 29 * Day <= g[o + 2] - g[o + 1]
            /\ 29 * Day <= g[o + 1] - g[o] /\ g[o + 1] - g[o] <= 32 * Day
<1> DEFINE g == sky.ingresses
<1>1. PICK k \in DOMAIN g : {k - 1, k + 1, k + 2} \subseteq DOMAIN g /\ g[k] <= t /\ t < g[k + 1]
  BY DEF SunSky
<1>2. \A j \in DOMAIN g : j \in Int /\ g[j] \in Int
  <2>1. PICK lo, hi \in Int : DOMAIN g = lo..hi
    BY DEF LunarSky
  <2> QED
    BY <2>1 DEF LunarSky
<1>3. Ordinal(t) = k
  <2>1. t \in Int
    BY DEF InSpan
  <2> QED
    BY <1>1, <2>1, OrdinalBetween
<1>4. \A j \in DOMAIN g : j + 1 \in DOMAIN g => 29 * Day <= g[j + 1] - g[j] /\ g[j + 1] - g[j] <= 32 * Day
  BY DEF SunSky
<1>5. k \in Int /\ k - 1 \in DOMAIN g /\ k + 1 \in DOMAIN g /\ k + 2 \in DOMAIN g
  BY <1>1, <1>2
<1>6. (k - 1) + 1 = k /\ (k + 1) + 1 = k + 2
  BY <1>5
<1>7. /\ 29 * Day <= g[k] - g[k - 1] /\ 29 * Day <= g[k + 2] - g[k + 1]
      /\ 29 * Day <= g[k + 1] - g[k] /\ g[k + 1] - g[k] <= 32 * Day
  <2>1. 29 * Day <= g[(k - 1) + 1] - g[k - 1]
    BY <1>4, <1>5, <1>6
  <2>2. 29 * Day <= g[(k + 1) + 1] - g[k + 1]
    BY <1>4, <1>5, <1>6
  <2>3. 29 * Day <= g[k + 1] - g[k] /\ g[k + 1] - g[k] <= 32 * Day
    BY <1>4, <1>5
  <2> QED
    BY <1>6, <2>1, <2>2, <2>3
<1> QED
  BY <1>1, <1>2, <1>3, <1>5, <1>7

\* Ingresses of other signs are a sign away.
LEMMA OtherSigns ==
  ASSUME LunarSky(sky), SunSky(sky), NEW t, InSpan(t), NEW k \in DOMAIN sky.ingresses,
         t - 29 * Day < sky.ingresses[k], sky.ingresses[k] < t + 29 * Day
  PROVE  k \in {Ordinal(t), Ordinal(t) + 1}
<1> DEFINE o == Ordinal(t)
           g == sky.ingresses
<1>1. /\ o \in Int /\ {o - 1, o, o + 1, o + 2} \subseteq DOMAIN g
      /\ g[o - 1] \in Int /\ g[o] \in Int /\ g[o + 1] \in Int /\ g[o + 2] \in Int
      /\ g[o] <= t /\ t < g[o + 1]
      /\ 29 * Day <= g[o] - g[o - 1] /\ 29 * Day <= g[o + 2] - g[o + 1]
  BY SignsAround
<1> HIDE DEF o
<1>2. k \in Int /\ g[k] \in Int /\ t \in Int /\ Day \in Int
  <2>1. PICK lo, hi \in Int : DOMAIN g = lo..hi
    BY DEF LunarSky
  <2> QED
    BY <2>1, DayAssumption DEF LunarSky, InSpan
<1>3. ~(k < o)
  <2>1. k < o - 1 => g[k] < g[o - 1]
    BY <1>1 DEF LunarSky
  <2>2. k < o => k < o - 1 \/ k = o - 1
    BY <1>1, <1>2
  <2> QED
    BY <1>1, <1>2, <2>1, <2>2
<1>4. ~(o + 1 < k)
  <2>1. o + 2 < k => g[o + 2] < g[k]
    BY <1>1 DEF LunarSky
  <2>2. o + 1 < k => o + 2 < k \/ k = o + 2
    BY <1>1, <1>2
  <2> QED
    BY <1>1, <1>2, <2>1, <2>2
<1> QED
  BY <1>1, <1>2, <1>3, <1>4 DEF o

-----------------------------------------------------------------------------
(* The search at the mean rate.                                            *)

\* How far into a sign of that length the Sun is x after its ingress, in hundredths
\* of a degree, and the time it needs for a way at its mean rate.
Passed(x, len) == (x * 3000) \div len
AtMeanRate(way) == (way * Day * 100) \div 9856

\* The mean rate takes the Sun from there to the ingress before and to the one after
\* it with an error of less than two days, as far as the search looks.
LEMMA MeanRate ==
  ASSUME NEW len \in Nat, 29 * Day <= len, len <= 32 * Day, NEW x \in Nat, x < len,
         NEW f, f = Passed(x, len), NEW back, back = AtMeanRate(-f), NEW on, on = AtMeanRate(3000 - f)
  PROVE  /\ f \in Int /\ 0 <= f /\ f < 3000
         /\ f <= 2400 => back \in Int /\ -(2 * Day) <= x + back /\ x + back <= 2 * Day /\ back <= 0
         /\ f >= 600 => /\ on \in Int /\ -(2 * Day) <= on - (len - x) /\ on - (len - x) <= 2 * Day
                        /\ on <= 25 * Day
         /\ f > 2400 => 23 * Day <= x
         /\ f < 600 => 23 * Day <= len - x
         /\ x <= 5 * Day => f <= 2400
         /\ len - x <= 5 * Day => f >= 600
<1>1. Day \in Nat \ {0} /\ len \in Nat \ {0}
  BY DayAssumption
<1> DEFINE r == (x * 3000) % len
<1>2. f \in Int /\ r \in Int /\ 0 <= r /\ r < len /\ x * 3000 = len * f + r
  BY <1>1, Division DEF Passed
<1> HIDE DEF r
<1>3. 0 <= f /\ f < 3000
  <2>1. f < 0 => len * f <= -len
    BY <1>1, <1>2
  <2>2. f >= 3000 => len * f >= len * 3000
    BY <1>1, <1>2
  <2> QED
    BY <1>1, <1>2, <2>1, <2>2
<1> DEFINE y == f * Day
           z == len * f
<1>4. /\ y \in Int /\ z \in Int /\ 29 * y <= z /\ z <= 32 * y
      /\ 29 * (3000 * Day - y) <= 3000 * len - z /\ 3000 * len - z <= 32 * (3000 * Day - y)
  <2>1. f \in Nat /\ y \in Int /\ z \in Int
    BY <1>1, <1>2, <1>3
  <2>2. \A a, b \in Int : a <= b => f * a <= f * b
    BY <2>1
  <2>3. f * (29 * Day) <= f * len /\ f * len <= f * (32 * Day)
    BY <1>1, <2>2
  <2>4. f * (29 * Day) = 29 * y /\ f * (32 * Day) = 32 * y /\ f * len = z
    BY <1>1, <2>1
  <2>5. 3000 - f \in Nat
    BY <1>2, <1>3
  <2>6. \A a, b \in Int : a <= b => (3000 - f) * a <= (3000 - f) * b
    <3> DEFINE e == 3000 - f
    <3> HIDE DEF e
    <3>1. \A a, b \in Int : a <= b => e * a <= e * b
      BY <2>5 DEF e
    <3> QED
      BY <3>1 DEF e
  <2>7. (3000 - f) * (29 * Day) <= (3000 - f) * len /\ (3000 - f) * len <= (3000 - f) * (32 * Day)
    BY <1>1, <2>6
  <2>8. /\ (3000 - f) * (29 * Day) = 29 * (3000 * Day - y) /\ (3000 - f) * (32 * Day) = 32 * (3000 * Day - y)
        /\ (3000 - f) * len = 3000 * len - z
    BY <1>1, <2>1
  <2> QED
    BY <2>1, <2>3, <2>4, <2>7, <2>8
<1>5. /\ f <= 2400 => y <= 2400 * Day
      /\ f > 2400 => y >= 2401 * Day
      /\ f >= 600 => y >= 600 * Day
      /\ f < 600 => y <= 599 * Day
      /\ 0 <= y /\ y < 3000 * Day
  <2>1. \A a, b \in Int : a <= b => a * Day <= b * Day
    BY <1>1
  <2>2. f <= 2400 => y <= 2400 * Day
    BY <1>2, <2>1
  <2>3. f > 2400 => y >= 2401 * Day
    <3>1. f > 2400 => 2401 <= f
      BY <1>2
    <3> QED
      BY <1>2, <2>1, <3>1
  <2>4. f >= 600 => y >= 600 * Day
    BY <1>2, <2>1
  <2>5. f < 600 => y <= 599 * Day
    <3>1. f < 600 => f <= 599
      BY <1>2
    <3> QED
      BY <1>2, <2>1, <3>1
  <2>6. 0 <= y /\ y < 3000 * Day
    BY <1>1, <1>2, <1>3
  <2> QED
    BY <2>2, <2>3, <2>4, <2>5, <2>6
<1>6. (-f) * Day * 100 = -(100 * y) /\ (3000 - f) * Day * 100 = 300000 * Day - 100 * y
  BY <1>1, <1>2
<1>7. 3000 * x = z + r
  BY <1>2
<1>8. /\ back = (-(100 * y)) \div 9856
      /\ on = (300000 * Day - 100 * y) \div 9856
  BY <1>6 DEF AtMeanRate
<1> HIDE DEF y, z
<1>15. /\ back \in Int /\ 9856 * back <= -(100 * y) /\ -(100 * y) < 9856 * back + 9856
       /\ on \in Int /\ 9856 * on <= 300000 * Day - 100 * y /\ 300000 * Day - 100 * y < 9856 * on + 9856
  BY <1>1, <1>4, <1>8
<1>9. f <= 2400 => -(2 * Day) <= x + back /\ x + back <= 2 * Day
  BY <1>1, <1>2, <1>4, <1>5, <1>7, <1>15
<1>10. f >= 600 => -(2 * Day) <= on - (len - x) /\ on - (len - x) <= 2 * Day
  BY <1>1, <1>2, <1>4, <1>5, <1>7, <1>15
<1>12. back <= 0 /\ (f >= 600 => on <= 25 * Day)
  BY <1>1, <1>2, <1>4, <1>5, <1>15
<1>11. /\ f > 2400 => 23 * Day <= x
       /\ f < 600 => 23 * Day <= len - x
       /\ x <= 5 * Day => f <= 2400
       /\ len - x <= 5 * Day => f >= 600
  BY <1>1, <1>2, <1>4, <1>5, <1>7
<1> QED
  BY <1>2, <1>3, <1>9, <1>10, <1>11, <1>12, <1>15

\* The way of the Sun from an instant to an ingress, whether the search looks for
\* it from there, and where the mean rate puts it.
Ahead(t, k) == 3000 * k - SunLongitude(t)
InReach(t, k) == Ahead(t, k) \in -2400..2400
Estimate(t, k) == t + AtMeanRate(Ahead(t, k))

\* The longitude is that of the ingress and less than a sign more.
LEMMA LongitudeInSign ==
  ASSUME LunarSky(sky), SunSky(sky), NEW t, InSpan(t)
  PROVE  \E f \in Int : 0 <= f /\ f < 3000 /\ SunLongitude(t) = 3000 * Ordinal(t) + f
<1> DEFINE o == Ordinal(t)
           g == sky.ingresses
           len == g[o + 1] - g[o]
           x == t - g[o]
           f == Passed(x, len)
<1>1. /\ o \in Int /\ g[o] \in Int /\ g[o + 1] \in Int /\ g[o] <= t /\ t < g[o + 1]
      /\ 29 * Day <= len /\ len <= 32 * Day
  BY SignsAround
<1>2. t \in Int /\ Day \in Nat \ {0}
  BY DayAssumption DEF InSpan
<1>3. SunLongitude(t) = 3000 * o + f
  BY DEF SunLongitude, Passed
<1> HIDE DEF o
<1>4. len \in Nat /\ x \in Nat /\ x < len
  BY <1>1, <1>2
<1>5. f = Passed(x, len)
  OBVIOUS
<1> HIDE DEF f
<1> DEFINE back == AtMeanRate(-f)
           on == AtMeanRate(3000 - f)
<1>6. f \in Int /\ 0 <= f /\ f < 3000
  <2>1. 29 * Day <= len /\ len <= 32 * Day /\ back = AtMeanRate(-f) /\ on = AtMeanRate(3000 - f)
    BY <1>1
  <2> HIDE DEF len, x, back, on
  <2> QED
    BY <1>4, <1>5, <2>1, MeanRate
<1> QED
  BY <1>3, <1>6 DEF o

\* The estimate of an ingress that is looked for is within two days of it; one that
\* is not looked for is weeks away.
LEMMA EstimateIsNear ==
  ASSUME LunarSky(sky), SunSky(sky), NEW t, InSpan(t), NEW k \in {Ordinal(t), Ordinal(t) + 1}
  PROVE  LET at == sky.ingresses[k]
         IN /\ InReach(t, k) => /\ Estimate(t, k) \in Int /\ Estimate(t, k) <= t + 25 * Day
                                /\ at - 2 * Day <= Estimate(t, k) /\ Estimate(t, k) <= at + 2 * Day
            /\ ~InReach(t, k) => IF k = Ordinal(t) THEN at + 23 * Day <= t ELSE t + 23 * Day <= at
            /\ t - 5 * Day <= at /\ at <= t + 5 * Day => InReach(t, k)
<1> DEFINE o == Ordinal(t)
           g == sky.ingresses
           len == g[o + 1] - g[o]
           x == t - g[o]
           f == Passed(x, len)
           back == AtMeanRate(-f)
           on == AtMeanRate(3000 - f)
<1>1. /\ o \in Int /\ g[o] \in Int /\ g[o + 1] \in Int /\ g[o] <= t /\ t < g[o + 1]
      /\ 29 * Day <= len /\ len <= 32 * Day
  BY SignsAround
<1>2. t \in Int /\ Day \in Nat \ {0}
  BY DayAssumption DEF InSpan
<1>3. SunLongitude(t) = 3000 * o + f
  BY DEF SunLongitude, Passed
<1>10. k = o \/ k = o + 1
  OBVIOUS
<1>4. len \in Nat /\ x \in Nat /\ x < len
  BY <1>1, <1>2
<1> HIDE DEF o
<1>9. f = Passed(x, len) /\ back = AtMeanRate(-f) /\ on = AtMeanRate(3000 - f)
  OBVIOUS
<1> HIDE DEF f, back, on
<1>5. /\ f \in Int /\ 0 <= f /\ f < 3000
      /\ f <= 2400 => back \in Int /\ -(2 * Day) <= x + back /\ x + back <= 2 * Day /\ back <= 0
      /\ f >= 600 => /\ on \in Int /\ -(2 * Day) <= on - (len - x) /\ on - (len - x) <= 2 * Day
                     /\ on <= 25 * Day
      /\ f > 2400 => 23 * Day <= x
      /\ f < 600 => 23 * Day <= len - x
      /\ x <= 5 * Day => f <= 2400
      /\ len - x <= 5 * Day => f >= 600
  <2> HIDE DEF len, x
  <2> QED
    BY <1>1, <1>4, <1>9, MeanRate
<1>6. f \in Int /\ 0 <= f /\ f < 3000
  BY <1>5
<1>7. CASE k = o
  <2>1. Ahead(t, k) = -f
    BY <1>1, <1>3, <1>6, <1>7 DEF Ahead
  <2>2. Estimate(t, k) = t + back
    BY <1>9, <2>1 DEF Estimate
  <2>7. Ahead(t, k) \in Int
    BY <1>6, <2>1
  <2>3. (InReach(t, k) => f <= 2400) /\ (f <= 2400 => InReach(t, k))
    <3>1. ASSUME InReach(t, k) PROVE f <= 2400
      BY <1>6, <2>1, <2>7, <3>1 DEF InReach
    <3>2. ASSUME f <= 2400 PROVE InReach(t, k)
      BY <1>6, <2>1, <2>7, <3>2 DEF InReach
    <3> QED
      BY <3>1, <3>2
  <2>4. InReach(t, k) => /\ Estimate(t, k) \in Int /\ Estimate(t, k) <= t + 25 * Day
                         /\ g[k] - 2 * Day <= Estimate(t, k) /\ Estimate(t, k) <= g[k] + 2 * Day
    BY <1>1, <1>2, <1>5, <1>7, <2>2, <2>3
  <2>5. ~InReach(t, k) => g[k] + 23 * Day <= t
    BY <1>1, <1>2, <1>5, <1>6, <1>7, <2>3
  <2>6. t - 5 * Day <= g[k] => InReach(t, k)
    BY <1>1, <1>2, <1>5, <1>7, <2>3
  <2> QED
    BY <1>7, <2>4, <2>5, <2>6 DEF o
<1>8. CASE k = o + 1
  <2>1. Ahead(t, k) = 3000 - f
    BY <1>1, <1>3, <1>6, <1>8 DEF Ahead
  <2>2. Estimate(t, k) = t + on
    BY <1>9, <2>1 DEF Estimate
  <2>8. Ahead(t, k) \in Int
    BY <1>6, <2>1
  <2>3. (InReach(t, k) => f >= 600) /\ (f >= 600 => InReach(t, k))
    <3>1. ASSUME InReach(t, k) PROVE f >= 600
      BY <1>6, <2>1, <2>8, <3>1 DEF InReach
    <3>2. ASSUME f >= 600 PROVE InReach(t, k)
      BY <1>6, <2>1, <2>8, <3>2 DEF InReach
    <3> QED
      BY <3>1, <3>2
  <2>4. InReach(t, k) => /\ Estimate(t, k) \in Int /\ Estimate(t, k) <= t + 25 * Day
                         /\ g[k] - 2 * Day <= Estimate(t, k) /\ Estimate(t, k) <= g[k] + 2 * Day
    BY <1>1, <1>2, <1>5, <1>8, <2>2, <2>3
  <2>5. ~InReach(t, k) => t + 23 * Day <= g[k]
    BY <1>1, <1>2, <1>5, <1>6, <1>8, <2>3
  <2>6. g[k] <= t + 5 * Day => InReach(t, k)
    BY <1>1, <1>2, <1>5, <1>8, <2>3
  <2>7. k # o
    BY <1>1, <1>8
  <2> QED
    BY <1>8, <2>4, <2>5, <2>6, <2>7 DEF o
<1> QED
  BY <1>7, <1>8, <1>10

\* The brackets of an estimate are in the signs before and after the ingress.
LEMMA BracketsOfEstimate ==
  ASSUME LunarSky(sky), SunSky(sky), NEW t, InSpan(t), NEW k \in {Ordinal(t), Ordinal(t) + 1}, InReach(t, k)
  PROVE  Ordinal(Estimate(t, k) - Bracket) = k - 1 /\ Ordinal(Estimate(t, k) + Bracket) = k
<1> DEFINE g == sky.ingresses
           o == Ordinal(t)
           e == Estimate(t, k)
<1>1. /\ o \in Int /\ {o - 1, o, o + 1, o + 2} \subseteq DOMAIN g
      /\ g[o - 1] \in Int /\ g[o] \in Int /\ g[o + 1] \in Int /\ g[o + 2] \in Int
      /\ 29 * Day <= g[o] - g[o - 1] /\ 29 * Day <= g[o + 2] - g[o + 1]
      /\ 29 * Day <= g[o + 1] - g[o]
  BY SignsAround
<1>2. e \in Int /\ g[k] - 2 * Day <= e /\ e <= g[k] + 2 * Day
  BY EstimateIsNear
<1>3. Day \in Nat \ {0} /\ Bracket = 3 * Day
  BY DayAssumption DEF Bracket
<1> HIDE DEF o, e
<1>4. /\ k \in DOMAIN g /\ k - 1 \in DOMAIN g /\ k + 1 \in DOMAIN g /\ k \in Int /\ (k - 1) + 1 = k
      /\ g[k] \in Int /\ g[k - 1] \in Int /\ g[k + 1] \in Int
      /\ 29 * Day <= g[k] - g[k - 1] /\ 29 * Day <= g[k + 1] - g[k]
  <2>1. CASE k = o
    <3>1. k - 1 = o - 1 /\ k + 1 = o + 1 /\ k \in Int /\ (k - 1) + 1 = k
      BY <1>1, <2>1
    <3> QED
      BY <1>1, <2>1, <3>1
  <2>2. CASE k = o + 1
    <3>1. k - 1 = o /\ k + 1 = o + 2
      BY <1>1, <2>2
    <3> QED
      BY <1>1, <2>2, <3>1
  <2> QED
    BY <2>1, <2>2 DEF o
<1>5. e - Bracket \in Int /\ g[k - 1] <= e - Bracket /\ e - Bracket < g[k]
  BY <1>2, <1>3, <1>4
<1>6. e + Bracket \in Int /\ g[k] <= e + Bracket /\ e + Bracket < g[k + 1]
  BY <1>2, <1>3, <1>4
<1>7. Ordinal(e - Bracket) = k - 1
  BY <1>4, <1>5, OrdinalBetween
<1>8. Ordinal(e + Bracket) = k
  BY <1>4, <1>6, OrdinalBetween
<1> QED
  BY <1>7, <1>8 DEF e

\* The search from a sunrise for the sign of an ingress around it finds that
\* ingress, if it is in reach and known.
LEMMA SearchFinds ==
  ASSUME LunarSky(sky), SunSky(sky), NEW t, InSpan(t), NEW k \in {Ordinal(t), Ordinal(t) + 1}, NEW rule
  PROVE  SolarStart(t, k % 12, rule) =
           IF InReach(t, k) /\ Known(t) /\ Known(Estimate(t, k) + Bracket)
           THEN StartDate(sky.ingresses[k], rule) ELSE {}
<1> DEFINE o == Ordinal(t)
           sign == k % 12
           delta == ((3000 * sign - SunLongitude(t) + 54000) % 36000) - 18000
           guess == t + (delta * Day * 100) \div 9856
           lo == guess - Bracket
           hi == guess + Bracket
<1>1. SolarStart(t, sign, rule) =
        IF /\ Known(t) /\ delta \in -2400..2400
           /\ SunSign(lo) = {(sign + 11) % 12} /\ SunSign(hi) = {sign}
        THEN StartDate(sky.ingresses[Ordinal(hi)], rule)
        ELSE {}
  BY DEF SolarStart
<1>2. o \in Int
  BY SignsAround
<1>3. PICK f \in Int : 0 <= f /\ f < 3000 /\ SunLongitude(t) = 3000 * o + f
  BY LongitudeInSign
<1>4. delta = Ahead(t, k)
  <2> HIDE DEF o
  <2>1. k = o \/ k = o + 1
    BY DEF o
  <2>2. k \in Int /\ sign \in Int /\ k = 12 * (k \div 12) + sign /\ k \div 12 \in Int
    BY <1>2, <2>1
  <2> DEFINE q == k \div 12
  <2> HIDE DEF q, sign
  <2>3. 3000 * sign - SunLongitude(t) + 54000 = (3000 * (k - o) - f + 18000) + 36000 * (1 - q)
    BY <1>2, <1>3, <2>2 DEF q
  <2>4. (3000 * sign - SunLongitude(t) + 54000) % 36000 = 3000 * (k - o) - f + 18000
    <3> DEFINE a == 3000 * (k - o) - f + 18000
               c == 1 - q
    <3>1. a \in Int /\ 0 <= a /\ a < 36000 /\ c \in Int
      BY <1>2, <1>3, <2>1, <2>2 DEF q
    <3> HIDE DEF a, c
    <3>2. (a + 36000 * c) % 36000 = a
      BY <3>1
    <3> QED
      BY <2>3, <3>2 DEF a, c
  <2> QED
    BY <1>2, <1>3, <2>2, <2>4 DEF Ahead
<1>5. guess = Estimate(t, k)
  BY <1>4 DEF Estimate, AtMeanRate
<1>6. (delta \in -2400..2400 => InReach(t, k)) /\ (InReach(t, k) => delta \in -2400..2400)
  <2> HIDE DEF delta
  <2> QED
    BY <1>4 DEF InReach
<1> HIDE DEF delta, guess
<1>7. CASE ~InReach(t, k)
  BY <1>1, <1>6, <1>7
<1>8. CASE InReach(t, k)
  <2>1. Ordinal(lo) = k - 1 /\ Ordinal(hi) = k
    BY <1>5, <1>8, BracketsOfEstimate
  <2>2. guess \in Int /\ Bracket \in Nat /\ sky.horizon \in Int
    <3>1. guess \in Int
      BY <1>5, <1>8, EstimateIsNear
    <3> QED
      BY <3>1, DayAssumption DEF Bracket, SunSky
  <2>3. Known(hi) => Known(lo)
    BY <2>2 DEF Known
  <2>4. (sign + 11) % 12 = (k - 1) % 12
    <3>1. k \in Int
      BY <1>2 
    <3> QED
      BY <3>1
  <2>5. Known(hi) => SunSign(lo) = {(sign + 11) % 12} /\ SunSign(hi) = {sign}
    BY <2>1, <2>3, <2>4 DEF SunSign
  <2>6. ~Known(hi) => SunSign(hi) # {sign}
    BY DEF SunSign
  <2> HIDE DEF sign, lo, hi
  <2>7. SolarStart(t, sign, rule) =
          IF Known(t) /\ Known(hi) THEN StartDate(sky.ingresses[k], rule) ELSE {}
    BY <1>1, <1>6, <1>8, <2>1, <2>5, <2>6
  <2> QED
    BY <1>5, <1>8, <2>7 DEF sign, hi
<1> QED
  BY <1>7, <1>8

\* It looks for no ingress that is out of reach.
Turn(t, sign) == ((3000 * sign - SunLongitude(t) + 54000) % 36000) - 18000
LEMMA SearchLooks ==
  ASSUME NEW t, NEW sign, NEW rule, SolarStart(t, sign, rule) # {}
  PROVE  Turn(t, sign) \in Int /\ -2400 <= Turn(t, sign) /\ Turn(t, sign) <= 2400
<1> DEFINE delta == ((3000 * sign - SunLongitude(t) + 54000) % 36000) - 18000
           guess == t + (delta * Day * 100) \div 9856
           lo == guess - Bracket
           hi == guess + Bracket
           found == SolarStart(t, sign, rule)
<1> HIDE DEF found
<1>1. found =
        IF /\ Known(t) /\ delta \in -2400..2400
           /\ SunSign(lo) = {(sign + 11) % 12} /\ SunSign(hi) = {sign}
        THEN StartDate(sky.ingresses[Ordinal(hi)], rule)
        ELSE {}
  BY DEF SolarStart, found
<1>2. delta = Turn(t, sign)
  BY DEF Turn
<1> HIDE DEF delta, guess, lo, hi
<1>3. found # {}
  BY DEF found
<1>4. delta \in -2400..2400
  BY <1>1, <1>3, SMT
<1>5. delta \in Int /\ -2400 <= delta /\ delta <= 2400
  BY <1>4
<1> QED
  BY <1>2, <1>5

\* For every other sign it finds nothing.
LEMMA SearchFindsNoOther ==
  ASSUME LunarSky(sky), SunSky(sky), NEW t, InSpan(t), NEW sign \in 0..11, NEW rule, SolarStart(t, sign, rule) # {}
  PROVE  \E k \in {Ordinal(t), Ordinal(t) + 1} : sign = k % 12
<1> DEFINE o == Ordinal(t)
<1> DEFINE delta == Turn(t, sign)
<1>1. delta \in Int /\ -2400 <= delta /\ delta <= 2400
  BY SearchLooks
<1>2. o \in Int
  BY SignsAround
<1>3. PICK f \in Int : 0 <= f /\ f < 3000 /\ SunLongitude(t) = 3000 * o + f
  BY LongitudeInSign
<1> HIDE DEF o
<1> DEFINE a == 3000 * sign - (3000 * o + f) + 54000
           q == a \div 36000
<1>4. a \in Int /\ q \in Int /\ a = 36000 * q + (a % 36000)
  BY <1>2, <1>3
<1>5. delta = (a % 36000) - 18000
  BY <1>3 DEF Turn
<1>6. a = 36000 * q + delta + 18000
  BY <1>1, <1>4, <1>5
<1> HIDE DEF q, delta
<1> DEFINE c == 1 - q
           p == sign + 12 * c - o
<1>7. c \in Int /\ p \in Int /\ (p = 0 \/ p = 1)
  <2>1. 3000 * p = delta + f
    BY <1>1, <1>2, <1>3, <1>4, <1>6
  <2>2. p \in Int /\ c \in Int
    BY <1>2, <1>4
  <2>3. f \in Int /\ 0 <= f /\ f <= 2999
    BY <1>3
  <2> HIDE DEF p, c
  <2> QED
    BY <1>1, <2>1, <2>2, <2>3
<1>9. sign = (o + p) + 12 * (-c)
  BY <1>2, <1>7
<1> HIDE DEF c, p
<1>10. \A u, v \in Int : u = sign + 12 * v => u % 12 = sign
  OBVIOUS
<1>8. sign = o % 12 \/ sign = (o + 1) % 12
  <2>1. o + p = sign + 12 * c
    BY <1>2, <1>7, <1>9
  <2>2. (o + p) % 12 = sign
    BY <1>2, <1>7, <1>10, <2>1
  <2> QED
    BY <1>2, <1>7, <2>2
<1> QED
  BY <1>8 DEF o

-----------------------------------------------------------------------------
(* Sunrises, and the days on which ingresses begin their months.           *)

\* A date around the year, and the day of the k-th ingress.
NearYear(d) == d \in Int /\ -40 <= d /\ d <= YearLength + 40
DayOfIngress(k) == CivilDay(sky.zone, sky.ingresses[k])

\* The midnights of the dates are in their order.
LEMMA DatesInOrder ==
  ASSUME NEW margin \in Nat, margin < Day, Orderly(sky, margin), SunSky(sky),
         NEW d, NEW e, NearYear(d), NearYear(e)
  PROVE  /\ Midnight(sky.zone, d) \in Int /\ Midnight(sky.zone, e) \in Int
         /\ d < e => Midnight(sky.zone, d) < Midnight(sky.zone, e)
         /\ e < d => Midnight(sky.zone, e) < Midnight(sky.zone, d)
<1>1. /\ Wall(sky.zone, Midnight(sky.zone, d)) = d * Day /\ Wall(sky.zone, Midnight(sky.zone, e)) = e * Day
      /\ d \in Int /\ e \in Int
  <2>1. d \in -40..(YearLength + 40) /\ e \in -40..(YearLength + 40)
    BY MonthsInYear DEF NearYear
  <2> QED
    BY <2>1 DEF SunSky, NoMidnightLeftOut, NearYear
<1>2. Bounded(sky.zone) /\ Steady(sky.zone, margin)
  BY DEF Orderly
<1>3. Midnight(sky.zone, d) \in Int /\ Midnight(sky.zone, e) \in Int
  <2>1. d * Day \in Int /\ e * Day \in Int
    BY <1>1, DayAssumption
  <2> QED
    BY <1>2, <2>1, InstantIsInt DEF Midnight
<1> QED
  BY <1>1, <1>2, <1>3, MidnightsInOrder

\* No date has two sunrises.
LEMMA OneSunrise ==
  ASSUME NEW margin \in Nat, margin < Day, Orderly(sky, margin),
         NEW j \in Int, NEW k \in Int, NEW r, NEW t, r = sky.sunrise + Day * j, t = sky.sunrise + Day * k,
         CivilDay(sky.zone, r) = CivilDay(sky.zone, t)
  PROVE  r = t
<1>1. /\ Bounded(sky.zone) /\ Steady(sky.zone, margin) /\ sky.sunrise \in Int
      /\ AwayFromMidnight(sky.zone, sky.sunrise, margin)
  BY DEF Orderly
<1>2. /\ j < k => Day * j + Day <= Day * k
      /\ k < j => Day * k + Day <= Day * j
  BY DaysApart
<1>3. Day * j \in Int /\ Day * k \in Int /\ r \in Int /\ t \in Int /\ Day \in Int
  BY <1>1, DayAssumption
<1>4. CivilDay(sky.zone, r) \in Int /\ CivilDay(sky.zone, t) \in Int
  BY <1>1, <1>3, WallOfDate
<1>5. ~(j < k)
  <2>1. j < k => CivilDay(sky.zone, r) < CivilDay(sky.zone, t)
    <3>1. j < k => r + Day <= t
      BY <1>1, <1>2, <1>3
    <3> QED
      BY <1>1, <1>3, <3>1, EventDates
  <2> QED
    BY <1>4, <2>1
<1>6. ~(k < j)
  <2>1. k < j => CivilDay(sky.zone, t) < CivilDay(sky.zone, r)
    <3>1. k < j => t + Day <= r
      BY <1>1, <1>2, <1>3
    <3> QED
      BY <1>1, <1>3, <3>1, EventDates
  <2> QED
    BY <1>4, <2>1
<1> QED
  BY <1>5, <1>6

\* The sunrise of a date is the first one after its midnight.
LEMMA SunriseOfDate ==
  ASSUME NEW margin \in Nat, margin < Day, Orderly(sky, margin), SunSky(sky), NEW d, NearYear(d)
  PROVE  /\ SunriseOf(d) \in Int /\ \E j \in Int : SunriseOf(d) = sky.sunrise + Day * j
         /\ CivilDay(sky.zone, SunriseOf(d)) = d
         /\ SunriseOf(d) = Midnight(sky.zone, d) + ((sky.sunrise - Midnight(sky.zone, d)) % Day)
         /\ Midnight(sky.zone, d) \in Int /\ Midnight(sky.zone, d) <= SunriseOf(d)
<1> DEFINE m == Midnight(sky.zone, d)
           r == m + ((sky.sunrise - m) % Day)
<1>1. /\ Bounded(sky.zone) /\ Steady(sky.zone, margin) /\ sky.sunrise \in Int
      /\ AwayFromMidnight(sky.zone, sky.sunrise, margin)
  BY DEF Orderly
<1>2. m \in Int /\ Wall(sky.zone, m) = d * Day /\ d \in Int /\ d * Day \in Int
  <2>1. d \in -40..(YearLength + 40) /\ d \in Int
    BY MonthsInYear DEF NearYear
  <2>2. d * Day \in Int
    BY <2>1, DayAssumption
  <2> QED
    BY <2>1, <2>2, DatesInOrder DEF SunSky, NoMidnightLeftOut
<1> HIDE DEF m
<1>3. CivilDay(sky.zone, r) = d
  BY <1>1, <1>2, EventOnItsDate
<1>4. r \in Int /\ m <= r /\ r < m + Day /\ \E k \in Int : r = sky.sunrise + Day * k
  BY <1>1, <1>2, EventAfter
<1> HIDE DEF r
<1>5. PICK k \in Int : r = sky.sunrise + Day * k
  BY <1>4
<1>6. k \in (d - 2)..(d + 2)
  <2>1. Wall(sky.zone, m) = m + Offset(sky.zone, m) /\ Offset(sky.zone, m) \in Int
        /\ -Day < Offset(sky.zone, m) /\ Offset(sky.zone, m) < Day
    BY <1>1, <1>2, OffsetBounds DEF Wall
  <2>2. Day \in Nat \ {0} /\ -Day <= sky.sunrise /\ sky.sunrise <= Day
    BY <1>1, DayAssumption DEF SunSky
  <2>3. Day * k \in Int /\ Day * d \in Int /\ d * Day = Day * d
    BY <1>2, <2>2
  <2>4. Day * d - 2 * Day < Day * k /\ Day * k < Day * d + 3 * Day
    BY <1>1, <1>2, <1>4, <1>5, <2>1, <2>2, <2>3
  <2>5. k < d - 2 => Day * k + Day <= Day * (d - 2)
    BY <1>2, DaysApart
  <2>6. d + 2 < k => Day * (d + 2) + Day <= Day * k
    BY <1>2, DaysApart
  <2>7. Day * (d - 2) = Day * d - 2 * Day /\ Day * (d + 2) = Day * d + 2 * Day
    BY <1>2, <2>2
  <2>8. ~(k < d - 2) /\ ~(d + 2 < k)
    BY <2>2, <2>3, <2>4, <2>5, <2>6, <2>7
  <2> QED
    BY <1>2, <2>8
<1> DEFINE rises == {sky.sunrise + j * Day : j \in (d - 2)..(d + 2)}
<1>7. r \in rises
  <2>1. r = sky.sunrise + k * Day
    BY <1>5, DayAssumption
  <2> QED
    BY <1>6, <2>1
<1>8. \A x \in rises : \E j \in Int : x = sky.sunrise + Day * j
  <2> TAKE x \in rises
  <2>1. PICK j \in (d - 2)..(d + 2) : x = sky.sunrise + j * Day
    OBVIOUS
  <2>2. j \in Int /\ j * Day = Day * j
    BY <1>2, <2>1, DayAssumption
  <2> QED
    BY <2>1, <2>2
<1>9. SunriseOf(d) = CHOOSE x \in rises : CivilDay(sky.zone, x) = d
  BY DEF SunriseOf
<1> HIDE DEF rises
<1>10. SunriseOf(d) \in rises /\ CivilDay(sky.zone, SunriseOf(d)) = d
  BY <1>3, <1>7, <1>9
<1>11. SunriseOf(d) = r
  <2>1. PICK j \in Int : SunriseOf(d) = sky.sunrise + Day * j
    BY <1>8, <1>10
  <2> QED
    BY <1>3, <1>5, <1>10, <2>1, OneSunrise
<1> QED
  BY <1>2, <1>3, <1>4, <1>5, <1>11 DEF r, m

\* An ingress begins its month on its own day or on the next.
LEMMA BeginsOnDayOrNext ==
  ASSUME NEW margin, Orderly(sky, margin), LunarSky(sky), NEW k \in DOMAIN sky.ingresses, NEW rule
  PROVE  /\ sky.ingresses[k] \in Int /\ DayOfIngress(k) \in Int /\ MonthBegins(k, rule) \in Int
         /\ MonthBegins(k, rule) \in {DayOfIngress(k), DayOfIngress(k) + 1}
<1>1. sky.ingresses[k] \in Int
  BY DEF LunarSky
<1>2. DayOfIngress(k) \in Int
  BY <1>1, WallOfDate DEF Orderly, DayOfIngress
<1> DEFINE early == CASE rule = "bengali" -> FALSE
                      [] rule = "malayalam" ->
                           5 * (sky.ingresses[k] - SunriseOf(DayOfIngress(k))) < 3 * sky.daytime
                      [] OTHER -> sky.ingresses[k] - SunriseOf(DayOfIngress(k)) < sky.daytime
<1>3. MonthBegins(k, rule) = IF early THEN DayOfIngress(k) ELSE DayOfIngress(k) + 1
  BY DEF MonthBegins, DayOfIngress
<1> HIDE DEF early
<1> QED
  BY <1>1, <1>2, <1>3

\* The sunset after a sunrise is that of its day.
LEMMA SunsetAfter ==
  ASSUME NEW margin, Orderly(sky, margin), SunSky(sky), NEW j \in Int, NEW r, r = sky.sunrise + Day * j
  PROVE  r \in Int /\ r + (((sky.sunrise + sky.daytime) - r) % Day) = r + sky.daytime
<1>1. Day \in Nat \ {0} /\ sky.sunrise \in Int /\ sky.daytime \in Int /\ 0 <= sky.daytime /\ sky.daytime < Day
  BY DayAssumption DEF SunSky
<1>2. Day * j \in Int /\ r \in Int
  BY <1>1
<1> DEFINE a == (sky.sunrise + sky.daytime) - r
           q == -j
<1>3. a \in Int /\ q \in Int /\ a = Day * q + sky.daytime
  BY <1>1, <1>2
<1> HIDE DEF a, q
<1>4. a % Day = sky.daytime
  BY <1>1, <1>3, DivisionUnique
<1> QED
  BY <1>2, <1>4 DEF a

\* The lookup of the day an ingress counts from gives that day, and it does give it
\* while the Sun still rises and sets on the day of the ingress.
LEMMA StartDateIs ==
  ASSUME NEW margin \in Nat, margin < Day, Orderly(sky, margin), LunarSky(sky), SunSky(sky),
         NEW k \in DOMAIN sky.ingresses, NEW rule, NearYear(DayOfIngress(k)), NearYear(DayOfIngress(k) + 1)
  PROVE  /\ StartDate(sky.ingresses[k], rule) \subseteq {Midnight(sky.zone, MonthBegins(k, rule))}
         /\ rule = "bengali" \/ (/\ Known(SunriseOf(DayOfIngress(k)))
                                 /\ SunriseOf(DayOfIngress(k)) + sky.daytime < sky.polar) =>
              StartDate(sky.ingresses[k], rule) = {Midnight(sky.zone, MonthBegins(k, rule))}
<1> DEFINE at == sky.ingresses[k]
           c == DayOfIngress(k)
           civil == Midnight(sky.zone, c)
           next == Midnight(sky.zone, c + 1)
           r == SunriseOf(c)
           s == r + sky.daytime
           early(rise, set) == CASE rule = "malayalam" -> 5 * (at - rise) < 3 * (set - rise)
                                 [] OTHER -> at < set
           found == StartDate(at, rule)
           begins == MonthBegins(k, rule)
<1>1. at \in Int /\ c \in Int /\ sky.daytime \in Int /\ 0 <= sky.daytime /\ sky.horizon \in Int /\ sky.polar \in Int
  BY BeginsOnDayOrNext DEF SunSky
<1>2. /\ r \in Int /\ (\E j \in Int : r = sky.sunrise + Day * j)
      /\ r = civil + ((sky.sunrise - civil) % Day) /\ civil \in Int /\ civil <= r
  BY SunriseOfDate
<1>3. AddDays(sky.zone, civil, 1) = next
  <2>1. Wall(sky.zone, civil) = c * Day
    <3>1. c \in -40..(YearLength + 40)
      BY <1>1, MonthsInYear DEF NearYear
    <3> QED
      BY <3>1 DEF SunSky, NoMidnightLeftOut
  <2> HIDE DEF c
  <2> QED
    BY <1>1, <2>1, StepOfDates
<1>4. found = IF rule = "bengali" THEN {next}
              ELSE UNION {{IF early(rise, set) THEN civil ELSE next : set \in Sunset(rise)} :
                            rise \in Sunrise(civil)}
  <2> DEFINE after == AddDays(sky.zone, civil, 1)
  <2>1. found = IF rule = "bengali" THEN {after}
                ELSE UNION {{IF early(rise, set) THEN civil ELSE after : set \in Sunset(rise)} :
                              rise \in Sunrise(civil)}
    BY Zenon DEF StartDate, DayOfIngress
  <2>2. after = next
    BY <1>3
  <2> HIDE DEF after, next, found
  <2> QED
    BY <2>1, <2>2
<1>5. Sunrise(civil) = IF Known(civil) /\ r < sky.polar THEN {r} ELSE {}
  BY <1>2 DEF Sunrise, RiseSet
<1>6. Sunset(r) = IF Known(r) /\ s < sky.polar THEN {s} ELSE {}
  <2>1. r + (((sky.sunrise + sky.daytime) - r) % Day) = s
    BY <1>2, SunsetAfter
  <2> QED
    BY <2>1 DEF Sunset, RiseSet
<1>7. /\ Known(r) => Known(civil)
      /\ s < sky.polar => r < sky.polar
  BY <1>1, <1>2 DEF Known
<1>8. begins = IF rule # "bengali" /\ early(r, s) THEN c ELSE c + 1
  <2>1. rule = "bengali" => begins = c + 1
    BY DEF MonthBegins, DayOfIngress
  <2>2. rule = "malayalam" => begins = IF 5 * (at - r) < 3 * (s - r) THEN c ELSE c + 1
    <3>1. s - r = sky.daytime
      BY <1>1, <1>2
    <3>2. rule = "malayalam" => begins = IF 5 * (at - r) < 3 * sky.daytime THEN c ELSE c + 1
      BY DEF MonthBegins, DayOfIngress
    <3> QED
      BY <3>1, <3>2
  <2>3. rule \notin {"bengali", "malayalam"} => begins = IF at < s THEN c ELSE c + 1
    <3>1. at - r < sky.daytime <=> at < s
      BY <1>1, <1>2
    <3>2. rule \notin {"bengali", "malayalam"} => begins = IF at - r < sky.daytime THEN c ELSE c + 1
      BY DEF MonthBegins, DayOfIngress
    <3> QED
      BY <3>1, <3>2
  <2> HIDE DEF begins, r, s, c, at
  <2> QED
    BY <2>1, <2>2, <2>3
<1> HIDE DEF at, c, r, s, early, found, begins
<1>9. Midnight(sky.zone, begins) = IF rule # "bengali" /\ early(r, s) THEN civil ELSE next
  BY <1>8
<1> HIDE DEF civil, next
<1>10. found \subseteq {Midnight(sky.zone, begins)}
  <2>1. CASE rule = "bengali"
    BY <1>4, <1>9, <2>1
  <2>2. CASE rule # "bengali"
    BY <1>4, <1>5, <1>6, <1>9, <2>2
  <2> QED
    BY <2>1, <2>2
<1>11. rule = "bengali" \/ (Known(r) /\ s < sky.polar) => found = {Midnight(sky.zone, begins)}
  <2>1. CASE rule = "bengali"
    BY <1>4, <1>9, <2>1
  <2>2. CASE rule # "bengali" /\ Known(r) /\ s < sky.polar
    <3>1. Sunrise(civil) = {r} /\ Sunset(r) = {s}
      BY <1>5, <1>6, <1>7, <2>2
    <3> QED
      BY <1>4, <1>9, <2>2, <3>1
  <2> QED
    BY <2>1, <2>2
<1> QED
  BY <1>10, <1>11 DEF at, c, r, s, found, begins

-----------------------------------------------------------------------------
(* A day of the walk among the ingresses.                                  *)

\* The walk is exactly at the midnight of the date it has counted up to.
ExactDate == result = "scanning" => date = Midnight(sky.zone, listed)

LEMMA NextExactDate ==
  ASSUME NEW margin \in Nat, margin < Day, OrderlySkies(margin), SunSkies, DateInv(margin), ExactDate, [Next]_vars
  PROVE  ExactDate'
<1>1. CASE Begin
  BY <1>1 DEF Begin, DateInv, ExactDate
<1>2. CASE ScanDay
  <2>1. /\ result = "scanning" /\ InMonth /\ date' = AddDays(sky.zone, date, 1)
        /\ listed' = listed + 1 /\ sky' = sky
    BY <1>2 DEF ScanDay
  <2>2. /\ Accepted(sky) /\ sky \in Skies /\ listed \in Nat /\ month \in Months
        /\ listed <= Firsts[month + 1] /\ date = Midnight(sky.zone, listed)
    BY <2>1 DEF DateInv, ExactDate
  <2>3. listed \in -40..(YearLength + 40)
    BY <2>2, MonthFacts
  <2>4. Wall(sky.zone, Midnight(sky.zone, listed)) = listed * Day
    BY <2>2, <2>3 DEF SunSkies, SunSky, NoMidnightLeftOut
  <2>5. date' = Midnight(sky.zone, listed + 1)
    BY <2>1, <2>2, <2>4, StepOfDates
  <2> QED
    BY <2>1, <2>5 DEF ExactDate
<1>3. CASE NextMonth
  <2>1. result = "scanning" /\ ~InMonth /\ UNCHANGED <<sky, listed>>
        /\ (result' = "scanning" => date' = Midnight(sky.zone, Firsts[month + 1]))
    BY <1>3 DEF NextMonth
  <2>2. /\ Accepted(sky) /\ date \in Int /\ listed \in Nat /\ sky \in Skies /\ month \in Months
        /\ listed * Day <= Wall(sky.zone, date) /\ Wall(sky.zone, date) <= listed * Day + margin
        /\ Firsts[month] <= listed /\ listed <= Firsts[month + 1]
    BY <2>1 DEF DateInv
  <2>3. Wall(sky.zone, date) \in Int /\ listed * Day \in Int /\ Day \in Int
    BY <2>2, WallsAreInt, DayAssumption DEF OrderlySkies, Orderly
  <2>4. CivilDay(sky.zone, date) = listed
    BY <2>2, <2>3, WithinDate
  <2>5. listed = Firsts[month + 1]
    BY <2>1, <2>2, <2>4, MonthFacts DEF InMonth
  <2> QED
    BY <2>1, <2>5 DEF ExactDate
<1>4. CASE DayFails \/ Ended
  BY <1>4 DEF DayFails, Ended, Fail, ExactDate
<1>5. CASE UNCHANGED vars
  BY <1>5 DEF vars, ExactDate
<1> QED
  BY <1>1, <1>2, <1>3, <1>4, <1>5 DEF Next

\* The day of the walk with that sunrise.
OnDay(rise) ==
  /\ listed \in Int /\ 0 <= listed /\ listed < YearLength /\ date = Midnight(sky.zone, listed)
  /\ InSpan(rise) /\ rise = SunriseOf(listed) /\ CivilDay(sky.zone, rise) = listed
  /\ \E j \in Int : rise = sky.sunrise + Day * j
  /\ Known(rise) /\ rise + sky.daytime < sky.polar

LEMMA TodayIsDay ==
  ASSUME NEW margin \in Nat, margin < Day, OrderlySkies(margin), SunSkies, DateInv(margin), ExactDate,
         AtDay, NEW d \in Today
  PROVE  /\ Accepted(sky) /\ sky \in Skies /\ Orderly(sky, margin) /\ SunSky(sky)
         /\ OnDay(d.rise) /\ d.nextRise = d.rise + Day
<1>1. /\ Accepted(sky) /\ date \in Int /\ listed \in Nat /\ sky \in Skies /\ month \in Months
      /\ listed * Day <= Wall(sky.zone, date) /\ Wall(sky.zone, date) <= listed * Day + margin
      /\ date = Midnight(sky.zone, listed) /\ InMonth
  BY DEF DateInv, AtDay, ExactDate
<1>2. Orderly(sky, margin) /\ Bounded(sky.zone) /\ SunSky(sky)
  BY <1>1 DEF OrderlySkies, Orderly, SunSkies
<1>3. listed < YearLength /\ NearYear(listed)
  <2>1. Wall(sky.zone, date) \in Int /\ listed * Day \in Int /\ Day \in Int
    BY <1>1, <1>2, WallsAreInt, DayAssumption
  <2>2. CivilDay(sky.zone, date) = listed
    BY <1>1, <2>1, WithinDate
  <2> QED
    BY <1>1, <2>2, MonthFacts DEF InMonth, NearYear
<1>4. d.rise = SunriseOf(listed)
  BY <1>1, <1>2, <1>3, SunriseOfDate, TodayFacts
<1>5. CivilDay(sky.zone, d.rise) = listed /\ \E j \in Int : d.rise = sky.sunrise + Day * j
  BY <1>2, <1>3, <1>4, SunriseOfDate
<1>6. Known(d.rise) /\ d.rise + sky.daytime < sky.polar
  <2>1. PICK r \in Sunrise(date) : \E s \in Sunset(r), n \in Sunrise(AddDays(sky.zone, date, 1)) :
          d = [rise |-> r, set |-> s, nextRise |-> n]
    BY DEF Today, DayOf
  <2>2. PICK s \in Sunset(r) : \E n \in Sunrise(AddDays(sky.zone, date, 1)) :
          d = [rise |-> r, set |-> s, nextRise |-> n]
    BY <2>1
  <2>3. d.rise = r
    BY <2>2
  <2>4. Known(r) /\ r + (((sky.sunrise + sky.daytime) - r) % Day) < sky.polar
    BY DEF Sunset, RiseSet
  <2>5. r + (((sky.sunrise + sky.daytime) - r) % Day) = r + sky.daytime
    BY <1>2, <1>5, <2>3, SunsetAfter
  <2> QED
    BY <2>3, <2>4, <2>5
<1>7. InSpan(d.rise) /\ d.nextRise = d.rise + Day
  BY RiseInSpan, NextRise
<1> QED
  BY <1>1, <1>2, <1>3, <1>4, <1>5, <1>6, <1>7 DEF OnDay

\* The ingresses around a day of the walk, and the dates they are on.
LEMMA IngressesOfDay ==
  ASSUME NEW margin \in Nat, margin < Day, Orderly(sky, margin), LunarSky(sky), SunSky(sky), NEW t, OnDay(t)
  PROVE  LET o == Ordinal(t)
         IN /\ o \in Int /\ {o - 1, o, o + 1, o + 2} \subseteq DOMAIN sky.ingresses
            /\ \A k \in {o - 1, o, o + 1, o + 2} : sky.ingresses[k] \in Int /\ DayOfIngress(k) \in Int
            /\ DayOfIngress(o - 1) + 27 <= listed /\ DayOfIngress(o) <= listed
            /\ listed <= DayOfIngress(o + 1) /\ listed + 27 <= DayOfIngress(o + 2)
            /\ listed - 34 <= DayOfIngress(o) /\ DayOfIngress(o + 1) <= listed + 34
            /\ DayOfIngress(o) >= listed - 2 => t - 5 * Day <= sky.ingresses[o]
            /\ DayOfIngress(o + 1) <= listed + 2 => sky.ingresses[o + 1] <= t + 5 * Day
<1> DEFINE o == Ordinal(t)
           g == sky.ingresses
<1>1. /\ o \in Int /\ {o - 1, o, o + 1, o + 2} \subseteq DOMAIN g
      /\ g[o - 1] \in Int /\ g[o] \in Int /\ g[o + 1] \in Int /\ g[o + 2] \in Int
      /\ g[o] <= t /\ t < g[o + 1]
      /\ 29 * Day <= g[o] - g[o - 1] /\ 29 * Day <= g[o + 2] - g[o + 1]
      /\ g[o + 1] - g[o] <= 32 * Day
  BY SignsAround DEF OnDay
<1> HIDE DEF o
<1>2. /\ Bounded(sky.zone) /\ Steady(sky.zone, margin) /\ sky.sunrise \in Int
      /\ AwayFromMidnight(sky.zone, sky.sunrise, margin)
  BY DEF Orderly
<1>3. t \in Int /\ listed \in Int /\ CivilDay(sky.zone, t) = listed /\ Day \in Nat \ {0}
  BY DayAssumption DEF OnDay, InSpan
<1>4. \A k \in {o - 1, o, o + 1, o + 2} : g[k] \in Int /\ DayOfIngress(k) \in Int
  BY <1>1, <1>2, WallOfDate DEF DayOfIngress
<1> DEFINE c(k) == CivilDay(sky.zone, g[k])
<1>5. c(o - 1) + 27 <= listed
  <2>1. g[o - 1] + (27 + 2) * Day <= t
    BY <1>1, <1>3
  <2> QED
    BY <1>1, <1>2, <1>3, <2>1, DatesPass
<1>6. listed + 27 <= c(o + 2)
  <2>1. t + (27 + 2) * Day <= g[o + 2]
    BY <1>1, <1>3
  <2> QED
    BY <1>1, <1>2, <1>3, <2>1, DatesPass
<1>7. c(o) <= listed /\ listed <= c(o + 1)
  <2>1. PICK j \in Int : t = sky.sunrise + Day * j
    BY DEF OnDay
  <2>2. \A u \in Int : /\ u <= t => CivilDay(sky.zone, u) <= CivilDay(sky.zone, t)
                       /\ t <= u => CivilDay(sky.zone, t) <= CivilDay(sky.zone, u)
    BY <1>2, <1>3, <2>1, EventDates
  <2>3. t <= g[o + 1]
    BY <1>1, <1>3
  <2> QED
    BY <1>1, <1>3, <2>2, <2>3
<1>8. listed + (-34) <= c(o)
  <2> DEFINE n == -34
  <2>1. n \in Int /\ t + (n + 2) * Day <= g[o]
    BY <1>1, <1>3
  <2> HIDE DEF n
  <2>2. CivilDay(sky.zone, t) + n <= c(o)
    BY <1>1, <1>2, <1>3, <2>1, DatesPass
  <2> QED
    BY <1>3, <2>2 DEF n
<1>9. c(o + 1) + (-34) <= listed
  <2>1. g[o + 1] + (-34 + 2) * Day <= t
    BY <1>1, <1>3
  <2> QED
    BY <1>1, <1>2, <1>3, <2>1, DatesPass
<1>10. c(o) >= listed - 2 => t - 5 * Day <= g[o]
  <2>1. g[o] + (3 + 2) * Day <= t => c(o) + 3 <= listed
    BY <1>1, <1>2, <1>3, DatesPass
  <2>2. c(o) \in Int
    BY <1>4 DEF DayOfIngress
  <2> HIDE DEF c
  <2> QED
    BY <1>1, <1>3, <2>1, <2>2
<1>11. c(o + 1) <= listed + 2 => g[o + 1] <= t + 5 * Day
  <2>1. t + (3 + 2) * Day <= g[o + 1] => listed + 3 <= c(o + 1)
    BY <1>1, <1>2, <1>3, DatesPass
  <2>2. c(o + 1) \in Int
    BY <1>4 DEF DayOfIngress
  <2> HIDE DEF c
  <2> QED
    BY <1>1, <1>3, <2>1, <2>2
<1>12. \A k : c(k) = DayOfIngress(k)
  BY DEF DayOfIngress
<1> HIDE DEF c
<1>13. c(o) \in Int /\ c(o + 1) \in Int /\ (c(o + 1) + (-34) <= listed => c(o + 1) <= listed + 34)
       /\ (listed + (-34) <= c(o) => listed - 34 <= c(o))
  BY <1>3, <1>4, <1>12
<1> QED
  BY <1>1, <1>4, <1>5, <1>6, <1>7, <1>8, <1>9, <1>10, <1>11, <1>12, <1>13 DEF o

\* On a date the Sun rises while positions are known, and sets.
HasDay(c) == Known(SunriseOf(c)) /\ SunriseOf(c) + sky.daytime < sky.polar

\* It did on every date up to one that is walked over.
LEMMA DaysTillToday ==
  ASSUME NEW margin \in Nat, margin < Day, Orderly(sky, margin), SunSky(sky), NEW t, OnDay(t),
         NEW c, NearYear(c), c <= listed
  PROVE  HasDay(c)
<1>1. /\ Bounded(sky.zone) /\ Steady(sky.zone, margin) /\ sky.sunrise \in Int
      /\ AwayFromMidnight(sky.zone, sky.sunrise, margin)
  BY DEF Orderly
<1>2. /\ t \in Int /\ listed \in Int /\ CivilDay(sky.zone, t) = listed /\ Known(t) /\ t + sky.daytime < sky.polar
      /\ sky.horizon \in Int /\ sky.polar \in Int /\ sky.daytime \in Int /\ c \in Int
  BY DEF OnDay, InSpan, SunSky, NearYear
<1>3. SunriseOf(c) \in Int /\ CivilDay(sky.zone, SunriseOf(c)) = c
  BY SunriseOfDate
<1>4. PICK i \in Int : SunriseOf(c) = sky.sunrise + Day * i
  BY SunriseOfDate
<1>5. PICK j \in Int : t = sky.sunrise + Day * j
  BY DEF OnDay
<1>6. t <= SunriseOf(c) => listed <= c
  BY <1>1, <1>2, <1>3, <1>5, EventDates
<1>7. c = listed => SunriseOf(c) = t
  BY <1>2, <1>3, <1>4, <1>5, OneSunrise
<1>8. SunriseOf(c) <= t
  BY <1>2, <1>3, <1>6, <1>7
<1> QED
  BY <1>2, <1>3, <1>8 DEF HasDay, Known

\* What the search of a day finds of the ingress before its sunrise and of the one
\* after it.
LEMMA SearchOfDay ==
  ASSUME NEW margin \in Nat, margin < Day, Orderly(sky, margin), LunarSky(sky), SunSky(sky), NEW t, OnDay(t),
         NEW k \in {Ordinal(t), Ordinal(t) + 1}, NEW rule
  PROVE  /\ k \in DOMAIN sky.ingresses /\ NearYear(DayOfIngress(k)) /\ NearYear(DayOfIngress(k) + 1)
         /\ SolarStart(t, k % 12, rule) \subseteq {Midnight(sky.zone, MonthBegins(k, rule))}
         /\ (/\ listed - 2 <= DayOfIngress(k) /\ DayOfIngress(k) <= listed + 2
             /\ Known(sky.ingresses[k] + 5 * Day) /\ HasDay(DayOfIngress(k))) =>
              SolarStart(t, k % 12, rule) = {Midnight(sky.zone, MonthBegins(k, rule))}
<1> DEFINE o == Ordinal(t)
           g == sky.ingresses
           c == DayOfIngress(k)
<1>1. /\ o \in Int /\ {o - 1, o, o + 1, o + 2} \subseteq DOMAIN g
      /\ \A i \in {o - 1, o, o + 1, o + 2} : g[i] \in Int /\ DayOfIngress(i) \in Int
      /\ DayOfIngress(o) <= listed /\ listed <= DayOfIngress(o + 1)
      /\ listed - 34 <= DayOfIngress(o) /\ DayOfIngress(o + 1) <= listed + 34
      /\ DayOfIngress(o) >= listed - 2 => t - 5 * Day <= g[o]
      /\ DayOfIngress(o + 1) <= listed + 2 => g[o + 1] <= t + 5 * Day
  BY IngressesOfDay
<1>2. /\ InSpan(t) /\ t \in Int /\ listed \in Int /\ 0 <= listed /\ listed < YearLength
      /\ YearLength \in Int /\ Day \in Nat \ {0} /\ sky.horizon \in Int /\ Known(t)
  BY MonthsInYear, DayAssumption DEF OnDay, InSpan, SunSky
<1>3. g[o] <= t /\ t < g[o + 1]
  BY <1>2, SignsAround
<1> HIDE DEF o
<1>4. k = o \/ k = o + 1
  BY DEF o
<1>5. /\ k \in DOMAIN g /\ g[k] \in Int /\ c \in Int /\ listed - 34 <= c /\ c <= listed + 34
      /\ listed - 2 <= c /\ c <= listed + 2 => t - 5 * Day <= g[k] /\ g[k] <= t + 5 * Day
  <2>1. CASE k = o
    BY <1>1, <1>2, <1>3, <2>1
  <2>2. CASE k = o + 1
    BY <1>1, <1>2, <1>3, <2>2
  <2> QED
    BY <1>4, <2>1, <2>2
<1> HIDE DEF c
<1>6. NearYear(c) /\ NearYear(c + 1)
  BY <1>2, <1>5 DEF NearYear
<1>7. /\ StartDate(g[k], rule) \subseteq {Midnight(sky.zone, MonthBegins(k, rule))}
      /\ HasDay(c) => StartDate(g[k], rule) = {Midnight(sky.zone, MonthBegins(k, rule))}
  BY <1>5, <1>6, StartDateIs DEF c, HasDay
<1>8. SolarStart(t, k % 12, rule) =
        IF InReach(t, k) /\ Known(t) /\ Known(Estimate(t, k) + Bracket) THEN StartDate(g[k], rule) ELSE {}
  BY <1>2, SearchFinds
<1>9. SolarStart(t, k % 12, rule) \subseteq {Midnight(sky.zone, MonthBegins(k, rule))}
  BY <1>7, <1>8
<1>10. ASSUME listed - 2 <= c, c <= listed + 2, Known(g[k] + 5 * Day), HasDay(c)
       PROVE  SolarStart(t, k % 12, rule) = {Midnight(sky.zone, MonthBegins(k, rule))}
  <2>1. InReach(t, k) /\ Estimate(t, k) \in Int /\ Estimate(t, k) <= g[k] + 2 * Day
    BY <1>2, <1>5, <1>10, EstimateIsNear
  <2>2. Known(Estimate(t, k) + Bracket)
    BY <1>2, <1>5, <1>10, <2>1 DEF Known, Bracket
  <2> QED
    BY <1>2, <1>7, <1>8, <1>10, <2>1, <2>2
<1> QED
  BY <1>5, <1>6, <1>9, <1>10 DEF c

\* Dates of the walk and of months compare as they are counted.
LEMMA DateOfMonth ==
  ASSUME NEW margin \in Nat, margin < Day, Orderly(sky, margin), LunarSky(sky), SunSky(sky), NEW t, OnDay(t),
         NEW k \in {Ordinal(t), Ordinal(t) + 1}, NEW rule, NEW offset \in {-1, 0, 1}
  PROVE  LET begins == MonthBegins(k, rule)
             day == Midnight(sky.zone, begins)
         IN /\ begins \in Int /\ begins \in {DayOfIngress(k), DayOfIngress(k) + 1}
            /\ date >= day <=> begins <= listed
            /\ date < day <=> listed < begins
            /\ date = AddDays(sky.zone, day, offset) <=> begins + offset = listed
<1> DEFINE begins == MonthBegins(k, rule)
           day == Midnight(sky.zone, begins)
           c == DayOfIngress(k)
<1>1. k \in DOMAIN sky.ingresses /\ NearYear(c) /\ NearYear(c + 1)
  BY SearchOfDay
<1>2. begins \in Int /\ c \in Int /\ begins \in {c, c + 1}
  BY <1>1, BeginsOnDayOrNext
<1>3. listed - 34 <= c /\ c <= listed + 34
  <2> DEFINE o == Ordinal(t)
  <2>1. /\ o \in Int /\ listed \in Int /\ DayOfIngress(o) \in Int /\ DayOfIngress(o + 1) \in Int
        /\ DayOfIngress(o) <= listed /\ listed <= DayOfIngress(o + 1)
        /\ listed - 34 <= DayOfIngress(o) /\ DayOfIngress(o + 1) <= listed + 34
    BY IngressesOfDay DEF OnDay
  <2>2. k = o \/ k = o + 1
    OBVIOUS
  <2> HIDE DEF o
  <2> QED
    BY <2>1, <2>2
<1>4. listed \in Int /\ 0 <= listed /\ listed < YearLength /\ YearLength \in Int /\ date = Midnight(sky.zone, listed)
  BY MonthsInYear DEF OnDay
<1> HIDE DEF begins, c
<1>5. NearYear(listed) /\ NearYear(begins) /\ NearYear(begins + offset) /\ begins + offset \in Int
  BY <1>2, <1>3, <1>4 DEF NearYear
<1>6. /\ date \in Int /\ day \in Int
      /\ begins < listed => day < date
      /\ listed < begins => date < day
  BY <1>4, <1>5, DatesInOrder
<1>7. begins = listed => day = date
  BY <1>4
<1>8. /\ begins + offset < listed => Midnight(sky.zone, begins + offset) < date
      /\ listed < begins + offset => date < Midnight(sky.zone, begins + offset)
      /\ Midnight(sky.zone, begins + offset) \in Int
  BY <1>4, <1>5, DatesInOrder
<1>9. begins + offset = listed => Midnight(sky.zone, begins + offset) = date
  BY <1>4
<1>10. AddDays(sky.zone, day, offset) = Midnight(sky.zone, begins + offset)
  <2>1. begins \in -40..(YearLength + 40) /\ offset \in Int
    BY <1>4, <1>5 DEF NearYear
  <2>2. Wall(sky.zone, day) = begins * Day
    BY <2>1 DEF SunSky, NoMidnightLeftOut
  <2> QED
    BY <1>2, <2>1, <2>2, StepOfDates
<1> HIDE DEF day
<1>11. (date >= day <=> begins <= listed) /\ (date < day <=> listed < begins)
  BY <1>2, <1>4, <1>6, <1>7
<1>12. date = AddDays(sky.zone, day, offset) <=> begins + offset = listed
  BY <1>4, <1>5, <1>6, <1>8, <1>9, <1>10
<1> QED
  BY <1>2, <1>11, <1>12 DEF begins, day, c

-----------------------------------------------------------------------------
(* The solar month of a day.                                               *)

LEMMA MaxIs ==
  ASSUME NEW S \in SUBSET Int, NEW m \in S, \A y \in S : y <= m
  PROVE  Max(S) = m
<1>1. \A y \in S : m >= y
  OBVIOUS
<1>2. Max(S) \in S /\ \A y \in S : Max(S) >= y
  BY <1>1 DEF Max
<1> DEFINE x == Max(S)
<1>3. x \in Int /\ m \in Int /\ x >= m /\ x <= m
  BY <1>2
<1> HIDE DEF x
<1>4. x = m
  BY <1>3
<1> QED
  BY <1>4 DEF x

\* The lookup of the next first day and that of the last one say whether they have
\* come.
LEMMA StartsHaveCome ==
  ASSUME NEW margin \in Nat, margin < Day, Orderly(sky, margin), LunarSky(sky), SunSky(sky), NEW t, OnDay(t),
         Known(t + 30 * Day), NEW rule
  PROVE  LET o == Ordinal(t)
         IN /\ (\E s \in SolarStart(t, (o + 1) % 12, rule) : date >= s) <=> MonthBegins(o + 1, rule) <= listed
            /\ (\E s \in SolarStart(t, o % 12, rule) : date < s) <=> listed < MonthBegins(o, rule)
            /\ MonthBegins(o - 1, rule) <= listed /\ MonthBegins(o - 1, rule) \in Int
            /\ MonthBegins(o, rule) \in Int /\ MonthBegins(o + 1, rule) \in Int
            /\ MonthBegins(o + 1, rule) <= listed => MonthBegins(o, rule) <= listed
<1> DEFINE o == Ordinal(t)
           g == sky.ingresses
           c(k) == DayOfIngress(k)
           b(k) == MonthBegins(k, rule)
<1>1. /\ o \in Int /\ {o - 1, o, o + 1, o + 2} \subseteq DOMAIN g
      /\ g[o] \in Int /\ g[o + 1] \in Int /\ c(o - 1) \in Int /\ c(o) \in Int /\ c(o + 1) \in Int
      /\ c(o - 1) + 27 <= listed /\ c(o) <= listed /\ listed <= c(o + 1)
      /\ c(o + 1) <= listed + 2 => g[o + 1] <= t + 5 * Day
  BY IngressesOfDay
<1>2. /\ g[o] <= t /\ t < g[o + 1] /\ 29 * Day <= g[o + 1] - g[o]
  BY SignsAround DEF OnDay
<1>3. /\ t \in Int /\ listed \in Int /\ Day \in Nat \ {0} /\ sky.horizon \in Int
  BY DayAssumption DEF OnDay, InSpan, SunSky
<1>4. /\ b(o - 1) \in Int /\ b(o - 1) \in {c(o - 1), c(o - 1) + 1}
      /\ b(o) \in Int /\ b(o) \in {c(o), c(o) + 1}
      /\ b(o + 1) \in Int /\ b(o + 1) \in {c(o + 1), c(o + 1) + 1}
  BY <1>1, BeginsOnDayOrNext
<1>5. /\ NearYear(c(o)) /\ NearYear(c(o + 1))
      /\ SolarStart(t, o % 12, rule) \subseteq {Midnight(sky.zone, b(o))}
      /\ SolarStart(t, (o + 1) % 12, rule) \subseteq {Midnight(sky.zone, b(o + 1))}
      /\ listed - 2 <= c(o) /\ c(o) <= listed + 2 /\ Known(g[o] + 5 * Day) /\ HasDay(c(o)) =>
           SolarStart(t, o % 12, rule) = {Midnight(sky.zone, b(o))}
      /\ listed - 2 <= c(o + 1) /\ c(o + 1) <= listed + 2 /\ Known(g[o + 1] + 5 * Day) /\ HasDay(c(o + 1)) =>
           SolarStart(t, (o + 1) % 12, rule) = {Midnight(sky.zone, b(o + 1))}
  BY SearchOfDay
<1>6. /\ date >= Midnight(sky.zone, b(o + 1)) <=> b(o + 1) <= listed
      /\ date < Midnight(sky.zone, b(o)) <=> listed < b(o)
  BY DateOfMonth
<1>7. c(o) + 27 <= c(o + 1)
  <2>1. g[o] + (27 + 2) * Day <= g[o + 1]
    BY <1>1, <1>2, <1>3
  <2> QED
    BY <1>1, <2>1, DatesPass DEF Orderly, DayOfIngress
<1>8. \A k \in {o, o + 1} : c(k) <= listed => HasDay(c(k))
  BY <1>5, DaysTillToday
<1> DEFINE before == SolarStart(t, o % 12, rule)
           after == SolarStart(t, (o + 1) % 12, rule)
<1> HIDE DEF o, c, b, before, after
<1>9. ASSUME b(o + 1) <= listed PROVE after = {Midnight(sky.zone, b(o + 1))}
  <2>1. c(o + 1) = listed
    BY <1>1, <1>3, <1>4, <1>9
  <2>2. Known(g[o + 1] + 5 * Day)
    BY <1>1, <1>3, <2>1 DEF Known
  <2> QED
    BY <1>3, <1>5, <1>8, <2>1, <2>2 DEF after
<1>10. ASSUME listed < b(o) PROVE before = {Midnight(sky.zone, b(o))}
  <2>1. c(o) = listed
    BY <1>1, <1>3, <1>4, <1>10
  <2>2. Known(g[o] + 5 * Day)
    BY <1>1, <1>2, <1>3 DEF Known
  <2> QED
    BY <1>3, <1>5, <1>8, <2>1, <2>2 DEF before
<1>11. (\E s \in after : date >= s) <=> b(o + 1) <= listed
  BY <1>5, <1>6, <1>9 DEF after
<1>12. (\E s \in before : date < s) <=> listed < b(o)
  BY <1>5, <1>6, <1>10 DEF before
<1>13. b(o - 1) <= listed /\ (b(o + 1) <= listed => b(o) <= listed)
  BY <1>1, <1>3, <1>4, <1>7
<1> QED
  BY <1>4, <1>11, <1>12, <1>13 DEF o, b, before, after

LEMMA SolarMonthIs ==
  ASSUME NEW margin \in Nat, margin < Day, Orderly(sky, margin), LunarSky(sky), SunSky(sky), NEW t, OnDay(t),
         Known(t + 30 * Day), NEW rule
  PROVE  SolarMonth(t, rule) =
           {Max({k \in (Ordinal(t) - 1)..(Ordinal(t) + 1) : MonthBegins(k, rule) <= listed}) % 12}
<1> DEFINE o == Ordinal(t)
           b(k) == MonthBegins(k, rule)
           come == \E s \in SolarStart(t, (o + 1) % 12, rule) : date >= s
           awaited == \E s \in SolarStart(t, o % 12, rule) : date < s
           S == {k \in (o - 1)..(o + 1) : b(k) <= listed}
<1>1. /\ come <=> b(o + 1) <= listed
      /\ awaited <=> listed < b(o)
      /\ b(o - 1) <= listed /\ b(o - 1) \in Int /\ b(o) \in Int /\ b(o + 1) \in Int
      /\ b(o + 1) <= listed => b(o) <= listed
  BY StartsHaveCome
<1>2. o \in Int /\ listed \in Int /\ Known(t)
  BY IngressesOfDay DEF OnDay
<1> DEFINE sign == o % 12
<1>3. SolarMonth(t, rule) =
        {CASE \E s \in SolarStart(t, (sign + 1) % 12, rule) : date >= s -> (sign + 1) % 12
           [] \E s \in SolarStart(t, sign, rule) : date < s -> (sign + 11) % 12
           [] OTHER -> sign}
  BY <1>2 DEF SolarMonth, SunSign
<1>4. (sign + 1) % 12 = (o + 1) % 12 /\ (sign + 11) % 12 = (o - 1) % 12
  <2> HIDE DEF o
  <2> QED
    BY <1>2
<1>5. SolarMonth(t, rule) = {CASE come -> (o + 1) % 12 [] awaited -> (o - 1) % 12 [] OTHER -> o % 12}
  BY <1>3, <1>4
<1> HIDE DEF come, awaited, b, o
<1>6. S \in SUBSET Int /\ \A k \in S : k \in {o - 1, o, o + 1}
  BY <1>2
<1>7. CASE come
  <2>1. ~awaited /\ o + 1 \in S /\ \A k \in S : k <= o + 1
    BY <1>1, <1>2, <1>7
  <2>2. Max(S) = o + 1
    <3> HIDE DEF S
    <3> QED
      BY <1>6, <2>1, MaxIs
  <2> QED
    BY <1>5, <1>7, <2>1, <2>2 DEF o, b
<1>8. CASE ~come /\ awaited
  <2>1. o - 1 \in S /\ \A k \in S : k <= o - 1
    BY <1>1, <1>2, <1>6, <1>8
  <2>2. Max(S) = o - 1
    <3> HIDE DEF S
    <3> QED
      BY <1>6, <2>1, MaxIs
  <2> QED
    BY <1>5, <1>8, <2>2 DEF o, b
<1>9. CASE ~come /\ ~awaited
  <2>1. o \in S /\ \A k \in S : k <= o
    BY <1>1, <1>2, <1>6, <1>9
  <2>2. Max(S) = o
    <3> HIDE DEF S
    <3> QED
      BY <1>6, <2>1, MaxIs
  <2> QED
    BY <1>5, <1>9, <2>2 DEF o, b
<1> QED
  BY <1>7, <1>8, <1>9

\* The walk, with the date it is at.
ExactInv(margin) == DateInv(margin) /\ ExactDate

LEMMA ExactInvHolds ==
  ASSUME NEW margin \in Nat, margin < Day, OrderlySkies(margin), SunSkies
  PROVE  /\ Init => ExactInv(margin)
         /\ ExactInv(margin) /\ [Next]_vars => ExactInv(margin)'
<1>1. Init => ExactInv(margin)
  <2>1. 1 \in Months
    BY YearAssumption DEF Months
  <2> QED
    BY <2>1 DEF Init, DateInv, ExactDate, ExactInv
<1>2. ExactInv(margin) /\ [Next]_vars => ExactInv(margin)'
  BY NextDateInv, NextExactDate DEF ExactInv
<1> QED
  BY <1>1, <1>2

\* Every day is in the solar month whose first day came last, by each rule, although
\* the day looks for two ingresses by itself and only those within 24 degrees, at
\* the mean rate: a first day that has come is found, and one that is found has
\* come (calendar.go:302-385).
THEOREM SolarMonthsInForce ==
  ASSUME NEW margin \in Nat, margin < Day, OrderlySkies(margin), LunarSkies, SunSkies
  PROVE  Spec => []SolarMonthInForce
<1>1. Init => ExactInv(margin)
  BY ExactInvHolds
<1>2. ExactInv(margin) /\ [Next]_vars => ExactInv(margin)'
  BY ExactInvHolds
<1>3. ExactInv(margin) => SolarMonthInForce
  <2> SUFFICES ASSUME DateInv(margin), ExactDate, AtDay, NEW d \in Today, Known(d.rise + 30 * Day),
                      NEW rule \in Rules
               PROVE  SolarMonth(d.rise, rule) =
                        {Max({k \in (Ordinal(d.rise) - 1)..(Ordinal(d.rise) + 1) :
                                MonthBegins(k, rule) <= listed}) % 12}
    BY DEF SolarMonthInForce, ExactInv
  <2>1. /\ Accepted(sky) /\ sky \in Skies /\ Orderly(sky, margin) /\ SunSky(sky) /\ OnDay(d.rise)
    BY TodayIsDay
  <2>2. LunarSky(sky)
    BY <2>1 DEF LunarSkies
  <2> QED
    BY <2>1, <2>2, SolarMonthIs
<1> QED
  BY <1>1, <1>2, <1>3, PTL DEF Spec

-----------------------------------------------------------------------------
(* The first days of the months, over the year.                            *)

\* The year ends days away from any ingress, as the civil year does.
NoStartAtEnd(s) ==
  \A k \in DOMAIN s.ingresses : \/ s.ingresses[k] + 8 * Day <= YearLength * Day
                                \/ YearLength * Day + 8 * Day <= s.ingresses[k]

\* What is kept by the Sun is kept on a first day of a month, the day before or the
\* day after.
KeptBySun == \A e \in Entries : e.month \in 0..11 /\ e.offset \in {-1, 0, 1}

StartSkies == SunSkies /\ KeptBySun /\ \A s \in Skies : Accepted(s) => NoStartAtEnd(s)

\* Positions are known, and the Sun rises and sets, until the last days of the year.
YearLasts == YearLength * Day - 2 * Day < sky.horizon /\ YearLength * Day - 2 * Day < sky.polar

\* The Sun rises and sets on the day of an ingress some days before that ends.
LEMMA DayOfEarlyIngress ==
  ASSUME NEW margin \in Nat, margin < Day, Orderly(sky, margin), LunarSky(sky), SunSky(sky),
         NEW k \in DOMAIN sky.ingresses, NearYear(DayOfIngress(k)),
         Known(sky.ingresses[k] + 5 * Day), sky.ingresses[k] + 5 * Day < sky.polar
  PROVE  HasDay(DayOfIngress(k))
<1> DEFINE at == sky.ingresses[k]
           c == DayOfIngress(k)
           m == Midnight(sky.zone, c)
           r == SunriseOf(c)
<1>1. at \in Int /\ Bounded(sky.zone) /\ c = CivilDay(sky.zone, at) /\ sky.sunrise \in Int
  BY DEF LunarSky, Orderly, DayOfIngress
<1>2. r \in Int /\ m \in Int /\ r = m + ((sky.sunrise - m) % Day)
  BY SunriseOfDate
<1>3. c \in Int /\ Wall(sky.zone, m) = c * Day
  <2>1. c \in -40..(YearLength + 40)
    BY MonthsInYear DEF NearYear
  <2> QED
    BY <2>1 DEF SunSky, NoMidnightLeftOut
<1> HIDE DEF at, m, r
<1>4. /\ Day * c \in Int /\ Day * c <= Wall(sky.zone, at)
      /\ Wall(sky.zone, at) = at + Offset(sky.zone, at) /\ Wall(sky.zone, m) = m + Offset(sky.zone, m)
      /\ Offset(sky.zone, at) \in Int /\ Offset(sky.zone, at) < Day
      /\ Offset(sky.zone, m) \in Int /\ -Day < Offset(sky.zone, m)
  BY <1>1, <1>2, WallOfDate, OffsetBounds DEF Wall
<1> HIDE DEF c
<1>5. Day \in Nat \ {0} /\ c * Day = Day * c
  BY <1>3, DayAssumption
<1>6. r < m + Day
  BY <1>1, <1>2, EventAfter
<1>7. r < at + 3 * Day
  BY <1>1, <1>2, <1>3, <1>4, <1>5, <1>6
<1>8. sky.daytime \in Int /\ sky.daytime < Day /\ sky.horizon \in Int /\ sky.polar \in Int
  BY <1>5 DEF SunSky
<1>9. r < sky.horizon /\ r + sky.daytime < sky.polar
  BY <1>1, <1>2, <1>5, <1>7, <1>8 DEF at, Known
<1> QED
  BY <1>9 DEF HasDay, Known, r, c

\* On every day of a year that lasts, the lookup of a first day within two days
\* succeeds.
LEMMA StartNearDay ==
  ASSUME NEW margin \in Nat, margin < Day, Orderly(sky, margin), LunarSky(sky), SunSky(sky),
         NoStartAtEnd(sky), YearLasts, NEW t, OnDay(t), NEW k \in DOMAIN sky.ingresses, NEW rule,
         listed - 2 <= DayOfIngress(k), DayOfIngress(k) <= listed + 2
  PROVE  /\ k \in {Ordinal(t), Ordinal(t) + 1}
         /\ SolarStart(t, k % 12, rule) = {Midnight(sky.zone, MonthBegins(k, rule))}
<1> DEFINE at == sky.ingresses[k]
           c == DayOfIngress(k)
           y == YearLength * Day
<1>1. /\ t \in Int /\ InSpan(t) /\ listed \in Int /\ CivilDay(sky.zone, t) = listed
      /\ Day \in Nat \ {0} /\ sky.horizon \in Int /\ sky.polar \in Int /\ Bounded(sky.zone) /\ YearLength \in Int
  BY DayAssumption, MonthsInYear DEF OnDay, InSpan, SunSky, Orderly
<1>2. at \in Int /\ c \in Int /\ c = CivilDay(sky.zone, at)
  BY <1>1, WallOfDate DEF LunarSky, DayOfIngress
<1>3. y \in Int /\ t <= y + 3 * Day
  <2>1. (YearLength + 3) * Day = y + 3 * Day
    BY <1>1
  <2> QED
    BY <1>1, <2>1 DEF InSpan
<1>4. (at + 8 * Day <= y \/ y + 8 * Day <= at) /\ y - 2 * Day < sky.horizon /\ y - 2 * Day < sky.polar
  BY DEF NoStartAtEnd, YearLasts
<1> HIDE DEF at, c, y
<1>5. t + (3 + 2) * Day <= at => listed + 3 <= c
  <2> SUFFICES ASSUME t + (3 + 2) * Day <= at PROVE listed + 3 <= c
    OBVIOUS
  <2> DEFINE n == 3
  <2>1. n \in Int /\ t + (n + 2) * Day <= at
    OBVIOUS
  <2> HIDE DEF n
  <2>2. CivilDay(sky.zone, t) + n <= CivilDay(sky.zone, at)
    BY <1>1, <1>2, <2>1, DatesPass
  <2> QED
    BY <1>1, <1>2, <2>2 DEF n
<1>6. at + (3 + 2) * Day <= t => c + 3 <= listed
  BY <1>1, <1>2, DatesPass
<1>7. t - 5 * Day < at /\ at < t + 5 * Day
  BY <1>1, <1>2, <1>5, <1>6 DEF c
<1>8. k \in {Ordinal(t), Ordinal(t) + 1}
  <2>1. t - 29 * Day < at /\ at < t + 29 * Day
    BY <1>1, <1>2, <1>7
  <2> QED
    BY <1>1, <2>1, OtherSigns DEF at
<1>9. at + 5 * Day < sky.horizon /\ at + 5 * Day < sky.polar
  BY <1>1, <1>2, <1>3, <1>4, <1>7
<1>10. NearYear(DayOfIngress(k))
  BY <1>8, SearchOfDay
<1>11. Known(at + 5 * Day)
  BY <1>9 DEF Known
<1>12. HasDay(DayOfIngress(k))
  BY <1>9, <1>10, <1>11, DayOfEarlyIngress DEF at
<1> QED
  BY <1>8, <1>11, <1>12, SearchOfDay DEF at

\* What is kept by a rule with an offset is found on its day and on no other.
LEMMA DayOneIs ==
  ASSUME NEW margin \in Nat, margin < Day, Orderly(sky, margin), LunarSky(sky), SunSky(sky),
         NoStartAtEnd(sky), YearLasts, NEW t, OnDay(t), KeptBySun, NEW e \in Entries
  PROVE  DayOne(e, t) <=> \E k \in Inner : e.month = k % 12 /\ MonthBegins(k, e.solar) + e.offset = listed
<1> DEFINE o == Ordinal(t)
<1>1. e.month \in 0..11 /\ e.offset \in {-1, 0, 1}
  BY DEF KeptBySun
<1>2. o \in Int /\ {o - 1, o, o + 1, o + 2} \subseteq DOMAIN sky.ingresses /\ InSpan(t) /\ listed \in Int
  BY IngressesOfDay DEF OnDay
<1>3. o \in Inner /\ o + 1 \in Inner
  <2> HIDE DEF o
  <2>1. (o + 1) - 1 = o /\ (o + 1) + 1 = o + 2
    BY <1>2
  <2> QED
    BY <1>2, <2>1 DEF Inner
<1>4. ASSUME DayOne(e, t)
      PROVE  \E k \in Inner : e.month = k % 12 /\ MonthBegins(k, e.solar) + e.offset = listed
  <2>1. PICK s \in SolarStart(t, e.month, e.solar) : date = AddDays(sky.zone, s, e.offset)
    BY <1>4 DEF DayOne
  <2>2. PICK k \in {o, o + 1} : e.month = k % 12
    BY <1>1, <1>2, <2>1, SearchFindsNoOther
  <2>3. s = Midnight(sky.zone, MonthBegins(k, e.solar))
    BY <2>1, <2>2, SearchOfDay
  <2>4. MonthBegins(k, e.solar) + e.offset = listed
    BY <1>1, <2>1, <2>3, DateOfMonth
  <2> QED
    BY <1>3, <2>2, <2>4
<1>5. ASSUME NEW k \in Inner, e.month = k % 12, MonthBegins(k, e.solar) + e.offset = listed
      PROVE  DayOne(e, t)
  <2>1. /\ k \in DOMAIN sky.ingresses /\ DayOfIngress(k) \in Int
        /\ MonthBegins(k, e.solar) \in {DayOfIngress(k), DayOfIngress(k) + 1}
    BY BeginsOnDayOrNext DEF Inner
  <2>2. listed - 2 <= DayOfIngress(k) /\ DayOfIngress(k) <= listed + 2
    BY <1>1, <1>2, <1>5, <2>1
  <2>3. k \in {o, o + 1} /\ SolarStart(t, k % 12, e.solar) = {Midnight(sky.zone, MonthBegins(k, e.solar))}
    BY <2>1, <2>2, StartNearDay
  <2>4. date = AddDays(sky.zone, Midnight(sky.zone, MonthBegins(k, e.solar)), e.offset)
    BY <1>1, <1>5, <2>3, DateOfMonth
  <2> QED
    BY <1>5, <2>3, <2>4 DEF DayOne
<1> QED
  BY <1>4, <1>5

\* Sankranti is found on its day and on no other, for one sign only.
LEMMA SankrantiIs ==
  ASSUME NEW margin \in Nat, margin < Day, Orderly(sky, margin), LunarSky(sky), SunSky(sky),
         NoStartAtEnd(sky), YearLasts, NEW t, OnDay(t), Known(t + Day), NEW sign
  PROVE  sign \in SankrantiDay(t, t + Day)
           <=> \E k \in Inner : sign = k % 12 /\ MonthBegins(k, "sunriseDay") = listed
<1> DEFINE o == Ordinal(t)
           g == sky.ingresses
           rule == "sunriseDay"
           signs == UNION {SunSign(u) : u \in {t - Day, t, t + Day}}
<1>1. /\ o \in Int /\ {o - 1, o, o + 1, o + 2} \subseteq DOMAIN g
      /\ g[o] \in Int /\ g[o + 1] \in Int /\ g[o + 2] \in Int
      /\ g[o] <= t /\ t < g[o + 1] /\ 29 * Day <= g[o + 2] - g[o + 1]
      /\ InSpan(t) /\ t \in Int /\ listed \in Int
  BY SignsAround DEF OnDay, InSpan
<1>2. o \in Inner /\ o + 1 \in Inner
  <2> HIDE DEF o
  <2>1. (o + 1) - 1 = o /\ (o + 1) + 1 = o + 2
    BY <1>1
  <2> QED
    BY <1>1, <2>1 DEF Inner
<1>3. Day \in Nat \ {0} /\ sky.horizon \in Int /\ sky.daytime \in Int /\ sky.daytime < Day
  <2>1. Day \in Nat \ {0}
    BY DayAssumption
  <2> QED
    BY <2>1 DEF SunSky
<1>4. SankrantiDay(t, t + Day) = {x \in signs : SolarStart(t, x, rule) = {date}}
  BY DEF SankrantiDay
<1>5. signs = {Ordinal(t - Day) % 12, Ordinal(t) % 12, Ordinal(t + Day) % 12}
  <2>1. Known(t) /\ Known(t - Day)
    BY <1>1, <1>3 DEF Known
  <2>2. SunSign(t) = {Ordinal(t) % 12} /\ SunSign(t - Day) = {Ordinal(t - Day) % 12}
        /\ SunSign(t + Day) = {Ordinal(t + Day) % 12}
    BY <2>1 DEF SunSign
  <2> QED
    BY <2>2
<1>6. ASSUME sign \in SankrantiDay(t, t + Day)
      PROVE  \E k \in Inner : sign = k % 12 /\ MonthBegins(k, rule) = listed
  <2>1. sign \in signs /\ SolarStart(t, sign, rule) = {date}
    BY <1>4, <1>6
  <2>2. sign \in 0..11
    <3>1. Ordinal(t - Day) \in Int /\ Ordinal(t + Day) \in Int
      <4>1. g[o - 1] \in Int /\ 29 * Day <= g[o] - g[o - 1]
        BY <1>1, SignsAround
      <4>2. t - Day \in Int /\ t + Day \in Int /\ g[o - 1] <= t - Day /\ g[o] <= t + Day
            /\ o - 1 \in DOMAIN g /\ o \in DOMAIN g
        <5> HIDE DEF o
        <5> QED
          BY <1>1, <1>3, <4>1
      <4> HIDE DEF o
      <4> QED
        BY <4>2, OrdinalIsLast
    <3> QED
      BY <1>1, <1>5, <2>1, <3>1
  <2>3. PICK k \in {o, o + 1} : sign = k % 12
    BY <1>1, <2>1, <2>2, SearchFindsNoOther
  <2>4. date = Midnight(sky.zone, MonthBegins(k, rule))
    <3>1. SolarStart(t, k % 12, rule) \subseteq {Midnight(sky.zone, MonthBegins(k, rule))}
      BY <2>3, SearchOfDay
    <3>2. date \in SolarStart(t, k % 12, rule)
      BY <2>1, <2>3
    <3> QED
      BY <3>1, <3>2
  <2>5. MonthBegins(k, rule) = listed
    <3>1. /\ NearYear(DayOfIngress(k)) /\ NearYear(DayOfIngress(k) + 1)
          /\ MonthBegins(k, rule) \in Int /\ MonthBegins(k, rule) \in {DayOfIngress(k), DayOfIngress(k) + 1}
      BY <2>3, SearchOfDay, BeginsOnDayOrNext
    <3> DEFINE b == MonthBegins(k, rule)
    <3>2. b \in Int /\ NearYear(b)
      BY <3>1
    <3>3. NearYear(listed) /\ date = Midnight(sky.zone, listed)
      BY MonthsInYear DEF OnDay, NearYear
    <3>4. date = Midnight(sky.zone, b)
      BY <2>4
    <3> HIDE DEF b
    <3>5. /\ date \in Int
          /\ b < listed => Midnight(sky.zone, b) < Midnight(sky.zone, listed)
          /\ listed < b => Midnight(sky.zone, listed) < Midnight(sky.zone, b)
      BY <3>2, <3>3, DatesInOrder
    <3>6. (b < listed => date < date) /\ (listed < b => date < date)
      BY <3>3, <3>4, <3>5
    <3>7. b = listed
      BY <1>1, <3>2, <3>5, <3>6
    <3> QED
      BY <3>7 DEF b
  <2> QED
    BY <1>2, <2>3, <2>5
<1>7. ASSUME NEW k \in Inner, sign = k % 12, MonthBegins(k, rule) = listed
      PROVE  sign \in SankrantiDay(t, t + Day)
  <2>1. /\ k \in DOMAIN g /\ DayOfIngress(k) \in Int
        /\ MonthBegins(k, rule) \in {DayOfIngress(k), DayOfIngress(k) + 1}
    BY BeginsOnDayOrNext DEF Inner
  <2>2. listed - 2 <= DayOfIngress(k) /\ DayOfIngress(k) <= listed + 2
    BY <1>1, <1>7, <2>1
  <2>3. k \in {o, o + 1} /\ SolarStart(t, k % 12, rule) = {Midnight(sky.zone, MonthBegins(k, rule))}
    BY <2>1, <2>2, StartNearDay
  <2>4. SolarStart(t, sign, rule) = {date}
    BY <1>7, <2>3 DEF OnDay
  <2>5. sign \in signs
    <3>1. CASE k = o
      BY <1>5, <1>7, <3>1
    <3>2. CASE k = o + 1
      <4>1. listed <= DayOfIngress(o + 1)
        BY IngressesOfDay
      <4>2. DayOfIngress(k) = listed
        <5> HIDE DEF o
        <5> QED
          BY <1>1, <1>7, <2>1, <3>2, <4>1
      <4>3. g[k] - SunriseOf(DayOfIngress(k)) < sky.daytime
        <5>1. MonthBegins(k, rule) = IF g[k] - SunriseOf(DayOfIngress(k)) < sky.daytime
                                     THEN DayOfIngress(k) ELSE DayOfIngress(k) + 1
          BY DEF MonthBegins, DayOfIngress
        <5> QED
          BY <1>1, <1>7, <4>2, <5>1
      <4>4. SunriseOf(DayOfIngress(k)) = t
        BY <4>2 DEF OnDay
      <4>5. g[o + 1] <= t + Day /\ t + Day < g[o + 2] /\ t + Day \in Int
        <5>1. g[o + 1] - t < sky.daytime
          BY <3>2, <4>3, <4>4
        <5> HIDE DEF o
        <5> QED
          BY <1>1, <1>3, <5>1
      <4>6. o + 1 \in DOMAIN g /\ (o + 1) + 1 \in DOMAIN g /\ (o + 1) + 1 = o + 2
        <5> HIDE DEF o
        <5> QED
          BY <1>1
      <4>7. Ordinal(t + Day) = o + 1
        <5> HIDE DEF o
        <5> QED
          BY <4>5, <4>6, OrdinalBetween
      <4> QED
        BY <1>5, <1>7, <3>2, <4>7
    <3> QED
      BY <2>3, <3>1, <3>2
  <2> QED
    BY <1>4, <2>4, <2>5
<1> QED
  BY <1>6, <1>7

\* What is due, and on which day.
DueOf(k, x) ==
  \/ x = <<Sankranti(k % 12), MonthBegins(k, "sunriseDay")>>
  \/ \E e \in Entries : e.month = k % 12 /\ x = <<e, MonthBegins(k, e.solar) + e.offset>>

LEMMA DueIs == \A x : x \in Due <=> x[2] \in 0..(YearLength - 1) /\ \E k \in Inner : DueOf(k, x)
<1> DEFINE ofSun(k) == <<Sankranti(k % 12), MonthBegins(k, "sunriseDay")>>
           ofEntries(k) == {<<e, MonthBegins(k, e.solar) + e.offset>> : e \in {x \in Entries : x.month = k % 12}}
<1>1. Due = {x \in UNION {{ofSun(k)} \cup ofEntries(k) : k \in Inner} : x[2] \in 0..(YearLength - 1)}
  BY DEF Due
<1>2. ASSUME NEW k, NEW x
      PROVE  x \in {ofSun(k)} \cup ofEntries(k) <=> DueOf(k, x)
  <2>1. x \in ofEntries(k) <=> \E e \in Entries : e.month = k % 12 /\ x = <<e, MonthBegins(k, e.solar) + e.offset>>
    BY Zenon
  <2> HIDE DEF ofEntries
  <2> QED
    BY <2>1, Zenon DEF DueOf
<1> HIDE DEF ofSun, ofEntries
<1>3. \A x : x \in UNION {{ofSun(k)} \cup ofEntries(k) : k \in Inner} <=> \E k \in Inner : DueOf(k, x)
  BY <1>2, Zenon
<1> QED
  BY <1>1, <1>3, Zenon

\* A day reports what is due on it.
LEMMA ReportsAreDue ==
  ASSUME NEW margin \in Nat, margin < Day, Orderly(sky, margin), LunarSky(sky), SunSky(sky),
         NoStartAtEnd(sky), YearLasts, KeptBySun, NEW d, OnDay(d.rise), d.nextRise = d.rise + Day,
         Known(d.nextRise), CivilDay(sky.zone, date) = listed
  PROVE  Reports(d) = {x \in Due : x[2] = listed}
<1> DEFINE ofSun == {<<Sankranti(sign), listed>> : sign \in SankrantiDay(d.rise, d.nextRise)}
           ofEntries == {<<e, listed>> : e \in {x \in Entries : DayOne(x, d.rise)}}
<1>1. Reports(d) = ofSun \cup ofEntries
  BY Zenon DEF Reports
<1>2. ASSUME NEW x
      PROVE  x \in ofSun <=> \E k \in Inner : /\ x = <<Sankranti(k % 12), MonthBegins(k, "sunriseDay")>>
                                              /\ MonthBegins(k, "sunriseDay") = listed
  <2>1. \A sign : sign \in SankrantiDay(d.rise, d.nextRise)
                    <=> \E k \in Inner : sign = k % 12 /\ MonthBegins(k, "sunriseDay") = listed
    BY SankrantiIs
  <2>2. x \in ofSun <=> \E sign \in SankrantiDay(d.rise, d.nextRise) : x = <<Sankranti(sign), listed>>
    BY Zenon
  <2> HIDE DEF ofSun
  <2> QED
    BY <2>1, <2>2, Zenon
<1>3. ASSUME NEW x
      PROVE  x \in ofEntries <=> \E k \in Inner : \E e \in Entries :
               /\ e.month = k % 12 /\ x = <<e, MonthBegins(k, e.solar) + e.offset>>
               /\ MonthBegins(k, e.solar) + e.offset = listed
  <2>1. \A e \in Entries : DayOne(e, d.rise)
          <=> \E k \in Inner : e.month = k % 12 /\ MonthBegins(k, e.solar) + e.offset = listed
    BY DayOneIs
  <2>2. x \in ofEntries <=> \E e \in Entries : DayOne(e, d.rise) /\ x = <<e, listed>>
    BY Zenon
  <2> HIDE DEF ofEntries
  <2> QED
    BY <2>1, <2>2, Zenon
<1> HIDE DEF ofSun, ofEntries
<1>4. listed \in 0..(YearLength - 1)
  BY MonthsInYear DEF OnDay
<1>5. ASSUME NEW x PROVE x \in ofSun \cup ofEntries <=> x \in Due /\ x[2] = listed
  <2>1. ASSUME NEW k \in Inner
        PROVE  DueOf(k, x) /\ x[2] = listed <=>
                 \/ x = <<Sankranti(k % 12), MonthBegins(k, "sunriseDay")>> /\ MonthBegins(k, "sunriseDay") = listed
                 \/ \E e \in Entries : /\ e.month = k % 12 /\ x = <<e, MonthBegins(k, e.solar) + e.offset>>
                                       /\ MonthBegins(k, e.solar) + e.offset = listed
    BY DEF DueOf
  <2>2. x \in Due /\ x[2] = listed <=> \E k \in Inner : DueOf(k, x) /\ x[2] = listed
    BY <1>4, DueIs
  <2> QED
    BY <1>2, <1>3, <2>1, <2>2
<1> QED
  BY <1>1, <1>5

\* Nothing is due on the last day.
LEMMA NothingOnLastDay ==
  ASSUME NEW margin, Orderly(sky, margin), LunarSky(sky), NoStartAtEnd(sky), KeptBySun, NEW x \in Due
  PROVE  x[2] # YearLength - 1
<1>1. PICK k \in Inner : DueOf(k, x)
  BY DueIs
<1> DEFINE at == sky.ingresses[k]
           c == DayOfIngress(k)
<1>2. k \in DOMAIN sky.ingresses /\ at \in Int /\ c \in Int /\ c = CivilDay(sky.zone, at) /\ Bounded(sky.zone)
  BY BeginsOnDayOrNext DEF Inner, Orderly, DayOfIngress
<1>3. at + 8 * Day <= YearLength * Day \/ YearLength * Day + 8 * Day <= at
  BY <1>2 DEF NoStartAtEnd
<1>4. /\ Day * c \in Int /\ Day * c <= Wall(sky.zone, at) /\ Wall(sky.zone, at) < Day * c + Day
      /\ Wall(sky.zone, at) = at + Offset(sky.zone, at)
      /\ Offset(sky.zone, at) \in Int /\ -Day < Offset(sky.zone, at) /\ Offset(sky.zone, at) < Day
  BY <1>2, WallOfDate, OffsetBounds DEF Wall
<1>5. \E rule : \E n \in {-1, 0, 1} : x[2] = MonthBegins(k, rule) + n
  <2>1. CASE x = <<Sankranti(k % 12), MonthBegins(k, "sunriseDay")>>
    <3>1. MonthBegins(k, "sunriseDay") \in Int
      BY <1>2, BeginsOnDayOrNext
    <3>2. x[2] = MonthBegins(k, "sunriseDay") + 0
      BY <2>1, <3>1
    <3> QED
      BY <3>2
  <2>2. CASE \E e \in Entries : e.month = k % 12 /\ x = <<e, MonthBegins(k, e.solar) + e.offset>>
    BY <2>2 DEF KeptBySun
  <2> QED
    BY <1>1, <2>1, <2>2 DEF DueOf
<1>6. x[2] \in Int /\ c - 1 <= x[2] /\ x[2] <= c + 2
  BY <1>2, <1>5, BeginsOnDayOrNext
<1>7. Day \in Nat \ {0} /\ YearLength \in Int
  BY DayAssumption, MonthsInYear
<1> HIDE DEF at, c
<1>8. CASE at + 8 * Day <= YearLength * Day
  <2>1. Day * c < Day * (YearLength - 6)
    BY <1>2, <1>4, <1>7, <1>8
  <2>2. c < YearLength - 6
    BY <1>2, <1>7, <2>1
  <2> QED
    BY <1>2, <1>6, <1>7, <2>2
<1>9. CASE YearLength * Day + 8 * Day <= at
  <2>1. Day * (YearLength + 6) < Day * c
    BY <1>2, <1>4, <1>7, <1>9
  <2>2. YearLength + 6 < c
    BY <1>2, <1>7, <2>1
  <2> QED
    BY <1>2, <1>6, <1>7, <2>2
<1> QED
  BY <1>3, <1>8, <1>9

\* What was due so far has been reported; if the context ended on the last of the
\* days listed, some of what was due there may be missing.
Reported ==
  /\ reported \subseteq {x \in Due : x[2] < listed}
  /\ \A x \in Due : x[2] < listed /\ ~(ended /\ x[2] = listed - 1) => x \in reported

\* In a year that lasts the days listed have reported what they should; the year
\* lasts if it is answered.
StartInv ==
  /\ result = "asked" => reported = {}
  /\ result \in {"scanning", "answered"} =>
       /\ Accepted(sky)
       /\ listed > 0 => /\ listed * Day - 2 * Day < sky.horizon
                        /\ listed * Day - 2 * Day < sky.polar
       /\ YearLasts => Reported

LEMMA DueKept ==
  ASSUME sky' = sky
  PROVE  Due' = Due /\ (YearLasts <=> YearLasts')
<1>1. \A d : SunriseOf(d)' = SunriseOf(d)
  BY DEF SunriseOf
<1>2. \A k, rule : MonthBegins(k, rule)' = MonthBegins(k, rule)
  BY <1>1 DEF MonthBegins
<1>3. Inner' = Inner
  BY DEF Inner
<1> QED
  BY <1>2, <1>3 DEF Due, YearLasts

LEMMA NextStartInv ==
  ASSUME NEW margin \in Nat, margin < Day, OrderlySkies(margin), LunarSkies, StartSkies,
         ExactInv(margin), StartInv, [Next]_vars
  PROVE  StartInv'
<1>1. CASE Begin
  <2>1. /\ result = "asked" /\ listed = 0 /\ reported = {} /\ UNCHANGED <<sky, listed, reported>>
        /\ result' \in {"scanning", "refused"} /\ (result' = "scanning" => Accepted(sky))
    BY <1>1 DEF Begin, ExactInv, DateInv, StartInv, Accepted
  <2>2. \A x \in Due : x[2] \in Int /\ ~(x[2] < 0)
    BY MonthsInYear, DueIs
  <2>3. Due' = Due
    BY <2>1, DueKept
  <2> QED
    BY <2>1, <2>2, <2>3 DEF StartInv, Reported
<1>2. CASE ScanDay
  <2>1. /\ AtDay /\ result = "scanning" /\ result' = "scanning" /\ sky' = sky /\ listed' = listed + 1
        /\ ~ended
    BY <1>2 DEF ScanDay, AtDay
  <2>2. PICK d \in Today : Known(d.nextRise) /\ \E found \in Found(d, ended') : reported' = reported \cup found
    BY <1>2, Zenon DEF ScanDay
  <2>3. /\ Accepted(sky) /\ sky \in Skies /\ Orderly(sky, margin) /\ SunSky(sky)
        /\ OnDay(d.rise) /\ d.nextRise = d.rise + Day
    BY <2>1, TodayIsDay DEF ExactInv, StartSkies
  <2>4. LunarSky(sky) /\ NoStartAtEnd(sky) /\ KeptBySun
    BY <2>3 DEF LunarSkies, StartSkies
  <2>5. CivilDay(sky.zone, date) = listed
    <3>1. date \in Int /\ listed * Day <= Wall(sky.zone, date) /\ Wall(sky.zone, date) <= listed * Day + margin
      BY <2>1 DEF ExactInv, DateInv
    <3>2. Wall(sky.zone, date) \in Int /\ listed * Day \in Int /\ listed \in Int /\ Day \in Int
      BY <2>3, <3>1, WallsAreInt, DayAssumption DEF Orderly, OnDay
    <3> QED
      BY <3>1, <3>2, WithinDate
  <2>6. YearLasts => Reported'
    <3> SUFFICES ASSUME YearLasts PROVE Reported'
      OBVIOUS
    <3>1. Reports(d) = {x \in Due : x[2] = listed}
      BY <2>2, <2>3, <2>4, <2>5, ReportsAreDue
    <3>2. PICK found : /\ reported' = reported \cup found
                       /\ found \subseteq Reports(d) /\ (~ended' => found = Reports(d))
      BY <2>2 DEF Found
    <3>3. reported = {x \in Due : x[2] < listed}
      BY <2>1 DEF StartInv, Reported
    <3>4. listed \in Int /\ \A x \in Due : x[2] \in Int
      BY <2>3, MonthsInYear, DueIs DEF OnDay
    <3>5. \A x \in Due : /\ x[2] < listed + 1 <=> x[2] < listed \/ x[2] = listed
                         /\ x[2] = (listed + 1) - 1 <=> x[2] = listed
      <4>1. (listed + 1) - 1 = listed
        BY <3>4
      <4>2. ASSUME NEW x \in Due PROVE x[2] < listed + 1 <=> x[2] < listed \/ x[2] = listed
        BY <3>4
      <4> QED
        BY <4>1, <4>2
    <3>6. Due' = Due
      BY <2>1, DueKept
    <3>7. ASSUME NEW x
          PROVE  /\ x \in found => x \in Due /\ x[2] = listed
                 /\ x \in Due /\ x[2] = listed /\ ~ended' => x \in found
                 /\ x \in reported <=> x \in Due /\ x[2] < listed
                 /\ x \in reported' <=> x \in reported \/ x \in found
      <4>1. x \in Reports(d) <=> x \in Due /\ x[2] = listed
        BY <3>1, Zenon
      <4>2. x \in reported <=> x \in Due /\ x[2] < listed
        BY <3>3, Zenon
      <4> QED
        BY <3>2, <4>1, <4>2, Zenon
    <3>8. reported' \subseteq {x \in Due : x[2] < listed + 1}
      <4> SUFFICES ASSUME NEW x \in reported' PROVE x \in Due /\ x[2] < listed + 1
        OBVIOUS
      <4> QED
        BY <3>5, <3>7, Zenon
    <3>9. \A x \in Due : x[2] < listed + 1 /\ ~(ended' /\ x[2] = (listed + 1) - 1) => x \in reported'
      <4> SUFFICES ASSUME NEW x \in Due, x[2] < listed + 1, ~(ended' /\ x[2] = (listed + 1) - 1)
                   PROVE  x \in reported'
        OBVIOUS
      <4>1. x[2] < listed \/ (x[2] = listed /\ ~ended')
        BY <3>5
      <4> QED
        BY <3>7, <4>1, Zenon
    <3> QED
      BY <2>1, <3>6, <3>8, <3>9 DEF Reported
  <2>7. (listed + 1) * Day - 2 * Day < sky.horizon /\ (listed + 1) * Day - 2 * Day < sky.polar
    <3> DEFINE rise == d.rise
    <3>1. /\ rise \in Int /\ CivilDay(sky.zone, rise) = listed /\ listed \in Int
          /\ Known(rise) /\ rise + sky.daytime < sky.polar
      BY <2>3 DEF OnDay, InSpan
    <3>2. Day \in Nat \ {0} /\ Bounded(sky.zone)
      BY <2>3, DayAssumption DEF Orderly
    <3>3. /\ 0 <= sky.daytime /\ sky.daytime \in Int /\ sky.horizon \in Int /\ sky.polar \in Int
      BY <2>3, <3>2 DEF SunSky
    <3> HIDE DEF rise
    <3>4. /\ Day * listed \in Int /\ Day * listed <= Wall(sky.zone, rise)
          /\ Wall(sky.zone, rise) = rise + Offset(sky.zone, rise)
          /\ Offset(sky.zone, rise) \in Int /\ Offset(sky.zone, rise) < Day
      BY <3>1, <3>2, WallOfDate, OffsetBounds DEF Wall
    <3>5. (listed + 1) * Day - 2 * Day = Day * listed - Day
      BY <3>1, <3>2
    <3>6. Day * listed - Day < sky.horizon /\ Day * listed - Day < sky.polar
      BY <3>1, <3>2, <3>3, <3>4 DEF Known
    <3> QED
      BY <3>5, <3>6
  <2>8. Due' = Due /\ (YearLasts <=> YearLasts')
    BY <2>1, DueKept
  <2> QED
    BY <2>1, <2>3, <2>6, <2>7, <2>8 DEF StartInv
<1>3. CASE NextMonth \/ UNCHANGED vars
  <2>1. /\ UNCHANGED <<sky, listed, reported, ended>>
        /\ result' = result \/ (result = "scanning" /\ result' \in {"scanning", "answered"})
    BY <1>3 DEF NextMonth, vars
  <2>2. Due' = Due /\ (YearLasts <=> YearLasts')
    BY <2>1, DueKept
  <2> QED
    BY <2>1, <2>2 DEF StartInv, Reported
<1>4. CASE DayFails \/ Ended
  BY <1>4 DEF DayFails, Ended, Fail, StartInv
<1> QED
  BY <1>1, <1>2, <1>3, <1>4 DEF Next

\* In an answered year every Sankranti and every festival that counts from the first
\* day of a solar month is reported on its day, and nothing else is: no day misses an
\* ingress or takes it twice, however the search estimates it.  No lookup that matters
\* fails silently: the sunrises and positions that it needs are there in a year that
\* could be answered, and when the context ends among a day's lookups either the next
\* look at it fails the year or that day was the last, on which nothing is due
\* (calendar.go:233-235, 302-368, 433-447, 594-597).
THEOREM StartsAreReportedOnce ==
  ASSUME NEW margin \in Nat, margin < Day, OrderlySkies(margin), LunarSkies, StartSkies
  PROVE  Spec => []StartsOnce
<1>1. Init => ExactInv(margin) /\ StartInv
  <2>1. Init => StartInv
    BY DEF Init, StartInv
  <2> QED
    BY <2>1, ExactInvHolds DEF StartSkies
<1>2. ExactInv(margin) /\ StartInv /\ [Next]_vars => ExactInv(margin)' /\ StartInv'
  BY ExactInvHolds, NextStartInv DEF StartSkies
<1>3. ExactInv(margin) /\ StartInv => StartsOnce
  <2> SUFFICES ASSUME ExactInv(margin), StartInv, result = "answered" PROVE reported = Due
    BY DEF StartsOnce
  <2>1. listed = YearLength /\ YearLength \in Int
    BY MonthsInYear DEF ExactInv, DateInv
  <2>2. YearLength > 0
    <3>1. 1 \in Months
      BY YearAssumption DEF Months
    <3> QED
      BY <3>1, MonthFacts, YearAssumption
  <2>3. YearLasts
    BY <2>1, <2>2 DEF StartInv, YearLasts
  <2>4. Orderly(sky, margin) /\ LunarSky(sky) /\ NoStartAtEnd(sky) /\ KeptBySun
    BY DEF StartInv, ExactInv, DateInv, OrderlySkies, LunarSkies, StartSkies
  <2>5. \A x \in Due : x[2] < YearLength /\ x[2] # YearLength - 1
    BY <2>1, <2>4, DueIs, NothingOnLastDay
  <2>6. reported \subseteq Due /\ \A x \in Due : x \in reported
    BY <2>1, <2>3, <2>5 DEF StartInv, Reported
  <2> QED
    BY <2>6
<1> QED
  BY <1>1, <1>2, <1>3, PTL DEF Spec
=============================================================================
