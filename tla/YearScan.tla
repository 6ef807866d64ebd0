------------------------------ MODULE YearScan ------------------------------
(***************************************************************************)
(* internal/panchang/festivals.go, Year: the walk over the civil dates of  *)
(* a year in monthly ephemeris sessions, carrying the lunar month from day *)
(* to day, and what it takes from calendar.go by the Sun: solar months,    *)
(* their first days and Sankranti.  Lunar festivals are in DayRules.       *)
(*                                                                         *)
(* Date 0 is the first of January.  A lookup that returns an error is a    *)
(* set without elements, one that succeeds a set with its result.          *)
(***************************************************************************)
EXTENDS LocalTime, Sequences, FiniteSetsExt

CONSTANTS Firsts,    \* the date each month begins on; at the end, the year's length
          Skies,     \* places and skies: zone, sunrise, daytime, moons, ingresses,
                     \* horizon (positions fail from then on), polar (no rise or set)
          Entries,   \* solarDayOne entries: month, solar (the rule), offset
          Synodic,   \* synodicMonth
          Lunar      \* the lunar month before the first day: the zero struct

Rules == {"sunriseDay", "tamil", "malayalam", "bengali"}
Months == 1..(Len(Firsts) - 1)
YearLength == Firsts[Len(Firsts)]

ASSUME YearAssumption ==
  /\ Firsts \in Seq(Nat) /\ Len(Firsts) > 1 /\ Firsts[1] = 0
  /\ \A m \in Months : Firsts[m] < Firsts[m + 1]

VARIABLES sky,       \* the place and its sky
          month,     \* m
          date,      \* date
          lunar,     \* lunar: prev, next, index, adhika
          listed,    \* days already listed
          reported,  \* out.Festivals, as pairs of what and the label it got
          ended,     \* ctx has ended while a day was decided
          result     \* asked, scanning, answered, failed, refused

vars == <<sky, month, date, lunar, listed, reported, ended, result>>

-----------------------------------------------------------------------------
(* The sky, as the session shows it.                                       *)

Known(t) == t < sky.horizon

\* RiseSet: the first event at or after t.
RiseSet(t, event) ==
  LET found == t + ((event - t) % Day) IN IF Known(t) /\ found < sky.polar THEN {found} ELSE {}
Sunrise(t) == RiseSet(t, sky.sunrise)
Sunset(t) == RiseSet(t, sky.sunrise + sky.daytime)

\* sunSign, counted on through the years.
Ordinal(t) == Max({k \in DOMAIN sky.ingresses : sky.ingresses[k] <= t})
SunSign(t) == IF Known(t) THEN {Ordinal(t) % 12} ELSE {}

\* The Sun's longitude in hundredths of a degree, even within a sign.
SunLongitude(t) ==
  LET k == Ordinal(t)
  IN 3000 * k + ((t - sky.ingresses[k]) * 3000) \div (sky.ingresses[k + 1] - sky.ingresses[k])

LastMoon(t) == Max({n \in sky.moons : n <= t})
MoonAfter(t) == Min({n \in sky.moons : n > t})

-----------------------------------------------------------------------------
(* calendar.go: the lunar month (lines 84-161).                            *)

Bracket == 3 * Day

\* Mutant: only the conjunction itself is read.
NewMoonAlone(guess) == {n \in sky.moons : guess - Bracket < n /\ n < guess + Bracket /\ Known(n)}

NewMoon(guess) ==
  {n \in sky.moons : guess - Bracket < n /\ n < guess + Bracket /\ Known(guess + Bracket)}

\* The elongation gives the age of the Moon in mean months.
Guess(t) == t - ((t - LastMoon(t)) * Synodic) \div (MoonAfter(t) - LastMoon(t))

MoonBefore(t) ==
  UNION {IF n <= t THEN {n} ELSE NewMoon(n - Synodic) : n \in IF Known(t) THEN NewMoon(Guess(t)) ELSE {}}

LunarMonth(t) ==
  UNION {{[prev |-> p, next |-> n, index |-> (Ordinal(p) + 1) % 12, adhika |-> Ordinal(p) = Ordinal(n)] :
            n \in NewMoon(p + Synodic)} : p \in MoonBefore(t)}

\* Mutant: the month is looked up once per session.
MonthTodayBySession(rise) ==
  IF \E m \in Months : listed = Firsts[m] THEN LunarMonth(rise) ELSE {lunar}

\* Year keeps the lunar month while it lasts (festivals.go:109-113).
MonthToday(rise) == IF lunar.prev <= rise /\ rise < lunar.next THEN {lunar} ELSE LunarMonth(rise)

\* calendar: the year of the governing Chaitra, here 0 or the one before.  Mutant:
\* the year of the month itself.
SamvatByMonth(moon) == IF CivilDay(sky.zone, moon.prev) < 0 THEN -1 ELSE 0
Samvat(moon) == IF CivilDay(sky.zone, moon.prev - moon.index * Synodic) < 0 THEN -1 ELSE 0

-----------------------------------------------------------------------------
(* calendar.go: solar months (lines 300-385) and Sankranti (231-248, 433-447). *)

\* The date on which the ingress at an instant begins its month.
StartDate(at, rule) ==
  LET civil == Midnight(sky.zone, CivilDay(sky.zone, at))
      next == AddDays(sky.zone, civil, 1)
      before(rise, set) ==
        CASE rule = "malayalam" -> 5 * (at - rise) < 3 * (set - rise)
          [] OTHER -> at < set
  IN IF rule = "bengali" THEN {next}
     ELSE UNION {{IF before(rise, set) THEN civil ELSE next : set \in Sunset(rise)} : rise \in Sunrise(civil)}

\* findSolarStart: the ingress within 24 degrees of the sunrise, at the mean rate, as
\* long as the context has not ended.
SolarStart(rise, sign, rule) ==
  LET delta == ((3000 * sign - SunLongitude(rise) + 54000) % 36000) - 18000
      guess == rise + (delta * Day * 100) \div 9856
      lo == guess - Bracket
      hi == guess + Bracket
  IN IF /\ Known(rise) /\ delta \in -2400..2400
        /\ SunSign(lo) = {(sign + 11) % 12} /\ SunSign(hi) = {sign}
     THEN StartDate(sky.ingresses[Ordinal(hi)], rule)
     ELSE {}

\* Mutant: the month changes with the Sun.
SolarMonthOfSun(rise, rule) == SunSign(rise)

\* solarMonth: the month in force on the day of this sunrise.
SolarMonth(rise, rule) ==
  LET of(sign) ==
        CASE \E s \in SolarStart(rise, (sign + 1) % 12, rule) : date >= s -> (sign + 1) % 12
          [] \E s \in SolarStart(rise, sign, rule) : date < s -> (sign + 11) % 12
          [] OTHER -> sign
  IN {of(sign) : sign \in SunSign(rise)}

\* Mutant: only the sign at sunrise.
SankrantiDayAtSunrise(rise, nextRise) ==
  {sign \in SunSign(rise) : SolarStart(rise, sign, "sunriseDay") = {date}}

\* sankrantiDay looks at three signs; two of them never begin on one day.
SankrantiDay(rise, nextRise) ==
  {sign \in UNION {SunSign(t) : t \in {rise - Day, rise, nextRise}} :
     SolarStart(rise, sign, "sunriseDay") = {date}}

\* solarDayOne (lines 594-597).
DayOne(entry, rise) ==
  \E s \in SolarStart(rise, entry.month, entry.solar) : date = AddDays(sky.zone, s, entry.offset)

-----------------------------------------------------------------------------
(* Year.                                                                   *)

Init ==
  /\ sky \in Skies
  /\ month = 1
  /\ date = 0
  /\ lunar = Lunar
  /\ listed = 0
  /\ reported = {}
  /\ ended = FALSE
  /\ result = "asked"

\* Validate: the first of January must be the date it is read as.
Begin ==
  /\ result = "asked"
  /\ IF CivilDay(sky.zone, Midnight(sky.zone, 0)) = 0
     THEN result' = "scanning" /\ date' = Midnight(sky.zone, 0)
     ELSE result' = "refused" /\ UNCHANGED date
  /\ UNCHANGED <<sky, month, lunar, listed, reported, ended>>

\* date.Month() == m.
InMonth == CivilDay(sky.zone, date) \in Firsts[month]..(Firsts[month + 1] - 1)

\* The events of the day from date to the next, if none of them is missing.
DayOf(start, end) ==
  LET days == UNION {{[rise |-> r, set |-> s, nextRise |-> n] : s \in Sunset(r), n \in Sunrise(end)} :
                       r \in Sunrise(start)}
  IN {d \in days :
        /\ d.rise < end /\ d.rise < d.set /\ d.set < d.nextRise /\ d.nextRise - d.rise < 2 * Day
        /\ \E p \in Sunset(d.rise - Day) : p < d.rise}
Today == DayOf(date, AddDays(sky.zone, date, 1))

Sankranti(sign) == [month |-> sign, solar |-> "sankranti", offset |-> 0]

Reports(d) ==
  {<<Sankranti(sign), CivilDay(sky.zone, date)>> : sign \in SankrantiDay(d.rise, d.nextRise)}
  \cup {<<e, CivilDay(sky.zone, date)>> : e \in {x \in Entries : DayOne(x, d.rise)}}

\* From the end of the context on each search for an ingress gives up, and its caller
\* takes that for a month that does not begin: some of the day's reports are missing.
Found(d, over) == IF over THEN SUBSET Reports(d) ELSE {Reports(d)}

\* One round of the loop without an error, although the context may end in it.
ScanDay ==
  /\ result = "scanning" /\ InMonth /\ ~ended
  /\ ended' \in BOOLEAN
  /\ \E d \in Today : \E moon \in MonthToday(d.rise), found \in Found(d, ended') :
       /\ Known(d.nextRise)
       /\ lunar' = moon
       /\ reported' = reported \cup found
  /\ date' = AddDays(sky.zone, date, 1)
  /\ listed' = listed + 1
  /\ UNCHANGED <<sky, month, result>>

\* There is no sunrise or sunset, a position fails, or there is no new moon where one
\* must be; or the context has ended at the next look at it, before a day or a
\* session: the year ends without an answer.
Fail ==
  /\ result' = "failed" /\ ended' = FALSE
  /\ month' = 1 /\ date' = 0 /\ lunar' = Lunar /\ listed' = 0 /\ reported' = {}
  /\ UNCHANGED sky
Ended == result = "scanning" /\ (InMonth \/ month + 1 \in Months) /\ Fail
DayFails ==
  /\ result = "scanning" /\ InMonth /\ ~ended
  /\ \A d \in Today : MonthToday(d.rise) = {} \/ ~Known(d.nextRise)
  /\ Fail

\* The next monthly session, from its own first of the month.  Nothing looks at the
\* context after the last one.
NextMonth ==
  /\ result = "scanning" /\ ~InMonth
  /\ IF month + 1 \in Months
     THEN /\ ~ended
          /\ month' = month + 1
          /\ date' = Midnight(sky.zone, Firsts[month + 1])
          /\ UNCHANGED result
     ELSE result' = "answered" /\ UNCHANGED <<month, date>>
  /\ UNCHANGED <<sky, lunar, listed, reported, ended>>

Next == Begin \/ ScanDay \/ DayFails \/ Ended \/ NextMonth

Spec == Init /\ [][Next]_vars

-----------------------------------------------------------------------------
(* What the year should say, read off the sky without any search.          *)

AtDay == result = "scanning" /\ InMonth

TrueMonth(t) ==
  LET p == LastMoon(t) n == MoonAfter(t)
  IN [prev |-> p, next |-> n, index |-> (Ordinal(p) + 1) % 12,
      adhika |-> ~\E k \in DOMAIN sky.ingresses : p < sky.ingresses[k] /\ sky.ingresses[k] <= n]

\* The sunrise of a date, and the date on which the k-th ingress begins its month.
SunriseOf(d) ==
  CHOOSE r \in {sky.sunrise + j * Day : j \in (d - 2)..(d + 2)} : CivilDay(sky.zone, r) = d
MonthBegins(k, rule) ==
  LET at == sky.ingresses[k]
      d == CivilDay(sky.zone, at)
      since == at - SunriseOf(d)
      early == CASE rule = "bengali" -> FALSE
                 [] rule = "malayalam" -> 5 * since < 3 * sky.daytime
                 [] OTHER -> since < sky.daytime
  IN IF early THEN d ELSE d + 1

\* The ingresses far enough from the edges of the sky that is given.
Inner == {k \in DOMAIN sky.ingresses : {k - 1, k + 1} \subseteq DOMAIN sky.ingresses}

Due ==
  LET ofSun(k) == <<Sankranti(k % 12), MonthBegins(k, "sunriseDay")>>
      ofEntries(k) == {<<e, MonthBegins(k, e.solar) + e.offset>> : e \in {x \in Entries : x.month = k % 12}}
  IN {x \in UNION {{ofSun(k)} \cup ofEntries(k) : k \in Inner} : x[2] \in 0..(YearLength - 1)}

-----------------------------------------------------------------------------

TypeOK ==
  /\ sky \in Skies
  /\ month \in Months
  /\ date \in Int
  /\ DOMAIN lunar = {"prev", "next", "index", "adhika"} /\ lunar.index \in 0..11
  /\ listed \in 0..YearLength
  /\ reported \subseteq (Entries \cup {Sankranti(s) : s \in 0..11}) \X Int
  /\ ended \in BOOLEAN
  /\ result \in {"asked", "scanning", "answered", "failed", "refused"}

\* The dates of the year are listed one after another, each once and each with
\* its own sunrise, over changes of the clock and the seams between monthly
\* sessions (festivals.go:73-94, AddDate and the date of an Occurrence).
DatesOnce ==
  /\ AtDay => /\ CivilDay(sky.zone, date) = listed
              /\ \A d \in Today : CivilDay(sky.zone, d.rise) = listed
  /\ result = "answered" => listed = YearLength

\* The lunar month a day gets, mostly carried from an earlier day and often
\* from an earlier session, is the one that is in force at its sunrise: the
\* searches around estimated new moons never take a neighbour
\* (festivals.go:109-113, calendar.go:84-161).
MonthIsInForce ==
  AtDay => \A d \in Today : \A moon \in MonthToday(d.rise) : moon = TrueMonth(d.rise)

\* In an answered year every Sankranti and every first day of a solar month,
\* with what is kept a day before or after it, is reported once, on its day.
\* Each day looks for the ingress by itself, and a lookup that fails there, for want
\* of a position or because the context has ended, reports nothing and no error
\* (calendar.go:233-235, 302-368, 433-447, 594-597).
StartsOnce == result = "answered" => reported = Due

\* On every day exactly the month whose first day came last is in force, by
\* each rule, also between an ingress and the day it counts from
\* (calendar.go:371-385).
SolarMonthInForce ==
  AtDay => \A d \in Today : Known(d.rise + 30 * Day) =>
    \A rule \in Rules :
      SolarMonth(d.rise, rule) =
        {Max({k \in (Ordinal(d.rise) - 1)..(Ordinal(d.rise) + 1) : MonthBegins(k, rule) <= listed}) % 12}

\* The tithis a listed day reads, the last at the end of the next evening's nishita,
\* come from positions that do not fail: the search for the next new moon has read
\* further.  Otherwise a tithi 0, which no rule matches, would silently drop a
\* festival (calendar.go:284-290, 479-516).  The searches for ingresses look further
\* ahead and may fail on a listed day; what that loses is StartsOnce's concern.
WindowsKnown ==
  AtDay => \A d \in Today : MonthToday(d.rise) # {} /\ Known(d.nextRise) =>
    Known(d.set + Day + (8 * (d.nextRise - d.set)) \div 15)

\* The samvat changes with the month of Chaitra and with no other, although it
\* is counted back from every month by mean months (calendar.go:180-182).
SamvatTurns ==
  [][result' = "scanning" /\ listed > 0 /\ lunar' # lunar =>
       Samvat(lunar') - Samvat(lunar) = IF lunar'.index < lunar.index THEN 1 ELSE 0]_vars
=============================================================================
