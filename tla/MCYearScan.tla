---------------------------- MODULE MCYearScan ----------------------------
(* YearScan for TLC: four months of hours, zones with the changes of clocks    *)
(* that the time zone database has, and skies around real dates of the Sun.   *)
EXTENDS YearScan

FourMonths == <<0, 31, 59, 90, 120>>
NoMonth == [prev |-> 0, next |-> 0, index |-> 0, adhika |-> FALSE]
Ever == 1000000

Zone(first, changes) == [first |-> first, changes |-> changes]
Change(at, offset) == [at |-> at, offset |-> offset]

\* A clock that never changes; an hour forward at two in March; an hour back at
\* midnight in April, west of UTC; an hour forward at midnight, east of it; one
\* whose first of January begins at one in the morning, west of UTC.
Kolkata == Zone(5, {})
NewYork == Zone(-5, {Change(66 * 24 + 2 + 5, -4)})
Santiago == Zone(-3, {Change(95 * 24 + 3, -4)})
Beirut == Zone(2, {Change(87 * 24 - 2, 3)})
Lisbon1912 == Zone(-1, {Change(1, 0)})

\* An hour forward at midnight, west of UTC.
Havana == Zone(-5, {Change(67 * 24 + 5, -4)})

\* An hour forward at midnight, east of UTC, a week before the Sun enters Mesha.
Karachi2002 == Zone(5, {Change(96 * 24 - 5, 6)})

\* Months of the Moon between 29.3 and 29.8 days, the first new moon on a date
\* of December; the Sun enters Makara at an hour of January, Dhanu before it.
MoonsFrom(n, length) == {n + k * length + (k % 2) * 4 : k \in -3..8}
IngressesFrom(g, length) == [k \in 5..16 |-> g + (k - 9) * length + (IF k > 10 THEN 8 ELSE 0)]

Sky(zone, moon, length, ingress, sign, horizon, polar) ==
  [zone |-> zone, sunrise |-> 6 - zone.first, daytime |-> 11, moons |-> MoonsFrom(moon, length),
   ingresses |-> IngressesFrom(ingress, sign), horizon |-> horizon, polar |-> polar]

\* First new moons with the lengths of the months of Moon and Sun: with the long
\* months of the Sun some of the Moon's are Adhika.
Months3 ==
  {<<-29 * 24, 704, 732>>, <<-23 * 24 + 5, 712, 708>>, <<-16 * 24 + 14, 704, 732>>, <<-3 * 24 + 19, 708, 720>>}
IngressHours == {13 * 24 + h : h \in {0, 1, 3, 5, 7, 9, 10, 11, 12, 13, 15, 18, 20, 22}}

Plain ==
  {Sky(z, m[1], m[2], g, m[3], Ever, Ever) :
     z \in {Kolkata, NewYork, Santiago, Beirut}, m \in Months3, g \in IngressHours}

\* The ephemeris ends some days after the months, or within them a few days
\* after the third new moon; the sun stops rising in April.
Short ==
  {Sky(Kolkata, m[1], m[2], 13 * 24 + 10, m[3], (120 + d) * 24, Ever) :
     m \in Months3, d \in {1, 3, 6, 10, 20, 33}}
Ending ==
  {Sky(Kolkata, m[1], m[2], 13 * 24 + 10, m[3], m[1] + 3 * m[2] + h, Ever) :
     m \in Months3, h \in {20, 40, 71, 73, 76, 78, 82}}
Dark == {Sky(Kolkata, 0, 708, 13 * 24 + 10, 708, Ever, 95 * 24)}
Refused == {Sky(Lisbon1912, 0, 708, 13 * 24 + 10, 708, Ever, Ever)}

PlainSkies == Plain \cup Short \cup Ending \cup Dark \cup Refused
GapSkies == {Sky(Havana, -29 * 24, 704, 13 * 24 + 10, 732, Ever, Ever)}
LateSkies == {Sky(Karachi2002, -29 * 24, 704, 13 * 24 + 10, 732, Ever, Ever)}

\* Lohri, Thai Pongal, Mattu Pongal, Magh Bihu; Vishu, Puthandu, Poila Baishakh.
DayOnes ==
  {[month |-> 9, solar |-> "tamil", offset |-> o] : o \in -1..1}
  \cup {[month |-> 9, solar |-> "bengali", offset |-> 0]}
  \cup {[month |-> 0, solar |-> r, offset |-> 0] : r \in Rules}
=============================================================================
