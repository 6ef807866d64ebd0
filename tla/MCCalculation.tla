--------------------------- MODULE MCCalculation ---------------------------
(* Calculation for TLC: births and dates beside every kind of change of       *)
(* clocks, cusps that wrap, crowd and coincide, and limbs at the slowest and   *)
(* fastest the Moon and the Sun move.                                         *)
EXTENDS Calculation

DayTicks == 10800000
Hour == 450000
Minute == 7500

Zone(first, changes) == [first |-> first, changes |-> changes]
Change(at, offset) == [at |-> at, offset |-> offset]

\* Changes on date 3, at two in the morning by the clock there.
Kolkata == Zone(5 * Hour + 30 * Minute, {})
Berlin == Zone(Hour, {Change(3 * DayTicks + Hour, 2 * Hour)})
NewYork == Zone(-4 * Hour, {Change(3 * DayTicks + 6 * Hour, -5 * Hour)})
LordHowe == Zone(11 * Hour, {Change(3 * DayTicks - 9 * Hour, 10 * Hour + 30 * Minute)})

\* At midnight: an hour back to date 2 west of UTC, an hour forward east of it
\* and west of it, and a date left out.
Santiago == Zone(-3 * Hour, {Change(3 * DayTicks + 3 * Hour, -4 * Hour)})
Beirut == Zone(2 * Hour, {Change(3 * DayTicks - 2 * Hour, 3 * Hour)})
Havana == Zone(-5 * Hour, {Change(3 * DayTicks + 5 * Hour, -4 * Hour)})
Apia == Zone(-10 * Hour, {Change(3 * DayTicks + 10 * Hour, 14 * Hour)})

\* Two changes, a day and an hour apart.
Twice == Zone(Hour, {Change(3 * DayTicks + Hour, 2 * Hour), Change(4 * DayTicks + 2 * Hour, 3 * Hour)})

Zones == {Kolkata, Berlin, NewYork, LordHowe, Santiago, Beirut, Havana, Apia, Twice}

MCBirths ==
  {[zone |-> z, date |-> d, clock |-> c] :
     z \in Zones, d \in 1..5,
     c \in {0, 30 * Minute, 90 * Minute, 2 * Hour, 2 * Hour + 15 * Minute, 3 * Hour, 12 * Hour,
            23 * Hour + 30 * Minute}}

\* Instants of the day, by the clock of the zone at first: an early and a late
\* sunrise, a polar day, and a Moon that rises around midnight or not at all.
MCDates ==
  {[zone |-> z, date |-> d, sunUp |-> up - z.first, sunDown |-> down - z.first, moonUp |-> moon - z.first] :
     z \in Zones, d \in {2, 3},
     up \in {5 * Hour + 1061, 7 * Hour + 777}, down \in {18 * Hour + 62},
     moon \in {1000, 30 * Minute, 12 * Hour, 23 * Hour + 30 * Minute}}
  \cup {[zone |-> z, date |-> d, sunUp |-> up, sunDown |-> 18 * Hour, moonUp |-> Never] :
          z \in {Kolkata, NewYork}, d \in {2, 3}, up \in {6 * Hour, Never}}
  \cup {[zone |-> NewYork, date |-> 2, sunUp |-> 4 * Hour + 10 * Minute, sunDown |-> down, moonUp |-> Never] :
          down \in {4 * Hour, 3 * Hour}}

\* Six arcs from the ascendant on, and the same again opposite.
Cusps(start, arcs) ==
  [h \in 1..12 |->
     (start + (IF h > 6 THEN 180 ELSE 0)
      + (LET n == (h - 1) % 6
         IN (IF n > 0 THEN arcs[1] ELSE 0) + (IF n > 1 THEN arcs[2] ELSE 0) + (IF n > 2 THEN arcs[3] ELSE 0)
            + (IF n > 3 THEN arcs[4] ELSE 0) + (IF n > 4 THEN arcs[5] ELSE 0))) % 360]

Arcs == {<<30, 30, 30, 30, 30, 30>>, <<10, 20, 60, 60, 20, 10>>, <<60, 25, 5, 5, 25, 60>>,
         <<0, 0, 90, 90, 0, 0>>, <<90, 0, 0, 0, 0, 90>>, <<2, 87, 1, 1, 87, 2>>}

MCCharts ==
  {[cusps |-> Cusps(start, arcs), longitudes |-> ls] :
     start \in {0, 15, 300, 359}, arcs \in Arcs,
     ls \in {{0, 8, 60, 97, 180}, {352, 5, 30, 128, 262}, {359, 299, 90, 14, 172}}}

\* Degrees a day, slowest and fastest, in units of 1/750 degree.
Speeds(limb) ==
  CASE limb \in {"tithi", "karana"} -> {8150, 10750}
    [] limb = "yoga" -> {9550, 12200}
    [] OTHER -> {8840, 11490}
MCMoons ==
  [k \in {"tithi", "nakshatra", "yoga", "karana", "moon_rashi"} |->
     {[phase |-> p, rate |-> r] : p \in {0, 123457, 239999, 261300}, r \in Speeds(k)}]
=============================================================================
