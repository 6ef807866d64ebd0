------------------------------ MODULE LocalTime ------------------------------
(***************************************************************************)
(* Civil time in a time zone, as the service uses Go's package time: wall  *)
(* clocks, the first instant of a date, the step to the next date, and     *)
(* the birth instant of a chart (internal/chart/chart.go, Resolve).        *)
(*                                                                         *)
(* Instants and wall clocks are integers in the same unit; a wall clock is *)
(* an instant plus the offset in force, and date d begins at wall d * Day. *)
(* A zone is the offset it starts with and its changes.                    *)
(***************************************************************************)
EXTENDS Integers, FiniteSets

CONSTANT Day

ASSUME DayAssumption == Day \in Nat \ {0}

Offset(zone, t) ==
  LET past == {c \in zone.changes : c.at <= t}
  IN IF past = {} THEN zone.first
     ELSE (CHOOSE c \in past : \A d \in past : d.at <= c.at).offset

Wall(zone, t) == t + Offset(zone, t)
CivilDay(zone, t) == Wall(zone, t) \div Day

\* time.Date: the offset is looked up as if the wall clock were UTC, and again
\* at the instant that gives.  A wall clock in a gap comes out an hour early
\* west of UTC and an hour late east of it.
Instant(zone, wall) == wall - Offset(zone, wall - Offset(zone, wall))

\* The beginning of date d, and t.AddDate(0, 0, n).
Midnight(zone, d) == Instant(zone, d * Day)

\* Mutant: a date is always a whole day of elapsed time.
AddDaysElapsed(zone, t, n) == t + n * Day

AddDays(zone, t, n) == Instant(zone, Wall(zone, t) + n * Day)

-----------------------------------------------------------------------------
(* Resolve (chart.go:66-80): the offsets in force at five instants around   *)
(* the wall clock, and the instants among them that show it.                *)

\* Mutant: only the offsets on either side.
SampledAround(zone, wall) == {Offset(zone, wall + k * Day) : k \in {-1, 1}}

Sampled(zone, wall) == {Offset(zone, wall + k * Day) : k \in -2..2}

Candidates(zone, wall) ==
  {t \in {wall - o : o \in Sampled(zone, wall)} : Wall(zone, t) = wall}

\* One candidate is the birth instant; a gap has none and an overlap two.
Resolves(zone, wall) == Cardinality(Candidates(zone, wall)) = 1
=============================================================================
