-------------------------------- MODULE Limbs --------------------------------
(***************************************************************************)
(* internal/panchang/panchang.go and chaughadiya.go: the parts of a day    *)
(* that follow the Moon (tithi, nakshatra, yoga, karana, Moon's sign) and   *)
(* those that divide it.                                                   *)
(*                                                                         *)
(* A tick is 8 ms, the 1e-7 of a day by which transitions steps over a     *)
(* boundary; a degree has 750 units.                                       *)
(***************************************************************************)
EXTENDS Integers, Sequences

Second == 125
Circle == 270000

Kinds == <<"tithi", "nakshatra", "yoga", "karana", "moon_rashi">>

\* transitions, lines 222-230, and the span of nextBoundary, lines 193-196.
Width(kind) ==
  CASE kind = "tithi" -> Circle \div 30
    [] kind \in {"nakshatra", "yoga"} -> Circle \div 27
    [] kind = "karana" -> Circle \div 60
    [] kind = "moon_rashi" -> Circle \div 12
SpanInDays(kind) == IF kind = "moon_rashi" THEN 3 ELSE 2

\* The index at an angle, from 1.
IndexAt(kind, angle) == angle \div Width(kind) + 1

\* Mutant: no wrap at 360 degrees.
PassedUnwrapped(v, a, distance) == v - a >= distance

\* Has the angle moved by at least distance since it was a?
Passed(v, a, distance) == (v - a) % Circle >= distance

\* s.Time: an instant to the nearest second, in seconds.
Timestamp(t) == (2 * t + Second) \div (2 * Second)

-----------------------------------------------------------------------------
(* Periods between timestamps (panchang.go:149-165, chaughadiya.go:27-46).  *)

RahuKalam == <<8, 2, 7, 5, 6, 4, 3>>
Yamaganda == <<5, 4, 3, 2, 1, 7, 6>>
Gulika == <<7, 6, 5, 4, 3, 2, 1>>

\* n eighths of the way, to the nearest second.
Share(from, to, n) == from + (2 * n * (to - from) + 8) \div 16

Period(from, to, n) == [from |-> Share(from, to, n - 1), to |-> Share(from, to, n)]

\* Mutant: the eighth is rounded, and the parts follow one another.
EighthsOfSeconds(from, to) ==
  LET d == (to - from + 4) \div 8
  IN [i \in 1..8 |-> [from |-> from + (i - 1) * d, to |-> IF i = 8 THEN to ELSE from + i * d]]

Eighths(from, to) ==
  [i \in 1..8 |-> [from |-> Share(from, to, i - 1), to |-> IF i = 8 THEN to ELSE Share(from, to, i)]]
=============================================================================
