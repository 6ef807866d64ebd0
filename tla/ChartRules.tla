----------------------------- MODULE ChartRules -----------------------------
(***************************************************************************)
(* internal/chart/math.go: houses and aspects of a birth chart, on         *)
(* longitudes in whole degrees.  Cusps are a function on houses 1 to 12.   *)
(***************************************************************************)
EXTENDS Integers, FiniteSetsExt

\* Mutant: the remainder keeps the sign, as Go's does.
NormalizeSigned(degree) == IF degree >= 0 THEN degree % 360 ELSE -((-degree) % 360)

Normalize(degree) == degree % 360

Houses == 1..12
NextHouse(house) == (house % 12) + 1

\* The first house whose span the longitude falls into.
HouseFor(longitude, cusps) ==
  LET inside == {h \in Houses :
        Normalize(longitude - cusps[h]) < Normalize(cusps[NextHouse(h)] - cusps[h])}
  IN IF inside = {} THEN 12 ELSE Min(inside)

\* Whole-sign cusps: the sign of the ascendant is the first house.
WholeSign(ascendant) == [h \in Houses |-> ((ascendant \div 30 + h - 1) % 12) * 30]

AspectRules ==
  <<[angle |-> 0, orb |-> 8], [angle |-> 60, orb |-> 6], [angle |-> 90, orb |-> 7],
    [angle |-> 120, orb |-> 8], [angle |-> 180, orb |-> 8]>>

Abs(x) == IF x < 0 THEN -x ELSE x

Separation(a, b) == IF Abs(a - b) > 180 THEN 360 - Abs(a - b) ELSE Abs(a - b)

\* The first rule that matches, or 0.
AspectOf(a, b) ==
  LET near == {r \in DOMAIN AspectRules : Abs(Separation(a, b) - AspectRules[r].angle) <= AspectRules[r].orb}
  IN IF near = {} THEN 0 ELSE Min(near)
=============================================================================
