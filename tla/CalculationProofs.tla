--------------------------- MODULE CalculationProofs ---------------------------
(***************************************************************************)
(* Proofs about Calculation for every zone, date, chart and sky.           *)
(***************************************************************************)
EXTENDS Calculation, LocalTimeProofs

-----------------------------------------------------------------------------
(* decode.                                                                 *)

\* Every field the body has named is set once, and no other; a body that was let
\* through has named the required ones.
BodyInv ==
  /\ kind \in {"charts", "panchang", "festivals"}
  /\ fields \subseteq Allowed(kind)
  /\ assigned = [f \in DstFields(kind) |-> IF f \in fields THEN 1 ELSE 0]
  /\ stage \notin {"body", "members", "answered"} => Required(kind) \subseteq fields

\* A name that is let through is the field's own.
LEMMA AllowedNames ==
  ASSUME NEW k \in {"charts", "panchang", "festivals"}, NEW key \in Allowed(k)
  PROVE  Fold(key) = key /\ key \in DstFields(k)
BY DEF Allowed, Keys, Fold, DstFields, Required

\* No action but ReadMember touches the fields, and no action but ReadEnd lets a
\* body through.
LEMMA PastDecode ==
  ASSUME BodyInv,
         \/ ReadBody \/ Resolve \/ Refuse \/ Draw
         \/ Validate \/ DayEvents \/ FirstLimb \/ NextLimb \/ SignLimb
         \/ Seek \/ Halve \/ Segment \/ Divide \/ Finish \/ Fail
  PROVE  BodyInv'
<1>1. UNCHANGED <<kind, fields, assigned>>
  BY DEF ReadBody, Resolve, Refuse, Draw, Validate, DayEvents, FirstLimb, NextLimb, SignLimb,
     Search, Seek, Halve, Segment, Divide, Finish, Fail, Answer, Continue
<1>2. CASE ReadBody
  <2>1. stage' \in {"members", "answered"}
    BY <1>2 DEF ReadBody, Answer, Continue
  <2> QED
    BY <1>1, <2>1 DEF BodyInv
<1>3. CASE ~ReadBody
  <2>1. stage' = "answered" \/ stage \notin {"body", "members", "answered"}
    BY <1>3 DEF Resolve, Refuse, Draw, Validate, DayEvents, FirstLimb, NextLimb, SignLimb,
       Search, Seek, Halve, Segment, Divide, Finish, Fail, Answer, Continue
  <2> QED
    BY <1>1, <2>1 DEF BodyInv
<1> QED
  BY <1>2, <1>3

LEMMA NextBodyInv == BodyInv /\ [Next]_vars => BodyInv'
<1> SUFFICES ASSUME BodyInv, [Next]_vars PROVE BodyInv'
  OBVIOUS
<1>1. CASE ReadMember
  <2>1. PICK key \in Keys, value \in {"right", "wrong", "null"} :
          IF key \in Allowed(kind) \ fields /\ value # "null"
          THEN /\ fields' = fields \cup {key}
               /\ assigned' = [assigned EXCEPT ![Fold(key)] = @ + 1]
               /\ wrong' = (wrong \/ value = "wrong")
               /\ UNCHANGED <<kind, stage, status, work>>
          ELSE Answer(400)
    BY <1>1 DEF ReadMember
  <2>2. CASE key \in Allowed(kind) \ fields /\ value # "null"
    <3>1. Fold(key) = key /\ key \in DstFields(kind)
      BY <2>2, AllowedNames DEF BodyInv
    <3>2. assigned' = [f \in DstFields(kind) |-> IF f \in fields' THEN 1 ELSE 0]
      BY <2>1, <2>2, <3>1 DEF BodyInv
    <3>3. kind' = kind /\ stage' = "members" /\ fields' \subseteq Allowed(kind)
      BY <1>1, <2>1, <2>2 DEF BodyInv, ReadMember
    <3> QED
      BY <3>2, <3>3 DEF BodyInv
  <2>3. CASE ~(key \in Allowed(kind) \ fields /\ value # "null")
    BY <2>1, <2>3 DEF Answer, BodyInv
  <2> QED
    BY <2>2, <2>3
<1>2. CASE ReadEnd
  <2>1. UNCHANGED <<kind, fields, assigned>> /\ (stage' = "answered" \/ Required(kind) \subseteq fields)
    BY <1>2 DEF ReadEnd, Answer, Continue
  <2> QED
    BY <2>1 DEF BodyInv
<1>3. CASE UNCHANGED vars
  BY <1>3 DEF BodyInv, vars
<1> QED
  BY <1>1, <1>2, <1>3, PastDecode DEF Next

LEMMA SpecBodyInv == Spec => []BodyInv
<1>1. Init => BodyInv
  BY DEF Init, BodyInv
<1> QED
  BY <1>1, NextBodyInv, PTL DEF Spec

\* Whatever members a body has, one that decode lets through sets every required
\* field of dst exactly once and no field twice (server.go:164-240).
THEOREM BodyHasOneMeaning == Spec => []OneMeaning
<1>1. BodyInv => OneMeaning
  <2> SUFFICES ASSUME BodyInv, stage \notin {"body", "members", "answered"}
               PROVE  /\ \A f \in DstFields(kind) : assigned[f] <= 1
                      /\ \A f \in Required(kind) : assigned[f] = 1
    BY DEF OneMeaning
  <2>1. Required(kind) \subseteq DstFields(kind)
    BY DEF DstFields
  <2> QED
    BY <2>1 DEF BodyInv
<1> QED
  BY <1>1, SpecBodyInv, PTL

-----------------------------------------------------------------------------
(* Resolve.                                                                *)

\* Births in zones whose clocks change at least a day apart.
SpacedBirths ==
  \A b \in Births : Spaced(b.zone, Day) /\ b.date \in Int /\ b.clock \in Int

\* What Resolve has found of the birth it was given.
BirthInv ==
  stage \in {"resolved", "unresolved"} =>
    /\ Spaced(work.zone, Day) /\ work.wall \in Int
    /\ stage = "resolved" <=> Resolves(work.zone, work.wall)

LEMMA NextBirthInv == SpacedBirths /\ BirthInv /\ [Next]_vars => BirthInv'
<1> SUFFICES ASSUME SpacedBirths, BirthInv, [Next]_vars PROVE BirthInv'
  OBVIOUS
<1>1. CASE Resolve
  <2>1. PICK valid, empty \in BOOLEAN, time_status \in {"exact", "approximate", "unknown"}, b \in Births :
          LET timed == time_status # "unknown"
              given == "time" \in fields /\ ~empty
              wall == b.date * Day + IF timed THEN b.clock ELSE Day \div 2
              birth == [zone |-> b.zone, wall |-> wall, timed |-> timed]
          IN IF ~valid \/ (timed # given)
             THEN Answer(422)
             ELSE Continue(IF Resolves(b.zone, wall) THEN "resolved" ELSE "unresolved", birth)
    BY <1>1 DEF Resolve
  <2> DEFINE timed == time_status # "unknown"
             wall == b.date * Day + IF timed THEN b.clock ELSE Day \div 2
  <2>2. Spaced(b.zone, Day) /\ wall \in Int
    BY DayAssumption DEF SpacedBirths
  <2>3. CASE Answer(422)
    BY <2>3 DEF Answer, BirthInv
  <2>4. CASE Continue(IF Resolves(b.zone, wall) THEN "resolved" ELSE "unresolved",
                      [zone |-> b.zone, wall |-> wall, timed |-> timed])
    <3> HIDE DEF wall
    <3>1. work'.zone = b.zone /\ work'.wall = wall
          /\ stage' = IF Resolves(b.zone, wall) THEN "resolved" ELSE "unresolved"
      BY <2>4 DEF Continue
    <3> QED
      BY <2>2, <3>1 DEF BirthInv
  <2> QED
    BY <2>1, <2>3, <2>4
<1>2. CASE ~Resolve
  <2>1. stage' \notin {"resolved", "unresolved"} \/ (stage' = stage /\ work' = work)
    BY <1>2 DEF Next, vars, ReadBody, ReadMember, ReadEnd, Refuse, Draw, Validate, DayEvents, FirstLimb, NextLimb,
       SignLimb, Search, Seek, Halve, Segment, Divide, Finish, Fail, Answer, Continue
  <2> QED
    BY <2>1 DEF BirthInv
<1> QED
  BY <1>1, <1>2

\* The instants at which the clocks of a zone show a wall clock.
LEMMA ShowingIsAll ==
  ASSUME NEW zone, Spaced(zone, Day), NEW wall \in Int
  PROVE  Showing(zone, wall) = {t \in Int : Wall(zone, t) = wall}
<1>1. ASSUME NEW t \in Int, Wall(zone, t) = wall PROVE t \in Showing(zone, wall)
  <2>1. Offset(zone, t) \in AllOffsets(zone)
    BY OffsetListed DEF AllOffsets, Spaced
  <2>2. Offset(zone, t) \in Int
    BY OffsetBounds DEF Spaced
  <2>3. t = wall - Offset(zone, t)
    BY <1>1, <2>2 DEF Wall
  <2>4. t \in {wall - o : o \in AllOffsets(zone)}
    BY <2>1, <2>3
  <2> QED
    BY <1>1, <2>4 DEF Showing
<1>2. ASSUME NEW t \in Showing(zone, wall) PROVE t \in Int /\ Wall(zone, t) = wall
  <2>1. PICK o \in AllOffsets(zone) : t = wall - o
    BY <1>2 DEF Showing
  <2>2. o \in Int
    BY <2>1 DEF AllOffsets, Spaced, Bounded
  <2> QED
    BY <1>2, <2>1, <2>2 DEF Showing
<1>3. Showing(zone, wall) \subseteq {t \in Int : Wall(zone, t) = wall}
  BY <1>2
<1>4. {t \in Int : Wall(zone, t) = wall} \subseteq Showing(zone, wall)
  BY <1>1
<1> QED
  BY <1>3, <1>4, Zenon

\* A chart is drawn for the one instant that shows the birth time and refused if
\* there is none or there are two, in every zone whose clocks change at least a
\* day apart (chart.go:65-80).
THEOREM BirthsResolve ==
  ASSUME SpacedBirths
  PROVE  Spec => []ResolveExact
<1>1. Init => BirthInv
  BY DEF Init, BirthInv
<1>2. BirthInv /\ [Next]_vars => BirthInv'
  BY NextBirthInv
<1>3. BirthInv => ResolveExact
  <2> SUFFICES ASSUME BirthInv, stage \in {"resolved", "unresolved"} PROVE ResolveExact
    BY DEF ResolveExact
  <2> DEFINE zone == work.zone
             wall == work.wall
  <2>1. Spaced(zone, Day) /\ wall \in Int /\ (stage = "resolved" <=> Resolves(zone, wall))
    BY DEF BirthInv
  <2> HIDE DEF zone, wall
  <2>2. Candidates(zone, wall) = Showing(zone, wall)
    BY <2>1, SamplesSuffice, ShowingIsAll
  <2>3. stage = "resolved" <=> Cardinality(Showing(zone, wall)) = 1
    BY <2>1, <2>2 DEF Resolves
  <2> QED
    BY <2>2, <2>3 DEF ResolveExact, zone, wall
<1> QED
  BY <1>1, <1>2, <1>3, PTL DEF Spec

-----------------------------------------------------------------------------
(* Draw.                                                                   *)

\* Cusps that go round the circle once, house after house, not all in one place:
\* arc[h] is how far cusp h is from the first, and arc[13] the whole circle.
GoRound(cusps) ==
  /\ \A h \in Houses : cusps[h] \in 0..359
  /\ \E arc \in [1..13 -> 0..360] :
       /\ arc[1] = 0 /\ arc[13] = 360
       /\ \A g, h \in 1..13 : g <= h => arc[g] <= arc[h]
       /\ \A h \in Houses : /\ cusps[h] = (cusps[1] + arc[h]) % 360
                            /\ arc[h + 1] < arc[h] + 360

RoundCharts ==
  \A c \in Charts : GoRound(c.cusps) /\ c.longitudes \subseteq 0..359

\* What Draw has drawn.
ChartInv ==
  stage = "drawn" => GoRound(work.cusps) /\ work.longitudes \subseteq 0..359

\* Degrees from a cusp, and from one cusp to the next, by their arcs from the first.
LEMMA DegreesFromCusp ==
  ASSUME NEW l \in Int, NEW c \in Int, NEW p \in Int, 0 <= p, p <= 360
  PROVE  (l - ((c + p) % 360)) % 360
           = IF p <= (l - c) % 360 THEN ((l - c) % 360) - p ELSE ((l - c) % 360) - p + 360
OBVIOUS

LEMMA DegreesBetweenCusps ==
  ASSUME NEW c \in Int, NEW p \in Int, NEW q \in Int, 0 <= p, p <= q, q < p + 360
  PROVE  (((c + q) % 360) - ((c + p) % 360)) % 360 = q - p
OBVIOUS

\* Every body is in the house whose cusp is the last one it has passed.
LEMMA HouseOfLastCusp ==
  ASSUME NEW cusps, GoRound(cusps), NEW l \in 0..359
  PROVE  LET behind(h) == (l - cusps[h]) % 360
             house == HouseFor(l, cusps)
         IN /\ \A h \in Houses : behind(house) <= behind(h)
            /\ cusps[NextHouse(house)] # cusps[house]
<1>1. PICK arc \in [1..13 -> 0..360] :
        /\ arc[1] = 0 /\ arc[13] = 360
        /\ \A g, h \in 1..13 : g <= h => arc[g] <= arc[h]
        /\ \A h \in Houses : /\ cusps[h] = (cusps[1] + arc[h]) % 360
                             /\ arc[h + 1] < arc[h] + 360
  BY DEF GoRound
<1>2. cusps[1] \in 0..359
  BY DEF GoRound, Houses
<1>13. \A h \in 1..13 : arc[h] \in Int /\ 0 <= arc[h] /\ arc[h] <= 360
  <2> TAKE h \in 1..13
  <2>1. arc[h] \in 0..360
    OBVIOUS
  <2> QED
    BY <2>1
<1> DEFINE x == (l - cusps[1]) % 360
           behind(h) == (l - cusps[h]) % 360
           inside == {h \in Houses :
                        Normalize(l - cusps[h]) < Normalize(cusps[NextHouse(h)] - cusps[h])}
<1>3. x \in Int /\ 0 <= x /\ x < 360
  <2>1. l \in Int /\ cusps[1] \in Int
    BY <1>2
  <2> QED
    BY <2>1
<1>4. \A h \in Houses : behind(h) = IF arc[h] <= x THEN x - arc[h] ELSE x - arc[h] + 360
  <2> TAKE h \in Houses
  <2>1. h \in 1..13 /\ cusps[h] = (cusps[1] + arc[h]) % 360
    BY <1>1 DEF Houses
  <2>2. arc[h] \in Int /\ 0 <= arc[h] /\ arc[h] <= 360 /\ l \in Int /\ cusps[1] \in Int
    BY <1>2, <1>13, <2>1
  <2>3. (l - ((cusps[1] + arc[h]) % 360)) % 360
          = IF arc[h] <= (l - cusps[1]) % 360 THEN ((l - cusps[1]) % 360) - arc[h]
            ELSE ((l - cusps[1]) % 360) - arc[h] + 360
    <3> DEFINE c == cusps[1]
               p == arc[h]
    <3>1. c \in Int /\ p \in Int /\ 0 <= p /\ p <= 360 /\ l \in Int
      BY <2>2
    <3> HIDE DEF c, p
    <3>2. (l - ((c + p) % 360)) % 360
            = IF p <= (l - c) % 360 THEN ((l - c) % 360) - p ELSE ((l - c) % 360) - p + 360
      BY <3>1, DegreesFromCusp
    <3> QED
      BY <3>2 DEF c, p
  <2> QED
    BY <2>1, <2>3
<1>5. \A h \in Houses : Normalize(cusps[NextHouse(h)] - cusps[h]) = arc[h + 1] - arc[h]
  <2> TAKE h \in Houses
  <2>1. h \in 1..12 /\ cusps[h] = (cusps[1] + arc[h]) % 360 /\ arc[h + 1] < arc[h] + 360
    BY <1>1 DEF Houses
  <2>2. /\ arc[h] \in Int /\ arc[h + 1] \in Int /\ cusps[1] \in Int
        /\ 0 <= arc[h] /\ arc[h] <= arc[h + 1]
    <3>1. h \in 1..13 /\ h + 1 \in 1..13 /\ h <= h + 1
      BY <2>1
    <3> QED
      BY <1>1, <1>2, <1>13, <3>1
  <2>3. cusps[NextHouse(h)] = (cusps[1] + arc[h + 1]) % 360
    <3>1. CASE h = 12
      <4>1. NextHouse(h) = 1 /\ arc[h + 1] = 360
        BY <3>1, <1>1 DEF NextHouse
      <4>2. cusps[1] = (cusps[1] + 360) % 360
        BY <1>2
      <4> QED
        BY <4>1, <4>2
    <3>2. CASE h # 12
      <4>1. NextHouse(h) = h + 1 /\ h + 1 \in Houses
        BY <2>1, <3>2 DEF NextHouse, Houses
      <4> QED
        BY <1>1, <4>1
    <3> QED
      BY <3>1, <3>2
  <2> QED
    <3>1. (((cusps[1] + arc[h + 1]) % 360) - ((cusps[1] + arc[h]) % 360)) % 360 = arc[h + 1] - arc[h]
      <4> DEFINE c == cusps[1]
                 p == arc[h]
                 q == arc[h + 1]
      <4>1. c \in Int /\ p \in Int /\ q \in Int /\ 0 <= p /\ p <= q /\ q < p + 360
        BY <2>1, <2>2
      <4> HIDE DEF c, p, q
      <4>2. (((c + q) % 360) - ((c + p) % 360)) % 360 = q - p
        BY <4>1, DegreesBetweenCusps
      <4> QED
        BY <4>2 DEF c, p, q
    <3> QED
      BY <2>1, <2>3, <3>1 DEF Normalize
<1> HIDE DEF x
<1>6. \A h \in Houses : h \in inside <=> arc[h] <= x /\ x < arc[h + 1]
  <2> TAKE h \in Houses
  <2>1. /\ arc[h] \in Int /\ arc[h + 1] \in Int
        /\ 0 <= arc[h] /\ arc[h] <= 360 /\ 0 <= arc[h + 1] /\ arc[h + 1] <= 360
    <3>1. h \in 1..13 /\ h + 1 \in 1..13
      BY DEF Houses
    <3> QED
      BY <1>13, <3>1
  <2>2. h \in inside <=> behind(h) < arc[h + 1] - arc[h]
    <3>1. Normalize(l - cusps[h]) = behind(h)
      BY DEF Normalize
    <3>2. h \in inside <=> Normalize(l - cusps[h]) < Normalize(cusps[NextHouse(h)] - cusps[h])
      OBVIOUS
    <3> QED
      BY <1>5, <3>1, <3>2
  <2>3. behind(h) = IF arc[h] <= x THEN x - arc[h] ELSE x - arc[h] + 360
    BY <1>4
  <2> HIDE DEF behind, inside
  <2> QED
    BY <1>3, <2>1, <2>2, <2>3
<1>7. \E h \in Houses : h \in inside
  <2> DEFINE passed == {h \in 1..13 : arc[h] <= x}
  <2>1. 1 \in passed /\ passed \subseteq Int /\ \A h \in passed : h <= 13
    BY <1>1, <1>3
  <2>2. PICK h \in passed : \A g \in passed : g <= h
    BY <2>1, GreatestInteger
  <2>3. h \in Houses
    BY <2>2, <1>1, <1>3 DEF Houses
  <2>4. h + 1 \in 1..13 /\ ~(h + 1 <= h)
    BY <2>3 DEF Houses
  <2>5. ~(arc[h + 1] <= x)
    BY <2>2, <2>4
  <2>6. arc[h] <= x /\ x < arc[h + 1]
    BY <1>3, <1>13, <2>2, <2>4, <2>5
  <2> QED
    BY <1>6, <2>3, <2>6
<1> DEFINE house == HouseFor(l, cusps)
<1>8. house \in inside
  <2>1. inside # {} /\ inside \in SUBSET Nat
    BY <1>7 DEF Houses
  <2>2. \E h \in inside : \A g \in inside : h <= g
    BY <2>1, LeastNatural
  <2>3. house = Min(inside)
    BY <2>1 DEF HouseFor
  <2> HIDE DEF inside, house
  <2> QED
    BY <2>2, <2>3 DEF Min
<1>9. house \in Houses /\ arc[house] <= x /\ x < arc[house + 1]
  <2>1. house \in Houses
    BY <1>8
  <2> HIDE DEF inside, house
  <2> QED
    BY <1>6, <1>8, <2>1
<1> HIDE DEF inside, house
<1>10. ASSUME NEW h \in Houses PROVE behind(house) <= behind(h)
  <2>1. house \in 1..13 /\ house + 1 \in 1..13 /\ h \in 1..13
    BY <1>9 DEF Houses
  <2>6. /\ arc[house] \in Int /\ 0 <= arc[house] /\ arc[house + 1] \in Int
        /\ arc[h] \in Int /\ arc[h] <= 360
    BY <1>13, <2>1
  <2>2. h <= house => arc[h] <= arc[house]
    BY <1>1, <2>1
  <2>3. house < h => arc[house + 1] <= arc[h]
    <3>1. house < h => house + 1 <= h
      BY <2>1
    <3> QED
      BY <1>1, <2>1, <3>1
  <2>4. behind(house) = x - arc[house]
    BY <1>4, <1>9
  <2>5. behind(h) = IF arc[h] <= x THEN x - arc[h] ELSE x - arc[h] + 360
    BY <1>4
  <2> HIDE DEF behind
  <2> QED
    BY <1>3, <1>9, <2>1, <2>2, <2>3, <2>4, <2>5, <2>6
<1>11. cusps[NextHouse(house)] # cusps[house]
  <2>1. cusps[house] \in Int
    <3>1. \A h \in Houses : cusps[h] \in 0..359
      BY DEF GoRound
    <3>2. cusps[house] \in 0..359
      BY <1>9, <3>1
    <3> QED
      BY <3>2
  <2>3. arc[house] \in Int /\ arc[house + 1] \in Int
    <3>1. house \in 1..13 /\ house + 1 \in 1..13
      BY <1>9 DEF Houses
    <3> QED
      BY <1>13, <3>1
  <2>2. Normalize(cusps[NextHouse(house)] - cusps[house]) > 0
    BY <1>3, <1>5, <1>9, <2>3
  <2> QED
    BY <2>1, <2>2 DEF Normalize
<1> QED
  BY <1>10, <1>11 DEF behind, house

\* Whole-sign cusps go round as well.
LEMMA WholeSignGoesRound ==
  ASSUME NEW ascendant \in Int
  PROVE  GoRound(WholeSign(ascendant))
<1> DEFINE cusps == WholeSign(ascendant)
           arc == [h \in 1..13 |-> 30 * (h - 1)]
           sign == (ascendant \div 30) % 12
<1>1. sign \in Int /\ 0 <= sign /\ sign < 12
  OBVIOUS
<1>2. \A h \in Houses : cusps[h] = ((sign + h - 1) % 12) * 30
  <2> TAKE h \in Houses
  <2>1. cusps[h] = (((ascendant \div 30) + h - 1) % 12) * 30 /\ h \in Int
    BY DEF WholeSign, Houses
  <2>2. ascendant \div 30 \in Int
    OBVIOUS
  <2> HIDE DEF cusps
  <2> QED
    BY <2>1, <2>2
<1> HIDE DEF cusps, sign
<1>3. \A h \in Houses : cusps[h] \in 0..359 /\ cusps[h] = (cusps[1] + arc[h]) % 360
  <2> TAKE h \in Houses
  <2>1. h \in Int /\ 1 <= h /\ h <= 12 /\ arc[h] = 30 * (h - 1) /\ 1 \in Houses
    BY DEF Houses
  <2>2. cusps[h] = ((sign + h - 1) % 12) * 30 /\ cusps[1] = ((sign + 1 - 1) % 12) * 30
    BY <1>2, <2>1
  <2> HIDE DEF arc
  <2> QED
    BY <1>1, <2>1, <2>2
<1>4. /\ arc \in [1..13 -> 0..360] /\ arc[1] = 0 /\ arc[13] = 360
      /\ \A g, h \in 1..13 : g <= h => arc[g] <= arc[h]
      /\ \A h \in Houses : arc[h + 1] < arc[h] + 360
  BY DEF Houses
<1> HIDE DEF arc
<1>5. /\ arc[1] = 0 /\ arc[13] = 360
      /\ \A g, h \in 1..13 : g <= h => arc[g] <= arc[h]
      /\ \A h \in Houses : /\ cusps[h] = (cusps[1] + arc[h]) % 360
                           /\ arc[h + 1] < arc[h] + 360
  BY <1>3, <1>4
<1>6. GoRound(cusps)
  BY <1>3, <1>4, <1>5, Zenon DEF GoRound
<1> QED
  BY <1>6 DEF cusps

\* The angle between two bodies is the same from either, and wherever the circle
\* begins.
LEMMA SeparationTurns ==
  ASSUME NEW a \in 0..359, NEW b \in 0..359, NEW turn \in Int
  PROVE  /\ Separation(a, b) = Separation(b, a)
         /\ Separation(Normalize(a + turn), Normalize(b + turn)) = Separation(a, b)
BY DEF Separation, Abs, Normalize

LEMMA NextChartInv == ASSUME RoundCharts, ChartInv, [Next]_vars PROVE ChartInv'
<1>1. CASE Draw
  <2>1. PICK c \in Charts, placidus \in BOOLEAN :
          Continue("drawn",
            [longitudes |-> c.longitudes \cup {Normalize(l + 180) : l \in c.longitudes},
             cusps |-> IF placidus THEN c.cusps ELSE WholeSign(c.cusps[1]),
             timed |-> work.timed])
    BY <1>1 DEF Draw
  <2>2. work'.longitudes = c.longitudes \cup {Normalize(l + 180) : l \in c.longitudes}
        /\ work'.cusps = IF placidus THEN c.cusps ELSE WholeSign(c.cusps[1])
    BY <2>1 DEF Continue
  <2>3. work'.longitudes \subseteq 0..359
    <3>1. c.longitudes \subseteq 0..359
      BY DEF RoundCharts
    <3>2. \A l \in c.longitudes : Normalize(l + 180) \in 0..359
      <4> TAKE l \in c.longitudes
      <4>1. l \in 0..359
        BY <3>1
      <4> QED
        BY <4>1 DEF Normalize
    <3> QED
      BY <2>2, <3>1, <3>2
  <2>4. GoRound(c.cusps) /\ GoRound(WholeSign(c.cusps[1]))
    <3>1. GoRound(c.cusps)
      BY DEF RoundCharts
    <3>2. c.cusps[1] \in 0..359
      <4>1. \A h \in Houses : c.cusps[h] \in 0..359
        BY <3>1, Zenon DEF GoRound
      <4>2. 1 \in Houses
        BY DEF Houses
      <4> QED
        BY <4>1, <4>2
    <3>3. c.cusps[1] \in Int
      BY <3>2
    <3> QED
      BY <3>1, <3>3, WholeSignGoesRound
  <2> QED
    BY <2>2, <2>3, <2>4 DEF ChartInv
<1>2. CASE ~Draw
  <2>1. stage' # "drawn" \/ (stage' = stage /\ work' = work)
    BY <1>2 DEF Next, vars, ReadBody, ReadMember, ReadEnd, Resolve, Refuse, Validate, DayEvents, FirstLimb,
       NextLimb, SignLimb, Search, Seek, Halve, Segment, Divide, Finish, Fail, Answer, Continue
  <2> QED
    BY <2>1 DEF ChartInv
<1> QED
  BY <1>1, <1>2

\* Whatever the houses and the positions, a body's house is the one whose cusp it
\* passed last, and aspects are the same from both bodies and wherever the circle
\* begins (math.go).
THEOREM ChartsExact ==
  ASSUME RoundCharts
  PROVE  Spec => []ChartExact
<1>1. Init => ChartInv
  BY DEF Init, ChartInv
<1>2. ChartInv /\ [Next]_vars => ChartInv'
  BY NextChartInv
<1>3. ChartInv => ChartExact
  <2> SUFFICES ASSUME ChartInv, stage = "drawn" PROVE ChartExact
    BY DEF ChartExact
  <2>1. GoRound(work.cusps) /\ work.longitudes \subseteq 0..359
    BY DEF ChartInv
  <2>2. \A l \in work.longitudes :
          LET behind(h) == (l - work.cusps[h]) % 360
              house == HouseFor(l, work.cusps)
          IN /\ \A h \in Houses : behind(house) <= behind(h)
             /\ work.cusps[NextHouse(house)] # work.cusps[house]
    BY <2>1, HouseOfLastCusp
  <2>3. ASSUME NEW a \in work.longitudes, NEW b \in work.longitudes
        PROVE  /\ AspectOf(a, b) = AspectOf(b, a)
               /\ AspectOf(Normalize(a + 100), Normalize(b + 100)) = AspectOf(a, b)
    <3>1. a \in 0..359 /\ b \in 0..359 /\ 100 \in Int
      BY <2>1
    <3>2. /\ Separation(a, b) = Separation(b, a)
          /\ Separation(Normalize(a + 100), Normalize(b + 100)) = Separation(a, b)
      BY <3>1, SeparationTurns
    <3> QED
      BY <3>2 DEF AspectOf
  <2> QED
    BY <2>2, <2>3 DEF ChartExact
<1> QED
  BY <1>1, <1>2, <1>3, PTL DEF Spec

-----------------------------------------------------------------------------
(* The periods of the day.                                                 *)

\* Days whose Sun, where it rises and sets, is up for nine seconds at least.
RealDays ==
  /\ Never \notin Int
  /\ \A d \in Dates :
       /\ Bounded(d.zone) /\ d.date \in Int
       /\ {d.sunUp, d.sunDown} \subseteq Int \cup {Never}
       /\ Never \notin {d.sunUp, d.sunDown} => (d.sunDown - d.sunUp) % Day >= 9 * Second

\* The locals a day's calculation keeps from one search to the next.
DayLocals(w) ==
  /\ {"rise", "set", "nextRise"} \subseteq DOMAIN w
  /\ w.rise \in Int /\ w.set \in Int /\ w.nextRise \in Int
  /\ w.rise + 9 * Second <= w.set /\ w.set < w.nextRise /\ w.nextRise - w.rise < 2 * Day

DayInv ==
  /\ stage = "day" => work \in Dates
  /\ stage \in {"limbs", "seek", "halve", "found", "lost"} => DayLocals(work)

\* What Divide leaves.
DividedInv ==
  stage = "divided" =>
    LET rise == Timestamp(work.rise)
        set == Timestamp(work.set)
        nextRise == Timestamp(work.nextRise)
    IN /\ DayLocals(work)
       /\ \E weekday \in 1..7 :
            work.windows = <<Period(rise, set, RahuKalam[weekday]), Period(rise, set, Yamaganda[weekday]),
                             Period(rise, set, Gulika[weekday])>>
       /\ work.day = Eighths(rise, set) /\ work.night = Eighths(set, nextRise)

\* The eighths meet, and are of the same length but for a second.
LEMMA EighthsTile ==
  ASSUME NEW from \in Int, NEW to \in Int, from <= to
  PROVE  LET parts == Eighths(from, to)
         IN /\ parts[1].from = from /\ parts[8].to = to
            /\ \A i \in 1..7 : parts[i].to = parts[i + 1].from
            /\ \A i, j \in 1..8 : parts[i].to - parts[i].from <= parts[j].to - parts[j].from + 1
<1> DEFINE parts == Eighths(from, to)
           d == to - from
           eighth == (2 * d) \div 16
<1>1. d \in Int /\ d >= 0 /\ eighth \in Int
  OBVIOUS
<1>2. \A i \in 1..8 : parts[i] = [from |-> Share(from, to, i - 1), to |-> IF i = 8 THEN to ELSE Share(from, to, i)]
  BY DEF Eighths
<1>3. Share(from, to, 0) = from /\ Share(from, to, 8) = to
  BY DEF Share
<1>4. \A i \in 1..8 : /\ parts[i].from = Share(from, to, i - 1) /\ parts[i].to = Share(from, to, i)
                      /\ Share(from, to, i - 1) \in Int /\ Share(from, to, i) \in Int
                      /\ eighth <= parts[i].to - parts[i].from /\ parts[i].to - parts[i].from <= eighth + 1
  <2> TAKE i \in 1..8
  <2>1. parts[i].from = Share(from, to, i - 1) /\ parts[i].to = Share(from, to, i)
    BY <1>2, <1>3
  <2> DEFINE before == 2 * (i - 1) * d + 8
  <2>2. before \in Int /\ 2 * i * d + 8 = before + 2 * d
    BY <1>1
  <2>3. Share(from, to, i - 1) = from + before \div 16
    BY DEF Share
  <2>4. Share(from, to, i) = from + (before + 2 * d) \div 16
    BY <2>2 DEF Share
  <2> HIDE DEF before, parts
  <2> QED
    BY <1>1, <2>1, <2>2, <2>3, <2>4
<1> HIDE DEF parts, eighth, d
<1>5. \A i \in 1..7 : parts[i].to = parts[i + 1].from
  <2> TAKE i \in 1..7
  <2>1. i \in 1..8 /\ i + 1 \in 1..8 /\ (i + 1) - 1 = i
    OBVIOUS
  <2> QED
    BY <1>4, <2>1
<1>6. \A i, j \in 1..8 : parts[i].to - parts[i].from <= parts[j].to - parts[j].from + 1
  <2> TAKE i, j \in 1..8
  <2>1. /\ parts[i].to - parts[i].from \in Int /\ parts[j].to - parts[j].from \in Int
        /\ parts[i].to - parts[i].from <= eighth + 1 /\ eighth <= parts[j].to - parts[j].from
    BY <1>4
  <2> QED
    BY <1>1, <2>1
<1>7. parts[1].from = from /\ parts[8].to = to
  BY <1>3, <1>4
<1> QED
  BY <1>5, <1>6, <1>7 DEF parts

\* In a day of eight seconds or more, shares are in their order.
LEMMA SharesGrow ==
  ASSUME NEW from \in Int, NEW to \in Int, from + 8 <= to, NEW m \in 0..8, NEW n \in 0..8, m < n
  PROVE  Share(from, to, m) < Share(from, to, n)
<1> DEFINE d == to - from
           x == 2 * m * d + 8
           y == 2 * n * d + 8
<1>1. x \in Int /\ y \in Int /\ x + 16 <= y
  <2>1. d \in Int /\ d >= 8 /\ n - m >= 1
    OBVIOUS
  <2>2. (n - m) * d >= d
    BY <2>1
  <2>3. y - x = 2 * ((n - m) * d)
    BY <2>1
  <2>4. x \in Int /\ y \in Int
    BY <2>1
  <2> HIDE DEF x, y, d
  <2>5. (n - m) * d \in Int
    BY <2>1
  <2> QED
    BY <2>1, <2>2, <2>3, <2>4, <2>5
<1>2. Share(from, to, m) = from + x \div 16 /\ Share(from, to, n) = from + y \div 16
  BY DEF Share
<1> HIDE DEF x, y
<1> QED
  BY <1>1, <1>2

\* The events of a day come in their order.
LEMMA EventsInOrder ==
  ASSUME RealDays, NEW d \in Dates, NEW start \in Int, NEW end \in Int, Events(d, start, end).ok
  PROVE  LET e == Events(d, start, end)
         IN /\ e.rise \in Int /\ e.set \in Int /\ e.nextRise \in Int
            /\ e.rise + 9 * Second <= e.set /\ e.set < e.nextRise /\ e.nextRise - e.rise < 2 * Day
<1> DEFINE rise == NextEvent(d.sunUp, start)
           set == NextEvent(d.sunDown, rise)
           nextRise == NextEvent(d.sunUp, end)
           e == Events(d, start, end)
<1>1. e.rise = rise /\ e.set = set /\ e.nextRise = nextRise
  BY DEF Events
<1>2. Never \notin {rise, set, nextRise} /\ set < nextRise /\ nextRise - rise < 2 * Day
  BY DEF Events
<1>3. d.sunUp # Never /\ d.sunDown # Never
  BY <1>2 DEF NextEvent
<1>4. d.sunUp \in Int /\ d.sunDown \in Int /\ (d.sunDown - d.sunUp) % Day >= 9 * Second
  BY <1>3 DEF RealDays
<1>5. rise = start + ((d.sunUp - start) % Day)
  BY <1>2 DEF NextEvent
<1>6. rise \in Int /\ \E k \in Int : rise = d.sunUp + Day * k
  <2>1. d.sunUp - start \in Int /\ Day \in Nat \ {0}
    BY <1>4, DayAssumption
  <2>2. /\ (d.sunUp - start) \div Day \in Int /\ (d.sunUp - start) % Day \in Int
        /\ d.sunUp - start = Day * ((d.sunUp - start) \div Day) + ((d.sunUp - start) % Day)
    BY <2>1, Division
  <2> DEFINE q == (d.sunUp - start) \div Day
             r == (d.sunUp - start) % Day
  <2>3. /\ q \in Int /\ r \in Int /\ d.sunUp - start = Day * q + r
        /\ rise = start + r
    BY <1>5, <2>2
  <2> HIDE DEF q, r, rise
  <2>4. Day * (-q) = -(Day * q) /\ Day * q \in Int
    BY <2>1, <2>3
  <2>5. rise = d.sunUp + Day * (-q)
    BY <1>4, <2>3, <2>4
  <2>6. rise \in Int /\ -q \in Int
    BY <2>3
  <2> QED
    BY <2>5, <2>6
<1>7. set = rise + ((d.sunDown - d.sunUp) % Day)
  <2>1. set = rise + ((d.sunDown - rise) % Day)
    BY <1>2 DEF NextEvent
  <2>2. PICK k \in Int : rise = d.sunUp + Day * k
    BY <1>6
  <2>3. Day \in Nat \ {0} /\ d.sunDown - d.sunUp \in Int /\ -k \in Int
    BY <1>4, DayAssumption
  <2>4. ((d.sunDown - d.sunUp) + Day * (-k)) % Day = (d.sunDown - d.sunUp) % Day
    BY <2>3, RestShift
  <2>5. (d.sunDown - d.sunUp) + Day * (-k) = d.sunDown - rise
    BY <1>4, <2>2, <2>3
  <2> QED
    BY <2>1, <2>4, <2>5
<1>8. nextRise = end + ((d.sunUp - end) % Day)
  BY <1>2, <1>3 DEF NextEvent, RealDays
<1>9. (d.sunDown - d.sunUp) % Day \in Int /\ (d.sunUp - end) % Day \in Int
  <2>1. Day \in Nat \ {0} /\ d.sunDown - d.sunUp \in Int /\ d.sunUp - end \in Int
    BY <1>4, DayAssumption
  <2> QED
    BY <2>1, Division
<1> HIDE DEF rise, set, nextRise, e
<1>10. set \in Int /\ nextRise \in Int /\ rise + 9 * Second <= set
  BY <1>4, <1>6, <1>7, <1>8, <1>9 DEF Second
<1> QED
  BY <1>1, <1>2, <1>6, <1>10 DEF e

LEMMA NextDayInv ==
  ASSUME RealDays, DayInv, DividedInv, [Next]_vars
  PROVE  DayInv'
<1>1. CASE Validate
  <2>1. stage' = "answered" \/ (stage' = "day" /\ work' \in Dates)
    BY <1>1 DEF Validate, Answer, Continue
  <2> QED
    BY <2>1 DEF DayInv
<1>2. CASE DayEvents
  <2> DEFINE start == Midnight(work.zone, work.date)
             end == AddDays(work.zone, start, 1)
             e == Events(work, start, end)
  <2>1. work \in Dates
    BY <1>2 DEF DayEvents, DayInv
  <2>2. Bounded(work.zone) /\ work.date \in Int /\ Day \in Int
    BY <2>1, DayAssumption DEF RealDays
  <2>3. start \in Int
    BY <2>2, InstantIsInt DEF Midnight
  <2>4. end \in Int
    <3>1. Offset(work.zone, start) \in Int
      BY <2>2, <2>3, OffsetBounds
    <3>2. Wall(work.zone, start) + 1 * Day \in Int
      BY <2>2, <2>3, <3>1 DEF Wall
    <3> QED
      BY <2>2, <3>2, InstantIsInt DEF AddDays
  <2>5. stage' = "answered" \/ (stage' = "limbs" /\ e.ok /\ work' = With(work, e))
    BY <1>2 DEF DayEvents, Answer, Continue
  <2>6. ASSUME e.ok, work' = With(work, e) PROVE DayLocals(work')
    <3>1. /\ e.rise \in Int /\ e.set \in Int /\ e.nextRise \in Int
          /\ e.rise + 9 * Second <= e.set /\ e.set < e.nextRise /\ e.nextRise - e.rise < 2 * Day
      BY <2>1, <2>3, <2>4, <2>6, EventsInOrder
    <3>2. {"rise", "set", "nextRise"} \subseteq DOMAIN e
      BY DEF Events
    <3> HIDE DEF e
    <3>3. {"rise", "set", "nextRise"} \subseteq DOMAIN (With(work, e))
          /\ (With(work, e)).rise = e.rise /\ (With(work, e)).set = e.set /\ (With(work, e)).nextRise = e.nextRise
      BY <3>2 DEF With
    <3> QED
      BY <2>6, <3>1, <3>3 DEF DayLocals
  <2> QED
    BY <2>5, <2>6 DEF DayInv
<1>3. CASE FirstLimb \/ NextLimb
  <2>1. DayLocals(work)
    BY <1>3 DEF DayInv, FirstLimb, NextLimb
  <2>2. stage' = "seek" /\ \E limb, m :
          work' = [rise |-> work.rise, set |-> work.set, nextRise |-> work.nextRise,
                   limb |-> limb, moon |-> m, cursor |-> work.rise,
                   active |-> Timestamp(work.rise), segments |-> <<>>]
    BY <1>3 DEF FirstLimb, NextLimb, Search, Continue
  <2>3. DayLocals(work')
    BY <2>1, <2>2 DEF DayLocals
  <2> QED
    BY <2>2, <2>3 DEF DayInv
<1>4. CASE SignLimb
  <2>1. DayLocals(work)
    BY <1>4 DEF DividedInv, SignLimb
  <2>2. stage' = "seek" /\ \E limb, m :
          work' = [rise |-> work.rise, set |-> work.set, nextRise |-> work.nextRise,
                   limb |-> limb, moon |-> m, cursor |-> work.rise,
                   active |-> Timestamp(work.rise), segments |-> <<>>]
    BY <1>4 DEF SignLimb, Search, Continue
  <2>3. DayLocals(work')
    BY <2>1, <2>2 DEF DayLocals
  <2> QED
    BY <2>2, <2>3 DEF DayInv
<1>5. CASE Seek
  <2>1. DayLocals(work)
    BY <1>5 DEF DayInv, Seek
  <2> DEFINE More(a, distance, hi) == [a |-> a, distance |-> distance, lo |-> work.cursor, hi |-> hi]
  <2>2. \/ stage' = "lost" /\ work' = work
        \/ stage' = "halve" /\ \E a, distance, hi : work' = With(work, More(a, distance, hi))
    BY <1>5 DEF Seek, Continue
  <2>3. ASSUME NEW a, NEW distance, NEW hi PROVE DayLocals(With(work, More(a, distance, hi)))
    <3>1. DOMAIN More(a, distance, hi) = {"a", "distance", "lo", "hi"}
      OBVIOUS
    <3> HIDE DEF More
    <3> QED
      BY <2>1, <3>1 DEF DayLocals, With
  <2> QED
    BY <2>1, <2>2, <2>3 DEF DayInv
<1>6. CASE Halve
  <2>1. DayLocals(work) /\ stage' = "halve"
    BY <1>6 DEF DayInv, Halve, Continue
  <2>2. \E mid : work' = [work EXCEPT !.hi = mid] \/ work' = [work EXCEPT !.lo = mid]
    BY <1>6 DEF Halve, Continue
  <2>3. DayLocals(work')
    BY <2>1, <2>2 DEF DayLocals
  <2> QED
    BY <2>1, <2>3 DEF DayInv
<1>7. CASE Segment
  <2>1. DayLocals(work) /\ stage' \in {"found", "seek"}
    BY <1>7 DEF DayInv, Segment, Continue
  <2>2. \E segments, active, cursor :
          work' = [work EXCEPT !.segments = segments, !.active = active, !.cursor = cursor]
    BY <1>7 DEF Segment, Continue
  <2>3. DayLocals(work')
    BY <2>1, <2>2 DEF DayLocals
  <2> QED
    BY <2>1, <2>3 DEF DayInv
<1>8. CASE Divide \/ Draw \/ Refuse \/ Resolve \/ ReadBody \/ ReadMember \/ ReadEnd \/ Finish \/ Fail
  <2>1. stage' \notin {"day", "limbs", "seek", "halve", "found", "lost"}
    BY <1>8 DEF Divide, Draw, Refuse, Resolve, ReadBody, ReadMember, ReadEnd, Finish, Fail, Answer, Continue
  <2> QED
    BY <2>1 DEF DayInv
<1>9. CASE UNCHANGED vars
  BY <1>9 DEF DayInv, vars
<1> QED
  BY <1>1, <1>2, <1>3, <1>4, <1>5, <1>6, <1>7, <1>8, <1>9 DEF Next

LEMMA NextDividedInv ==
  ASSUME DayInv, DividedInv, [Next]_vars
  PROVE  DividedInv'
<1>1. CASE Divide
  <2>1. DayLocals(work)
    BY <1>1 DEF DayInv, Divide
  <2> DEFINE rise == Timestamp(work.rise)
             set == Timestamp(work.set)
             nextRise == Timestamp(work.nextRise)
  <2>2. PICK weekday \in 1..7 :
          work' = [rise |-> work.rise, set |-> work.set, nextRise |-> work.nextRise,
                   windows |-> <<Period(rise, set, RahuKalam[weekday]), Period(rise, set, Yamaganda[weekday]),
                                 Period(rise, set, Gulika[weekday])>>,
                   day |-> Eighths(rise, set), night |-> Eighths(set, nextRise)]
    BY <1>1 DEF Divide, Continue
  <2>3. work'.rise = work.rise /\ work'.set = work.set /\ work'.nextRise = work.nextRise
    BY <2>2
  <2>4. DayLocals(work')
    BY <2>1, <2>2 DEF DayLocals
  <2>5. /\ work'.windows = <<Period(rise, set, RahuKalam[weekday]), Period(rise, set, Yamaganda[weekday]),
                             Period(rise, set, Gulika[weekday])>>
        /\ work'.day = Eighths(rise, set) /\ work'.night = Eighths(set, nextRise)
    BY <2>2
  <2> QED
    BY <2>3, <2>4, <2>5 DEF DividedInv
<1>2. CASE ~Divide
  <2>1. stage' # "divided" \/ (stage' = stage /\ work' = work)
    BY <1>2 DEF Next, vars, ReadBody, ReadMember, ReadEnd, Resolve, Refuse, Draw, Validate, DayEvents, FirstLimb,
       NextLimb, SignLimb, Search, Seek, Halve, Segment, Finish, Fail, Answer, Continue
  <2> QED
    BY <2>1 DEF DividedInv
<1> QED
  BY <1>1, <1>2

\* The three periods of a weekday are three different eighths.
LEMMA EighthsOfWeekday ==
  ASSUME NEW weekday \in 1..7
  PROVE  /\ {RahuKalam[weekday], Yamaganda[weekday], Gulika[weekday]} \subseteq 1..8
         /\ RahuKalam[weekday] # Yamaganda[weekday]
         /\ RahuKalam[weekday] # Gulika[weekday]
         /\ Yamaganda[weekday] # Gulika[weekday]
BY DEF RahuKalam, Yamaganda, Gulika

\* The n-th period of a day is its n-th eighth, and no other period's.
LEMMA PeriodIsEighth ==
  ASSUME NEW from \in Int, NEW to \in Int, from + 8 <= to, NEW m \in 1..8, NEW n \in 1..8
  PROVE  /\ Period(from, to, n) = Eighths(from, to)[n]
         /\ m # n => Period(from, to, m) # Period(from, to, n)
<1>1. Period(from, to, n) = Eighths(from, to)[n]
  <2>1. Share(from, to, 8) = to
    BY DEF Share
  <2> QED
    BY <2>1 DEF Period, Eighths
<1>2. \A i, j \in 1..8 : i < j => Share(from, to, i - 1) # Share(from, to, j - 1)
  <2> TAKE i, j \in 1..8
  <2>1. i - 1 \in 0..8 /\ j - 1 \in 0..8 /\ (i < j => i - 1 < j - 1)
    OBVIOUS
  <2>2. i < j => Share(from, to, i - 1) < Share(from, to, j - 1)
    BY <2>1, SharesGrow
  <2>3. Share(from, to, i - 1) \in Int /\ Share(from, to, j - 1) \in Int
    BY <2>1 DEF Share
  <2> QED
    BY <2>2, <2>3
<1>3. m # n => Share(from, to, m - 1) # Share(from, to, n - 1)
  BY <1>2
<1> QED
  BY <1>1, <1>3 DEF Period

\* A chaughadiya table has no gap and no overlap, its parts differ by a second at
\* most, and the three inauspicious periods are three of its eighths, for every
\* sunrise, sunset and next sunrise (panchang.go:149-165, chaughadiya.go:27-46).
THEOREM PeriodsAreEighths ==
  ASSUME RealDays
  PROVE  Spec => []PeriodsAgree
<1>1. Init => DayInv /\ DividedInv
  BY DEF Init, DayInv, DividedInv
<1>2. DayInv /\ DividedInv /\ [Next]_vars => DayInv' /\ DividedInv'
  BY NextDayInv, NextDividedInv
<1>3. DividedInv => PeriodsAgree
  <2> SUFFICES ASSUME DividedInv, stage = "divided" PROVE PeriodsAgree
    BY DEF PeriodsAgree
  <2> DEFINE rise == Timestamp(work.rise)
             set == Timestamp(work.set)
             nextRise == Timestamp(work.nextRise)
             day == Eighths(rise, set)
             night == Eighths(set, nextRise)
  <2>1. DayLocals(work) /\ work.day = day /\ work.night = night
    BY DEF DividedInv
  <2>2. PICK weekday \in 1..7 :
          work.windows = <<Period(rise, set, RahuKalam[weekday]), Period(rise, set, Yamaganda[weekday]),
                           Period(rise, set, Gulika[weekday])>>
    BY DEF DividedInv
  <2>3. rise \in Int /\ set \in Int /\ nextRise \in Int /\ rise + 8 <= set /\ set <= nextRise
    BY <2>1 DEF DayLocals, Timestamp, Second
  <2> HIDE DEF rise, set, nextRise
  <2> DEFINE Tiles(parts, from, to) ==
        /\ parts[1].from = from /\ parts[8].to = to
        /\ \A i \in 1..7 : parts[i].to = parts[i + 1].from
        /\ \A i, j \in 1..8 : parts[i].to - parts[i].from <= parts[j].to - parts[j].from + 1
  <2>4. Tiles(day, rise, set)
    BY <2>3, EighthsTile
  <2>5. Tiles(night, set, nextRise)
    BY <2>3, EighthsTile
  <2>6. /\ \A w \in 1..3 : \E i \in 1..8 : work.windows[w] = day[i]
        /\ \A v, w \in 1..3 : v # w => work.windows[v] # work.windows[w]
    <3> DEFINE a == RahuKalam[weekday]
               b == Yamaganda[weekday]
               c == Gulika[weekday]
    <3>1. a \in 1..8 /\ b \in 1..8 /\ c \in 1..8 /\ a # b /\ a # c /\ b # c
      BY EighthsOfWeekday
    <3>2. work.windows = <<Period(rise, set, a), Period(rise, set, b), Period(rise, set, c)>>
      BY <2>2
    <3> HIDE DEF a, b, c, day
    <3>3. /\ Period(rise, set, a) = day[a] /\ Period(rise, set, b) = day[b] /\ Period(rise, set, c) = day[c]
          /\ Period(rise, set, a) # Period(rise, set, b)
          /\ Period(rise, set, a) # Period(rise, set, c)
          /\ Period(rise, set, b) # Period(rise, set, c)
      BY <2>3, <3>1, PeriodIsEighth DEF day
    <3>4. work.windows[1] = day[a] /\ work.windows[2] = day[b] /\ work.windows[3] = day[c]
          /\ day[a] # day[b] /\ day[a] # day[c] /\ day[b] # day[c]
      BY <3>2, <3>3
    <3> QED
      BY <3>1, <3>4
  <2> HIDE DEF day, night
  <2> QED
    BY <2>1, <2>4, <2>5, <2>6 DEF PeriodsAgree, rise, set, nextRise
<1> QED
  BY <1>1, <1>2, <1>3, PTL DEF Spec

-----------------------------------------------------------------------------
(* The parts of a limb.                                                    *)

KindNames == {"tithi", "nakshatra", "yoga", "karana", "moon_rashi"}
Parts(k) == Circle \div Width(k)

\* Time is divided so that a day is a whole number of thousand ticks; a limb passes
\* a boundary within the span of the search, but not the whole circle, and fewer
\* than seven in two days.
RealMoons ==
  /\ Day % 1000 = 0
  /\ \A k \in KindNames : \A m \in Moons[k] :
       /\ m.phase \in Int /\ m.rate \in Nat /\ m.rate <= 2 * (Day \div 1000)
       /\ Width(k) <= SpanInDays(k) * m.rate /\ SpanInDays(k) * m.rate < Circle
       /\ 2 * m.rate < 7 * Width(k)

\* The angle, counted on around the circle.
Unwound(moon, t) == moon.phase + ((t \div 1000) * moon.rate) \div (Day \div 1000)

RealMoon(k, m) ==
  /\ k \in KindNames /\ m.phase \in Int /\ m.rate \in Nat /\ m.rate <= 2 * (Day \div 1000)
  /\ Width(k) <= SpanInDays(k) * m.rate /\ SpanInDays(k) * m.rate < Circle
  /\ 2 * m.rate < 7 * Width(k)

LEMMA WidthFacts ==
  ASSUME NEW k \in KindNames
  PROVE  /\ Width(k) \in {9000, 10000, 4500, 22500} /\ Width(k) * Parts(k) = Circle
         /\ Width(k) \in Nat \ {0} /\ Parts(k) \in Nat \ {0} /\ SpanInDays(k) \in {2, 3}
         /\ SpanInDays(k) = 2 => Width(k) # 22500
BY DEF KindNames, Width, Parts, Circle, SpanInDays

\* Division does not reverse an order.
LEMMA DivisionMonotone ==
  ASSUME NEW n \in Nat \ {0}, NEW a \in Int, NEW b \in Int, a <= b
  PROVE  a \div n <= b \div n
<1> DEFINE p == a \div n
           q == b \div n
<1>1. /\ p \in Int /\ q \in Int /\ a % n \in Int /\ b % n \in Int
      /\ 0 <= a % n /\ b % n < n /\ a = n * p + (a % n) /\ b = n * q + (b % n)
  BY Division
<1> HIDE DEF p, q
<1>2. ASSUME q < p PROVE FALSE
  <2>1. p - q - 1 \in Nat
    BY <1>1, <1>2
  <2>2. n * p = n * q + n + n * (p - q - 1) /\ n * (p - q - 1) \in Nat /\ n * q \in Int
    BY <1>1, <2>1
  <2> QED
    BY <1>1, <2>2
<1> QED
  BY <1>1, <1>2 DEF p, q

\* The angle grows, by the rate in a day and hardly in a thousand ticks.
LEMMA UnwoundGrows ==
  ASSUME RealMoons, NEW k, NEW m, RealMoon(k, m), NEW t \in Int, NEW u \in Int
  PROVE  /\ Unwound(m, t) \in Int
         /\ t <= u => Unwound(m, t) <= Unwound(m, u)
         /\ u <= t + 1000 => Unwound(m, u) <= Unwound(m, t) + 2
         /\ \A n \in Nat : Unwound(m, t + n * Day) = Unwound(m, t) + n * m.rate
<1> DEFINE unit == Day \div 1000
           r == m.rate
           x == t \div 1000
           y == u \div 1000
<1>1. unit \in Nat \ {0} /\ Day = 1000 * unit
  BY DayAssumption DEF RealMoons
<1>2. r \in Nat /\ r <= 2 * unit /\ m.phase \in Int
  BY DEF RealMoon
<1>3. x \in Int /\ y \in Int /\ (t <= u => x <= y) /\ (u <= t + 1000 => y <= x + 1)
  OBVIOUS
<1>4. Unwound(m, t) = m.phase + (x * r) \div unit /\ Unwound(m, u) = m.phase + (y * r) \div unit
  BY DEF Unwound
<1>5. \A n \in Nat : Unwound(m, t + n * Day) = m.phase + ((x + n * unit) * r) \div unit
  <2> TAKE n \in Nat
  <2>1. n * Day = 1000 * (n * unit) /\ n * unit \in Int
    BY <1>1
  <2>2. (t + 1000 * (n * unit)) \div 1000 = x + n * unit
    BY <2>1
  <2> QED
    BY <2>1, <2>2 DEF Unwound
<1> HIDE DEF unit, r, x, y
<1>6. x * r \in Int /\ y * r \in Int /\ (x * r) \div unit \in Int /\ (y * r) \div unit \in Int
  BY <1>1, <1>2, <1>3
<1>7. t <= u => Unwound(m, t) <= Unwound(m, u)
  <2>1. x <= y => x * r <= y * r
    BY <1>2, <1>3
  <2>2. x <= y => (x * r) \div unit <= (y * r) \div unit
    BY <1>1, <1>6, <2>1, DivisionMonotone
  <2> QED
    BY <1>2, <1>3, <1>4, <1>6, <2>2
<1>8. u <= t + 1000 => Unwound(m, u) <= Unwound(m, t) + 2
  <2>1. y <= x + 1 => y * r <= x * r + unit * 2
    <3>1. y <= x + 1 => y * r <= (x + 1) * r
      BY <1>2, <1>3
    <3>2. (x + 1) * r = x * r + r
      BY <1>2, <1>3
    <3> QED
      BY <1>1, <1>2, <1>3, <1>6, <3>1, <3>2
  <2>2. x * r + unit * 2 \in Int /\ (x * r + unit * 2) \div unit = ((x * r) \div unit) + 2
    BY <1>1, <1>6, RestShift
  <2>3. y <= x + 1 => (y * r) \div unit <= ((x * r) \div unit) + 2
    BY <1>1, <1>6, <2>1, <2>2, DivisionMonotone
  <2> QED
    BY <1>2, <1>3, <1>4, <1>6, <2>3
<1>9. \A n \in Nat : Unwound(m, t + n * Day) = Unwound(m, t) + n * r
  <2> TAKE n \in Nat
  <2>1. (x + n * unit) * r = x * r + unit * (n * r) /\ n * r \in Int
    BY <1>1, <1>2, <1>3
  <2>2. (x * r + unit * (n * r)) \div unit = ((x * r) \div unit) + n * r
    BY <1>1, <1>6, <2>1, RestShift
  <2> QED
    BY <1>2, <1>4, <1>5, <1>6, <2>1, <2>2
<1> QED
  BY <1>2, <1>4, <1>6, <1>7, <1>8, <1>9 DEF r

\* The index repeats with the circle.
LEMMA IndexRepeats ==
  ASSUME NEW k \in KindNames, NEW u \in Int
  PROVE  IndexAt(k, u % Circle) = ((u \div Width(k)) % Parts(k)) + 1
<1>1. CASE Width(k) = 9000
  BY <1>1 DEF IndexAt, Parts, Circle
<1>2. CASE Width(k) = 10000
  BY <1>2 DEF IndexAt, Parts, Circle
<1>3. CASE Width(k) = 4500
  BY <1>3 DEF IndexAt, Parts, Circle
<1>4. CASE Width(k) = 22500
  BY <1>4 DEF IndexAt, Parts, Circle
<1> QED
  BY <1>1, <1>2, <1>3, <1>4, WidthFacts

\* Less than a circle on, the boundary is passed when the angle has reached it.
LEMMA PassedIsReached ==
  ASSUME NEW k \in KindNames, NEW u \in Int, NEW v \in Int, u <= v, v < u + Circle
  PROVE  LET a == u % Circle
         IN Passed(v % Circle, a, IndexAt(k, a) * Width(k) - a)
              <=> Width(k) * ((u \div Width(k)) + 1) <= v
<1>1. ((v % Circle) - (u % Circle)) % Circle = v - u
  BY DEF Circle
<1>2. IndexAt(k, u % Circle) * Width(k) - (u % Circle) = Width(k) * ((u \div Width(k)) + 1) - u
  <2>1. CASE Width(k) = 9000
    BY <2>1 DEF IndexAt, Circle
  <2>2. CASE Width(k) = 10000
    BY <2>2 DEF IndexAt, Circle
  <2>3. CASE Width(k) = 4500
    BY <2>3 DEF IndexAt, Circle
  <2>4. CASE Width(k) = 22500
    BY <2>4 DEF IndexAt, Circle
  <2> QED
    BY <2>1, <2>2, <2>3, <2>4, WidthFacts
<1>3. Width(k) * ((u \div Width(k)) + 1) \in Int
  <2>1. Width(k) \in Nat \ {0}
    BY WidthFacts
  <2>2. u \div Width(k) \in Int
    BY <2>1, Division
  <2> QED
    BY <2>1, <2>2
<1> DEFINE b == Width(k) * ((u \div Width(k)) + 1)
<1> HIDE DEF b
<1>4. Passed(v % Circle, u % Circle, b - u) <=> v - u >= b - u
  BY <1>1 DEF Passed
<1>5. v - u >= b - u <=> b <= v
  BY <1>3 DEF b
<1> QED
  BY <1>2, <1>4, <1>5 DEF b

LEMMA AngleIsUnwound == \A m, t : Angle(m, t) = Unwound(m, t) % Circle
BY DEF Angle, Unwound

\* What the search for the parts of a limb has found, once it has passed p.
PartsFound(w, k, p) ==
  LET n == Len(w.segments)
      q == Unwound(w.moon, w.rise) \div Width(k)
  IN /\ {"rise", "set", "nextRise", "limb", "moon", "segments", "active", "cursor"} \subseteq DOMAIN w
     /\ RealMoon(k, w.moon)
     /\ w.segments \in Seq([index : Int, from : Int, to : Int])
     /\ p \in Int /\ w.rise <= p /\ w.active = Timestamp(p)
     /\ w.cursor \in Int /\ p <= w.cursor /\ w.cursor <= p + 1
     /\ n = 0 => p = w.rise
     /\ Unwound(w.moon, w.cursor) \div Width(k) = q + n
     /\ n > 0 => w.segments[n].to = w.active
     /\ \A i \in 1..n :
          /\ w.segments[i].index = ((q + (i - 1)) % Parts(k)) + 1
          /\ w.segments[i].from = IF i = 1 THEN Timestamp(w.rise) ELSE w.segments[i - 1].to
          /\ w.segments[i].from <= Timestamp(w.nextRise)
          /\ \A t \in Int : w.segments[i].from < t /\ t < w.segments[i].to =>
               IndexAt(k, Angle(w.moon, t * Second)) = w.segments[i].index

\* It looks at nothing else.
LEMMA SameParts ==
  ASSUME NEW k, NEW w, NEW v, NEW p, PartsFound(w, k, p), DOMAIN w \subseteq DOMAIN v,
         v.rise = w.rise, v.nextRise = w.nextRise, v.moon = w.moon,
         v.segments = w.segments, v.active = w.active, v.cursor = w.cursor
  PROVE  PartsFound(v, k, p)
<1> DEFINE n == Len(w.segments)
           q == Unwound(w.moon, w.rise) \div Width(k)
<1>1. {"rise", "set", "nextRise", "limb", "moon", "segments", "active", "cursor"} \subseteq DOMAIN v
  BY DEF PartsFound
<1>2. RealMoon(k, v.moon) /\ v.segments \in Seq([index : Int, from : Int, to : Int])
  BY DEF PartsFound
<1>3. p \in Int /\ v.rise <= p /\ v.active = Timestamp(p)
      /\ v.cursor \in Int /\ p <= v.cursor /\ v.cursor <= p + 1
      /\ (Len(v.segments) = 0 => p = v.rise)
      /\ Unwound(v.moon, v.cursor) \div Width(k) = (Unwound(v.moon, v.rise) \div Width(k)) + Len(v.segments)
      /\ (Len(v.segments) > 0 => v.segments[Len(v.segments)].to = v.active)
  BY DEF PartsFound
<1>4. \A i \in 1..Len(v.segments) :
        /\ v.segments[i].index = (((Unwound(v.moon, v.rise) \div Width(k)) + (i - 1)) % Parts(k)) + 1
        /\ v.segments[i].from = IF i = 1 THEN Timestamp(v.rise) ELSE v.segments[i - 1].to
        /\ v.segments[i].from <= Timestamp(v.nextRise)
        /\ \A t \in Int : v.segments[i].from < t /\ t < v.segments[i].to =>
             IndexAt(k, Angle(v.moon, t * Second)) = v.segments[i].index
  BY ZenonT(30) DEF PartsFound
<1> QED
  BY <1>1, <1>2, <1>3, <1>4, ZenonT(30) DEF PartsFound

\* And where it is between lo and hi.
Bracketed(w, k) ==
  LET boundary == Width(k) * ((Unwound(w.moon, w.cursor) \div Width(k)) + 1)
  IN /\ {"a", "distance", "lo", "hi"} \subseteq DOMAIN w
     /\ w.a = Angle(w.moon, w.cursor) /\ w.distance = IndexAt(k, w.a) * Width(k) - w.a
     /\ w.lo \in Int /\ w.hi \in Int /\ w.cursor <= w.lo /\ w.lo < w.hi
     /\ w.hi <= w.cursor + SpanInDays(k) * Day
     /\ Unwound(w.moon, w.lo) < boundary /\ boundary <= Unwound(w.moon, w.hi)

SearchInv ==
  /\ stage \in {"seek", "halve"} =>
       /\ work.limb \in DOMAIN Kinds
       /\ \E p \in Int : PartsFound(work, Kinds[work.limb], p) /\ p < work.nextRise
  /\ stage = "halve" => Bracketed(work, Kinds[work.limb])
  /\ stage = "found" =>
       /\ work.limb \in DOMAIN Kinds
       /\ \E p \in Int : PartsFound(work, Kinds[work.limb], p) /\ work.nextRise <= p
       /\ Len(work.segments) > 0
  /\ stage # "lost"

LEMMA TimestampFacts ==
  ASSUME NEW t \in Int, NEW u \in Int
  PROVE  /\ Timestamp(t) \in Int
         /\ t <= u => Timestamp(t) <= Timestamp(u)
         /\ Timestamp(t) < u => t + 1 <= u * Second
         /\ u < Timestamp(t) => u * Second + 62 <= t
<1>1. Timestamp(t) = (2 * t + 125) \div 250 /\ Timestamp(u) = (2 * u + 125) \div 250
  BY DEF Timestamp, Second
<1> QED
  BY <1>1 DEF Second

\* The angle at the end of the span of a search, and up to it.
LEMMA SpanOfSearch ==
  ASSUME RealMoons, NEW k, NEW m, RealMoon(k, m), NEW c \in Int
  PROVE  LET hi == c + SpanInDays(k) * Day
         IN /\ hi \in Int /\ c < hi
            /\ Width(k) * ((Unwound(m, c) \div Width(k)) + 1) \in Int
            /\ Unwound(m, c) < Width(k) * ((Unwound(m, c) \div Width(k)) + 1)
            /\ Width(k) * ((Unwound(m, c) \div Width(k)) + 1) <= Unwound(m, hi)
            /\ \A t \in Int : c <= t /\ t <= hi =>
                 /\ Unwound(m, t) \in Int /\ Unwound(m, c) <= Unwound(m, t)
                 /\ Unwound(m, t) < Unwound(m, c) + Circle
<1> DEFINE s == SpanInDays(k)
           hi == c + s * Day
           W == Width(k)
           U(t) == Unwound(m, t)
           z == U(c) \div W
<1>1. s \in {2, 3} /\ W \in Nat \ {0} /\ Day \in Nat \ {0} /\ m.rate \in Nat
  BY WidthFacts, DayAssumption DEF RealMoon
<1>2. hi \in Int /\ c < hi
  BY <1>1
<1>3. U(c) \in Int /\ U(hi) = U(c) + s * m.rate /\ s * m.rate \in Int
  <2>1. s \in Nat /\ s * m.rate \in Int
    BY <1>1
  <2>2. U(c) \in Int /\ \A n \in Nat : Unwound(m, c + n * Day) = Unwound(m, c) + n * m.rate
    BY UnwoundGrows
  <2> HIDE DEF s
  <2>3. Unwound(m, c + s * Day) = Unwound(m, c) + s * m.rate
    BY <2>1, <2>2
  <2> QED
    BY <2>1, <2>2, <2>3
<1>4. W <= s * m.rate /\ s * m.rate < Circle
  BY DEF RealMoon
<1>5. z \in Int /\ U(c) % W \in Int /\ U(c) % W >= 0 /\ U(c) % W < W /\ U(c) = W * z + (U(c) % W)
  BY <1>1, <1>3, Division
<1>6. ASSUME NEW t \in Int, c <= t, t <= hi
      PROVE  U(t) \in Int /\ U(c) <= U(t) /\ U(t) <= U(hi)
  BY <1>2, <1>6, UnwoundGrows
<1> HIDE DEF s, hi, W, U, z
<1>7. W * (z + 1) = W * z + W /\ W * z \in Int
  BY <1>1, <1>5
<1>8. W * (z + 1) \in Int /\ U(c) < W * (z + 1) /\ W * (z + 1) <= U(hi)
  BY <1>1, <1>3, <1>4, <1>5, <1>7
<1>9. \A t \in Int : c <= t /\ t <= hi => U(t) \in Int /\ U(c) <= U(t) /\ U(t) < U(c) + Circle
  BY <1>3, <1>4, <1>6 DEF Circle
<1> QED
  BY <1>2, <1>8, <1>9 DEF s, hi, W, U, z

\* A search that has not reached the next sunrise finds the next boundary, and
\* has found less than eight.
LEMMA SeekFinds ==
  ASSUME RealMoons, NEW k, NEW w, NEW p, k \in KindNames, DayLocals(w), PartsFound(w, k, p), p < w.nextRise
  PROVE  LET a == Angle(w.moon, w.cursor)
             distance == IndexAt(k, a) * Width(k) - a
             hi == w.cursor + SpanInDays(k) * Day
         IN Len(w.segments) < 8 /\ Passed(Angle(w.moon, hi), a, distance)
<1> DEFINE c == w.cursor
           n == Len(w.segments)
           W == Width(k)
           U(t) == Unwound(w.moon, t)
           q == U(w.rise) \div W
           hi == c + SpanInDays(k) * Day
<1>1. /\ c \in Int /\ p \in Int /\ c <= p + 1 /\ RealMoon(k, w.moon)
      /\ n \in Nat /\ U(c) \div W = q + n
  BY DEF PartsFound
<1>2. /\ hi \in Int /\ c <= hi /\ U(c) \in Int
      /\ U(hi) \in Int /\ U(c) <= U(hi) /\ U(hi) < U(c) + Circle
      /\ W * ((U(c) \div W) + 1) <= U(hi)
  <2>1. /\ hi \in Int /\ c < hi /\ W * ((U(c) \div W) + 1) <= U(hi)
        /\ \A t \in Int : c <= t /\ t <= hi =>
             U(t) \in Int /\ U(c) <= U(t) /\ U(t) < U(c) + Circle
    BY <1>1, SpanOfSearch
  <2> HIDE DEF c, hi, U, W
  <2>2. c <= hi /\ c <= c
    BY <1>1, <2>1
  <2> QED
    BY <1>1, <2>1, <2>2
<1>3. Passed(Angle(w.moon, hi), Angle(w.moon, c), IndexAt(k, Angle(w.moon, c)) * W - Angle(w.moon, c))
  <2> DEFINE u == U(c)
             v == U(hi)
  <2>1. u \in Int /\ v \in Int /\ u <= v /\ v < u + Circle /\ W * ((u \div W) + 1) <= v
    BY <1>2
  <2>2. Angle(w.moon, c) = u % Circle /\ Angle(w.moon, hi) = v % Circle
    BY AngleIsUnwound
  <2> HIDE DEF u, v
  <2>3. Passed(v % Circle, u % Circle, IndexAt(k, u % Circle) * W - (u % Circle))
    BY <2>1, PassedIsReached
  <2> QED
    BY <2>2, <2>3
<1>4. n < 8
  <2>1. /\ w.rise \in Int /\ w.nextRise \in Int /\ w.nextRise - w.rise < 2 * Day
        /\ Day \in Nat \ {0} /\ W \in Nat \ {0} /\ w.moon.rate \in Nat /\ 2 * w.moon.rate < 7 * W
    BY <1>1, WidthFacts, DayAssumption DEF DayLocals, RealMoon
  <2>2. c <= w.rise + 2 * Day /\ w.rise + 2 * Day \in Int
    <3>1. c \in Int /\ p \in Int /\ c <= p + 1
      BY <1>1
    <3> HIDE DEF c, n, W, U, q, hi
    <3>2. c <= w.nextRise
      BY <2>1, <3>1
    <3> QED
      BY <2>1, <3>1, <3>2
  <2>3. U(c) <= U(w.rise + 2 * Day)
    BY <1>1, <2>2, UnwoundGrows
  <2>4. U(w.rise) \in Int /\ U(w.rise + 2 * Day) = U(w.rise) + 2 * w.moon.rate
    BY <1>1, <2>1, UnwoundGrows
  <2> DEFINE x == U(w.rise)
             y == U(c)
  <2>5. x \in Int /\ y \in Int /\ y <= x + W * 7
    BY <1>2, <2>1, <2>3, <2>4
  <2>6. q = x \div W /\ y \div W = q + n
    BY <1>1
  <2> HIDE DEF x, y, W, q, n
  <2>7. x + W * 7 \in Int /\ (x + W * 7) \div W = (x \div W) + 7
    BY <2>1, <2>5, RestShift
  <2>8. y \div W <= (x \div W) + 7
    BY <2>1, <2>5, <2>7, DivisionMonotone
  <2>9. x \div W \in Int
    BY <2>1, <2>5, Division
  <2> QED
    BY <1>1, <2>6, <2>8, <2>9
<1> QED
  BY <1>3, <1>4

\* What the search adds to the locals.
LEMMA BracketsBoundary ==
  ASSUME RealMoons, NEW k, NEW w, NEW p, k \in KindNames, DayLocals(w), PartsFound(w, k, p)
  PROVE  LET a == Angle(w.moon, w.cursor)
             wide == With(w, [a |-> a, distance |-> IndexAt(k, a) * Width(k) - a,
                              lo |-> w.cursor, hi |-> w.cursor + SpanInDays(k) * Day])
         IN /\ Bracketed(wide, k) /\ PartsFound(wide, k, p) /\ DayLocals(wide)
            /\ wide.nextRise = w.nextRise /\ wide.limb = w.limb
<1> DEFINE c == w.cursor
           a == Angle(w.moon, c)
           distance == IndexAt(k, a) * Width(k) - a
           hi == c + SpanInDays(k) * Day
           wide == With(w, [a |-> a, distance |-> distance, lo |-> c, hi |-> hi])
           boundary == Width(k) * ((Unwound(w.moon, c) \div Width(k)) + 1)
<1>1. /\ {"rise", "set", "nextRise", "limb", "moon", "segments", "active", "cursor"} \subseteq DOMAIN w
      /\ RealMoon(k, w.moon) /\ c \in Int
  BY DEF PartsFound
<1>2. /\ DOMAIN wide = DOMAIN w \cup {"a", "distance", "lo", "hi"}
      /\ wide.a = a /\ wide.distance = distance /\ wide.lo = c /\ wide.hi = hi
      /\ wide.rise = w.rise /\ wide.set = w.set /\ wide.nextRise = w.nextRise /\ wide.limb = w.limb
      /\ wide.moon = w.moon /\ wide.segments = w.segments /\ wide.active = w.active /\ wide.cursor = c
  <2> HIDE DEF c, a, distance, hi
  <2> QED
    BY <1>1 DEF With, c
<1>3. /\ hi \in Int /\ c < hi
      /\ Unwound(w.moon, c) < boundary /\ boundary <= Unwound(w.moon, hi)
  BY <1>1, SpanOfSearch
<1> HIDE DEF wide, hi
<1>4. Bracketed(wide, k)
  BY <1>1, <1>2, <1>3 DEF Bracketed, hi
<1>5. PartsFound(wide, k, p)
  BY <1>2, SameParts
<1>6. DayLocals(wide)
  BY <1>2 DEF DayLocals
<1> QED
  BY <1>2, <1>4, <1>5, <1>6 DEF wide, hi

\* Halving keeps the boundary between the two.
LEMMA HalvesBracket ==
  ASSUME RealMoons, NEW k, NEW w, NEW p, k \in KindNames, DayLocals(w), PartsFound(w, k, p),
         Bracketed(w, k), 10 * (w.hi - w.lo) > Second
  PROVE  LET mid == (w.lo + w.hi) \div 2
             half == IF Passed(Angle(w.moon, mid), w.a, w.distance)
                     THEN [w EXCEPT !.hi = mid] ELSE [w EXCEPT !.lo = mid]
         IN /\ Bracketed(half, k) /\ PartsFound(half, k, p) /\ DayLocals(half)
            /\ half.nextRise = w.nextRise /\ half.limb = w.limb
<1> DEFINE c == w.cursor
           mid == (w.lo + w.hi) \div 2
           U(t) == Unwound(w.moon, t)
           boundary == Width(k) * ((U(c) \div Width(k)) + 1)
           half == IF Passed(Angle(w.moon, mid), w.a, w.distance)
                   THEN [w EXCEPT !.hi = mid] ELSE [w EXCEPT !.lo = mid]
<1>1. /\ {"rise", "set", "nextRise", "limb", "moon", "segments", "active", "cursor"} \subseteq DOMAIN w
      /\ RealMoon(k, w.moon) /\ c \in Int
  BY DEF PartsFound
<1>2. /\ {"a", "distance", "lo", "hi"} \subseteq DOMAIN w
      /\ w.a = Angle(w.moon, c) /\ w.distance = IndexAt(k, w.a) * Width(k) - w.a
      /\ w.lo \in Int /\ w.hi \in Int /\ c <= w.lo /\ w.lo < w.hi /\ w.hi <= c + SpanInDays(k) * Day
      /\ U(w.lo) < boundary /\ boundary <= U(w.hi)
  BY DEF Bracketed
<1>3. mid \in Int /\ w.lo < mid /\ mid < w.hi
  BY <1>2 DEF Second
<1>4. Passed(Angle(w.moon, mid), w.a, w.distance) <=> boundary <= U(mid)
  <2> DEFINE m == w.moon
             u == U(c)
             v == U(mid)
  <2>1. \A t \in Int : c <= t /\ t <= c + SpanInDays(k) * Day =>
          U(t) \in Int /\ U(c) <= U(t) /\ U(t) < U(c) + Circle
    BY <1>1, SpanOfSearch
  <2>2. c + SpanInDays(k) * Day \in Int /\ SpanInDays(k) * Day \in Nat
    BY <1>1, WidthFacts, DayAssumption
  <2>3. c <= mid /\ mid <= c + SpanInDays(k) * Day /\ c <= c /\ c <= c + SpanInDays(k) * Day
    <3> HIDE DEF mid, c
    <3> DEFINE e == SpanInDays(k) * Day
    <3>1. e \in Nat /\ w.hi <= c + e
      BY <1>2, <2>2
    <3> HIDE DEF e
    <3>2. c <= mid /\ mid <= c + e /\ c <= c /\ c <= c + e
      BY <1>1, <1>2, <1>3, <3>1
    <3> QED
      BY <3>2 DEF e
  <2>4. u \in Int /\ v \in Int /\ u <= v /\ v < u + Circle
    <3> HIDE DEF U, mid, c
    <3> QED
      BY <1>1, <1>3, <2>1, <2>3
  <2>5. w.a = u % Circle /\ Angle(w.moon, mid) = v % Circle
    BY <1>2, AngleIsUnwound
  <2>6. boundary = Width(k) * ((u \div Width(k)) + 1)
    OBVIOUS
  <2> HIDE DEF u, v, boundary
  <2>7. Passed(v % Circle, u % Circle, IndexAt(k, u % Circle) * Width(k) - (u % Circle)) <=> boundary <= v
    BY <2>4, <2>6, PassedIsReached
  <2>8. Passed(Angle(w.moon, mid), w.a, w.distance) <=> boundary <= v
    BY <1>2, <2>5, <2>7
  <2> QED
    BY <2>8 DEF v
<1>5. /\ DOMAIN half = DOMAIN w /\ half.a = w.a /\ half.distance = w.distance
      /\ half.rise = w.rise /\ half.set = w.set /\ half.nextRise = w.nextRise /\ half.limb = w.limb
      /\ half.moon = w.moon /\ half.segments = w.segments /\ half.active = w.active /\ half.cursor = c
  <2> HIDE DEF mid
  <2> QED
    BY <1>1, <1>2
<1>6. /\ boundary <= U(mid) => half.hi = mid /\ half.lo = w.lo
      /\ ~(boundary <= U(mid)) => half.lo = mid /\ half.hi = w.hi
  <2> HIDE DEF mid, boundary, U
  <2> QED
    BY <1>2, <1>4
<1>7. U(mid) \in Int /\ boundary \in Int
  <2>1. boundary \in Int
    BY <1>1, SpanOfSearch
  <2>2. U(mid) \in Int
    BY <1>1, <1>3, UnwoundGrows
  <2> QED
    BY <2>1, <2>2
<1> HIDE DEF half, mid
<1>8. /\ half.lo \in Int /\ half.hi \in Int /\ c <= half.lo /\ half.lo < half.hi
      /\ half.hi <= c + SpanInDays(k) * Day
      /\ U(half.lo) < boundary /\ boundary <= U(half.hi)
  <2> DEFINE e == c + SpanInDays(k) * Day
  <2>1. e \in Int /\ w.hi <= e
    BY <1>1, <1>2, WidthFacts, DayAssumption
  <2> HIDE DEF e
  <2>2. CASE boundary <= U(mid)
    <3>1. half.hi = mid /\ half.lo = w.lo
      BY <1>6, <2>2
    <3> HIDE DEF U, boundary, c
    <3>2. half.lo \in Int /\ half.hi \in Int /\ c <= half.lo /\ half.lo < half.hi /\ half.hi <= e
      BY <1>1, <1>2, <1>3, <2>1, <3>1
    <3>3. U(half.lo) < boundary /\ boundary <= U(half.hi)
      BY <1>2, <2>2, <3>1
    <3> QED
      BY <3>2, <3>3 DEF e
  <2>3. CASE ~(boundary <= U(mid))
    <3>1. half.lo = mid /\ half.hi = w.hi
      BY <1>6, <2>3
    <3> HIDE DEF U, boundary, c
    <3>2. half.lo \in Int /\ half.hi \in Int /\ c <= half.lo /\ half.lo < half.hi /\ half.hi <= e
      BY <1>1, <1>2, <1>3, <2>1, <3>1
    <3>3. U(half.lo) < boundary /\ boundary <= U(half.hi)
      BY <1>2, <1>7, <2>3, <3>1
    <3> QED
      BY <3>2, <3>3 DEF e
  <2> QED
    BY <2>2, <2>3
<1>9. Bracketed(half, k)
  BY <1>2, <1>5, <1>8 DEF Bracketed
<1>10. PartsFound(half, k, p)
  BY <1>5, SameParts
<1>11. DayLocals(half)
  BY <1>5 DEF DayLocals
<1> QED
  BY <1>5, <1>9, <1>10, <1>11 DEF half, mid

\* Where the two are a tenth of a second apart, one more part has been found.
LEMMA SegmentIsFound ==
  ASSUME RealMoons, NEW k, NEW w, NEW p, k \in KindNames, DayLocals(w), PartsFound(w, k, p),
         p < w.nextRise, Bracketed(w, k), 10 * (w.hi - w.lo) <= Second
  PROVE  LET segment == [index |-> IndexAt(k, w.a), from |-> w.active, to |-> Timestamp(w.hi)]
             longer == [w EXCEPT !.segments = Append(@, segment), !.active = segment.to, !.cursor = w.hi + 1]
         IN /\ PartsFound(longer, k, w.hi) /\ Len(longer.segments) > 0 /\ DayLocals(longer)
            /\ longer.nextRise = w.nextRise /\ longer.limb = w.limb
<1> DEFINE m == w.moon
           c == w.cursor
           W == Width(k)
           U(t) == Unwound(m, t)
           q == U(w.rise) \div W
           n == Len(w.segments)
           segment == [index |-> IndexAt(k, w.a), from |-> w.active, to |-> Timestamp(w.hi)]
           longer == [w EXCEPT !.segments = Append(@, segment), !.active = segment.to, !.cursor = w.hi + 1]
           parts == Append(w.segments, segment)
<1>1. /\ {"rise", "set", "nextRise", "limb", "moon", "segments", "active", "cursor"} \subseteq DOMAIN w
      /\ RealMoon(k, m) /\ w.segments \in Seq([index : Int, from : Int, to : Int])
      /\ n \in Nat /\ p \in Int /\ w.rise <= p /\ w.active = Timestamp(p)
      /\ c \in Int /\ p <= c /\ c <= p + 1
      /\ (n = 0 => p = w.rise) /\ U(c) \div W = q + n /\ (n > 0 => w.segments[n].to = w.active)
  BY DEF PartsFound
<1>2. w.rise \in Int /\ w.nextRise \in Int /\ W \in Nat \ {0} /\ W >= 2 /\ Parts(k) \in Nat \ {0}
  BY WidthFacts DEF DayLocals
<1>3. /\ w.a = Angle(m, c) /\ w.lo \in Int /\ w.hi \in Int /\ c <= w.lo /\ w.lo < w.hi
      /\ U(w.lo) < W * ((U(c) \div W) + 1) /\ W * ((U(c) \div W) + 1) <= U(w.hi)
  BY DEF Bracketed
<1>4. w.hi <= w.lo + 12
  BY <1>3 DEF Second
<1>5. U(w.rise) \in Int /\ U(c) \in Int /\ U(w.lo) \in Int /\ U(w.hi) \in Int /\ U(w.hi + 1) \in Int
  <2>1. w.hi + 1 \in Int
    BY <1>3
  <2> QED
    BY <1>1, <1>2, <1>3, <2>1, UnwoundGrows
<1>6. U(w.hi) <= U(w.hi + 1) /\ U(w.hi + 1) <= U(w.lo) + 2
  <2>1. w.hi + 1 \in Int /\ w.hi <= w.hi + 1 /\ w.hi + 1 <= w.lo + 1000
    BY <1>3, <1>4
  <2> QED
    BY <1>1, <1>3, <2>1, UnwoundGrows
<1>7. q \in Int
  BY <1>2, <1>5, Division
<1> DEFINE z == q + n
<1>8. z \in Int /\ W * z <= U(c) /\ U(w.lo) < W * (z + 1) /\ W * (z + 1) <= U(w.hi)
  <2> DEFINE u == U(c)
  <2>1. z \in Int /\ u \in Int /\ u \div W = z
    BY <1>1, <1>5, <1>7
  <2> HIDE DEF u, z, W
  <2>2. W * z <= u
    BY <1>2, <2>1, QuotientOf
  <2> QED
    BY <1>3, <2>1, <2>2 DEF u
<1> HIDE DEF z
<1>9. U(w.hi + 1) \div W = z + 1
  <2> DEFINE y == U(w.hi + 1)
             l == U(w.lo)
             h == U(w.hi)
  <2>1. y \in Int /\ l \in Int /\ h \in Int /\ h <= y /\ y <= l + 2 /\ l < W * (z + 1) /\ W * (z + 1) <= h
    BY <1>5, <1>6, <1>8
  <2> HIDE DEF y, l, h, W
  <2>2. W * (z + 1) \in Int /\ W * ((z + 1) + 1) = W * (z + 1) + W
    BY <1>2, <1>8
  <2>3. W * (z + 1) <= y /\ y < W * ((z + 1) + 1)
    BY <1>2, <2>1, <2>2
  <2>4. z + 1 \in Int
    BY <1>8
  <2> QED
    BY <1>2, <2>1, <2>3, <2>4, QuotientOf DEF y
<1>10. \A t \in Int : c <= t /\ t <= w.lo => IndexAt(k, Angle(m, t)) = (z % Parts(k)) + 1
  <2> SUFFICES ASSUME NEW t \in Int, c <= t, t <= w.lo
               PROVE  IndexAt(k, Angle(m, t)) = (z % Parts(k)) + 1
    OBVIOUS
  <2> DEFINE u == U(t)
  <2>1. u \in Int /\ U(c) <= u /\ u <= U(w.lo)
    BY <1>1, <1>3, UnwoundGrows
  <2>2. Angle(m, t) = u % Circle
    BY AngleIsUnwound
  <2> HIDE DEF u
  <2>3. W * z <= u /\ u < W * (z + 1)
    <3>1. W * z \in Int /\ W * (z + 1) \in Int
      BY <1>2, <1>8
    <3> HIDE DEF U, W
    <3> QED
      BY <1>5, <1>8, <2>1, <3>1
  <2>4. u \div W = z
    BY <1>2, <1>8, <2>1, <2>3, QuotientOf
  <2> QED
    BY <2>1, <2>2, <2>4, IndexRepeats
<1>11. segment.index = (z % Parts(k)) + 1 /\ segment.from = Timestamp(p) /\ segment.to = Timestamp(w.hi)
       /\ segment \in [index : Int, from : Int, to : Int]
  <2>1. IndexAt(k, Angle(m, c)) = (z % Parts(k)) + 1
    <3>1. c <= c /\ c <= w.lo
      BY <1>1, <1>3
    <3> QED
      BY <1>1, <1>10, <3>1
  <2>2. (z % Parts(k)) + 1 \in Int
    <3>1. z % Parts(k) \in Int
      BY <1>2, <1>8, Division
    <3> QED
      BY <3>1
  <2>3. Timestamp(p) \in Int /\ Timestamp(w.hi) \in Int
    BY <1>1, <1>3, TimestampFacts
  <2> QED
    BY <1>1, <1>3, <2>1, <2>2, <2>3
<1>12. \A t \in Int : segment.from < t /\ t < segment.to =>
         IndexAt(k, Angle(m, t * Second)) = segment.index
  <2> SUFFICES ASSUME NEW t \in Int, Timestamp(p) < t, t < Timestamp(w.hi)
               PROVE  IndexAt(k, Angle(m, t * Second)) = (z % Parts(k)) + 1
    BY <1>11
  <2>1. p + 1 <= t * Second /\ t * Second + 62 <= w.hi
    BY <1>1, <1>3, TimestampFacts
  <2>2. t * Second \in Int
    BY DEF Second
  <2>3. c <= t * Second /\ t * Second <= w.lo
    <3> HIDE DEF c
    <3> QED
      BY <1>1, <1>3, <1>4, <2>1, <2>2
  <2> QED
    BY <1>10, <2>2, <2>3
<1> HIDE DEF segment
<1>13. /\ DOMAIN longer = DOMAIN w /\ longer.rise = w.rise /\ longer.set = w.set
       /\ longer.nextRise = w.nextRise /\ longer.limb = w.limb /\ longer.moon = m
       /\ longer.segments = parts /\ longer.active = segment.to /\ longer.cursor = w.hi + 1
  BY <1>1
<1>14. /\ parts \in Seq([index : Int, from : Int, to : Int]) /\ Len(parts) = n + 1
       /\ parts[n + 1] = segment /\ \A i \in 1..n : parts[i] = w.segments[i]
  BY <1>1, <1>11
<1> HIDE DEF longer, parts
<1>15. \A i \in 1..(n + 1) :
         /\ parts[i].index = ((q + (i - 1)) % Parts(k)) + 1
         /\ parts[i].from = IF i = 1 THEN Timestamp(w.rise) ELSE parts[i - 1].to
         /\ parts[i].from <= Timestamp(w.nextRise)
         /\ \A t \in Int : parts[i].from < t /\ t < parts[i].to =>
              IndexAt(k, Angle(m, t * Second)) = parts[i].index
  <2> TAKE i \in 1..(n + 1)
  <2>1. CASE i = n + 1
    <3>1. parts[i] = segment
      BY <1>14, <2>1
    <3>2. q + (i - 1) = z
      BY <1>1, <1>7, <2>1 DEF z
    <3>3. segment.from = IF i = 1 THEN Timestamp(w.rise) ELSE parts[i - 1].to
      <4>1. CASE n = 0
        BY <1>1, <1>11, <2>1, <4>1
      <4>2. CASE n > 0
        <5>1. i # 1 /\ i - 1 = n /\ n \in 1..n
          BY <1>1, <2>1, <4>2
        <5>2. parts[i - 1] = w.segments[n]
          BY <1>14, <5>1
        <5> QED
          BY <1>1, <1>11, <4>2, <5>1, <5>2
      <4> QED
        BY <1>1, <4>1, <4>2
    <3>4. Timestamp(p) <= Timestamp(w.nextRise)
      <4>1. p <= w.nextRise
        BY <1>1, <1>2
      <4> QED
        BY <1>1, <1>2, <4>1, TimestampFacts
    <3> QED
      BY <1>11, <1>12, <3>1, <3>2, <3>3, <3>4
  <2>2. CASE i # n + 1
    <3>1. i \in 1..n /\ (i # 1 => i - 1 \in 1..n)
      <4>1. n \in Nat
        BY <1>1
      <4> HIDE DEF n
      <4> QED
        BY <2>2, <4>1
    <3>2. parts[i] = w.segments[i] /\ (i # 1 => parts[i - 1] = w.segments[i - 1])
      BY <1>14, <3>1
    <3>3. /\ w.segments[i].index = ((q + (i - 1)) % Parts(k)) + 1
          /\ w.segments[i].from = IF i = 1 THEN Timestamp(w.rise) ELSE w.segments[i - 1].to
          /\ w.segments[i].from <= Timestamp(w.nextRise)
          /\ \A t \in Int : w.segments[i].from < t /\ t < w.segments[i].to =>
               IndexAt(k, Angle(m, t * Second)) = w.segments[i].index
      BY <3>1, ZenonT(30) DEF PartsFound
    <3> HIDE DEF q, m
    <3> QED
      BY <3>2, <3>3
  <2> QED
    BY <2>1, <2>2
<1>16. DayLocals(longer)
  BY <1>13 DEF DayLocals
<1>17. PartsFound(longer, k, w.hi)
  <2>1. {"rise", "set", "nextRise", "limb", "moon", "segments", "active", "cursor"} \subseteq DOMAIN longer
    BY <1>1, <1>13
  <2>2. RealMoon(k, longer.moon) /\ longer.segments \in Seq([index : Int, from : Int, to : Int])
    BY <1>1, <1>13, <1>14
  <2>3. w.hi \in Int /\ longer.rise <= w.hi /\ longer.active = Timestamp(w.hi)
        /\ longer.cursor \in Int /\ w.hi <= longer.cursor /\ longer.cursor <= w.hi + 1
    <3>1. w.hi \in Int /\ w.rise \in Int /\ w.rise <= p /\ p \in Int /\ p <= w.hi
      <4>1. p <= c /\ c \in Int /\ c <= w.lo /\ w.lo \in Int /\ w.lo < w.hi /\ w.hi \in Int
        BY <1>1, <1>3
      <4> HIDE DEF c
      <4> QED
        BY <1>1, <1>2, <4>1
    <3> HIDE DEF c
    <3>2. longer.rise = w.rise /\ longer.active = Timestamp(w.hi) /\ longer.cursor = w.hi + 1
      BY <1>11, <1>13
    <3> QED
      BY <3>1, <3>2
  <2>4. Len(longer.segments) = n + 1 /\ n + 1 # 0
    BY <1>1, <1>13, <1>14
  <2>5. Unwound(longer.moon, longer.cursor) \div W
          = (Unwound(longer.moon, longer.rise) \div W) + Len(longer.segments)
    <3>1. z + 1 = q + (n + 1)
      BY <1>1, <1>7 DEF z
    <3> QED
      BY <1>9, <1>13, <2>4, <3>1
  <2>6. longer.segments[Len(longer.segments)].to = longer.active
    BY <1>13, <1>14, <2>4
  <2>7. \A i \in 1..Len(longer.segments) :
          /\ longer.segments[i].index = (((Unwound(longer.moon, longer.rise) \div Width(k)) + (i - 1)) % Parts(k)) + 1
          /\ longer.segments[i].from = IF i = 1 THEN Timestamp(longer.rise) ELSE longer.segments[i - 1].to
          /\ longer.segments[i].from <= Timestamp(longer.nextRise)
          /\ \A t \in Int : longer.segments[i].from < t /\ t < longer.segments[i].to =>
               IndexAt(k, Angle(longer.moon, t * Second)) = longer.segments[i].index
    <3>1. Len(longer.segments) = n + 1 /\ longer.segments = parts /\ longer.rise = w.rise
          /\ longer.nextRise = w.nextRise /\ longer.moon = m
          /\ Unwound(longer.moon, longer.rise) \div Width(k) = q
      BY <1>13, <2>4
    <3> HIDE DEF q, m, n
    <3> QED
      BY <1>15, <3>1
  <2> QED
    BY <2>1, <2>2, <2>3, <2>4, <2>5, <2>6, <2>7, ZenonT(30) DEF PartsFound
<1>18. Len(longer.segments) > 0
  BY <1>1, <1>13, <1>14
<1> QED
  BY <1>13, <1>16, <1>17, <1>18 DEF longer, segment

LEMMA LimbKinds == \A limb \in DOMAIN Kinds : limb \in 1..5 /\ Kinds[limb] \in KindNames
BY DEF Kinds, KindNames

\* A search begins at the rise with no parts.
LEMMA SearchBegins ==
  ASSUME RealMoons, NEW limb \in 1..5, NEW moon \in Moons[Kinds[limb]], NEW w, DayLocals(w)
  PROVE  LET locals == [rise |-> w.rise, set |-> w.set, nextRise |-> w.nextRise,
                        limb |-> limb, moon |-> moon, cursor |-> w.rise,
                        active |-> Timestamp(w.rise), segments |-> <<>>]
         IN PartsFound(locals, Kinds[limb], w.rise)
<1> DEFINE k == Kinds[limb]
           locals == [rise |-> w.rise, set |-> w.set, nextRise |-> w.nextRise,
                      limb |-> limb, moon |-> moon, cursor |-> w.rise,
                      active |-> Timestamp(w.rise), segments |-> <<>>]
<1>1. k \in KindNames /\ w.rise \in Int
  BY LimbKinds DEF DayLocals, Kinds
<1>2. RealMoon(k, moon)
  <2> HIDE DEF k
  <2>1. moon \in Moons[k]
    BY DEF k
  <2> QED
    BY <1>1, <2>1 DEF RealMoons, RealMoon
<1>3. Unwound(moon, w.rise) \div Width(k) \in Int
  <2>1. Unwound(moon, w.rise) \in Int /\ Width(k) \in Nat \ {0}
    BY <1>1, <1>2, UnwoundGrows, WidthFacts
  <2> QED
    BY <2>1, Division
<1> HIDE DEF k
<1>4. /\ DOMAIN locals = {"rise", "set", "nextRise", "limb", "moon", "cursor", "active", "segments"}
      /\ locals.rise = w.rise /\ locals.nextRise = w.nextRise /\ locals.moon = moon
      /\ locals.cursor = w.rise /\ locals.active = Timestamp(w.rise) /\ locals.segments = <<>>
  OBVIOUS
<1> HIDE DEF locals
<1>5. Len(locals.segments) = 0 /\ locals.segments \in Seq([index : Int, from : Int, to : Int])
  BY <1>4
<1>6. Unwound(locals.moon, locals.cursor) \div Width(k)
        = (Unwound(locals.moon, locals.rise) \div Width(k)) + Len(locals.segments)
  BY <1>3, <1>4, <1>5
<1>7. w.rise <= w.rise /\ w.rise <= w.rise + 1
  BY <1>1
<1>8. 1..Len(locals.segments) = {}
  BY <1>5
<1>9. ~(Len(locals.segments) > 0)
  BY <1>5
<1>10. PartsFound(locals, k, w.rise)
  <2>1. {"rise", "set", "nextRise", "limb", "moon", "segments", "active", "cursor"} \subseteq DOMAIN locals
    BY <1>4
  <2>2. RealMoon(k, locals.moon) /\ locals.segments \in Seq([index : Int, from : Int, to : Int])
    BY <1>2, <1>4, <1>5
  <2>3. w.rise \in Int /\ locals.rise <= w.rise /\ locals.active = Timestamp(w.rise)
        /\ locals.cursor \in Int /\ w.rise <= locals.cursor /\ locals.cursor <= w.rise + 1
        /\ w.rise = locals.rise
    BY <1>1, <1>4, <1>7
  <2> QED
    BY <1>6, <1>8, <1>9, <2>1, <2>2, <2>3 DEF PartsFound
<1> QED
  BY <1>10 DEF locals, k

LEMMA SearchKeepsInv ==
  ASSUME RealMoons, NEW limb \in 1..5, DayLocals(work), Search(limb)
  PROVE  SearchInv'
<1>1. PICK moon \in Moons[Kinds[limb]] :
        /\ stage' = "seek"
        /\ work' = [rise |-> work.rise, set |-> work.set, nextRise |-> work.nextRise,
                    limb |-> limb, moon |-> moon, cursor |-> work.rise,
                    active |-> Timestamp(work.rise), segments |-> <<>>]
  BY DEF Search, Continue
<1>2. PartsFound(work', Kinds[limb], work.rise)
  BY <1>1, SearchBegins
<1>3. work'.limb = limb /\ work'.nextRise = work.nextRise
  BY <1>1
<1>4. work.rise \in Int /\ work.rise < work.nextRise
  BY DEF DayLocals, Second
<1>5. limb \in DOMAIN Kinds
  BY DEF Kinds
<1> QED
  BY <1>1, <1>2, <1>3, <1>4, <1>5 DEF SearchInv

LEMMA NextSearchInv ==
  ASSUME RealMoons, DayInv, DividedInv, SearchInv, [Next]_vars
  PROVE  SearchInv'
<1>1. CASE FirstLimb
  <2>1. DayLocals(work) /\ Search(1) /\ 1 \in 1..5
    BY <1>1 DEF FirstLimb, DayInv
  <2> QED
    BY <2>1, SearchKeepsInv
<1>2. CASE NextLimb
  <2>1. DayLocals(work) /\ work.limb \in 1..5 /\ work.limb < 4 /\ Search(work.limb + 1)
    BY <1>2, LimbKinds DEF NextLimb, DayInv, SearchInv
  <2>2. work.limb + 1 \in 1..5
    BY <2>1
  <2> QED
    BY <2>1, <2>2, SearchKeepsInv
<1>3. CASE SignLimb
  <2>1. DayLocals(work) /\ Search(5) /\ 5 \in 1..5
    BY <1>3 DEF SignLimb, DividedInv
  <2> QED
    BY <2>1, SearchKeepsInv
<1>4. CASE Seek
  <2> DEFINE k == Kinds[work.limb]
             a == Angle(work.moon, work.cursor)
             distance == IndexAt(k, a) * Width(k) - a
             hi == work.cursor + SpanInDays(k) * Day
             wide == With(work, [a |-> a, distance |-> distance, lo |-> work.cursor, hi |-> hi])
  <2>1. stage = "seek" /\ DayLocals(work) /\ work.limb \in DOMAIN Kinds /\ k \in KindNames
    BY <1>4, LimbKinds DEF Seek, DayInv, SearchInv
  <2>2. PICK p \in Int : PartsFound(work, k, p) /\ p < work.nextRise
    BY <2>1 DEF SearchInv
  <2>3. Len(work.segments) < 8 /\ Passed(Angle(work.moon, hi), a, distance)
    BY <2>1, <2>2, SeekFinds
  <2>4. stage' = "halve" /\ work' = wide
    BY <1>4, <2>3 DEF Seek, Continue
  <2>5. /\ Bracketed(wide, k) /\ PartsFound(wide, k, p)
        /\ wide.nextRise = work.nextRise /\ wide.limb = work.limb
    BY <2>1, <2>2, BracketsBoundary
  <2> HIDE DEF wide
  <2>6. Kinds[work'.limb] = k
    BY <2>4, <2>5
  <2> HIDE DEF k
  <2> QED
    BY <2>1, <2>2, <2>4, <2>5, <2>6 DEF SearchInv
<1>5. CASE Halve
  <2> DEFINE k == Kinds[work.limb]
             mid == (work.lo + work.hi) \div 2
             half == IF Passed(Angle(work.moon, mid), work.a, work.distance)
                     THEN [work EXCEPT !.hi = mid] ELSE [work EXCEPT !.lo = mid]
  <2>1. /\ stage = "halve" /\ DayLocals(work) /\ work.limb \in DOMAIN Kinds /\ k \in KindNames
        /\ Bracketed(work, k) /\ 10 * (work.hi - work.lo) > Second
        /\ stage' = "halve" /\ work' = half
    BY <1>5, LimbKinds DEF Halve, DayInv, SearchInv, Continue
  <2>2. PICK p \in Int : PartsFound(work, k, p) /\ p < work.nextRise
    BY <2>1 DEF SearchInv
  <2>3. /\ Bracketed(half, k) /\ PartsFound(half, k, p)
        /\ half.nextRise = work.nextRise /\ half.limb = work.limb
    BY <2>1, <2>2, HalvesBracket
  <2> HIDE DEF half
  <2>4. Kinds[work'.limb] = k
    BY <2>1, <2>3
  <2> HIDE DEF k
  <2> QED
    BY <2>1, <2>2, <2>3, <2>4 DEF SearchInv
<1>6. CASE Segment
  <2> DEFINE k == Kinds[work.limb]
             segment == [index |-> IndexAt(k, work.a), from |-> work.active, to |-> Timestamp(work.hi)]
             longer == [work EXCEPT !.segments = Append(@, segment), !.active = segment.to,
                                    !.cursor = work.hi + 1]
  <2>1. /\ stage = "halve" /\ DayLocals(work) /\ work.limb \in DOMAIN Kinds /\ k \in KindNames
        /\ Bracketed(work, k) /\ 10 * (work.hi - work.lo) <= Second
        /\ stage' = (IF work.hi >= work.nextRise THEN "found" ELSE "seek") /\ work' = longer
    BY <1>6, LimbKinds DEF Segment, DayInv, SearchInv, Continue
  <2>2. PICK p \in Int : PartsFound(work, k, p) /\ p < work.nextRise
    BY <2>1 DEF SearchInv
  <2>3. /\ PartsFound(longer, k, work.hi) /\ Len(longer.segments) > 0
        /\ longer.nextRise = work.nextRise /\ longer.limb = work.limb
    BY <2>1, <2>2, SegmentIsFound
  <2> HIDE DEF longer
  <2>4. Kinds[work'.limb] = k
    BY <2>1, <2>3
  <2>5. work.hi \in Int /\ work.nextRise \in Int
    BY <2>1 DEF Bracketed, DayLocals
  <2> HIDE DEF k
  <2>6. CASE work.hi >= work.nextRise
    <3>1. stage' = "found" /\ work'.nextRise <= work.hi
      BY <2>1, <2>3, <2>5, <2>6
    <3> QED
      BY <2>1, <2>3, <2>4, <2>5, <3>1 DEF SearchInv
  <2>7. CASE ~(work.hi >= work.nextRise)
    <3>1. stage' = "seek" /\ work.hi < work'.nextRise
      BY <2>1, <2>3, <2>5, <2>7
    <3> QED
      BY <2>1, <2>3, <2>4, <2>5, <3>1 DEF SearchInv
  <2> QED
    BY <2>6, <2>7
<1>7. CASE stage' \notin {"seek", "halve", "found", "lost"}
  BY <1>7 DEF SearchInv
<1>8. CASE UNCHANGED vars
  BY <1>8 DEF SearchInv, vars
<1>9. CASE \/ ReadBody \/ ReadMember \/ ReadEnd \/ Resolve \/ Refuse \/ Draw
           \/ Validate \/ DayEvents \/ Divide \/ Finish \/ Fail
  <2>1. stage' \notin {"seek", "halve", "found", "lost"}
    BY <1>9 DEF ReadBody, ReadMember, ReadEnd, Resolve, Refuse, Draw, Validate, DayEvents, Divide,
                Finish, Fail, Answer, Continue
  <2> QED
    BY <1>7, <2>1
<1> QED
  BY <1>1, <1>2, <1>3, <1>4, <1>5, <1>6, <1>8, <1>9 DEF Next

LEMMA MemberOfSeq == ASSUME NEW S, NEW s \in Seq(S) PROVE \A i \in 1..Len(s) : s[i] \in S
OBVIOUS

\* One part is followed by the next of the circle's.
LEMMA NextIndex ==
  ASSUME NEW n \in Nat \ {0}, NEW q \in Int
  PROVE  ((q + 1) % n) + 1 = ((((q % n) + 1) % n)) + 1
<1> DEFINE z == q \div n
           r == q % n
<1>1. z \in Int /\ r \in Int /\ q = n * z + r
  BY Division
<1> HIDE DEF z, r
<1>2. q + 1 = (r + 1) + n * z
  BY <1>1
<1>3. ((r + 1) + n * z) % n = (r + 1) % n
  <2>1. r + 1 \in Int
    BY <1>1
  <2> QED
    BY <1>1, <2>1, RestShift
<1> QED
  BY <1>2, <1>3 DEF r

\* For every day whose Sun is up for a while, and at every speed at which a limb
\* passes a boundary within the span of the search, the search for the ends of a
\* limb's parts always finds them, and the parts follow one another without gap or
\* overlap from sunrise to the next sunrise, each with the index of the instants in
\* it (panchang.go:184-249).
THEOREM SegmentsFollow ==
  ASSUME RealDays, RealMoons
  PROVE  Spec => []SegmentsCover
<1>1. Init => DayInv /\ DividedInv /\ SearchInv
  BY DEF Init, DayInv, DividedInv, SearchInv
<1>2. DayInv /\ DividedInv /\ SearchInv /\ [Next]_vars => DayInv' /\ DividedInv' /\ SearchInv'
  BY NextDayInv, NextDividedInv, NextSearchInv
<1>3. DayInv /\ SearchInv => SegmentsCover
  <2> SUFFICES ASSUME DayInv, SearchInv PROVE SegmentsCover
    OBVIOUS
  <2>1. CASE stage # "found"
    BY <2>1 DEF SegmentsCover, SearchInv
  <2>2. CASE stage = "found"
    <3> DEFINE k == Kinds[work.limb]
               segs == work.segments
               n == Len(segs)
               q == Unwound(work.moon, work.rise) \div Width(k)
    <3>1. DayLocals(work) /\ k \in KindNames /\ n > 0
      BY <2>2, LimbKinds DEF DayInv, SearchInv
    <3>2. PICK p \in Int : PartsFound(work, k, p) /\ work.nextRise <= p
      BY <2>2 DEF SearchInv
    <3>3. /\ n \in Nat /\ DOMAIN segs = 1..n /\ RealMoon(k, work.moon)
          /\ segs[n].to = Timestamp(p)
      BY <3>1, <3>2 DEF PartsFound
    <3>4. \A i \in 1..n :
            /\ segs[i].index = ((q + (i - 1)) % Parts(k)) + 1
            /\ segs[i].from = IF i = 1 THEN Timestamp(work.rise) ELSE segs[i - 1].to
            /\ segs[i].from <= Timestamp(work.nextRise)
            /\ \A t \in Int : segs[i].from < t /\ t < segs[i].to =>
                 IndexAt(k, Angle(work.moon, t * Second)) = segs[i].index
      BY <3>2 DEF PartsFound
    <3>5. \A i \in 1..n : segs[i].from \in Int /\ segs[i].to \in Int
      <4>1. segs \in Seq([index : Int, from : Int, to : Int])
        BY <3>2 DEF PartsFound
      <4> HIDE DEF segs
      <4>2. \A i \in 1..n : segs[i] \in [index : Int, from : Int, to : Int]
        BY <4>1, MemberOfSeq
      <4> QED
        BY <4>2
    <3>6. Timestamp(work.nextRise) <= Timestamp(p) /\ Timestamp(p) \in Int /\ Timestamp(work.nextRise) \in Int
      BY <3>1, <3>2, TimestampFacts DEF DayLocals
    <3>7. q \in Int /\ Parts(k) \in Nat \ {0}
      <4>1. Unwound(work.moon, work.rise) \in Int /\ Width(k) \in Nat \ {0} /\ Parts(k) \in Nat \ {0}
        <5>1. work.rise \in Int
          BY <3>1 DEF DayLocals
        <5>2. Unwound(work.moon, work.rise) \in Int
          BY <3>3, <5>1, UnwoundGrows
        <5>3. Width(k) \in Nat \ {0} /\ Parts(k) \in Nat \ {0}
          BY <3>1, WidthFacts
        <5> QED
          BY <5>2, <5>3
      <4> QED
        BY <4>1, Division
    <3> HIDE DEF k, segs, q, n
    <3>8. segs[1].from = Timestamp(work.rise) /\ segs[n].to >= Timestamp(work.nextRise)
      <4>1. 1 \in 1..n
        BY <3>1, <3>3
      <4> QED
        BY <3>3, <3>4, <3>6, <4>1
    <3>9. ASSUME NEW i \in 1..n
          PROVE  /\ i > 1 => /\ segs[i].from = segs[i - 1].to
                              /\ segs[i].from <= Timestamp(work.nextRise)
                              /\ segs[i].index = (segs[i - 1].index % Parts(k)) + 1
                 /\ \A t \in {segs[i].from + 1, segs[i].to - 1} :
                      segs[i].from < t /\ t < segs[i].to =>
                        IndexAt(k, Angle(work.moon, t * Second)) = segs[i].index
      <4>1. i > 1 => segs[i].index = (segs[i - 1].index % Parts(k)) + 1
        <5> SUFFICES ASSUME i > 1 PROVE segs[i].index = (segs[i - 1].index % Parts(k)) + 1
          OBVIOUS
        <5>1. i - 1 \in 1..n /\ q + ((i - 1) - 1) \in Int /\ q + (i - 1) = (q + ((i - 1) - 1)) + 1
          BY <3>3, <3>7
        <5>2. segs[i - 1].index = ((q + ((i - 1) - 1)) % Parts(k)) + 1
          BY <3>4, <5>1
        <5>3. segs[i].index = (((q + ((i - 1) - 1)) + 1) % Parts(k)) + 1
          BY <3>4, <5>1
        <5> QED
          BY <3>7, <5>1, <5>2, <5>3, NextIndex
      <4>2. segs[i].from + 1 \in Int /\ segs[i].to - 1 \in Int
        BY <3>5
      <4>3. i > 1 => segs[i].from = segs[i - 1].to
        BY <3>4
      <4> QED
        BY <3>4, <4>1, <4>2, <4>3
    <3>10. stage # "lost"
      BY <2>2
    <3> QED
      BY <2>2, <3>3, <3>8, <3>9, <3>10 DEF SegmentsCover, k, segs, n, Parts
  <2> QED
    BY <2>1, <2>2
<1> QED
  BY <1>1, <1>2, <1>3, PTL DEF Spec

-----------------------------------------------------------------------------
(* The events of a date.                                                   *)

EventsOf(d) ==
  Events(d, Midnight(d.zone, d.date), AddDays(d.zone, Midnight(d.zone, d.date), 1))

\* What Validate and DayEvents accept.
Accepted(d) == CivilDay(d.zone, Midnight(d.zone, d.date)) = d.date /\ EventsOf(d).ok

\* Clocks show the midnights at the beginning and the end of date d.
MidnightsShown(zone, d) == \A x \in {d, d + 1} : Wall(zone, Midnight(zone, x)) = x * Day

\* Clocks are changed by margin at most in a day, and not back to midnight or over
\* it; and where they leave out a midnight, the Sun rises well away from it.
OrderlyDay(d, margin) ==
  /\ {"zone", "date", "moonUp"} \subseteq DOMAIN d
  /\ d.date \in Nat \ {0} /\ d.sunUp \in Int /\ d.moonUp \in Int \cup {Never}
  /\ Bounded(d.zone) /\ Steady(d.zone, margin) /\ OnwardFromMidnight(d.zone)
  /\ MidnightsShown(d.zone, d.date) \/ AwayFromMidnight(d.zone, d.sunUp, margin)

OrderlyDays(margin) == \A d \in Dates : Accepted(d) => OrderlyDay(d, margin)

\* The day in hand is a day asked for, with its events once they are known.
EventInv ==
  /\ stage = "day" => work \in Dates /\ CivilDay(work.zone, Midnight(work.zone, work.date)) = work.date
  /\ stage = "limbs" => \E d \in Dates : Accepted(d) /\ work = With(d, EventsOf(d))

LEMMA NextEventInv == EventInv /\ [Next]_vars => EventInv'
<1> SUFFICES ASSUME EventInv, [Next]_vars PROVE EventInv'
  OBVIOUS
<1>1. CASE Validate
  <2>1. \/ stage' = "answered"
        \/ /\ stage' = "day"
           /\ work' \in Dates /\ CivilDay(work'.zone, Midnight(work'.zone, work'.date)) = work'.date
    BY <1>1 DEF Validate, Answer, Continue
  <2> QED
    BY <2>1 DEF EventInv
<1>2. CASE DayEvents
  <2>1. work \in Dates /\ CivilDay(work.zone, Midnight(work.zone, work.date)) = work.date
    BY <1>2 DEF DayEvents, EventInv
  <2>2. stage' = "answered" \/ (stage' = "limbs" /\ EventsOf(work).ok /\ work' = With(work, EventsOf(work)))
    BY <1>2 DEF DayEvents, Answer, Continue, EventsOf
  <2> QED
    BY <2>1, <2>2 DEF EventInv, Accepted
<1>3. CASE \/ FirstLimb \/ NextLimb \/ SignLimb \/ Seek \/ Halve \/ Segment \/ Divide \/ Draw \/ Refuse
           \/ Resolve \/ ReadBody \/ ReadMember \/ ReadEnd \/ Finish \/ Fail
  <2>1. stage' \notin {"day", "limbs"} \/ (stage' = stage /\ work' = work)
    BY <1>3 DEF FirstLimb, NextLimb, SignLimb, Search, Seek, Halve, Segment, Divide, Draw, Refuse,
                Resolve, ReadBody, ReadMember, ReadEnd, Finish, Fail, Answer, Continue
  <2> QED
    BY <2>1 DEF EventInv
<1>4. CASE UNCHANGED vars
  BY <1>4 DEF EventInv, vars
<1> QED
  BY <1>1, <1>2, <1>3, <1>4 DEF Next

\* The Moon's rise is on the date, if clocks show both of its midnights, and null
\* only if there is none.
LEMMA MoonriseOnDate ==
  ASSUME NEW zone, Bounded(zone), OnwardFromMidnight(zone), NEW date \in Nat \ {0}, NEW moonUp \in Int,
         Wall(zone, Midnight(zone, date)) = date * Day,
         Wall(zone, Midnight(zone, date + 1)) = (date + 1) * Day
  PROVE  LET found == Midnight(zone, date) + ((moonUp - Midnight(zone, date)) % Day)
             ups == {t \in {(moonUp % Day) + k * Day : k \in 0..date + 2} : CivilDay(zone, t) = date}
         IN /\ found < Midnight(zone, date + 1) => found \in ups
            /\ ~(found < Midnight(zone, date + 1)) => ups = {}
<1> DEFINE start == Midnight(zone, date)
           end == Midnight(zone, date + 1)
           found == start + ((moonUp - start) % Day)
           first == moonUp % Day
           ups == {t \in {first + k * Day : k \in 0..date + 2} : CivilDay(zone, t) = date}
<1>1. Day \in Nat \ {0} /\ date * Day = Day * date /\ Day * date \in Int
      /\ (date + 1) * Day = Day * date + Day /\ Day * (date + 2) = Day * date + 2 * Day
  BY DayAssumption
<1>2. start \in Int /\ end \in Int
  <2>1. date * Day \in Int /\ (date + 1) * Day \in Int
    BY <1>1
  <2> QED
    BY <2>1, InstantIsInt DEF Midnight
<1>3. first \in Int /\ 0 <= first /\ first < Day /\ \E q \in Int : moonUp = Day * q + first
  BY <1>1, Division
<1>4. found \in Int /\ start <= found /\ found < start + Day /\ \E k \in Int : found = moonUp + Day * k
  <2> HIDE DEF start
  <2> QED
    BY <1>2, EventAfter
<1>5. \A t \in Int : CivilDay(zone, t) = date <=> start <= t /\ t < end
  BY BetweenMidnights
<1>6. -Day < Offset(zone, start) /\ Offset(zone, start) < Day /\ Offset(zone, start) \in Int
      /\ -Day < Offset(zone, end) /\ Offset(zone, end) < Day /\ Offset(zone, end) \in Int
  BY <1>2, OffsetBounds
<1>7. start + Offset(zone, start) = Day * date /\ end + Offset(zone, end) = Day * date + Day
  BY <1>1 DEF Wall
<1> HIDE DEF start, end, found, first
<1>8. ASSUME found < end PROVE found \in ups
  <2>1. CivilDay(zone, found) = date
    BY <1>4, <1>5, <1>8
  <2>2. PICK k \in Int : found = moonUp + Day * k
    BY <1>4
  <2>3. PICK q \in Int : moonUp = Day * q + first
    BY <1>3
  <2> DEFINE n == q + k
  <2>4. n \in Int /\ Day * q \in Int /\ Day * k \in Int /\ Day * n = Day * q + Day * k
    BY <1>1
  <2>5. found = first + Day * n /\ Day * n \in Int
    BY <1>3, <2>2, <2>3, <2>4
  <2> HIDE DEF n
  <2>6. found > Day * date - Day /\ found < Day * date + 2 * Day
    BY <1>1, <1>2, <1>4, <1>6, <1>7, <1>8
  <2>7. Day * date >= Day
    <3>1. date - 1 \in Nat
      OBVIOUS
    <3>2. Day * (date - 1) \in Nat /\ Day * (date - 1) = Day * date - Day
      BY <1>1, <3>1
    <3> QED
      BY <1>1, <3>2
  <2>8. n < 0 => FALSE
    <3>1. n < 0 => Day * n + Day <= Day * 0
      BY <2>4, DaysApart
    <3>2. Day * 0 = 0
      BY <1>1
    <3> QED
      BY <1>1, <1>3, <1>4, <2>4, <2>5, <2>6, <2>7, <3>1, <3>2
  <2>9. date + 2 < n => FALSE
    <3>1. date + 2 < n => Day * (date + 2) + Day <= Day * n
      BY <2>4, DaysApart
    <3> QED
      BY <1>1, <1>3, <1>4, <2>4, <2>5, <2>6, <3>1
  <2>10. n \in 0..date + 2 /\ n * Day = Day * n
    BY <1>1, <2>4, <2>8, <2>9
  <2>11. found = first + n * Day
    BY <2>5, <2>10
  <2> QED
    BY <2>1, <2>10, <2>11
<1>9. ASSUME ~(found < end) PROVE ups = {}
  <2> SUFFICES ASSUME NEW t \in ups PROVE FALSE
    OBVIOUS
  <2>1. PICK n \in 0..date + 2 : t = first + n * Day
    OBVIOUS
  <2>2. CivilDay(zone, t) = date
    OBVIOUS
  <2> HIDE DEF ups
  <2>3. n \in Int /\ n * Day = Day * n /\ Day * n \in Int /\ t \in Int
    BY <1>1, <1>3, <2>1
  <2>4. start <= t /\ t < end
    BY <1>5, <2>2, <2>3
  <2>5. PICK k \in Int : found = moonUp + Day * k
    BY <1>4
  <2>6. PICK q \in Int : moonUp = Day * q + first
    BY <1>3
  <2> DEFINE p == q + k
  <2>7. p \in Int /\ Day * q \in Int /\ Day * k \in Int /\ Day * p = Day * q + Day * k
    BY <1>1
  <2>8. found = first + Day * p /\ Day * p \in Int
    BY <1>3, <2>5, <2>6, <2>7
  <2> HIDE DEF p
  <2>9. ~(n < p)
    <3>1. n < p => Day * n + Day <= Day * p
      BY <2>3, <2>7, DaysApart
    <3> QED
      BY <1>1, <1>2, <1>3, <1>4, <2>1, <2>3, <2>4, <2>8, <3>1
  <2>10. ~(p < n)
    <3>1. p < n => Day * p + Day <= Day * n
      BY <2>3, <2>7, DaysApart
    <3> QED
      BY <1>1, <1>2, <1>3, <1>4, <1>9, <2>1, <2>3, <2>4, <2>8, <3>1
  <2>11. n = p
    BY <2>3, <2>7, <2>9, <2>10
  <2> QED
    BY <1>2, <1>4, <1>9, <2>1, <2>3, <2>4, <2>8, <2>11
<1> QED
  BY <1>8, <1>9 DEF start, end, found, first

\* An orderly day's sunrise is on the civil date it is given for, and so is its moonrise unless
\* clocks leave out a midnight; it is null only where the Moon does not rise on the
\* date (panchang.go:89-136).
THEOREM EventsAreOnDate ==
  ASSUME NEW margin \in Nat, margin < Day, Never \notin Int, OrderlyDays(margin)
  PROVE  Spec => []EventsOnDate
<1>1. Init => EventInv
  BY DEF Init, EventInv
<1>2. EventInv /\ [Next]_vars => EventInv'
  BY NextEventInv
<1>3. EventInv => EventsOnDate
  <2> SUFFICES ASSUME EventInv, stage = "limbs" PROVE EventsOnDate
    BY DEF EventsOnDate
  <2>1. PICK d \in Dates : Accepted(d) /\ work = With(d, EventsOf(d))
    BY DEF EventInv
  <2>2. OrderlyDay(d, margin)
    BY <2>1 DEF OrderlyDays
  <2> DEFINE zone == d.zone
             date == d.date
             start == Midnight(zone, date)
             end == AddDays(zone, start, 1)
             e == EventsOf(d)
  <2>3. /\ work.zone = zone /\ work.date = date /\ work.moonUp = d.moonUp
        /\ work.rise = e.rise /\ work.moonrise = e.moonrise
    <3>1. DOMAIN e = {"ok", "rise", "set", "nextRise", "moonrise"}
      BY DEF EventsOf, Events
    <3> HIDE DEF e
    <3> QED
      BY <2>1, <2>2, <3>1 DEF With, OrderlyDay, e
  <2>4. /\ e.rise = start + ((d.sunUp - start) % Day)
        /\ e.moonrise = IF NextEvent(d.moonUp, start) # Never /\ NextEvent(d.moonUp, start) < end
                        THEN NextEvent(d.moonUp, start) ELSE Never
    <3>1. e.rise = NextEvent(d.sunUp, start) /\ e.rise # Never
      BY <2>1 DEF Accepted, EventsOf, Events
    <3> QED
      BY <3>1 DEF EventsOf, Events, NextEvent
  <2>5. /\ date \in Nat \ {0} /\ d.sunUp \in Int /\ d.moonUp \in Int \cup {Never}
        /\ Bounded(zone) /\ Steady(zone, margin) /\ OnwardFromMidnight(zone)
        /\ MidnightsShown(zone, date) \/ AwayFromMidnight(zone, d.sunUp, margin)
    BY <2>2 DEF OrderlyDay
  <2>6. Day \in Nat \ {0} /\ date * Day \in Int /\ date * Day = Day * date
        /\ (date + 1) * Day = date * Day + 1 * Day
    BY <2>5, DayAssumption
  <2>7. start \in Int /\ CivilDay(zone, start) = date
    BY <2>1, <2>5, <2>6, InstantIsInt DEF Accepted, Midnight
  <2> HIDE DEF zone, date, e
  <2>8. CivilDay(zone, work.rise) = date
    <3>1. CASE AwayFromMidnight(zone, d.sunUp, margin)
      <4>1. Wall(zone, start) \in Int
        BY <2>5, <2>7, WallsAreInt
      <4>2. date * Day <= Wall(zone, start)
        BY <2>5, <2>6, <2>7, <4>1, QuotientOf DEF CivilDay
      <4>3. Wall(zone, start) <= date * Day + margin
        BY <2>5, <2>6, MidnightIsNear DEF Midnight
      <4> HIDE DEF start
      <4>4. CivilDay(zone, start + ((d.sunUp - start) % Day)) = date
        BY <2>5, <2>7, <3>1, <4>2, <4>3, EventOnItsDate
      <4> QED
        BY <2>3, <2>4, <4>4 DEF start
    <3>2. CASE MidnightsShown(zone, date)
      <4>1. Wall(zone, start) = date * Day /\ Wall(zone, Midnight(zone, date + 1)) = (date + 1) * Day
        BY <3>2 DEF MidnightsShown
      <4>2. end = Midnight(zone, date + 1)
        BY <2>6, <4>1 DEF AddDays, Midnight
      <4>3. work.rise < end
        BY <2>1, <2>3 DEF Accepted, EventsOf, Events, zone, date, e
      <4>4. work.rise \in Int /\ start <= work.rise
        <5>1. work.rise = start + ((d.sunUp - start) % Day)
          BY <2>3, <2>4
        <5> HIDE DEF start
        <5>2. start + ((d.sunUp - start) % Day) \in Int /\ start <= start + ((d.sunUp - start) % Day)
          BY <2>5, <2>7, EventAfter
        <5> QED
          BY <5>1, <5>2
      <4> QED
        BY <2>5, <4>1, <4>2, <4>3, <4>4, BetweenMidnights
    <3> QED
      BY <2>5, <3>1, <3>2
  <2> DEFINE ups == IF work.moonUp = Never THEN {}
                    ELSE {t \in {(work.moonUp % Day) + k * Day : k \in 0..work.date + 2} :
                            CivilDay(work.zone, t) = work.date}
  <2>9. ASSUME \A x \in {work.date, work.date + 1} : Wall(work.zone, Midnight(work.zone, x)) = x * Day
        PROVE  work.moonrise \in ups \cup {Never} /\ (work.moonrise = Never => ups = {})
    <3>1. Wall(zone, Midnight(zone, date)) = date * Day /\ Wall(zone, Midnight(zone, date + 1)) = (date + 1) * Day
      BY <2>3, <2>9
    <3>2. end = Midnight(zone, date + 1)
      BY <2>6, <3>1 DEF AddDays, Midnight
    <3>3. CASE d.moonUp = Never
      <4>1. NextEvent(d.moonUp, start) = Never
        BY <3>3 DEF NextEvent
      <4>2. work.moonrise = Never /\ ups = {}
        BY <2>3, <2>4, <3>3, <4>1
      <4> QED
        BY <4>2
    <3>4. CASE d.moonUp \in Int
      <4> DEFINE found == start + ((d.moonUp - start) % Day)
                 risen == {t \in {(d.moonUp % Day) + k * Day : k \in 0..date + 2} : CivilDay(zone, t) = date}
      <4>1. d.moonUp # Never /\ start # Never
        BY <2>7, <3>4
      <4>2. NextEvent(d.moonUp, start) = found
        BY <4>1 DEF NextEvent
      <4>3. ups = risen
        BY <2>3, <4>1
      <4>4. (found < end => found \in risen) /\ (~(found < end) => risen = {})
        BY <2>5, <3>1, <3>2, <3>4, MoonriseOnDate
      <4>5. found \in Int
        <5> HIDE DEF start
        <5> QED
          BY <2>7, <3>4, EventAfter
      <4> HIDE DEF found, risen, start, end, ups
      <4>6. work.moonrise = IF found < end THEN found ELSE Never
        <5>1. found # Never
          BY <4>5
        <5> QED
          BY <2>3, <2>4, <4>2, <5>1
      <4> QED
        BY <4>3, <4>4, <4>5, <4>6
    <3> QED
      BY <2>5, <3>3, <3>4
  <2> HIDE DEF ups
  <2> QED
    BY <2>3, <2>8, <2>9 DEF EventsOnDate, ups
<1> QED
  BY <1>1, <1>2, <1>3, PTL DEF Spec

=============================================================================
