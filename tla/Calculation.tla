----------------------------- MODULE Calculation -----------------------------
(***************************************************************************)
(* One request from the bytes of its body to the content of its answer:    *)
(* decode (internal/api/server.go), then for a chart Resolve and Calculate *)
(* (internal/chart), for a Panchang Validate, Calculate and the boundary   *)
(* search (internal/panchang/panchang.go).  How requests share the service *)
(* is the subject of Server; what a year does with its days, of YearScan.   *)
(*                                                                         *)
(* Only what the function at work still uses is kept in work, so what one  *)
(* stage was given does not multiply the next one's cases.                 *)
(***************************************************************************)
EXTENDS LocalTime, ChartRules, Limbs

CONSTANTS Births,   \* zone, date, clock of births
          Dates,    \* zone, date, and when in a day the Sun rises and sets and the Moon rises, or Never
          Charts,   \* cusps, longitudes
          Moons,    \* per kind of limb, phase (at instant 0) and rate (a day) of its angle
          Never     \* no event, and no locals

VARIABLES kind,      \* charts, panchang, festivals
          stage,     \* what is done next
          status,    \* of the answer, 0 before
          fields,    \* fields, of decode
          assigned,  \* how often encoding/json sets each field of dst
          wrong,     \* some value has a type dst does not take
          work       \* the locals of the function at work

vars == <<kind, stage, status, fields, assigned, wrong, work>>

-----------------------------------------------------------------------------
(* decode (server.go:164-240).                                             *)

Required(k) ==
  {"timezone", "latitude", "longitude", "profile"}
  \cup (IF k = "festivals" THEN {"year"} ELSE {"date"})
  \cup (IF k = "charts" THEN {"time_status"} ELSE {})
DstFields(k) == Required(k) \cup (IF k = "charts" THEN {"time"} ELSE {})

\* Names a body may use: every field, one of them in capitals, and a stranger.
Keys == {"timezone", "latitude", "longitude", "profile", "year", "date", "time_status", "time",
         "DATE", "other"}

\* encoding/json matches names without regard to case.
Fold(key) == IF key = "DATE" THEN "date" ELSE key

\* Mutant: names are compared as encoding/json does.
AllowedByFold(k) == {key \in Keys : Fold(key) \in DstFields(k)}

Allowed(k) == {key \in Keys : key \in DstFields(k)}

Init ==
  /\ kind \in {"charts", "panchang", "festivals"}
  /\ stage = "body"
  /\ status = 0
  /\ fields = {}
  /\ assigned = [f \in DstFields(kind) |-> 0]
  /\ wrong = FALSE
  /\ work = Never

Answer(code) ==
  /\ stage' = "answered" /\ status' = code
  /\ UNCHANGED <<kind, fields, assigned, wrong, work>>

Continue(next, locals) ==
  /\ stage' = next /\ work' = locals
  /\ UNCHANGED <<kind, status, fields, assigned, wrong>>

\* More locals beside those there are, or in their place.
With(locals, more) ==
  [x \in DOMAIN locals \cup DOMAIN more |-> IF x \in DOMAIN more THEN more[x] ELSE locals[x]]

\* Content type, length, and an object at the beginning.
ReadBody ==
  /\ stage = "body"
  /\ \/ \E code \in {415, 413, 400} : Answer(code)
     \/ Continue("members", Never)

ReadMember ==
  /\ stage = "members"
  /\ \E key \in Keys, value \in {"right", "wrong", "null"} :
       IF key \in Allowed(kind) \ fields /\ value # "null"
       THEN /\ fields' = fields \cup {key}
            /\ assigned' = [assigned EXCEPT ![Fold(key)] = @ + 1]
            /\ wrong' = (wrong \/ value = "wrong")
            /\ UNCHANGED <<kind, stage, status, work>>
       ELSE Answer(400)

\* The end of the object: required fields, the typed decoder, nothing after it.
ReadEnd ==
  /\ stage = "members"
  /\ \E trailing \in BOOLEAN :
       IF Required(kind) \subseteq fields /\ ~wrong /\ ~trailing
       THEN Continue("validate", Never)
       ELSE Answer(400)

-----------------------------------------------------------------------------
(* Charts (chart.go:31-143).                                               *)

\* Profile, coordinates, zone, date, time_status, and time exactly if it is known; one
\* that is empty counts as left out.
Resolve ==
  /\ kind = "charts" /\ stage = "validate"
  /\ \E valid, empty \in BOOLEAN, time_status \in {"exact", "approximate", "unknown"}, b \in Births :
       LET timed == time_status # "unknown"
           given == "time" \in fields /\ ~empty
           wall == b.date * Day + IF timed THEN b.clock ELSE Day \div 2
           birth == [zone |-> b.zone, wall |-> wall, timed |-> timed]
       IN IF ~valid \/ (timed # given)
          THEN Answer(422)
          ELSE Continue(IF Resolves(b.zone, wall) THEN "resolved" ELSE "unresolved", birth)

Refuse == stage = "unresolved" /\ Answer(422)

\* The session: twelve positions, and Placidus houses or whole signs.  No houses
\* without a time.
Draw ==
  /\ stage = "resolved"
  /\ \E c \in Charts, placidus \in BOOLEAN :
       Continue("drawn",
         [longitudes |-> c.longitudes \cup {Normalize(l + 180) : l \in c.longitudes},
          cusps |-> IF placidus THEN c.cusps ELSE WholeSign(c.cusps[1]),
          timed |-> work.timed])

-----------------------------------------------------------------------------
(* Panchang (panchang.go:62-161).                                          *)

NextEvent(event, t) == IF Never \in {event, t} THEN Never ELSE t + ((event - t) % Day)

\* Validate: the date must be the one its midnight falls on.
Validate ==
  /\ kind = "panchang" /\ stage = "validate"
  /\ \E valid \in BOOLEAN, d \in Dates :
       IF valid /\ CivilDay(d.zone, Midnight(d.zone, d.date)) = d.date
       THEN Continue("day", d)
       ELSE Answer(422)

\* Mutant: events are not held against the end of the date.
EventsIgnoringEnd(d, start, end) ==
  LET rise == NextEvent(d.sunUp, start)
      set == NextEvent(d.sunDown, rise)
      nextRise == NextEvent(d.sunUp, end)
  IN [ok |-> Never \notin {rise, set, nextRise} /\ rise < set /\ set < nextRise /\ nextRise - rise < 2 * Day,
      rise |-> rise, set |-> set, nextRise |-> nextRise,
      moonrise |-> NextEvent(d.moonUp, start)]

\* Sunrise, sunset and the next sunrise, and the Moon's rise if it is on the date.
Events(d, start, end) ==
  LET rise == NextEvent(d.sunUp, start)
      set == NextEvent(d.sunDown, rise)
      nextRise == NextEvent(d.sunUp, end)
      moonrise == NextEvent(d.moonUp, start)
  IN [ok |-> /\ Never \notin {rise, set, nextRise}
             /\ rise < end /\ rise < set /\ set < nextRise /\ nextRise - rise < 2 * Day,
      rise |-> rise, set |-> set, nextRise |-> nextRise,
      moonrise |-> IF moonrise # Never /\ moonrise < end THEN moonrise ELSE Never]

DayEvents ==
  /\ stage = "day"
  /\ LET e == Events(work, Midnight(work.zone, work.date),
                     AddDays(work.zone, Midnight(work.zone, work.date), 1))
     IN IF e.ok THEN Continue("limbs", With(work, e)) ELSE Answer(422)

-----------------------------------------------------------------------------
(* transitions and nextBoundary (panchang.go:166-249).                     *)

\* The angle of a limb, even in time up to its unit, which it takes about eight
\* seconds to pass; divided as 32 bits allow.
Angle(moon, t) == (moon.phase + ((t \div 1000) * moon.rate) \div (Day \div 1000)) % Circle

Search(limb) ==
  \E m \in Moons[Kinds[limb]] :
    Continue("seek", [rise |-> work.rise, set |-> work.set, nextRise |-> work.nextRise,
                      limb |-> limb, moon |-> m, cursor |-> work.rise,
                      active |-> Timestamp(work.rise), segments |-> <<>>])

\* Tithi, nakshatra, yoga and karana; then, in calendar, the sign of the Moon.
FirstLimb == stage = "limbs" /\ Search(1)
NextLimb == stage = "found" /\ work.limb < 4 /\ Search(work.limb + 1)
SignLimb == stage = "divided" /\ Search(5)

\* The next boundary, if the angle passes it within two days (three for a sign).
Seek ==
  /\ stage = "seek"
  /\ LET k == Kinds[work.limb]
         a == Angle(work.moon, work.cursor)
         distance == IndexAt(k, a) * Width(k) - a
         hi == work.cursor + SpanInDays(k) * Day
     IN IF Len(work.segments) < 8 /\ Passed(Angle(work.moon, hi), a, distance)
        THEN Continue("halve", With(work, [a |-> a, distance |-> distance, lo |-> work.cursor, hi |-> hi]))
        ELSE Continue("lost", work)   \* not bracketed, or more than eight

\* The limit of 40 halvings is never met: 22 are enough for three days.
Halve ==
  /\ stage = "halve" /\ 10 * (work.hi - work.lo) > Second
  /\ LET mid == (work.lo + work.hi) \div 2
     IN Continue("halve",
          IF Passed(Angle(work.moon, mid), work.a, work.distance)
          THEN [work EXCEPT !.hi = mid] ELSE [work EXCEPT !.lo = mid])

\* The segment ends; the next one is sought just after it, unless the day ends too.
Segment ==
  /\ stage = "halve" /\ 10 * (work.hi - work.lo) <= Second
  /\ LET segment == [index |-> IndexAt(Kinds[work.limb], work.a),
                     from |-> work.active, to |-> Timestamp(work.hi)]
     IN Continue(IF work.hi >= work.nextRise THEN "found" ELSE "seek",
          [work EXCEPT !.segments = Append(@, segment), !.active = segment.to, !.cursor = work.hi + 1])

\* The periods, on the timestamps; any date may be any day of the week.
Divide ==
  /\ stage = "found" /\ work.limb = 4
  /\ \E weekday \in 1..7 :
       LET rise == Timestamp(work.rise)
           set == Timestamp(work.set)
           nextRise == Timestamp(work.nextRise)
       IN Continue("divided",
            [rise |-> work.rise, set |-> work.set, nextRise |-> work.nextRise,
             windows |-> <<Period(rise, set, RahuKalam[weekday]), Period(rise, set, Yamaganda[weekday]),
                           Period(rise, set, Gulika[weekday])>>,
             day |-> Eighths(rise, set), night |-> Eighths(set, nextRise)])

Finish ==
  /\ stage = "drawn" \/ (stage = "found" /\ work.limb = 5)
  /\ Answer(200)

-----------------------------------------------------------------------------
\* The deadline, and a failure of the ephemeris, wherever they are asked for.
Fail ==
  /\ stage \in {"resolved", "drawn", "day", "limbs", "seek", "halve", "found", "divided", "lost"}
  /\ \E code \in {503, 504} : (stage = "lost" => code = 503) /\ Answer(code)

Next ==
  \/ ReadBody \/ ReadMember \/ ReadEnd
  \/ Resolve \/ Refuse \/ Draw
  \/ Validate \/ DayEvents \/ FirstLimb \/ NextLimb \/ SignLimb
  \/ Seek \/ Halve \/ Segment \/ Divide
  \/ Finish \/ Fail

Spec == Init /\ [][Next]_vars

-----------------------------------------------------------------------------
(* Properties.                                                             *)

\* A body that decode lets through means one thing: encoding/json, which takes
\* the last of several values and ignores case, sets no field twice, and every
\* required one (server.go:164-240).
OneMeaning ==
  stage \notin {"body", "members", "answered"} =>
    /\ \A f \in DstFields(kind) : assigned[f] <= 1
    /\ \A f \in Required(kind) : assigned[f] = 1

AllOffsets(zone) == {zone.first} \cup {c.offset : c \in zone.changes}
Showing(zone, wall) == {t \in {wall - o : o \in AllOffsets(zone)} : Wall(zone, t) = wall}

\* A chart is drawn for the one instant at which clocks showed the birth time,
\* and refused when there is none or there are two, whatever the change of clocks
\* (chart.go:66-80 looks at five sample instants).
ResolveExact ==
  /\ stage = "resolved" =>
       Candidates(work.zone, work.wall) = Showing(work.zone, work.wall)
       /\ Cardinality(Showing(work.zone, work.wall)) = 1
  /\ stage = "unresolved" => Cardinality(Showing(work.zone, work.wall)) # 1

\* Every body is in the house whose cusp is the last one passed, also across 0
\* degrees and where cusps coincide; and an aspect depends on the angle between
\* two bodies, not on where the circle begins nor on their order (math.go).
ChartExact ==
  stage = "drawn" =>
    /\ work.timed => \A l \in work.longitudes :
         LET behind(h) == (l - work.cusps[h]) % 360
             house == HouseFor(l, work.cusps)
         IN /\ \A h \in Houses : behind(house) <= behind(h)
            /\ work.cusps[NextHouse(house)] # work.cusps[house]
    /\ \A a, b \in work.longitudes :
         /\ AspectOf(a, b) = AspectOf(b, a)
         /\ AspectOf(Normalize(a + 100), Normalize(b + 100)) = AspectOf(a, b)

\* A Panchang's sunrise is on the civil date asked for.  Its moonrise is on the date
\* too, and null only if there is none on that date ("null means no event"), unless
\* the date or the next one begins with a change of clocks that leaves out its
\* midnight (panchang.go:89-136).  Sunset is not held to the date: far north it may
\* come after midnight.
EventsOnDate ==
  stage = "limbs" =>
    LET ups == IF work.moonUp = Never THEN {}
               ELSE {t \in {(work.moonUp % Day) + k * Day : k \in 0..work.date + 2} :
                       CivilDay(work.zone, t) = work.date}
        midnights == \A d \in {work.date, work.date + 1} :
                       Wall(work.zone, Midnight(work.zone, d)) = d * Day
    IN /\ CivilDay(work.zone, work.rise) = work.date
       /\ midnights => /\ work.moonrise \in ups \cup {Never}
                       /\ work.moonrise = Never => ups = {}

\* The parts of a limb follow one another without gap or overlap from sunrise to
\* the next sunrise, with successive indexes, each right up to a second from its
\* ends; and the search for a boundary neither fails nor runs out, at any speed
\* the Moon and the Sun have (panchang.go:184-249).
SegmentsCover ==
  /\ stage # "lost"
  /\ stage = "found" =>
       LET k == Kinds[work.limb]
           segs == work.segments
       IN /\ segs[1].from = Timestamp(work.rise)
          /\ segs[Len(segs)].to >= Timestamp(work.nextRise)
          /\ \A i \in DOMAIN segs :
               /\ i > 1 => /\ segs[i].from = segs[i - 1].to
                           /\ segs[i].from <= Timestamp(work.nextRise)
                           /\ segs[i].index = (segs[i - 1].index % (Circle \div Width(k))) + 1
               /\ \A t \in {segs[i].from + 1, segs[i].to - 1} :
                    segs[i].from < t /\ t < segs[i].to =>
                      IndexAt(k, Angle(work.moon, t * Second)) = segs[i].index

\* Chaughadiya divides day and night into eighths that meet and differ by a
\* second at most; Rahu Kalam, Yamaganda and Gulika, computed apart, are three
\* different ones of the day's (panchang.go:149-165, chaughadiya.go:27-46).
PeriodsAgree ==
  stage = "divided" =>
    LET day == work.day
        night == work.night
        Tiles(parts, from, to) ==
          /\ parts[1].from = from /\ parts[8].to = to
          /\ \A i \in 1..7 : parts[i].to = parts[i + 1].from
          /\ \A i, j \in 1..8 : parts[i].to - parts[i].from <= parts[j].to - parts[j].from + 1
    IN /\ Tiles(day, Timestamp(work.rise), Timestamp(work.set))
       /\ Tiles(night, Timestamp(work.set), Timestamp(work.nextRise))
       /\ \A w \in 1..3 : \E i \in 1..8 : work.windows[w] = day[i]
       /\ \A v, w \in 1..3 : v # w => work.windows[v] # work.windows[w]
=============================================================================
