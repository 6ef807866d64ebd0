# Verification of KRIPA

KRIPA is a Go service that answers three kinds of request (a western birth
chart, a daily Panchang, and a year of festivals) from the Swiss Ephemeris C
library.  The library keeps process-wide state and its calls cannot be
interrupted, so almost everything that is hard to test in the service is about
who may use the library when, who waits for whom, and what is shared with whom.
The other half of the difficulty is the calendar: thousands of separate decisions about
days, each made from numbers around an edge.  This directory models both in TLA+,
checks them with TLC on small instances, and proves the invariants of the concurrent part
with TLAPS for every size, and those of the walk over a year, of the days of a festival and
of one request for every sky and every zone that keeps to named bounds.

All line numbers refer to the repository's files (`internal/...` and so on).

## 1. Inventory

| Part | State | Operations | Interacts with | Hard behaviour | What makes it correct |
|---|---|---|---|---|---|
| Result cache, `internal/memo/cache.go` | LRU list, index, running flights, all under one mutex | `Do` | server handlers call it; it calls the calculation without the mutex | leader and followers, expiry, eviction, a panicking leader, a follower's context | one computation per key, no lost follower, list = index, bounded, right bytes |
| Native gate, `internal/ephemeris/native.go` | one channel of capacity 1, the library's variables, the OS thread | `WithSession(Timing)` | every calculation and the readiness probe | select of gate and context, second look at the context, thread pinning, deferred close/unlock/release, panics | sessions exclude one another, run on their own configuration, leave nothing |
| Ephemeris operations, same file and `session.go` | none of their own | `New`, `JulianDay`, `Position`, `Houses`, `RiseSet` | called inside a session | errors of the C library | errors are reported as unavailable or as no event |
| HTTP server, `internal/api/server.go` | admission slots, counters, the cache | routes, `protected`, `decode`, `calculate`, readiness, `metrics` | cache, gate, calculations | early returns and panics with deferred slot and counters, deadline against late success, followers that share a failure | slots and counters add up on every path, each request answered once, with a justified answer |
| Decoding and validation, `decode`, `Validate`, `Resolve` | none | accept or refuse | before the cache | duplicate, missing and null fields; DST gaps | refuses everything but one unambiguous request |
| Year scan, `internal/panchang/festivals.go` | the lunar month carried from day to day | `Year` | twelve sessions on one context | other sessions run between its months | same result as a fresh computation per day |
| Daily Panchang, `panchang.go` | none | boundary search, segments, periods | inside one session | brackets, iteration caps, rounding | segments cover the day, in order |
| Calendar and observances, `calendar.go`, `catalog.go` | memo of solar month starts within one day | `calendar`, `observances`, decisive day, kshaya, Holika, solar months, adhika | inside a session | days decided one at a time about a tithi spanning several | each festival exactly one day |
| Chart, `internal/chart` | none | `Resolve`, `Calculate`, houses, aspects | one session | DST, wrap at 360 degrees | one instant, one house per body |
| Chaughadiya, `chaughadiya.go` | none | eighths of day and night | daily Panchang | rounding | contiguous periods |
| Process, `cmd/kripa/main.go` | configuration, listener, signal | startup, shutdown, health check | server | signal against a failing listener, 15 s shutdown | no unprotected listener, requests in flight finish |
| Deployment and tools, `deploy`, `scripts`, `cmd/latency` | token file | install, load, smoke | outside the process | crash during installation, overlapping installers | token written once |

The hazards each part is exposed to are listed with their lines in
`PROJECT.json`, each with the properties about it or the reason there is none.

## 2. Modules

```
CoalescedLRU <--refines-- Memo <--proofs-- MemoProofs
                           ^                  ^
                           | INSTANCE         | INSTANCE
                         Server <--proofs-- ServerProofs
                           | INSTANCE
                           v
SessionGate <--refines-- NativeGate <--proofs-- NativeGateProofs

                 LocalTime <--proofs-- LocalTimeProofs
                  ^      ^                  ^ EXTENDED by both proof modules
          EXTENDS |      | EXTENDS
             YearScan  Calculation --EXTENDS--> ChartRules, Limbs
                ^          ^--proofs-- CalculationProofs
                '--proofs-- YearScanProofs

DayRules <--proofs-- DayRulesProofs --INSTANCE--> LocalTimeProofs

Process --EXTENDS--> Install
   ^--proofs-- ProcessProofs
```

`Server` is how requests share the process, `Calculation` what one of them goes through
on its own, `YearScan` the days of a year and `DayRules` the decision about one
festival from day to day.  `Process` is the life of the process around them.

`MCMemo` and `MCServer` add the symmetry sets TLC uses; `MCDayRules`, `MCYearScan` and
`MCCalculation` the catalogue entries, skies, zones, cusps and bodies.

### Memo: the cache

Each critical section of `Do` is one action, because the mutex makes it one:

- `Hit`, `Join`, `Lead` are the three ways through lines 38-60.  `Join` and
  `Lead` include the removal of an expired entry that was met on the way.
- `Finish` is lines 72-87 (publish, store, evict, delete the flight, close its
  channel), `Panic` is the deferred recovery in lines 62-71.
- `FollowerDone` and `FollowerEnded` are the cases of the select in lines 51-56.
  Both are enabled when both channels are ready.
- `End`, `Expire`, `Return` are the environment: contexts, time, and the
  goroutine that goes on.

Pointers are identities.  A flight nobody holds any more becomes garbage and its
identity may be used again, so behaviours stay infinite with finitely many
identities.  There is one flight identity for every caller, which is all that can be
in use.  The bytes of a key are the key itself, which is enough to tell
whether a caller got another key's bytes.  Time is abstracted to whether the TTL of
an entry has passed.

`CoalescedLRU` says what `Do` promises without lists, elements or flights: a
bounded sequence of kept keys, and per caller what its call has come to.  `Memo`
implements it under a refinement mapping that reads keys through the list and a
shared outcome through the flight.

### NativeGate: ephemeris sessions

Each statement of `WithSessionTiming` that touches shared state is an action, in
the order of the code; the deferred calls run in reverse order.  `Threads` are OS
threads, `pin` is `LockOSThread`, `RunsOn` says on which threads the scheduler
may run a goroutine.  `ThreadLocal` chooses between the two ways the library may have been built:
its variables exist once per process or once per thread.
`SetPath` and `SetSidMode` are the two configuration calls, `Close` is
`swe_close`, which resets them.  An arbitrary Provider calls: `New` may be used
several times in a process, as the comment at `native.go:22` expects.

`SessionGate` is the contract other parts rely on: wait no longer than your
context, be alone inside, be told how it ended.  A second look at the context
(line 87) makes a call that entered leave at once with the context's error,
which the contract shows as a session that ended so.

### Server: the life of a request

`Server` instantiates `Memo` for `Server.cache` and `SessionGate` for the
engine, with the requests as callers of both, and adds admission slots, the
place in the handler, the answer, and what the request added to each counter.
The handler of the cached routes is `Arrive`, `Deny` or `Admit` or `Reject`,
`Decode`, `Lookup`, then for a leader `Ask`, `Wait`, `Leave` and `NextMonth` per
session and `FnReturns`, for a follower `Follow`, and `Conclude`; charts and the
readiness probe run their session without the cache and end in `ConcludeSolo`.
Every path ends in `GiveSlotBack` and `Record`, the two deferred functions, in
the order Go runs them.  `Verdict` is the error table of lines 354-376.

`left` counts the sessions a calculation still has to run: one, or the months
of a year scan.  A scan stops at its first error.  Counters are kept as what the
request in progress added to them, which keeps the state finite and still shows
double or missing counts.

### DayRules: on which day a festival is kept

`observances` decides each day for itself, from the tithis at the edges of a window
on the day, the day before and the day after.  `DayRules` walks through the days
around one occurrence of a tithi, as `Year` does, and counts the days that keep the
festival.  The Moon is a sequence of times at which tithis begin (`begins`),
extended as the days go on with any of the given lengths; the lunations around the
tithi may be Adhika.  `DecisiveDay`, `KshayaDay`, `KshayaLater`, `Fallback`,
`MonthFits`, `HolikaChosen` are the code's closures of the same names or its
conditions; the windows are computed from sunrise and sunset as in the code.
The elongation grows evenly within a tithi, which only Bhadra (a karana is half a
tithi) depends on.  Failing positions (`tithiAt` then says 0) and a missing
previous sunrise (`prevRise` 0) are left out.

### LocalTime: wall clocks

A zone is an offset and its changes; instants and wall clocks are integers.  `Instant` is
`time.Date` of Go, two lookups of the offset, from which `Midnight` and `AddDays`
(`AddDate(0, 0, n)`) follow.  `Candidates` are the instants `Resolve` finds from the offsets
at five samples (`chart.go:65-80`).  `YearScan` counts in hours and `Calculation` in ticks of
8 ms with the same operators.

### YearScan: the days of a year

One action, `ScanDay`, is one round of the loop of `Year` (`festivals.go:74-133`): the day's
sunrise, sunset and next sunrise, the lunar month (kept while it lasts, looked up otherwise), what the Sun
says about the day, and the step to the next date.  `NextMonth` opens the next session
at its own first of the month, `DayFails` and `Ended` are the error returns, `Begin` is
`Validate`.  Each day's searches for ingresses look at the context too (`calendar.go:233-235`), but their callers take its error for
a month that does not begin (lines 336-339): `Found` lets any part of a day's reports be missing once the context has `ended` in that
round.  The next look at it, before a day or a session, fails the year; after the last day there is none, and the year is
answered.  The sky is a constant record chosen at the start: instants of new moons and
ingresses, sunrise and the length of day, the instant from which positions fail and the one from
which the Sun no longer rises.  The model computes with it as the code does: `NewMoon` is a
bracket of three days around an estimate, `Guess` the age of the Moon in mean months,
`SolarStart` a guess from the Sun's longitude at a mean rate with a bracket around it,
`StartDate` the rules of `calendar.go:328-360`.  The properties compare with what the sky
holds without any search (`TrueMonth`, `MonthBegins`, `Due`).

The Sun moves evenly within a sign and the elongation evenly within a lunation; a sunrise
is the same time of the clock each day.  A bisection is taken to find the crossing of its
bracket (`Calculation` follows one to the end).  Lunar festivals are in `DayRules`.

### Calculation: one request from its bytes to its answer

`ReadBody`, `ReadMember`, `ReadEnd` are `decode`: members arrive one by one in any order, with
any of the names, right, wrong or null; `assigned` is what the typed decoder would do
with them.  `Resolve`, `Refuse` and `Draw` are a chart; `Validate`, `DayEvents`, then for each of five limbs
`Seek`, `Halve` and `Segment`, and between the fourth and fifth `Divide`, are a Panchang.
`Fail` is an ephemeris error or the deadline wherever one of them is asked for.

`ChartRules` has `houseFor` and the aspects on whole degrees.  `Limbs` has the widths, spans
and the wrapped comparison of `nextBoundary`, timestamps, periods and chaughadiya; a tick is
8 ms, the step of `transitions` over a boundary, so that every halving down to a tenth
of a second is made.  A limb's angle is even in time within the days around, at the
slowest and fastest rates of Moon and Sun.  `work` holds only the locals of the function at work.
The ranges of coordinates, years and formats are one choice of valid or not.

### Process and Install

`Install` is `deploy/install.py` statement by statement: the look at the file,
`O_CREAT|O_EXCL`, the write that reaches the file when it is closed, and a `Crash` anywhere, with any number of
installers at once.  `Process` adds `main`: `Start` with the token rules
(`main.go:52-70`), a signal at any second, Shutdown with its 15 seconds and Close, and the
container runtime that starts the process again.  A connection goes through reading
headers, reading the body, calculating and writing, and `Tick` lets no time pass beyond a
deadline of one that is set: 2 and 5 s for reading, 15 for writing, the request's own for calculating.  `Overdue` lets
Shutdown give up after its 15 seconds; how soon it then does is not modelled.
The calculation is abstracted to its deadline.  Later signals than the first are
ignored, as after `NotifyContext`'s first; that a client reads slowly is a choice at the answer.

## 3. Runs

| Run | Instance | Distinct states | Shows |
|---|---|---|---|
| `memo` | 2 callers, 3 keys, capacity 2, symmetry | 6.6 k | types, list and index agree (`IndexMatchesList`), stored keys are not running, answers belong to their keys, refinement of `CoalescedLRU` |
| `memo_live` | 3 callers, 1 key | 112 k | one leader, no orphan; every call returns if the computation does, and the abstract store's progress; followers return by their deadline even if the computation never ends |
| `native` | 2 callers, 2 directories, 3 threads, thread-local library | 8.5 k | exclusion, own configuration, nothing left, every call returns, refinement of `SessionGate` with fairness |
| `server` | 3 requests, 1 key and readiness, 2 slots, symmetry | 1.2 M | slots, counters, nothing held by idle requests |
| `server_live` | 2 requests on charts, year scans of 2 sessions and readiness | 163 k | flights within the admission limit, reasons of a 504, every request is answered |
| `day_rules` | 11 catalogue entries, Adhika months around, tithis of 20, 24, 26.4 hours (Purnima 23.2 to 26.4) | 596 k | exactly one day for each occurrence, on which the tithi prevails; one Holika evening, Bhadra or not; Holi the day after |
| `year_scan` | 4 months, 5 zones, 278 skies | 72 k | each date once; lunar month, solar month by four rules, samvat; every Sankranti and first day once, though lookups fail silently where the ephemeris or the context ends; no listed day takes a tithi from a failed position |
| `calculation` | bodies of 10 names and 3 values; births and dates around 9 clocks; 24 sets of cusps; 8 courses of each limb | 187 k | decode leaves one meaning; births and events on their dates; houses, aspects; limbs cover the day; periods agree |
| `process` | 2 installers, 1 connection, deadlines of 2 and 10 s | 406 k | token rules under crashes and overlaps; Shutdown cuts off only clients that read slowly |
| `server_panic` | 2 requests of one key | | violation, see below |
| `holika_missed` | Holika Dahan, Purnima of 20 to 26.4 hours | | violation, see below |
| `midnight_gap` | the year scan in Havana | | violation, see below |

Why the bounds are enough: capacity 2 with 3 keys is the least that separates least
recently used from first in, first out and lets an eviction meet a hit.  Three callers
of one key give a leader and a follower beside a follower that has not yet left an
older flight.  Two callers of the gate that come back are enough for one inside, one that gives up or
overtakes for ever, and three threads for a migration to a thread that a goroutine was
on earlier; that more callers change nothing is proved.  Three requests on two slots give a
leader, a follower and an overload at once.  Two sessions per year scan put another
request's session between two months of one scan; twelve would repeat that.

The passing day runs use days of one length (`Drift` 0) of 60 ticks of 24 minutes, twelve hours
from sunrise to sunset, and Moons on a grid of two ticks: every window edge is on
the grid or, for midday, between two of its points, so each order of tithi boundaries
and edges occurs.  The lengths are the extremes of real tithis and a middle one.  Whether
the rules hold for the lengths of day of high latitudes is not checked.  The entries are one for every
combination of window, `later` and `adhika` that the catalogue has and that the rules
tell apart.

Four months of the year scan hold the two Sankrantis whose days the catalogue counts from
(Makara and Mesha), ordinary and Adhika months, a samvat, both
kinds of change of clock and three seams between sessions; the other eight months repeat them.
The ingress is placed at fourteen hours of the day, every side of sunrise, of the three
fifths of the day, of sunset and of midnight.  The length of months is at its extremes.
The ephemeris ends at thirteen places around a new moon and around the end of the year.

The births and dates stand on, before and after changes of eight clocks, and beside one that never changes: by an hour
and by half an hour, at midnight and not, east and west of UTC, forward and back, and a date left
out.  Cusps wrap, crowd and coincide.  The courses of a limb start at four phases
with the slowest and the fastest rate there is, so that a day has one to four segments.

In `process` connections meet only in `Exit`, which waits for all of them; the proofs cover any number.  The
deadlines are a short one and the longest there is.

Symmetry is used only in runs of invariants and of the refinement of a
specification without fairness.  Deadlock is checked in every run
but those of `DayRules`, `YearScan` and `Calculation`, whose walk or request ends.

### Fairness

- `Memo!FairSpec` assumes only that a goroutine whose channel is ready runs.  That the
  computation returns (`FnReturns`: its loops are bounded and the gate serves or turns
  back every session) and that deadlines pass (`DeadlinesPass`, `server.go:286`) are
  premises of the properties that need them.
- `NativeGate!FairSpec` assumes that runnable goroutines run, that a session's
  function returns, and that contexts end (`server.go:93` and `286`).  It makes no
  assumption about the order in which the channel serves its waiters: a caller may
  be overtaken until its deadline, and then gives up.
- `Server!FairSpec` assumes the same per request, and that bodies are read or time
  out (`main.go:88`, `ReadTimeout`).

The other specifications are of one sequential computation or, in `Process`, of bounded time: what
must happen there is stated as an invariant about the second at which it is overdue.

### Disagreements found

`server_panic`: when a leader's calculation panics, the deferred recovery of
`cache.go:62-71` fails the flight with `context.Canceled`.  The leader answers
500, but its followers answer 504 `calculation_deadline_exceeded` although no
deadline passed.  `api/openapi.yaml:142` describes 504 as "Calculation or native
queue deadline exceeded."

`holika_missed`: a Purnima that begins after one pradosh and ends before the next
sunset gives `choice` its sentinel for every evening (`calendar.go:418-420`), and the
year has neither Holika Dahan nor Holi.  `docs/CALENDAR.md:27` promises a night-window
tithi that touches neither evening the day it prevails at sunrise; the code does
that for the other night rules (lines 579-582).

`midnight_gap`: `festivals.go:74` steps to the next date with `AddDate`.  Where clocks go
forward at midnight west of UTC (America/Havana in March, America/Santiago in September),
`time.Date` resolves the missing midnight to 23:00 of the day before; from then on until the next month's session
every result carries the date before, one date is listed twice, and first days of solar months are
missed because `start.Equal(d.date)` compares two instants an hour apart.

Met while modelling and not among the runs:

- East of UTC the step of `festivals.go:74` onto a midnight that clocks leave out arrives at 01:00 of the date, which is still right, and
  keeps that hour until the month ends.  The first day of a solar month is a midnight that `time.Date` makes, so the
  comparisons of `calendar.go:441` and `595` never hold in those days, against the comment at line 433 ("the ingress observed
  today").  In Asia/Karachi clocks went forward on 7 April 2002 and the Sun entered Mesha a week later: the year has
  neither that Sankranti nor Vishu and Puthandu.  `MCYearScanLate.cfg` shows `StartsOnce` fail there.  It came out of the
  proof of `StartsAreReportedOnce`, which needs every date to begin at a midnight that clocks show.
- For a kshaya Pratipada the code takes the next month's name (`calendar.go:569`) but the ending month's
  Adhika flag (line 572).  When an Adhika month ends with one, the festival of the new month is not
  kept, against `docs/CALENDAR.md:59-61`.  `MCDayRulesNija.cfg` shows it, and `day_rules` therefore leaves Pratipada
  out of Adhika months and of the months after them.
- `calendar.go:507` takes the next evening to be one day after today's and says the minutes cannot
  change which tithi prevails.  With sunset two minutes later each day, a tithi that ends within those
  minutes of the edge is left to tomorrow by today and to today by tomorrow.  `MCDayRulesDrift.cfg` shows it.
- Where the midnight of a date or of the next one is left out, a Panchang's moonrise may be null although the Moon rises on the date,
  or be of the next date (`panchang.go:132-136`; the date begins at 01:00 in Beirut and ends at 23:00 in Havana);
  `EventsOnDate` leaves such dates out.  West of UTC `Validate` refuses the date itself (`panchang.go:73-74`).
- Where a whole date is left out (Pacific/Apia, 30 December 2011) the same step arrives where it began.  The day before it then has
  no length (`festivals.go:82`), its sunrise is not before its end (line 106), and the year fails at once with `ErrNoEvent`.
- A moonrise in the last half second of a date is printed as the next date's (`native.go:110-115`).
- The text about Sankrantis at `calendar.go:673` does not say that an ingress after sunset counts for the next day, as
  lines 340-346 have it.
- An installer that dies between creating and writing the token file leaves an empty one, which no later
  installer replaces (`install.py:20`).  The service then never comes up outside loopback until somebody
  removes the file; that it does not come up open is what `OpenOnlyWithToken` says.
- `deploy/compose.yaml` sets no `stop_grace_period`, so that Docker kills the process after ten seconds where
  Shutdown would wait for 15.

## 4. Proofs

`MemoProofs` proves for all callers, keys, flights, elements and capacities:
`TypeCorrect`, `IndexIsTheList`, `StoreCorrect` (the bound, and stored keys are not running),
`OneFlightPerKey`, `FollowersHaveLeader` and `AnswersAreRight`.  The argument is
one inductive invariant, `IInv`.  None of the properties is inductive alone: that a
pushed element is not a duplicate needs `StoredNotRunning`, which needs that a computing
caller's flight is the one `running` names (`LeaderInv`), that `running` names only
such flights (`RunningInv`), that followers hold either the running flight of
their key or a finished one with an error or that key's bytes (`FollowerInv`), and
that callers outside hold nothing (`OutsideInv`).  Lemmas state what `RemoveAt`,
`Unlink` and the push-and-evict do to a list without duplicates; each action then
keeps each conjunct it can disturb.

Its second part proves `MemoImplementsLRU`, that `Memo` implements `CoalescedLRU`.  It first shows what the
list operations do to the sequence of keys (`DropShown`, `HitShown`, `PushShown`: unlinking an element removes the
first occurrence of its key, because no key is listed twice) and what a landing flight does to the calls
(`LandShown`: exactly the followers of this leader see the outcome, by `RunningInv` and `FollowerInv`), then gives
each action of `Memo` its step of the abstract store.  A hit, a miss, a publication and a
follower's return are one step each; nothing in `Do` but the publication touches two callers.

`NativeGateProofs` proves `SessionsExclude` (the token count is the number of
calls inside, hence at most one), `SessionsConfigured` (in both builds of the
library) and `SessionsCleanUp`.  The invariant says, for the call that is inside,
which part of the configuration its place guarantees on its own thread, and that
every other copy is untouched.  `GateImplementsSessions` proves the safety part of
`ImplementsSessionGate`: with the same invariant, and that a call that ends in "ctx" has a context that is
done (`HowInv`), each of the nine statements is a step of `SessionGate` or not seen from outside.

`ServerProofs` proves `SlotsAddUp`, `IdleIsFree`, `CountsAreRight`, `TimeoutsHaveReasons` and
`FlightsAreBounded` for any number of requests, slots, keys and sessions of a year.  Its invariant says for each
place in the handler what the request holds: a slot, a flight, a session, an
answer, and what it has counted.  What it needs of the cache it takes from `MemoProofs` through
`INSTANCE`: the steps of a server inside `Do` are steps of `Memo`, so the cache's invariant holds in the
server too.  That flights stay within the slots is an injection from flights in use to requests that hold a slot.

`ProcessProofs` proves the three properties of `process`.  `NeverOpen` and `TokenStays` rest on one
invariant about the file and the installers: only the one that created the file writes it, and until then it
is empty.  `Drains` rests on the ages of connections: none is younger than the signal, a request is
admitted within its first 2 seconds and over within 10 more, unless its client reads slowly.

`LocalTimeProofs` is about every zone whose offsets are less than a day (`Bounded`).  If its clocks change at least
a day apart (`Spaced(zone, Day)`) the five samples of `Resolve` find every instant that shows a birth time
(`SamplesSuffice`); if at least two days apart, `time.Date` finds an instant that shows the wall clock whenever there
is one (`InstantShows`).  Both follow from a lemma that within that distance the offset is that of one end
(`OneChange`).  Its other lemmas say that the first event after the beginning of a date has that date
(`EventOnItsDate`), when the midnights around it show (`BetweenMidnights`), which date a moment between two midnights
has (`EventDates`, `DatesPass`), that stepping from a midnight that is shown arrives at a midnight (`StepOfDates`), and what division leaves; the
two modules below share them.

`CalculationProofs` proves all six invariants of `calculation`:

- `BodyHasOneMeaning`, for bodies of any number of members in any order: `assigned` counts what is in `fields`, each name once, because the strict
  reading keeps only names that are their own fold.
- `BirthsResolve`, for births in zones whose clocks change a day apart (`SpacedBirths`): the candidates are the
  instants that show the wall clock, so one is an unambiguous time, none a gap and two an overlap.
- `ChartsExact`, for cusps that go round the circle once, in twelve arcs of which some may be empty but none is the whole circle
  (`RoundCharts`): the arcs cover every degree once, so that `houseFor`'s fall to the twelfth is never taken for a
  body that is in another house.  An aspect depends on the angle between two bodies alone, not on where the circle
  begins or on their order.
- `EventsAreOnDate`, for any margin below a day and days that are orderly by it (`OrderlyDays`): within a day clocks
  change by no more than the margin, dates go on at midnight, and a date's midnight is shown or sunrise keeps away from
  it.  Sunrise is on the date it is given for; where no midnight is left out moonrise is of the date or
  there was none.
- `SegmentsFollow`, for days of which both sunrises are known and less than two days apart, with daylight of at least nine seconds, clocks
  less than a day off and the Sun's times on whole ticks (`RealDays`) and for any course of a
  limb that crosses a boundary within the span of the search, not the whole circle, and fewer than seven boundaries in
  two days (`RealMoons`).  The invariant counts the boundaries passed on the angle unwound from the circle: after `n`
  segments the cursor is in the part `n` beyond the first (`PartsFound`), the bracket of `Halve` has the boundary
  between its ends (`Bracketed`), and each segment's index is the limb's up to a second from its ends.  That the wrapped comparison of
  `nextBoundary` says "passed" exactly when the unwound angle has reached the boundary is `PassedIsReached`.
- `PeriodsAreEighths`, for any length of day and night of `RealDays`.

`YearScanProofs` is about the walk over a year.  Its theorems take a margin below a day, and skies that are orderly by it (`OrderlySkies`):
the clocks of a zone never change by more than the margin within a day, the first margin of a date comes out in it
even where a midnight is left out, and sunrise keeps away from midnight.  The other hypotheses are the facts of
astronomy that the code's own constants rely on: new moons a mean month apart to within a day (`LunarSkies`, the
bracket of three days around an estimate), and twelve ingresses longer than two months of the Moon, with the month of
Chaitra counted back by mean months falling on the right side of New Year (`SolarSkies`).

- `DatesListedOnce`: the walk is in the first margin of date `listed`, and in its month (`DateInv`); a seam between sessions and
  a change of clock both keep that.
- `MonthsAreInForce`: the month carried is `TrueMonth` of every instant until it ends (`LunarInv`), and the searches around
  estimates find the neighbouring new moons and no others.
- `WindowsAreKnown`: the search that found the month has read three days beyond its mean end, and the windows of a day and of
  the next evening, in which tithis are read, end within two days of its sunrise.  The lookups of ingresses read up to four weeks
  ahead and do fail on listed days; that an answered year loses nothing by it is part of `StartsAreReportedOnce`.
- `SamvatsTurn`, an action property: besides, the month carried is that of the day listed last, whose sunrise is less than four
  days ago (`WalkInv`, `SunrisesMoveOn`); in that time the ordinal of the Moon's month grows by less than twelve
  (`MonthsMoveOn`), so that its index falls back exactly when the ordinal passes the 12th ingress, and there the year
  counted back turns (`SamvatOfMonth`).

Its last part is about the months of the Sun.  `SunSkies` says that signs are 29 to 32 days long (real ones 29.4 to
31.5), that sunrise is within a day of the date's beginning, and that clocks show every midnight around the year (`NoMidnightLeftOut`);
`StartSkies` adds that what the catalogue keeps by the Sun is on a first day or beside one, and that no ingress is in the week
around the end of the year (the nearest are two weeks off).

- `SolarMonthsInForce`: within the 24 degrees that `solarStart` looks at, the mean rate misses an ingress by less than two days
  (`MeanRate`, `EstimateIsNear`), so the bracket of three days around the estimate begins in one sign and ends in the
  next (`BracketsOfEstimate`); the search finds that ingress and never another (`SearchFinds`, `SearchFindsNoOther`).  What is
  found is turned into its date and that date's sunrise and sunset (`SunriseOfDate`, `StartDateIs`), which may be the date before or
  after the walk's.  An ingress that the search leaves out is more than 23 days away, so a first day has come if and only if it is the
  ingress behind (`StartsHaveCome`), and two months never both hold a day.
- `StartsAreReportedOnce`: besides, `ExactInv` says that the walk stands at the midnight of `listed`, so that `Equal` holds on
  the day itself, and `StartInv` that what is reported is what is due before `listed`, but for the last day listed if the context ended
  in it.  Of three signs a day asks for it gets
  its own Sankranti (`SankrantiIs`), of an entry's month the first day and no other (`DayOneIs`).  No lookup that matters fails silently in a year that is
  answered: the walk has read the ephemeris and the sunrises beyond every ingress but those at the end of the year (`YearLasts`), and
  a context that ended in a day leaves an answer only if that was the last day, on which nothing is due (`NothingOnLastDay`).

The instances of `calculation` and `year_scan` satisfy these hypotheses, with a margin of one hour: TLC evaluated them, with
the quantifiers over instants cut to the year, and the invariants, before they were proved.  One hypothesis some skies do not
satisfy: in Beirut a midnight of March is left out, as `NoMidnightLeftOut` does not allow.  No ingress falls between it and
the end of March, and TLC finds both properties to hold there too; the two theorems cover the other three zones.  Where an ingress does fall
there, `MCYearScanLate.cfg` shows `StartsOnce` fail.  The
sky of `midnight_gap` is not orderly: its zone turns a midnight that is left out into the day before, and there `DatesOnce` fails.

`DayRulesProofs` proves the three invariants of `day_rules`.  Its hypotheses: sunsets do not drift (`SteadyDays`), no tithi is
shorter than four fifths of a day (`LongTithis`; a real one has 19.9 hours), and what an entry asks of its
window (`SuitedTithi`): it closes before four fifths of the day, which nishita does on days with up to 13.7 hours of
light; for evenings and the later day no tithi fits between its closing and the next sunrise; and a first tithi is kept
at sunrise and not beside an Adhika month, where `MCDayRulesNija.cfg` shows the rule fail.  Holika Dahan asks that no Purnima is
longer than a day and a quarter or shorter than from the end of one pradosh to the next sunset (`SuitedHolika`), which real ones
may be: `holika_missed` shows that case.

- The courses of tithis go on from day to day (`NextSky`): today's Moon at a time is yesterday's a day later, though what lies
  behind is dropped and as many tithis as needed are added.
- Six numbers decide a day (`RuleByNumbers`): the tithis, counted from the festival's, at the edges of the windows of the day,
  the day before and the day after.  From them the day is *behind* or not (`Behind`), and the rule chooses exactly the day that
  is not behind today and will be tomorrow, whether the tithi meets one window, two or none.  For Holika Dahan the numbers are
  those of three evenings (`EveningByNumbers`), an evening in Bhadra giving way to the next.
- So the inductive invariant `DayInv` says the festival has been kept once if it was due and is behind, and never otherwise.
  `FestivalsKeptOnce` follows, because the day is not behind at first and is when the walk is over;
  `FestivalsKeptInTheirTithi`, because a chosen day's sunrise is not past the tithi and the next sunrise is not before it;
  and `HoliIsTheNextDay`, because what yesterday decided of itself is what today finds of yesterday.

The constants of `day_rules` satisfy these hypotheses, and TLC evaluated `KeptInv` as an invariant of it before it was proved.

The assumptions are those of the modules: capacities are natural numbers, `None` is
not a value it stands in for, tokens are no other word used for one, deadlines are at most ten
seconds (`main.go:79-82`), a day is a positive number of ticks; and the hypotheses named above, which each theorem states.

Every invariant and every action property of the passing runs is proved.  Only model-checked: the liveness properties
(`CallsReturn` of the cache and of the gate, `FollowersReturn`, `Answered`, `ImplementsProgress` and the fair part of
`ImplementsSessionGate`).  Liveness under fairness, `ENABLED`,
what recursive definitions compute for every input, and `RECURSIVE` operators are out of this prover's reach.  Where a
proof needs the least or greatest of a set of integers, it takes it from
the well-foundedness of the naturals (`LeastNatural`), not from an induction; the recursive function that adds tithis in
`DayRules` is unfolded for the two numbers of rounds that occur (`GrownTwice`, `GrownSixfold`).

## 5. Not modelled

- The astronomy of the C library and its files (`New`, `JulianDay`, `Position`, `Houses`, `RiseSet`): the other modules see
  a sky with positions that fail and events that are missing.
- Of `calendar.go`: nakshatra and solar-tithi entries, Varalakshmi, Ekadashi and the monthly vrats, and the muhurtas
  of `calendar()`.  They are decided by the same windows and comparisons as the entries that are modelled; the next
  step would be to add them to `DayRules`, with days of changing length.
- Failing positions inside the day rules (a tithi is then 0); `WindowsKnown` shows that the windows of a listed day meet none.
- Catalogue texts, the wording and rounding of answers, the liveness, metadata and catalogue routes, which keep no
  state.
- The histogram and the scrape of the metrics (`server.go:396`): each counter is monotonic, and nothing in the
  repository compares two of them within one scrape.
- The latency benchmark (`cmd/latency`), the `-healthcheck` client, and the scripts that build, load or smoke-test the
  service from outside.
