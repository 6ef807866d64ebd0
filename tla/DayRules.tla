------------------------------ MODULE DayRules ------------------------------
(***************************************************************************)
(* internal/panchang/calendar.go: on which days a lunar festival is kept.  *)
(* observances looks at one day at a time, sunrise to sunrise, at the      *)
(* tithis that prevail at the edges of a decisive window on that day, on   *)
(* the day before and, roughly, on the day after.  Whether a festival gets *)
(* exactly one day is decided by all those looks together, so this module  *)
(* walks through the days around one tithi as Year does, with a Moon whose *)
(* tithis vary in length.                                                  *)
(*                                                                         *)
(* Times are ticks from today's sunrise.  Sunrises are a Day apart; sunset *)
(* moves by Drift from one day to the next.  Divisions are exact for the   *)
(* values that are used.                                                   *)
(***************************************************************************)
EXTENDS Integers, Sequences, FiniteSets, FiniteSetsExt

CONSTANTS Festivals,  \* entries of the catalogue that are followed
          Contexts,   \* per entry, the lunations around its tithi
          Lengths,    \* per entry, the lengths of tithis
          Starts,     \* starts of the earliest tithi that is looked at
          Day, Daytime, Drift

Whens == {"sunrise", "purvahna", "midday", "aparahna", "pradosh", "nishita"}

\* An entry: what it is, its tithi, its decisive time, later, adhika.  Its
\* month is Month; dayAfterHolika (Holi) is checked along with holikaDahan.
Festival == [kind : {"lunarTithi", "holikaDahan"}, tithi : 1..30, when : Whens,
             later : BOOLEAN, adhika : BOOLEAN]

Month == 11
MonthAfter(m) == (m + 1) % 12

\* The lunation the tithi belongs to (0) and its neighbours.  A month without
\* a Sankranti is Adhika and shares its name with the one that follows.
Lunation(m, a) == [month |-> m, adhika |-> a]
Around(before, own, after) == [l \in -1..1 |-> CASE l = -1 -> before [] l = 0 -> own [] l = 1 -> after]
Moons(context) ==
  CASE context = "regular" -> Around(Lunation(10, FALSE), Lunation(11, FALSE), Lunation(0, FALSE))
    [] context = "in adhika" -> Around(Lunation(10, FALSE), Lunation(11, TRUE), Lunation(11, FALSE))
    [] context = "after adhika" -> Around(Lunation(11, TRUE), Lunation(11, FALSE), Lunation(0, FALSE))
    [] context = "before adhika" -> Around(Lunation(10, FALSE), Lunation(11, FALSE), Lunation(0, TRUE))
    [] context = "another month" -> Around(Lunation(9, FALSE), Lunation(10, FALSE), Lunation(11, FALSE))

ASSUME FestivalsAssumption ==
  /\ Festivals \subseteq Festival
  /\ Contexts \in [Festivals -> SUBSET
       {"regular", "in adhika", "after adhika", "before adhika", "another month"}]
  /\ \A f \in Festivals : Lengths[f] \subseteq Nat \ {0}
  /\ Starts \subseteq Int
  /\ Day \in Nat \ {0} /\ Daytime \in 1..(Day - 1) /\ Drift \in Int

VARIABLES fest,      \* the entry
          context,   \* the lunations it meets
          first,     \* the earliest tithi looked at, counted from the festival's
          begins,    \* when that tithi and the following ones begin
          daytime,   \* from today's sunrise to sunset
          kept,      \* number of days so far that keep the festival
          yesterday  \* the day before kept it

vars == <<fest, context, first, begins, daytime, kept, yesterday>>

-----------------------------------------------------------------------------
(* The sky.                                                                *)

\* The position in begins of the tithi at time t, that tithi counted from the
\* festival's, and its number in its lunation.
Index(t) == Max({i \in DOMAIN begins : begins[i] <= t})
Ordinal(t) == first + Index(t) - 1
TithiAt(t) == ((fest.tithi + Ordinal(t) - 1) % 30) + 1

\* lunarMonth: the lunation at time t (new moons part tithi 30 from tithi 1).
MoonAt(t) == Moons(context)[(fest.tithi + Ordinal(t) - 1) \div 30]

\* The halves of a tithi are its two karanas; the elongation is taken to grow
\* evenly within one tithi.
KaranaAt(t) ==
  LET i == Index(t)
      late == 2 * (t - begins[i]) >= begins[i + 1] - begins[i]
  IN 2 * TithiAt(t) - (IF late THEN 0 ELSE 1)
Vishti(karana) == karana \in 2..57 /\ (karana - 2) % 7 = 6

\* How far around today the rules look.
Past == IF fest.kind = "lunarTithi" THEN -Day ELSE -(2 * Day)
Future == Day + (4 * Day) \div 5

Continued(s) ==
  IF s[Len(s)] > Future THEN {s} ELSE {Append(s, s[Len(s)] + length) : length \in Lengths[fest]}

-----------------------------------------------------------------------------
(* One day (observances, lines 472-515).                                   *)

Night(dt) == (Day - dt) \div 15

\* The decisive windows, from sunrise, of a day with daytime dt.
Window(dt) ==
  [sunrise  |-> <<0>>,
   purvahna |-> <<(4 * dt) \div 10>>,
   midday   |-> <<dt \div 2>>,
   aparahna |-> <<(6 * dt) \div 10, (8 * dt) \div 10>>,
   pradosh  |-> <<dt, dt + 2 * Night(dt)>>,
   nishita  |-> <<dt + 7 * Night(dt), dt + 8 * Night(dt)>>]

\* The tithis at the edges of the window of a day with daytime dt whose
\* sunrise is at the given time.
Tithis(when, dt, sunrise) ==
  [i \in DOMAIN Window(dt)[when] |-> TithiAt(sunrise + Window(dt)[when][i])]

\* Today and the day before are exact; the day after is today one day later.
At(when) == Tithis(when, daytime, 0)
Previous(when) == Tithis(when, daytime - Drift, -Day)
NextOne(when) == Tithis(when, daytime, Day)

Score(values) == Cardinality({i \in DOMAIN values : values[i] = fest.tithi})
Before(tithi) == ((tithi + 28) % 30) + 1
After(tithi) == (tithi % 30) + 1
FinalOf(values) == values[Len(values)]

\* Mutants: the day before is not looked at on a tie, or today is not.
DecisiveDayTwice(when) ==
  LET today == Score(At(when)) IN
  /\ today > 0
  /\ IF fest.later
     THEN Score(NextOne(when)) = 0
     ELSE Score(Previous(when)) <= today /\ Score(NextOne(when)) <= today
DecisiveDayAnyway(when) ==
  IF fest.later
  THEN Score(NextOne(when)) = 0
  ELSE Score(Previous(when)) <= Score(At(when)) /\ Score(NextOne(when)) <= Score(At(when))

\* Lines 519-526.
DecisiveDay(when) ==
  LET today == Score(At(when)) IN
  /\ today > 0
  /\ IF fest.later
     THEN Score(NextOne(when)) = 0
     ELSE Score(Previous(when)) < today /\ Score(NextOne(when)) <= today

\* Lines 530-533, and 563-568 for rules that take the later day.
KshayaDay(when) ==
  FinalOf(At(when)) = Before(fest.tithi) /\ NextOne(when)[1] = After(fest.tithi)
KshayaLater(when) ==
  FinalOf(Previous(when)) = Before(fest.tithi) /\ At(when)[1] = After(fest.tithi)

NightRule == fest.when \in {"pradosh", "nishita"}
Kshaya == ~NightRule /\ IF fest.later THEN KshayaLater(fest.when) ELSE KshayaDay(fest.when)

\* Lines 579-582: it touches neither evening, and prevails at sunrise.
Fallback ==
  /\ NightRule
  /\ TithiAt(0) = fest.tithi
  /\ Score(Previous(fest.when)) = 0 /\ Score(At(fest.when)) = 0

\* followsAdhika looks 29.5 days back, which from the only entry that is kept
\* in Adhika months (Ganga Dussehra, tithi 10) is the lunation before.
FollowsAdhika ==
  LET here == (fest.tithi + Ordinal(0) - 1) \div 30
  IN here > -1 /\ Moons(context)[here - 1] = Lunation(MoonAt(0).month, TRUE)

\* Mutant: a kshaya Pratipada is looked for in the month that ends.
MonthFitsWithoutPratipada ==
  /\ MoonAt(0).month = Month
  /\ MoonAt(0).adhika => fest.adhika
  /\ ~(fest.adhika /\ ~MoonAt(0).adhika /\ FollowsAdhika)

\* Lines 572-578: the month, Adhika months and what follows them.
MonthFits ==
  LET month == IF Kshaya /\ fest.tithi = 1 THEN MonthAfter(MoonAt(0).month) ELSE MoonAt(0).month
  IN /\ month = Month
     /\ MoonAt(0).adhika => fest.adhika
     /\ ~(fest.adhika /\ ~MoonAt(0).adhika /\ FollowsAdhika)

KeptAsTithi == MonthFits /\ (DecisiveDay(fest.when) \/ Fallback \/ Kshaya)

-----------------------------------------------------------------------------
(* Holika Dahan and Holi (lines 387-431): evening k is k days from today.   *)

Evening(k) == IF k = -1 THEN daytime - Drift - Day ELSE daytime + k * Day
Purnima(k) == TithiAt(Evening(k)) = 15 \/ TithiAt(Evening(k) + 2 * Night(daytime)) = 15
Bhadra(k) == \E i \in 0..2 : Vishti(KaranaAt(Evening(k) + i * Night(daytime)))

NoEvening == 99
Choice(k) ==
  CASE ~Purnima(k) -> NoEvening
    [] Purnima(k) /\ Bhadra(k) /\ Purnima(k + 1) -> k + 1
    [] OTHER -> k

HolikaChosen(k) ==
  /\ MoonAt(0) = Lunation(Month, FALSE)
  /\ (Choice(k) = k /\ Choice(k - 1) # k - 1) \/ Choice(k - 1) = k

\* Mutant: Holi is the day whose sunrise has Pratipada.
HoliByTithi == MoonAt(0) = Lunation(Month, FALSE) /\ TithiAt(0) = 16

\* Holi is the day after Holika Dahan (lines 590-593).
HoliToday == HolikaChosen(-1)

KeptToday == IF fest.kind = "holikaDahan" THEN HolikaChosen(0) ELSE KeptAsTithi

-----------------------------------------------------------------------------
(* The days, from the third tithi before the festival's to the third after. *)

Over == Ordinal(0) > 3

Grown(s, n) ==
  LET f[i \in 0..n] == IF i = 0 THEN {s} ELSE UNION {Continued(x) : x \in f[i - 1]} IN f[n]

Init ==
  /\ fest \in Festivals
  /\ context \in Contexts[fest]
  /\ \E b \in Starts :
       /\ b <= Past
       /\ begins \in {s \in Grown(<<b>>, 6) : s[2] > Past}
  /\ first = -3 - (Max({i \in DOMAIN begins : begins[i] <= 0}) - 1)
  /\ daytime = Daytime
  /\ kept = 0
  /\ yesterday = FALSE

\* Year goes on to the next day (festivals.go:71-136).
NextDay ==
  /\ ~Over
  /\ LET shifted == [i \in DOMAIN begins |-> begins[i] - Day]
         from == Max({i \in DOMAIN shifted : shifted[i] <= Past})
     IN /\ begins' \in Grown(SubSeq(shifted, from, Len(shifted)), 2)
        /\ first' = first + from - 1
  /\ daytime' = daytime + Drift
  /\ kept' = kept + (IF KeptToday THEN 1 ELSE 0)
  /\ yesterday' = KeptToday
  /\ UNCHANGED <<fest, context>>

Spec == Init /\ [][NextDay]_vars

-----------------------------------------------------------------------------

TypeOK ==
  /\ fest \in Festivals /\ context \in Contexts[fest]
  /\ first \in -8..3
  /\ begins \in Seq(Int) /\ \A i \in 1..(Len(begins) - 1) : begins[i + 1] - begins[i] \in Lengths[fest]
  /\ daytime \in 1..(Day - 1)
  /\ kept \in 0..3 /\ yesterday \in BOOLEAN

\* The month is the festival's: not an Adhika month, or for an entry that is
\* kept in Adhika months not the Nija month after it.
Due ==
  /\ Moons(context)[0].month = Month
  /\ Moons(context)[0].adhika => fest.adhika
  /\ fest.adhika => ~Moons(context)[-1].adhika

\* Every occurrence of the tithi in the festival's month gives it exactly one
\* day, whether the tithi meets one decisive window, two or none; no other
\* occurrence gives it a day (calendar.go:519-585; 403-431 for Holika Dahan).
KeptOnce == kept <= 1 /\ (Over => kept = IF Due THEN 1 ELSE 0)

\* A day that keeps the festival meets its tithi between this sunrise and
\* the next: a rule that prefers the later day, a kshaya tithi or the evening
\* fallback never gives a day the tithi has left (calendar.go:519-585).
PrevailsThatDay ==
  ~Over /\ KeptToday => 0 \in Ordinal(0)..Ordinal(Day - 1)

\* Holi is kept exactly on the day after Holika Dahan, although each of the
\* two days decides for itself (calendar.go:586-593).
HoliFollowsHolika == ~Over /\ fest.kind = "holikaDahan" => (HoliToday <=> yesterday)
=============================================================================
