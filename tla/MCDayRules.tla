----------------------------- MODULE MCDayRules -----------------------------
(* DayRules for TLC: entries of the catalogue (catalog.go) that differ in    *)
(* what the rules do with them, and grids of Moons.                          *)
EXTENDS DayRules

Entry(tithi, when, later, adhika) ==
  [kind |-> "lunarTithi", tithi |-> tithi, when |-> when, later |-> later, adhika |-> adhika]
Plain(tithi, when) == Entry(tithi, when, FALSE, FALSE)

\* diwali and ganga_dussehra, of which only the second is kept in Adhika months.
ByMonth == {Plain(30, "pradosh"), Entry(10, "sunrise", FALSE, TRUE)}

\* rama_navami, maha_navami, parashurama_jayanti, krishna_janmashtami,
\* vat_savitri, akshaya_tritiya, narasimha_jayanti.
ByWindow ==
  {Plain(9, "midday"), Plain(9, "aparahna"), Plain(3, "pradosh"), Plain(23, "nishita"),
   Plain(30, "midday"), Entry(3, "purvahna", TRUE, FALSE), Entry(14, "pradosh", TRUE, FALSE)}

ParashuramaJayanti == {Plain(3, "pradosh")}
Ugadi == {Plain(1, "sunrise")}
HolikaDahan ==
  {[kind |-> "holikaDahan", tithi |-> 15, when |-> "pradosh", later |-> FALSE, adhika |-> FALSE]}

Catalogue == ByMonth \cup ByWindow \cup Ugadi \cup HolikaDahan

\* Months without a kshaya Pratipada at the edge of an Adhika month.
CatalogueContexts ==
  [f \in Catalogue |->
     CASE f \in ByMonth \cup HolikaDahan ->
            {"regular", "in adhika", "after adhika", "before adhika", "another month"}
       [] f \in Ugadi -> {"regular", "before adhika", "another month"}
       [] f \in ByWindow -> {"regular"}]
Regular == [f \in Festivals |-> {"regular"}]
AfterAdhika == [f \in Festivals |-> {"after adhika"}]

\* A day of 60 ticks of 24 minutes: tithis of 20, 24 and 26.4 hours that begin
\* at every second tick, and no Purnima shorter than from one pradosh to the next.
Hours == [f \in Festivals |-> {50, 60, 66}]
CatalogueHours == [f \in Festivals |-> IF f \in HolikaDahan THEN {58, 62, 66} ELSE {50, 60, 66}]
Ticks == {2 * k : k \in -94..-30}

\* A day of 21,600 ticks of 4 seconds: a tithi of a day and 40 seconds
\* begins at every 20 seconds from before sunset to after the second muhurta.
Seconds == [f \in Festivals |-> {21610}]
Evenings == {5 * k : k \in -6500..-6150}
=============================================================================
