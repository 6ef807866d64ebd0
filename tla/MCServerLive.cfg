\* Two requests on the routes of a chart, of a year in two sessions and of
\* readiness.  Without symmetry, for liveness.
CONSTANTS
  Requests = {r1, r2}
  Routes = {"charts", "festivals", "ready"}
  PanchangKeys = {}
  FestivalKeys = {y1}
  Months = 2
  MaxInflight = 2
  Flights = {f1, f2}
  Elements = {e1}
  Capacity = 1
  None = None
SPECIFICATION FairSpec
INVARIANTS
  FlightsWithinLimit
  TimeoutsExplained
PROPERTIES
  Answered
