SPECIFICATION Spec
CONSTANTS
  Day <- DayTicks
  Births <- MCBirths
  Dates <- MCDates
  Charts <- MCCharts
  Moons <- MCMoons
  Never = Never
INVARIANTS
  OneMeaning
  ResolveExact
  ChartExact
  EventsOnDate
  SegmentsCover
  PeriodsAgree
\* A request ends with its answer.
CHECK_DEADLOCK FALSE
