\* Four months under all of the skies.
CONSTANTS
  Day = 24
  Synodic = 709
  Firsts <- FourMonths
  Skies <- PlainSkies
  Entries <- DayOnes
  Lunar <- NoMonth
SPECIFICATION Spec
INVARIANTS
  DatesOnce
  MonthIsInForce
  StartsOnce
  SolarMonthInForce
  WindowsKnown
PROPERTIES
  SamvatTurns
CHECK_DEADLOCK FALSE
