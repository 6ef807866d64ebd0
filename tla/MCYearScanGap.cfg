\* A date without a midnight, west of UTC.
CONSTANTS
  Day = 24
  Synodic = 709
  Firsts <- FourMonths
  Skies <- GapSkies
  Entries <- DayOnes
  Lunar <- NoMonth
SPECIFICATION Spec
INVARIANTS
  DatesOnce
CHECK_DEADLOCK FALSE
