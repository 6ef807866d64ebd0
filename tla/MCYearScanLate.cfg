\* A date without a midnight, east of UTC, in the week before an ingress.
CONSTANTS
  Day = 24
  Synodic = 709
  Firsts <- FourMonths
  Skies <- LateSkies
  Entries <- DayOnes
  Lunar <- NoMonth
SPECIFICATION Spec
INVARIANTS
  StartsOnce
CHECK_DEADLOCK FALSE
