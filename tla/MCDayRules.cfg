\* Days of equal length, the entries on every Moon of the grid.
CONSTANTS
  Festivals <- Catalogue
  Contexts <- CatalogueContexts
  Lengths <- CatalogueHours
  Starts <- Ticks
  Day = 60
  Daytime = 30
  Drift = 0
SPECIFICATION Spec
INVARIANTS
  KeptOnce
  PrevailsThatDay
  HoliFollowsHolika
CHECK_DEADLOCK FALSE
