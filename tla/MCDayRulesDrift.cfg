\* Sunset two minutes later every day.
CONSTANTS
  Festivals <- ParashuramaJayanti
  Contexts <- Regular
  Lengths <- Seconds
  Starts <- Evenings
  Day = 21600
  Daytime = 10800
  Drift = 30
SPECIFICATION Spec
INVARIANTS
  KeptOnce
CHECK_DEADLOCK FALSE
