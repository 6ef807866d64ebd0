\* A Purnima of any length.
CONSTANTS
  Festivals <- HolikaDahan
  Contexts <- Regular
  Lengths <- Hours
  Starts <- Ticks
  Day = 60
  Daytime = 30
  Drift = 0
SPECIFICATION Spec
INVARIANTS
  KeptOnce
CHECK_DEADLOCK FALSE
