\* Pratipada after an Adhika month.
CONSTANTS
  Festivals <- Ugadi
  Contexts <- AfterAdhika
  Lengths <- Hours
  Starts <- Ticks
  Day = 60
  Daytime = 30
  Drift = 0
SPECIFICATION Spec
INVARIANTS
  KeptOnce
CHECK_DEADLOCK FALSE
