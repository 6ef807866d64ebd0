\* One key: a flight with a leader and followers beside an older flight that a
\* slow follower still holds.  Without symmetry, for liveness.
CONSTANTS
  Callers = {c1, c2, c3}
  Keys = {k1}
  Flights = {f1, f2, f3}
  Elements = {e1}
  Capacity = 1
  None = None
SPECIFICATION FairSpec
INVARIANTS
  SingleFlight
  NoOrphan
PROPERTIES
  CallsReturn
  FollowersReturn
  ImplementsProgress
