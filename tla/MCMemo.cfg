\* Three keys for a cache of two: hits, expiry and eviction, with a leader and
\* a follower or two leaders at work.
CONSTANTS
  Callers = {c1, c2}
  Keys = {k1, k2, k3}
  Flights = {f1, f2}
  Elements = {e1, e2, e3}
  Capacity = 2
  None = None
SYMMETRY Symmetry
SPECIFICATION Spec
INVARIANTS
  TypeOK
  IndexMatchesList
  StoredNotRunning
  RightAnswer
PROPERTIES
  ImplementsLRU
