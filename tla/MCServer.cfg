\* Three requests for one key and the readiness probe, two slots: leader,
\* follower or hit, and overload.
CONSTANTS
  Requests = {r1, r2, r3}
  Routes = {"panchang", "ready"}
  PanchangKeys = {p1}
  FestivalKeys = {}
  Months = 1
  MaxInflight = 2
  Flights = {f1, f2}
  Elements = {e1}
  Capacity = 1
  None = None
SYMMETRY Symmetry
SPECIFICATION Spec
INVARIANTS
  SlotsAccounted
  CountedOnce
  IdleHoldsNothing
