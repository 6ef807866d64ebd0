CONSTANTS
  Requests = {r1, r2}
  Routes = {"panchang"}
  PanchangKeys = {p1}
  FestivalKeys = {}
  Months = 1
  MaxInflight = 2
  Flights = {f1, f2}
  Elements = {e1}
  Capacity = 1
  None = None
SPECIFICATION Spec
PROPERTIES
  SharedTimeoutIsDeadline
