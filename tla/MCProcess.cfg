SPECIFICATION Spec
CONSTANTS
  Installers = {i1, i2}
  Requests = {r1}
  Limits = {2, 10}
INVARIANTS
  OpenOnlyWithToken
  TokenAgrees
  DrainInTime
