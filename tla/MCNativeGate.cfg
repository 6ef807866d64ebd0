\* Two callers, two directories, three threads, the library's variables
\* thread-local.  Without symmetry, for liveness.
CONSTANTS
  Callers = {c1, c2}
  Paths = {p1, p2}
  Threads = {t1, t2, t3}
  ThreadLocal = TRUE
  None = None
SPECIFICATION FairSpec
INVARIANTS
  OneSession
  OwnConfiguration
  NothingLeft
PROPERTIES
  CallsReturn
  ImplementsSessionGate
