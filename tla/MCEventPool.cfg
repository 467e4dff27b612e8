CONSTANTS
  Sessions = {s1, s2}
  Logged = {s1}
  Workers = {w1}
  BufSize = 1
  None = None
SPECIFICATION PoolSpec
CHECK_DEADLOCK FALSE
INVARIANTS EachJobOnce DrainedMeansRun
PROPERTIES EventsHandled
