CONSTANTS
  s1 = s1
  s2 = s2
  c1 = c1
  c2 = c2
  Sessions = {s1, s2}
  Clients = {c1, c2}
  About <- BothSame
  Limit = 2
  RetryCount = 2
  LoopbackAllowed = TRUE
  PlaywrightImages = TRUE
SPECIFICATION Spec
CHECK_DEADLOCK FALSE
INVARIANTS NoStrayContainer SlotsBalanced ShutdownSweeps
PROPERTIES AdmittedSettles TimedOutSessionCloses DeleteStops
