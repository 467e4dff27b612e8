CONSTANTS
  Services = {hub, ui}
  Self = hub
  Callers = {c1, c2}
  MaxTag = 2
  MaxRequests = 2
  MaxFaults = 1
  None = None
  Broken = Broken
  Images <- MCImages
SPECIFICATION MCSpec
CHECK_DEADLOCK FALSE
INVARIANTS PinsMatchRunning
PROPERTIES NoDowngrade UpdateLands
