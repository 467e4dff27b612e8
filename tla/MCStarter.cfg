CONSTANTS
  Services = {s1, s2}
  PortsPublished = TRUE
  MaxProbes = 2
SPECIFICATION StarterSpec
CHECK_DEADLOCK FALSE
INVARIANTS NothingLeft
PROPERTIES VideoStopsFirst EndsClean
