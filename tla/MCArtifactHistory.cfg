CONSTANTS
  s1 = s1
  s2 = s2
  d1 = d1
  d2 = d2
  d3 = d3
  a1 = a1
  a2 = a2
  Sessions = {s1, s2}
  Deletes = {d1, d2, d3}
  Of <- MCOf
  Admins = {a1, a2}
  Days = {1}
  Default = 1
  MaxDay = 1
  MaxFaults = 2
  None = None
SPECIFICATION MCSpec
CHECK_DEADLOCK FALSE
INVARIANTS NothingOrphaned CaptureKept SettingsSurvive
PROPERTIES OldSessionsForgotten
