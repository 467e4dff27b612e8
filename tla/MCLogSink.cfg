CONSTANTS
  Writers = {client, upstream}
  Readers = {r1, r2}
  MaxLines = 3
  NoFile = NoFile
SPECIFICATION SinkSpec
CHECK_DEADLOCK FALSE
INVARIANTS DoneMeansAll
PROPERTIES ReadersReturn
