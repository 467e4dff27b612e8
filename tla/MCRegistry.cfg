CONSTANTS
  Names = {1, 2}
  PageSize = 1
  MaxPages = 3
  Concurrency = 1
  MaxMoves = 3
  NoLink = NoLink
SPECIFICATION RegistrySpec
CHECK_DEADLOCK FALSE
INVARIANTS WholeOrError
PROPERTIES RequestsEnd
