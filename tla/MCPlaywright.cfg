CONSTANTS
  Requests = {p1, p2}
  ExternalIds = {x}
  Clients = {c1}
  Limit = 2
  None = None
SPECIFICATION Spec
CHECK_DEADLOCK FALSE
INVARIANTS SlotsBalanced DeletedMeansGone
PROPERTIES EndingsFinish
