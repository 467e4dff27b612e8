CONSTANTS
  Callers = {c1, c2}
  Images <- MCImages
  Flagged <- MCFlagged
  Present <- MCPresent
  Playwright <- MCPlaywright
  MaxRequests = 3
  MaxChanges = 1
  MaxFaults = 1
  None = None
SPECIFICATION Spec
CHECK_DEADLOCK FALSE
INVARIANTS AnswersStayTrue
PROPERTIES RequestsReturn
