CONSTANTS
  t1 = t1
  t2 = t2
  a = a
  b = b
  Tokens = {t1, t2}
  Owner <- MCOwner
  Cookies = {c1}
  Users = {a, b}
  Requests = {r1}
  Seed = t1
  None = None
SPECIFICATION Spec
CHECK_DEADLOCK FALSE
INVARIANTS WithdrawnStaysOut IssuedSurvives AnswersMatchFile
PROPERTIES ExpiredForgotten
