CONSTANTS
  Timeout = 2
  Users = {u1, u2}
SPECIFICATION Spec
PROPERTIES ImplementsOneShot ExpiryOnlyWhenIdle IdleSessionEnds
