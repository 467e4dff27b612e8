CONSTANTS
  Requests = {r1, r2, r3}
  Limit = 1
SPECIFICATION Spec
INVARIANTS SlotConservation CountersWithinLimit
PROPERTIES ImplementsSlots WaitersServed
