SPECIFICATION Spec
CONSTANTS
  d1 = d1 d2 = d2
  None = None
  Devices <- Two
  MaxAttempts = 1
  MaxChanges = 0
INVARIANTS
  SlotIsReleased
CHECK_DEADLOCK FALSE
