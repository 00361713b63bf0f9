SPECIFICATION Spec
CONSTANTS
  d1 = d1 d2 = d2
  None = None
  Devices <- Two
  MaxAttempts = 2
  MaxChanges = 1
SYMMETRY Swap
INVARIANTS
  TypeOK PairedByBoth AnswerIsHeard SessionsMatch
CHECK_DEADLOCK FALSE
