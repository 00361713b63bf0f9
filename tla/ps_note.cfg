SPECIFICATION Spec
CONSTANTS
  d1 = d1 d2 = d2 d3 = d3
  Devices <- Three
  MaxActs = 1
  MaxWrites = 1
  MaxTime = 0
  MaxVersions = 3
SYMMETRY SwapThree
INVARIANT NotesConverge
CHECK_DEADLOCK FALSE
