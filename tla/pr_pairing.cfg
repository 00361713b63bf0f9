SPECIFICATION Spec
CONSTANTS
  d1 = d1 d2 = d2 d3 = d3 c1 = c1 c2 = c2
  None = None
  Devices <- ThreeDevices
  Connections <- TwoConnections
  Topologies <- TwoDials
  MaxChanges = 1
INVARIANTS
  TypeOK HeardWasSaid SameOutcome CanBeAnswered
PROPERTIES
  PairedByBoth
CHECK_DEADLOCK FALSE
