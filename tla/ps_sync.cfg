SPECIFICATION Spec
CONSTANTS
  d1 = d1 d2 = d2 d3 = d3
  Devices <- Two
  MaxActs = 3
  MaxWrites = 2
  MaxTime = 2
  MaxVersions = 5
SYMMETRY SwapTwo
INVARIANTS
  TypeOK SettingsAgree WritesReachAll NothingForRevoked
CHECK_DEADLOCK FALSE
