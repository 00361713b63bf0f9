SPECIFICATION Spec
CONSTANTS
  c1 = c1 c2 = c2
  s1 = s1 s2 = s2 s3 = s3 s4 = s4
  None = None
  Callers <- Two
  Scanners <- FourScanners
SYMMETRY Swap
INVARIANTS
  TypeOK NoTwoWait KnownCircularWaits
CHECK_DEADLOCK FALSE
