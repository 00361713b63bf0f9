SPECIFICATION Spec
CONSTANTS
  d1 = d1 d2 = d2
  None = None
  Devices <- Two
  Conns <- Three
  Buffer = 1
  QueueCap = 1
  MaxSignals = 2
  Revocable <- OneOfThem
  Pairings <- OneWay
INVARIANTS
  TypeOK Routed PanicHasCause
PROPERTIES
  ImplementsNetwork
CHECK_DEADLOCK FALSE
