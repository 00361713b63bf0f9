SPECIFICATION FairSpec
CONSTANTS
  i1 = i1 i2 = i2 i3 = i3
  o1 = o1 t1 = t1
  None = None
  Transfers <- One
  Incoming <- ThreeIn
  Outgoing <- OneOut
  Silent <- OneIn
  Workers = 2
  KeepAwake = TRUE
INVARIANTS
  TypeOK CountIsExact AwakeWhileTransferring SendsNeverBlock CanBeCancelled CancelAnswers
PROPERTIES
  EveryStreamServed
CHECK_DEADLOCK FALSE
