SPECIFICATION FairSpec
CONSTANTS
  N = 2
  Window = 1
  MaxAttempts = 2
  MaxEdits = 1
  Faults <- OneByOne
INVARIANTS
  TypeOK DeliveredIntact VerifiedIsWritten ResumeSkipsOnlyWritten
PROPERTIES
  ImplementsDelivery HandlersEnd
CHECK_DEADLOCK FALSE
