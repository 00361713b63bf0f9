SPECIFICATION Spec
CONSTANTS
  N = 2
  Window = 1
  MaxAttempts = 2
  MaxEdits = 0
  Faults <- Overlapping
INVARIANTS
  CompleteMeansDelivered RowsAreSettled FlowControl StreamsInStep
CHECK_DEADLOCK FALSE
