SPECIFICATION Spec
CONSTANTS
  PMTU_WORDS = 2
  Depth = 1
  PSNS = 16
  FirstPsn = 13
  Plans <- AllPlans
  Faults = 1
CHECK_DEADLOCK FALSE
INVARIANT MemoryExact
INVARIANT AcknowledgedAccepted
PROPERTY RequestsSettle
