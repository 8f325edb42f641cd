\* Five calls, two permits, room for two in the queue, one retry.
SPECIFICATION GateSpec
CONSTANTS
  Callers = {c1, c2, c3, c4, c5}
  Concurrency = 2
  QueueDepth = 2
  MaxRetries = 1
  FailureThreshold = 2
INVARIANTS GateTypeOK SlotsAccounted CircuitCounts
PROPERTIES CallsEnd
CHECK_DEADLOCK FALSE
