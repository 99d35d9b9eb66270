SPECIFICATION Spec
CONSTANTS
  MaxHeaders = 5
  MaxRoots = 2
  MaxCountdown = 2
  MaxArgs = 2
  Sizes <- MCSizes
INVARIANTS GraphExact ProxiesFlat ValuesDelivered
CHECK_DEADLOCK FALSE
