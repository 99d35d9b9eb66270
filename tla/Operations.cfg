SPECIFICATION Spec
CONSTANTS
  Ops = {1, 2}
  MaxCx = 3
  Plans <- MCPlans
INVARIANTS MemoryExact CallsExact CountersExact
PROPERTIES KeepsPromise AllAnswered
