SPECIFICATION Spec
CONSTANTS
  Ops = {1}
  MaxCx = 3
  Plans <- MCPlansStaged
INVARIANT OneCallEach
