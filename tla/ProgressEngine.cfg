SPECIFICATION Spec
CONSTANTS
  t1 = t1
  t2 = t2
  m = m
  x = x
  i1 = i1
  i2 = i2
  Nobody = Nobody
  Threads = {t1, t2}
  Shared = {m}
  Items = {i1}
  Home <- HomeShared
  MaxOps = 1
  ProgressCap = 2
  AfterCap = 1
  BurstMax = 1
  MaxScopes = 2
SYMMETRY Symmetry
INVARIANTS ScopesConsistent UserCallbacksNeverNest LpcsExact PromisesExact
