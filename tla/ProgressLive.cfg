SPECIFICATION FairSpec
CONSTANTS
  t1 = t1
  t2 = t2
  m = m
  x = x
  i1 = i1
  i2 = i2
  Nobody = Nobody
  Threads = {t1, t2}
  Shared = {}
  Items = {i1, i2}
  Home <- HomeNone
  MaxOps = 0
  ProgressCap = 2
  AfterCap = 1
  BurstMax = 1
  MaxScopes = 1
PROPERTY LpcsRun
