SPECIFICATION CcsSpec
CONSTANTS
  CcsRanks = {0, 1}
  CcsThreads = {"main", "other"}
  CcsImages <- MCCcsImages
  CcsBase <- MCCcsBase
  CcsSentinel <- MCCcsSentinel
  CcsJobs <- MCCcsTwin
  CacheSize = 2
  MaxSegments = 8
  OffsetLimit = 16
  IdxLimit = 16
INVARIANT IndicesAgree
CHECK_DEADLOCK FALSE
