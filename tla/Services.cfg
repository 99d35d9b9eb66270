SPECIFICATION ServicesSpec
CONSTANTS
  SerMessages <- MCSerMessages
  InitialCapacity = 512
  SegBase = 2048
  SegSize = 16384
  SegRequests <- MCSegRequests
  SegLive = 3
  HeapBase = 4096
  HeapSize = 256
  SizeMax = 16383
  HeapTypes <- MCHeapTypes
  HeapCounts = {0, 2, 681, 2048, 4094}
  HeapBuilt = {0, 1}
  HeapLive = 2
  CutoverMin = 256
  MediumMax = 1024
  TinySize = 512
  FooterSize = 24
  LocalDefault = 900
  JobHeapSize = 8000
  ScratchSize = 500
  FinalizeRounds = 2
  Jobs <- MCJobs
  GpRanks = {0, 1, 2}
  GpPeers <- MCGpPeers
  GpView <- MCGpView
  GpDevices <- MCGpDevices
  GpSize = 16
  GpHalf = 16
  GpElement = 4
  GpAddresses <- MCGpAddresses
  GpSteps = 4
  DvRanks = {0, 1}
  DvPersonas = {p1, p2}
  DvNative = {"cuda"}
  DvReference = {"hip"}
  MaxNative = 3
  MaxReference = 2
  DvPrograms <- MCDvPrograms
  DvCopying = {0}
  DvReportMax = 4
  DvRankMax = 1
  DvCopyMax = 1
  CcsRanks = {0, 1}
  CcsThreads = {"main", "other"}
  CcsImages <- MCCcsImages
  CcsBase <- MCCcsBase
  CcsSentinel <- MCCcsSentinel
  CcsJobs <- MCCcsJobs
  CacheSize = 2
  MaxSegments = 8
  OffsetLimit = 16
  IdxLimit = 16
INVARIANTS
  WireFormatExact
  SegmentExact
  HeapExact
  MessagesExact
  LifeCycleExact
  PointersExact
  DevicesExact
  FunctionsExact
PROPERTY
  JobsEnd
CHECK_DEADLOCK FALSE
