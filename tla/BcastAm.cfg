SPECIFICATION AmSpec
CONSTANTS
  N = 6
  Root = 4
  Node <- TwoNodes
  Split <- Rdzv
INVARIANT BroadcastMemory
PROPERTIES Broadcasts EveryoneRuns
