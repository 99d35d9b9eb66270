SPECIFICATION FairSpec
CONSTANTS MaxCbs = 5
          MissBase = 1
          MissSlack = 1
          AbortCap = 2
          InCallback = 1
INVARIANTS QueueSound RunsInOrder
PROPERTY ReadyRuns
