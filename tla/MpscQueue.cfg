SPECIFICATION FairSpec
CONSTANTS
  Entries = {e1, e2, e3, e4}
  Producers = {t1, t2}
  Budgets = {1, 2, 3}
  HeadCell = head_
  Null = null
INVARIANTS QueueInv NoUseAfterFree
PROPERTIES ImplementsFifo EveryEntryRuns
