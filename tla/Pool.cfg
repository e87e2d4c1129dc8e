SPECIFICATION LCSpec
CONSTANTS
  t1 = t1
  t2 = t2
  t3 = t3
  Threads <- MCThreads
  Pool <- MCPool
  NUM_THREADS = 3
  MaxPrio = 2
  Idle = Idle
  ListHead = ListHead
  NULL = NULL
INVARIANTS
  AllocReturnsABlock
