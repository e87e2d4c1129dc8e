SPECIFICATION AnySpec
CONSTANTS
  t1 = t1
  t2 = t2
  t3 = t3
  Threads <- MCThreads
  NUM_THREADS = 4
  WordSize = 8
  MaxTicks = 2
  MaxPrio = 2
  Idle = Idle
  ListHead = ListHead
  NULL = NULL
INVARIANTS
  IteratorValid
