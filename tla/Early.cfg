SPECIFICATION LSpec
CONSTANTS
  t1 = t1
  t2 = t2
  t3 = t3
  Threads <- MCThreads
  NUM_THREADS = 16
  WordSize = 65536
  MaxTicks = 3
  MaxPrio = 1
  Idle = Idle
  ListHead = ListHead
  NULL = NULL
INVARIANTS
  NeverEarly
