SPECIFICATION MFairSpec
CONSTANTS
  t1 = t1
  t2 = t2
  t3 = t3
  m1 = m1
  m2 = m2
  Threads <- MCThreads
  Mutexes <- MCMutexes
  NUM_THREADS = 3
  MaxPrio = 3
  Idle = Idle
  ListHead = ListHead
  NULL = NULL
INVARIANTS
  MTypeOK
  MutualExclusion
  BlockedMeansQueued
  Inherited
  GivenBack
  FullSlices
PROPERTIES
  ImplementsAbstractSemaphore
  LockersReturn
