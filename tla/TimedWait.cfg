SPECIFICATION TFairSpec
CONSTANTS
  t1 = t1
  t2 = t2
  t3 = t3
  s1 = s1
  m1 = m1
  Threads <- MCThreads
  Patient <- MCPatient
  Semaphores <- MCSemaphores
  Mutexes <- MCMutexes
  NUM_THREADS = 16
  WordSize = 6
  MaxTicks = 2
  MaxVal = 1
  MaxPrio = 1
  Idle = Idle
  ListHead = ListHead
  NULL = NULL
INVARIANTS
  TTypeOK
  MutualExclusion
  DeadlineKept
  NoPhantomWaiter
PROPERTIES
  ImplementsTimedSemaphore
  TimeLimitsEnd
