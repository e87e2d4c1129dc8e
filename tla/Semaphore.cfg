SPECIFICATION SFairSpec
CONSTANTS
  t1 = t1
  t2 = t2
  t3 = t3
  s1 = s1
  s2 = s2
  Threads <- MCThreads
  Semaphores <- MCSemaphores
  NUM_THREADS = 3
  MaxVal = 1
  MaxPrio = 2
  Idle = Idle
  ListHead = ListHead
  NULL = NULL
INVARIANTS
  KTypeOK
  RunQueueHoldsTheActive
  IteratorOnTheQueue
  OnlyActiveThreadsRun
  STypeOK
  ValueCountsWaiters
  BlockedMeansQueued
PROPERTIES
  TurnOrderKept
  RoundRobinWithoutWakeups
  ImplementsAbstractSemaphore
  ImplementsKernel
  WokenWaiterReturns
