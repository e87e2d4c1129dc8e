--------------------------- MODULE SemaphoreProofs ---------------------------
(***************************************************************************)
(* Theorems about Semaphore, for every set of threads and semaphores and   *)
(* every capacity of the wait queues that has room for all threads.        *)
(***************************************************************************)
EXTENDS Semaphore, DataProofs

LEMMA SemaphoreConstants == MaxVal \in Nat /\ NULL \notin Semaphores
BY SemaphoreAssumption

LEMMA WaitRoom == NUM_THREADS \in Nat /\ Cardinality(Threads) <= NUM_THREADS
BY SemaphoreAssumption

-----------------------------------------------------------------------------
(* The kernel's side of the calls.                                         *)

LEMMA WaitKernel ==
  ASSUME KInv, NEW t \in Threads, CanRun(t), NEW s
  PROVE  sem_wait(os, s, t).k = IF s.val - 1 < 0 THEN os_task_block(os, t) ELSE os
BY CallerFacts, BlockSection, EmptySection DEF sem_wait

LEMMA TrywaitKernel ==
  ASSUME KInv, NEW t \in Threads, CanRun(t), NEW s
  PROVE  sem_trywait(os, s).k = os
BY CallerFacts, EmptySection DEF sem_trywait

LEMMA PostKernel ==
  ASSUME KInv, NEW t \in Threads, CanRun(t), NEW s,
         s.val + 1 <= 0 => Head(s.wq) \in Threads /\ os.state[Head(s.wq)] # "ACTIVE"
  PROVE  sem_post(os, s).k =
           IF s.val + 1 <= 0 THEN os_task_unpause(os, Head(s.wq)) ELSE os
<1>1. CASE s.val + 1 <= 0
  <2>1. ~Linked(os.run_queue, Head(s.wq))
    BY <1>1 DEF KInv, KernelInv, RunQueueOK
  <2>2. end_critical(os_task_unpause(start_critical(os), Head(s.wq)))
          = os_task_unpause(os, Head(s.wq))
    BY <1>1, <2>1, CallerFacts, UnpauseSection
  <2>3. QED BY <1>1, <2>2 DEF sem_post, queue_wait_pop
<1>2. CASE ~(s.val + 1 <= 0)
  BY <1>2, CallerFacts, EmptySection DEF sem_post, queue_wait_pop
<1>3. QED BY <1>1, <1>2

-----------------------------------------------------------------------------
(* One semaphore.                                                          *)

SemOK(x) ==
  /\ x \in [val : Int, wq : Seq(Threads)]
  /\ x.val <= MaxVal
  /\ Len(x.wq) = IF x.val < 0 THEN -x.val ELSE 0
  /\ Distinct(x.wq)

LEMMA SemsOK ==
  STypeOK /\ ValueCountsWaiters <=>
    /\ sem \in [Semaphores -> [val : Int, wq : Seq(Threads)]]
    /\ \A s \in Semaphores : SemOK(sem[s])
    /\ waiting \in [Threads -> Semaphores \cup {NULL}]
BY DEF STypeOK, ValueCountsWaiters, SemOK, Distinct

\* What sem_wait of thread t makes of the semaphore x.
WaitOutcome(x, t, y) ==
  /\ SemOK(y)
  /\ y.val = x.val - 1
  /\ x.val - 1 < 0 =>
       /\ y.wq = Append(x.wq, t)
       /\ \A u : Waits(u, y.wq) <=> Waits(u, x.wq) \/ u = t
  /\ ~(x.val - 1 < 0) => y.wq = x.wq /\ x.wq = <<>>

LEMMA WaitSem ==
  ASSUME NEW k, NEW x, SemOK(x), NEW t \in Threads, ~Waits(t, x.wq)
  PROVE  WaitOutcome(x, t, sem_wait(k, x, t).s)
<1> DEFINE y == sem_wait(k, x, t).s
<1>1. /\ x.val \in Int /\ x.wq \in Seq(Threads) /\ Distinct(x.wq)
      /\ x.val <= MaxVal /\ MaxVal \in Int /\ MaxVal >= 0
      /\ Len(x.wq) = IF x.val < 0 THEN -x.val ELSE 0
  BY SemaphoreConstants DEF SemOK
<1>2. CASE x.val - 1 < 0
  <2>1. y = [val |-> x.val - 1, wq |-> queue_wait_push(x.wq, t)]
    BY <1>2 DEF sem_wait
  <2> HIDE DEF y
  <2>2. /\ y.wq = Append(x.wq, t) /\ y.wq \in Seq(Threads)
        /\ Len(y.wq) = Len(x.wq) + 1 /\ Distinct(y.wq)
        /\ \A u : Waits(u, y.wq) <=> Waits(u, x.wq) \/ u = t
    BY <1>1, <2>1, PushElements, WaitRoom
  <2>3. y \in [val : Int, wq : Seq(Threads)] /\ y.val = x.val - 1
    BY <1>1, <2>1, <2>2
  <2>4. SemOK(y)
    BY <1>1, <1>2, <2>2, <2>3 DEF SemOK
  <2>5. QED BY <1>1, <1>2, <2>2, <2>3, <2>4 DEF WaitOutcome, y
<1>3. CASE ~(x.val - 1 < 0)
  <2>1. y = [x EXCEPT !.val = x.val - 1]
    BY <1>3 DEF sem_wait
  <2> HIDE DEF y
  <2>2. /\ y \in [val : Int, wq : Seq(Threads)] /\ y.val = x.val - 1
        /\ y.wq = x.wq
    BY <1>1, <2>1 DEF SemOK
  <2>3. x.wq = <<>>
    BY <1>1, <1>3, EmptySeq
  <2>4. SemOK(y)
    BY <1>1, <1>3, <2>2 DEF SemOK
  <2>5. QED BY <1>1, <1>3, <2>2, <2>3, <2>4 DEF WaitOutcome, y
<1>4. QED BY <1>2, <1>3

TrywaitOutcome(x, y) ==
  /\ SemOK(y)
  /\ y.wq = x.wq
  /\ y = x \/ (x.val > 0 /\ y.val = x.val - 1)

LEMMA TrywaitSem ==
  ASSUME NEW k, NEW x, SemOK(x)
  PROVE  TrywaitOutcome(x, sem_trywait(k, x).s)
<1> DEFINE y == sem_trywait(k, x).s
<1>1. /\ x \in [val : Int, wq : Seq(Threads)] /\ Distinct(x.wq)
      /\ x.val <= MaxVal /\ MaxVal \in Int
      /\ Len(x.wq) = IF x.val < 0 THEN -x.val ELSE 0
  BY SemaphoreConstants DEF SemOK
<1>2. CASE x.val > 0
  <2>1. y = [x EXCEPT !.val = x.val - 1]
    BY <1>2 DEF sem_trywait
  <2> HIDE DEF y
  <2>2. /\ y \in [val : Int, wq : Seq(Threads)] /\ y.val = x.val - 1
        /\ y.wq = x.wq
    BY <1>1, <2>1
  <2>3. SemOK(y)
    BY <1>1, <1>2, <2>2 DEF SemOK
  <2>4. QED BY <1>2, <2>2, <2>3 DEF TrywaitOutcome, y
<1>3. CASE ~(x.val > 0)
  BY <1>3 DEF sem_trywait, TrywaitOutcome
<1>4. QED BY <1>2, <1>3

PostOutcome(x, y) ==
  /\ SemOK(y)
  /\ y.val = x.val + 1
  /\ x.val + 1 <= 0 =>
       /\ x.wq # <<>>
       /\ Head(x.wq) \in Threads /\ Waits(Head(x.wq), x.wq)
       /\ y.wq = Tail(x.wq)
       /\ \A u : Waits(u, y.wq) <=> Waits(u, x.wq) /\ u # Head(x.wq)
  /\ ~(x.val + 1 <= 0) => y.wq = x.wq /\ x.wq = <<>>

LEMMA PostSem ==
  ASSUME NEW k, NEW x, SemOK(x), x.val < MaxVal
  PROVE  PostOutcome(x, sem_post(k, x).s)
<1> DEFINE y == sem_post(k, x).s
<1>1. /\ x.val \in Int /\ x.wq \in Seq(Threads) /\ Distinct(x.wq)
      /\ x.val <= MaxVal /\ MaxVal \in Int
      /\ Len(x.wq) = IF x.val < 0 THEN -x.val ELSE 0
  BY SemaphoreConstants DEF SemOK
<1>2. CASE x.val + 1 <= 0
  <2>1. y = [val |-> x.val + 1, wq |-> Tail(x.wq)]
    BY <1>2 DEF sem_post, queue_wait_pop
  <2> HIDE DEF y
  <2>2. Len(x.wq) # 0
    BY <1>1, <1>2
  <2>3. /\ Head(x.wq) \in Threads /\ Waits(Head(x.wq), x.wq)
        /\ y.wq = Tail(x.wq) /\ y.wq \in Seq(Threads)
        /\ Len(y.wq) = Len(x.wq) - 1 /\ Distinct(y.wq)
        /\ \A u : Waits(u, y.wq) <=> Waits(u, x.wq) /\ u # Head(x.wq)
    BY <1>1, <2>1, <2>2, PopElements
  <2>4. y \in [val : Int, wq : Seq(Threads)] /\ y.val = x.val + 1
    BY <1>1, <2>1, <2>3
  <2>5. SemOK(y)
    BY <1>1, <1>2, <2>3, <2>4, SemaphoreConstants DEF SemOK
  <2>6. QED BY <1>2, <2>2, <2>3, <2>4, <2>5 DEF PostOutcome, y
<1>3. CASE ~(x.val + 1 <= 0)
  <2>1. y = [x EXCEPT !.val = x.val + 1]
    BY <1>3 DEF sem_post, queue_wait_pop
  <2> HIDE DEF y
  <2>2. /\ y \in [val : Int, wq : Seq(Threads)] /\ y.val = x.val + 1
        /\ y.wq = x.wq
    BY <1>1, <2>1 DEF SemOK
  <2>3. x.wq = <<>>
    BY <1>1, <1>3, EmptySeq
  <2>4. SemOK(y)
    BY <1>1, <1>3, <2>2 DEF SemOK
  <2>5. QED BY <1>3, <2>2, <2>3, <2>4 DEF PostOutcome, y
<1>4. QED BY <1>2, <1>3

-----------------------------------------------------------------------------
(* Every step keeps the invariant and is a step of the kernel.             *)

\* What SInv says of one thread that is on the core in its own code.
LEMMA UserFacts ==
  ASSUME SInv, NEW t \in Threads, InUserCode(t)
  PROVE  /\ KInv
         /\ CanRun(t)
         /\ os.run_ptr = t
         /\ os.state[t] = "ACTIVE"
         /\ waiting[t] = NULL
         /\ \A s \in Semaphores : SemOK(sem[s]) /\ ~Waits(t, sem[s].wq)
<1>1. KInv /\ CanRun(t) /\ waiting[t] = NULL
  BY DEF SInv, InUserCode
<1>2. os.run_ptr = t /\ os.state[t] = "ACTIVE"
  BY <1>1, CallerFacts
<1>3. \A s \in Semaphores : SemOK(sem[s])
  BY SemsOK DEF SInv
<1>4. \A s \in Semaphores : ~Waits(t, sem[s].wq)
  BY <1>2 DEF SInv, BlockedMeansQueued, Queued, Waits
<1>5. QED BY <1>1, <1>2, <1>3, <1>4

\* The semaphores' part of the invariant after a step that leaves y in s.
LEMMA SemsAfter ==
  ASSUME SInv, NEW s \in Semaphores, NEW y, SemOK(y),
         sem' = [sem EXCEPT ![s] = y],
         waiting' \in [Threads -> Semaphores \cup {NULL}]
  PROVE  STypeOK' /\ ValueCountsWaiters'
<1>1. sem \in [Semaphores -> [val : Int, wq : Seq(Threads)]]
  BY DEF SInv, STypeOK
<1>2. \A r \in Semaphores : SemOK(sem[r])
  BY SemsOK DEF SInv
<1>3. sem' \in [Semaphores -> [val : Int, wq : Seq(Threads)]]
  BY <1>1 DEF SemOK
<1>4. \A r \in Semaphores : SemOK(sem'[r])
  BY <1>1, <1>2
<1>5. STypeOK'
  BY <1>3, <1>4 DEF STypeOK, SemOK
<1>6. ValueCountsWaiters'
  BY <1>4 DEF ValueCountsWaiters, SemOK, Distinct
<1>7. QED BY <1>5, <1>6

LEMMA SemWaitStep ==
  ASSUME SInv, NEW t \in Threads, NEW s \in Semaphores, SemWait(t, s)
  PROVE  SInv' /\ [KNext]_kvars
<1> DEFINE x == sem[s]
           y == sem_wait(os, x, t).s
<1>1. /\ KInv /\ CanRun(t) /\ os.run_ptr = t /\ os.state[t] = "ACTIVE"
      /\ SemOK(x) /\ ~Waits(t, x.wq)
      /\ \A r \in Semaphores : ~Waits(t, sem[r].wq)
  BY UserFacts DEF SemWait
<1>2. /\ sem' = [sem EXCEPT ![s] = y]
      /\ waiting' = IF y.val < 0 THEN [waiting EXCEPT ![t] = s] ELSE waiting
      /\ os' = sem_wait(os, x, t).k
  BY DEF SemWait
<1>3. /\ SemOK(y)
      /\ y.val = x.val - 1
      /\ x.val - 1 < 0 => \A u : Waits(u, y.wq) <=> Waits(u, x.wq) \/ u = t
      /\ ~(x.val - 1 < 0) => y.wq = x.wq
  <2>1. WaitOutcome(x, t, y)
    BY <1>1, WaitSem, Zenon
  <2>2. QED BY <2>1 DEF WaitOutcome
<1>4. os' = IF x.val - 1 < 0 THEN os_task_block(os, t) ELSE os
  BY <1>1, <1>2, WaitKernel
<1> HIDE DEF y
<1>5. /\ sem \in [Semaphores -> [val : Int, wq : Seq(Threads)]]
      /\ waiting \in [Threads -> Semaphores \cup {NULL}]
      /\ os.state \in [Tasks -> ThreadStates]
  <2>1. os \in Kernels
    BY DEF SInv, KInv, KernelInv
  <2>2. os.state \in [Tasks -> ThreadStates]
    BY <2>1, KernelTypes, Zenon
  <2>3. QED BY <2>2 DEF SInv, STypeOK
<1>6. STypeOK' /\ ValueCountsWaiters'
  BY <1>2, <1>3, <1>5, SemsAfter
<1>7. /\ sem'[s] = y
      /\ \A r \in Semaphores \ {s} : sem'[r] = sem[r]
  BY <1>2, <1>5
<1>8. CASE x.val - 1 < 0
  <2>1. os' = os_task_block(os, t) /\ TaskBlock(t)
    BY <1>1, <1>4, <1>8 DEF TaskBlock
  <2>2. KInv' /\ os'.state = [os.state EXCEPT ![t] = "BLOCKING"]
    BY <1>1, <2>1, RunnerActive, BlockInv DEF KInv, Preemptible
  <2>3. waiting' = [waiting EXCEPT ![t] = s]
    BY <1>2, <1>3, <1>8
  <2>4. ASSUME NEW u \in Threads, u # t
        PROVE  /\ os'.state[u] = os.state[u]
               /\ waiting'[u] = waiting[u]
               /\ \A r \in Semaphores : Waits(u, sem'[r].wq) <=> Waits(u, sem[r].wq)
    BY <1>3, <1>5, <1>7, <1>8, <2>2, <2>3, <2>4 DEF Tasks
  <2>5. /\ os'.state[t] = "BLOCKING"
        /\ waiting'[t] = s
        /\ \A r \in Semaphores : Waits(t, sem'[r].wq) <=> r = s
    BY <1>1, <1>3, <1>5, <1>7, <1>8, <2>2, <2>3 DEF Tasks
  <2>6. BlockedMeansQueued'
    <3>1. ASSUME NEW u \in Threads
          PROVE /\ os'.state[u] \in {"ACTIVE", "BLOCKING"}
                /\ os'.state[u] = "BLOCKING" <=> \E r \in Semaphores : Waits(u, sem'[r].wq)
                /\ \A r \in Semaphores : Waits(u, sem'[r].wq) => waiting'[u] = r
      <4>1. CASE u = t
        BY <4>1, <2>5
      <4>2. CASE u # t
        <5>1. /\ os.state[u] \in {"ACTIVE", "BLOCKING"}
              /\ os.state[u] = "BLOCKING" <=> \E r \in Semaphores : Waits(u, sem[r].wq)
              /\ \A r \in Semaphores : Waits(u, sem[r].wq) => waiting[u] = r
          BY DEF SInv, BlockedMeansQueued, Queued, Waits
        <5>2. QED BY <4>2, <5>1, <2>4
      <4>3. QED BY <4>1, <4>2
    <3>2. QED BY <3>1 DEF BlockedMeansQueued, Queued, Waits
  <2>7. QED BY <1>6, <2>1, <2>2, <2>6 DEF SInv, KNext
<1>9. CASE ~(x.val - 1 < 0)
  <2>1. os' = os /\ waiting' = waiting
    BY <1>2, <1>3, <1>4, <1>9
  <2>2. \A r \in Semaphores : sem'[r].wq = sem[r].wq
    BY <1>3, <1>7, <1>9
  <2>3. BlockedMeansQueued'
    BY <2>1, <2>2 DEF SInv, BlockedMeansQueued, Queued
  <2>4. KInv'
    BY <1>1, <2>1 DEF KInv
  <2>5. QED BY <1>6, <2>1, <2>3, <2>4 DEF SInv, kvars
<1>10. QED BY <1>8, <1>9

LEMMA SemTrywaitStep ==
  ASSUME SInv, NEW t \in Threads, NEW s \in Semaphores, SemTrywait(t, s)
  PROVE  SInv' /\ os' = os
<1> DEFINE x == sem[s]
           y == sem_trywait(os, x).s
<1>1. KInv /\ CanRun(t) /\ SemOK(x)
  BY UserFacts DEF SemTrywait
<1>2. TrywaitOutcome(x, y)
  BY <1>1, TrywaitSem, Zenon
<1>3. sem' = [sem EXCEPT ![s] = y] /\ waiting' = waiting /\ os' = os
  BY <1>1, TrywaitKernel DEF SemTrywait
<1> HIDE DEF y
<1>4. /\ sem \in [Semaphores -> [val : Int, wq : Seq(Threads)]]
      /\ waiting \in [Threads -> Semaphores \cup {NULL}]
  BY DEF SInv, STypeOK
<1>5. STypeOK' /\ ValueCountsWaiters'
  BY <1>2, <1>3, <1>4, SemsAfter DEF TrywaitOutcome
<1>6. \A r \in Semaphores : sem'[r].wq = sem[r].wq
  BY <1>2, <1>3, <1>4 DEF TrywaitOutcome
<1>7. BlockedMeansQueued'
  BY <1>3, <1>6 DEF SInv, BlockedMeansQueued, Queued
<1>8. QED BY <1>1, <1>3, <1>5, <1>7 DEF SInv, KInv

LEMMA SemPostStep ==
  ASSUME SInv, NEW t \in Threads, NEW s \in Semaphores, SemPost(t, s)
  PROVE  SInv' /\ [KNext]_kvars
<1> DEFINE x == sem[s]
           y == sem_post(os, x).s
           h == Head(x.wq)
<1>1. /\ KInv /\ CanRun(t) /\ os.run_ptr = t /\ os.state[t] = "ACTIVE"
      /\ SemOK(x) /\ x.val < MaxVal
  BY UserFacts DEF SemPost
<1>2. PostOutcome(x, y)
  BY <1>1, PostSem, Zenon
<1>3. /\ sem' = [sem EXCEPT ![s] = y]
      /\ waiting' = waiting
      /\ os' = sem_post(os, x).k
  BY DEF SemPost
<1> HIDE DEF y
<1>4. /\ sem \in [Semaphores -> [val : Int, wq : Seq(Threads)]]
      /\ waiting \in [Threads -> Semaphores \cup {NULL}]
      /\ os.state \in [Tasks -> ThreadStates]
  <2>1. os \in Kernels
    BY DEF SInv, KInv, KernelInv
  <2>2. os.state \in [Tasks -> ThreadStates]
    BY <2>1, KernelTypes, Zenon
  <2>3. QED BY <2>2 DEF SInv, STypeOK
<1>5. STypeOK' /\ ValueCountsWaiters'
  BY <1>2, <1>3, <1>4, SemsAfter DEF PostOutcome
<1>6. sem'[s] = y /\ \A r \in Semaphores \ {s} : sem'[r] = sem[r]
  BY <1>3, <1>4
<1>7. \A u \in Threads :
        /\ os.state[u] \in {"ACTIVE", "BLOCKING"}
        /\ os.state[u] = "BLOCKING" <=> \E r \in Semaphores : Waits(u, sem[r].wq)
        /\ \A r \in Semaphores : Waits(u, sem[r].wq) => waiting[u] = r
  BY DEF SInv, BlockedMeansQueued, Queued, Waits
<1>8. CASE x.val + 1 <= 0
  <2>1. /\ h \in Threads /\ Waits(h, x.wq)
        /\ \A u : Waits(u, y.wq) <=> Waits(u, x.wq) /\ u # h
    BY <1>2, <1>8 DEF PostOutcome
  <2> HIDE DEF h
  <2>2. os.state[h] = "BLOCKING"
    BY <1>7, <2>1
  <2>3. os' = os_task_unpause(os, h)
    BY <1>1, <1>3, <1>8, <2>1, <2>2, PostKernel DEF h
  <2>4. TaskUnpause(t, h)
    BY <1>1, <2>2, <2>3 DEF TaskUnpause
  <2>5. KInv' /\ os'.state = [os.state EXCEPT ![h] = "ACTIVE"]
    BY <1>1, <2>1, <2>2, <2>3, RunnerActive, UnpauseInv DEF KInv, Preemptible
  <2>6. \A r \in Semaphores : ~Waits(h, sem'[r].wq)
    BY <1>6, <1>7, <2>1
  <2>7. ASSUME NEW u \in Threads, u # h
        PROVE  /\ os'.state[u] = os.state[u]
               /\ \A r \in Semaphores : Waits(u, sem'[r].wq) <=> Waits(u, sem[r].wq)
    BY <1>4, <1>6, <2>1, <2>5, <2>7 DEF Tasks
  <2>8. os'.state[h] = "ACTIVE"
    BY <1>4, <2>1, <2>5 DEF Tasks
  <2>9. BlockedMeansQueued'
    <3>1. ASSUME NEW u \in Threads
          PROVE /\ os'.state[u] \in {"ACTIVE", "BLOCKING"}
                /\ os'.state[u] = "BLOCKING" <=> \E r \in Semaphores : Waits(u, sem'[r].wq)
                /\ \A r \in Semaphores : Waits(u, sem'[r].wq) => waiting'[u] = r
      <4>1. CASE u = h
        BY <4>1, <2>6, <2>8
      <4>2. CASE u # h
        BY <4>2, <1>3, <1>7, <2>7
      <4>3. QED BY <4>1, <4>2
    <3>2. QED BY <3>1 DEF BlockedMeansQueued, Queued, Waits
  <2>10. QED BY <1>5, <2>1, <2>4, <2>5, <2>9 DEF SInv, KNext
<1>9. CASE ~(x.val + 1 <= 0)
  <2>1. os' = os
    BY <1>1, <1>3, <1>9, PostKernel
  <2>2. \A r \in Semaphores : sem'[r].wq = sem[r].wq
    BY <1>2, <1>6, <1>9 DEF PostOutcome
  <2>3. BlockedMeansQueued'
    BY <1>3, <2>1, <2>2 DEF SInv, BlockedMeansQueued, Queued
  <2>4. KInv'
    BY <1>1, <2>1 DEF KInv
  <2>5. QED BY <1>5, <2>1, <2>3, <2>4 DEF SInv, kvars
<1>10. QED BY <1>8, <1>9

\* A step that only moves the kernel between threads.
LEMMA SchedulingStep ==
  ASSUME SInv, KInv', os'.state = os.state, sem' = sem, waiting' = waiting
  PROVE  SInv'
BY DEF SInv, STypeOK, ValueCountsWaiters, BlockedMeansQueued, Queued

LEMMA SNextInv ==
  ASSUME SInv, [SNext]_svars
  PROVE  SInv' /\ [KNext]_kvars
<1>1. CASE STick
  <2>1. os' = os_tick(os) /\ sem' = sem /\ waiting' = waiting /\ KNext
    BY <1>1 DEF STick, Tick, TimerTick, YieldTick, KNext
  <2>2. os'.state = os.state
    BY <2>1, TickInv DEF SInv, KInv
  <2>3. KInv'
    BY <2>1, KNextInv DEF SInv
  <2>4. QED BY <2>1, <2>2, <2>3, SchedulingStep
<1>2. ASSUME NEW t \in Threads, SYield(t) PROVE SInv' /\ [KNext]_kvars
  <2>1. TaskYield(t) /\ sem' = sem /\ waiting' = waiting
    BY <1>2 DEF SYield
  <2>2. KNext /\ KInv'
    BY <2>1, KNextInv DEF SInv, KNext
  <2>3. os'.state = os.state
    BY <2>1, RunnerActive, YieldInv DEF SInv, KInv, TaskYield
  <2>4. QED BY <2>1, <2>2, <2>3, SchedulingStep
<1>3. ASSUME NEW t \in Threads, SemWaitReturn(t) PROVE SInv' /\ [KNext]_kvars
  <2>1. os' = os /\ sem' = sem /\ waiting' = [waiting EXCEPT ![t] = NULL]
    BY <1>3 DEF SemWaitReturn
  <2>2. os.state[t] = "ACTIVE" /\ KInv
    BY <1>3, RunnerActive DEF SInv, SemWaitReturn
  <2>3. STypeOK' /\ ValueCountsWaiters' /\ KInv'
    BY <2>1, <2>2 DEF SInv, STypeOK, ValueCountsWaiters, KInv
  <2>4. \A s \in Semaphores : ~Queued(t, s)
    BY <2>2 DEF SInv, BlockedMeansQueued
  <2>5. waiting \in [Threads -> Semaphores \cup {NULL}]
    BY DEF SInv, STypeOK
  <2>6. BlockedMeansQueued'
    BY <2>1, <2>4, <2>5 DEF SInv, BlockedMeansQueued, Queued
  <2>7. QED BY <2>1, <2>3, <2>6 DEF SInv, kvars
<1>4. ASSUME NEW t \in Threads, NEW s \in Semaphores, SemWait(t, s)
      PROVE  SInv' /\ [KNext]_kvars
  BY <1>4, SemWaitStep
<1>5. ASSUME NEW t \in Threads, NEW s \in Semaphores, SemTrywait(t, s)
      PROVE  SInv' /\ [KNext]_kvars
  BY <1>5, SemTrywaitStep DEF kvars
<1>6. ASSUME NEW t \in Threads, NEW s \in Semaphores, SemPost(t, s)
      PROVE  SInv' /\ [KNext]_kvars
  BY <1>6, SemPostStep
<1>7. CASE UNCHANGED svars
  BY <1>7, SchedulingStep DEF svars, SInv, KInv, kvars
<1>8. QED BY <1>1, <1>2, <1>3, <1>4, <1>5, <1>6, <1>7 DEF SNext

LEMMA SInitInv == ASSUME SInit PROVE SInv
<1>1. KInv /\ \A t \in Threads : os.state[t] = "ACTIVE"
  BY KInitInv DEF SInit
<1>2. PICK v \in [Semaphores -> 0..MaxVal] : sem = [s \in Semaphores |-> sem_init(v[s])]
  BY DEF SInit
<1>3. waiting = [t \in Threads |-> NULL]
  BY DEF SInit
<1>4. MaxVal \in Nat
  BY SemaphoreConstants
<1>5. \A s \in Semaphores : /\ sem[s] \in [val : Int, wq : Seq(Threads)]
                            /\ sem[s].val \in 0..MaxVal /\ sem[s].wq = <<>>
  BY <1>2, <1>4 DEF sem_init
<1>6. STypeOK
  BY <1>2, <1>3, <1>4, <1>5 DEF STypeOK
<1>7. ValueCountsWaiters
  BY <1>4, <1>5 DEF ValueCountsWaiters
<1>8. BlockedMeansQueued
  BY <1>1, <1>5 DEF BlockedMeansQueued, Queued, Waits
<1>9. QED BY <1>1, <1>6, <1>7, <1>8 DEF SInv

-----------------------------------------------------------------------------
(* The theorems.                                                           *)

\* The inductive invariant of the semaphores and the kernel together.
THEOREM SemaphoreInvariant == SSpec => []SInv
<1>1. SInit => SInv
  BY SInitInv
<1>2. SInv /\ [SNext]_svars => SInv'
  BY SNextInv
<1>3. QED BY <1>1, <1>2, PTL DEF SSpec

\* Types of the semaphores.
THEOREM SemaphoreTypeCorrect == SSpec => []STypeOK
<1>1. SInv => STypeOK
  BY DEF SInv
<1>2. QED BY <1>1, SemaphoreInvariant, PTL

\* The value of a semaphore counts its waiters, and no wait queue overflows.
THEOREM SemaphoreValueCorrect == SSpec => []ValueCountsWaiters
<1>1. SInv => ValueCountsWaiters
  BY DEF SInv
<1>2. QED BY <1>1, SemaphoreInvariant, PTL

\* No wake-up is lost and nobody who was woken is still queued.
THEOREM NoLostWakeup == SSpec => []BlockedMeansQueued
<1>1. SInv => BlockedMeansQueued
  BY DEF SInv
<1>2. QED BY <1>1, SemaphoreInvariant, PTL

\* The semaphores use the kernel as KSpec offers it.
THEOREM SemaphoreImplementsKernel == SSpec => ImplementsKernel
<1>1. SInit => KInit
  BY DEF SInit
<1>2. SInv /\ [SNext]_svars => [KNext]_kvars
  BY SNextInv
<1>3. QED BY <1>1, <1>2, SemaphoreInvariant, PTL DEF SSpec, ImplementsKernel, KSpec

-----------------------------------------------------------------------------
(* The refinement of AbstractSemaphore.                                    *)

absvars == <<tokens, queue, granted>>

LEMMA AbstractInit == ASSUME SInit PROVE Abstract!AInit
<1>1. PICK v \in [Semaphores -> 0..MaxVal] : sem = [s \in Semaphores |-> sem_init(v[s])]
  BY DEF SInit
<1>2. MaxVal \in Nat /\ NULL \notin Semaphores
  BY SemaphoreConstants
<1>3. \A s \in Semaphores : sem[s].val \in Nat /\ sem[s].wq = <<>>
  BY <1>1, <1>2 DEF sem_init
<1>4. tokens \in [Semaphores -> Nat]
  BY <1>3 DEF tokens
<1>5. queue = [s \in Semaphores |-> <<>>]
  BY <1>3 DEF queue
<1>6. \A s \in Semaphores : {t \in Threads : waiting[t] = s /\ ~Queued(t, s)} = {}
  BY <1>2 DEF SInit
<1>7. granted = [s \in Semaphores |-> {}]
  BY <1>6 DEF granted
<1>8. QED BY <1>4, <1>5, <1>7 DEF Abstract!AInit

\* A thread outside sem_wait is free for the abstract semaphore too.
LEMMA AbstractFree ==
  ASSUME SInv, NEW t \in Threads, InUserCode(t)
  PROVE  Abstract!Free(t)
<1>1. waiting[t] = NULL /\ \A s \in Semaphores : ~Waits(t, sem[s].wq)
  BY UserFacts
<1>2. \A s \in Semaphores : ~Abstract!InQueue(t, s)
  BY <1>1 DEF Abstract!InQueue, queue, Waits
<1>3. \A s \in Semaphores : t \notin granted[s]
  BY <1>1, SemaphoreConstants DEF granted
<1>4. QED BY <1>2, <1>3 DEF Abstract!Free

TokensOf(x) == IF x.val > 0 THEN x.val ELSE 0

LEMMA Mapping ==
  /\ tokens = [r \in Semaphores |-> TokensOf(sem[r])]
  /\ queue = [r \in Semaphores |-> sem[r].wq]
  /\ \A r, u : Queued(u, r) <=> Waits(u, sem[r].wq)
BY DEF tokens, queue, TokensOf, Queued, Waits

LEMMA MappingAfter ==
  /\ tokens' = [r \in Semaphores |-> TokensOf(sem'[r])]
  /\ queue' = [r \in Semaphores |-> sem'[r].wq]
  /\ \A r, u : Queued(u, r)' <=> Waits(u, sem'[r].wq)
BY DEF tokens, queue, TokensOf, Queued, Waits

\* What the mapping shows of a step that leaves y in semaphore s.
LEMMA AbstractStep ==
  ASSUME SInv, NEW s \in Semaphores, NEW y, sem' = [sem EXCEPT ![s] = y]
  PROVE  /\ tokens' = [tokens EXCEPT ![s] = TokensOf(y)]
         /\ queue' = [queue EXCEPT ![s] = y.wq]
         /\ \A r \in Semaphores \ {s} : \A u : Queued(u, r)' <=> Queued(u, r)
         /\ \A u : Queued(u, s)' <=> Waits(u, y.wq)
         /\ \A u : Queued(u, s) <=> Waits(u, sem[s].wq)
<1>1. DOMAIN sem = Semaphores
  BY DEF SInv, STypeOK
<1>2. /\ sem'[s] = y
      /\ \A r \in Semaphores \ {s} : sem'[r] = sem[r]
  BY <1>1
<1>3. tokens' = [tokens EXCEPT ![s] = TokensOf(y)]
  BY <1>2, Mapping, MappingAfter
<1>4. queue' = [queue EXCEPT ![s] = y.wq]
  BY <1>2, Mapping, MappingAfter
<1>5. \A r \in Semaphores \ {s} : \A u : Queued(u, r)' <=> Queued(u, r)
  BY <1>2, Mapping, MappingAfter
<1>6. \A u : Queued(u, s)' <=> Waits(u, y.wq)
  BY <1>2, MappingAfter
<1>7. QED BY <1>3, <1>4, <1>5, <1>6, Mapping

\* A step that leaves the tokens or the queue of s as they are.
LEMMA AbstractSame ==
  ASSUME NEW s \in Semaphores
  PROVE  /\ \A n : n = TokensOf(sem[s]) => [tokens EXCEPT ![s] = n] = tokens
         /\ \A q : q = sem[s].wq => [queue EXCEPT ![s] = q] = queue
         /\ tokens[s] = TokensOf(sem[s])
         /\ queue[s] = sem[s].wq
BY Mapping

LEMMA WaitAbstract ==
  ASSUME SInv, NEW t \in Threads, NEW s \in Semaphores, SemWait(t, s)
  PROVE  Abstract!ANext
<1> DEFINE x == sem[s]
           y == sem_wait(os, x, t).s
<1>1. /\ SemOK(x) /\ waiting[t] = NULL
      /\ \A r \in Semaphores : ~Waits(t, sem[r].wq)
  BY UserFacts DEF SemWait
<1>2. WaitOutcome(x, t, y)
  BY <1>1, WaitSem, Zenon
<1>3. /\ sem' = [sem EXCEPT ![s] = y]
      /\ waiting' = IF y.val < 0 THEN [waiting EXCEPT ![t] = s] ELSE waiting
  BY DEF SemWait
<1> HIDE DEF y
<1>4. /\ tokens' = [tokens EXCEPT ![s] = TokensOf(y)]
      /\ queue' = [queue EXCEPT ![s] = y.wq]
      /\ \A r \in Semaphores \ {s} : \A u : Queued(u, r)' <=> Queued(u, r)
      /\ \A u : Queued(u, s)' <=> Waits(u, y.wq)
      /\ \A u : Queued(u, s) <=> Waits(u, x.wq)
  BY <1>3, AbstractStep
<1>5. Abstract!Free(t)
  BY AbstractFree DEF SemWait
<1>6. /\ x.val \in Int /\ y.val = x.val - 1
      /\ tokens[s] = TokensOf(x)
      /\ queue[s] = x.wq
      /\ waiting \in [Threads -> Semaphores \cup {NULL}]
      /\ NULL \notin Semaphores
  BY <1>1, <1>2, AbstractSame, SemaphoreConstants
  DEF SemOK, WaitOutcome, SInv, STypeOK
<1>7. CASE x.val - 1 < 0
  <2>1. y.wq = Append(x.wq, t) /\ \A u : Waits(u, y.wq) <=> Waits(u, x.wq) \/ u = t
    BY <1>2, <1>7 DEF WaitOutcome
  <2>2. waiting' = [waiting EXCEPT ![t] = s]
    BY <1>3, <1>6, <1>7
  <2>3. tokens[s] = 0 /\ tokens' = tokens
    <3>1. TokensOf(x) = 0 /\ TokensOf(y) = 0
      BY <1>6, <1>7 DEF TokensOf
    <3>2. QED BY <1>4, <1>6, <3>1, AbstractSame
  <2>4. ASSUME NEW r \in Semaphores, NEW u \in Threads
        PROVE  waiting'[u] = r /\ ~Queued(u, r)' <=> waiting[u] = r /\ ~Queued(u, r)
    <3>1. CASE u = t
      BY <1>4, <1>6, <2>1, <2>2, <3>1, <1>1
    <3>2. CASE u # t
      BY <1>4, <1>6, <2>1, <2>2, <3>2
    <3>3. QED BY <3>1, <3>2
  <2>5. granted' = granted
    BY <2>4 DEF granted
  <2>6. Abstract!Enqueue(t, s)
    BY <1>4, <1>5, <1>6, <2>1, <2>3, <2>5 DEF Abstract!Enqueue
  <2>7. QED BY <2>6 DEF Abstract!ANext
<1>8. CASE ~(x.val - 1 < 0)
  <2>1. y.wq = x.wq /\ waiting' = waiting
    BY <1>2, <1>3, <1>6, <1>8 DEF WaitOutcome
  <2>2. tokens[s] > 0 /\ tokens' = [tokens EXCEPT ![s] = tokens[s] - 1]
    <3>1. TokensOf(x) > 0 /\ TokensOf(y) = TokensOf(x) - 1
      BY <1>6, <1>8 DEF TokensOf
    <3>2. QED BY <1>4, <1>6, <3>1
  <2>3. queue' = queue
    BY <1>4, <2>1, AbstractSame
  <2>4. ASSUME NEW r \in Semaphores, NEW u \in Threads
        PROVE  Queued(u, r)' <=> Queued(u, r)
    BY <1>4, <2>1
  <2>5. granted' = granted
    BY <2>1, <2>4 DEF granted
  <2>6. Abstract!Take(t, s)
    BY <1>5, <2>2, <2>3, <2>5 DEF Abstract!Take
  <2>7. QED BY <2>6 DEF Abstract!ANext
<1>9. QED BY <1>7, <1>8

LEMMA TrywaitAbstract ==
  ASSUME SInv, NEW t \in Threads, NEW s \in Semaphores, SemTrywait(t, s)
  PROVE  [Abstract!ANext]_absvars
<1> DEFINE x == sem[s]
           y == sem_trywait(os, x).s
<1>1. SemOK(x)
  BY UserFacts DEF SemTrywait
<1>2. TrywaitOutcome(x, y)
  BY <1>1, TrywaitSem, Zenon
<1>3. sem' = [sem EXCEPT ![s] = y] /\ waiting' = waiting
  BY DEF SemTrywait
<1> HIDE DEF y
<1>4. y.wq = x.wq /\ (y = x \/ (x.val > 0 /\ y.val = x.val - 1)) /\ x.val \in Int
  BY <1>1, <1>2 DEF TrywaitOutcome, SemOK
<1>5. /\ tokens' = [tokens EXCEPT ![s] = TokensOf(y)]
      /\ queue' = queue
      /\ \A r \in Semaphores : \A u : Queued(u, r)' <=> Queued(u, r)
  <2>1. /\ tokens' = [tokens EXCEPT ![s] = TokensOf(y)]
        /\ queue' = [queue EXCEPT ![s] = y.wq]
        /\ \A r \in Semaphores \ {s} : \A u : Queued(u, r)' <=> Queued(u, r)
        /\ \A u : Queued(u, s)' <=> Waits(u, y.wq)
        /\ \A u : Queued(u, s) <=> Waits(u, x.wq)
    BY <1>3, AbstractStep
  <2>2. queue' = queue
    BY <1>4, <2>1, AbstractSame
  <2>3. QED BY <1>4, <2>1, <2>2
<1>6. granted' = granted
  BY <1>3, <1>5 DEF granted
<1>7. CASE y = x
  <2>1. tokens' = tokens
    BY <1>5, <1>7, AbstractSame
  <2>2. QED BY <1>5, <1>6, <2>1 DEF absvars
<1>8. CASE x.val > 0 /\ y.val = x.val - 1
  <2>1. TokensOf(x) > 0 /\ TokensOf(y) = TokensOf(x) - 1
    BY <1>4, <1>8 DEF TokensOf
  <2>2. tokens[s] > 0 /\ tokens' = [tokens EXCEPT ![s] = tokens[s] - 1]
    BY <1>5, <2>1, AbstractSame
  <2>3. Abstract!Free(t)
    BY AbstractFree DEF SemTrywait
  <2>4. Abstract!Take(t, s)
    BY <1>5, <1>6, <2>2, <2>3 DEF Abstract!Take
  <2>5. QED BY <2>4 DEF Abstract!ANext
<1>9. QED BY <1>4, <1>7, <1>8

LEMMA PostAbstract ==
  ASSUME SInv, NEW t \in Threads, NEW s \in Semaphores, SemPost(t, s)
  PROVE  Abstract!ANext
<1> DEFINE x == sem[s]
           y == sem_post(os, x).s
           h == Head(x.wq)
<1>1. SemOK(x) /\ x.val < MaxVal
  BY UserFacts DEF SemPost
<1>2. PostOutcome(x, y)
  BY <1>1, PostSem, Zenon
<1>3. sem' = [sem EXCEPT ![s] = y] /\ waiting' = waiting
  BY DEF SemPost
<1> HIDE DEF y
<1>4. /\ tokens' = [tokens EXCEPT ![s] = TokensOf(y)]
      /\ queue' = [queue EXCEPT ![s] = y.wq]
      /\ \A r \in Semaphores \ {s} : \A u : Queued(u, r)' <=> Queued(u, r)
      /\ \A u : Queued(u, s)' <=> Waits(u, y.wq)
      /\ \A u : Queued(u, s) <=> Waits(u, x.wq)
  BY <1>3, AbstractStep
<1>5. x.val \in Int /\ y.val = x.val + 1
  BY <1>1, <1>2 DEF SemOK, PostOutcome
<1>6. tokens[s] = TokensOf(x) /\ queue[s] = x.wq
  BY AbstractSame
<1>7. CASE x.val + 1 <= 0
  <2>1. /\ x.wq # <<>> /\ y.wq = Tail(x.wq)
        /\ h \in Threads /\ Waits(h, x.wq)
        /\ \A u : Waits(u, y.wq) <=> Waits(u, x.wq) /\ u # h
    BY <1>2, <1>7 DEF PostOutcome
  <2>2. tokens' = tokens
    <3>1. TokensOf(x) = 0 /\ TokensOf(y) = 0
      BY <1>5, <1>7 DEF TokensOf
    <3>2. QED BY <1>4, <3>1, AbstractSame
  <2>3. queue' = [queue EXCEPT ![s] = Tail(queue[s])] /\ Head(queue[s]) = h
    BY <1>4, <1>6, <2>1
  <2> HIDE DEF h
  <2>4. waiting[h] = s
    BY <1>4, <2>1 DEF SInv, BlockedMeansQueued
  <2>5. ASSUME NEW r \in Semaphores, NEW u \in Threads
        PROVE  waiting'[u] = r /\ ~Queued(u, r)'
                 <=> (waiting[u] = r /\ ~Queued(u, r)) \/ (r = s /\ u = h)
    <3>1. CASE u = h
      BY <1>3, <1>4, <2>1, <2>4, <3>1
    <3>2. CASE u # h
      BY <1>3, <1>4, <2>1, <3>2
    <3>3. QED BY <3>1, <3>2
  <2>6. granted' = [granted EXCEPT ![s] = granted[s] \cup {h}]
    <3>1. granted' = [r \in Semaphores |->
                        {u \in Threads : waiting'[u] = r /\ ~Queued(u, r)'}]
      BY DEF granted
    <3>2. \A r \in Semaphores :
            {u \in Threads : waiting'[u] = r /\ ~Queued(u, r)'}
              = IF r = s THEN granted[r] \cup {h} ELSE granted[r]
      BY <2>1, <2>5 DEF granted
    <3>3. DOMAIN granted = Semaphores
      BY DEF granted
    <3>4. granted' = [r \in Semaphores |->
                        IF r = s THEN granted[r] \cup {h} ELSE granted[r]]
      BY <3>1, <3>2
    <3>5. granted = [r \in Semaphores |-> granted[r]]
      BY DEF granted
    <3>6. QED BY <3>4, <3>5
  <2>7. Abstract!HandOver(s)
    BY <1>6, <2>1, <2>2, <2>3, <2>6 DEF Abstract!HandOver
  <2>8. QED BY <2>7 DEF Abstract!ANext
<1>8. CASE ~(x.val + 1 <= 0)
  <2>1. y.wq = x.wq /\ x.wq = <<>>
    BY <1>2, <1>8 DEF PostOutcome
  <2>2. tokens' = [tokens EXCEPT ![s] = tokens[s] + 1]
    <3>1. TokensOf(y) = TokensOf(x) + 1
      BY <1>5, <1>8 DEF TokensOf
    <3>2. QED BY <1>4, <1>6, <3>1
  <2>3. queue' = queue /\ queue[s] = <<>>
    BY <1>4, <1>6, <2>1, AbstractSame
  <2>4. \A r \in Semaphores : \A u : Queued(u, r)' <=> Queued(u, r)
    BY <1>4, <2>1
  <2>5. granted' = granted
    BY <1>3, <2>4 DEF granted
  <2>6. Abstract!Deposit(s)
    BY <2>2, <2>3, <2>5 DEF Abstract!Deposit
  <2>7. QED BY <2>6 DEF Abstract!ANext
<1>9. QED BY <1>7, <1>8

LEMMA ReturnAbstract ==
  ASSUME SInv, NEW t \in Threads, SemWaitReturn(t)
  PROVE  Abstract!ANext
<1> DEFINE s == waiting[t]
<1>1. /\ os.state[t] = "ACTIVE" /\ waiting[t] # NULL
      /\ waiting' = [waiting EXCEPT ![t] = NULL] /\ sem' = sem
  BY RunnerActive DEF SInv, SemWaitReturn
<1>2. waiting \in [Threads -> Semaphores \cup {NULL}] /\ NULL \notin Semaphores
  BY SemaphoreConstants DEF SInv, STypeOK
<1>3. s \in Semaphores
  BY <1>1, <1>2
<1>4. \A r \in Semaphores : ~Queued(t, r)
  BY <1>1 DEF SInv, BlockedMeansQueued
<1>5. tokens' = tokens /\ queue' = queue
  BY <1>1, Mapping, MappingAfter
<1>6. \A r \in Semaphores : \A u : Queued(u, r)' <=> Queued(u, r)
  BY <1>1 DEF Queued
<1>7. ASSUME NEW r \in Semaphores, NEW u \in Threads
      PROVE  waiting'[u] = r /\ ~Queued(u, r)'
               <=> (waiting[u] = r /\ ~Queued(u, r)) /\ ~(r = s /\ u = t)
  <2>1. CASE u = t
    BY <1>1, <1>2, <2>1
  <2>2. CASE u # t
    BY <1>1, <1>2, <1>6, <2>2
  <2>3. QED BY <2>1, <2>2
<1>8. t \in granted[s]
  BY <1>3, <1>4 DEF granted
<1>9. granted' = [granted EXCEPT ![s] = granted[s] \ {t}]
  <2>1. granted' = [r \in Semaphores |->
                      {u \in Threads : waiting'[u] = r /\ ~Queued(u, r)'}]
    BY DEF granted
  <2>2. \A r \in Semaphores :
          {u \in Threads : waiting'[u] = r /\ ~Queued(u, r)'}
            = IF r = s THEN granted[r] \ {t} ELSE granted[r]
    BY <1>7 DEF granted
  <2>3. granted' = [r \in Semaphores |->
                      IF r = s THEN granted[r] \ {t} ELSE granted[r]]
    BY <2>1, <2>2
  <2>4. granted = [r \in Semaphores |-> granted[r]]
    BY DEF granted
  <2> HIDE DEF s
  <2>5. QED BY <2>3, <2>4
<1> HIDE DEF s
<1>10. Abstract!Depart(t, s)
  BY <1>5, <1>8, <1>9 DEF Abstract!Depart
<1>11. QED BY <1>3, <1>10 DEF Abstract!ANext

\* Steps that touch neither the semaphores nor who waits.
LEMMA StutterAbstract ==
  ASSUME sem' = sem, waiting' = waiting
  PROVE  UNCHANGED absvars
<1>1. tokens' = tokens /\ queue' = queue
  BY Mapping, MappingAfter
<1>2. \A r \in Semaphores : \A u : Queued(u, r)' <=> Queued(u, r)
  BY DEF Queued
<1>3. granted' = granted
  BY <1>2 DEF granted
<1>4. QED BY <1>1, <1>3 DEF absvars

LEMMA SNextAbstract ==
  ASSUME SInv, [SNext]_svars
  PROVE  [Abstract!ANext]_absvars
<1>1. CASE STick
  BY <1>1, StutterAbstract DEF STick
<1>2. ASSUME NEW t \in Threads, SYield(t) PROVE [Abstract!ANext]_absvars
  BY <1>2, StutterAbstract DEF SYield
<1>3. ASSUME NEW t \in Threads, SemWaitReturn(t) PROVE [Abstract!ANext]_absvars
  BY <1>3, ReturnAbstract
<1>4. ASSUME NEW t \in Threads, NEW s \in Semaphores,
             SemWait(t, s) \/ SemTrywait(t, s) \/ SemPost(t, s)
      PROVE  [Abstract!ANext]_absvars
  BY <1>4, WaitAbstract, TrywaitAbstract, PostAbstract
<1>5. CASE UNCHANGED svars
  BY <1>5, StutterAbstract DEF svars
<1>6. QED BY <1>1, <1>2, <1>3, <1>4, <1>5 DEF SNext

\* semaphore.c implements the abstract semaphore with direct hand-off.
THEOREM SemaphoreRefinement == SSpec => ImplementsAbstractSemaphore
<1>1. SInit => Abstract!AInit
  BY AbstractInit
<1>2. SInv /\ [SNext]_svars => [Abstract!ANext]_absvars
  BY SNextAbstract
<1>3. QED
  BY <1>1, <1>2, SemaphoreInvariant, PTL
  DEF SSpec, ImplementsAbstractSemaphore, Abstract!ASpec, Abstract!avars, absvars
=============================================================================
