--------------------------- MODULE TimedWaitProofs ---------------------------
(***************************************************************************)
(* Proofs about waits with a time limit, for any number of threads,        *)
(* semaphores, mutexes and deadlines left behind.                          *)
(***************************************************************************)
EXTENDS TimedWait, DataProofs

-----------------------------------------------------------------------------
(* Constants.                                                              *)

LEMMA Constants ==
  /\ EvenWord
  /\ WordSize \in Nat
  /\ \A x \in Limits : Signed(x) = x /\ x \in 0..(WordSize - 1)
  /\ \A x \in Int : Signed(x) \in -(WordSize \div 2)..(WordSize \div 2 - 1)
  /\ NUM_THREADS \in Nat
  /\ Cardinality(Threads) <= NUM_THREADS
  /\ MaxVal \in Nat
  /\ Patient \subseteq Threads
  /\ Semaphores \cap Mutexes = {}
  /\ NULL \notin Resources
<1>1. /\ WordSize \in Nat
      /\ WordSize % 2 = 0
      /\ MaxTicks \in Nat
      /\ MaxTicks < WordSize \div 2
      /\ MaxVal \in Nat
  BY TimedWaitAssumption
<1>2. EvenWord
  BY <1>1 DEF EvenWord
<1>3. /\ \A x \in Int : Signed(x) \in -(WordSize \div 2)..(WordSize \div 2 - 1)
      /\ \A x \in 0..(WordSize \div 2 - 1) : Signed(x) = x
  BY <1>2, EvenWords
<1>4. ASSUME NEW x \in Limits PROVE Signed(x) = x /\ x \in 0..(WordSize - 1)
  <2>1. x \in 0..(WordSize \div 2 - 1) /\ x \in 0..(WordSize - 1)
    BY <1>1 DEF Limits
  <2> QED
    BY <1>3, <2>1
<1> QED
  BY <1>1, <1>2, <1>3, <1>4, TimedWaitAssumption DEF Resources

-----------------------------------------------------------------------------
(* The operators of Kernel and WaitQueue as Semaphore and Mutex see them.  *)

\* They are what they are here: in Semaphore ...
LEMMA SameForSemaphores ==
  /\ \A k, t : S!os_task_block(k, t) = os_task_block(k, t)
  /\ \A k, t : S!os_task_unpause(k, t) = os_task_unpause(k, t)
  /\ \A k : S!start_critical(k) = start_critical(k)
  /\ \A k : S!end_critical(k) = end_critical(k)
  /\ \A q, t : S!queue_wait_push(q, t) = queue_wait_push(q, t)
  /\ \A q : S!queue_wait_pop(q) = queue_wait_pop(q)
  /\ \A t : S!CanRun(t) <=> CanRun(t)
<1>1. \A k : S!start_critical(k) = start_critical(k)
  BY DEF start_critical, S!start_critical
<1>2. \A k : S!end_critical(k) = end_critical(k)
  BY DEF end_critical, S!end_critical
<1>3. \A q, e : S!Position(q, e) = Position(q, e)
  BY DEF Position, S!Position, Circle, S!Circle
<1>4. \A q, e : S!Unlink(q, e) = Unlink(q, e)
  BY <1>3 DEF Unlink, S!Unlink, RemoveAt, S!RemoveAt
<1>5. \A q, e : S!Linked(q, e) = Linked(q, e)
  BY Zenon DEF Linked, S!Linked, Circle, S!Circle
<1>6. \A q, e : S!PrevCircular(q, e) = PrevCircular(q, e)
  <2>1. \A q, e : S!ElementPrev(q, e) = ElementPrev(q, e)
    BY <1>3, <1>5, Zenon DEF ElementPrev, S!ElementPrev, Circle, S!Circle
  <2> QED
    BY <2>1, Zenon DEF PrevCircular, S!PrevCircular
<1>7. ASSUME NEW k, NEW t PROVE S!os_add_task_mmang(k, t) = os_add_task_mmang(k, t)
  <2> DEFINE j == IF k.task_active_cnt = 0 THEN [k EXCEPT !.it = ListHead] ELSE k
             a == [j EXCEPT !.run_queue = Append(@, t), !.task_active_cnt = @ + 1]
  <2>1. os_add_task_mmang(k, t) = IF Linked(j.run_queue, t) THEN j ELSE a
    BY Zenon DEF os_add_task_mmang
  <2>2. S!os_add_task_mmang(k, t) = IF S!Linked(j.run_queue, t) THEN j ELSE a
    BY Zenon DEF S!os_add_task_mmang
  <2> HIDE DEF a, j
  <2> QED
    BY <1>5, <2>1, <2>2, Zenon
<1>8. ASSUME NEW k, NEW t PROVE S!os_del_task_mmang(k, t) = os_del_task_mmang(k, t)
  <2> DEFINE j == [k EXCEPT !.it = PrevCircular(k.run_queue, @)]
             d == [j EXCEPT !.run_queue = Unlink(@, t), !.task_active_cnt = @ - 1]
  <2>1. os_del_task_mmang(k, t) = IF ~Linked(j.run_queue, t) THEN j ELSE d
    BY Zenon DEF os_del_task_mmang
  <2>2. S!os_del_task_mmang(k, t) = IF ~S!Linked(j.run_queue, t) THEN j ELSE d
    BY <1>4, <1>6, Zenon DEF S!os_del_task_mmang
  <2> HIDE DEF d, j
  <2> QED
    BY <1>5, <2>1, <2>2, Zenon
<1>9. \A k, t : S!os_add_task(k, t) = os_add_task(k, t)
  BY <1>1, <1>2, <1>7, Zenon DEF os_add_task, S!os_add_task
<1>10. \A k, t : S!os_del_task(k, t) = os_del_task(k, t)
  BY <1>1, <1>2, <1>8, Zenon DEF os_del_task, S!os_del_task
<1>11. \A k, t : S!os_task_pause(k, t) = os_task_pause(k, t)
  BY <1>1, <1>2, <1>10, Zenon
  DEF os_task_pause, S!os_task_pause, os_task_yield, S!os_task_yield
<1>12. \A k, t : S!os_task_block(k, t) = os_task_block(k, t)
  BY <1>1, <1>2, <1>11, Zenon DEF os_task_block, S!os_task_block
<1>13. \A k, t : S!os_task_unpause(k, t) = os_task_unpause(k, t)
  BY <1>1, <1>2, <1>9, Zenon DEF os_task_unpause, S!os_task_unpause
<1>14. \A q, t : S!queue_wait_push(q, t) = queue_wait_push(q, t)
  BY Zenon DEF queue_wait_push, S!queue_wait_push
<1>15. \A q : S!queue_wait_pop(q) = queue_wait_pop(q)
  BY Zenon DEF queue_wait_pop, S!queue_wait_pop
<1>16. \A t : S!CanRun(t) <=> CanRun(t)
  BY Zenon DEF CanRun, S!CanRun
<1> QED
  BY <1>1, <1>2, <1>12, <1>13, <1>14, <1>15, <1>16

\* ... and in Mutex.
LEMMA SameForMutexes ==
  /\ \A k, t : M!os_task_block(k, t) = os_task_block(k, t)
  /\ \A k, t : M!os_task_unpause(k, t) = os_task_unpause(k, t)
  /\ \A k : M!start_critical(k) = start_critical(k)
  /\ \A k : M!end_critical(k) = end_critical(k)
  /\ \A q, t : M!queue_wait_push(q, t) = queue_wait_push(q, t)
  /\ \A q : M!queue_wait_pop(q) = queue_wait_pop(q)
  /\ \A t : M!CanRun(t) <=> CanRun(t)
<1>1. \A k : M!start_critical(k) = start_critical(k)
  BY DEF start_critical, M!start_critical
<1>2. \A k : M!end_critical(k) = end_critical(k)
  BY DEF end_critical, M!end_critical
<1>3. \A q, e : M!Position(q, e) = Position(q, e)
  BY DEF Position, M!Position, Circle, M!Circle
<1>4. \A q, e : M!Unlink(q, e) = Unlink(q, e)
  BY <1>3 DEF Unlink, M!Unlink, RemoveAt, M!RemoveAt
<1>5. \A q, e : M!Linked(q, e) = Linked(q, e)
  BY Zenon DEF Linked, M!Linked, Circle, M!Circle
<1>6. \A q, e : M!PrevCircular(q, e) = PrevCircular(q, e)
  <2>1. \A q, e : M!ElementPrev(q, e) = ElementPrev(q, e)
    BY <1>3, <1>5, Zenon DEF ElementPrev, M!ElementPrev, Circle, M!Circle
  <2> QED
    BY <2>1, Zenon DEF PrevCircular, M!PrevCircular
<1>7. ASSUME NEW k, NEW t PROVE M!os_add_task_mmang(k, t) = os_add_task_mmang(k, t)
  <2> DEFINE j == IF k.task_active_cnt = 0 THEN [k EXCEPT !.it = ListHead] ELSE k
             a == [j EXCEPT !.run_queue = Append(@, t), !.task_active_cnt = @ + 1]
  <2>1. os_add_task_mmang(k, t) = IF Linked(j.run_queue, t) THEN j ELSE a
    BY Zenon DEF os_add_task_mmang
  <2>2. M!os_add_task_mmang(k, t) = IF M!Linked(j.run_queue, t) THEN j ELSE a
    BY Zenon DEF M!os_add_task_mmang
  <2> HIDE DEF a, j
  <2> QED
    BY <1>5, <2>1, <2>2, Zenon
<1>8. ASSUME NEW k, NEW t PROVE M!os_del_task_mmang(k, t) = os_del_task_mmang(k, t)
  <2> DEFINE j == [k EXCEPT !.it = PrevCircular(k.run_queue, @)]
             d == [j EXCEPT !.run_queue = Unlink(@, t), !.task_active_cnt = @ - 1]
  <2>1. os_del_task_mmang(k, t) = IF ~Linked(j.run_queue, t) THEN j ELSE d
    BY Zenon DEF os_del_task_mmang
  <2>2. M!os_del_task_mmang(k, t) = IF ~M!Linked(j.run_queue, t) THEN j ELSE d
    BY <1>4, <1>6, Zenon DEF M!os_del_task_mmang
  <2> HIDE DEF d, j
  <2> QED
    BY <1>5, <2>1, <2>2, Zenon
<1>9. \A k, t : M!os_add_task(k, t) = os_add_task(k, t)
  BY <1>1, <1>2, <1>7, Zenon DEF os_add_task, M!os_add_task
<1>10. \A k, t : M!os_del_task(k, t) = os_del_task(k, t)
  BY <1>1, <1>2, <1>8, Zenon DEF os_del_task, M!os_del_task
<1>11. \A k, t : M!os_task_pause(k, t) = os_task_pause(k, t)
  BY <1>1, <1>2, <1>10, Zenon
  DEF os_task_pause, M!os_task_pause, os_task_yield, M!os_task_yield
<1>12. \A k, t : M!os_task_block(k, t) = os_task_block(k, t)
  BY <1>1, <1>2, <1>11, Zenon DEF os_task_block, M!os_task_block
<1>13. \A k, t : M!os_task_unpause(k, t) = os_task_unpause(k, t)
  BY <1>1, <1>2, <1>9, Zenon DEF os_task_unpause, M!os_task_unpause
<1>14. \A q, t : M!queue_wait_push(q, t) = queue_wait_push(q, t)
  BY Zenon DEF queue_wait_push, M!queue_wait_push
<1>15. \A q : M!queue_wait_pop(q) = queue_wait_pop(q)
  BY Zenon DEF queue_wait_pop, M!queue_wait_pop
<1>16. \A t : M!CanRun(t) <=> CanRun(t)
  BY Zenon DEF CanRun, M!CanRun
<1> QED
  BY <1>1, <1>2, <1>12, <1>13, <1>14, <1>15, <1>16

-----------------------------------------------------------------------------
(* What the calls do to the kernel: one thread changes its state, others   *)
(* only their priorities.                                                  *)

\* i is k but for priorities and the state of thread t.
Prepared(k, i, t) ==
  /\ i \in Kernels
  /\ i.run_queue = k.run_queue
  /\ i.it = k.it
  /\ i.task_active_cnt = k.task_active_cnt
  /\ i.run_ptr = k.run_ptr
  /\ \A u \in Tasks : u # t => i.state[u] = k.state[u]
  /\ PrioritiesOK(k) => PrioritiesOK(i)
  /\ i.nest = k.nest
  /\ i.gie = k.gie
  /\ i.wdtifg = k.wdtifg

\* j is k after thread t went to state st: on the run queue if that is ACTIVE,
\* else off it and about to lose the core.
Became(k, j, t, st) ==
  /\ QueueOK(j)
  /\ \A u \in Threads :
       Linked(j.run_queue, u) <=> IF u = t THEN st = "ACTIVE" ELSE Linked(k.run_queue, u)
  /\ j.run_ptr = k.run_ptr
  /\ \A u \in Tasks : j.state[u] = IF u = t THEN st ELSE k.state[u]
  /\ PrioritiesOK(k) => PrioritiesOK(j)
  /\ j.nest = k.nest
  /\ j.gie = k.gie
  /\ IF st = "ACTIVE" THEN j.wdtifg = k.wdtifg /\ (k.run_queue # <<>> => j.it = k.it)
     ELSE j.wdtifg

LEMMA PreparedFirst ==
  ASSUME NEW k, NEW i, NEW j, NEW t, NEW st, Prepared(k, i, t), Became(i, j, t, st)
  PROVE  Became(k, j, t, st)
<1>1. /\ \A u \in Threads :
           Linked(j.run_queue, u) <=> IF u = t THEN st = "ACTIVE" ELSE Linked(k.run_queue, u)
  BY DEF Prepared, Became
<1>2. \A u \in Tasks : j.state[u] = IF u = t THEN st ELSE k.state[u]
  BY DEF Prepared, Became
<1>3. PrioritiesOK(k) => PrioritiesOK(j)
  BY Zenon DEF Prepared, Became
<1>4. /\ QueueOK(j) /\ j.run_ptr = k.run_ptr /\ j.nest = k.nest /\ j.gie = k.gie
      /\ IF st = "ACTIVE" THEN j.wdtifg = k.wdtifg /\ (k.run_queue # <<>> => j.it = k.it)
         ELSE j.wdtifg
  BY Zenon DEF Prepared, Became
<1> QED
  BY <1>1, <1>2, <1>3, <1>4 DEF Became

\* A critical section around it adds nothing.
LEMMA BecameInSection ==
  ASSUME NEW k \in Kernels, NestOK(k), NEW j, NEW t, NEW st,
         Became(start_critical(k), j, t, st)
  PROVE  Became(k, end_critical(j), t, st)
<1> DEFINE s == start_critical(k)
           e == end_critical(j)
<1>1. /\ s \in Kernels /\ SameScheduler(s, k)
      /\ s.nest = k.nest + 1 /\ s.gie = FALSE
  BY StartEffect
<1>2. Became(s, j, t, st)
  OBVIOUS
<1> HIDE DEF s
<1>3. j \in Kernels /\ j.nest = k.nest + 1 /\ j.gie = FALSE
  BY <1>1, <1>2 DEF Became, QueueOK
<1>4. /\ e \in Kernels /\ SameScheduler(e, j)
      /\ e.nest = k.nest /\ e.gie = k.gie
  BY <1>3, EndEffect
<1> HIDE DEF e
<1>5. QueueOK(e)
  BY <1>2, <1>4 DEF Became, QueueOK, SameScheduler
<1>6. PrioritiesOK(k) => PrioritiesOK(e)
  BY <1>1, <1>2, <1>4, Zenon DEF Became, SameScheduler, PrioritiesOK
<1>7. /\ \A u \in Threads :
           Linked(e.run_queue, u) <=> IF u = t THEN st = "ACTIVE" ELSE Linked(k.run_queue, u)
      /\ e.run_ptr = k.run_ptr
      /\ \A u \in Tasks : e.state[u] = IF u = t THEN st ELSE k.state[u]
      /\ IF st = "ACTIVE" THEN e.wdtifg = k.wdtifg /\ (k.run_queue # <<>> => e.it = k.it)
         ELSE e.wdtifg
  BY <1>1, <1>2, <1>4 DEF Became, SameScheduler
<1> QED
  BY <1>4, <1>5, <1>6, <1>7 DEF Became, e

\* A critical section that only prepares is none for the scheduler either.
LEMMA PreparedStart ==
  ASSUME NEW k, QueueOK(k)
  PROVE  /\ start_critical(k) \in Kernels
         /\ QueueOK(start_critical(k))
         /\ NestOK(start_critical(k))
         /\ SameScheduler(start_critical(k), k)
<1>1. k \in Kernels
  BY DEF QueueOK
<1>2. start_critical(k) \in Kernels /\ SameScheduler(start_critical(k), k)
  BY <1>1, StartEffect
<1>3. QueueOK(start_critical(k))
  BY <1>2 DEF QueueOK, SameScheduler
<1> QED
  BY <1>1, <1>2, <1>3, StartNest

\* A new state for one thread.
LEMMA PreparedState ==
  ASSUME NEW k \in Kernels, NEW t \in Threads, NEW st \in ThreadStates
  PROVE  LET i == [k EXCEPT !.state[t] = st]
         IN  Prepared(k, i, t) /\ i.state[t] = st
<1> DEFINE f == [k.state EXCEPT ![t] = st]
           i == [k EXCEPT !.state = f]
<1>1. k.state \in [Tasks -> ThreadStates]
  BY KernelTypes
<1>2. /\ f \in [Tasks -> ThreadStates]
      /\ f[t] = st
      /\ \A u \in Tasks : u # t => f[u] = k.state[u]
  BY <1>1 DEF Tasks
<1>3. i = [k EXCEPT !.state[t] = st]
  BY DEF Kernels
<1> HIDE DEF f
<1>4. i \in Kernels
  BY <1>2, KernelUpdates
<1>5. /\ i.run_queue = k.run_queue /\ i.it = k.it /\ i.run_ptr = k.run_ptr
      /\ i.task_active_cnt = k.task_active_cnt /\ i.state = f
      /\ i.fixed_prio = k.fixed_prio /\ i.working_prio = k.working_prio
      /\ i.nest = k.nest /\ i.gie = k.gie /\ i.wdtifg = k.wdtifg
  BY DEF Kernels
<1> HIDE DEF i
<1>6. PrioritiesOK(k) => PrioritiesOK(i)
  BY <1>5, SamePriorities
<1> QED
  BY <1>2, <1>3, <1>4, <1>5, <1>6 DEF Prepared

LEMMA PreparedQueue ==
  ASSUME NEW k, QueueOK(k), NEW i, NEW t, Prepared(k, i, t)
  PROVE  QueueOK(i)
BY DEF QueueOK, Prepared

\* Linking an ACTIVE thread.
LEMMA AddBecomes ==
  ASSUME NEW k, QueueOK(k), NEW t \in Threads, k.state[t] = "ACTIVE"
  PROVE  Became(k, os_add_task_mmang(k, t), t, "ACTIVE")
<1> DEFINE j == os_add_task_mmang(k, t)
<1>1. /\ QueueOK(j)
      /\ \A u \in Threads :
           Linked(j.run_queue, u) <=> Linked(k.run_queue, u) \/ u = t
      /\ k.run_queue # <<>> => j.it = k.it
      /\ j.run_ptr = k.run_ptr
      /\ j.state = k.state
      /\ j.fixed_prio = k.fixed_prio
      /\ j.working_prio = k.working_prio
      /\ j.nest = k.nest
      /\ j.gie = k.gie
      /\ j.wdtifg = k.wdtifg
  BY AddAny
<1> HIDE DEF j
<1>2. PrioritiesOK(k) => PrioritiesOK(j)
  BY <1>1, SamePriorities
<1>3. Became(k, j, t, "ACTIVE")
  BY <1>1, <1>2 DEF Became
<1> QED
  BY <1>3 DEF j

\* Waking a thread, which may be on the run queue: then its time was over.
LEMMA UnpauseBecomes ==
  ASSUME NEW k, QueueOK(k), NestOK(k), NEW t \in Threads
  PROVE  Became(k, os_task_unpause(k, t), t, "ACTIVE")
<1> DEFINE s == start_critical(k)
           i == [s EXCEPT !.state[t] = "ACTIVE"]
           r == start_critical(i)
           a == os_add_task_mmang(r, t)
<1>1. k \in Kernels
  BY DEF QueueOK
<1>2. s \in Kernels /\ QueueOK(s) /\ NestOK(s)
  BY PreparedStart
<1>3. os_task_unpause(k, t) = end_critical(end_critical(a))
  BY DEF os_task_unpause, os_add_task
<1>4. Prepared(s, i, t) /\ i.state[t] = "ACTIVE"
  <2>1. "ACTIVE" \in ThreadStates
    BY DEF ThreadStates
  <2> HIDE DEF s
  <2> QED
    BY <1>2, <2>1, PreparedState
<1> HIDE DEF i
<1>5. QueueOK(i) /\ NestOK(i) /\ i \in Kernels
  BY <1>2, <1>4, PreparedQueue DEF Prepared, NestOK
<1>6. QueueOK(r) /\ r.state[t] = "ACTIVE"
  BY <1>4, <1>5, PreparedStart DEF SameScheduler
<1>7. Became(r, a, t, "ACTIVE")
  <2> HIDE DEF r
  <2> QED
    BY <1>6, AddBecomes
<1> HIDE DEF a
<1>8. Became(i, end_critical(a), t, "ACTIVE")
  BY <1>5, <1>7, BecameInSection
<1>9. Became(s, end_critical(a), t, "ACTIVE")
  BY <1>4, <1>8, PreparedFirst
<1>10. Became(k, end_critical(end_critical(a)), t, "ACTIVE")
  BY <1>1, <1>9, BecameInSection
<1> QED
  BY <1>3, <1>10

\* The thread the iterator stands on takes itself off the run queue.
LEMMA PauseBecomes ==
  ASSUME NEW k, QueueOK(k), NestOK(k), NEW t \in Threads, k.it = t,
         Linked(k.run_queue, t), k.state[t] \in Suspended
  PROVE  Became(k, os_task_pause(k, t), t, k.state[t])
<1> DEFINE j == os_task_pause(k, t)
           q == k.run_queue
<1>1. /\ k \in Kernels /\ q \in Seq(Threads) /\ Distinct(q)
      /\ k.task_active_cnt = Len(q)
  BY KernelTypes DEF QueueOK
<1>2. q # <<>> /\ Len(q) # 0
  <2>1. q # <<>>
    BY <1>1, LinkedElements
  <2> QED
    BY <1>1, <2>1
<1>3. /\ j \in Kernels
      /\ j.run_queue = Unlink(q, t)
      /\ j.it = PrevCircular(q, t)
      /\ j.task_active_cnt = k.task_active_cnt - 1
      /\ j.run_ptr = k.run_ptr
      /\ j.state = k.state
      /\ j.fixed_prio = k.fixed_prio
      /\ j.working_prio = k.working_prio
      /\ j.nest = k.nest
      /\ j.gie = k.gie
      /\ j.wdtifg = TRUE
  BY <1>1, <1>2, PauseEffect
<1> HIDE DEF j
<1>4. /\ Unlink(q, t) \in Seq(Threads)
      /\ Len(Unlink(q, t)) = Len(q) - 1
      /\ Distinct(Unlink(q, t))
      /\ \A u \in Threads : Linked(Unlink(q, t), u) <=> Linked(q, u) /\ u # t
  BY <1>1, UnlinkElements
<1>5. ASSUME Unlink(q, t) # <<>> PROVE Linked(Unlink(q, t), PrevCircular(q, t))
  <2>1. Len(q) > 1
    BY <1>1, <1>4, <1>5, EmptySeq
  <2>2. /\ PrevCircular(q, t) \in Threads
        /\ Linked(q, PrevCircular(q, t))
        /\ PrevCircular(q, t) # t
    BY <1>1, <1>2, <2>1, PrevOnQueue
  <2> QED
    BY <1>4, <2>2
<1>6. QueueOK(j)
  BY <1>1, <1>3, <1>4, <1>5 DEF QueueOK
<1>7. PrioritiesOK(k) => PrioritiesOK(j)
  BY <1>3, SamePriorities
<1>8. k.state[t] # "ACTIVE"
  BY DEF Suspended
<1>9. Became(k, j, t, k.state[t])
  BY <1>3, <1>4, <1>6, <1>7, <1>8 DEF Became
<1> QED
  BY <1>9 DEF j

LEMMA BlockBecomes ==
  ASSUME NEW k, QueueOK(k), NestOK(k), NEW t \in Threads, k.it = t,
         Linked(k.run_queue, t)
  PROVE  Became(k, os_task_block(k, t), t, "BLOCKING")
<1> DEFINE s == start_critical(k)
           i == [s EXCEPT !.state[t] = "BLOCKING"]
           p == os_task_pause(i, t)
<1>1. k \in Kernels
  BY DEF QueueOK
<1>2. s \in Kernels /\ QueueOK(s) /\ NestOK(s) /\ s.it = t /\ Linked(s.run_queue, t)
  BY PreparedStart DEF SameScheduler
<1>3. os_task_block(k, t) = end_critical(p)
  BY DEF os_task_block
<1>4. Prepared(s, i, t) /\ i.state[t] = "BLOCKING"
  <2>1. "BLOCKING" \in ThreadStates
    BY DEF ThreadStates
  <2> HIDE DEF s
  <2> QED
    BY <1>2, <2>1, PreparedState
<1> HIDE DEF i
<1>5. /\ QueueOK(i) /\ NestOK(i) /\ i.it = t /\ Linked(i.run_queue, t)
      /\ i.state[t] \in Suspended
  BY <1>2, <1>4, PreparedQueue DEF Prepared, NestOK, Suspended
<1>6. Became(i, p, t, "BLOCKING")
  BY <1>4, <1>5, PauseBecomes
<1> HIDE DEF p
<1>7. Became(s, p, t, "BLOCKING")
  BY <1>4, <1>6, PreparedFirst
<1> QED
  BY <1>1, <1>3, <1>7, BecameInSection

\* os_task_timedwait, but for the deadline.
LEMMA TimedwaitBecomes ==
  ASSUME NEW k, QueueOK(k), NestOK(k), NEW t \in Threads, k.it = t,
         Linked(k.run_queue, t), NEW heap, NEW ticks
  PROVE  Became(k, os_task_timedwait(k, heap, t, ticks).k, t, "SLEEPING")
<1> DEFINE w == [k.working_prio EXCEPT ![t] = k.fixed_prio[t]]
           i == end_critical([start_critical(k) EXCEPT
                                !.state[t] = "SLEEPING",
                                !.working_prio[t] = k.fixed_prio[t]])
<1>1. k \in Kernels
  BY DEF QueueOK
<1>2. os_task_timedwait(k, heap, t, ticks).k = os_task_pause(i, t)
  BY DEF os_task_timedwait
<1>3. /\ i \in Kernels /\ i.run_queue = k.run_queue /\ i.it = k.it
      /\ i.task_active_cnt = k.task_active_cnt /\ i.run_ptr = k.run_ptr
      /\ i.state = [k.state EXCEPT ![t] = "SLEEPING"]
      /\ i.fixed_prio = k.fixed_prio /\ i.working_prio = w
      /\ i.nest = k.nest /\ i.gie = k.gie /\ i.wdtifg = k.wdtifg
  BY <1>1, FallEffect
<1>4. /\ k.state \in [Tasks -> ThreadStates]
      /\ k.working_prio \in [Tasks -> Nat]
  BY <1>1, KernelTypes
<1> HIDE DEF i
<1>5. i.state[t] = "SLEEPING" /\ \A u \in Tasks : u # t => i.state[u] = k.state[u]
  BY <1>3, <1>4 DEF Tasks
<1>6. PrioritiesOK(k) => PrioritiesOK(i)
  BY <1>3, <1>4 DEF PrioritiesOK, Tasks
<1>7. Prepared(k, i, t)
  BY <1>3, <1>5, <1>6 DEF Prepared
<1>8. /\ QueueOK(i) /\ NestOK(i) /\ i.it = t /\ Linked(i.run_queue, t)
      /\ i.state[t] \in Suspended
  BY <1>3, <1>5, <1>7, PreparedQueue DEF NestOK, Suspended
<1>9. Became(i, os_task_pause(i, t), t, "SLEEPING")
  BY <1>5, <1>8, PauseBecomes
<1> QED
  BY <1>2, <1>7, <1>9, PreparedFirst

-----------------------------------------------------------------------------
(* Priorities: boost, restore and pass.                                    *)

\* i is k but for priorities, which are positive.
Priced(k, i) == \A t : Prepared(k, i, t)

LEMMA FixedPriced ==
  ASSUME NEW k \in Kernels, PrioritiesOK(k), NEW f \in [Tasks -> Nat \ {0}]
  PROVE  LET i == [k EXCEPT !.fixed_prio = f]
         IN  Priced(k, i) /\ i.fixed_prio = f /\ i.working_prio = k.working_prio
<1> DEFINE i == [k EXCEPT !.fixed_prio = f]
<1>1. i \in Kernels
  BY KernelUpdates
<1>2. /\ i.run_queue = k.run_queue /\ i.it = k.it /\ i.run_ptr = k.run_ptr
      /\ i.task_active_cnt = k.task_active_cnt /\ i.state = k.state
      /\ i.fixed_prio = f /\ i.working_prio = k.working_prio
      /\ i.nest = k.nest /\ i.gie = k.gie /\ i.wdtifg = k.wdtifg
  BY DEF Kernels
<1> HIDE DEF i
<1>3. PrioritiesOK(i)
  BY <1>2 DEF PrioritiesOK
<1>4. Priced(k, i)
  BY <1>1, <1>2, <1>3 DEF Priced, Prepared
<1> QED
  BY <1>2, <1>4 DEF i

LEMMA WorkingPriced ==
  ASSUME NEW k \in Kernels, PrioritiesOK(k), NEW w \in [Tasks -> Nat \ {0}]
  PROVE  LET i == [k EXCEPT !.working_prio = w]
         IN  Priced(k, i) /\ i.working_prio = w /\ i.fixed_prio = k.fixed_prio
<1> DEFINE i == [k EXCEPT !.working_prio = w]
<1>1. i \in Kernels
  BY KernelUpdates
<1>2. /\ i.run_queue = k.run_queue /\ i.it = k.it /\ i.run_ptr = k.run_ptr
      /\ i.task_active_cnt = k.task_active_cnt /\ i.state = k.state
      /\ i.fixed_prio = k.fixed_prio /\ i.working_prio = w
      /\ i.nest = k.nest /\ i.gie = k.gie /\ i.wdtifg = k.wdtifg
  BY DEF Kernels
<1> HIDE DEF i
<1>3. PrioritiesOK(i)
  BY <1>2 DEF PrioritiesOK
<1>4. Priced(k, i)
  BY <1>1, <1>2, <1>3 DEF Priced, Prepared
<1> QED
  BY <1>2, <1>4 DEF i

LEMMA PricedTwice ==
  ASSUME NEW k, NEW i, NEW j, Priced(k, i), Priced(i, j)
  PROVE  Priced(k, j)
<1>1. ASSUME NEW t PROVE Prepared(k, j, t)
  <2>1. Prepared(k, i, t) /\ Prepared(i, j, t)
    BY DEF Priced
  <2> QED
    BY <2>1 DEF Prepared
<1> QED
  BY <1>1 DEF Priced

LEMMA PricedFacts ==
  ASSUME NEW k \in Kernels, PrioritiesOK(k), NEW i, Priced(k, i)
  PROVE  /\ i \in Kernels
         /\ PrioritiesOK(i)
         /\ QueueOK(k) => QueueOK(i)
         /\ NestOK(k) => NestOK(i)
         /\ i.it = k.it
         /\ i.run_queue = k.run_queue
         /\ \A u \in Tasks : i.state[u] = k.state[u]
<1>1. Prepared(k, i, NULL)
  BY DEF Priced
<1>2. NULL \notin Tasks
  BY KernelAssumption DEF Tasks
<1>3. \A u \in Tasks : i.state[u] = k.state[u]
  BY <1>1, <1>2 DEF Prepared
<1>4. QueueOK(k) => QueueOK(i)
  BY <1>1, PreparedQueue
<1> QED
  BY <1>1, <1>3, <1>4 DEF Prepared, NestOK

LEMMA PositivePrios ==
  ASSUME NEW k \in Kernels, PrioritiesOK(k)
  PROVE  /\ k.fixed_prio \in [Tasks -> Nat \ {0}]
         /\ k.working_prio \in [Tasks -> Nat \ {0}]
BY KernelTypes DEF PrioritiesOK

LEMMA BoostPriced ==
  ASSUME NEW k \in Kernels, PrioritiesOK(k), NEW h \in Tasks, NEW prio \in Nat
  PROVE  Priced(k, M!boost(k, h, prio))
<1>1. /\ k.fixed_prio \in [Tasks -> Nat \ {0}]
      /\ k.working_prio \in [Tasks -> Nat \ {0}]
  BY PositivePrios
<1>2. CASE prio > k.fixed_prio[h]
  <2> DEFINE w == [k.working_prio EXCEPT ![h] = @ + (prio - k.fixed_prio[h])]
             f == [k.fixed_prio EXCEPT ![h] = prio]
             i == [k EXCEPT !.working_prio = w]
  <2>1. w \in [Tasks -> Nat \ {0}] /\ f \in [Tasks -> Nat \ {0}]
    BY <1>1, <1>2
  <2>2. M!boost(k, h, prio) = [i EXCEPT !.fixed_prio[h] = prio]
    BY <1>2 DEF M!boost
  <2> HIDE DEF w
  <2>3. Priced(k, i) /\ i.fixed_prio = k.fixed_prio
    BY <2>1, WorkingPriced
  <2> HIDE DEF i
  <2>4. i \in Kernels /\ PrioritiesOK(i)
    BY <2>3, PricedFacts
  <2>5. M!boost(k, h, prio) = [i EXCEPT !.fixed_prio = f]
    BY <2>2, <2>3, <2>4
  <2> HIDE DEF f
  <2>6. Priced(i, [i EXCEPT !.fixed_prio = f])
    BY <2>1, <2>4, FixedPriced
  <2> QED
    BY <2>3, <2>5, <2>6, PricedTwice
<1>3. CASE ~(prio > k.fixed_prio[h])
  <2>1. M!boost(k, h, prio) = k
    BY <1>3 DEF M!boost
  <2> QED
    BY <2>1 DEF Priced, Prepared
<1> QED
  BY <1>2, <1>3

LEMMA RestorePriced ==
  ASSUME NEW k \in Kernels, PrioritiesOK(k), NEW t \in Tasks, base_prio[t] \in Nat \ {0}
  PROVE  Priced(k, M!restore(k, t)) /\ M!restore(k, t).working_prio = k.working_prio
<1> DEFINE f == [k.fixed_prio EXCEPT ![t] = base_prio[t]]
<1>1. f \in [Tasks -> Nat \ {0}]
  BY PositivePrios
<1>2. M!restore(k, t) = [k EXCEPT !.fixed_prio = f]
  BY DEF M!restore
<1> HIDE DEF f
<1> QED
  BY <1>1, <1>2, FixedPriced

LEMMA PassPriced ==
  ASSUME NEW k \in Kernels, PrioritiesOK(k), NEW t \in Tasks, NEW u \in Tasks,
         base_prio[t] \in Nat \ {0}
  PROVE  Priced(k, M!pass(k, t, u))
<1> DEFINE p == k.fixed_prio[t]
           r == M!restore(k, t)
           f == [r.fixed_prio EXCEPT ![u] = p]
           i == [r EXCEPT !.fixed_prio = f]
           w == [i.working_prio EXCEPT ![u] = p]
           j == [i EXCEPT !.working_prio = w]
<1>1. p \in Nat \ {0}
  BY PositivePrios
<1>2. Priced(k, r)
  BY RestorePriced
<1>3. M!pass(k, t, u) = [[r EXCEPT !.fixed_prio[u] = p] EXCEPT !.working_prio[u] = p]
  BY DEF M!pass
<1> HIDE DEF r, p
<1>4. r \in Kernels /\ PrioritiesOK(r)
  BY <1>2, PricedFacts
<1>5. f \in [Tasks -> Nat \ {0}]
  BY <1>1, <1>4, PositivePrios
<1>6. [r EXCEPT !.fixed_prio[u] = p] = i
  BY <1>4
<1> HIDE DEF f
<1>7. Priced(r, i)
  BY <1>4, <1>5, FixedPriced
<1> HIDE DEF i
<1>8. i \in Kernels /\ PrioritiesOK(i)
  BY <1>4, <1>7, PricedFacts
<1>9. w \in [Tasks -> Nat \ {0}]
  BY <1>1, <1>8, PositivePrios
<1>10. M!pass(k, t, u) = j
  BY <1>3, <1>6, <1>8
<1> HIDE DEF w
<1>11. Priced(i, j)
  BY <1>8, <1>9, WorkingPriced
<1>12. Priced(k, i)
  BY <1>2, <1>7, PricedTwice
<1> QED
  BY <1>10, <1>11, <1>12, PricedTwice

LEMMA PricedFirst ==
  ASSUME NEW k, NEW i, NEW j, NEW t, NEW st, Priced(k, i), Became(i, j, t, st)
  PROVE  Became(k, j, t, st)
BY PreparedFirst DEF Priced

\* A call that only changes priorities, made by a running thread.
LEMMA PricedBecomes ==
  ASSUME NEW k, QueueOK(k), PrioritiesOK(k), NEW i, Priced(k, i), NEW t \in Threads,
         Linked(k.run_queue, t), k.state[t] = "ACTIVE"
  PROVE  Became(k, i, t, "ACTIVE")
<1>1. /\ k \in Kernels /\ QueueOK(i) /\ i.run_queue = k.run_queue
      /\ \A u \in Tasks : i.state[u] = k.state[u]
  BY PricedFacts DEF QueueOK
<1>2. Prepared(k, i, t)
  BY DEF Priced
<1> QED
  BY <1>1, <1>2 DEF Became, Prepared

-----------------------------------------------------------------------------
(* The second loop of os_update.                                           *)

Impatient == Deadlines(Threads \ Patient)

\* j is k with more threads on the run queue, all of W.
Joined(k, j, W) ==
  /\ QueueOK(j)
  /\ \A u \in Threads : Linked(k.run_queue, u) => Linked(j.run_queue, u)
  /\ \A u \in Threads : Linked(j.run_queue, u) => Linked(k.run_queue, u) \/ u \in W
  /\ k.run_queue # <<>> => j.run_queue # <<>> /\ j.it = k.it
  /\ j.run_ptr = k.run_ptr
  /\ j.state = k.state
  /\ j.fixed_prio = k.fixed_prio
  /\ j.working_prio = k.working_prio
  /\ j.nest = k.nest
  /\ j.gie = k.gie
  /\ j.wdtifg = k.wdtifg

\* After n turns nobody has lost its deadline but who is on the run queue.
TurnOK(k, heap, n, x) ==
  /\ x \in [k : Kernels, heap : Seq(Impatient), more : BOOLEAN]
  /\ Len(x.heap) + n >= Len(heap)
  /\ Joined(k, x.k, DataOf(heap))
  /\ DataOf(x.heap) \subseteq DataOf(heap)
  /\ \A u \in DataOf(heap) : u \in DataOf(x.heap) \/ Linked(x.k.run_queue, u)

LEMMA JoinedMore ==
  ASSUME NEW k, NEW j, NEW W, Joined(k, j, W), NEW t \in Threads, t \in W
  PROVE  LET i == os_add_task_mmang(j, t)
         IN  /\ Joined(k, i, W)
             /\ \A u \in Threads : Linked(j.run_queue, u) => Linked(i.run_queue, u)
             /\ Linked(i.run_queue, t)
<1> DEFINE i == os_add_task_mmang(j, t)
<1>1. QueueOK(j)
  BY DEF Joined
<1>2. /\ QueueOK(i)
      /\ \A u \in Threads :
           Linked(i.run_queue, u) <=> Linked(j.run_queue, u) \/ u = t
      /\ j.run_queue # <<>> => i.it = j.it
      /\ i.run_ptr = j.run_ptr
      /\ i.state = j.state
      /\ i.fixed_prio = j.fixed_prio
      /\ i.working_prio = j.working_prio
      /\ i.nest = j.nest
      /\ i.gie = j.gie
      /\ i.wdtifg = j.wdtifg
  BY <1>1, AddAny
<1> HIDE DEF i
<1>3. i.run_queue # <<>>
  <2>1. i.run_queue \in Seq(Threads) /\ Linked(i.run_queue, t)
    BY <1>2, KernelTypes DEF QueueOK
  <2> QED
    BY <2>1, LinkedElements
<1>4. Joined(k, i, W)
  BY <1>2, <1>3 DEF Joined
<1> QED
  BY <1>2, <1>4 DEF i

LEMMA JoinedNone ==
  ASSUME NEW k, QueueOK(k), NEW W
  PROVE  Joined(k, k, W)
BY DEF Joined

\* The next deadline is cut, or there is none.
LEMMA NextDeadlineEffect ==
  ASSUME NEW heap \in Seq(Impatient), NEW ticks \in Int
  PROVE  /\ NextDeadline(heap, ticks) \in Seq(Impatient)
         /\ Len(NextDeadline(heap, ticks)) = Len(heap)
         /\ DataOf(NextDeadline(heap, ticks)) = DataOf(heap)
<1>1. CASE heap = <<>>
  BY <1>1 DEF NextDeadline
<1>2. CASE heap # <<>>
  <2>1. NextDeadline(heap, ticks) = Shifted(heap, ticks, ticks)
    BY <1>2 DEF NextDeadline, Shifted
  <2>2. EvenWord
    BY Constants
  <2> QED
    BY <1>2, <2>1, <2>2, ShiftedEffect DEF Impatient
<1> QED
  BY <1>1, <1>2

\* A turn that goes on takes the first deadline off and links its thread.
LEMMA TurnOver ==
  ASSUME NEW k, NEW heap, NEW n \in Nat, NEW x, TurnOK(k, heap, n, x),
         Len(x.heap) > 0, Len(heap) \in Nat
  PROVE  TurnOK(k, heap, n + 1,
                [k    |-> os_add_task_mmang(x.k, x.heap[1].data),
                 heap |-> NextDeadline(pqueue_pop(CountDown(x.heap)), x.heap[1].ticks),
                 more |-> TRUE])
<1> DEFINE t == x.heap[1].data
           c == CountDown(x.heap)
           p == pqueue_pop(c)
           h == NextDeadline(p, x.heap[1].ticks)
           j == os_add_task_mmang(x.k, t)
           y == [k |-> j, heap |-> h, more |-> TRUE]
<1>1. /\ x.heap \in Seq(Impatient)
      /\ Len(x.heap) + n >= Len(heap)
      /\ Joined(k, x.k, DataOf(heap))
      /\ DataOf(x.heap) \subseteq DataOf(heap)
      /\ \A u \in DataOf(heap) : u \in DataOf(x.heap) \/ Linked(x.k.run_queue, u)
  BY DEF TurnOK
<1>2. /\ c \in Seq(Impatient)
      /\ Len(c) = Len(x.heap)
      /\ DataOf(c) = DataOf(x.heap)
      /\ c[1].data = t
  <2>1. EvenWord
    BY Constants
  <2> QED
    BY <1>1, <2>1, CountDownEffect DEF Impatient
<1>3. t \in Threads /\ t \in DataOf(x.heap) /\ x.heap[1].ticks \in Int
  <2>1. 1 \in 1..Len(x.heap)
    BY <1>1
  <2>2. x.heap[1] \in Impatient
    BY <1>1, <2>1
  <2>3. x.heap[1].data \in Threads \ Patient /\ x.heap[1].ticks \in 0..(WordSize - 1)
    BY <2>2 DEF Impatient, Deadlines
  <2>4. WordSize \in Nat
    BY Constants
  <2> QED
    BY <2>1, <2>3, <2>4 DEF DataOf
<1> HIDE DEF c, t
<1>4. /\ p \in Seq(Impatient)
      /\ Len(p) = Len(c) - 1
      /\ DataOf(c) = DataOf(p) \cup {t}
  BY <1>2, PopEffect
<1> HIDE DEF p
<1>5. /\ h \in Seq(Impatient)
      /\ Len(h) = Len(p)
      /\ DataOf(h) = DataOf(p)
  BY <1>3, <1>4, NextDeadlineEffect
<1> HIDE DEF h
<1>6. /\ Joined(k, j, DataOf(heap))
      /\ \A u \in Threads : Linked(x.k.run_queue, u) => Linked(j.run_queue, u)
      /\ Linked(j.run_queue, t)
  BY <1>1, <1>3, JoinedMore
<1>7. j \in Kernels
  BY <1>6 DEF Joined, QueueOK
<1> HIDE DEF j
<1>8. \A u \in DataOf(x.heap) : u \in Threads
  <2>1. ASSUME NEW i \in 1..Len(x.heap) PROVE x.heap[i].data \in Threads
    <3>1. x.heap[i] \in Impatient
      BY <1>1
    <3> QED
      BY <3>1 DEF Impatient, Deadlines
  <2> QED
    BY <2>1 DEF DataOf
<1>9. ASSUME NEW u \in DataOf(heap) PROVE u \in DataOf(h) \/ Linked(j.run_queue, u)
  <2>1. CASE u \in DataOf(x.heap)
    BY <1>2, <1>4, <1>5, <1>6, <2>1
  <2>2. CASE Linked(x.k.run_queue, u) /\ u \in Threads
    BY <1>6, <2>2
  <2>3. CASE Linked(x.k.run_queue, u) /\ u \notin Threads
    <3>1. /\ x.k.run_queue \in Seq(Threads)
          /\ j.run_queue \in Seq(Threads)
      BY <1>1, <1>7, KernelTypes DEF Joined, QueueOK
    <3>2. u = ListHead
      BY <2>3, <3>1, LinkedElements
    <3> QED
      BY <3>1, <3>2, LinkedElements
  <2> QED
    BY <1>1, <2>1, <2>2, <2>3
<1>10. Len(h) + (n + 1) >= Len(heap)
  <2> DEFINE a == Len(x.heap)
             b == Len(h)
             l == Len(heap)
  <2>1. a \in Nat /\ b = a - 1 /\ l \in Nat /\ a + n >= l
    BY <1>1, <1>2, <1>4, <1>5
  <2> HIDE DEF a, b, l
  <2>2. b + (n + 1) >= l
    BY <2>1
  <2> QED
    BY <2>2 DEF b, l
<1>11. DataOf(h) \subseteq DataOf(heap)
  BY <1>1, <1>2, <1>4, <1>5
<1>12. /\ y \in [k : Kernels, heap : Seq(Impatient), more : BOOLEAN]
       /\ y.k = j /\ y.heap = h
  BY <1>5, <1>7
<1> HIDE DEF y
<1>13. TurnOK(k, heap, n + 1, y)
  BY <1>6, <1>9, <1>10, <1>11, <1>12 DEF TurnOK
<1> QED
  BY <1>13 DEF y, j, h, p, c, t

LEMMA TurnStep ==
  ASSUME NEW k, NEW heap \in Seq(Impatient),
         NEW n \in 1..(Len(heap) - Len(heap) \div 2), NEW x, TurnOK(k, heap, n - 1, x)
  PROVE  TurnOK(k, heap, n, CleanupStep(x))
<1>1. n - 1 \in Nat /\ (n - 1) + 1 = n /\ Len(heap) \in Nat /\ n <= Len(heap)
  <2>1. Len(heap) \in Nat
    OBVIOUS
  <2> QED
    BY <2>1
<1>2. /\ x \in [k : Kernels, heap : Seq(Impatient), more : BOOLEAN]
      /\ Len(x.heap) + (n - 1) >= Len(heap)
      /\ Joined(k, x.k, DataOf(heap))
      /\ DataOf(x.heap) \subseteq DataOf(heap)
      /\ \A u \in DataOf(heap) : u \in DataOf(x.heap) \/ Linked(x.k.run_queue, u)
  BY DEF TurnOK
<1>3. Len(x.heap) \in Nat /\ Len(x.heap) > 0
  <2>1. Len(x.heap) \in Nat
    BY <1>2
  <2> QED
    BY <1>1, <1>2, <2>1
<1>4. CASE ~x.more
  <2>1. CleanupStep(x) = x
    BY <1>4 DEF CleanupStep
  <2>2. Len(x.heap) + n >= Len(heap)
    BY <1>1, <1>2, <1>3
  <2> QED
    BY <1>2, <2>1, <2>2 DEF TurnOK
<1>5. CASE x.more /\ Over(x.k, x.heap)
  <2>1. CleanupStep(x) =
          [k    |-> os_add_task_mmang(x.k, x.heap[1].data),
           heap |-> NextDeadline(pqueue_pop(CountDown(x.heap)), x.heap[1].ticks),
           more |-> TRUE]
    BY <1>5 DEF CleanupStep
  <2>2. TurnOK(k, heap, (n - 1) + 1,
               [k    |-> os_add_task_mmang(x.k, x.heap[1].data),
                heap |-> NextDeadline(pqueue_pop(CountDown(x.heap)), x.heap[1].ticks),
                more |-> TRUE])
    BY <1>1, <1>3, TurnOver
  <2> QED
    BY <1>1, <2>1, <2>2
<1>6. CASE x.more /\ ~Over(x.k, x.heap)
  <2> DEFINE c == CountDown(x.heap)
             y == [k |-> x.k, heap |-> c, more |-> FALSE]
  <2>1. CleanupStep(x) = y
    BY <1>2, <1>6 DEF CleanupStep
  <2>2. c \in Seq(Impatient) /\ Len(c) = Len(x.heap) /\ DataOf(c) = DataOf(x.heap)
    <3>1. EvenWord
      BY Constants
    <3> QED
      BY <1>2, <1>3, <3>1, CountDownEffect DEF Impatient
  <2> HIDE DEF c
  <2>3. /\ y \in [k : Kernels, heap : Seq(Impatient), more : BOOLEAN]
        /\ y.k = x.k /\ y.heap = c
    BY <1>2, <2>2
  <2>4. Len(c) + n >= Len(heap)
    BY <1>1, <1>2, <1>3, <2>2
  <2> HIDE DEF y
  <2>5. TurnOK(k, heap, n, y)
    BY <1>2, <2>2, <2>3, <2>4 DEF TurnOK
  <2> QED
    BY <2>1, <2>5
<1> QED
  BY <1>4, <1>5, <1>6

LEMMA TurnFirst ==
  ASSUME NEW k, QueueOK(k), NEW heap \in Seq(Impatient)
  PROVE  TurnOK(k, heap, 0, [k |-> k, heap |-> heap, more |-> TRUE])
<1> DEFINE first == [k |-> k, heap |-> heap, more |-> TRUE]
<1>1. /\ first \in [k : Kernels, heap : Seq(Impatient), more : BOOLEAN]
      /\ first.k = k /\ first.heap = heap
  BY DEF QueueOK
<1>2. Joined(k, k, DataOf(heap))
  BY JoinedNone
<1>3. Len(heap) + 0 >= Len(heap)
  OBVIOUS
<1> HIDE DEF first
<1>4. TurnOK(k, heap, 0, first)
  BY <1>1, <1>2, <1>3 DEF TurnOK
<1> QED
  BY <1>4 DEF first

\* The loop as a whole.
LEMMA UpdateEffect ==
  ASSUME NEW k, QueueOK(k), NEW heap \in Seq(Impatient)
  PROVE  TurnOK(k, heap, Len(heap) - Len(heap) \div 2, os_update(k, heap))
<1> DEFINE N == Len(heap) - Len(heap) \div 2
           T == [k : Kernels, heap : Seq(Impatient), more : BOOLEAN]
           first == [k |-> k, heap |-> heap, more |-> TRUE]
           turn[n \in 0..N] ==
             IF n = 0 THEN first
             ELSE CHOOSE y \in {CleanupStep(x) : x \in {turn[n - 1]}} : TRUE
           Good == [n \in 0..N |-> {x \in T : TurnOK(k, heap, n, x)}]
           G == [p \in (1..N) \X T |-> CleanupStep(p[2])]
<1>1. N \in Nat
  BY LenProperties
<1>2. os_update(k, heap) = turn[N]
  BY DEF os_update, os_update_turns
<1>3. TurnOK(k, heap, 0, first)
  BY TurnFirst
<1>4. \A n \in 1..N : \A x : TurnOK(k, heap, n - 1, x) => TurnOK(k, heap, n, CleanupStep(x))
  BY TurnStep
<1> HIDE DEF first, N
<1>5. \A n \in 0..N : \A x : x \in Good[n] <=> TurnOK(k, heap, n, x)
  BY DEF TurnOK
<1>6. ASSUME NEW n \in 1..N, NEW x \in Good[n - 1]
      PROVE  G[<<n, x>>] = CleanupStep(x) /\ CleanupStep(x) \in Good[n]
  <2>1. n \in 0..N /\ n - 1 \in 0..N
    BY <1>1
  <2>2. x \in T /\ TurnOK(k, heap, n - 1, x)
    BY <2>1
  <2>3. TurnOK(k, heap, n, CleanupStep(x))
    BY <1>4, <2>2
  <2>4. G[<<n, x>>] = CleanupStep(x)
    BY <2>2
  <2> QED
    BY <1>5, <2>1, <2>3, <2>4
<1> HIDE DEF Good, G, T
<1>7. first \in Good[0]
  <2>1. 0 \in 0..N
    BY <1>1
  <2> QED
    BY <1>3, <1>5, <2>1
<1>8. PICK f : /\ IsLoop(f, N, first, G)
               /\ \A n \in 0..N : f[n] \in Good[n]
  <2>1. \A n \in 1..N : \A x \in Good[n - 1] : G[<<n, x>>] \in Good[n]
    BY <1>6
  <2> QED
    BY <1>1, <1>7, <2>1, LoopFunction
<1>9. f = [n \in 0..N |->
             IF n = 0 THEN first
             ELSE CHOOSE y \in {CleanupStep(x) : x \in {f[n - 1]}} : TRUE]
  <2> DEFINE g == [n \in 0..N |-> IF n = 0 THEN first ELSE G[<<n, f[n - 1]>>]]
             h == [n \in 0..N |->
                     IF n = 0 THEN first
                     ELSE CHOOSE y \in {CleanupStep(x) : x \in {f[n - 1]}} : TRUE]
  <2>1. ASSUME NEW n \in 0..N, n # 0
        PROVE  G[<<n, f[n - 1]>>] = CHOOSE y \in {CleanupStep(x) : x \in {f[n - 1]}} : TRUE
    <3>1. n \in 1..N /\ n - 1 \in 0..N
      BY <1>1, <2>1
    <3>2. G[<<n, f[n - 1]>>] = CleanupStep(f[n - 1])
      BY <1>6, <1>8, <3>1
    <3> QED
      BY <3>2
  <2>2. \A n \in 0..N : g[n] = h[n]
    BY <2>1
  <2>3. g = [n \in 0..N |-> g[n]] /\ h = [n \in 0..N |-> h[n]]
    OBVIOUS
  <2>4. f = g
    BY <1>8 DEF IsLoop
  <2> HIDE DEF g, h
  <2>5. g = h
    BY <2>2, <2>3
  <2> QED
    BY <2>4, <2>5 DEF h
<1>10. turn = [n \in 0..N |->
                 IF n = 0 THEN first
                 ELSE CHOOSE y \in {CleanupStep(x) : x \in {turn[n - 1]}} : TRUE]
  BY <1>9
<1> HIDE DEF turn
<1>11. turn[0] \in Good[0]
  BY <1>1, <1>7, <1>10
<1>12. ASSUME NEW n \in 1..N, turn[n - 1] \in Good[n - 1] PROVE turn[n] \in Good[n]
  <2>1. n \in 0..N /\ n - 1 \in 0..N /\ n # 0
    BY <1>1
  <2>2. turn[n] = CHOOSE y \in {CleanupStep(x) : x \in {turn[n - 1]}} : TRUE
    BY <1>10, <2>1
  <2>3. turn[n] = CleanupStep(turn[n - 1])
    BY <2>2
  <2> QED
    BY <1>6, <1>12, <2>3
<1>13. \A n \in 0..N : turn[n] \in Good[n]
  BY <1>1, <1>11, <1>12, LoopInvariant
<1>14. TurnOK(k, heap, N, turn[N])
  BY <1>1, <1>5, <1>13
<1> QED
  BY <1>2, <1>14 DEF N

-----------------------------------------------------------------------------
(* What a step does, for the invariant, the deadlines and the abstraction. *)

\* The invariant in two parts: the threads ...
ThreadsKept ==
  /\ os \in Kernels /\ PrioritiesOK(os)
  /\ waiting \in [Threads -> Resources \cup {NULL}]
  /\ RunQueueKept
  /\ Preemptible(os)
  /\ WaitersKept

\* ... and what they wait for.
ResourcesKept ==
  /\ sem \in [Semaphores -> [val : Int, wq : Seq(Threads)]]
  /\ mtx \in [Mutexes -> [holder : Threads \cup {NULL}, wq : Seq(Threads)]]
  /\ held \in [Mutexes -> SUBSET Threads]
  /\ base_prio \in [Tasks -> Nat \ {0}]
  /\ t_waitqueue \in Seq(Impatient)
  /\ SemaphoresKept
  /\ MutexesKept
  /\ MutualExclusion

LEMMA TInvParts ==
  TInv <=> ThreadsKept /\ ResourcesKept
BY Zenon DEF TInv, TTypeOK, ThreadsKept, ResourcesKept, Impatient

Token(r) ==
  IF r \in Semaphores THEN IF sem[r].val > 0 THEN sem[r].val ELSE 0
  ELSE IF mtx[r].holder = NULL THEN 1 ELSE 0

\* Of the resources only r changes: its queue becomes q, its tokens n.
Only(r, q, n) ==
  /\ wq(r)' = q
  /\ Token(r)' = n
  /\ \A x \in Resources : x # r => wq(x)' = wq(x) /\ Token(x)' = Token(x)

Suspension(t) == IF t \in Patient THEN "BLOCKING" ELSE "SLEEPING"

\* The running thread t starts to wait for r.
Enqueued(t, r) ==
  /\ waiting[t] = NULL
  /\ Token(r) = 0
  /\ Only(r, Append(wq(r), t), 0)
  /\ waiting' = [waiting EXCEPT ![t] = r]
  /\ Became(os, os', t, Suspension(t))
  /\ IF t \in Patient THEN UNCHANGED t_waitqueue
     ELSE \E x \in Limits : t_waitqueue' = pqueue_push(t_waitqueue, Deadline(t, x))

\* It passes r to the thread that has waited longest.
HandedOver(t, r) ==
  /\ wq(r) # <<>>
  /\ Only(r, Tail(wq(r)), Token(r))
  /\ Became(os, os', Head(wq(r)), "ACTIVE")
  /\ UNCHANGED <<waiting, t_waitqueue>>

\* It gets r, or leaves it behind, without a wait.
Took(t, r) ==
  /\ waiting[t] = NULL
  /\ Token(r) > 0
  /\ Only(r, wq(r), Token(r) - 1)
  /\ Became(os, os', t, "ACTIVE")
  /\ UNCHANGED <<waiting, t_waitqueue>>

Deposited(t, r) ==
  /\ waiting[t] = NULL
  /\ wq(r) = <<>>
  /\ Only(r, wq(r), Token(r) + 1)
  /\ Became(os, os', t, "ACTIVE")
  /\ UNCHANGED <<waiting, t_waitqueue>>

\* It leaves the wait in which it was chosen.
Departed(t, r) ==
  /\ waiting[t] = r
  /\ ~Queued(t, r)
  /\ Only(r, wq(r), Token(r))
  /\ waiting' = [waiting EXCEPT ![t] = NULL]
  /\ UNCHANGED <<os, t_waitqueue>>

\* It leaves a wait that nobody has ended.
GaveUp(t, r) ==
  /\ waiting[t] = r
  /\ wq(r) = <<t>>
  /\ Only(r, <<>>, Token(r))
  /\ waiting' = [waiting EXCEPT ![t] = NULL]
  /\ Became(os, os', t, "ACTIVE")
  /\ UNCHANGED t_waitqueue

Did(t, r) ==
  /\ CanRun(t)
  /\ \/ Enqueued(t, r)
     \/ HandedOver(t, r)
     \/ Took(t, r)
     \/ Deposited(t, r)
     \/ Departed(t, r)
     \/ GaveUp(t, r)

-----------------------------------------------------------------------------
(* Facts about a running thread and about the queues.                      *)

LEMMA Types ==
  ASSUME TInv
  PROVE  /\ os \in Kernels
         /\ PrioritiesOK(os)
         /\ QueueOK(os)
         /\ \A t \in Threads : waiting[t] \in Resources \cup {NULL}
         /\ \A s \in Semaphores : sem[s] \in [val : Int, wq : Seq(Threads)]
         /\ \A m \in Mutexes : mtx[m] \in [holder : Threads \cup {NULL}, wq : Seq(Threads)]
         /\ \A m \in Mutexes : held[m] \subseteq Threads
         /\ \A r \in Resources : wq(r) \in Seq(Threads)
<1>1. /\ os \in Kernels /\ PrioritiesOK(os)
      /\ sem \in [Semaphores -> [val : Int, wq : Seq(Threads)]]
      /\ mtx \in [Mutexes -> [holder : Threads \cup {NULL}, wq : Seq(Threads)]]
      /\ held \in [Mutexes -> SUBSET Threads]
      /\ waiting \in [Threads -> Resources \cup {NULL}]
  BY DEF TInv, TTypeOK
<1>2. QueueOK(os)
  BY <1>1 DEF TInv, RunQueueKept, QueueOK, Distinct
<1>3. \A r \in Resources : wq(r) \in Seq(Threads)
  BY <1>1 DEF wq, Resources
<1> QED
  BY <1>1, <1>2, <1>3

LEMMA CallerRuns ==
  ASSUME TInv, NEW t \in Threads, CanRun(t)
  PROVE  /\ Preemptible(os) /\ NestOK(os)
         /\ os.run_ptr = t
         /\ os.it = t
         /\ Linked(os.run_queue, t)
         /\ os.run_queue # <<>>
         /\ ~os.wdtifg
<1>1. os.run_ptr = t /\ ~(os.gie /\ os.wdtifg)
  BY DEF CanRun
<1>2. Preemptible(os)
  BY DEF TInv
<1>3. NestOK(os) /\ ~os.wdtifg
  <2>1. os.gie \in BOOLEAN
    BY Types, KernelTypes
  <2> QED
    BY <1>1, <1>2, <2>1 DEF Preemptible, NestOK
<1>4. os.it = t /\ Linked(os.run_queue, t)
  BY <1>1, <1>3 DEF TInv, RunQueueKept
<1>5. os.run_queue # <<>>
  <2>1. os.run_queue \in Seq(Threads)
    BY Types, KernelTypes
  <2> QED
    BY <1>4, <2>1, LinkedElements
<1> QED
  BY <1>1, <1>2, <1>3, <1>4, <1>5

\* Who is in a queue is inside a wait for it and not ACTIVE.
LEMMA QueuedWaits ==
  ASSUME TInv, NEW t \in Threads, NEW r \in Resources, Queued(t, r)
  PROVE  waiting[t] = r /\ os.state[t] = Suspension(t)
BY DEF TInv, WaitersKept, Suspension

\* A thread in its own code is in no queue and ACTIVE.
LEMMA UserFacts ==
  ASSUME TInv, NEW t \in Threads, waiting[t] = NULL
  PROVE  /\ os.state[t] = "ACTIVE"
         /\ \A r \in Resources : ~Queued(t, r)
<1>1. NULL \notin Resources
  BY Constants
<1>2. ASSUME NEW r \in Resources PROVE ~Queued(t, r)
  BY <1>1, QueuedWaits
<1>3. os.state[t] \in ThreadStates
  BY Types, KernelTypes DEF Tasks
<1>4. os.state[t] \notin Suspended
  BY <1>1 DEF TInv, WaitersKept
<1> QED
  BY <1>2, <1>3, <1>4 DEF Suspended, ThreadStates

LEMMA QueuesDistinct ==
  ASSUME TInv, NEW r \in Resources
  PROVE  Distinct(wq(r))
<1>1. CASE r \in Semaphores
  <2>1. wq(r) = sem[r].wq /\ wq(r) \in Seq(Threads)
    BY <1>1, Types DEF wq
  <2>2. Len(wq(r)) = 1 \/ wq(r) = <<>>
    BY <1>1, <2>1 DEF TInv, SemaphoresKept
  <2> QED
    BY <2>1, <2>2 DEF Distinct
<1>2. CASE r \in Mutexes
  <2>1. r \notin Semaphores
    BY <1>2, Constants
  <2>2. wq(r) = mtx[r].wq
    BY <2>1 DEF wq
  <2> QED
    BY <1>2, <2>2 DEF TInv, MutexesKept, Distinct
<1> QED
  BY <1>1, <1>2 DEF Resources

\* The first of a queue.
LEMMA FirstQueued ==
  ASSUME TInv, NEW r \in Resources, wq(r) # <<>>
  PROVE  /\ Head(wq(r)) \in Threads
         /\ Queued(Head(wq(r)), r)
         /\ Tail(wq(r)) \in Seq(Threads)
         /\ Distinct(Tail(wq(r)))
         /\ \A u : (\E i \in 1..Len(Tail(wq(r))) : Tail(wq(r))[i] = u)
                     <=> Queued(u, r) /\ u # Head(wq(r))
<1>1. wq(r) \in Seq(Threads) /\ Distinct(wq(r))
  BY Types, QueuesDistinct
<1>2. Len(wq(r)) # 0
  BY <1>1
<1>3. /\ Head(wq(r)) \in Threads
      /\ Waits(Head(wq(r)), wq(r))
      /\ Tail(wq(r)) \in Seq(Threads)
      /\ Distinct(Tail(wq(r)))
      /\ \A u : Waits(u, Tail(wq(r))) <=> Waits(u, wq(r)) /\ u # Head(wq(r))
  BY <1>1, <1>2, PopElements
<1>4. \A u : Queued(u, r) <=> Waits(u, wq(r))
  BY DEF Queued, Waits
<1> QED
  BY <1>3, <1>4 DEF Waits

\* The last.
LEMMA LastQueued ==
  ASSUME TInv, NEW r \in Resources, NEW t \in Threads, ~Queued(t, r)
  PROVE  /\ queue_wait_push(wq(r), t) = Append(wq(r), t)
         /\ Append(wq(r), t) \in Seq(Threads)
         /\ Distinct(Append(wq(r), t))
         /\ \A u : (\E i \in 1..Len(Append(wq(r), t)) : Append(wq(r), t)[i] = u)
                     <=> Queued(u, r) \/ u = t
<1>1. wq(r) \in Seq(Threads) /\ Distinct(wq(r))
  BY Types, QueuesDistinct
<1>2. ~Waits(t, wq(r))
  BY DEF Queued, Waits
<1>3. NUM_THREADS \in Nat /\ Cardinality(Threads) <= NUM_THREADS
  BY Constants
<1>4. /\ queue_wait_push(wq(r), t) = Append(wq(r), t)
      /\ queue_wait_push(wq(r), t) \in Seq(Threads)
      /\ Distinct(queue_wait_push(wq(r), t))
      /\ \A u : Waits(u, queue_wait_push(wq(r), t)) <=> Waits(u, wq(r)) \/ u = t
  BY <1>1, <1>2, <1>3, PushElements
<1>5. \A u : Queued(u, r) <=> Waits(u, wq(r))
  BY DEF Queued, Waits
<1> QED
  BY <1>4, <1>5 DEF Waits

-----------------------------------------------------------------------------
(* The threads after a step.                                               *)

LEMMA KernelKept ==
  ASSUME TInv, NEW t \in Threads, CanRun(t),
         NEW u \in Threads, NEW st \in ThreadStates, Became(os, os', u, st),
         st # "ACTIVE" => u = t
  PROVE  (os \in Kernels /\ PrioritiesOK(os) /\ RunQueueKept /\ Preemptible(os))'
<1>1. /\ QueueOK(os')
      /\ \A v \in Threads :
           Linked(os'.run_queue, v) <=> IF v = u THEN st = "ACTIVE" ELSE Linked(os.run_queue, v)
      /\ os'.run_ptr = os.run_ptr
      /\ \A v \in Tasks : os'.state[v] = IF v = u THEN st ELSE os.state[v]
      /\ PrioritiesOK(os) => PrioritiesOK(os')
      /\ os'.nest = os.nest
      /\ os'.gie = os.gie
      /\ IF st = "ACTIVE"
         THEN os'.wdtifg = os.wdtifg /\ (os.run_queue # <<>> => os'.it = os.it)
         ELSE os'.wdtifg
  BY DEF Became
<1>2. /\ Preemptible(os)
      /\ os.run_ptr = t
      /\ os.it = t
      /\ Linked(os.run_queue, t)
      /\ os.run_queue # <<>>
      /\ ~os.wdtifg
  BY CallerRuns
<1>3. PrioritiesOK(os) /\ RunQueueKept
  BY DEF TInv, TTypeOK
<1>4. (os \in Kernels /\ PrioritiesOK(os))'
  BY <1>1, <1>3 DEF QueueOK
<1>5. Preemptible(os')
  BY <1>1, <1>2 DEF Preemptible
<1>6. ASSUME NEW v \in Threads
      PROVE  /\ ~Linked(os'.run_queue, v) => os'.state[v] \in Suspended
             /\ os'.state[v] = "BLOCKING" => ~Linked(os'.run_queue, v)
  <2>1. v \in Tasks
    BY DEF Tasks
  <2>2. CASE v = u
    BY <1>1, <2>1, <2>2 DEF ThreadStates, Suspended
  <2>3. CASE v # u
    BY <1>1, <1>3, <2>1, <2>3 DEF RunQueueKept
  <2> QED
    BY <2>2, <2>3
<1>7. /\ ~os'.wdtifg => os'.it = os'.run_ptr /\ Linked(os'.run_queue, os'.run_ptr)
      /\ os'.state[os'.run_ptr] = "ACTIVE" => os'.it = os'.run_ptr
  <2>1. t \in Tasks
    BY DEF Tasks
  <2>2. CASE st = "ACTIVE"
    <3>1. os'.it = t /\ os'.run_ptr = t /\ Linked(os'.run_queue, t)
      BY <1>1, <1>2, <2>2
    <3> QED
      BY <3>1
  <2>3. CASE st # "ACTIVE"
    BY <1>1, <1>2, <2>1, <2>3
  <2> QED
    BY <2>2, <2>3
<1>8. RunQueueKept'
  BY <1>1, <1>6, <1>7 DEF RunQueueKept, QueueOK, Distinct
<1> QED
  BY <1>4, <1>5, <1>8

\* One thread moves, the others stay where they are.
LEMMA WaitersMove ==
  ASSUME TInv, NEW u \in Threads,
         \A v \in Threads : v # u =>
           /\ waiting'[v] = waiting[v]
           /\ os'.state[v] = os.state[v]
           /\ \A r \in Resources : Queued(v, r)' <=> Queued(v, r),
         os'.state[u] \in Suspended =>
           \E r \in Resources : waiting'[u] = r /\ Queued(u, r)',
         \A r \in Resources : Queued(u, r)' =>
           waiting'[u] = r /\ os'.state[u] = Suspension(u)
  PROVE  WaitersKept'
<1>1. ASSUME NEW v \in Threads
      PROVE  /\ os'.state[v] \in Suspended =>
                  \E r \in Resources : waiting'[v] = r /\ Queued(v, r)'
             /\ \A r \in Resources : Queued(v, r)' =>
                  waiting'[v] = r /\ os'.state[v] = Suspension(v)
  <2>1. CASE v = u
    BY <2>1
  <2>2. CASE v # u
    <3>1. /\ os.state[v] \in Suspended =>
               \E r \in Resources : waiting[v] = r /\ Queued(v, r)
          /\ \A r \in Resources : Queued(v, r) =>
               waiting[v] = r /\ os.state[v] = Suspension(v)
      BY DEF TInv, WaitersKept, Suspension
    <3>2. /\ waiting'[v] = waiting[v]
          /\ os'.state[v] = os.state[v]
          /\ \A r \in Resources : Queued(v, r)' <=> Queued(v, r)
      BY <2>2
    <3> QED
      BY <3>1, <3>2
  <2> QED
    BY <2>1, <2>2
<1> QED
  BY <1>1 DEF WaitersKept, Suspension, Queued, wq

\* The queues of the others, when one queue changes by one thread.
LEMMA OthersQueued ==
  ASSUME NEW r \in Resources, NEW q, NEW n, Only(r, q, n), NEW u,
         \A v \in Threads : v # u =>
           ((\E i \in 1..Len(q) : q[i] = v) <=> Queued(v, r))
  PROVE  /\ \A v \in Threads : v # u => \A x \in Resources : Queued(v, x)' <=> Queued(v, x)
         /\ \A v, x : x \in Resources /\ x # r => (Queued(v, x)' <=> Queued(v, x))
         /\ \A v : Queued(v, r)' <=> \E i \in 1..Len(q) : q[i] = v
<1>1. \A v : Queued(v, r)' <=> \E i \in 1..Len(q) : q[i] = v
  BY DEF Queued, Only
<1>2. \A v, x : x \in Resources /\ x # r => (Queued(v, x)' <=> Queued(v, x))
  BY DEF Queued, Only
<1>3. \A v \in Threads : v # u => \A x \in Resources : Queued(v, x)' <=> Queued(v, x)
  BY <1>1, <1>2
<1> QED
  BY <1>1, <1>2, <1>3

LEMMA EnqueuedThreads ==
  ASSUME TInv, NEW t \in Threads, NEW r \in Resources, CanRun(t),
         Enqueued(t, r)
  PROVE  ThreadsKept'
<1>1. /\ waiting[t] = NULL
      /\ Only(r, Append(wq(r), t), 0)
      /\ waiting' = [waiting EXCEPT ![t] = r]
      /\ Became(os, os', t, Suspension(t))
  BY DEF Enqueued
<1>2. \A x \in Resources : ~Queued(t, x)
  BY <1>1, UserFacts
<1>3. \A u : (\E i \in 1..Len(Append(wq(r), t)) : Append(wq(r), t)[i] = u)
               <=> Queued(u, r) \/ u = t
  BY <1>2, LastQueued
<1>4. /\ \A v \in Threads : v # t => \A x \in Resources : Queued(v, x)' <=> Queued(v, x)
      /\ \A v, x : x \in Resources /\ x # r => (Queued(v, x)' <=> Queued(v, x))
      /\ \A v : Queued(v, r)' <=> Queued(v, r) \/ v = t
  <2> DEFINE q == Append(wq(r), t)
  <2>1. \A v \in Threads : v # t => ((\E i \in 1..Len(q) : q[i] = v) <=> Queued(v, r))
    BY <1>3
  <2>2. \A u : (\E i \in 1..Len(q) : q[i] = u) <=> Queued(u, r) \/ u = t
    BY <1>3
  <2>3. Only(r, q, 0)
    BY <1>1
  <2> HIDE DEF q
  <2>4. /\ \A v \in Threads : v # t => \A x \in Resources : Queued(v, x)' <=> Queued(v, x)
        /\ \A v, x : x \in Resources /\ x # r => (Queued(v, x)' <=> Queued(v, x))
        /\ \A v : Queued(v, r)' <=> \E i \in 1..Len(q) : q[i] = v
    BY <2>1, <2>3, OthersQueued
  <2> QED
    BY <2>2, <2>4
<1>5. waiting \in [Threads -> Resources \cup {NULL}]
  BY DEF TInv, TTypeOK
<1>6. /\ waiting' \in [Threads -> Resources \cup {NULL}]
      /\ waiting'[t] = r
      /\ \A v \in Threads : v # t => waiting'[v] = waiting[v]
  BY <1>1, <1>5
<1>7. Suspension(t) \in ThreadStates
  BY DEF Suspension, ThreadStates
<1>8. (os \in Kernels /\ PrioritiesOK(os) /\ RunQueueKept /\ Preemptible(os))'
  BY <1>1, <1>7, KernelKept
<1>9. \A v \in Threads : os'.state[v] = IF v = t THEN Suspension(t) ELSE os.state[v]
  BY <1>1 DEF Became, Tasks
<1>10. WaitersKept'
  BY <1>2, <1>4, <1>6, <1>9, WaitersMove
<1> QED
  BY <1>6, <1>8, <1>10 DEF ThreadsKept

LEMMA HandedOverThreads ==
  ASSUME TInv, NEW t \in Threads, NEW r \in Resources, CanRun(t),
         HandedOver(t, r)
  PROVE  ThreadsKept'
<1>1. PICK u, q : u = Head(wq(r)) /\ q = Tail(wq(r))
  OBVIOUS
<1>2. /\ wq(r) # <<>>
      /\ Only(r, q, Token(r))
      /\ Became(os, os', u, "ACTIVE")
      /\ waiting' = waiting
  BY <1>1 DEF HandedOver
<1>3. /\ u \in Threads
      /\ Queued(u, r)
      /\ \A v : (\E i \in 1..Len(q) : q[i] = v) <=> Queued(v, r) /\ v # u
  BY <1>1, <1>2, FirstQueued
<1>4. \A v \in Threads : v # u => ((\E i \in 1..Len(q) : q[i] = v) <=> Queued(v, r))
  BY <1>3
<1>5. /\ \A v \in Threads : v # u => \A x \in Resources : Queued(v, x)' <=> Queued(v, x)
      /\ \A v, x : x \in Resources /\ x # r => (Queued(v, x)' <=> Queued(v, x))
      /\ \A v : Queued(v, r)' <=> \E i \in 1..Len(q) : q[i] = v
  <2>1. PICK n : Only(r, q, n)
    BY <1>2
  <2> QED
    BY <1>4, <2>1, OthersQueued
<1>6. ASSUME NEW x \in Resources, Queued(u, x)' PROVE FALSE
  <2>1. x # r
    BY <1>3, <1>5, <1>6
  <2>2. Queued(u, x)
    BY <1>5, <1>6, <2>1
  <2>3. waiting[u] = x /\ waiting[u] = r
    BY <1>3, <2>2, QueuedWaits
  <2> QED
    BY <2>1, <2>3
<1>7. waiting \in [Threads -> Resources \cup {NULL}]
  BY DEF TInv, TTypeOK
<1>8. "ACTIVE" \in ThreadStates
  BY DEF ThreadStates
<1>9. (os \in Kernels /\ PrioritiesOK(os) /\ RunQueueKept /\ Preemptible(os))'
  BY <1>2, <1>3, <1>8, KernelKept
<1>10. \A v \in Threads : os'.state[v] = IF v = u THEN "ACTIVE" ELSE os.state[v]
  BY <1>2 DEF Became, Tasks
<1>11. os'.state[u] \notin Suspended
  BY <1>3, <1>10 DEF Suspended
<1>12. WaitersKept'
  BY <1>2, <1>3, <1>5, <1>6, <1>10, <1>11, WaitersMove
<1> QED
  BY <1>2, <1>7, <1>9, <1>12 DEF ThreadsKept

LEMMA QueuesUnchanged ==
  ASSUME NEW r \in Resources, NEW n, Only(r, wq(r), n)
  PROVE  \A v, x : x \in Resources => (Queued(v, x)' <=> Queued(v, x))
BY DEF Only, Queued

LEMMA ServedThreads ==
  ASSUME TInv, NEW t \in Threads, NEW r \in Resources, CanRun(t),
         Took(t, r) \/ Deposited(t, r)
  PROVE  ThreadsKept'
<1>1. PICK n : /\ Only(r, wq(r), n)
               /\ waiting[t] = NULL
               /\ Became(os, os', t, "ACTIVE")
               /\ waiting' = waiting
  BY DEF Took, Deposited
<1>2. \A v, x : x \in Resources => (Queued(v, x)' <=> Queued(v, x))
  BY <1>1, QueuesUnchanged
<1>3. \A x \in Resources : ~Queued(t, x)
  BY <1>1, UserFacts
<1>4. waiting \in [Threads -> Resources \cup {NULL}]
  BY DEF TInv, TTypeOK
<1>5. "ACTIVE" \in ThreadStates
  BY DEF ThreadStates
<1>6. (os \in Kernels /\ PrioritiesOK(os) /\ RunQueueKept /\ Preemptible(os))'
  BY <1>1, <1>5, KernelKept
<1>7. \A v \in Threads : os'.state[v] = IF v = t THEN "ACTIVE" ELSE os.state[v]
  BY <1>1 DEF Became, Tasks
<1>8. os'.state[t] \notin Suspended
  BY <1>7 DEF Suspended
<1>9. WaitersKept'
  BY <1>1, <1>2, <1>3, <1>7, <1>8, WaitersMove
<1> QED
  BY <1>1, <1>4, <1>6, <1>9 DEF ThreadsKept

LEMMA DepartedThreads ==
  ASSUME TInv, NEW t \in Threads, NEW r \in Resources, CanRun(t),
         Departed(t, r)
  PROVE  ThreadsKept'
<1>1. Preemptible(os)
  BY CallerRuns
<1>2. /\ waiting[t] = r
      /\ ~Queued(t, r)
      /\ Only(r, wq(r), Token(r))
      /\ waiting' = [waiting EXCEPT ![t] = NULL]
      /\ os' = os
  BY DEF Departed
<1>3. \A v, x : x \in Resources => (Queued(v, x)' <=> Queued(v, x))
  BY <1>2, QueuesUnchanged
<1>4. ASSUME NEW x \in Resources PROVE ~Queued(t, x)'
  <2>1. SUFFICES ASSUME Queued(t, x) PROVE FALSE
    BY <1>3
  <2>2. waiting[t] = x
    BY <1>1, <2>1, QueuedWaits
  <2> QED
    BY <1>2, <2>1, <2>2
<1>5. os.state[t] \notin Suspended
  BY <1>2 DEF TInv, WaitersKept
<1>6. waiting \in [Threads -> Resources \cup {NULL}]
  BY DEF TInv, TTypeOK
<1>7. /\ waiting' \in [Threads -> Resources \cup {NULL}]
      /\ waiting'[t] = NULL
      /\ \A v \in Threads : v # t => waiting'[v] = waiting[v]
  BY <1>2, <1>6
<1>8. (os \in Kernels /\ PrioritiesOK(os) /\ RunQueueKept)'
  BY <1>2 DEF TInv, TTypeOK, RunQueueKept
<1>9. Preemptible(os')
  BY <1>1, <1>2
<1>10. WaitersKept'
  BY <1>1, <1>2, <1>3, <1>4, <1>5, <1>7, WaitersMove
<1> QED
  BY <1>7, <1>8, <1>9, <1>10 DEF ThreadsKept

LEMMA GaveUpThreads ==
  ASSUME TInv, NEW t \in Threads, NEW r \in Resources, CanRun(t),
         GaveUp(t, r)
  PROVE  ThreadsKept'
<1>1. /\ waiting[t] = r
      /\ wq(r) = <<t>>
      /\ Only(r, <<>>, Token(r))
      /\ waiting' = [waiting EXCEPT ![t] = NULL]
      /\ Became(os, os', t, "ACTIVE")
  BY DEF GaveUp
<1>2. \A v : Queued(v, r) <=> v = t
  BY <1>1 DEF Queued
<1>3. /\ \A v \in Threads : v # t => \A x \in Resources : Queued(v, x)' <=> Queued(v, x)
      /\ \A v, x : x \in Resources /\ x # r => (Queued(v, x)' <=> Queued(v, x))
      /\ \A v : ~Queued(v, r)'
  <2> DEFINE q == <<>>
  <2>1. \A v : ~(\E i \in 1..Len(q) : q[i] = v)
    OBVIOUS
  <2>2. Only(r, q, Token(r))
    BY <1>1
  <2> HIDE DEF q
  <2>3. \A v \in Threads : v # t => ((\E i \in 1..Len(q) : q[i] = v) <=> Queued(v, r))
    BY <1>2, <2>1
  <2>4. /\ \A v \in Threads : v # t => \A x \in Resources : Queued(v, x)' <=> Queued(v, x)
        /\ \A v, x : x \in Resources /\ x # r => (Queued(v, x)' <=> Queued(v, x))
        /\ \A v : Queued(v, r)' <=> \E i \in 1..Len(q) : q[i] = v
    BY <2>2, <2>3, OthersQueued
  <2> QED
    BY <2>1, <2>4
<1>4. ASSUME NEW x \in Resources PROVE ~Queued(t, x)'
  <2>1. CASE x = r
    BY <1>3, <2>1
  <2>2. CASE x # r
    <3>1. Queued(t, x) => waiting[t] = x
      BY QueuedWaits
    <3> QED
      BY <1>1, <1>3, <2>2, <3>1
  <2> QED
    BY <2>1, <2>2
<1>5. waiting \in [Threads -> Resources \cup {NULL}]
  BY DEF TInv, TTypeOK
<1>6. /\ waiting' \in [Threads -> Resources \cup {NULL}]
      /\ waiting'[t] = NULL
      /\ \A v \in Threads : v # t => waiting'[v] = waiting[v]
  BY <1>1, <1>5
<1>7. "ACTIVE" \in ThreadStates
  BY DEF ThreadStates
<1>8. (os \in Kernels /\ PrioritiesOK(os) /\ RunQueueKept /\ Preemptible(os))'
  BY <1>1, <1>7, KernelKept
<1>9. \A v \in Threads : os'.state[v] = IF v = t THEN "ACTIVE" ELSE os.state[v]
  BY <1>1 DEF Became, Tasks
<1>10. os'.state[t] \notin Suspended
  BY <1>9 DEF Suspended
<1>11. WaitersKept'
  BY <1>3, <1>4, <1>6, <1>9, <1>10, WaitersMove
<1> QED
  BY <1>6, <1>8, <1>11 DEF ThreadsKept

LEMMA DidThreads ==
  ASSUME TInv, NEW t \in Threads, NEW r \in Resources, Did(t, r)
  PROVE  ThreadsKept'
BY EnqueuedThreads, HandedOverThreads, ServedThreads, DepartedThreads, GaveUpThreads
DEF Did

\* The tick: os_update puts threads on the run queue whose deadline it takes off
\* the heap, and the scheduler goes round.
LEMMA TickJoins ==
  ASSUME TInv, TTick
  PROVE  \E k : /\ Joined(os, k, DataOf(t_waitqueue))
                /\ Rescheduled(k, os')
                /\ os'.gie
                /\ t_waitqueue' \in Seq(Impatient)
                /\ \A u \in DataOf(t_waitqueue) :
                     u \in DataOf(t_waitqueue') \/ Linked(k.run_queue, u)
<1>1. QueueOK(os) /\ PrioritiesOK(os) /\ os.run_ptr \in Tasks
  BY Types, KernelTypes
<1>2. t_waitqueue \in Seq(Impatient)
  BY DEF TInv, TTypeOK, Impatient
<1>3. PICK x : /\ x = os_update(os, t_waitqueue)
               /\ os' = os_tick(x.k)
               /\ t_waitqueue' = x.heap
  BY DEF TTick, Update
<1>4. PICK n : TurnOK(os, t_waitqueue, n, x)
  BY <1>1, <1>2, <1>3, UpdateEffect
<1>5. /\ x.heap \in Seq(Impatient)
      /\ Joined(os, x.k, DataOf(t_waitqueue))
      /\ \A u \in DataOf(t_waitqueue) : u \in DataOf(x.heap) \/ Linked(x.k.run_queue, u)
  BY <1>4 DEF TurnOK
<1>6. QueueOK(x.k) /\ x.k.working_prio[x.k.run_ptr] > 0
  BY <1>1, <1>5 DEF Joined, PrioritiesOK
<1>7. Rescheduled(x.k, os') /\ os'.gie
  BY <1>3, <1>6, TickEffect
<1> QED
  BY <1>3, <1>5, <1>7

LEMMA TickThreads ==
  ASSUME TInv, TTick
  PROVE  ThreadsKept'
<1>1. PICK k : /\ Joined(os, k, DataOf(t_waitqueue))
               /\ Rescheduled(k, os')
               /\ os'.gie
  BY TickJoins
<1>2. /\ QueueOK(k)
      /\ \A u \in Threads : Linked(os.run_queue, u) => Linked(k.run_queue, u)
      /\ \A u \in Threads : Linked(k.run_queue, u) =>
           Linked(os.run_queue, u) \/ u \in DataOf(t_waitqueue)
      /\ os.run_queue # <<>> => k.run_queue # <<>> /\ k.it = os.it
      /\ k.run_ptr = os.run_ptr
      /\ k.state = os.state
      /\ k.fixed_prio = os.fixed_prio
      /\ k.working_prio = os.working_prio
      /\ k.nest = os.nest
  BY <1>1 DEF Joined
<1>3. /\ QueueOK(os')
      /\ os'.run_queue = k.run_queue
      /\ os'.state = k.state
      /\ os'.fixed_prio = k.fixed_prio
      /\ os'.nest = k.nest
      /\ \A t \in Tasks :
           os'.working_prio[t] = IF t = k.run_ptr THEN SliceLeft(k) ELSE k.working_prio[t]
      /\ IF k.run_queue = <<>> THEN os'.run_ptr = Idle
         ELSE IF SliceOver(k)
         THEN /\ os'.run_ptr \in Threads
              /\ Linked(os'.run_queue, os'.run_ptr)
              /\ os'.it = os'.run_ptr
         ELSE os'.run_ptr = k.run_ptr /\ os'.it = k.it
  BY <1>1 DEF Rescheduled
<1>4. os.gie /\ UNCHANGED <<sem, mtx, waiting>>
  BY DEF TTick, Update
<1>5. Preemptible(os) /\ os.run_ptr \in Tasks
  BY <1>4, Types, KernelTypes DEF TInv
<1>6. RunQueueKept /\ WaitersKept /\ PrioritiesOK(os) /\ os \in Kernels
  BY DEF TInv, TTypeOK
<1>7. PrioritiesOK(os')
  <2>1. \A t \in Tasks : k.working_prio[t] \in Nat /\ k.fixed_prio[t] > 0 /\ k.working_prio[t] > 0
    BY <1>2, <1>6, KernelTypes DEF PrioritiesOK
  <2>2. SliceLeft(k) > 0
    BY <1>2, <1>5, <2>1 DEF SliceLeft, SliceOver
  <2> QED
    BY <1>3, <2>1, <2>2 DEF PrioritiesOK
<1>8. Preemptible(os')
  BY <1>1, <1>2, <1>3, <1>5 DEF Preemptible
<1>9. \A t \in Threads, r \in Resources : Queued(t, r)' <=> Queued(t, r)
  BY <1>4 DEF Queued, wq
<1>10. WaitersKept'
  <2>2. \A t \in Threads :
          /\ os.state[t] \in Suspended =>
               \E r \in Resources : waiting[t] = r /\ Queued(t, r)
          /\ \A r \in Resources : Queued(t, r) =>
               waiting[t] = r /\ os.state[t] = Suspension(t)
    BY <1>6 DEF WaitersKept, Suspension
  <2>3. \A t \in Threads :
          /\ os'.state[t] \in Suspended =>
               \E r \in Resources : waiting'[t] = r /\ Queued(t, r)'
          /\ \A r \in Resources : Queued(t, r)' =>
               waiting'[t] = r /\ os'.state[t] = Suspension(t)
    BY <1>2, <1>3, <1>4, <1>9, <2>2
  <2> QED
    BY <2>3 DEF WaitersKept, Suspension, Queued, wq
<1>11. ASSUME NEW v \in Threads, os.state[v] = "BLOCKING" PROVE ~Linked(k.run_queue, v)
  <2>1. ~Linked(os.run_queue, v)
    BY <1>6, <1>11 DEF RunQueueKept
  <2>2. PICK r \in Resources : waiting[v] = r /\ Queued(v, r)
    BY <1>6, <1>11 DEF WaitersKept, Suspended
  <2>3. os.state[v] = Suspension(v)
    BY <1>5, <2>2, QueuedWaits
  <2>4. v \in Patient
    BY <1>11, <2>3 DEF Suspension
  <2>5. v \notin DataOf(t_waitqueue)
    <3>1. t_waitqueue \in Seq(Impatient)
      BY DEF TInv, TTypeOK, Impatient
    <3>2. \A i \in 1..Len(t_waitqueue) : t_waitqueue[i] \in Impatient
      BY <3>1
    <3> QED
      BY <2>4, <3>2 DEF DataOf, Impatient, Deadlines
  <2> QED
    BY <1>2, <2>1, <2>5
<1>12. ASSUME os'.run_ptr \in Threads
       PROVE  os'.it = os'.run_ptr /\ Linked(os'.run_queue, os'.run_ptr)
  <2>1. k.run_queue # <<>>
    BY <1>3, <1>12, KernelAssumption
  <2>2. CASE SliceOver(k)
    BY <1>3, <2>1, <2>2
  <2>3. CASE ~SliceOver(k)
    <3>1. os'.run_ptr = os.run_ptr /\ os'.it = k.it /\ os.state[os.run_ptr] \notin Suspended
      BY <1>2, <1>3, <2>1, <2>3 DEF SliceOver
    <3>2. os.state[os.run_ptr] = "ACTIVE"
      BY <1>5, <1>6, <3>1, KernelTypes DEF ThreadStates, Suspended
    <3>3. os.it = os.run_ptr /\ Linked(os.run_queue, os.run_ptr)
      BY <1>6, <1>12, <3>1, <3>2 DEF RunQueueKept
    <3>4. os.run_queue # <<>>
      BY <1>6, <1>12, <3>1, <3>3, KernelTypes, LinkedElements
    <3> QED
      BY <1>2, <1>3, <1>12, <3>1, <3>3, <3>4
  <2> QED
    BY <2>2, <2>3
<1>13. \A v \in Threads :
         /\ ~Linked(os'.run_queue, v) => os'.state[v] \in Suspended
         /\ os'.state[v] = "BLOCKING" => ~Linked(os'.run_queue, v)
  BY <1>2, <1>3, <1>6, <1>11 DEF RunQueueKept
<1>14. RunQueueKept'
  BY <1>3, <1>12, <1>13 DEF RunQueueKept, QueueOK, Distinct
<1>15. waiting' \in [Threads -> Resources \cup {NULL}]
  BY <1>4 DEF TInv, TTypeOK
<1> QED
  BY <1>3, <1>7, <1>8, <1>10, <1>14, <1>15 DEF ThreadsKept, QueueOK

-----------------------------------------------------------------------------
(* The semaphores and the mutexes after a step.                            *)

\* Semaphore s becomes v, mutex m becomes v, and no other changes.
SemNow(s, v) ==
  /\ sem' \in [Semaphores -> [val : Int, wq : Seq(Threads)]]
  /\ sem'[s] = v
  /\ \A x \in Semaphores : x # s => sem'[x] = sem[x]

MtxNow(m, v) ==
  /\ mtx' \in [Mutexes -> [holder : Threads \cup {NULL}, wq : Seq(Threads)]]
  /\ mtx'[m] = v
  /\ \A x \in Mutexes : x # m => mtx'[x] = mtx[x]

LEMMA SemChanges ==
  ASSUME TInv, NEW s \in Semaphores, NEW v \in [val : Int, wq : Seq(Threads)],
         sem' = [sem EXCEPT ![s] = v]
  PROVE  SemNow(s, v)
<1>1. sem \in [Semaphores -> [val : Int, wq : Seq(Threads)]]
  BY DEF TInv, TTypeOK
<1> QED
  BY <1>1 DEF SemNow

LEMMA MtxChanges ==
  ASSUME TInv, NEW m \in Mutexes, NEW v \in [holder : Threads \cup {NULL}, wq : Seq(Threads)],
         mtx' = [mtx EXCEPT ![m] = v]
  PROVE  MtxNow(m, v)
<1>1. mtx \in [Mutexes -> [holder : Threads \cup {NULL}, wq : Seq(Threads)]]
  BY DEF TInv, TTypeOK
<1> QED
  BY <1>1 DEF MtxNow

LEMMA OnlySem ==
  ASSUME NEW s \in Semaphores, NEW v, SemNow(s, v), mtx' = mtx,
         NEW n, n = IF v.val > 0 THEN v.val ELSE 0
  PROVE  Only(s, v.wq, n)
BY DEF SemNow, Only, wq, Token

LEMMA SemaphoreStep ==
  ASSUME TInv, NEW s \in Semaphores, NEW v, SemNow(s, v),
         IF v.val < 0 THEN v.val = -1 /\ Len(v.wq) = 1 ELSE v.wq = <<>>,
         UNCHANGED <<mtx, held, base_prio>>,
         t_waitqueue' \in Seq(Impatient),
         \A u \in Threads :
           \/ waiting'[u] = waiting[u]
           \/ waiting'[u] = NULL /\ waiting[u] \notin Mutexes
           \/ /\ waiting'[u] = s /\ waiting[u] = NULL
              /\ \A x \in Threads : waiting[x] # s
              /\ \A x \in Threads : x # u => waiting'[x] = waiting[x]
  PROVE  ResourcesKept'
<1>1. /\ sem' \in [Semaphores -> [val : Int, wq : Seq(Threads)]]
      /\ sem'[s] = v
      /\ \A x \in Semaphores : x # s => sem'[x] = sem[x]
  BY DEF SemNow
<1>2. /\ mtx \in [Mutexes -> [holder : Threads \cup {NULL}, wq : Seq(Threads)]]
      /\ held \in [Mutexes -> SUBSET Threads]
      /\ base_prio \in [Tasks -> Nat \ {0}]
      /\ SemaphoresKept /\ MutexesKept /\ MutualExclusion
  BY DEF TInv, TTypeOK
<1>3. NULL \notin Semaphores /\ NULL \notin Mutexes /\ s \notin Mutexes
  BY Constants DEF Resources
<1>4. SemaphoresKept'
  <2>1. ASSUME NEW x \in Semaphores
        PROVE  IF sem'[x].val < 0 THEN sem'[x].val = -1 /\ Len(sem'[x].wq) = 1
               ELSE sem'[x].wq = <<>>
    BY <1>1, <1>2 DEF SemaphoresKept
  <2>2. ASSUME NEW x \in Semaphores, NEW a \in Threads, NEW b \in Threads,
               waiting'[a] = x, waiting'[b] = x
        PROVE  a = b
    <3>1. waiting[a] = x /\ waiting[b] = x => a = b
      BY <1>2 DEF SemaphoresKept
    <3>2. \/ waiting'[a] = waiting[a]
          \/ /\ waiting'[a] = s
             /\ \A y \in Threads : waiting[y] # s
             /\ \A y \in Threads : y # a => waiting'[y] = waiting[y]
      BY <1>3, <2>2
    <3>3. \/ waiting'[b] = waiting[b]
          \/ /\ waiting'[b] = s
             /\ \A y \in Threads : waiting[y] # s
             /\ \A y \in Threads : y # b => waiting'[y] = waiting[y]
      BY <1>3, <2>2
    <3> QED
      BY <2>2, <3>1, <3>2, <3>3
  <2> QED
    BY <2>1, <2>2 DEF SemaphoresKept
<1>5. \A u \in Threads, m \in Mutexes : waiting'[u] = m <=> waiting[u] = m
  BY <1>3
<1>6. ASSUME NEW m \in Mutexes, NEW u PROVE Queued(u, m)' <=> Queued(u, m)
  <2>1. m \notin Semaphores
    BY Constants
  <2> QED
    BY <2>1 DEF Queued, wq
<1>7. MutexesKept'
  BY <1>2, <1>5, <1>6 DEF MutexesKept
<1>8. MutualExclusion'
  BY <1>2 DEF MutualExclusion, M!MutualExclusion
<1> QED
  BY <1>1, <1>2, <1>4, <1>7, <1>8 DEF ResourcesKept

LEMMA OnlyMtx ==
  ASSUME NEW m \in Mutexes, NEW v, MtxNow(m, v), sem' = sem,
         NEW n, n = IF v.holder = NULL THEN 1 ELSE 0
  PROVE  Only(m, v.wq, n)
<1>2. /\ mtx'[m] = v
      /\ \A x \in Mutexes : x # m => mtx'[x] = mtx[x]
  BY DEF MtxNow
<1>3. m \notin Semaphores
  BY Constants
<1>4. wq(m)' = v.wq /\ Token(m)' = n
  BY <1>2, <1>3 DEF wq, Token
<1>5. ASSUME NEW x \in Resources, x # m PROVE wq(x)' = wq(x) /\ Token(x)' = Token(x)
  <2>1. CASE x \in Semaphores
    BY <2>1 DEF wq, Token
  <2>2. CASE x \notin Semaphores
    <3>1. x \in Mutexes
      BY <2>2 DEF Resources
    <3> QED
      BY <1>2, <1>5, <2>2, <3>1 DEF wq, Token
  <2> QED
    BY <2>1, <2>2
<1> QED
  BY <1>2, <1>4, <1>5 DEF Only

LEMMA MutexStep ==
  ASSUME TInv, NEW m \in Mutexes, NEW v, MtxNow(m, v),
         Distinct(v.wq),
         \A u \in Threads :
           /\ Waits(u, v.wq) => v.holder # u
           /\ waiting'[u] = m => Waits(u, v.wq) \/ v.holder = u
           /\ v.holder = u => u \in held'[m] \/ waiting'[u] = m,
         \A u \in held'[m] : v.holder = u,
         v.holder = NULL => v.wq = <<>>,
         held' \in [Mutexes -> SUBSET Threads],
         \A n \in Mutexes : n # m => held'[n] = held[n],
         UNCHANGED <<sem, base_prio>>,
         t_waitqueue' \in Seq(Impatient),
         \A u \in Threads :
           \/ waiting'[u] = waiting[u]
           \/ waiting[u] \in {NULL, m} /\ waiting'[u] \in {NULL, m}
  PROVE  ResourcesKept'
<1>1. /\ mtx' \in [Mutexes -> [holder : Threads \cup {NULL}, wq : Seq(Threads)]]
      /\ mtx'[m] = v
      /\ \A x \in Mutexes : x # m => mtx'[x] = mtx[x]
  BY DEF MtxNow
<1>2. /\ sem \in [Semaphores -> [val : Int, wq : Seq(Threads)]]
      /\ base_prio \in [Tasks -> Nat \ {0}]
      /\ SemaphoresKept /\ MutexesKept /\ MutualExclusion
  BY DEF TInv, TTypeOK
<1>3. /\ NULL \notin Semaphores /\ NULL \notin Mutexes
      /\ \A x \in Mutexes : x \notin Semaphores
  BY Constants DEF Resources
<1>4. \A x \in Semaphores, u \in Threads : waiting'[u] = x => waiting[u] = x
  BY <1>3
<1>5. SemaphoresKept'
  BY <1>2, <1>4 DEF SemaphoresKept
<1>6. \A x \in Mutexes, u \in Threads : x # m => (waiting'[u] = x <=> waiting[u] = x)
  BY <1>3
<1>7. ASSUME NEW x \in Mutexes, NEW u \in Threads
      PROVE  /\ Queued(u, x)' => mtx'[x].holder # u
             /\ waiting'[u] = x => Queued(u, x)' \/ mtx'[x].holder = u
             /\ mtx'[x].holder = u => u \in held'[x] \/ waiting'[u] = x
  <2>1. wq(x)' = mtx'[x].wq /\ wq(x) = mtx[x].wq
    BY <1>3 DEF wq
  <2>2. CASE x = m
    <3>1. Queued(u, x)' <=> Waits(u, v.wq)
      BY <1>1, <2>1, <2>2 DEF Queued, Waits
    <3> QED
      BY <1>1, <2>2, <3>1
  <2>3. CASE x # m
    <3>1. Queued(u, x)' <=> Queued(u, x)
      BY <1>1, <2>1, <2>3 DEF Queued
    <3>2. /\ Queued(u, x) => mtx[x].holder # u
          /\ waiting[u] = x => Queued(u, x) \/ mtx[x].holder = u
          /\ mtx[x].holder = u => u \in held[x] \/ waiting[u] = x
      BY <1>2 DEF MutexesKept
    <3> QED
      BY <1>1, <1>6, <2>3, <3>1, <3>2
  <2> QED
    BY <2>2, <2>3
<1>8. \A x \in Mutexes :
        \A i, j \in 1..Len(mtx'[x].wq) : mtx'[x].wq[i] = mtx'[x].wq[j] => i = j
  <2>1. \A x \in Mutexes : Distinct(mtx[x].wq)
    BY <1>2 DEF MutexesKept, Distinct
  <2>2. \A x \in Mutexes : Distinct(mtx'[x].wq)
    BY <1>1, <2>1
  <2> QED
    BY <2>2 DEF Distinct
<1>9. MutexesKept'
  BY <1>7, <1>8 DEF MutexesKept
<1>10. MutualExclusion'
  BY <1>1, <1>2 DEF MutualExclusion, M!MutualExclusion
<1> QED
  BY <1>1, <1>2, <1>5, <1>9, <1>10 DEF ResourcesKept

-----------------------------------------------------------------------------
(* The calls on semaphores.                                                *)

\* A call without effect on the kernel.
LEMMA NothingBecomes ==
  ASSUME NEW k, QueueOK(k), NEW t \in Threads, Linked(k.run_queue, t),
         k.state[t] = "ACTIVE"
  PROVE  Became(k, k, t, "ACTIVE")
BY DEF Became

LEMMA DeadlineTypes ==
  ASSUME NEW t \in Threads, t \notin Patient, NEW x \in Limits
  PROVE  /\ Deadline(t, x) \in Impatient
         /\ Deadline(t, x).data = t
<1>1. Signed(x) \in -(WordSize \div 2)..(WordSize \div 2 - 1) /\ x \in 0..(WordSize - 1)
  <2>1. x \in Int
    BY TimedWaitAssumption DEF Limits
  <2> QED
    BY <2>1, Constants
<1> QED
  BY <1>1 DEF Deadline, Impatient, Deadlines

LEMMA DeadlinePushed ==
  ASSUME TInv, NEW t \in Threads, t \notin Patient, NEW x \in Limits
  PROVE  pqueue_push(t_waitqueue, Deadline(t, x)) \in Seq(Impatient)
<1>1. t_waitqueue \in Seq(Impatient)
  BY DEF TInv, TTypeOK, Impatient
<1> QED
  BY <1>1, DeadlineTypes, PushTypes, Constants

\* sem_post that finds a waiter, and one that does not.
LEMMA PostBecomes ==
  ASSUME NEW k, QueueOK(k), NestOK(k), NEW v, v.val + 1 <= 0, Head(v.wq) \in Threads
  PROVE  /\ S!sem_post(k, v).s = [val |-> v.val + 1, wq |-> Tail(v.wq)]
         /\ Became(k, S!sem_post(k, v).k, Head(v.wq), "ACTIVE")
<1> DEFINE u == Head(v.wq)
           j == start_critical(k)
<1>1. /\ S!sem_post(k, v).s = [val |-> v.val + 1, wq |-> Tail(v.wq)]
      /\ S!sem_post(k, v).k = end_critical(os_task_unpause(j, u))
  BY SameForSemaphores DEF S!sem_post, queue_wait_pop
<1>2. k \in Kernels
  BY DEF QueueOK
<1>3. QueueOK(j) /\ NestOK(j)
  BY PreparedStart
<1>4. Became(j, os_task_unpause(j, u), u, "ACTIVE")
  <2> HIDE DEF j, u
  <2> QED
    BY <1>3, UnpauseBecomes DEF u
<1> HIDE DEF u
<1>5. Became(k, end_critical(os_task_unpause(j, u)), u, "ACTIVE")
  BY <1>2, <1>4, BecameInSection
<1> QED
  BY <1>1, <1>5 DEF u

LEMMA PostNobody ==
  ASSUME NEW k \in Kernels, NestOK(k), NEW v, ~(v.val + 1 <= 0)
  PROVE  S!sem_post(k, v) = [k |-> k, s |-> [v EXCEPT !.val = @ + 1]]
BY SameForSemaphores, EmptySection DEF S!sem_post

LEMMA SemValues ==
  ASSUME TInv
  PROVE  \A s \in Semaphores : sem[s].val \in Int
BY Types

LEMMA SemCases ==
  ASSUME TInv, NEW s \in Semaphores
  PROVE  /\ wq(s) = sem[s].wq
         /\ sem[s] = [val |-> sem[s].val, wq |-> sem[s].wq]
         /\ s \in Resources
         /\ Token(s) = IF sem[s].val > 0 THEN sem[s].val ELSE 0
         /\ sem[s].val < 0 => /\ sem[s].val = -1
                              /\ Len(sem[s].wq) = 1
                              /\ sem[s].wq \in Seq(Threads)
                              /\ Head(sem[s].wq) \in Threads
                              /\ Tail(sem[s].wq) = <<>>
                              /\ sem[s].wq = <<Head(sem[s].wq)>>
                              /\ sem[s].wq # <<>>
                              /\ Token(s) = 0
         /\ ~(sem[s].val < 0) => sem[s].wq = <<>> /\ Token(s) = sem[s].val
<1>1. sem[s] \in [val : Int, wq : Seq(Threads)]
  BY Types
<1>2. IF sem[s].val < 0 THEN sem[s].val = -1 /\ Len(sem[s].wq) = 1 ELSE sem[s].wq = <<>>
  BY DEF TInv, SemaphoresKept
<1>3. ASSUME NEW q \in Seq(Threads), Len(q) = 1
      PROVE  Head(q) \in Threads /\ Tail(q) = <<>> /\ q = <<Head(q)>> /\ q # <<>>
  <2>1. Head(q) \in Threads /\ Head(q) = q[1]
    BY <1>3
  <2>2. Tail(q) \in Seq(Threads) /\ Len(Tail(q)) = 0
    BY <1>3
  <2>3. <<Head(q)>> \in Seq(Threads) /\ Len(<<Head(q)>>) = 1
    BY <2>1
  <2>4. \A i \in 1..1 : q[i] = <<Head(q)>>[i]
    BY <2>1
  <2> QED
    BY <1>3, <2>1, <2>2, <2>3, <2>4, EmptySeq, SeqEqual
<1> QED
  BY <1>1, <1>2, <1>3 DEF wq, Token, Resources

LEMMA PostStep ==
  ASSUME TInv, NEW t \in Threads, NEW s \in Semaphores, TSemPost(t, s)
  PROVE  Did(t, s) /\ ResourcesKept'
<1> DEFINE r == S!sem_post(os, sem[s])
<1>1. /\ CanRun(t) /\ waiting[t] = NULL
      /\ os' = r.k
      /\ sem' = [sem EXCEPT ![s] = r.s]
      /\ UNCHANGED <<waiting, mtx, held, base_prio, t_waitqueue>>
  BY SameForSemaphores DEF TSemPost, S!SemPost, S!InUserCode
<1>2. /\ NestOK(os) /\ Linked(os.run_queue, t)
      /\ QueueOK(os) /\ os \in Kernels
      /\ os.state[t] = "ACTIVE"
  BY <1>1, CallerRuns, Types, UserFacts
<1>3. t_waitqueue' \in Seq(Impatient)
  BY <1>1 DEF TInv, TTypeOK, Impatient
<1>4. CASE sem[s].val < 0
  <2>1. /\ sem[s].val = -1
        /\ Head(sem[s].wq) \in Threads /\ Tail(sem[s].wq) = <<>>
        /\ Len(sem[s].wq) = 1
        /\ wq(s) = sem[s].wq /\ Token(s) = 0 /\ s \in Resources
    BY <1>4, SemCases, SemValues
  <2>2. /\ r.s = [val |-> 0, wq |-> <<>>]
        /\ Became(os, r.k, Head(sem[s].wq), "ACTIVE")
    <3>1. sem[s].val + 1 <= 0 /\ sem[s].val + 1 = 0
      BY <2>1
    <3>2. /\ r.s = [val |-> sem[s].val + 1, wq |-> Tail(sem[s].wq)]
          /\ Became(os, r.k, Head(sem[s].wq), "ACTIVE")
      BY <1>2, <2>1, <3>1, PostBecomes
    <3> QED
      BY <2>1, <3>1, <3>2
  <2> DEFINE v == [val |-> 0, wq |-> <<>>]
  <2> HIDE DEF r
  <2>3. SemNow(s, v) /\ v.val = 0 /\ v.wq = <<>>
    <3>1. v \in [val : Int, wq : Seq(Threads)] /\ v.val = 0 /\ v.wq = <<>>
      OBVIOUS
    <3>2. sem' = [sem EXCEPT ![s] = v]
      BY <1>1, <2>2
    <3> HIDE DEF v
    <3> QED
      BY <3>1, <3>2, SemChanges
  <2> HIDE DEF v
  <2>4. Only(s, <<>>, 0)
    BY <1>1, <2>3, OnlySem
  <2>5. HandedOver(t, s)
    <3>1. wq(s) # <<>> /\ Tail(wq(s)) = <<>>
      BY <2>1
    <3> QED
      BY <1>1, <2>1, <2>2, <2>4, <3>1 DEF HandedOver
  <2>6. ResourcesKept'
    BY <1>1, <1>3, <2>3, SemaphoreStep
  <2> QED
    BY <1>1, <2>5, <2>6 DEF Did
<1>5. CASE ~(sem[s].val < 0)
  <2>1. /\ sem[s].val \in Int /\ sem[s].val >= 0
        /\ sem[s].wq = <<>> /\ wq(s) = sem[s].wq /\ s \in Resources
        /\ Token(s) = sem[s].val
        /\ sem[s] = [val |-> sem[s].val, wq |-> sem[s].wq]
    <3>1. sem[s].val \in Int /\ sem[s].val >= 0
      BY <1>5, SemValues
    <3> QED
      BY <1>5, <3>1, SemCases
  <2>2. r = [k |-> os, s |-> [sem[s] EXCEPT !.val = @ + 1]]
    BY <1>2, <2>1, PostNobody
  <2> HIDE DEF r
  <2> DEFINE v == [val |-> sem[s].val + 1, wq |-> <<>>]
  <2>3. /\ v \in [val : Int, wq : Seq(Threads)]
        /\ r.s = v /\ r.k = os
        /\ v.val = sem[s].val + 1 /\ v.wq = <<>> /\ v.val > 0
    BY <2>1, <2>2
  <2>4. PICK w : SemNow(s, w) /\ w.val = sem[s].val + 1 /\ w.wq = <<>> /\ w.val > 0
    <3>1. SemNow(s, v)
      BY <1>1, <2>3, SemChanges
    <3> QED
      BY <2>3, <3>1
  <2> HIDE DEF v
  <2>5. Only(s, <<>>, Token(s) + 1)
    BY <1>1, <2>1, <2>4, OnlySem
  <2>6. Became(os, os', t, "ACTIVE")
    BY <1>1, <1>2, <2>3, NothingBecomes
  <2>7. Deposited(t, s)
    BY <1>1, <2>1, <2>5, <2>6 DEF Deposited
  <2>8. ~(w.val < 0)
    BY <2>1, <2>4
  <2>9. ResourcesKept'
    BY <1>1, <1>3, <2>4, <2>8, SemaphoreStep
  <2> QED
    BY <1>1, <2>7, <2>9 DEF Did
<1> QED
  BY <1>4, <1>5

LEMMA BlockedBecomes ==
  ASSUME NEW k, QueueOK(k), NestOK(k), NEW t \in Threads, k.it = t,
         Linked(k.run_queue, t)
  PROVE  Became(k, end_critical(os_task_block(start_critical(k), t)), t, "BLOCKING")
<1> DEFINE j == start_critical(k)
<1>1. QueueOK(j) /\ NestOK(j) /\ j.it = t /\ Linked(j.run_queue, t)
  BY PreparedStart DEF SameScheduler
<1>2. k \in Kernels
  BY DEF QueueOK
<1>3. Became(j, os_task_block(j, t), t, "BLOCKING")
  <2> HIDE DEF j
  <2> QED
    BY <1>1, BlockBecomes
<1> QED
  BY <1>2, <1>3, BecameInSection

LEMMA LimitedBecomes ==
  ASSUME NEW k, QueueOK(k), NestOK(k), NEW t \in Threads, k.it = t,
         Linked(k.run_queue, t), NEW heap, NEW ticks
  PROVE  Became(k, end_critical(os_task_timedwait(start_critical(k), heap, t, ticks).k),
                t, "SLEEPING")
<1> DEFINE j == start_critical(k)
<1>1. QueueOK(j) /\ NestOK(j) /\ j.it = t /\ Linked(j.run_queue, t)
  BY PreparedStart DEF SameScheduler
<1>2. k \in Kernels
  BY DEF QueueOK
<1>3. Became(j, os_task_timedwait(j, heap, t, ticks).k, t, "SLEEPING")
  <2> HIDE DEF j
  <2> QED
    BY <1>1, TimedwaitBecomes
<1> QED
  BY <1>2, <1>3, BecameInSection

\* A wait that finds the semaphore free.
LEMMA WaitFree ==
  ASSUME TInv, NEW t \in Threads, NEW s \in Semaphores, sem[s].val > 0,
         S!SemWait(t, s), UNCHANGED <<mtx, held, base_prio, t_waitqueue>>
  PROVE  Did(t, s) /\ ResourcesKept'
<1> DEFINE r == S!sem_wait(os, sem[s], t)
           v == [val |-> sem[s].val - 1, wq |-> <<>>]
<1>1. /\ CanRun(t) /\ waiting[t] = NULL
      /\ os' = r.k
      /\ sem' = [sem EXCEPT ![s] = r.s]
      /\ waiting' = IF r.s.val < 0 THEN [waiting EXCEPT ![t] = s] ELSE waiting
  BY SameForSemaphores DEF S!SemWait, S!InUserCode
<1>2. /\ NestOK(os) /\ Linked(os.run_queue, t)
      /\ QueueOK(os) /\ os \in Kernels
      /\ os.state[t] = "ACTIVE"
  BY <1>1, CallerRuns, Types, UserFacts
<1>3. /\ sem[s].val \in Int
      /\ sem[s].wq = <<>> /\ wq(s) = sem[s].wq /\ s \in Resources
      /\ Token(s) = sem[s].val
      /\ sem[s] = [val |-> sem[s].val, wq |-> sem[s].wq]
  BY SemCases, SemValues
<1>4. r = [k |-> os, s |-> [sem[s] EXCEPT !.val = @ - 1]]
  BY <1>2, <1>3, EmptySection, SameForSemaphores DEF S!sem_wait
<1> HIDE DEF r
<1>5. /\ v \in [val : Int, wq : Seq(Threads)]
      /\ r.s = v /\ r.k = os
      /\ v.val = sem[s].val - 1 /\ v.wq = <<>> /\ v.val >= 0
  BY <1>3, <1>4
<1>6. waiting' = waiting
  BY <1>1, <1>5
<1>7. PICK w : SemNow(s, w) /\ w.val = sem[s].val - 1 /\ w.wq = <<>> /\ w.val >= 0
  <2>1. SemNow(s, v)
    BY <1>1, <1>5, SemChanges
  <2> QED
    BY <1>5, <2>1
<1> HIDE DEF v
<1>8. Only(s, <<>>, Token(s) - 1)
  <2>1. Token(s) - 1 = IF w.val > 0 THEN w.val ELSE 0
    BY <1>3, <1>7
  <2> QED
    BY <1>7, <2>1, OnlySem
<1>9. Became(os, os', t, "ACTIVE")
  BY <1>1, <1>2, <1>5, NothingBecomes
<1>10. Took(t, s)
  BY <1>1, <1>3, <1>6, <1>8, <1>9 DEF Took
<1>11. t_waitqueue' \in Seq(Impatient)
  BY DEF TInv, TTypeOK, Impatient
<1>12. ~(w.val < 0)
  BY <1>3, <1>7
<1>13. ResourcesKept'
  BY <1>6, <1>7, <1>11, <1>12, SemaphoreStep
<1> QED
  BY <1>1, <1>10, <1>13 DEF Did

\* The first to wait for a semaphore.
LEMMA WaitTaken ==
  ASSUME TInv, NEW t \in Threads, NEW s \in Semaphores, CanRun(t), waiting[t] = NULL,
         ~(sem[s].val > 0), NobodyWaits(s),
         sem' = [sem EXCEPT ![s] = [val |-> sem[s].val - 1,
                                    wq |-> queue_wait_push(sem[s].wq, t)]],
         waiting' = [waiting EXCEPT ![t] = s],
         Became(os, os', t, Suspension(t)),
         IF t \in Patient THEN UNCHANGED t_waitqueue
         ELSE \E x \in Limits : t_waitqueue' = pqueue_push(t_waitqueue, Deadline(t, x)),
         UNCHANGED <<mtx, held, base_prio>>
  PROVE  Did(t, s) /\ ResourcesKept'
<1>1. wq(s) = sem[s].wq /\ s \in Resources /\ sem[s].val \in Int
  BY SemCases, SemValues
<1>2. sem[s].val = 0 /\ sem[s].wq = <<>> /\ Token(s) = 0
  <2>1. ASSUME sem[s].val < 0 PROVE FALSE
    <3>1. sem[s].wq # <<>>
      BY <2>1, SemCases, SemValues
    <3>2. Head(wq(s)) \in Threads /\ Queued(Head(wq(s)), s)
      BY <1>1, <3>1, FirstQueued
    <3> QED
      BY <1>1, <3>2, QueuedWaits DEF NobodyWaits
  <2> QED
    <3>1. sem[s].val = 0
      BY <1>1, <2>1
    <3>2. ~(sem[s].val < 0)
      BY <2>1
    <3> QED
      BY <3>1, <3>2, SemCases
<1>3. \A x \in Resources : ~Queued(t, x)
  BY UserFacts
<1>4. queue_wait_push(sem[s].wq, t) = <<t>> /\ Append(wq(s), t) = <<t>>
  <2>1. queue_wait_push(wq(s), t) = Append(wq(s), t)
    BY <1>1, <1>3, LastQueued
  <2>2. Append(<<>>, t) = <<t>>
    OBVIOUS
  <2> QED
    BY <1>1, <1>2, <2>1, <2>2
<1> DEFINE v == [val |-> -1, wq |-> <<t>>]
<1>5. /\ v \in [val : Int, wq : Seq(Threads)]
      /\ v.val = -1 /\ v.wq = <<t>> /\ Len(v.wq) = 1
  OBVIOUS
<1>6. sem' = [sem EXCEPT ![s] = v]
  <2>1. sem[s].val - 1 = -1
    BY <1>2
  <2> QED
    BY <1>4, <2>1
<1> HIDE DEF v
<1>7. SemNow(s, v)
  BY <1>5, <1>6, SemChanges
<1>8. Only(s, <<t>>, 0)
  <2>1. 0 = IF v.val > 0 THEN v.val ELSE 0
    BY <1>5
  <2> QED
    BY <1>5, <1>7, <2>1, OnlySem
<1>9. Enqueued(t, s)
  BY <1>2, <1>4, <1>8 DEF Enqueued
<1>10. t_waitqueue' \in Seq(Impatient)
  <2>1. t_waitqueue \in Seq(Impatient)
    BY DEF TInv, TTypeOK, Impatient
  <2> QED
    BY <2>1, DeadlinePushed
<1>11. \A u \in Threads :
         \/ waiting'[u] = waiting[u]
         \/ /\ waiting'[u] = s /\ waiting[u] = NULL
            /\ \A x \in Threads : waiting[x] # s
            /\ \A x \in Threads : x # u => waiting'[x] = waiting[x]
  <2>1. waiting \in [Threads -> Resources \cup {NULL}]
    BY DEF TInv, TTypeOK
  <2> QED
    BY <2>1 DEF NobodyWaits
<1>12. v.val < 0
  BY <1>5
<1>13. ResourcesKept'
  BY <1>5, <1>7, <1>10, <1>11, <1>12, SemaphoreStep
<1> QED
  BY <1>9, <1>13 DEF Did

LEMMA WaitStep ==
  ASSUME TInv, NEW t \in Threads, NEW s \in Semaphores, NobodyWaits(s), WaitFor(t, s)
  PROVE  Did(t, s) /\ ResourcesKept'
<1>0. ASSUME CanRun(t), waiting[t] = NULL
      PROVE  /\ QueueOK(os) /\ NestOK(os) /\ os.it = t /\ Linked(os.run_queue, t)
  BY <1>0, CallerRuns, Types
<1>1. CASE /\ t \in Patient \/ sem[s].val > 0
           /\ S!SemWait(t, s)
           /\ UNCHANGED <<mtx, held, base_prio, t_waitqueue>>
  <2>1. CASE sem[s].val > 0
    BY <1>1, <2>1, WaitFree
  <2>2. CASE ~(sem[s].val > 0)
    <3> DEFINE r == S!sem_wait(os, sem[s], t)
    <3>1. t \in Patient
      BY <1>1, <2>2
    <3>2. /\ CanRun(t) /\ waiting[t] = NULL
          /\ os' = r.k
          /\ sem' = [sem EXCEPT ![s] = r.s]
          /\ waiting' = IF r.s.val < 0 THEN [waiting EXCEPT ![t] = s] ELSE waiting
      BY <1>1, SameForSemaphores DEF S!SemWait, S!InUserCode
    <3>3. sem[s].val - 1 < 0
      <4>1. sem[s].val \in Int
        BY SemValues
      <4> QED
        BY <2>2, <4>1
    <3>4. /\ r.k = end_critical(os_task_block(start_critical(os), t))
          /\ r.s = [val |-> sem[s].val - 1, wq |-> queue_wait_push(sem[s].wq, t)]
      BY <3>3, SameForSemaphores DEF S!sem_wait
    <3> HIDE DEF r
    <3>5. waiting' = [waiting EXCEPT ![t] = s]
      BY <3>2, <3>3, <3>4
    <3>6. Became(os, os', t, Suspension(t))
      BY <1>0, <3>1, <3>2, <3>4, BlockedBecomes DEF Suspension
    <3> QED
      BY <1>1, <2>2, <3>1, <3>2, <3>4, <3>5, <3>6, WaitTaken
  <2> QED
    BY <2>1, <2>2
<1>2. CASE t \notin Patient /\ \E ticks \in Limits : SemTimedwait(t, s, ticks)
  <2>1. PICK ticks \in Limits : SemTimedwait(t, s, ticks)
    BY <1>2
  <2> DEFINE r == sem_timedwait(os, sem[s], t_waitqueue, t, ticks)
  <2>2. /\ CanRun(t) /\ waiting[t] = NULL
        /\ sem[s].val <= 0
        /\ os' = r.k
        /\ sem' = [sem EXCEPT ![s] = r.s]
        /\ waiting' = [waiting EXCEPT ![t] = s]
        /\ t_waitqueue' = r.heap
        /\ UNCHANGED <<mtx, held, base_prio>>
    BY <2>1 DEF SemTimedwait, InUserCode
  <2>3. /\ r.k = end_critical(os_task_timedwait(start_critical(os), t_waitqueue, t, ticks).k)
        /\ r.s = [val |-> sem[s].val - 1, wq |-> queue_wait_push(sem[s].wq, t)]
        /\ r.heap = pqueue_push(t_waitqueue, Deadline(t, ticks))
    BY SameForSemaphores DEF sem_timedwait, os_task_timedwait
  <2> HIDE DEF r
  <2>4. Became(os, os', t, Suspension(t))
    BY <1>0, <1>2, <2>2, <2>3, LimitedBecomes DEF Suspension
  <2>5. ~(sem[s].val > 0)
    <3>1. sem[s].val \in Int
      BY SemValues
    <3> QED
      BY <2>2, <3>1
  <2> QED
    BY <1>2, <2>2, <2>3, <2>4, <2>5, WaitTaken
<1> QED
  BY <1>1, <1>2 DEF WaitFor

\* A thread that nobody has signalled takes its own wait back.
LEMMA TimedoutBecomes ==
  ASSUME NEW k, QueueOK(k), NestOK(k), NEW t \in Threads, NEW v,
         v.val + 1 <= 0, Head(v.wq) = t
  PROVE  /\ sem_timedout(k, v, t).s = [val |-> v.val + 1, wq |-> Tail(v.wq)]
         /\ Became(k, sem_timedout(k, v, t).k, t, "ACTIVE")
<1> DEFINE j == start_critical(k)
           i == [j EXCEPT !.state[t] = "ACTIVE"]
           r == S!sem_post(i, v)
<1>1. k \in Kernels
  BY DEF QueueOK
<1>2. QueueOK(j) /\ NestOK(j) /\ j \in Kernels
  BY PreparedStart
<1>3. sem_timedout(k, v, t) = [k |-> end_critical(r.k), s |-> r.s]
  BY DEF sem_timedout
<1>4. Prepared(j, i, t)
  <2>1. "ACTIVE" \in ThreadStates
    BY DEF ThreadStates
  <2> HIDE DEF j
  <2> QED
    BY <1>2, <2>1, PreparedState
<1> HIDE DEF i
<1>5. QueueOK(i) /\ NestOK(i)
  BY <1>2, <1>4, PreparedQueue DEF Prepared, NestOK
<1>6. /\ r.s = [val |-> v.val + 1, wq |-> Tail(v.wq)]
      /\ Became(i, r.k, t, "ACTIVE")
  BY <1>5, PostBecomes
<1> HIDE DEF r
<1>7. Became(j, r.k, t, "ACTIVE")
  BY <1>4, <1>6, PreparedFirst
<1>8. Became(k, end_critical(r.k), t, "ACTIVE")
  BY <1>1, <1>7, BecameInSection
<1> QED
  BY <1>3, <1>6, <1>8

LEMMA WaitReturnStep ==
  ASSUME TInv, NEW t \in Threads, NEW s \in Semaphores, WaitReturn(t, s)
  PROVE  Did(t, s) /\ ResourcesKept'
<1>1. /\ CanRun(t) /\ waiting[t] = s
      /\ waiting' = [waiting EXCEPT ![t] = NULL]
      /\ UNCHANGED <<mtx, held, base_prio, t_waitqueue>>
  BY SameForSemaphores DEF WaitReturn, S!SemWaitReturn, SemTimedwaitReturn
<1>2. s \in Resources
  BY SemCases
<1>3. /\ NestOK(os) /\ Linked(os.run_queue, t)
      /\ QueueOK(os) /\ os \in Kernels
  BY <1>1, CallerRuns, Types
<1>4. t_waitqueue' \in Seq(Impatient)
  BY <1>1 DEF TInv, TTypeOK, Impatient
<1>5. waiting \in [Threads -> Resources \cup {NULL}]
  BY DEF TInv, TTypeOK
<1>6. /\ \A u \in Threads : u # t => waiting'[u] = waiting[u]
      /\ waiting'[t] = NULL /\ waiting[t] \notin Mutexes
  BY <1>1, <1>5, Constants
<1>7. ASSUME ~Queued(t, s), os' = os, sem' = sem PROVE Did(t, s) /\ ResourcesKept'
  <2>1. PICK w : w = sem[s]
    OBVIOUS
  <2>2. SemNow(s, w)
    BY <1>7, <2>1 DEF SemNow, TInv, TTypeOK
  <2>3. IF w.val < 0 THEN w.val = -1 /\ Len(w.wq) = 1 ELSE w.wq = <<>>
    BY <2>1 DEF TInv, SemaphoresKept
  <2>4. ResourcesKept'
    BY <1>1, <1>4, <1>6, <2>2, <2>3, SemaphoreStep
  <2>5. Only(s, wq(s), Token(s))
    BY <1>1, <1>7 DEF Only, wq, Token
  <2>6. Departed(t, s)
    BY <1>1, <1>7, <2>5 DEF Departed
  <2> QED
    BY <1>1, <1>2, <2>4, <2>6 DEF Did
<1>8. CASE t \in Patient
  <2>1. os' = os /\ sem' = sem
    BY <1>8 DEF WaitReturn, S!SemWaitReturn
  <2>2. ASSUME Queued(t, s) PROVE FALSE
    <3>1. os.state[t] = "BLOCKING"
      BY <1>2, <1>3, <1>8, <2>2, QueuedWaits DEF Suspension
    <3> QED
      BY <1>3, <3>1 DEF TInv, RunQueueKept
  <2> QED
    BY <1>7, <2>1, <2>2
<1>9. CASE t \notin Patient /\ os.state[t] # "SLEEPING"
  <2>1. os' = os /\ sem' = sem
    BY <1>9 DEF WaitReturn, SemTimedwaitReturn
  <2>2. ~Queued(t, s)
    BY <1>2, <1>3, <1>9, QueuedWaits DEF Suspension
  <2> QED
    BY <1>7, <2>1, <2>2
<1>10. CASE t \notin Patient /\ os.state[t] = "SLEEPING"
  <2> DEFINE r == sem_timedout(os, sem[s], t)
             v == [val |-> 0, wq |-> <<>>]
  <2>1. os' = r.k /\ sem' = [sem EXCEPT ![s] = r.s]
    BY <1>10 DEF WaitReturn, SemTimedwaitReturn
  <2>2. Queued(t, s)
    BY <1>1, <1>10 DEF TInv, WaitersKept, Suspended
  <2>3. wq(s) = sem[s].wq
    BY SemCases
  <2>4. sem[s].wq # <<>>
    BY <2>2, <2>3 DEF Queued
  <2>5. sem[s].val = -1 /\ sem[s].wq = <<Head(sem[s].wq)>> /\ Tail(sem[s].wq) = <<>> /\ Token(s) = 0
    BY <2>4, SemCases
  <2>6. Head(sem[s].wq) = t
    <3>1. PICK h : h = Head(sem[s].wq)
      OBVIOUS
    <3>2. wq(s) = <<h>>
      BY <2>3, <2>5, <3>1
    <3>3. t = h
      BY <2>2, <3>2 DEF Queued
    <3> QED
      BY <3>1, <3>3
  <2>7. r.s = v /\ Became(os, r.k, t, "ACTIVE")
    <3>1. sem[s].val + 1 = 0 /\ sem[s].val + 1 <= 0
      BY <2>5
    <3>2. /\ r.s = [val |-> sem[s].val + 1, wq |-> Tail(sem[s].wq)]
          /\ Became(os, r.k, t, "ACTIVE")
      BY <1>3, <2>6, <3>1, TimedoutBecomes
    <3> QED
      BY <2>5, <3>1, <3>2
  <2> HIDE DEF r
  <2>8. v \in [val : Int, wq : Seq(Threads)] /\ v.val = 0 /\ v.wq = <<>> /\ ~(v.val < 0)
    OBVIOUS
  <2>9. sem' = [sem EXCEPT ![s] = v]
    BY <2>1, <2>7
  <2> HIDE DEF v
  <2>10. SemNow(s, v)
    BY <2>8, <2>9, SemChanges
  <2>11. Only(s, <<>>, 0)
    <3>1. 0 = IF v.val > 0 THEN v.val ELSE 0
      BY <2>8
    <3> QED
      BY <1>1, <2>8, <2>10, <3>1, OnlySem
  <2>12. GaveUp(t, s)
    BY <1>1, <2>1, <2>3, <2>5, <2>6, <2>7, <2>11 DEF GaveUp
  <2>13. ResourcesKept'
    BY <1>1, <1>4, <1>6, <2>8, <2>10, SemaphoreStep
  <2> QED
    BY <1>1, <1>2, <2>12, <2>13 DEF Did
<1> QED
  BY <1>8, <1>9, <1>10

-----------------------------------------------------------------------------
(* The calls on mutexes.                                                   *)

LEMMA MtxCases ==
  ASSUME TInv, NEW m \in Mutexes
  PROVE  /\ m \in Resources
         /\ wq(m) = mtx[m].wq
         /\ wq(m) \in Seq(Threads)
         /\ Distinct(wq(m))
         /\ \A u : Queued(u, m) <=> Waits(u, mtx[m].wq)
         /\ Token(m) = IF mtx[m].holder = NULL THEN 1 ELSE 0
         /\ mtx[m] = [holder |-> mtx[m].holder, wq |-> mtx[m].wq]
         /\ mtx[m].holder \in Threads \cup {NULL}
         /\ held[m] \subseteq Threads
         /\ \A u \in Threads :
              /\ Waits(u, mtx[m].wq) => mtx[m].holder # u
              /\ waiting[u] = m => Waits(u, mtx[m].wq) \/ mtx[m].holder = u
              /\ mtx[m].holder = u => u \in held[m] \/ waiting[u] = m
         /\ \A u \in held[m] : mtx[m].holder = u
         /\ mtx[m].holder = NULL => mtx[m].wq = <<>>
<1>1. m \notin Semaphores /\ m \in Resources
  BY Constants DEF Resources
<1>2. wq(m) = mtx[m].wq /\ Token(m) = IF mtx[m].holder = NULL THEN 1 ELSE 0
  BY <1>1 DEF wq, Token
<1>3. wq(m) \in Seq(Threads) /\ Distinct(wq(m))
  BY <1>1, Types, QueuesDistinct
<1>4. \A u : Queued(u, m) <=> Waits(u, mtx[m].wq)
  BY <1>2 DEF Queued, Waits
<1>5. /\ mtx[m] = [holder |-> mtx[m].holder, wq |-> mtx[m].wq]
      /\ mtx[m].holder \in Threads \cup {NULL}
      /\ held[m] \subseteq Threads
  BY Types
<1>6. \A u \in Threads :
        /\ Waits(u, mtx[m].wq) => mtx[m].holder # u
        /\ waiting[u] = m => Waits(u, mtx[m].wq) \/ mtx[m].holder = u
        /\ mtx[m].holder = u => u \in held[m] \/ waiting[u] = m
  BY <1>4 DEF TInv, MutexesKept
<1>7. /\ \A u \in held[m] : mtx[m].holder = u
      /\ mtx[m].holder = NULL => mtx[m].wq = <<>>
  BY DEF TInv, MutualExclusion, M!MutualExclusion
<1> QED
  BY <1>1, <1>2, <1>3, <1>4, <1>5, <1>6, <1>7

\* A lock that waits: the holder is boosted, the thread leaves the run queue.
LEMMA LockBlocks ==
  ASSUME NEW k, QueueOK(k), PrioritiesOK(k), NEW t \in Threads, k.it = t,
         Linked(k.run_queue, t), NestOK(k), NEW h \in Threads, NEW heap, NEW ticks
  PROVE  LET j == start_critical(k)
             i == M!boost(j, h, j.fixed_prio[t])
         IN  /\ Became(k, end_critical(os_task_block(i, t)), t, "BLOCKING")
             /\ Became(k, end_critical(os_task_timedwait(i, heap, t, ticks).k), t, "SLEEPING")
<1> DEFINE j == start_critical(k)
           i == M!boost(j, h, j.fixed_prio[t])
<1>1. k \in Kernels
  BY DEF QueueOK
<1>2. j \in Kernels /\ QueueOK(j) /\ NestOK(j) /\ SameScheduler(j, k)
  BY PreparedStart
<1>3. PrioritiesOK(j)
  BY <1>2, SamePriorities DEF SameScheduler
<1>4. j.it = t /\ Linked(j.run_queue, t)
  BY <1>2 DEF SameScheduler
<1> HIDE DEF j
<1>5. Priced(j, i)
  <2>1. h \in Tasks /\ t \in Tasks
    BY DEF Tasks
  <2>2. j.fixed_prio[t] \in Nat
    BY <1>2, <2>1, KernelTypes
  <2> QED
    BY <1>2, <1>3, <2>1, <2>2, BoostPriced
<1> HIDE DEF i
<1>6. QueueOK(i) /\ NestOK(i) /\ i.it = t /\ Linked(i.run_queue, t)
  BY <1>2, <1>3, <1>4, <1>5, PricedFacts
<1>7. /\ Became(i, os_task_block(i, t), t, "BLOCKING")
      /\ Became(i, os_task_timedwait(i, heap, t, ticks).k, t, "SLEEPING")
  BY <1>6, BlockBecomes, TimedwaitBecomes
<1>8. /\ Became(j, os_task_block(i, t), t, "BLOCKING")
      /\ Became(j, os_task_timedwait(i, heap, t, ticks).k, t, "SLEEPING")
  BY <1>5, <1>7, PricedFirst
<1>9. /\ Became(k, end_critical(os_task_block(i, t)), t, "BLOCKING")
      /\ Became(k, end_critical(os_task_timedwait(i, heap, t, ticks).k), t, "SLEEPING")
  <2>1. \A x, st : Became(j, x, t, st) => Became(k, end_critical(x), t, st)
    BY <1>1, BecameInSection DEF j
  <2> QED
    BY <1>8, <2>1
<1> QED
  BY <1>9 DEF i, j

\* An unlock that passes the mutex on, and one that frees it.
LEMMA UnlockBecomes ==
  ASSUME NEW k, QueueOK(k), PrioritiesOK(k), NestOK(k), NEW t \in Threads,
         Linked(k.run_queue, t), k.state[t] = "ACTIVE", NEW u \in Threads,
         base_prio[t] \in Nat \ {0}
  PROVE  LET j == start_critical(k)
         IN  /\ Became(k, end_critical(os_task_unpause(M!pass(j, t, u), u)), u, "ACTIVE")
             /\ Became(k, end_critical(M!restore(j, t)), t, "ACTIVE")
<1> DEFINE j == start_critical(k)
           i == M!pass(j, t, u)
           n == M!restore(j, t)
<1>1. k \in Kernels /\ t \in Tasks /\ u \in Tasks
  BY DEF QueueOK, Tasks
<1>2. j \in Kernels /\ QueueOK(j) /\ NestOK(j) /\ SameScheduler(j, k)
  BY PreparedStart
<1>3. PrioritiesOK(j)
  BY <1>2, SamePriorities DEF SameScheduler
<1>4. Linked(j.run_queue, t) /\ j.state[t] = "ACTIVE"
  BY <1>2 DEF SameScheduler
<1>5. \A x, v : Became(j, x, v, "ACTIVE") => Became(k, end_critical(x), v, "ACTIVE")
  BY <1>1, BecameInSection
<1> HIDE DEF j
<1>6. Priced(j, i) /\ Priced(j, n)
  BY <1>1, <1>2, <1>3, PassPriced, RestorePriced
<1> HIDE DEF i, n
<1>7. QueueOK(i) /\ NestOK(i)
  BY <1>2, <1>3, <1>6, PricedFacts
<1>8. Became(i, os_task_unpause(i, u), u, "ACTIVE")
  BY <1>7, UnpauseBecomes
<1>9. Became(j, os_task_unpause(i, u), u, "ACTIVE")
  BY <1>6, <1>8, PricedFirst
<1>10. Became(j, n, t, "ACTIVE")
  BY <1>2, <1>3, <1>4, <1>6, PricedBecomes
<1>11. /\ Became(k, end_critical(os_task_unpause(i, u)), u, "ACTIVE")
       /\ Became(k, end_critical(n), t, "ACTIVE")
  BY <1>5, <1>9, <1>10
<1> QED
  BY <1>11 DEF i, n, j

\* Who is in its own code has the core, and the kernel is in order.
LEMMA UserCaller ==
  ASSUME TInv, NEW t \in Threads, CanRun(t), waiting[t] = NULL
  PROVE  /\ os \in Kernels /\ PrioritiesOK(os) /\ QueueOK(os) /\ NestOK(os)
         /\ os.it = t
         /\ Linked(os.run_queue, t)
         /\ os.state[t] = "ACTIVE"
         /\ \A r \in Resources : ~Queued(t, r)
BY CallerRuns, Types, UserFacts

LEMMA UnlockStep ==
  ASSUME TInv, NEW t \in Threads, NEW m \in Mutexes, TUnlock(t, m)
  PROVE  Did(t, m) /\ ResourcesKept'
<1> DEFINE r == M!mtx_unlock(os, mtx[m], t)
<1>1. /\ CanRun(t) /\ waiting[t] = NULL
      /\ mtx[m].holder = t
      /\ os' = r.k
      /\ mtx' = [mtx EXCEPT ![m] = r.m]
      /\ held' = [held EXCEPT ![m] = @ \ {t}]
      /\ UNCHANGED <<sem, waiting, base_prio, t_waitqueue>>
  BY SameForMutexes DEF TUnlock, M!Unlock, M!InUserCode
<1>2. /\ os \in Kernels /\ PrioritiesOK(os) /\ QueueOK(os) /\ NestOK(os)
      /\ Linked(os.run_queue, t)
      /\ os.state[t] = "ACTIVE"
  BY <1>1, UserCaller
<1>3. /\ held \in [Mutexes -> SUBSET Threads]
      /\ base_prio[t] \in Nat \ {0}
      /\ t_waitqueue' \in Seq(Impatient)
  BY <1>1 DEF TInv, TTypeOK, Impatient, Tasks
<1>4. /\ held' \in [Mutexes -> SUBSET Threads]
      /\ held'[m] = held[m] \ {t}
      /\ \A n \in Mutexes : n # m => held'[n] = held[n]
  BY <1>1, <1>3
<1>5. NULL \notin Threads
  BY KernelAssumption DEF Tasks
<1>6. held'[m] = {}
  BY <1>1, <1>4, MtxCases
<1>7. CASE mtx[m].wq # <<>>
  <2>1. PICK q, u : q = Tail(mtx[m].wq) /\ u = Head(mtx[m].wq)
    OBVIOUS
  <2>2. /\ u \in Threads /\ u # t
        /\ q \in Seq(Threads)
        /\ Distinct(q)
        /\ \A x \in Threads : Waits(x, q) <=> Waits(x, mtx[m].wq) /\ x # u
        /\ Waits(u, mtx[m].wq)
    <3>1. wq(m) = mtx[m].wq /\ m \in Resources /\ \A x : Queued(x, m) <=> Waits(x, mtx[m].wq)
      BY MtxCases
    <3>2. /\ Head(wq(m)) \in Threads
          /\ Queued(Head(wq(m)), m)
          /\ Tail(wq(m)) \in Seq(Threads)
          /\ Distinct(Tail(wq(m)))
          /\ \A x : Waits(x, Tail(wq(m))) <=> Queued(x, m) /\ x # Head(wq(m))
      BY <1>7, <3>1, FirstQueued DEF Waits
    <3>3. /\ u \in Threads /\ q \in Seq(Threads) /\ Distinct(q)
          /\ Waits(u, mtx[m].wq)
          /\ \A x \in Threads : Waits(x, q) <=> Waits(x, mtx[m].wq) /\ x # u
      BY <2>1, <3>1, <3>2
    <3> QED
      BY <1>1, <3>3, MtxCases
  <2>3. /\ r.m = [holder |-> u, wq |-> q]
        /\ r.k = end_critical(os_task_unpause(M!pass(start_critical(os), t, u), u))
    BY <1>7, <2>1, SameForMutexes DEF M!mtx_unlock, queue_wait_pop
  <2> HIDE DEF r
  <2> DEFINE w == [holder |-> u, wq |-> q]
  <2>4. Became(os, os', u, "ACTIVE")
    BY <1>1, <1>2, <1>3, <2>2, <2>3, UnlockBecomes
  <2>5. w \in [holder : Threads \cup {NULL}, wq : Seq(Threads)] /\ w.holder = u /\ w.wq = q
    BY <2>2
  <2>6. mtx' = [mtx EXCEPT ![m] = w]
    BY <1>1, <2>3
  <2> HIDE DEF w
  <2>7. MtxNow(m, w)
    BY <2>5, <2>6, MtxChanges
  <2>8. Token(m) = 0 /\ wq(m) = mtx[m].wq
    BY <1>1, <1>5, MtxCases
  <2>9. Only(m, q, 0)
    <3>1. 0 = IF w.holder = NULL THEN 1 ELSE 0
      BY <1>5, <2>2, <2>5
    <3> QED
      BY <1>1, <2>5, <2>7, <3>1, OnlyMtx
  <2>10. HandedOver(t, m)
    BY <1>1, <1>7, <2>1, <2>4, <2>8, <2>9 DEF HandedOver
  <2>11. \A x \in Threads :
           /\ Waits(x, w.wq) => w.holder # x
           /\ waiting'[x] = m => Waits(x, w.wq) \/ w.holder = x
           /\ w.holder = x => x \in held'[m] \/ waiting'[x] = m
    <3>1. ASSUME NEW x \in Threads, waiting[x] = m PROVE Waits(x, w.wq) \/ w.holder = x
      <4>1. Waits(x, mtx[m].wq) \/ mtx[m].holder = x
        BY <3>1, MtxCases
      <4>2. x # t
        BY <1>1, <3>1, MtxCases, Constants
      <4> QED
        BY <1>1, <2>2, <2>5, <4>1, <4>2
    <3>2. waiting[u] = m
      <4>1. Queued(u, m) /\ m \in Resources
        BY <2>2, MtxCases
      <4> QED
        BY <1>2, <2>2, <4>1, QueuedWaits
    <3> QED
      BY <1>1, <2>2, <2>5, <3>1, <3>2
  <2>12. ResourcesKept'
    BY <1>1, <1>3, <1>4, <1>5, <1>6, <2>2, <2>5, <2>7, <2>11, MutexStep
  <2> QED
    BY <1>1, <1>2, <2>10, <2>12 DEF Did
<1>8. CASE mtx[m].wq = <<>>
  <2>1. /\ r.m = [mtx[m] EXCEPT !.holder = NULL]
        /\ r.k = end_critical(M!restore(start_critical(os), t))
    BY <1>8, SameForMutexes DEF M!mtx_unlock
  <2> HIDE DEF r
  <2> DEFINE w == [holder |-> NULL, wq |-> <<>>]
  <2>2. mtx[m] = [holder |-> mtx[m].holder, wq |-> mtx[m].wq]
    BY MtxCases
  <2>3. r.m = w
    BY <1>8, <2>1, <2>2
  <2>4. Became(os, os', t, "ACTIVE")
    BY <1>1, <1>2, <1>3, <2>1, UnlockBecomes
  <2>5. /\ w \in [holder : Threads \cup {NULL}, wq : Seq(Threads)]
        /\ w.holder = NULL /\ w.wq = <<>>
        /\ Distinct(w.wq) /\ \A x : ~Waits(x, w.wq)
    BY DEF Distinct, Waits
  <2>6. mtx' = [mtx EXCEPT ![m] = w]
    BY <1>1, <2>3
  <2> HIDE DEF w
  <2>7. MtxNow(m, w)
    BY <2>5, <2>6, MtxChanges
  <2>8. Token(m) = 0 /\ wq(m) = <<>> /\ m \in Resources
    BY <1>1, <1>5, <1>8, MtxCases
  <2>9. Only(m, <<>>, 1)
    <3>1. 1 = IF w.holder = NULL THEN 1 ELSE 0
      BY <2>5
    <3> QED
      BY <1>1, <2>5, <2>7, <3>1, OnlyMtx
  <2>10. Deposited(t, m)
    <3>1. Token(m) + 1 = 1
      BY <2>8
    <3> QED
      BY <1>1, <2>4, <2>8, <2>9, <3>1 DEF Deposited
  <2>11. \A x \in Threads :
           /\ Waits(x, w.wq) => w.holder # x
           /\ waiting'[x] = m => Waits(x, w.wq) \/ w.holder = x
           /\ w.holder = x => x \in held'[m] \/ waiting'[x] = m
    <3>1. ASSUME NEW x \in Threads, waiting[x] = m PROVE FALSE
      <4>1. Waits(x, mtx[m].wq) \/ mtx[m].holder = x
        BY <3>1, MtxCases
      <4>2. x # t
        BY <1>1, <2>8, <3>1, Constants
      <4>3. ~Waits(x, mtx[m].wq)
        BY <1>8 DEF Waits
      <4> QED
        BY <1>1, <4>1, <4>2, <4>3
    <3> QED
      BY <1>1, <1>5, <2>5, <3>1
  <2>12. ResourcesKept'
    BY <1>1, <1>3, <1>4, <1>6, <2>5, <2>7, <2>11, MutexStep
  <2> QED
    BY <1>1, <1>2, <2>10, <2>12 DEF Did
<1> QED
  BY <1>7, <1>8

\* A lock that finds the mutex free.
LEMMA LockFree ==
  ASSUME TInv, NEW t \in Threads, NEW m \in Mutexes, mtx[m].holder = NULL,
         M!Lock(t, m), UNCHANGED <<sem, t_waitqueue>>
  PROVE  Did(t, m) /\ ResourcesKept'
<1> DEFINE r == M!mtx_lock(os, mtx[m], t)
           w == [holder |-> t, wq |-> <<>>]
<1>1. /\ CanRun(t) /\ waiting[t] = NULL
      /\ os' = r.k
      /\ mtx' = [mtx EXCEPT ![m] = r.m]
      /\ IF r.m.holder = t
         THEN held' = [held EXCEPT ![m] = @ \cup {t}] /\ UNCHANGED waiting
         ELSE waiting' = [waiting EXCEPT ![t] = m] /\ UNCHANGED held
      /\ UNCHANGED <<sem, base_prio, t_waitqueue>>
  BY SameForMutexes DEF M!Lock, M!InUserCode
<1>2. /\ os \in Kernels /\ QueueOK(os) /\ NestOK(os)
      /\ Linked(os.run_queue, t) /\ os.state[t] = "ACTIVE"
  BY <1>1, UserCaller
<1>3. /\ mtx[m].wq = <<>> /\ wq(m) = <<>> /\ Token(m) = 1
      /\ mtx[m] = [holder |-> mtx[m].holder, wq |-> mtx[m].wq]
      /\ held[m] = {}
      /\ \A x \in Threads : waiting[x] # m
  <2>1. NULL \notin Threads
    BY KernelAssumption DEF Tasks
  <2>2. mtx[m].wq = <<>> /\ wq(m) = mtx[m].wq /\ Token(m) = 1
        /\ mtx[m] = [holder |-> mtx[m].holder, wq |-> mtx[m].wq]
    <3>1. mtx[m].wq = <<>>
      BY MtxCases
    <3>2. wq(m) = mtx[m].wq /\ Token(m) = 1
      BY MtxCases
    <3>3. mtx[m] = [holder |-> mtx[m].holder, wq |-> mtx[m].wq]
      BY MtxCases
    <3> QED
      BY <3>1, <3>2, <3>3
  <2>3. held[m] = {}
    BY <2>1, MtxCases
  <2>4. ASSUME NEW x \in Threads, waiting[x] = m PROVE FALSE
    <3>1. ~Waits(x, mtx[m].wq)
      BY <2>2 DEF Waits
    <3> QED
      BY <2>1, <2>4, <3>1, MtxCases
  <2> QED
    BY <2>2, <2>3, <2>4
<1>4. r = [k |-> os, m |-> [mtx[m] EXCEPT !.holder = t]]
  BY <1>2, EmptySection, SameForMutexes DEF M!mtx_lock
<1> HIDE DEF r
<1>5. /\ w \in [holder : Threads \cup {NULL}, wq : Seq(Threads)]
      /\ r.m = w /\ r.k = os
      /\ w.holder = t /\ w.wq = <<>>
      /\ Distinct(w.wq) /\ \A x : ~Waits(x, w.wq)
  BY <1>3, <1>4 DEF Distinct, Waits
<1>6. mtx' = [mtx EXCEPT ![m] = w] /\ r.m.holder = t
  BY <1>1, <1>5
<1> HIDE DEF w
<1>7. waiting' = waiting /\ held' = [held EXCEPT ![m] = @ \cup {t}]
  BY <1>1, <1>6
<1>8. /\ held \in [Mutexes -> SUBSET Threads]
      /\ t_waitqueue' \in Seq(Impatient)
  BY <1>1 DEF TInv, TTypeOK, Impatient
<1>9. /\ held' \in [Mutexes -> SUBSET Threads]
      /\ held'[m] = {t}
      /\ \A n \in Mutexes : n # m => held'[n] = held[n]
  BY <1>3, <1>7, <1>8
<1>10. MtxNow(m, w)
  BY <1>5, <1>6, MtxChanges
<1>11. t # NULL
  BY KernelAssumption DEF Tasks
<1>12. Only(m, <<>>, 0)
  <2>1. 0 = IF w.holder = NULL THEN 1 ELSE 0
    BY <1>5, <1>11
  <2> QED
    BY <1>1, <1>5, <1>10, <2>1, OnlyMtx
<1>13. Became(os, os', t, "ACTIVE")
  BY <1>1, <1>2, <1>5, NothingBecomes
<1>14. Took(t, m)
  <2>1. Token(m) > 0 /\ Token(m) - 1 = 0
    BY <1>3
  <2> QED
    BY <1>1, <1>3, <1>7, <1>12, <1>13, <2>1 DEF Took
<1>15. \A x \in Threads :
         /\ Waits(x, w.wq) => w.holder # x
         /\ waiting'[x] = m => Waits(x, w.wq) \/ w.holder = x
         /\ w.holder = x => x \in held'[m] \/ waiting'[x] = m
  BY <1>3, <1>5, <1>7, <1>9
<1>16. (\A x \in held'[m] : w.holder = x) /\ (w.holder = NULL => w.wq = <<>>)
  BY <1>5, <1>9
<1>17. ResourcesKept'
  BY <1>1, <1>5, <1>7, <1>8, <1>9, <1>10, <1>15, <1>16, MutexStep
<1> QED
  BY <1>1, <1>2, <1>14, <1>17 DEF Did

\* One that does not.
LEMMA LockTaken ==
  ASSUME TInv, NEW t \in Threads, NEW m \in Mutexes, CanRun(t), waiting[t] = NULL,
         mtx[m].holder \notin {NULL, t},
         mtx' = [mtx EXCEPT ![m].wq = queue_wait_push(@, t)],
         waiting' = [waiting EXCEPT ![t] = m],
         Became(os, os', t, Suspension(t)),
         IF t \in Patient THEN UNCHANGED t_waitqueue
         ELSE \E x \in Limits : t_waitqueue' = pqueue_push(t_waitqueue, Deadline(t, x)),
         UNCHANGED <<sem, held, base_prio>>
  PROVE  Did(t, m) /\ ResourcesKept'
<1>1. ~Queued(t, m) /\ m \in Resources
  BY UserCaller, MtxCases
<1>2. PICK h, q : h = mtx[m].holder /\ q = Append(wq(m), t)
  OBVIOUS
<1>3. /\ h \in Threads /\ h # t /\ h # NULL /\ Token(m) = 0
      /\ wq(m) = mtx[m].wq
      /\ mtx[m] = [holder |-> h, wq |-> mtx[m].wq]
  BY <1>2, MtxCases
<1>4. /\ queue_wait_push(mtx[m].wq, t) = q
      /\ q \in Seq(Threads)
      /\ Distinct(q)
      /\ \A u : Waits(u, q) <=> Waits(u, mtx[m].wq) \/ u = t
  <2>1. \A u : Queued(u, m) <=> Waits(u, mtx[m].wq)
    BY MtxCases
  <2>2. /\ queue_wait_push(wq(m), t) = Append(wq(m), t)
        /\ Append(wq(m), t) \in Seq(Threads)
        /\ Distinct(Append(wq(m), t))
        /\ \A u : Waits(u, Append(wq(m), t)) <=> Queued(u, m) \/ u = t
    BY <1>1, LastQueued DEF Waits
  <2> QED
    BY <1>2, <1>3, <2>1, <2>2
<1> DEFINE w == [holder |-> h, wq |-> q]
<1>5. w \in [holder : Threads \cup {NULL}, wq : Seq(Threads)] /\ w.holder = h /\ w.wq = q
  BY <1>3, <1>4
<1>6. mtx' = [mtx EXCEPT ![m] = w]
  <2>1. [mtx[m] EXCEPT !.wq = q] = w
    BY <1>3
  <2>2. mtx' = [mtx EXCEPT ![m] = [mtx[m] EXCEPT !.wq = queue_wait_push(mtx[m].wq, t)]]
    OBVIOUS
  <2> QED
    BY <1>4, <2>1, <2>2
<1> HIDE DEF w
<1>7. MtxNow(m, w)
  BY <1>5, <1>6, MtxChanges
<1>8. Only(m, q, 0)
  <2>1. 0 = IF w.holder = NULL THEN 1 ELSE 0
    BY <1>3, <1>5
  <2> QED
    BY <1>5, <1>7, <2>1, OnlyMtx
<1>9. Enqueued(t, m)
  BY <1>2, <1>3, <1>8 DEF Enqueued
<1>10. t_waitqueue' \in Seq(Impatient)
  <2>1. t_waitqueue \in Seq(Impatient)
    BY DEF TInv, TTypeOK, Impatient
  <2> QED
    BY <2>1, DeadlinePushed
<1>11. /\ waiting \in [Threads -> Resources \cup {NULL}]
       /\ held \in [Mutexes -> SUBSET Threads]
  BY DEF TInv, TTypeOK
<1>12. /\ waiting'[t] = m
       /\ \A x \in Threads : x # t => waiting'[x] = waiting[x]
  BY <1>11
<1>13. \A x \in Threads :
         /\ Waits(x, w.wq) => w.holder # x
         /\ waiting'[x] = m => Waits(x, w.wq) \/ w.holder = x
         /\ w.holder = x => x \in held'[m] \/ waiting'[x] = m
  <2>1. \A x \in Threads :
          /\ Waits(x, mtx[m].wq) => h # x
          /\ waiting[x] = m => Waits(x, mtx[m].wq) \/ h = x
          /\ h = x => x \in held[m] \/ waiting[x] = m
    BY <1>2, MtxCases
  <2> QED
    BY <1>3, <1>4, <1>5, <1>12, <2>1
<1>14. (\A x \in held'[m] : w.holder = x) /\ (w.holder = NULL => w.wq = <<>>)
  <2>1. \A x \in held[m] : h = x
    BY <1>2, MtxCases
  <2> QED
    BY <1>3, <1>5, <2>1
<1>15. ResourcesKept'
  BY <1>4, <1>5, <1>7, <1>10, <1>11, <1>12, <1>13, <1>14, MutexStep
<1> QED
  BY <1>1, <1>9, <1>15 DEF Did

LEMMA LockStep ==
  ASSUME TInv, NEW t \in Threads, NEW m \in Mutexes, LockIt(t, m)
  PROVE  Did(t, m) /\ ResourcesKept'
<1>0. ASSUME CanRun(t), waiting[t] = NULL, mtx[m].holder # NULL
      PROVE  LET i == M!boost(start_critical(os), mtx[m].holder,
                              start_critical(os).fixed_prio[t])
             IN  /\ Became(os, end_critical(os_task_block(i, t)), t, "BLOCKING")
                 /\ \A x : Became(os, end_critical(os_task_timedwait(i, t_waitqueue, t, x).k),
                                  t, "SLEEPING")
  <2>1. mtx[m].holder \in Threads
    BY <1>0, MtxCases
  <2>2. /\ QueueOK(os) /\ PrioritiesOK(os) /\ NestOK(os)
        /\ os.it = t /\ Linked(os.run_queue, t)
    BY <1>0, UserCaller
  <2> QED
    BY <2>1, <2>2, LockBlocks
<1>1. CASE /\ t \in Patient \/ mtx[m].holder = NULL
           /\ M!Lock(t, m)
           /\ UNCHANGED <<sem, t_waitqueue>>
  <2>1. CASE mtx[m].holder = NULL
    BY <1>1, <2>1, LockFree
  <2>2. CASE mtx[m].holder # NULL
    <3> DEFINE r == M!mtx_lock(os, mtx[m], t)
    <3>1. t \in Patient
      BY <1>1, <2>2
    <3>2. /\ CanRun(t) /\ waiting[t] = NULL /\ t \notin held[m]
          /\ os' = r.k
          /\ mtx' = [mtx EXCEPT ![m] = r.m]
          /\ IF r.m.holder = t
             THEN held' = [held EXCEPT ![m] = @ \cup {t}] /\ UNCHANGED waiting
             ELSE waiting' = [waiting EXCEPT ![t] = m] /\ UNCHANGED held
          /\ UNCHANGED <<sem, base_prio, t_waitqueue>>
      BY <1>1, SameForMutexes DEF M!Lock, M!InUserCode
    <3>3. mtx[m].holder # t
      <4>1. mtx[m].holder = t => t \in held[m] \/ waiting[t] = m
        BY MtxCases
      <4>2. m # NULL
        BY Constants DEF Resources
      <4> QED
        BY <3>2, <4>1, <4>2
    <3>4. /\ r.k = end_critical(os_task_block(M!boost(start_critical(os), mtx[m].holder,
                                              start_critical(os).fixed_prio[t]), t))
          /\ r.m = [mtx[m] EXCEPT !.wq = queue_wait_push(@, t)]
      BY <2>2, SameForMutexes DEF M!mtx_lock
    <3> HIDE DEF r
    <3>5. r.m.holder = mtx[m].holder
      <4>1. mtx[m] \in [holder : Threads \cup {NULL}, wq : Seq(Threads)]
        BY Types
      <4> QED
        BY <3>4, <4>1
    <3>6. waiting' = [waiting EXCEPT ![t] = m] /\ UNCHANGED held
      BY <3>2, <3>3, <3>5
    <3>7. mtx' = [mtx EXCEPT ![m].wq = queue_wait_push(@, t)]
      BY <3>2, <3>4
    <3>8. Became(os, os', t, Suspension(t))
      BY <1>0, <2>2, <3>1, <3>2, <3>4 DEF Suspension
    <3> QED
      BY <2>2, <3>1, <3>2, <3>3, <3>6, <3>7, <3>8, LockTaken
  <2> QED
    BY <2>1, <2>2
<1>2. CASE t \notin Patient /\ \E ticks \in Limits : MtxTimedlock(t, m, ticks)
  <2>1. PICK ticks \in Limits : MtxTimedlock(t, m, ticks)
    BY <1>2
  <2> DEFINE r == mtx_timedlock(os, mtx[m], t_waitqueue, t, ticks)
  <2>2. /\ CanRun(t) /\ waiting[t] = NULL
        /\ mtx[m].holder \notin {NULL, t}
        /\ os' = r.k
        /\ mtx' = [mtx EXCEPT ![m] = r.m]
        /\ waiting' = [waiting EXCEPT ![t] = m]
        /\ t_waitqueue' = r.heap
        /\ UNCHANGED <<sem, held, base_prio>>
    BY <2>1 DEF MtxTimedlock, InUserCode
  <2>3. /\ r.k = end_critical(os_task_timedwait(M!boost(start_critical(os), mtx[m].holder,
                                   start_critical(os).fixed_prio[t]), t_waitqueue, t, ticks).k)
        /\ r.m = [mtx[m] EXCEPT !.wq = queue_wait_push(@, t)]
        /\ r.heap = pqueue_push(t_waitqueue, Deadline(t, ticks))
    BY SameForMutexes DEF mtx_timedlock, os_task_timedwait
  <2> HIDE DEF r
  <2>4. Became(os, os', t, Suspension(t))
    BY <1>0, <1>2, <2>2, <2>3 DEF Suspension
  <2>5. mtx' = [mtx EXCEPT ![m].wq = queue_wait_push(@, t)]
    BY <2>2, <2>3
  <2> QED
    BY <1>2, <2>2, <2>3, <2>4, <2>5, LockTaken
<1> QED
  BY <1>1, <1>2 DEF LockIt

LEMMA LockedReturnStep ==
  ASSUME TInv, NEW t \in Threads, NEW m \in Mutexes, LockedReturn(t, m)
  PROVE  Did(t, m) /\ ResourcesKept'
<1>1. /\ CanRun(t) /\ waiting[t] = m
      /\ UNCHANGED <<sem, mtx, base_prio, t_waitqueue>>
  BY SameForMutexes DEF LockedReturn, M!LockReturn, MtxTimedlockReturn
<1>2. m \in Resources /\ m # NULL
  BY Constants DEF Resources
<1>3. /\ Linked(os.run_queue, t)
      /\ os \in Kernels /\ QueueOK(os) /\ PrioritiesOK(os)
  BY <1>1, CallerRuns, Types
<1>4. /\ waiting \in [Threads -> Resources \cup {NULL}]
      /\ held \in [Mutexes -> SUBSET Threads]
      /\ t_waitqueue' \in Seq(Impatient)
  BY <1>1 DEF TInv, TTypeOK, Impatient
<1>5. PICK w : w = mtx[m]
  OBVIOUS
<1>6. MtxNow(m, w)
  BY <1>1, <1>5 DEF MtxNow, TInv, TTypeOK
<1>7. /\ Distinct(w.wq)
      /\ \A u : Queued(u, m) <=> Waits(u, w.wq)
      /\ \A u \in Threads :
           /\ Waits(u, w.wq) => w.holder # u
           /\ waiting[u] = m => Waits(u, w.wq) \/ w.holder = u
           /\ w.holder = u => u \in held[m] \/ waiting[u] = m
      /\ \A u \in held[m] : w.holder = u
      /\ w.holder = NULL => w.wq = <<>>
  BY <1>5, MtxCases
<1>8. Only(m, wq(m), Token(m))
  BY <1>1 DEF Only, wq, Token
<1>9. ASSUME w.holder = t,
             held' = [held EXCEPT ![m] = @ \cup {t}],
             waiting' = [waiting EXCEPT ![t] = NULL],
             os' = os
      PROVE  Did(t, m) /\ ResourcesKept'
  <2>1. /\ waiting'[t] = NULL
        /\ \A x \in Threads : x # t => waiting'[x] = waiting[x]
        /\ held' \in [Mutexes -> SUBSET Threads]
        /\ held'[m] = held[m] \cup {t}
        /\ \A n \in Mutexes : n # m => held'[n] = held[n]
    BY <1>4, <1>9
  <2>2. ~Queued(t, m)
    BY <1>7, <1>9
  <2>3. Departed(t, m)
    BY <1>1, <1>8, <1>9, <2>2 DEF Departed
  <2>4. \A x \in Threads :
          /\ Waits(x, w.wq) => w.holder # x
          /\ waiting'[x] = m => Waits(x, w.wq) \/ w.holder = x
          /\ w.holder = x => x \in held'[m] \/ waiting'[x] = m
    BY <1>7, <1>9, <2>1
  <2>5. \A x \in held'[m] : w.holder = x
    BY <1>7, <1>9, <2>1
  <2>6. ResourcesKept'
    BY <1>1, <1>4, <1>6, <1>7, <2>1, <2>4, <2>5, MutexStep
  <2> QED
    BY <1>1, <1>3, <2>3, <2>6 DEF Did
<1>10. CASE t \in Patient
  <2>1. /\ os' = os
        /\ held' = [held EXCEPT ![m] = @ \cup {t}]
        /\ waiting' = [waiting EXCEPT ![t] = NULL]
    BY <1>1, <1>10 DEF LockedReturn, M!LockReturn
  <2>2. ASSUME Queued(t, m) PROVE FALSE
    <3>1. os.state[t] = "BLOCKING"
      BY <1>2, <1>3, <1>10, <2>2, QueuedWaits DEF Suspension
    <3> QED
      BY <1>3, <3>1 DEF TInv, RunQueueKept
  <2>3. w.holder = t
    BY <1>1, <1>7, <2>2
  <2> QED
    BY <1>9, <2>1, <2>3
<1>11. CASE t \notin Patient
  <2>1. /\ w.holder = t
        /\ os' = os
        /\ held' = [held EXCEPT ![m] = @ \cup {t}]
        /\ waiting' = [waiting EXCEPT ![t] = NULL]
    BY <1>5, <1>11 DEF LockedReturn, MtxTimedlockReturn
  <2> QED
    BY <1>9, <2>1
<1> QED
  BY <1>10, <1>11

-----------------------------------------------------------------------------
(* The invariant.                                                          *)

LEMMA TickStep ==
  ASSUME TInv, TTick
  PROVE  TInv'
<1>1. ThreadsKept'
  BY TickThreads
<1>2. t_waitqueue' \in Seq(Impatient)
  BY TickJoins
<1>3. UNCHANGED <<sem, mtx, waiting, held, base_prio>>
  BY DEF TTick, Update
<1>4. \A r : wq(r)' = wq(r)
  BY <1>3 DEF wq
<1>5. ResourcesKept
  BY TInvParts
<1>6. ResourcesKept'
  <2>1. SemaphoresKept'
    BY <1>3, <1>5 DEF ResourcesKept, SemaphoresKept
  <2>2. MutexesKept'
    <3>1. \A t, r : Queued(t, r)' <=> Queued(t, r)
      BY <1>4 DEF Queued
    <3> QED
      BY <1>3, <1>5, <3>1 DEF ResourcesKept, MutexesKept
  <2>3. MutualExclusion'
    BY <1>3, <1>5 DEF ResourcesKept, MutualExclusion, M!MutualExclusion
  <2> QED
    BY <1>2, <1>3, <1>5, <2>1, <2>2, <2>3 DEF ResourcesKept
<1> QED
  <2>1. (ThreadsKept /\ ResourcesKept)'
    BY <1>1, <1>6
  <2>2. TInv' <=> (ThreadsKept /\ ResourcesKept)'
    BY Zenon DEF TInv, TTypeOK, ThreadsKept, ResourcesKept, Impatient
  <2> QED
    BY <2>1, <2>2

\* Every step is one of the outcomes or a tick.
LEMMA NextDoes ==
  ASSUME TInv, TNext
  PROVE  TTick \/ \E t \in Threads, r \in Resources : Did(t, r) /\ ResourcesKept'
<1>1. Semaphores \subseteq Resources /\ Mutexes \subseteq Resources
  BY DEF Resources
<1>2. ASSUME NEW t \in Threads, NEW s \in Semaphores, TSemPost(t, s)
      PROVE  Did(t, s) /\ ResourcesKept'
  BY <1>2, PostStep
<1>3. ASSUME NEW t \in Threads, NEW s \in Semaphores, WaitReturn(t, s)
      PROVE  Did(t, s) /\ ResourcesKept'
  BY <1>3, WaitReturnStep
<1>4. ASSUME NEW t \in Threads, NEW s \in Semaphores, NobodyWaits(s), WaitFor(t, s)
      PROVE  Did(t, s) /\ ResourcesKept'
  BY <1>4, WaitStep
<1>5. ASSUME NEW t \in Threads, NEW m \in Mutexes, TUnlock(t, m)
      PROVE  Did(t, m) /\ ResourcesKept'
  BY <1>5, UnlockStep
<1>6. ASSUME NEW t \in Threads, NEW m \in Mutexes, LockIt(t, m)
      PROVE  Did(t, m) /\ ResourcesKept'
  BY <1>6, LockStep
<1>7. ASSUME NEW t \in Threads, NEW m \in Mutexes, LockedReturn(t, m)
      PROVE  Did(t, m) /\ ResourcesKept'
  BY <1>7, LockedReturnStep
<1>8. \/ TTick
      \/ \E t \in Threads, s \in Semaphores :
           TSemPost(t, s) \/ WaitReturn(t, s) \/ (NobodyWaits(s) /\ WaitFor(t, s))
      \/ \E t \in Threads, m \in Mutexes :
           TUnlock(t, m) \/ LockIt(t, m) \/ LockedReturn(t, m)
  BY Zenon DEF TNext, Common
<1> QED
  BY <1>1, <1>2, <1>3, <1>4, <1>5, <1>6, <1>7, <1>8

LEMMA TNextInv ==
  ASSUME TInv, [TNext]_twvars
  PROVE  TInv'
<1>1. TInv' <=> (ThreadsKept /\ ResourcesKept)'
  BY Zenon DEF TInv, TTypeOK, ThreadsKept, ResourcesKept, Impatient
<1>2. CASE TNext
  <2>1. CASE TTick
    BY <2>1, TickStep
  <2>2. ASSUME NEW t \in Threads, NEW r \in Resources, Did(t, r) /\ ResourcesKept'
        PROVE  TInv'
    <3>1. ThreadsKept'
      BY <2>2, DidThreads
    <3> QED
      BY <1>1, <2>2, <3>1
  <2> QED
    BY <1>2, <2>1, <2>2, NextDoes
<1>3. CASE UNCHANGED twvars
  <2>1. UNCHANGED <<os, sem, mtx, waiting, held, base_prio, t_waitqueue>>
    BY <1>3 DEF twvars
  <2>2. \A r : wq(r)' = wq(r)
    BY <2>1 DEF wq
  <2>3. \A t, r : Queued(t, r)' <=> Queued(t, r)
    BY <2>2 DEF Queued
  <2>4. TTypeOK' /\ RunQueueKept'
    BY <2>1 DEF TInv, TTypeOK, RunQueueKept
  <2>5. Preemptible(os')
    BY <2>1 DEF TInv
  <2>6. WaitersKept'
    BY <2>1, <2>3 DEF TInv, WaitersKept
  <2>7. SemaphoresKept' /\ MutexesKept'
    BY <2>1, <2>3 DEF TInv, SemaphoresKept, MutexesKept
  <2>8. MutualExclusion'
    BY <2>1 DEF TInv, MutualExclusion, M!MutualExclusion
  <2> QED
    BY <2>4, <2>5, <2>6, <2>7, <2>8 DEF TInv
<1> QED
  BY <1>2, <1>3

LEMMA TInitInv ==
  ASSUME TInit
  PROVE  /\ TInv
         /\ \A t \in Threads : Linked(os.run_queue, t)
<1>1. PICK v \in [Semaphores -> 0..MaxVal] :
        sem = [s \in Semaphores |-> [val |-> v[s], wq |-> <<>>]]
  BY DEF TInit, S!sem_init
<1>2. /\ KInit
      /\ mtx = [m \in Mutexes |-> [holder |-> NULL, wq |-> <<>>]]
      /\ waiting = [t \in Threads |-> NULL]
      /\ held = [m \in Mutexes |-> {}]
      /\ base_prio = os.fixed_prio
      /\ t_waitqueue = <<>>
  BY DEF TInit, M!mtx_init
<1>3. KInv /\ \A t \in Threads : os.state[t] = "ACTIVE"
  BY <1>2, KInitInv
<1>4. os \in Kernels /\ PrioritiesOK(os) /\ RunQueueOK(os) /\ IteratorOK(os) /\ Preemptible(os)
  BY <1>3 DEF KInv, KernelInv
<1>5. \A t \in Threads : Linked(os.run_queue, t)
  BY <1>3, <1>4 DEF RunQueueOK
<1>6. \A s \in Semaphores : sem[s].val \in Nat /\ sem[s].wq = <<>>
  BY <1>1
<1>7. \A m \in Mutexes : mtx[m].holder = NULL /\ mtx[m].wq = <<>>
  BY <1>2
<1>8. \A r \in Resources : wq(r) = <<>>
  BY <1>6, <1>7 DEF wq, Resources
<1>9. \A t, r : r \in Resources => ~Queued(t, r)
  BY <1>8 DEF Queued
<1>10. TTypeOK
  <2>1. base_prio \in [Tasks -> Nat \ {0}]
    BY <1>2, KInitPrios
  <2>2. sem \in [Semaphores -> [val : Int, wq : Seq(Threads)]]
    BY <1>1
  <2> QED
    BY <1>2, <1>4, <2>1, <2>2 DEF TTypeOK
<1>11. RunQueueKept
  BY <1>3, <1>4, <1>5 DEF RunQueueKept, RunQueueOK, IteratorOK
<1>12. WaitersKept
  BY <1>3, <1>9 DEF WaitersKept, Suspended
<1>13. SemaphoresKept
  <2>1. \A s \in Semaphores : ~(sem[s].val < 0)
    BY <1>6
  <2>2. \A s \in Semaphores, t \in Threads : waiting[t] # s
    BY <1>2, Constants DEF Resources
  <2> QED
    BY <1>6, <2>1, <2>2 DEF SemaphoresKept
<1>14. MutexesKept
  <2>1. NULL \notin Threads /\ \A m \in Mutexes : m # NULL /\ m \in Resources
    BY Constants, KernelAssumption DEF Tasks, Resources
  <2> QED
    BY <1>2, <1>7, <1>9, <2>1 DEF MutexesKept
<1>15. MutualExclusion
  BY <1>2, <1>7 DEF MutualExclusion, M!MutualExclusion
<1> QED
  BY <1>4, <1>5, <1>10, <1>11, <1>12, <1>13, <1>14, <1>15 DEF TInv

\* As long as one thread at a time waits for a semaphore, and no thread comes back
\* from a mtx_timedlock without the mutex: the threads, the queues and the mutexes
\* agree about who waits for what (semaphore.c:69-108, mutex.c:79-124,
\* os.c:243-252, 307-323).
THEOREM TimedWaitInvariant == TSpec => []TInv
<1>1. TInit => TInv
  BY TInitInv
<1>2. TInv /\ [TNext]_twvars => TInv'
  BY TNextInv
<1> QED
  BY <1>1, <1>2, PTL DEF TSpec

\* Under the same discipline: every variable has its type, no slice is ever zero,
\* and only threads that wait with a limit have a deadline.
THEOREM TimedWaitTypes == TSpec => []TTypeOK
<1>1. TInv => TTypeOK
  BY DEF TInv
<1> QED
  BY <1>1, TimedWaitInvariant, PTL

\* Under the discipline of TNext no two threads are between a lock that returned 0
\* and its unlock, whether they came with mtx_lock or with mtx_timedlock.  Once a
\* thread comes back from a mtx_timedlock without the mutex they may be: see
\* MtxTimedlockTimeout and os_panic.
THEOREM TimedWaitExcludes == TSpec => []MutualExclusion
<1>1. TInv => MutualExclusion
  BY DEF TInv
<1> QED
  BY <1>1, TimedWaitInvariant, PTL

\* Under the same discipline, neither a signal nor the time-out of a semaphore
\* leaves a thread behind in a queue.
THEOREM NoPhantoms == TSpec => []NoPhantomWaiter
<1>1. ASSUME TInv, NEW t \in Threads, NEW r \in Resources, Queued(t, r)
      PROVE  waiting[t] = r
  BY <1>1, QueuedWaits
<1>2. TInv => NoPhantomWaiter
  BY <1>1 DEF NoPhantomWaiter
<1> QED
  BY <1>2, TimedWaitInvariant, PTL

-----------------------------------------------------------------------------
(* The deadlines.                                                          *)

\* Who is off the run queue and waits with a limit has a deadline.
DeadlineHeld ==
  \A t \in Threads \ Patient :
    ~Linked(os.run_queue, t) => t \in DataOf(t_waitqueue)

\* If the heap takes the deadline of a wait that starts, nobody loses one.
LEMMA DeadlineDid ==
  ASSUME TInv, DeadlineHeld, RoomForDeadlines, NEW t \in Threads, NEW r \in Resources,
         Did(t, r)
  PROVE  DeadlineHeld'
<1>1. t_waitqueue \in Seq(Impatient)
  BY DEF TInv, TTypeOK, Impatient
<1>2. CASE Enqueued(t, r)
  <2>1. \A u \in Threads : u # t => (Linked(os'.run_queue, u) <=> Linked(os.run_queue, u))
    BY <1>2 DEF Enqueued, Became
  <2>2. CASE t \in Patient
    <3>1. t_waitqueue' = t_waitqueue
      BY <1>2, <2>2 DEF Enqueued
    <3> QED
      BY <2>1, <2>2, <3>1 DEF DeadlineHeld
  <2>3. CASE t \notin Patient
    <3>1. PICK x \in Limits : t_waitqueue' = pqueue_push(t_waitqueue, Deadline(t, x))
      BY <1>2, <2>3 DEF Enqueued
    <3>2. PICK d : d = Deadline(t, x) /\ d \in Impatient /\ d.data = t
      BY <2>3, DeadlineTypes
    <3>3. DataOf(t_waitqueue') = DataOf(t_waitqueue) \cup {t}
      <4>1. Len(t_waitqueue) + 1 < NUM_THREADS /\ NUM_THREADS \in Nat
        BY Constants DEF RoomForDeadlines
      <4> QED
        BY <1>1, <3>1, <3>2, <4>1, PushEffect
    <3> QED
      BY <2>1, <3>3 DEF DeadlineHeld
  <2> QED
    BY <2>2, <2>3
<1>3. ASSUME t_waitqueue' = t_waitqueue,
             \A u \in Threads : Linked(os.run_queue, u) => Linked(os'.run_queue, u)
      PROVE  DeadlineHeld'
  BY <1>3 DEF DeadlineHeld
<1>4. CASE HandedOver(t, r)
  <2>1. PICK u : u = Head(wq(r))
    OBVIOUS
  <2>2. Became(os, os', u, "ACTIVE") /\ t_waitqueue' = t_waitqueue
    BY <1>4, <2>1 DEF HandedOver
  <2> QED
    BY <1>3, <2>2 DEF Became
<1>5. CASE Took(t, r) \/ Deposited(t, r) \/ GaveUp(t, r)
  <2>1. Became(os, os', t, "ACTIVE") /\ t_waitqueue' = t_waitqueue
    BY <1>5 DEF Took, Deposited, GaveUp
  <2> QED
    BY <1>3, <2>1 DEF Became
<1>6. CASE Departed(t, r)
  BY <1>3, <1>6 DEF Departed
<1> QED
  BY <1>2, <1>4, <1>5, <1>6 DEF Did

LEMMA DeadlineTick ==
  ASSUME TInv, DeadlineHeld, TTick
  PROVE  DeadlineHeld'
<1>1. PICK k : /\ Joined(os, k, DataOf(t_waitqueue))
               /\ Rescheduled(k, os')
               /\ \A u \in DataOf(t_waitqueue) :
                    u \in DataOf(t_waitqueue') \/ Linked(k.run_queue, u)
  BY TickJoins
<1>2. os'.run_queue = k.run_queue
  BY <1>1 DEF Rescheduled
<1>3. \A u \in Threads : Linked(os.run_queue, u) => Linked(k.run_queue, u)
  BY <1>1 DEF Joined
<1> QED
  BY <1>1, <1>2, <1>3 DEF DeadlineHeld

LEMMA DeadlineNext ==
  ASSUME TInv, DeadlineHeld, RoomForDeadlines, [TNext]_twvars
  PROVE  DeadlineHeld'
<1>1. CASE TNext
  <2>1. ASSUME NEW t \in Threads, NEW r \in Resources, Did(t, r) PROVE DeadlineHeld'
    BY <2>1, DeadlineDid
  <2> QED
    BY <1>1, <2>1, NextDoes, DeadlineTick
<1>2. CASE UNCHANGED twvars
  BY <1>2 DEF twvars, DeadlineHeld
<1> QED
  BY <1>1, <1>2

\* With the deadlines of the threads that wait without a limit, all of it.
LEMMA DeadlineKeeps ==
  ASSUME TInv, DeadlineHeld
  PROVE  DeadlineKept
<1>1. ASSUME NEW t \in Threads, ~Linked(os.run_queue, t)
      PROVE  IF t \in Patient
             THEN os.state[t] = "BLOCKING" /\ \E r \in Resources : Queued(t, r)
             ELSE /\ os.state[t] = "SLEEPING"
                  /\ \E i \in 1..Len(t_waitqueue) : t_waitqueue[i].data = t
  <2>1. os.state[t] \in Suspended
    BY <1>1 DEF TInv, RunQueueKept
  <2>2. waiting[t] \in Resources /\ Queued(t, waiting[t])
    BY <2>1 DEF TInv, WaitersKept
  <2>3. PICK x : x = waiting[t]
    OBVIOUS
  <2>4. os.state[t] = Suspension(t)
    BY <2>2 DEF TInv, WaitersKept, Suspension
  <2>5. t \notin Patient => t \in DataOf(t_waitqueue)
    BY <1>1 DEF DeadlineHeld
  <2> QED
    BY <2>2, <2>4, <2>5 DEF DataOf, Suspension
<1> QED
  BY <1>1 DEF DeadlineKept

\* As long as the heap takes every deadline, no thread that waits with a limit
\* loses its own, whatever was left behind in front of it (os.c:243-252, 307-323).
THEOREM DeadlinesKept == TSpec /\ []RoomForDeadlines => []DeadlineKept
<1>1. TInit => DeadlineHeld
  BY TInitInv DEF DeadlineHeld
<1>2. TInv /\ DeadlineHeld /\ RoomForDeadlines /\ [TNext]_twvars => DeadlineHeld'
  BY DeadlineNext
<1>3. TInv /\ DeadlineHeld => DeadlineKept
  BY DeadlineKeeps
<1> QED
  BY <1>1, <1>2, <1>3, TimedWaitInvariant, PTL DEF TSpec

-----------------------------------------------------------------------------
(* The abstract semaphores.                                                *)

absvars == <<tokens, queue, granted>>

\* Thread t is inside a wait for r and no longer in its queue.
Chosen(t, r) == waiting[t] = r /\ ~Queued(t, r)

LEMMA Mapped ==
  /\ tokens = [r \in Resources |-> Token(r)]
  /\ queue = [r \in Resources |-> wq(r)]
  /\ granted = [r \in Resources |-> {t \in Threads : Chosen(t, r)}]
BY DEF tokens, queue, granted, Token, Chosen

LEMMA MappedAfter ==
  /\ tokens' = [r \in Resources |-> Token(r)']
  /\ queue' = [r \in Resources |-> wq(r)']
  /\ granted' = [r \in Resources |-> {t \in Threads : Chosen(t, r)'}]
BY DEF tokens, queue, granted, Token, Chosen

LEMMA OnlyMapped ==
  ASSUME NEW r \in Resources, NEW q, NEW n, Only(r, q, n)
  PROVE  /\ tokens' = [tokens EXCEPT ![r] = n]
         /\ queue' = [queue EXCEPT ![r] = q]
         /\ tokens[r] = Token(r)
         /\ queue[r] = wq(r)
         /\ n = Token(r) => tokens' = tokens
         /\ q = wq(r) => queue' = queue
<1>1. /\ wq(r)' = q
      /\ Token(r)' = n
      /\ \A x \in Resources : x # r => wq(x)' = wq(x) /\ Token(x)' = Token(x)
  BY DEF Only
<1>2. [x \in Resources |-> Token(x)'] = [[x \in Resources |-> Token(x)] EXCEPT ![r] = n]
  BY <1>1
<1>3. [x \in Resources |-> wq(x)'] = [[x \in Resources |-> wq(x)] EXCEPT ![r] = q]
  BY <1>1
<1>4. tokens' = [tokens EXCEPT ![r] = n] /\ queue' = [queue EXCEPT ![r] = q]
  BY <1>2, <1>3, Mapped, MappedAfter
<1>5. tokens[r] = Token(r) /\ queue[r] = wq(r)
  BY Mapped
<1>6. n = Token(r) => tokens' = tokens
  BY <1>4, <1>5, Mapped
<1>7. q = wq(r) => queue' = queue
  BY <1>4, <1>5, Mapped
<1> QED
  BY <1>4, <1>5, <1>6, <1>7

LEMMA GrantedSame ==
  ASSUME \A u \in Threads, x \in Resources : Chosen(u, x)' <=> Chosen(u, x)
  PROVE  granted' = granted
<1>1. \A x \in Resources : {u \in Threads : Chosen(u, x)'} = {u \in Threads : Chosen(u, x)}
  OBVIOUS
<1> QED
  BY <1>1, Mapped, MappedAfter

\* The chosen of one resource change.
LEMMA GrantedNow ==
  ASSUME NEW r \in Resources, NEW G \in SUBSET Threads,
         \A u \in Threads : Chosen(u, r)' <=> u \in G,
         \A u \in Threads, x \in Resources : x # r => (Chosen(u, x)' <=> Chosen(u, x))
  PROVE  granted' = [granted EXCEPT ![r] = G]
<1>1. {u \in Threads : Chosen(u, r)'} = G
  OBVIOUS
<1>2. \A x \in Resources : x # r =>
        {u \in Threads : Chosen(u, x)'} = {u \in Threads : Chosen(u, x)}
  OBVIOUS
<1> QED
  BY <1>1, <1>2, Mapped, MappedAfter

LEMMA UserFree ==
  ASSUME TInv, NEW t \in Threads, waiting[t] = NULL
  PROVE  Abstract!Free(t)
<1>1. \A r \in Resources : ~Queued(t, r) /\ waiting[t] # r
  BY UserFacts, Constants
<1>2. \A r \in Resources : queue[r] = wq(r) /\ t \notin granted[r]
  BY <1>1, Mapped DEF Chosen
<1> QED
  BY <1>1, <1>2 DEF Abstract!Free, Abstract!InQueue, Queued

LEMMA EnqueuedAbstract ==
  ASSUME TInv, NEW t \in Threads, NEW r \in Resources, Enqueued(t, r)
  PROVE  Abstract!Enqueue(t, r)
<1>1. PICK q : q = Append(wq(r), t)
  OBVIOUS
<1>2. /\ waiting[t] = NULL
      /\ Token(r) = 0
      /\ Only(r, q, 0)
      /\ waiting' = [waiting EXCEPT ![t] = r]
  BY <1>1 DEF Enqueued
<1>3. \A x \in Resources : ~Queued(t, x)
  BY <1>2, UserFacts
<1>4. \A u : (\E i \in 1..Len(q) : q[i] = u) <=> Queued(u, r) \/ u = t
  BY <1>1, <1>3, LastQueued
<1>5. /\ \A u, x : x \in Resources /\ x # r => (Queued(u, x)' <=> Queued(u, x))
      /\ \A u : Queued(u, r)' <=> \E i \in 1..Len(q) : q[i] = u
  <2>1. \A u \in Threads : u # t => ((\E i \in 1..Len(q) : q[i] = u) <=> Queued(u, r))
    BY <1>4
  <2>2. PICK n : Only(r, q, n)
    BY <1>2
  <2> QED
    BY <2>1, <2>2, OthersQueued
<1>6. waiting \in [Threads -> Resources \cup {NULL}] /\ NULL \notin Resources
  BY Constants DEF TInv, TTypeOK
<1>7. waiting'[t] = r /\ \A u \in Threads : u # t => waiting'[u] = waiting[u]
  BY <1>2, <1>6
<1>8. ASSUME NEW u \in Threads, NEW x \in Resources PROVE Chosen(u, x)' <=> Chosen(u, x)
  <2>1. CASE u = t
    <3>1. ~Chosen(t, x)
      BY <1>2, <1>6 DEF Chosen
    <3>2. ~Chosen(t, x)'
      BY <1>4, <1>5, <1>7 DEF Chosen
    <3> QED
      BY <2>1, <3>1, <3>2
  <2>2. CASE u # t
    BY <1>4, <1>5, <1>7, <2>2 DEF Chosen
  <2> QED
    BY <2>1, <2>2
<1>9. granted' = granted
  BY <1>8, GrantedSame
<1>10. /\ tokens[r] = 0 /\ tokens' = tokens
       /\ queue' = [queue EXCEPT ![r] = Append(@, t)]
  BY <1>1, <1>2, OnlyMapped
<1> QED
  BY <1>2, <1>9, <1>10, UserFree DEF Abstract!Enqueue

LEMMA HandedOverAbstract ==
  ASSUME TInv, NEW t \in Threads, NEW r \in Resources, HandedOver(t, r)
  PROVE  Abstract!HandOver(r)
<1>1. PICK u, q : u = Head(wq(r)) /\ q = Tail(wq(r))
  OBVIOUS
<1>2. /\ wq(r) # <<>>
      /\ Only(r, q, Token(r))
      /\ waiting' = waiting
  BY <1>1 DEF HandedOver
<1>3. /\ u \in Threads
      /\ Queued(u, r)
      /\ \A v : (\E i \in 1..Len(q) : q[i] = v) <=> Queued(v, r) /\ v # u
  BY <1>1, <1>2, FirstQueued
<1>4. /\ \A v, x : x \in Resources /\ x # r => (Queued(v, x)' <=> Queued(v, x))
      /\ \A v : Queued(v, r)' <=> \E i \in 1..Len(q) : q[i] = v
  <2>1. \A v \in Threads : v # u => ((\E i \in 1..Len(q) : q[i] = v) <=> Queued(v, r))
    BY <1>3
  <2>2. PICK n : Only(r, q, n)
    BY <1>2
  <2> QED
    BY <2>1, <2>2, OthersQueued
<1>5. waiting[u] = r
  BY <1>3, QueuedWaits
<1>6. PICK G : G = {v \in Threads : Chosen(v, r)} \cup {u}
  OBVIOUS
<1>7. G \in SUBSET Threads /\ \A v \in Threads : Chosen(v, r)' <=> v \in G
  BY <1>2, <1>3, <1>4, <1>5, <1>6 DEF Chosen
<1>8. \A v \in Threads, x \in Resources : x # r => (Chosen(v, x)' <=> Chosen(v, x))
  BY <1>2, <1>4 DEF Chosen
<1>9. granted' = [granted EXCEPT ![r] = G]
  BY <1>7, <1>8, GrantedNow
<1>10. granted[r] \cup {u} = G
  BY <1>6, Mapped
<1>11. /\ queue[r] = wq(r) /\ tokens' = tokens
       /\ queue' = [queue EXCEPT ![r] = q]
  BY <1>2, OnlyMapped
<1> QED
  BY <1>1, <1>2, <1>9, <1>10, <1>11 DEF Abstract!HandOver

LEMMA ServedAbstract ==
  ASSUME TInv, NEW t \in Threads, NEW r \in Resources
  PROVE  /\ Took(t, r) => Abstract!Take(t, r)
         /\ Deposited(t, r) => Abstract!Deposit(r)
<1>1. ASSUME NEW n, Only(r, wq(r), n), waiting' = waiting
      PROVE  /\ granted' = granted /\ queue' = queue
             /\ tokens' = [tokens EXCEPT ![r] = n]
             /\ tokens[r] = Token(r) /\ queue[r] = wq(r)
  <2>1. \A v, x : x \in Resources => (Queued(v, x)' <=> Queued(v, x))
    BY <1>1, QueuesUnchanged
  <2>2. \A v \in Threads, x \in Resources : Chosen(v, x)' <=> Chosen(v, x)
    BY <1>1, <2>1 DEF Chosen
  <2> QED
    BY <1>1, <2>2, GrantedSame, OnlyMapped
<1>2. ASSUME Took(t, r) PROVE Abstract!Take(t, r)
  <2>1. /\ waiting[t] = NULL
        /\ Token(r) > 0
        /\ Only(r, wq(r), Token(r) - 1)
        /\ waiting' = waiting
    BY <1>2 DEF Took
  <2>2. /\ granted' = granted /\ queue' = queue
        /\ tokens' = [tokens EXCEPT ![r] = Token(r) - 1]
        /\ tokens[r] = Token(r)
    BY <1>1, <2>1
  <2> QED
    BY <2>1, <2>2, UserFree DEF Abstract!Take
<1>3. ASSUME Deposited(t, r) PROVE Abstract!Deposit(r)
  <2>1. /\ wq(r) = <<>>
        /\ Only(r, wq(r), Token(r) + 1)
        /\ waiting' = waiting
    BY <1>3 DEF Deposited
  <2>2. /\ granted' = granted /\ queue' = queue
        /\ tokens' = [tokens EXCEPT ![r] = Token(r) + 1]
        /\ tokens[r] = Token(r) /\ queue[r] = wq(r)
    BY <1>1, <2>1
  <2> QED
    BY <2>1, <2>2 DEF Abstract!Deposit
<1> QED
  BY <1>2, <1>3

LEMMA DepartedAbstract ==
  ASSUME TInv, NEW t \in Threads, NEW r \in Resources, Departed(t, r)
  PROVE  Abstract!Depart(t, r)
<1>1. /\ waiting[t] = r
      /\ ~Queued(t, r)
      /\ Only(r, wq(r), Token(r))
      /\ waiting' = [waiting EXCEPT ![t] = NULL]
  BY DEF Departed
<1>2. waiting \in [Threads -> Resources \cup {NULL}] /\ NULL \notin Resources
  BY Constants DEF TInv, TTypeOK
<1>3. waiting'[t] = NULL /\ \A u \in Threads : u # t => waiting'[u] = waiting[u]
  BY <1>1, <1>2
<1>4. \A v, x : x \in Resources => (Queued(v, x)' <=> Queued(v, x))
  BY <1>1, QueuesUnchanged
<1>5. PICK G : G = {v \in Threads : Chosen(v, r)} \ {t}
  OBVIOUS
<1>6. G \in SUBSET Threads /\ \A v \in Threads : Chosen(v, r)' <=> v \in G
  BY <1>2, <1>3, <1>4, <1>5 DEF Chosen
<1>7. \A v \in Threads, x \in Resources : x # r => (Chosen(v, x)' <=> Chosen(v, x))
  BY <1>1, <1>2, <1>3, <1>4 DEF Chosen
<1>8. granted' = [granted EXCEPT ![r] = G]
  BY <1>6, <1>7, GrantedNow
<1>9. granted[r] \ {t} = G /\ t \in granted[r]
  BY <1>1, <1>5, Mapped DEF Chosen
<1>10. tokens' = tokens /\ queue' = queue
  BY <1>1, OnlyMapped
<1> QED
  BY <1>8, <1>9, <1>10 DEF Abstract!Depart

\* The only one of a queue goes.
LEMMA RemoveOnly ==
  ASSUME NEW t
  PROVE  RemoveAt(<<t>>, 1) = <<>> /\ Len(<<t>>) = 1 /\ <<t>>[1] = t
BY DEF RemoveAt

LEMMA GaveUpAbstract ==
  ASSUME TInv, NEW t \in Threads, NEW r \in Resources, GaveUp(t, r)
  PROVE  Abstract!TimeOut(t, r)
<1>1. PICK q : q = wq(r)
  OBVIOUS
<1>2. /\ waiting[t] = r
      /\ q = <<t>>
      /\ Only(r, <<>>, Token(r))
      /\ waiting' = [waiting EXCEPT ![t] = NULL]
  BY <1>1 DEF GaveUp
<1>3. Queued(t, r) /\ \A u : Queued(u, r) => u = t
  BY <1>1, <1>2 DEF Queued
<1>4. /\ \A u, x : x \in Resources /\ x # r => (Queued(u, x)' <=> Queued(u, x))
      /\ \A u : ~Queued(u, r)'
  BY <1>2 DEF Only, Queued
<1>5. waiting \in [Threads -> Resources \cup {NULL}] /\ NULL \notin Resources
  BY Constants DEF TInv, TTypeOK
<1>6. waiting'[t] = NULL /\ \A u \in Threads : u # t => waiting'[u] = waiting[u]
  BY <1>2, <1>5
<1>7. ASSUME NEW u \in Threads, NEW x \in Resources PROVE Chosen(u, x)' <=> Chosen(u, x)
  <2>1. CASE u = t
    <3>1. ~Chosen(t, x)'
      BY <1>5, <1>6 DEF Chosen
    <3>2. ~Chosen(t, x)
      BY <1>2, <1>3 DEF Chosen
    <3> QED
      BY <2>1, <3>1, <3>2
  <2>2. CASE u # t
    BY <1>3, <1>4, <1>6, <2>2 DEF Chosen
  <2> QED
    BY <2>1, <2>2
<1>8. granted' = granted
  BY <1>7, GrantedSame
<1>9. tokens' = tokens /\ queue[r] = q /\ queue' = [queue EXCEPT ![r] = <<>>]
  BY <1>1, <1>2, OnlyMapped
<1>10. /\ 1 \in 1..Len(queue[r])
       /\ queue[r][1] = t
       /\ queue' = [queue EXCEPT ![r] = RemoveAt(@, 1)]
  <2>1. Len(q) = 1 /\ q[1] = t /\ RemoveAt(q, 1) = <<>>
    BY <1>2, RemoveOnly
  <2>2. queue' = [queue EXCEPT ![r] = RemoveAt(queue[r], 1)]
    BY <1>9, <2>1
  <2>3. 1 \in 1..Len(q)
    BY <2>1
  <2>4. queue[r] = q
    BY <1>9
  <2>5. 1 \in 1..Len(queue[r]) /\ queue[r][1] = t
    BY <2>1, <2>3, <2>4, Zenon
  <2> QED
    BY <2>2, <2>5, Zenon
<1>11. Abstract!RemoveAt(queue[r], 1) = RemoveAt(queue[r], 1)
  BY DEF Abstract!RemoveAt, RemoveAt
<1> QED
  BY <1>8, <1>9, <1>10, <1>11 DEF Abstract!TimeOut

LEMMA StutterAbstract ==
  ASSUME UNCHANGED <<sem, mtx, waiting>>
  PROVE  UNCHANGED absvars
<1>1. \A r : wq(r)' = wq(r) /\ Token(r)' = Token(r)
  BY DEF wq, Token
<1>2. \A t, r : Chosen(t, r)' <=> Chosen(t, r)
  BY <1>1 DEF Chosen, Queued
<1> QED
  BY <1>1, <1>2, Mapped, MappedAfter, GrantedSame DEF absvars

LEMMA TNextAbstract ==
  ASSUME TInv, [TNext]_twvars
  PROVE  [Abstract!ATNext]_absvars
<1>1. ASSUME NEW t \in Threads, NEW r \in Resources, Did(t, r)
      PROVE  [Abstract!ATNext]_absvars
  <2>1. \/ Abstract!Enqueue(t, r) \/ Abstract!HandOver(r) \/ Abstract!Take(t, r)
        \/ Abstract!Deposit(r) \/ Abstract!Depart(t, r) \/ Abstract!TimeOut(t, r)
    BY <1>1, EnqueuedAbstract, HandedOverAbstract, ServedAbstract,
       DepartedAbstract, GaveUpAbstract DEF Did
  <2> QED
    BY <2>1 DEF Abstract!ATNext, Abstract!ANext
<1>2. CASE TTick
  BY <1>2, StutterAbstract DEF TTick, Update
<1>3. CASE UNCHANGED twvars
  BY <1>3, StutterAbstract DEF twvars
<1> QED
  BY <1>1, <1>2, <1>3, NextDoes

LEMMA AbstractStart ==
  ASSUME TInit
  PROVE  Abstract!AInit
<1>1. TInv
  BY TInitInv
<1>2. /\ \A s \in Semaphores : sem[s].val \in Int /\ sem[s].wq = <<>>
      /\ \A m \in Mutexes : mtx[m].wq = <<>>
      /\ \A t \in Threads : waiting[t] = NULL
  BY <1>1, SemValues DEF TInit, S!sem_init, M!mtx_init
<1>3. \A r \in Resources : wq(r) = <<>>
  BY <1>2 DEF wq, Resources
<1>4. \A r \in Resources : Token(r) \in Nat
  BY <1>2 DEF Token
<1>5. \A t \in Threads, r \in Resources : ~Chosen(t, r)
  BY <1>2, Constants DEF Chosen
<1>6. /\ tokens \in [Resources -> Nat]
      /\ queue = [r \in Resources |-> <<>>]
      /\ granted = [r \in Resources |-> {}]
  BY <1>3, <1>4, <1>5, Mapped
<1> QED
  BY <1>6 DEF Abstract!AInit

\* The waits with a time limit, and the mutexes, implement the abstract
\* semaphores with hand-off and time-outs, as long as one thread at a time waits
\* for a semaphore and none comes back from a mtx_timedlock without the mutex.
THEOREM TimedWaitRefinement == TSpec => ImplementsTimedSemaphore
<1>1. TInit => Abstract!AInit
  BY AbstractStart
<1>2. TInv /\ [TNext]_twvars => [Abstract!ATNext]_absvars
  BY TNextAbstract
<1> QED
  BY <1>1, <1>2, TimedWaitInvariant, PTL
  DEF TSpec, ImplementsTimedSemaphore, Abstract!ATSpec, Abstract!avars, absvars
=============================================================================
