----------------------------- MODULE MutexProofs -----------------------------
(***************************************************************************)
(* Theorems about Mutex, for every set of threads and mutexes and every    *)
(* range of priorities.                                                    *)
(***************************************************************************)
EXTENDS Mutex, DataProofs

LEMMA MutexConstants ==
  /\ NULL \notin Mutexes /\ NULL \notin Threads
  /\ Idle \notin Threads
  /\ MaxPrio \in Nat \ {0}
  /\ NUM_THREADS \in Nat /\ Cardinality(Threads) <= NUM_THREADS
BY MutexAssumption, KernelAssumption

-----------------------------------------------------------------------------
(* Priorities that change inside a critical section.                       *)

\* The kernel k with the slices w and the priorities f.
WithPrios(k, w, f) == [[k EXCEPT !.working_prio = w] EXCEPT !.fixed_prio = f]

Prios == [Tasks -> Nat \ {0}]

\* What a change of priorities leaves alone.
SameQueues(j, k) ==
  /\ j.run_queue = k.run_queue
  /\ j.it = k.it
  /\ j.task_active_cnt = k.task_active_cnt
  /\ j.run_ptr = k.run_ptr
  /\ j.state = k.state
  /\ j.nest = k.nest
  /\ j.gie = k.gie
  /\ j.wdtifg = k.wdtifg

LEMMA PriosEffect ==
  ASSUME NEW k \in Kernels, NEW w \in Prios, NEW f \in Prios
  PROVE  /\ WithPrios(k, w, f) \in Kernels
         /\ SameQueues(WithPrios(k, w, f), k)
         /\ WithPrios(k, w, f).working_prio = w
         /\ WithPrios(k, w, f).fixed_prio = f
<1> DEFINE i == [k EXCEPT !.working_prio = w]
           j == [i EXCEPT !.fixed_prio = f]
<1>1. i \in Kernels
  BY KernelUpdates DEF Prios
<1>2. SameQueues(i, k) /\ i.working_prio = w
  BY DEF Kernels, SameQueues
<1> HIDE DEF i
<1>3. j \in Kernels
  BY <1>1, KernelUpdates DEF Prios
<1>4. SameQueues(j, i) /\ j.working_prio = i.working_prio /\ j.fixed_prio = f
  BY <1>1 DEF Kernels, SameQueues
<1>5. WithPrios(k, w, f) = j
  BY DEF WithPrios, i
<1> HIDE DEF j
<1>6. SameQueues(j, k)
  BY <1>2, <1>4, Zenon DEF SameQueues
<1>7. QED BY <1>2, <1>3, <1>4, <1>5, <1>6

\* A kernel is told by its queues and its priorities.
LEMMA PriosEquality ==
  ASSUME NEW j \in Kernels, NEW k \in Kernels, SameQueues(j, k),
         j.working_prio = k.working_prio, j.fixed_prio = k.fixed_prio
  PROVE  j = k
<1>1. SameScheduler(j, k) /\ j.nest = k.nest /\ j.gie = k.gie
  BY DEF SameQueues, SameScheduler
<1>2. QED BY <1>1, KernelEquality

\* Nothing in the kernel's invariant depends on what the priorities are.
LEMMA PriosInv ==
  ASSUME NEW k, KernelInv(k), NEW w \in Prios, NEW f \in Prios
  PROVE  KernelInv(WithPrios(k, w, f))
<1> DEFINE j == WithPrios(k, w, f)
<1>1. k \in Kernels
  BY DEF KernelInv
<1>2. j \in Kernels /\ SameQueues(j, k)
  BY <1>1, PriosEffect
<1> HIDE DEF j
<1>3. RunQueueOK(j) /\ IteratorOK(j) /\ CpuOK(j)
  BY <1>2 DEF KernelInv, SameQueues, RunQueueOK, IteratorOK, CpuOK
<1>4. PrioritiesOK(j)
  BY <1>1, PriosEffect DEF j, PrioritiesOK, Prios
<1>5. KernelInv(j)
  BY <1>2, <1>3, <1>4 DEF KernelInv
<1>6. QED BY <1>5 DEF j

\* To change priorities after start_critical is to start with them changed.
LEMMA PriosStart ==
  ASSUME NEW k \in Kernels, NEW w \in Prios, NEW f \in Prios
  PROVE  WithPrios(start_critical(k), w, f) = start_critical(WithPrios(k, w, f))
<1> DEFINE s == start_critical(k)
           p == WithPrios(k, w, f)
           a == WithPrios(s, w, f)
           b == start_critical(p)
<1>1. s \in Kernels /\ SameScheduler(s, k) /\ s.nest = k.nest + 1 /\ s.gie = FALSE
  BY StartEffect
<1>2. /\ p \in Kernels /\ SameQueues(p, k)
      /\ p.working_prio = w /\ p.fixed_prio = f
  BY PriosEffect
<1> HIDE DEF s, p
<1>3. /\ a \in Kernels /\ SameQueues(a, s)
      /\ a.working_prio = w /\ a.fixed_prio = f
  BY <1>1, PriosEffect
<1>4. b \in Kernels /\ SameScheduler(b, p) /\ b.nest = p.nest + 1 /\ b.gie = FALSE
  BY <1>2, StartEffect
<1> HIDE DEF a, b
<1>5. SameScheduler(a, b) /\ a.nest = b.nest /\ a.gie = b.gie
  BY <1>1, <1>2, <1>3, <1>4 DEF SameScheduler, SameQueues
<1>6. a = b
  BY <1>3, <1>4, <1>5, KernelEquality
<1>7. QED BY <1>6 DEF a, b, s, p

\* The slices and priorities that boost, restore and pass leave.
BoostSlices(k, h, prio) ==
  IF prio > k.fixed_prio[h]
  THEN [k.working_prio EXCEPT ![h] = @ + (prio - k.fixed_prio[h])]
  ELSE k.working_prio

BoostPrios(k, h, prio) ==
  IF prio > k.fixed_prio[h] THEN [k.fixed_prio EXCEPT ![h] = prio] ELSE k.fixed_prio

PassSlices(k, t, h) == [k.working_prio EXCEPT ![h] = k.fixed_prio[t]]

RestorePrios(k, t) == [k.fixed_prio EXCEPT ![t] = base_prio[t]]

PassPrios(k, t, h) == [RestorePrios(k, t) EXCEPT ![h] = k.fixed_prio[t]]

LEMMA PriosSelf ==
  ASSUME NEW k \in Kernels, PrioritiesOK(k)
  PROVE  /\ k.working_prio \in Prios /\ k.fixed_prio \in Prios
         /\ WithPrios(k, k.working_prio, k.fixed_prio) = k
<1>1. k.working_prio \in Prios /\ k.fixed_prio \in Prios
  BY KernelTypes DEF Prios, PrioritiesOK
<1> DEFINE j == WithPrios(k, k.working_prio, k.fixed_prio)
<1>2. /\ j \in Kernels /\ SameQueues(j, k)
      /\ j.working_prio = k.working_prio /\ j.fixed_prio = k.fixed_prio
  BY <1>1, PriosEffect
<1> HIDE DEF j
<1>3. j = k
  BY <1>2, PriosEquality
<1>4. QED BY <1>1, <1>3 DEF j

LEMMA BoostEffect ==
  ASSUME NEW k \in Kernels, PrioritiesOK(k), NEW h \in Tasks, NEW prio \in Nat \ {0}
  PROVE  /\ BoostSlices(k, h, prio) \in Prios
         /\ BoostPrios(k, h, prio) \in Prios
         /\ boost(k, h, prio) = WithPrios(k, BoostSlices(k, h, prio), BoostPrios(k, h, prio))
<1>1. k.working_prio \in Prios /\ k.fixed_prio \in Prios
  BY PriosSelf
<1>2. CASE prio > k.fixed_prio[h]
  <2> DEFINE w == [k.working_prio EXCEPT ![h] = @ + (prio - k.fixed_prio[h])]
             f == [k.fixed_prio EXCEPT ![h] = prio]
             i == [k EXCEPT !.working_prio = w]
  <2>1. BoostSlices(k, h, prio) = w /\ BoostPrios(k, h, prio) = f
    BY <1>2 DEF BoostSlices, BoostPrios
  <2>2. w \in Prios /\ f \in Prios
    BY <1>1, <1>2 DEF Prios
  <2>3. boost(k, h, prio) = [i EXCEPT !.fixed_prio[h] = prio]
    BY <1>2 DEF boost
  <2> HIDE DEF w
  <2>4. i.fixed_prio = k.fixed_prio
    BY DEF Kernels
  <2>5. boost(k, h, prio) = [i EXCEPT !.fixed_prio = f]
    BY <2>3, <2>4
  <2>6. QED BY <2>1, <2>2, <2>5 DEF WithPrios
<1>3. CASE ~(prio > k.fixed_prio[h])
  BY <1>1, <1>3, PriosSelf DEF BoostSlices, BoostPrios, boost
<1>4. QED BY <1>2, <1>3

LEMMA RestoreEffect ==
  ASSUME NEW k \in Kernels, PrioritiesOK(k), NEW t \in Tasks, base_prio[t] \in Nat \ {0}
  PROVE  /\ k.working_prio \in Prios
         /\ RestorePrios(k, t) \in Prios
         /\ restore(k, t) = WithPrios(k, k.working_prio, RestorePrios(k, t))
<1> DEFINE f == RestorePrios(k, t)
           v == k.working_prio
           j == restore(k, t)
           p == WithPrios(k, v, f)
<1>1. k.working_prio \in Prios /\ k.fixed_prio \in Prios
  BY PriosSelf
<1>2. f \in Prios
  BY <1>1 DEF Prios, RestorePrios
<1>3. j = [k EXCEPT !.fixed_prio = f]
  BY DEF restore, RestorePrios
<1> HIDE DEF f
<1>4. j \in Kernels
  BY <1>2, <1>3, KernelUpdates DEF Prios
<1>5. /\ SameQueues(j, k)
      /\ j.working_prio = k.working_prio /\ j.fixed_prio = f
  BY <1>3 DEF Kernels, SameQueues
<1>6. /\ p \in Kernels /\ SameQueues(p, k)
      /\ p.working_prio = v /\ p.fixed_prio = f
  <2>1. v \in Prios
    BY <1>1
  <2> HIDE DEF v
  <2>2. QED BY <1>2, <2>1, PriosEffect
<1> HIDE DEF j, p
<1>7. SameQueues(j, p) /\ j.working_prio = p.working_prio /\ j.fixed_prio = p.fixed_prio
  BY <1>5, <1>6 DEF SameQueues
<1>8. j = p
  BY <1>4, <1>6, <1>7, PriosEquality
<1>9. QED BY <1>1, <1>2, <1>8 DEF j, p, f

LEMMA PassEffect ==
  ASSUME NEW k \in Kernels, PrioritiesOK(k), NEW t \in Tasks, NEW h \in Tasks,
         base_prio[t] \in Nat \ {0}
  PROVE  /\ PassSlices(k, t, h) \in Prios
         /\ PassPrios(k, t, h) \in Prios
         /\ pass(k, t, h) = WithPrios(k, PassSlices(k, t, h), PassPrios(k, t, h))
<1> DEFINE w == PassSlices(k, t, h)
           f == PassPrios(k, t, h)
           g == RestorePrios(k, t)
           r == restore(k, t)
           i == [r EXCEPT !.fixed_prio = f]
           j == [i EXCEPT !.working_prio = w]
           p == WithPrios(k, w, f)
<1>1. /\ k.working_prio \in Prios /\ k.fixed_prio \in Prios /\ g \in Prios
      /\ r = WithPrios(k, k.working_prio, g)
  BY PriosSelf, RestoreEffect
<1>2. w \in Prios /\ f \in Prios
  BY <1>1 DEF Prios, PassSlices, PassPrios
<1>3. /\ r \in Kernels /\ SameQueues(r, k)
      /\ r.working_prio = k.working_prio /\ r.fixed_prio = g
  <2> DEFINE v == k.working_prio
  <2>1. v \in Prios /\ g \in Prios /\ r = WithPrios(k, v, g)
    BY <1>1
  <2> HIDE DEF v, r, g
  <2>2. /\ r \in Kernels /\ SameQueues(r, k)
        /\ r.working_prio = v /\ r.fixed_prio = g
    BY <2>1, PriosEffect
  <2>3. QED BY <2>2 DEF v
<1> HIDE DEF r, g
<1>4. pass(k, t, h) = [[r EXCEPT !.fixed_prio[h] = k.fixed_prio[t]]
                         EXCEPT !.working_prio[h] = k.fixed_prio[t]]
  BY DEF pass, r
<1>5. [r EXCEPT !.fixed_prio[h] = k.fixed_prio[t]] = i
  BY <1>3 DEF PassPrios, g
<1> HIDE DEF f
<1>6. i \in Kernels
  BY <1>2, <1>3, KernelUpdates DEF Prios
<1>7. /\ SameQueues(i, r)
      /\ i.working_prio = r.working_prio /\ i.fixed_prio = f
  BY <1>3 DEF Kernels, SameQueues
<1> HIDE DEF i
<1>8. pass(k, t, h) = j
  BY <1>3, <1>4, <1>5, <1>7 DEF PassSlices
<1> HIDE DEF w
<1>9. j \in Kernels
  BY <1>2, <1>6, KernelUpdates DEF Prios
<1>10. /\ SameQueues(j, i)
       /\ j.working_prio = w /\ j.fixed_prio = i.fixed_prio
  BY <1>6 DEF Kernels, SameQueues
<1>11. /\ p \in Kernels /\ SameQueues(p, k)
       /\ p.working_prio = w /\ p.fixed_prio = f
  BY <1>2, PriosEffect
<1> HIDE DEF j, p
<1>12. SameQueues(j, p) /\ j.working_prio = p.working_prio /\ j.fixed_prio = p.fixed_prio
  BY <1>3, <1>7, <1>10, <1>11 DEF SameQueues
<1>13. j = p
  BY <1>9, <1>11, <1>12, PriosEquality
<1>14. QED BY <1>2, <1>8, <1>13 DEF p, w, f

\* A change of priorities commutes with the start of the critical section it
\* is made in.
LEMMA BoostAfterStart ==
  ASSUME NEW k \in Kernels, PrioritiesOK(k), NEW h \in Tasks, NEW prio \in Nat \ {0}
  PROVE  boost(start_critical(k), h, prio) = start_critical(boost(k, h, prio))
<1> DEFINE s == start_critical(k)
           w == BoostSlices(k, h, prio)
           f == BoostPrios(k, h, prio)
<1>1. /\ s \in Kernels /\ PrioritiesOK(s)
      /\ s.working_prio = k.working_prio /\ s.fixed_prio = k.fixed_prio
  BY StartEffect, SamePriorities DEF SameScheduler
<1>2. w \in Prios /\ f \in Prios /\ boost(k, h, prio) = WithPrios(k, w, f)
  BY BoostEffect
<1> HIDE DEF s
<1>3. boost(s, h, prio) = WithPrios(s, BoostSlices(s, h, prio), BoostPrios(s, h, prio))
  BY <1>1, BoostEffect
<1>4. BoostSlices(s, h, prio) = w /\ BoostPrios(s, h, prio) = f
  BY <1>1 DEF BoostSlices, BoostPrios
<1> HIDE DEF w, f
<1>5. WithPrios(s, w, f) = start_critical(WithPrios(k, w, f))
  BY <1>2, PriosStart DEF s
<1>6. QED BY <1>2, <1>3, <1>4, <1>5 DEF s

LEMMA RestoreAfterStart ==
  ASSUME NEW k \in Kernels, PrioritiesOK(k), NEW t \in Tasks, base_prio[t] \in Nat \ {0}
  PROVE  restore(start_critical(k), t) = start_critical(restore(k, t))
<1> DEFINE s == start_critical(k)
           w == k.working_prio
           f == RestorePrios(k, t)
<1>1. /\ s \in Kernels /\ PrioritiesOK(s)
      /\ s.working_prio = k.working_prio /\ s.fixed_prio = k.fixed_prio
  BY StartEffect, SamePriorities DEF SameScheduler
<1>2. w \in Prios /\ f \in Prios /\ restore(k, t) = WithPrios(k, w, f)
  BY RestoreEffect
<1> HIDE DEF s
<1>3. restore(s, t) = WithPrios(s, s.working_prio, RestorePrios(s, t))
  BY <1>1, RestoreEffect
<1>4. s.working_prio = w /\ RestorePrios(s, t) = f
  BY <1>1 DEF RestorePrios
<1> HIDE DEF w, f
<1>5. WithPrios(s, w, f) = start_critical(WithPrios(k, w, f))
  BY <1>2, PriosStart DEF s
<1>6. QED BY <1>2, <1>3, <1>4, <1>5 DEF s

LEMMA PassAfterStart ==
  ASSUME NEW k \in Kernels, PrioritiesOK(k), NEW t \in Tasks, NEW h \in Tasks,
         base_prio[t] \in Nat \ {0}
  PROVE  pass(start_critical(k), t, h) = start_critical(pass(k, t, h))
<1> DEFINE s == start_critical(k)
           w == PassSlices(k, t, h)
           f == PassPrios(k, t, h)
<1>1. /\ s \in Kernels /\ PrioritiesOK(s)
      /\ s.working_prio = k.working_prio /\ s.fixed_prio = k.fixed_prio
  BY StartEffect, SamePriorities DEF SameScheduler
<1>2. w \in Prios /\ f \in Prios /\ pass(k, t, h) = WithPrios(k, w, f)
  BY PassEffect
<1> HIDE DEF s
<1>3. pass(s, t, h) = WithPrios(s, PassSlices(s, t, h), PassPrios(s, t, h))
  BY <1>1, PassEffect
<1>4. PassSlices(s, t, h) = w /\ PassPrios(s, t, h) = f
  BY <1>1 DEF PassSlices, PassPrios, RestorePrios
<1> HIDE DEF w, f
<1>5. WithPrios(s, w, f) = start_critical(WithPrios(k, w, f))
  BY <1>2, PriosStart DEF s
<1>6. QED BY <1>2, <1>3, <1>4, <1>5 DEF s

\* The kernel g is os with other slices and priorities.
Reprioritised(g, w, f) ==
  /\ KernelInv(g)
  /\ SameQueues(g, os)
  /\ g.working_prio = w
  /\ g.fixed_prio = f

LEMMA ReprioritisedFacts ==
  ASSUME KInv, NEW t \in Threads, CanRun(t), NEW w \in Prios, NEW f \in Prios
  PROVE  LET g == WithPrios(os, w, f)
         IN  /\ Reprioritised(g, w, f)
             /\ NestOK(g) /\ Preemptible(g)
             /\ g.run_ptr = t
             /\ g.state[t] = "ACTIVE"
             /\ Linked(g.run_queue, t)
             /\ Distinct(g.run_queue)
             /\ Linked(g.run_queue, g.it)
             /\ g.task_active_cnt # 0
<1> DEFINE g == WithPrios(os, w, f)
<1>1. os \in Kernels /\ KernelInv(os) /\ Preemptible(os)
  BY DEF KInv, KernelInv
<1>2. KernelInv(g)
  BY <1>1, PriosInv
<1>3. SameQueues(g, os) /\ g.working_prio = w /\ g.fixed_prio = f
  BY <1>1, PriosEffect
<1> HIDE DEF g
<1>4. /\ NestOK(os) /\ os.run_ptr = t /\ os.state[t] = "ACTIVE"
      /\ Linked(os.run_queue, t) /\ Distinct(os.run_queue)
      /\ Linked(os.run_queue, os.it) /\ os.task_active_cnt # 0
  BY CallerFacts
<1>5. /\ Reprioritised(g, w, f)
      /\ NestOK(g) /\ Preemptible(g)
      /\ g.run_ptr = t /\ g.state[t] = "ACTIVE"
      /\ Linked(g.run_queue, t) /\ Distinct(g.run_queue)
      /\ Linked(g.run_queue, g.it) /\ g.task_active_cnt # 0
  BY <1>1, <1>2, <1>3, <1>4 DEF Reprioritised, SameQueues, NestOK, Preemptible
<1>6. QED BY <1>5 DEF g

-----------------------------------------------------------------------------
(* The kernel's side of the calls.                                         *)

\* What a call leaves of the kernel: the state s, the slices w and the
\* priorities f, and the caller t still on the core.
KernelAfter(j, t, s, w, f) ==
  /\ KernelInv(j)
  /\ Preemptible(j)
  /\ j.run_ptr = t
  /\ j.state = s
  /\ j.working_prio = w
  /\ j.fixed_prio = f

LEMMA LockKernel ==
  ASSUME KInv, NEW t \in Threads, CanRun(t), NEW m, m.holder \in Threads
  PROVE  KernelAfter(mtx_lock(os, m, t).k, t, [os.state EXCEPT ![t] = "BLOCKING"],
                     BoostSlices(os, m.holder, os.fixed_prio[t]),
                     BoostPrios(os, m.holder, os.fixed_prio[t]))
<1> DEFINE h == m.holder
           prio == os.fixed_prio[t]
           w == BoostSlices(os, h, prio)
           f == BoostPrios(os, h, prio)
           g == boost(os, h, prio)
           j == os_task_block(g, t)
<1>1. os \in Kernels /\ PrioritiesOK(os) /\ h \in Tasks /\ t \in Tasks
  BY DEF KInv, KernelInv, Tasks
<1>2. prio \in Nat \ {0}
  BY <1>1, KernelTypes DEF PrioritiesOK
<1>3. start_critical(os).fixed_prio[t] = prio
  BY <1>1, StartEffect DEF SameScheduler
<1>4. boost(start_critical(os), h, prio) = start_critical(g)
  BY <1>1, <1>2, BoostAfterStart
<1>5. w \in Prios /\ f \in Prios /\ g = WithPrios(os, w, f)
  BY <1>1, <1>2, BoostEffect
<1>6. h # NULL
  BY KernelAssumption
<1>7. mtx_lock(os, m, t).k = end_critical(os_task_block(start_critical(g), t))
  BY <1>3, <1>4, <1>6 DEF mtx_lock
<1> HIDE DEF w, f, g, prio, h
<1>8. /\ Reprioritised(g, w, f) /\ NestOK(g) /\ Preemptible(g)
      /\ g.run_ptr = t /\ g.state[t] = "ACTIVE"
      /\ Linked(g.run_queue, t) /\ Distinct(g.run_queue)
      /\ Linked(g.run_queue, g.it) /\ g.task_active_cnt # 0
  BY <1>5, ReprioritisedFacts
<1>9. g \in Kernels /\ KernelInv(g)
  BY <1>8 DEF Reprioritised, KernelInv
<1>10. mtx_lock(os, m, t).k = j
  BY <1>7, <1>8, <1>9, BlockSection
<1>11. /\ KernelInv(j) /\ j.state = [g.state EXCEPT ![t] = "BLOCKING"]
       /\ j.run_ptr = g.run_ptr /\ j.nest = g.nest /\ j.gie = g.gie
  BY <1>8, <1>9, BlockInv
<1>12. j.working_prio = g.working_prio /\ j.fixed_prio = g.fixed_prio
  BY <1>8, <1>9, BlockEffect
<1> HIDE DEF j
<1>13. KernelAfter(j, t, [os.state EXCEPT ![t] = "BLOCKING"], w, f)
  BY <1>8, <1>11, <1>12 DEF KernelAfter, Reprioritised, SameQueues, Preemptible
<1>14. QED BY <1>10, <1>13 DEF w, f, h, prio

LEMMA UnlockWakingKernel ==
  ASSUME KInv, NEW t \in Threads, CanRun(t), NEW m, m.wq # <<>>,
         Head(m.wq) \in Threads, os.state[Head(m.wq)] # "ACTIVE",
         base_prio[t] \in Nat \ {0}
  PROVE  KernelAfter(mtx_unlock(os, m, t).k, t,
                     [os.state EXCEPT ![Head(m.wq)] = "ACTIVE"],
                     PassSlices(os, t, Head(m.wq)), PassPrios(os, t, Head(m.wq)))
<1> DEFINE h == Head(m.wq)
           w == PassSlices(os, t, h)
           f == PassPrios(os, t, h)
           g == pass(os, t, h)
           j == os_task_unpause(g, h)
<1>1. os \in Kernels /\ PrioritiesOK(os) /\ h \in Tasks /\ t \in Tasks
  BY DEF KInv, KernelInv, Tasks
<1>2. pass(start_critical(os), t, h) = start_critical(g)
  BY <1>1, PassAfterStart
<1>3. w \in Prios /\ f \in Prios /\ g = WithPrios(os, w, f)
  BY <1>1, PassEffect
<1>4. mtx_unlock(os, m, t).k = end_critical(os_task_unpause(start_critical(g), h))
  BY <1>2 DEF mtx_unlock, queue_wait_pop
<1>5. h \in Threads /\ os.state[h] # "ACTIVE"
  OBVIOUS
<1> HIDE DEF w, f, g, h
<1>6. /\ Reprioritised(g, w, f) /\ NestOK(g) /\ Preemptible(g)
      /\ g.run_ptr = t /\ g.state[t] = "ACTIVE"
  BY <1>3, ReprioritisedFacts
<1>7. /\ g \in Kernels /\ KernelInv(g)
      /\ g.state[h] # "ACTIVE"
  BY <1>5, <1>6 DEF Reprioritised, KernelInv, SameQueues
<1>8. ~Linked(g.run_queue, h)
  BY <1>5, <1>7 DEF KernelInv, RunQueueOK
<1>9. mtx_unlock(os, m, t).k = j
  BY <1>4, <1>5, <1>6, <1>7, <1>8, UnpauseSection
<1>10. /\ KernelInv(j) /\ j.state = [g.state EXCEPT ![h] = "ACTIVE"]
       /\ j.run_ptr = g.run_ptr /\ j.nest = g.nest /\ j.gie = g.gie
  BY <1>5, <1>6, <1>7, UnpauseInv
<1>11. j.working_prio = g.working_prio /\ j.fixed_prio = g.fixed_prio
  BY <1>5, <1>6, <1>7, <1>8, UnpauseEffect
<1> HIDE DEF j
<1>12. KernelAfter(j, t, [os.state EXCEPT ![h] = "ACTIVE"], w, f)
  BY <1>6, <1>10, <1>11 DEF KernelAfter, Reprioritised, SameQueues, Preemptible
<1>13. QED BY <1>9, <1>12 DEF w, f, h

LEMMA UnlockFreeingKernel ==
  ASSUME KInv, NEW t \in Threads, CanRun(t), NEW m, m.wq = <<>>,
         base_prio[t] \in Nat \ {0}
  PROVE  KernelAfter(mtx_unlock(os, m, t).k, t, os.state, os.working_prio,
                     RestorePrios(os, t))
<1> DEFINE w == os.working_prio
           f == RestorePrios(os, t)
           g == restore(os, t)
<1>1. os \in Kernels /\ PrioritiesOK(os) /\ t \in Tasks
  BY DEF KInv, KernelInv, Tasks
<1>2. restore(start_critical(os), t) = start_critical(g)
  BY <1>1, RestoreAfterStart
<1>3. w \in Prios /\ f \in Prios /\ g = WithPrios(os, w, f)
  BY <1>1, RestoreEffect
<1>4. mtx_unlock(os, m, t).k = end_critical(start_critical(g))
  BY <1>2 DEF mtx_unlock
<1> HIDE DEF w, f, g
<1>5. /\ Reprioritised(g, w, f) /\ NestOK(g) /\ Preemptible(g) /\ g.run_ptr = t
  BY <1>3, ReprioritisedFacts
<1>6. mtx_unlock(os, m, t).k = g
  BY <1>4, <1>5, EmptySection DEF Reprioritised, KernelInv
<1>7. KernelAfter(g, t, os.state, w, f)
  BY <1>5 DEF KernelAfter, Reprioritised, SameQueues
<1>8. QED BY <1>6, <1>7 DEF w, f

LEMMA LockFreeKernel ==
  ASSUME KInv, NEW t \in Threads, CanRun(t), NEW m, m.holder = NULL
  PROVE  mtx_lock(os, m, t).k = os
BY CallerFacts, EmptySection DEF mtx_lock

-----------------------------------------------------------------------------
(* One mutex.                                                              *)

MutexOK(x) ==
  /\ x \in [holder : Threads \cup {NULL}, wq : Seq(Threads)]
  /\ Distinct(x.wq)
  /\ x.holder = NULL => x.wq = <<>>

\* What mtx_lock of thread t makes of the mutex x.
LockOutcome(x, t, y) ==
  /\ y \in [holder : Threads \cup {NULL}, wq : Seq(Threads)]
  /\ Distinct(y.wq)
  /\ x.holder = NULL => y.holder = t /\ y.wq = x.wq /\ x.wq = <<>>
  /\ x.holder # NULL =>
       /\ y.holder = x.holder
       /\ y.wq = Append(x.wq, t)
       /\ \A u : Waits(u, y.wq) <=> Waits(u, x.wq) \/ u = t

LEMMA LockMutex ==
  ASSUME NEW k, NEW x, MutexOK(x), NEW t \in Threads, ~Waits(t, x.wq)
  PROVE  LockOutcome(x, t, mtx_lock(k, x, t).m)
<1> DEFINE y == mtx_lock(k, x, t).m
<1>1. /\ x \in [holder : Threads \cup {NULL}, wq : Seq(Threads)]
      /\ x.wq \in Seq(Threads) /\ Distinct(x.wq)
      /\ x.holder = NULL => x.wq = <<>>
  BY DEF MutexOK
<1>2. CASE x.holder = NULL
  <2>1. y = [x EXCEPT !.holder = t]
    BY <1>2 DEF mtx_lock
  <2> HIDE DEF y
  <2>2. /\ y \in [holder : Threads \cup {NULL}, wq : Seq(Threads)]
        /\ y.holder = t /\ y.wq = x.wq
    BY <1>1, <2>1
  <2>3. QED BY <1>1, <1>2, <2>2 DEF LockOutcome, y
<1>3. CASE x.holder # NULL
  <2> DEFINE q == queue_wait_push(x.wq, t)
  <2>1. y = [x EXCEPT !.wq = q]
    BY <1>3 DEF mtx_lock
  <2>2. /\ q = Append(x.wq, t) /\ q \in Seq(Threads) /\ Distinct(q)
        /\ \A u : Waits(u, q) <=> Waits(u, x.wq) \/ u = t
    BY <1>1, PushElements, MutexConstants
  <2> HIDE DEF y, q
  <2>3. /\ y \in [holder : Threads \cup {NULL}, wq : Seq(Threads)]
        /\ y.holder = x.holder /\ y.wq = q
    BY <1>1, <2>1, <2>2
  <2>4. QED BY <1>3, <2>2, <2>3 DEF LockOutcome, y
<1>4. QED BY <1>2, <1>3

\* What mtx_unlock makes of it.
UnlockOutcome(x, y) ==
  /\ y \in [holder : Threads \cup {NULL}, wq : Seq(Threads)]
  /\ Distinct(y.wq)
  /\ x.wq = <<>> => y.holder = NULL /\ y.wq = x.wq
  /\ x.wq # <<>> =>
       /\ Head(x.wq) \in Threads /\ Waits(Head(x.wq), x.wq)
       /\ y.holder = Head(x.wq)
       /\ y.wq = Tail(x.wq)
       /\ \A u : Waits(u, y.wq) <=> Waits(u, x.wq) /\ u # Head(x.wq)

LEMMA UnlockMutex ==
  ASSUME NEW k, NEW x, MutexOK(x), NEW t \in Threads
  PROVE  UnlockOutcome(x, mtx_unlock(k, x, t).m)
<1> DEFINE y == mtx_unlock(k, x, t).m
<1>1. /\ x \in [holder : Threads \cup {NULL}, wq : Seq(Threads)]
      /\ x.wq \in Seq(Threads) /\ Distinct(x.wq)
  BY DEF MutexOK
<1>2. CASE x.wq = <<>>
  <2>1. y = [x EXCEPT !.holder = NULL]
    BY <1>2 DEF mtx_unlock
  <2> HIDE DEF y
  <2>2. /\ y \in [holder : Threads \cup {NULL}, wq : Seq(Threads)]
        /\ y.holder = NULL /\ y.wq = x.wq
    BY <1>1, <2>1
  <2>3. QED BY <1>1, <1>2, <2>2 DEF UnlockOutcome, y
<1>3. CASE x.wq # <<>>
  <2>1. y = [holder |-> Head(x.wq), wq |-> Tail(x.wq)]
    BY <1>3 DEF mtx_unlock, queue_wait_pop
  <2>2. Len(x.wq) # 0
    BY <1>1, <1>3, EmptySeq
  <2>3. /\ Head(x.wq) \in Threads /\ Waits(Head(x.wq), x.wq)
        /\ Tail(x.wq) \in Seq(Threads) /\ Distinct(Tail(x.wq))
        /\ \A u : Waits(u, Tail(x.wq)) <=> Waits(u, x.wq) /\ u # Head(x.wq)
    BY <1>1, <2>2, PopElements
  <2> HIDE DEF y
  <2>4. y.holder = Head(x.wq) /\ y.wq = Tail(x.wq)
        /\ y \in [holder : Threads \cup {NULL}, wq : Seq(Threads)]
    BY <2>1, <2>3
  <2>5. QED BY <1>3, <2>3, <2>4 DEF UnlockOutcome, y
<1>4. QED BY <1>2, <1>3

-----------------------------------------------------------------------------
(* What the invariant says of holders.                                     *)

LEMMA MTypes ==
  ASSUME MInv
  PROVE  /\ mtx \in [Mutexes -> [holder : Threads \cup {NULL}, wq : Seq(Threads)]]
         /\ waiting \in [Threads -> Mutexes \cup {NULL}]
         /\ held \in [Mutexes -> SUBSET Threads]
         /\ base_prio \in [Tasks -> 1..MaxPrio]
         /\ os.fixed_prio \in [Tasks -> 1..MaxPrio]
         /\ os.working_prio \in [Tasks -> Nat \ {0}]
         /\ os.state \in [Tasks -> ThreadStates]
         /\ os \in Kernels
<1>1. os \in Kernels /\ PrioritiesOK(os)
  BY DEF MInv, KInv, KernelInv
<1>2. os.working_prio \in [Tasks -> Nat \ {0}] /\ os.state \in [Tasks -> ThreadStates]
  BY <1>1, KernelTypes DEF PrioritiesOK
<1>3. QED BY <1>1, <1>2 DEF MInv, MTypeOK

\* The invariant's clauses about queues, with Waits in the place of Queued.
LEMMA MFacts ==
  ASSUME MInv
  PROVE  /\ \A m \in Mutexes : MutexOK(mtx[m])
         /\ \A m \in Mutexes : \A t \in held[m] : mtx[m].holder = t
         /\ \A t \in Threads :
              /\ os.state[t] \in {"ACTIVE", "BLOCKING"}
              /\ os.state[t] = "BLOCKING" <=> \E m \in Mutexes : Waits(t, mtx[m].wq)
         /\ \A t \in Threads : \A m \in Mutexes :
              /\ Waits(t, mtx[m].wq) => waiting[t] = m /\ mtx[m].holder # t
              /\ waiting[t] = m => Waits(t, mtx[m].wq) \/ mtx[m].holder = t
              /\ mtx[m].holder = t => t \in held[m] \/ waiting[t] = m
<1>1. \A t \in Threads :
        /\ os.state[t] \in {"ACTIVE", "BLOCKING"}
        /\ os.state[t] = "BLOCKING" <=> \E m \in Mutexes : Waits(t, mtx[m].wq)
  BY DEF MInv, BlockedMeansQueued, Queued
<1>2. \A t \in Threads : \A m \in Mutexes :
        /\ Waits(t, mtx[m].wq) => waiting[t] = m /\ mtx[m].holder # t
        /\ waiting[t] = m => Waits(t, mtx[m].wq) \/ mtx[m].holder = t
        /\ mtx[m].holder = t => t \in held[m] \/ waiting[t] = m
  BY DEF MInv, BlockedMeansQueued, Queued
<1>3. \A m \in Mutexes : Distinct(mtx[m].wq)
  <2>1. ASSUME NEW m \in Mutexes, NEW i \in 1..Len(mtx[m].wq), NEW j \in 1..Len(mtx[m].wq),
               mtx[m].wq[i] = mtx[m].wq[j]
        PROVE  i = j
    <3>1. mtx[m].wq[i] \in Threads
      BY MTypes
    <3>2. QED BY <2>1, <3>1 DEF MInv, BlockedMeansQueued
  <2>2. QED BY <2>1 DEF Distinct
<1>4. \A m \in Mutexes : MutexOK(mtx[m])
  BY <1>3, MTypes DEF MInv, MutualExclusion, MutexOK
<1>5. QED BY <1>1, <1>2, <1>4 DEF MInv, MutualExclusion

\* A holder is runnable: it waits for no mutex, not even for another one.
LEMMA HolderRuns ==
  ASSUME MInv, NEW m \in Mutexes, NEW h \in Threads, mtx[m].holder = h
  PROVE  os.state[h] = "ACTIVE" /\ \A r \in Mutexes : ~Waits(h, mtx[r].wq)
<1>1. ASSUME NEW r \in Mutexes, Waits(h, mtx[r].wq) PROVE FALSE
  <2>1. waiting[h] = r /\ mtx[r].holder # h
    BY <1>1, MFacts
  <2>2. r # m /\ (h \in held[m] \/ waiting[h] = m)
    BY <2>1, MFacts
  <2>3. h \in held[m] /\ waiting[h] # NULL
    BY <2>1, <2>2, MutexConstants
  <2>4. QED BY <2>3 DEF MInv, OneMutexEach
<1>2. QED BY <1>1, MFacts

\* Nobody holds two mutexes.
LEMMA OneHeld ==
  ASSUME MInv, NEW h \in Threads, NEW m \in Mutexes, NEW n \in Mutexes,
         mtx[m].holder = h, mtx[n].holder = h
  PROVE  m = n
<1>1. (h \in held[m] \/ waiting[h] = m) /\ (h \in held[n] \/ waiting[h] = n)
  BY MFacts
<1>2. QED BY <1>1, MutexConstants DEF MInv, OneMutexEach

\* Where there are threads, one of them is runnable.
LEMMA SomeoneActive ==
  ASSUME MInv, NEW t \in Threads
  PROVE  \E u \in Threads : os.state[u] = "ACTIVE"
<1>1. CASE os.state[t] = "BLOCKING"
  <2>1. PICK m \in Mutexes : Waits(t, mtx[m].wq)
    BY <1>1, MFacts
  <2>2. mtx[m].holder # NULL
    BY <2>1, MFacts DEF MutexOK, Waits
  <2>3. mtx[m].holder \in Threads
    BY <2>2, MTypes
  <2>4. QED BY <2>3, HolderRuns
<1>2. QED BY <1>1, MFacts

\* What the invariant says of a thread on the core in its own code.
LEMMA UserFacts ==
  ASSUME MInv, NEW t \in Threads, InUserCode(t)
  PROVE  /\ KInv
         /\ CanRun(t)
         /\ os.run_ptr = t
         /\ os.state[t] = "ACTIVE"
         /\ waiting[t] = NULL
         /\ \A m \in Mutexes : MutexOK(mtx[m]) /\ ~Waits(t, mtx[m].wq)
<1>1. KInv /\ CanRun(t) /\ waiting[t] = NULL
  BY DEF MInv, InUserCode
<1>2. os.run_ptr = t /\ os.state[t] = "ACTIVE"
  BY <1>1, CallerFacts
<1>3. \A m \in Mutexes : MutexOK(mtx[m]) /\ ~Waits(t, mtx[m].wq)
  BY <1>2, MFacts
<1>4. QED BY <1>1, <1>2, <1>3

-----------------------------------------------------------------------------
(* Every step keeps the invariant.                                         *)

LEMMA MutexesAfter ==
  ASSUME MInv, NEW m \in Mutexes, NEW y, mtx' = [mtx EXCEPT ![m] = y],
         y \in [holder : Threads \cup {NULL}, wq : Seq(Threads)],
         waiting' \in [Threads -> Mutexes \cup {NULL}],
         held' \in [Mutexes -> SUBSET Threads],
         base_prio' = base_prio,
         os'.fixed_prio \in [Tasks -> 1..MaxPrio]
  PROVE  /\ MTypeOK'
         /\ mtx'[m] = y
         /\ \A r \in Mutexes \ {m} : mtx'[r] = mtx[r]
BY MTypes DEF MTypeOK

\* The two clauses of the invariant that are about the queues, from the facts
\* of each thread.
LEMMA QueuesAfter ==
  ASSUME MTypeOK',
         \A m \in Mutexes : Distinct(mtx'[m].wq),
         \A t \in Threads :
           /\ os'.state[t] \in {"ACTIVE", "BLOCKING"}
           /\ os'.state[t] = "BLOCKING" <=> \E m \in Mutexes : Waits(t, mtx'[m].wq),
         \A t \in Threads : \A m \in Mutexes :
           /\ Waits(t, mtx'[m].wq) => waiting'[t] = m /\ mtx'[m].holder # t
           /\ waiting'[t] = m => Waits(t, mtx'[m].wq) \/ mtx'[m].holder = t
           /\ mtx'[m].holder = t => t \in held'[m] \/ waiting'[t] = m
  PROVE  BlockedMeansQueued'
<1>1. \A t \in Threads :
        /\ os'.state[t] \in {"ACTIVE", "BLOCKING"}
        /\ os'.state[t] = "BLOCKING" <=> \E m \in Mutexes : Queued(t, m)'
  BY DEF Queued
<1>2. \A t \in Threads : \A m \in Mutexes :
        /\ Queued(t, m)' => waiting'[t] = m /\ mtx'[m].holder # t
        /\ waiting'[t] = m => Queued(t, m)' \/ mtx'[m].holder = t
        /\ mtx'[m].holder = t => t \in held'[m] \/ waiting'[t] = m
  BY DEF Queued
<1>3. \A m \in Mutexes : \A i, j \in 1..Len(mtx'[m].wq) :
        mtx'[m].wq[i] = mtx'[m].wq[j] => i = j
  BY DEF Distinct
<1>4. QED BY <1>1, <1>2, <1>3 DEF BlockedMeansQueued

\* A lock that finds the mutex free.
LEMMA LockFreeStep ==
  ASSUME MInv, NEW t \in Threads, NEW m \in Mutexes, LockFirst(t, m),
         mtx[m].holder = NULL
  PROVE  MInv'
<1> DEFINE x == mtx[m]
           y == mtx_lock(os, x, t).m
<1>1. /\ KInv /\ CanRun(t) /\ os.state[t] = "ACTIVE" /\ waiting[t] = NULL
      /\ MutexOK(x) /\ \A r \in Mutexes : ~Waits(t, mtx[r].wq)
  BY UserFacts DEF LockFirst, Lock
<1>2. /\ \A r \in Mutexes : t \notin held[r]
      /\ os' = mtx_lock(os, x, t).k
      /\ mtx' = [mtx EXCEPT ![m] = y]
      /\ base_prio' = base_prio
      /\ IF y.holder = t
         THEN held' = [held EXCEPT ![m] = held[m] \cup {t}] /\ waiting' = waiting
         ELSE waiting' = [waiting EXCEPT ![t] = m] /\ held' = held
  BY DEF LockFirst, Lock
<1>3. LockOutcome(x, t, y)
  BY <1>1, LockMutex, Zenon
<1>4. os' = os
  BY <1>1, <1>2, LockFreeKernel
<1> HIDE DEF y
<1>5. /\ y \in [holder : Threads \cup {NULL}, wq : Seq(Threads)]
      /\ y.holder = t /\ y.wq = <<>> /\ mtx[m].wq = <<>>
      /\ Distinct(y.wq)
  BY <1>3 DEF LockOutcome
<1>6. held' = [held EXCEPT ![m] = held[m] \cup {t}] /\ waiting' = waiting
  BY <1>2, <1>5
<1>7. /\ MTypeOK' /\ mtx'[m] = y
      /\ \A r \in Mutexes \ {m} : mtx'[r] = mtx[r]
  BY <1>2, <1>4, <1>5, <1>6, MTypes, MutexesAfter
<1>8. /\ held'[m] = held[m] \cup {t}
      /\ \A r \in Mutexes \ {m} : held'[r] = held[r]
  BY <1>6, MTypes
<1>9. \A r \in Mutexes : mtx'[r].wq = mtx[r].wq
  BY <1>5, <1>7
<1>10. held[m] = {}
  BY MTypes, MFacts, MutexConstants
<1>11. MutualExclusion'
  BY <1>5, <1>7, <1>8, <1>10 DEF MInv, MutualExclusion
<1>12. BlockedMeansQueued'
  <2>1. \A u : ~Waits(u, mtx[m].wq)
    BY <1>5 DEF Waits
  <2>2. ASSUME NEW u \in Threads, NEW r \in Mutexes
        PROVE  /\ Waits(u, mtx'[r].wq) => waiting'[u] = r /\ mtx'[r].holder # u
               /\ waiting'[u] = r => Waits(u, mtx'[r].wq) \/ mtx'[r].holder = u
               /\ mtx'[r].holder = u => u \in held'[r] \/ waiting'[u] = r
    <3>1. CASE r = m
      <4>1. ~Waits(u, mtx'[m].wq) /\ waiting'[u] # m
        BY <1>6, <1>9, <2>1, MFacts, MutexConstants
      <4>2. QED BY <1>5, <1>7, <1>8, <3>1, <4>1
    <3>2. CASE r # m
      BY <1>6, <1>7, <1>8, <3>2, MFacts
    <3>3. QED BY <3>1, <3>2
  <2>3. \A u \in Threads :
          /\ os'.state[u] \in {"ACTIVE", "BLOCKING"}
          /\ os'.state[u] = "BLOCKING" <=> \E r \in Mutexes : Waits(u, mtx'[r].wq)
    BY <1>4, <1>9, MFacts
  <2>4. \A r \in Mutexes : Distinct(mtx'[r].wq)
    BY <1>9, MFacts DEF MutexOK
  <2>5. QED BY <1>7, <2>2, <2>3, <2>4, QueuesAfter
<1>13. OneMutexEach'
  BY <1>1, <1>2, <1>6, <1>8 DEF MInv, OneMutexEach
<1>14. Inherited'
  <2>1. ASSUME NEW r \in Mutexes, NEW u \in Threads, Waits(u, mtx'[r].wq)
        PROVE  os'.fixed_prio[mtx'[r].holder] >= os'.fixed_prio[u]
    <3>1. r # m
      BY <1>5, <1>9, <2>1 DEF Waits
    <3>2. Queued(u, r)
      BY <1>9, <2>1 DEF Queued
    <3>3. QED BY <1>4, <1>7, <3>1, <3>2 DEF MInv, Inherited
  <2>2. QED BY <2>1 DEF Inherited, Queued
<1>15. GivenBack'
  <2>1. ASSUME NEW u \in Threads, \A r \in Mutexes : mtx'[r].holder # u
        PROVE  \A r \in Mutexes : mtx[r].holder # u
    BY <1>7, <2>1, MutexConstants
  <2>2. QED BY <1>2, <1>4, <2>1 DEF MInv, GivenBack
<1>16. FullSlices' /\ KInv'
  BY <1>1, <1>4 DEF MInv, FullSlices, KInv
<1>17. QED
  BY <1>7, <1>11, <1>12, <1>13, <1>14, <1>15, <1>16 DEF MInv

\* A lock that has to wait for the holder.
LEMMA LockWaitStep ==
  ASSUME MInv, NEW t \in Threads, NEW m \in Mutexes, LockFirst(t, m),
         mtx[m].holder # NULL
  PROVE  MInv'
<1> DEFINE x == mtx[m]
           h == x.holder
           y == mtx_lock(os, x, t).m
           prio == os.fixed_prio[t]
           w == BoostSlices(os, h, prio)
           f == BoostPrios(os, h, prio)
<1>1. /\ KInv /\ CanRun(t) /\ os.run_ptr = t /\ os.state[t] = "ACTIVE"
      /\ waiting[t] = NULL /\ MutexOK(x)
      /\ \A r \in Mutexes : ~Waits(t, mtx[r].wq)
  BY UserFacts DEF LockFirst, Lock
<1>2. /\ \A r \in Mutexes : t \notin held[r]
      /\ os' = mtx_lock(os, x, t).k
      /\ mtx' = [mtx EXCEPT ![m] = y]
      /\ base_prio' = base_prio
      /\ IF y.holder = t
         THEN held' = [held EXCEPT ![m] = held[m] \cup {t}] /\ waiting' = waiting
         ELSE waiting' = [waiting EXCEPT ![t] = m] /\ held' = held
  BY DEF LockFirst, Lock
<1>3. LockOutcome(x, t, y)
  BY <1>1, LockMutex, Zenon
<1> HIDE DEF y
<1>4. h \in Threads /\ h # t
  <2>1. h \in Threads
    BY MTypes
  <2>2. h # t
    BY <1>1, <1>2, MFacts, MutexConstants
  <2>3. QED BY <2>1, <2>2
<1>5. KernelAfter(os', t, [os.state EXCEPT ![t] = "BLOCKING"], w, f)
  BY <1>1, <1>2, <1>4, LockKernel
<1>6. /\ y \in [holder : Threads \cup {NULL}, wq : Seq(Threads)]
      /\ y.holder = h /\ Distinct(y.wq)
      /\ \A u : Waits(u, y.wq) <=> Waits(u, x.wq) \/ u = t
  BY <1>3 DEF LockOutcome
<1>7. waiting' = [waiting EXCEPT ![t] = m] /\ held' = held
  BY <1>2, <1>4, <1>6
\* The priorities after the boost.
<1>8. /\ f \in [Tasks -> 1..MaxPrio]
      /\ f[h] >= os.fixed_prio[h] /\ f[h] >= os.fixed_prio[t]
      /\ \A u \in Tasks \ {h} : f[u] = os.fixed_prio[u]
  <2>1. h \in Tasks /\ t \in Tasks /\ prio \in 1..MaxPrio
        /\ os.fixed_prio \in [Tasks -> 1..MaxPrio]
    BY <1>4, MTypes DEF Tasks
  <2>2. CASE prio > os.fixed_prio[h]
    <3>1. f = [os.fixed_prio EXCEPT ![h] = prio]
      BY <2>2 DEF BoostPrios
    <3>2. QED BY <2>1, <2>2, <3>1, MutexConstants
  <2>3. CASE ~(prio > os.fixed_prio[h])
    <3>1. f = os.fixed_prio
      BY <2>3 DEF BoostPrios
    <3>2. QED BY <2>1, <2>3, <3>1, MutexConstants
  <2>4. QED BY <2>2, <2>3
<1>9a. \A u \in Threads : /\ f[u] \in Int /\ os.fixed_prio[u] \in Int
                          /\ f[u] >= os.fixed_prio[u]
  <2>1. os.fixed_prio \in [Tasks -> Int] /\ f \in [Tasks -> Int]
    <3>1. 1..MaxPrio \subseteq Int
      BY MutexConstants
    <3>2. QED BY <1>8, <3>1, MTypes
  <2> HIDE DEF f, h
  <2>2. QED BY <1>8, <2>1 DEF Tasks
<1>9. \A u \in Tasks \ {t} : w[u] = f[u]
  <2>1. \A u \in Tasks \ {t} : os.working_prio[u] = os.fixed_prio[u]
    BY <1>1 DEF MInv, FullSlices
  <2>2. h \in Tasks /\ prio \in Int
        /\ os.fixed_prio \in [Tasks -> Int] /\ os.working_prio \in [Tasks -> Int]
    BY <1>4, MTypes, MutexConstants DEF Tasks
  <2>3. CASE prio > os.fixed_prio[h]
    <3>1. /\ f = [os.fixed_prio EXCEPT ![h] = prio]
          /\ w = [os.working_prio EXCEPT ![h] = @ + (prio - os.fixed_prio[h])]
      BY <2>3 DEF BoostPrios, BoostSlices
    <3>2. w[h] = os.fixed_prio[h] + (prio - os.fixed_prio[h])
      BY <1>4, <2>1, <2>2, <3>1
    <3>3. w[h] = f[h]
      BY <2>2, <3>1, <3>2
    <3>4. QED BY <2>1, <2>2, <3>1, <3>3
  <2>4. CASE ~(prio > os.fixed_prio[h])
    BY <2>1, <2>4 DEF BoostPrios, BoostSlices
  <2>5. QED BY <2>3, <2>4
<1> HIDE DEF w, f, h, prio
<1>10. /\ KernelInv(os') /\ Preemptible(os') /\ os'.run_ptr = t
       /\ os'.state = [os.state EXCEPT ![t] = "BLOCKING"]
       /\ os'.working_prio = w /\ os'.fixed_prio = f
  BY <1>5 DEF KernelAfter
<1>11. waiting' \in [Threads -> Mutexes \cup {NULL}] /\ held' \in [Mutexes -> SUBSET Threads]
  BY <1>7, MTypes
<1>12. /\ MTypeOK' /\ mtx'[m] = y
       /\ \A r \in Mutexes \ {m} : mtx'[r] = mtx[r]
  BY <1>2, <1>6, <1>8, <1>10, <1>11, MutexesAfter
<1>13. /\ waiting'[t] = m
       /\ \A u \in Threads \ {t} : waiting'[u] = waiting[u]
  BY <1>7, MTypes
<1>14. /\ os'.state[t] = "BLOCKING"
       /\ \A u \in Threads \ {t} : os'.state[u] = os.state[u]
  BY <1>10, MTypes DEF Tasks
<1>15. \A r \in Mutexes : mtx'[r].holder = mtx[r].holder
  BY <1>6, <1>12 DEF h
<1>16. /\ \A r \in Mutexes : \A u \in Threads \ {t} :
            Waits(u, mtx'[r].wq) <=> Waits(u, mtx[r].wq)
       /\ \A r \in Mutexes : Waits(t, mtx'[r].wq) <=> r = m
  BY <1>1, <1>6, <1>12
<1>17. MutualExclusion'
  <2>1. \A r \in Mutexes : \A u \in held'[r] : mtx'[r].holder = u
    BY <1>7, <1>15, MFacts
  <2>2. \A r \in Mutexes : mtx'[r].holder = NULL => mtx'[r].wq = <<>>
    BY <1>4, <1>6, <1>12, MFacts, MutexConstants DEF MutexOK
  <2>3. QED BY <2>1, <2>2 DEF MutualExclusion
<1>18. BlockedMeansQueued'
  <2>1. ASSUME NEW u \in Threads, NEW r \in Mutexes
        PROVE  /\ Waits(u, mtx'[r].wq) => waiting'[u] = r /\ mtx'[r].holder # u
               /\ waiting'[u] = r => Waits(u, mtx'[r].wq) \/ mtx'[r].holder = u
               /\ mtx'[r].holder = u => u \in held'[r] \/ waiting'[u] = r
    <3>1. CASE u = t
      <4>1. /\ Waits(t, mtx'[r].wq) <=> r = m
            /\ waiting'[t] = r <=> r = m
        BY <1>13, <1>16
      <4>2. mtx'[m].holder # t
        BY <1>4, <1>15 DEF h
      <4>3. mtx'[r].holder # t
        BY <1>1, <1>2, <1>15, MFacts, MutexConstants
      <4>4. QED BY <3>1, <4>1, <4>2, <4>3
    <3>2. CASE u # t
      <4>1. /\ Waits(u, mtx'[r].wq) <=> Waits(u, mtx[r].wq)
            /\ waiting'[u] = waiting[u] /\ mtx'[r].holder = mtx[r].holder
            /\ held'[r] = held[r]
        BY <1>7, <1>13, <1>15, <1>16, <3>2
      <4>2. QED BY <4>1, MFacts
    <3>3. QED BY <3>1, <3>2
  <2>2. ASSUME NEW u \in Threads
        PROVE  /\ os'.state[u] \in {"ACTIVE", "BLOCKING"}
               /\ os'.state[u] = "BLOCKING" <=> \E r \in Mutexes : Waits(u, mtx'[r].wq)
    <3>1. CASE u = t
      BY <1>14, <1>16, <3>1
    <3>2. CASE u # t
      BY <1>14, <1>16, <3>2, MFacts
    <3>3. QED BY <3>1, <3>2
  <2>3. \A r \in Mutexes : Distinct(mtx'[r].wq)
    BY <1>6, <1>12, MFacts DEF MutexOK
  <2>4. QED BY <1>12, <2>1, <2>2, <2>3, QueuesAfter
<1>19. OneMutexEach'
  BY <1>2, <1>7, <1>13 DEF MInv, OneMutexEach
<1>20. Inherited'
  <2>1. ASSUME NEW r \in Mutexes, NEW u \in Threads, Waits(u, mtx'[r].wq)
        PROVE  f[mtx'[r].holder] >= f[u]
    <3>1. CASE u = t
      <4>1. r = m /\ mtx'[r].holder = h
        BY <1>15, <1>16, <2>1, <3>1 DEF h
      <4>2. f[t] = os.fixed_prio[t]
        BY <1>4, <1>8 DEF Tasks
      <4>3. QED BY <1>8, <3>1, <4>1, <4>2
    <3>2. CASE u # t
      <4>1. Waits(u, mtx[r].wq)
        BY <1>16, <2>1, <3>2
      <4>2. u # h
        BY <1>4, <4>1, HolderRuns DEF h
      <4>3. f[u] = os.fixed_prio[u]
        BY <1>8, <4>2 DEF Tasks
      <4>4. mtx[r].holder \in Threads
        BY <4>1, MTypes, MFacts DEF MutexOK, Waits
      <4>5. os.fixed_prio[mtx[r].holder] >= os.fixed_prio[u]
        BY <4>1 DEF MInv, Inherited, Queued, Waits
      <4>6. f[mtx[r].holder] >= os.fixed_prio[mtx[r].holder]
        BY <1>9a, <4>4
      <4>7. /\ f[mtx[r].holder] \in Int /\ os.fixed_prio[mtx[r].holder] \in Int
            /\ os.fixed_prio[u] \in Int
        BY <1>9a, <4>4
      <4>8. QED BY <1>15, <4>3, <4>5, <4>6, <4>7
    <3>3. QED BY <3>1, <3>2
  <2>2. QED BY <1>10, <2>1 DEF Inherited, Queued
<1>21. GivenBack'
  <2>1. ASSUME NEW u \in Threads, \A r \in Mutexes : mtx'[r].holder # u
        PROVE  os'.fixed_prio[u] = base_prio'[u]
    <3>1. /\ \A r \in Mutexes : mtx[r].holder # u
          /\ u # h
      BY <1>15, <2>1 DEF h
    <3>2. f[u] = os.fixed_prio[u]
      BY <1>8, <3>1 DEF Tasks
    <3>3. QED BY <1>2, <1>10, <3>1, <3>2 DEF MInv, GivenBack
  <2>2. QED BY <2>1 DEF GivenBack
<1>22. FullSlices' /\ KInv'
  BY <1>9, <1>10 DEF FullSlices, KInv
<1>23. QED
  BY <1>12, <1>17, <1>18, <1>19, <1>20, <1>21, <1>22 DEF MInv

\* An unlock that passes the mutex to the first waiter.
LEMMA UnlockPassStep ==
  ASSUME MInv, NEW t \in Threads, NEW m \in Mutexes, Unlock(t, m),
         mtx[m].wq # <<>>
  PROVE  MInv'
<1> DEFINE x == mtx[m]
           y == mtx_unlock(os, x, t).m
           p == Head(x.wq)
           w == PassSlices(os, t, p)
           f == PassPrios(os, t, p)
<1>1. /\ KInv /\ CanRun(t) /\ os.run_ptr = t /\ os.state[t] = "ACTIVE"
      /\ waiting[t] = NULL /\ MutexOK(x)
      /\ \A r \in Mutexes : ~Waits(t, mtx[r].wq)
  BY UserFacts DEF Unlock
<1>2. /\ t \in held[m] /\ mtx[m].holder = t
      /\ os' = mtx_unlock(os, x, t).k
      /\ mtx' = [mtx EXCEPT ![m] = y]
      /\ held' = [held EXCEPT ![m] = held[m] \ {t}]
      /\ waiting' = waiting /\ base_prio' = base_prio
  BY DEF Unlock
<1>3. UnlockOutcome(x, y)
  BY <1>1, UnlockMutex, Zenon
<1> HIDE DEF y
<1>4. /\ y \in [holder : Threads \cup {NULL}, wq : Seq(Threads)]
      /\ Distinct(y.wq) /\ y.holder = p
      /\ p \in Threads /\ Waits(p, x.wq)
      /\ \A u : Waits(u, y.wq) <=> Waits(u, x.wq) /\ u # p
  BY <1>3 DEF UnlockOutcome
<1>5. /\ p # t /\ os.state[p] = "BLOCKING" /\ waiting[p] = m
      /\ \A r \in Mutexes : mtx[r].holder # p
      /\ \A r \in Mutexes \ {m} : ~Waits(p, mtx[r].wq)
  BY <1>1, <1>4, MFacts, HolderRuns
<1>6. base_prio[t] \in 1..MaxPrio /\ base_prio[t] \in Nat \ {0}
  BY MTypes, MutexConstants DEF Tasks
<1>7. KernelAfter(os', t, [os.state EXCEPT ![p] = "ACTIVE"], w, f)
  BY <1>1, <1>2, <1>4, <1>5, <1>6, UnlockWakingKernel
\* The old holder gives back what it had, the new one gets it.
<1>8. /\ f \in [Tasks -> 1..MaxPrio]
      /\ f[t] = base_prio[t] /\ f[p] = os.fixed_prio[t] /\ w[p] = f[p]
      /\ \A u \in Tasks \ {t, p} : f[u] = os.fixed_prio[u]
      /\ \A u \in Tasks \ {p} : w[u] = os.working_prio[u]
  BY <1>4, <1>5, <1>6, MTypes DEF Tasks, PassSlices, PassPrios, RestorePrios
<1> HIDE DEF w, f, p
<1>9. /\ KernelInv(os') /\ Preemptible(os') /\ os'.run_ptr = t
      /\ os'.state = [os.state EXCEPT ![p] = "ACTIVE"]
      /\ os'.working_prio = w /\ os'.fixed_prio = f
  BY <1>7 DEF KernelAfter
<1>10. waiting' \in [Threads -> Mutexes \cup {NULL}] /\ held' \in [Mutexes -> SUBSET Threads]
  BY <1>2, MTypes
<1>11. /\ MTypeOK' /\ mtx'[m] = y
       /\ \A r \in Mutexes \ {m} : mtx'[r] = mtx[r]
  <2>1. y \in [holder : Threads \cup {NULL}, wq : Seq(Threads)]
    BY <1>4
  <2>2. mtx' = [mtx EXCEPT ![m] = y] /\ base_prio' = base_prio
    BY <1>2
  <2>3. os'.fixed_prio \in [Tasks -> 1..MaxPrio]
    BY <1>8, <1>9
  <2>4. QED BY <1>10, <2>1, <2>2, <2>3, MutexesAfter
<1>12. /\ held'[m] = {}
       /\ \A r \in Mutexes \ {m} : held'[r] = held[r]
       /\ \A r \in Mutexes : held'[r] \subseteq held[r]
  <2>1. held[m] \subseteq {t}
    BY <1>2, MTypes, MFacts
  <2>2. QED BY <1>2, <2>1, MTypes
<1>13. /\ os'.state[p] = "ACTIVE"
       /\ \A u \in Threads \ {p} : os'.state[u] = os.state[u]
  BY <1>4, <1>9, MTypes DEF Tasks
<1>14. /\ \A r \in Mutexes : \A u \in Threads \ {p} :
            Waits(u, mtx'[r].wq) <=> Waits(u, mtx[r].wq)
       /\ \A r \in Mutexes : ~Waits(p, mtx'[r].wq)
  BY <1>4, <1>5, <1>11
<1>15. MutualExclusion'
  <2>1. \A r \in Mutexes : \A u \in held'[r] : mtx'[r].holder = u
    BY <1>11, <1>12, MFacts
  <2>2. \A r \in Mutexes : mtx'[r].holder = NULL => mtx'[r].wq = <<>>
    BY <1>4, <1>11, MFacts, MutexConstants DEF MutexOK
  <2>3. QED BY <2>1, <2>2 DEF MutualExclusion
<1>16. BlockedMeansQueued'
  <2>1. ASSUME NEW u \in Threads, NEW r \in Mutexes
        PROVE  /\ Waits(u, mtx'[r].wq) => waiting'[u] = r /\ mtx'[r].holder # u
               /\ waiting'[u] = r => Waits(u, mtx'[r].wq) \/ mtx'[r].holder = u
               /\ mtx'[r].holder = u => u \in held'[r] \/ waiting'[u] = r
    <3>1. CASE r # m
      <4>1. /\ mtx'[r] = mtx[r] /\ held'[r] = held[r] /\ waiting'[u] = waiting[u]
        BY <1>2, <1>11, <1>12, <3>1
      <4>2. QED BY <4>1, MFacts
    <3>2. CASE r = m /\ u = p
      BY <1>2, <1>4, <1>5, <1>11, <1>14, <3>2
    <3>3. CASE r = m /\ u # p
      <4>1. mtx'[r].holder # u /\ waiting'[u] = waiting[u]
        BY <1>2, <1>4, <1>11, <3>3
      <4>2. Waits(u, mtx'[r].wq) <=> Waits(u, mtx[r].wq)
        BY <1>14, <3>3
      <4>3. waiting[u] = r => Waits(u, mtx[r].wq)
        BY <1>1, <1>2, <3>3, MFacts, MutexConstants
      <4>4. QED BY <4>1, <4>2, <4>3, MFacts
    <3>4. QED BY <3>1, <3>2, <3>3
  <2>2. ASSUME NEW u \in Threads
        PROVE  /\ os'.state[u] \in {"ACTIVE", "BLOCKING"}
               /\ os'.state[u] = "BLOCKING" <=> \E r \in Mutexes : Waits(u, mtx'[r].wq)
    <3>1. CASE u = p
      BY <1>13, <1>14, <3>1
    <3>2. CASE u # p
      BY <1>13, <1>14, <3>2, MFacts
    <3>3. QED BY <3>1, <3>2
  <2>3. \A r \in Mutexes : Distinct(mtx'[r].wq)
    BY <1>4, <1>11, MFacts DEF MutexOK
  <2>4. QED BY <1>11, <2>1, <2>2, <2>3, QueuesAfter
<1>17. OneMutexEach'
  BY <1>2, <1>12 DEF MInv, OneMutexEach
<1>18. Inherited'
  <2>1. ASSUME NEW r \in Mutexes, NEW u \in Threads, Waits(u, mtx'[r].wq)
        PROVE  f[mtx'[r].holder] >= f[u]
    <3>1. u # p /\ Waits(u, mtx[r].wq) /\ u # t
      BY <1>1, <1>14, <2>1
    <3>2. f[u] = os.fixed_prio[u]
      BY <1>8, <3>1 DEF Tasks
    <3>3. os.fixed_prio[mtx[r].holder] >= os.fixed_prio[u]
      BY <3>1 DEF MInv, Inherited, Queued, Waits
    <3>4. CASE r = m
      BY <1>2, <1>4, <1>8, <1>11, <3>2, <3>3, <3>4
    <3>5. CASE r # m
      <4>1. mtx'[r].holder = mtx[r].holder /\ mtx[r].holder \in Threads
        BY <1>11, <3>1, <3>5, MTypes, MFacts DEF MutexOK, Waits
      <4>2. mtx[r].holder \notin {t, p}
        BY <1>2, <1>5, <3>5, OneHeld
      <4>3. f[mtx[r].holder] = os.fixed_prio[mtx[r].holder]
        BY <1>8, <4>1, <4>2 DEF Tasks
      <4>4. QED BY <3>2, <3>3, <4>1, <4>3
    <3>6. QED BY <3>4, <3>5
  <2>2. QED BY <1>9, <2>1 DEF Inherited, Queued
<1>19. GivenBack'
  <2>1. ASSUME NEW u \in Threads, \A r \in Mutexes : mtx'[r].holder # u
        PROVE  os'.fixed_prio[u] = base_prio'[u]
    <3>1. CASE u = t
      BY <1>2, <1>8, <1>9, <3>1
    <3>2. CASE u # t
      <4>1. \A r \in Mutexes : mtx[r].holder # u
        BY <1>2, <1>11, <2>1, <3>2
      <4>2. u # p
        BY <1>4, <1>11, <2>1
      <4>3. f[u] = os.fixed_prio[u]
        BY <1>8, <3>2, <4>2 DEF Tasks
      <4>4. QED BY <1>2, <1>9, <4>1, <4>3 DEF MInv, GivenBack
    <3>3. QED BY <3>1, <3>2
  <2>2. QED BY <2>1 DEF GivenBack
<1>20. FullSlices' /\ KInv'
  <2>1. ASSUME NEW u \in Tasks, u # t PROVE w[u] = f[u]
    <3>1. os.working_prio[u] = os.fixed_prio[u]
      BY <1>1, <2>1 DEF MInv, FullSlices
    <3>2. QED BY <1>8, <2>1, <3>1
  <2>2. QED BY <1>9, <2>1 DEF FullSlices, KInv
<1>21. QED
  BY <1>11, <1>15, <1>16, <1>17, <1>18, <1>19, <1>20 DEF MInv

\* An unlock that leaves the mutex free.
LEMMA UnlockFreeStep ==
  ASSUME MInv, NEW t \in Threads, NEW m \in Mutexes, Unlock(t, m),
         mtx[m].wq = <<>>
  PROVE  MInv'
<1> DEFINE x == mtx[m]
           y == mtx_unlock(os, x, t).m
           w == os.working_prio
           f == RestorePrios(os, t)
<1>1. /\ KInv /\ CanRun(t) /\ os.run_ptr = t
      /\ waiting[t] = NULL /\ MutexOK(x)
  BY UserFacts DEF Unlock
<1>2. /\ t \in held[m] /\ mtx[m].holder = t
      /\ os' = mtx_unlock(os, x, t).k
      /\ mtx' = [mtx EXCEPT ![m] = y]
      /\ held' = [held EXCEPT ![m] = held[m] \ {t}]
      /\ waiting' = waiting /\ base_prio' = base_prio
  BY DEF Unlock
<1>3. UnlockOutcome(x, y)
  BY <1>1, UnlockMutex, Zenon
<1> HIDE DEF y
<1>4. /\ y \in [holder : Threads \cup {NULL}, wq : Seq(Threads)]
      /\ Distinct(y.wq) /\ y.holder = NULL /\ y.wq = mtx[m].wq
  BY <1>3 DEF UnlockOutcome
<1>5. base_prio[t] \in 1..MaxPrio /\ base_prio[t] \in Nat \ {0}
  BY MTypes, MutexConstants DEF Tasks
<1>6. KernelAfter(os', t, os.state, w, f)
  BY <1>1, <1>2, <1>5, UnlockFreeingKernel
<1>7. /\ f \in [Tasks -> 1..MaxPrio]
      /\ f[t] = base_prio[t]
      /\ \A u \in Tasks \ {t} : f[u] = os.fixed_prio[u]
  BY <1>5, MTypes DEF Tasks, RestorePrios
<1> HIDE DEF f
<1>8. /\ KernelInv(os') /\ Preemptible(os') /\ os'.run_ptr = t
      /\ os'.state = os.state
      /\ os'.working_prio = os.working_prio /\ os'.fixed_prio = f
  BY <1>6 DEF KernelAfter
<1>9. waiting' \in [Threads -> Mutexes \cup {NULL}] /\ held' \in [Mutexes -> SUBSET Threads]
  BY <1>2, MTypes
<1>10. /\ MTypeOK' /\ mtx'[m] = y
       /\ \A r \in Mutexes \ {m} : mtx'[r] = mtx[r]
  BY <1>2, <1>4, <1>7, <1>8, <1>9, MutexesAfter
<1>11. /\ held'[m] = {}
       /\ \A r \in Mutexes \ {m} : held'[r] = held[r]
       /\ \A r \in Mutexes : held'[r] \subseteq held[r]
  <2>1. held[m] \subseteq {t}
    BY <1>2, MTypes, MFacts
  <2>2. QED BY <1>2, <2>1, MTypes
<1>12. \A r \in Mutexes : mtx'[r].wq = mtx[r].wq
  BY <1>4, <1>10
<1>13. MutualExclusion'
  <2>1. \A r \in Mutexes : \A u \in held'[r] : mtx'[r].holder = u
    BY <1>10, <1>11, MFacts
  <2>2. \A r \in Mutexes : mtx'[r].holder = NULL => mtx'[r].wq = <<>>
    BY <1>4, <1>10, MFacts DEF MutexOK
  <2>3. QED BY <2>1, <2>2 DEF MutualExclusion
<1>14. BlockedMeansQueued'
  <2>1. ASSUME NEW u \in Threads, NEW r \in Mutexes
        PROVE  /\ Waits(u, mtx'[r].wq) => waiting'[u] = r /\ mtx'[r].holder # u
               /\ waiting'[u] = r => Waits(u, mtx'[r].wq) \/ mtx'[r].holder = u
               /\ mtx'[r].holder = u => u \in held'[r] \/ waiting'[u] = r
    <3>1. CASE r # m
      <4>1. /\ mtx'[r] = mtx[r] /\ held'[r] = held[r] /\ waiting'[u] = waiting[u]
        BY <1>2, <1>10, <1>11, <3>1
      <4>2. QED BY <4>1, MFacts
    <3>2. CASE r = m
      <4>1. mtx'[r].holder # u /\ waiting'[u] = waiting[u]
        BY <1>2, <1>4, <1>10, <3>2, MutexConstants
      <4>2. waiting[u] = r => Waits(u, mtx[r].wq)
        BY <1>1, <1>2, <3>2, MFacts, MutexConstants
      <4>3. QED BY <1>12, <4>1, <4>2, MFacts
    <3>3. QED BY <3>1, <3>2
  <2>2. \A u \in Threads :
          /\ os'.state[u] \in {"ACTIVE", "BLOCKING"}
          /\ os'.state[u] = "BLOCKING" <=> \E r \in Mutexes : Waits(u, mtx'[r].wq)
    BY <1>8, <1>12, MFacts
  <2>3. \A r \in Mutexes : Distinct(mtx'[r].wq)
    BY <1>12, MFacts DEF MutexOK
  <2>4. QED BY <1>10, <2>1, <2>2, <2>3, QueuesAfter
<1>15. OneMutexEach'
  BY <1>2, <1>11 DEF MInv, OneMutexEach
<1>16. Inherited'
  <2>1. ASSUME NEW r \in Mutexes, NEW u \in Threads, Waits(u, mtx'[r].wq)
        PROVE  f[mtx'[r].holder] >= f[u]
    <3>1. Waits(u, mtx[r].wq) /\ r # m
      BY <1>12, <2>1 DEF Waits
    <3>2. u # t
      BY <1>2, <3>1, HolderRuns
    <3>3. f[u] = os.fixed_prio[u]
      BY <1>7, <3>2 DEF Tasks
    <3>4. os.fixed_prio[mtx[r].holder] >= os.fixed_prio[u]
      BY <3>1 DEF MInv, Inherited, Queued, Waits
    <3>5. mtx'[r].holder = mtx[r].holder /\ mtx[r].holder \in Threads
      BY <1>10, <3>1, MTypes, MFacts DEF MutexOK, Waits
    <3>6. mtx[r].holder # t
      BY <1>2, <3>1, OneHeld
    <3>7. f[mtx[r].holder] = os.fixed_prio[mtx[r].holder]
      BY <1>7, <3>5, <3>6 DEF Tasks
    <3>8. QED BY <3>3, <3>4, <3>5, <3>7
  <2>2. QED BY <1>8, <2>1 DEF Inherited, Queued
<1>17. GivenBack'
  <2>1. ASSUME NEW u \in Threads, \A r \in Mutexes : mtx'[r].holder # u
        PROVE  os'.fixed_prio[u] = base_prio'[u]
    <3>1. CASE u = t
      BY <1>2, <1>7, <1>8, <3>1
    <3>2. CASE u # t
      <4>1. \A r \in Mutexes : mtx[r].holder # u
        BY <1>2, <1>10, <2>1, <3>2
      <4>2. f[u] = os.fixed_prio[u]
        BY <1>7, <3>2 DEF Tasks
      <4>3. QED BY <1>2, <1>8, <4>1, <4>2 DEF MInv, GivenBack
    <3>3. QED BY <3>1, <3>2
  <2>2. QED BY <2>1 DEF GivenBack
<1>18. FullSlices' /\ KInv'
  BY <1>1, <1>7, <1>8 DEF MInv, FullSlices, KInv
<1>19. QED
  BY <1>10, <1>13, <1>14, <1>15, <1>16, <1>17, <1>18 DEF MInv

\* A thread that was passed the mutex leaves mtx_lock.
LEMMA LockReturnStep ==
  ASSUME MInv, NEW t \in Threads, LockReturn(t)
  PROVE  MInv'
<1> DEFINE m == waiting[t]
<1>1. /\ KInv /\ os.state[t] = "ACTIVE" /\ m # NULL
      /\ held' = [held EXCEPT ![m] = held[m] \cup {t}]
      /\ waiting' = [waiting EXCEPT ![t] = NULL]
      /\ os' = os /\ mtx' = mtx /\ base_prio' = base_prio
  BY RunnerActive DEF MInv, LockReturn
<1>2. m \in Mutexes
  BY <1>1, MTypes
<1>3. \A r \in Mutexes : ~Waits(t, mtx[r].wq)
  BY <1>1, MFacts
<1>4. mtx[m].holder = t
  BY <1>2, <1>3, MFacts
<1>5. MTypeOK'
  BY <1>1, <1>2, MTypes DEF MTypeOK
<1>6. /\ held'[m] = held[m] \cup {t}
      /\ \A r \in Mutexes \ {m} : held'[r] = held[r]
      /\ waiting'[t] = NULL
      /\ \A u \in Threads \ {t} : waiting'[u] = waiting[u]
  BY <1>1, <1>2, MTypes
<1>7. \A r \in Mutexes : t \notin held[r]
  BY <1>1 DEF MInv, OneMutexEach
<1>8. \A r \in Mutexes : waiting[t] = r <=> r = m
  OBVIOUS
<1> HIDE DEF m
<1>9. MutualExclusion'
  <2>1. \A r \in Mutexes : \A u \in held'[r] : mtx[r].holder = u
    BY <1>4, <1>6, MFacts
  <2>2. QED BY <1>1, <2>1 DEF MInv, MutualExclusion
<1>10. BlockedMeansQueued'
  <2>1. ASSUME NEW u \in Threads, NEW r \in Mutexes
        PROVE  /\ Waits(u, mtx[r].wq) => waiting'[u] = r /\ mtx[r].holder # u
               /\ waiting'[u] = r => Waits(u, mtx[r].wq) \/ mtx[r].holder = u
               /\ mtx[r].holder = u => u \in held'[r] \/ waiting'[u] = r
    <3>1. CASE u = t
      BY <1>3, <1>6, <1>8, <3>1, MFacts, MutexConstants
    <3>2. CASE u # t
      <4>1. waiting'[u] = waiting[u] /\ (u \in held'[r] <=> u \in held[r])
        BY <1>6, <3>2
      <4>2. QED BY <4>1, MFacts
    <3>3. QED BY <3>1, <3>2
  <2>2. \A r \in Mutexes : Distinct(mtx[r].wq)
    BY MFacts DEF MutexOK
  <2>3. QED BY <1>1, <1>5, <2>1, <2>2, MFacts, QueuesAfter
<1>11. OneMutexEach'
  <2>1. ASSUME NEW u \in Threads
        PROVE  /\ waiting'[u] # NULL => \A r \in Mutexes : u \notin held'[r]
               /\ \A r, n \in Mutexes : u \in held'[r] /\ u \in held'[n] => r = n
    <3>1. CASE u = t
      BY <1>6, <1>7, <3>1
    <3>2. CASE u # t
      <4>1. waiting'[u] = waiting[u] /\ \A r \in Mutexes : u \in held'[r] <=> u \in held[r]
        BY <1>6, <3>2
      <4>2. QED BY <4>1 DEF MInv, OneMutexEach
    <3>3. QED BY <3>1, <3>2
  <2>2. QED BY <2>1 DEF OneMutexEach
<1>12. Inherited' /\ GivenBack' /\ FullSlices' /\ KInv'
  BY <1>1 DEF MInv, Inherited, Queued, GivenBack, FullSlices, KInv
<1>13. QED
  BY <1>5, <1>9, <1>10, <1>11, <1>12 DEF MInv

\* A step that moves the kernel between threads and changes no priority.
LEMMA SchedulingStep ==
  ASSUME MInv, KInv', os'.state = os.state, os'.fixed_prio = os.fixed_prio, FullSlices',
         mtx' = mtx, waiting' = waiting, held' = held, base_prio' = base_prio
  PROVE  MInv'
<1>1. MTypeOK' /\ MutualExclusion' /\ OneMutexEach'
  BY DEF MInv, MTypeOK, MutualExclusion, OneMutexEach
<1>2. BlockedMeansQueued'
  BY DEF MInv, BlockedMeansQueued, Queued
<1>3. Inherited' /\ GivenBack'
  BY DEF MInv, Inherited, GivenBack, Queued
<1>4. QED BY <1>1, <1>2, <1>3 DEF MInv

\* A thread leaves the core with a full slice: somebody else is runnable
\* whenever the scheduler takes it off.
LEMMA TickKeepsSlices ==
  ASSUME MInv, os' = os_tick(os)
  PROVE  FullSlices' /\ os'.fixed_prio = os.fixed_prio
<1>1. KernelInv(os) /\ os.run_ptr \in Tasks
  BY KernelTypes DEF MInv, KInv, KernelInv
<1>2. /\ os'.fixed_prio = os.fixed_prio
      /\ os.task_active_cnt = 0 => os'.run_ptr = Idle
      /\ \A t \in Tasks \ {os'.run_ptr} :
           os'.working_prio[t] =
             IF t = os.run_ptr /\ os.task_active_cnt # 0 THEN os.fixed_prio[t]
             ELSE os.working_prio[t]
  BY <1>1, TickSlices
<1>3. ASSUME os.run_ptr \in Threads PROVE os.task_active_cnt # 0
  BY <1>1, <1>3, SomeoneActive, ActiveQueue
<1>5. ASSUME NEW t \in Tasks, t # os'.run_ptr
      PROVE  os'.working_prio[t] = os'.fixed_prio[t]
  <2>1. CASE t = os.run_ptr /\ os.task_active_cnt # 0
    BY <1>2, <1>5, <2>1
  <2>2. CASE t # os.run_ptr
    BY <1>2, <1>5, <2>2 DEF MInv, FullSlices
  <2>3. CASE t = os.run_ptr /\ os.task_active_cnt = 0
    BY <1>2, <1>3, <1>5, <2>3 DEF Tasks
  <2>4. QED BY <2>1, <2>2, <2>3
<1>6. QED BY <1>2, <1>5 DEF FullSlices

LEMMA MNextInv ==
  ASSUME MInv, [MNext]_mvars
  PROVE  MInv'
<1>1. CASE MTick
  <2>1. /\ os' = os_tick(os) /\ mtx' = mtx /\ waiting' = waiting
        /\ held' = held /\ base_prio' = base_prio /\ KNext
    BY <1>1 DEF MTick, Tick, TimerTick, YieldTick, KNext
  <2>2. os'.state = os.state
    BY <2>1, TickInv DEF MInv, KInv
  <2>3. KInv'
    BY <2>1, KNextInv DEF MInv
  <2>4. FullSlices' /\ os'.fixed_prio = os.fixed_prio
    BY <2>1, TickKeepsSlices
  <2>5. QED BY <2>1, <2>2, <2>3, <2>4, SchedulingStep
<1>2. ASSUME NEW t \in Threads, MYield(t) PROVE MInv'
  <2>1. /\ TaskYield(t) /\ mtx' = mtx /\ waiting' = waiting
        /\ held' = held /\ base_prio' = base_prio
    BY <1>2 DEF MYield
  <2>2. KInv'
    BY <2>1, KNextInv DEF MInv, KNext
  <2>3. os'.state = os.state
    BY <2>1, RunnerActive, YieldInv DEF MInv, KInv, TaskYield
  <2>4. /\ os'.fixed_prio = os.fixed_prio /\ os'.working_prio = os.working_prio
        /\ os'.run_ptr = os.run_ptr
    BY <2>1, MTypes, YieldPrios DEF TaskYield
  <2>5. FullSlices'
    BY <2>4 DEF MInv, FullSlices
  <2>6. QED BY <2>1, <2>2, <2>3, <2>4, <2>5, SchedulingStep
<1>3. ASSUME NEW t \in Threads, LockReturn(t) PROVE MInv'
  BY <1>3, LockReturnStep
<1>4. ASSUME NEW t \in Threads, NEW m \in Mutexes, LockFirst(t, m) PROVE MInv'
  BY <1>4, LockFreeStep, LockWaitStep
<1>5. ASSUME NEW t \in Threads, NEW m \in Mutexes, Unlock(t, m) PROVE MInv'
  BY <1>5, UnlockPassStep, UnlockFreeStep
<1>6. CASE UNCHANGED mvars
  BY <1>6, SchedulingStep DEF mvars, MInv, KInv, FullSlices
<1>7. QED BY <1>1, <1>2, <1>3, <1>4, <1>5, <1>6 DEF MNext

LEMMA MInitInv == ASSUME MInit PROVE MInv
<1>1. /\ KInv /\ \A t \in Threads : os.state[t] = "ACTIVE"
      /\ os.fixed_prio \in [Tasks -> 1..MaxPrio] /\ os.working_prio = os.fixed_prio
  BY KInitInv, KInitPrios DEF MInit
<1>2. /\ mtx = [m \in Mutexes |-> [holder |-> NULL, wq |-> <<>>]]
      /\ waiting = [t \in Threads |-> NULL]
      /\ held = [m \in Mutexes |-> {}]
      /\ base_prio = os.fixed_prio
  BY DEF MInit, mtx_init
<1>3. \A m \in Mutexes : mtx[m].holder = NULL /\ mtx[m].wq = <<>>
  BY <1>2
<1>4. MTypeOK
  BY <1>1, <1>2 DEF MTypeOK
<1>5. MutualExclusion /\ OneMutexEach
  BY <1>2, <1>3 DEF MutualExclusion, OneMutexEach
<1>6. BlockedMeansQueued
  BY <1>1, <1>2, <1>3, MutexConstants DEF BlockedMeansQueued, Queued, Waits
<1>7. Inherited /\ GivenBack /\ FullSlices
  <2>1. \A t \in Threads : \A m \in Mutexes : ~Queued(t, m)
    BY <1>3 DEF Queued, Waits
  <2>2. QED BY <1>1, <1>2, <2>1 DEF Inherited, GivenBack, FullSlices, Tasks
<1>8. QED BY <1>1, <1>4, <1>5, <1>6, <1>7 DEF MInv

-----------------------------------------------------------------------------
(* The theorems.                                                           *)

\* The inductive invariant holds in every state of every behavior.
THEOREM MutexInvariant == MSpec => []MInv
<1>1. MInit => MInv
  BY MInitInv
<1>2. MInv /\ [MNext]_mvars => MInv'
  BY MNextInv
<1>3. QED BY <1>1, <1>2, PTL DEF MSpec

\* Types, and priorities never leave the range of thrd_create (mutex.c:63-66).
THEOREM MutexTypes == MSpec => []MTypeOK
<1>1. MInv => MTypeOK
  BY DEF MInv
<1>2. QED BY <1>1, MutexInvariant, PTL

\* One thread at a time between lock and unlock, and it is the one the mutex
\* names (mutex.c:54-56, 169-181).
THEOREM MutexExcludes == MSpec => []MutualExclusion
<1>1. MInv => MutualExclusion
  BY DEF MInv
<1>2. QED BY <1>1, MutexInvariant, PTL

\* A thread is blocked exactly while one mutex has it in its queue
\* (mutex.c:68-71, 172-178).
THEOREM MutexQueues == MSpec => []BlockedMeansQueued
<1>1. MInv => BlockedMeansQueued
  BY DEF MInv
<1>2. QED BY <1>1, MutexInvariant, PTL

\* Nobody waits for a holder of a lower priority (mutex.c:61-67, 169-176).
THEOREM PriorityInherited == MSpec => []Inherited
<1>1. MInv => Inherited
  BY DEF MInv
<1>2. QED BY <1>1, MutexInvariant, PTL

\* Who holds no mutex has its own priority again (mutex.c:164-167).
THEOREM PriorityGivenBack == MSpec => []GivenBack
<1>1. MInv => GivenBack
  BY DEF MInv
<1>2. QED BY <1>1, MutexInvariant, PTL

\* A thread off the core has a full slice of its present priority
\* (mutex.c:64, 175; os.c:263-264).
THEOREM SlicesFull == MSpec => []FullSlices
<1>1. MInv => FullSlices
  BY DEF MInv
<1>2. QED BY <1>1, MutexInvariant, PTL

\* Threads that use mutexes never block one another for good: as long as none
\* locks a second one, some thread is runnable (mutex.c:68-71, 172-178).
SomeoneRunnable == Threads # {} => \E t \in Threads : os.state[t] = "ACTIVE"

THEOREM MutexDeadlockFree == MSpec => []SomeoneRunnable
<1>1. MInv => SomeoneRunnable
  BY SomeoneActive DEF SomeoneRunnable
<1>2. QED BY <1>1, MutexInvariant, PTL

-----------------------------------------------------------------------------
(* The refinement of AbstractSemaphore.                                    *)

absvars == <<tokens, queue, granted>>

LEMMA AbstractInit == ASSUME MInit PROVE Abstract!AInit
<1>1. mtx = [m \in Mutexes |-> [holder |-> NULL, wq |-> <<>>]]
  BY DEF MInit, mtx_init
<1>2. tokens \in [Mutexes -> Nat]
  BY DEF tokens
<1>3. queue = [m \in Mutexes |-> <<>>]
  BY <1>1 DEF queue
<1>4. \A m \in Mutexes : {t \in Threads : waiting[t] = m /\ ~Queued(t, m)} = {}
  BY MutexConstants DEF MInit
<1>5. granted = [m \in Mutexes |-> {}]
  BY <1>4 DEF granted
<1>6. QED BY <1>2, <1>3, <1>5 DEF Abstract!AInit

\* A thread outside mtx_lock is free for the abstract semaphore too.
LEMMA AbstractFree ==
  ASSUME MInv, NEW t \in Threads, InUserCode(t)
  PROVE  Abstract!Free(t)
<1>1. waiting[t] = NULL /\ \A m \in Mutexes : ~Waits(t, mtx[m].wq)
  BY UserFacts
<1>2. \A m \in Mutexes : ~Abstract!InQueue(t, m)
  BY <1>1 DEF Abstract!InQueue, queue, Waits
<1>3. \A m \in Mutexes : t \notin granted[m]
  BY <1>1, MutexConstants DEF granted
<1>4. QED BY <1>2, <1>3 DEF Abstract!Free

TokensOf(x) == IF x.holder = NULL THEN 1 ELSE 0

LEMMA Mapping ==
  /\ tokens = [r \in Mutexes |-> TokensOf(mtx[r])]
  /\ queue = [r \in Mutexes |-> mtx[r].wq]
  /\ \A r, u : Queued(u, r) <=> Waits(u, mtx[r].wq)
BY DEF tokens, queue, TokensOf, Queued, Waits

LEMMA MappingAfter ==
  /\ tokens' = [r \in Mutexes |-> TokensOf(mtx'[r])]
  /\ queue' = [r \in Mutexes |-> mtx'[r].wq]
  /\ \A r, u : Queued(u, r)' <=> Waits(u, mtx'[r].wq)
BY DEF tokens, queue, TokensOf, Queued, Waits

\* What the mapping shows of a step that makes y of mutex m.
LEMMA AbstractStep ==
  ASSUME MInv, NEW m \in Mutexes, NEW y, mtx' = [mtx EXCEPT ![m] = y]
  PROVE  /\ tokens' = [tokens EXCEPT ![m] = TokensOf(y)]
         /\ queue' = [queue EXCEPT ![m] = y.wq]
         /\ \A r \in Mutexes \ {m} : \A u : Queued(u, r)' <=> Queued(u, r)
         /\ \A u : Queued(u, m)' <=> Waits(u, y.wq)
         /\ \A u : Queued(u, m) <=> Waits(u, mtx[m].wq)
<1>1. DOMAIN mtx = Mutexes
  BY MTypes
<1>2. /\ mtx'[m] = y
      /\ \A r \in Mutexes \ {m} : mtx'[r] = mtx[r]
  BY <1>1
<1>3. tokens' = [tokens EXCEPT ![m] = TokensOf(y)]
  BY <1>2, Mapping, MappingAfter
<1>4. queue' = [queue EXCEPT ![m] = y.wq]
  BY <1>2, Mapping, MappingAfter
<1>5. \A r \in Mutexes \ {m} : \A u : Queued(u, r)' <=> Queued(u, r)
  BY <1>2, Mapping, MappingAfter
<1>6. \A u : Queued(u, m)' <=> Waits(u, y.wq)
  BY <1>2, MappingAfter
<1>7. QED BY <1>3, <1>4, <1>5, <1>6, Mapping

\* A step that leaves the tokens or the queue of m as they are.
LEMMA AbstractSame ==
  ASSUME NEW m \in Mutexes
  PROVE  /\ \A n : n = TokensOf(mtx[m]) => [tokens EXCEPT ![m] = n] = tokens
         /\ \A q : q = mtx[m].wq => [queue EXCEPT ![m] = q] = queue
         /\ tokens[m] = TokensOf(mtx[m])
         /\ queue[m] = mtx[m].wq
BY Mapping

\* A lock takes the token, or joins the queue.
LEMMA LockAbstract ==
  ASSUME MInv, NEW t \in Threads, NEW m \in Mutexes, LockFirst(t, m)
  PROVE  Abstract!ANext
<1> DEFINE x == mtx[m]
           y == mtx_lock(os, x, t).m
<1>1. /\ MutexOK(x) /\ waiting[t] = NULL
      /\ \A r \in Mutexes : ~Waits(t, mtx[r].wq)
  BY UserFacts DEF LockFirst, Lock
<1>2. LockOutcome(x, t, y)
  BY <1>1, LockMutex, Zenon
<1>3. /\ mtx' = [mtx EXCEPT ![m] = y]
      /\ y.holder = t => waiting' = waiting
      /\ y.holder # t => waiting' = [waiting EXCEPT ![t] = m]
      /\ t \notin held[m]
  BY DEF LockFirst, Lock
<1>4. Abstract!Free(t)
  BY AbstractFree DEF LockFirst, Lock
<1> HIDE DEF y
<1>5. /\ tokens' = [tokens EXCEPT ![m] = TokensOf(y)]
      /\ queue' = [queue EXCEPT ![m] = y.wq]
      /\ \A r \in Mutexes \ {m} : \A u : Queued(u, r)' <=> Queued(u, r)
      /\ \A u : Queued(u, m)' <=> Waits(u, y.wq)
      /\ \A u : Queued(u, m) <=> Waits(u, x.wq)
  BY <1>3, AbstractStep
<1>6. /\ tokens[m] = TokensOf(x) /\ queue[m] = x.wq
      /\ waiting \in [Threads -> Mutexes \cup {NULL}]
  BY AbstractSame, MTypes
<1>7. CASE x.holder = NULL
  <2>1. y.holder = t /\ y.wq = x.wq /\ waiting' = waiting
    BY <1>2, <1>3, <1>7 DEF LockOutcome
  <2>2. tokens[m] = 1 /\ TokensOf(y) = 0
    BY <1>6, <1>7, <2>1, MutexConstants DEF TokensOf
  <2>3. tokens[m] > 0 /\ tokens' = [tokens EXCEPT ![m] = tokens[m] - 1]
    BY <1>5, <2>2
  <2>4. queue' = queue
    BY <1>5, <2>1, AbstractSame
  <2>5. \A r \in Mutexes : \A u : Queued(u, r)' <=> Queued(u, r)
    BY <1>5, <2>1
  <2>6. granted' = granted
    BY <2>1, <2>5 DEF granted
  <2>7. Abstract!Take(t, m)
    BY <1>4, <2>3, <2>4, <2>6 DEF Abstract!Take
  <2>8. QED BY <2>7 DEF Abstract!ANext
<1>8. CASE x.holder # NULL
  <2>1. /\ y.holder = x.holder /\ y.wq = Append(x.wq, t)
        /\ \A u : Waits(u, y.wq) <=> Waits(u, x.wq) \/ u = t
    BY <1>2, <1>8 DEF LockOutcome
  <2>2. x.holder # t
    BY <1>1, <1>3, MFacts, MutexConstants
  <2>3. waiting' = [waiting EXCEPT ![t] = m]
    BY <1>3, <2>1, <2>2
  <2>4. tokens[m] = 0 /\ tokens' = tokens
    <3>1. TokensOf(x) = 0 /\ TokensOf(y) = 0
      BY <1>8, <2>1 DEF TokensOf
    <3>2. QED BY <1>5, <1>6, <3>1, AbstractSame
  <2>5. ASSUME NEW r \in Mutexes, NEW u \in Threads
        PROVE  waiting'[u] = r /\ ~Queued(u, r)' <=> waiting[u] = r /\ ~Queued(u, r)
    <3>1. CASE u = t
      BY <1>1, <1>5, <1>6, <2>1, <2>3, <3>1, MutexConstants
    <3>2. CASE u # t
      BY <1>5, <1>6, <2>1, <2>3, <3>2
    <3>3. QED BY <3>1, <3>2
  <2>6. granted' = granted
    BY <2>5 DEF granted
  <2>7. Abstract!Enqueue(t, m)
    BY <1>4, <1>5, <1>6, <2>1, <2>4, <2>6 DEF Abstract!Enqueue
  <2>8. QED BY <2>7 DEF Abstract!ANext
<1>9. QED BY <1>7, <1>8

\* An unlock hands the token over, or leaves it.
LEMMA UnlockAbstract ==
  ASSUME MInv, NEW t \in Threads, NEW m \in Mutexes, Unlock(t, m)
  PROVE  Abstract!ANext
<1> DEFINE x == mtx[m]
           y == mtx_unlock(os, x, t).m
           h == Head(x.wq)
<1>1. MutexOK(x) /\ x.holder = t
  BY UserFacts DEF Unlock
<1>2. UnlockOutcome(x, y)
  BY <1>1, UnlockMutex, Zenon
<1>3. mtx' = [mtx EXCEPT ![m] = y] /\ waiting' = waiting
  BY DEF Unlock
<1> HIDE DEF y
<1>4. /\ tokens' = [tokens EXCEPT ![m] = TokensOf(y)]
      /\ queue' = [queue EXCEPT ![m] = y.wq]
      /\ \A r \in Mutexes \ {m} : \A u : Queued(u, r)' <=> Queued(u, r)
      /\ \A u : Queued(u, m)' <=> Waits(u, y.wq)
      /\ \A u : Queued(u, m) <=> Waits(u, x.wq)
  BY <1>3, AbstractStep
<1>5. tokens[m] = TokensOf(x) /\ queue[m] = x.wq /\ TokensOf(x) = 0
  BY <1>1, AbstractSame, MutexConstants DEF TokensOf
<1>6. CASE x.wq # <<>>
  <2>1. /\ y.wq = Tail(x.wq) /\ y.holder = h
        /\ h \in Threads /\ Waits(h, x.wq)
        /\ \A u : Waits(u, y.wq) <=> Waits(u, x.wq) /\ u # h
    BY <1>2, <1>6 DEF UnlockOutcome
  <2>2. tokens' = tokens
    <3>1. TokensOf(y) = 0
      BY <2>1, MutexConstants DEF TokensOf
    <3>2. QED BY <1>4, <1>5, <3>1, AbstractSame
  <2>3. queue' = [queue EXCEPT ![m] = Tail(queue[m])] /\ Head(queue[m]) = h
    BY <1>4, <1>5, <2>1
  <2> HIDE DEF h
  <2>4. waiting[h] = m
    BY <2>1, MFacts
  <2>5. ASSUME NEW r \in Mutexes, NEW u \in Threads
        PROVE  waiting'[u] = r /\ ~Queued(u, r)'
                 <=> (waiting[u] = r /\ ~Queued(u, r)) \/ (r = m /\ u = h)
    <3>1. CASE u = h
      BY <1>3, <1>4, <2>1, <2>4, <3>1
    <3>2. CASE u # h
      BY <1>3, <1>4, <2>1, <3>2
    <3>3. QED BY <3>1, <3>2
  <2>6. granted' = [granted EXCEPT ![m] = granted[m] \cup {h}]
    <3>1. granted' = [r \in Mutexes |->
                        {u \in Threads : waiting'[u] = r /\ ~Queued(u, r)'}]
      BY DEF granted
    <3>2. \A r \in Mutexes :
            {u \in Threads : waiting'[u] = r /\ ~Queued(u, r)'}
              = IF r = m THEN granted[r] \cup {h} ELSE granted[r]
      BY <2>1, <2>5 DEF granted
    <3>3. granted' = [r \in Mutexes |->
                        IF r = m THEN granted[r] \cup {h} ELSE granted[r]]
      BY <3>1, <3>2
    <3>4. granted = [r \in Mutexes |-> granted[r]]
      BY DEF granted
    <3>5. QED BY <3>3, <3>4
  <2>7. Abstract!HandOver(m)
    BY <1>5, <1>6, <2>2, <2>3, <2>6 DEF Abstract!HandOver
  <2>8. QED BY <2>7 DEF Abstract!ANext
<1>7. CASE x.wq = <<>>
  <2>1. y.wq = x.wq /\ y.holder = NULL
    BY <1>2, <1>7 DEF UnlockOutcome
  <2>2. tokens' = [tokens EXCEPT ![m] = tokens[m] + 1]
    <3>1. TokensOf(y) = 1
      BY <2>1 DEF TokensOf
    <3>2. QED BY <1>4, <1>5, <3>1
  <2>3. queue' = queue /\ queue[m] = <<>>
    BY <1>4, <1>5, <1>7, <2>1, AbstractSame
  <2>4. \A r \in Mutexes : \A u : Queued(u, r)' <=> Queued(u, r)
    BY <1>4, <2>1
  <2>5. granted' = granted
    BY <1>3, <2>4 DEF granted
  <2>6. Abstract!Deposit(m)
    BY <2>2, <2>3, <2>5 DEF Abstract!Deposit
  <2>7. QED BY <2>6 DEF Abstract!ANext
<1>8. QED BY <1>6, <1>7

\* The way out of mtx_lock.
LEMMA ReturnAbstract ==
  ASSUME MInv, NEW t \in Threads, LockReturn(t)
  PROVE  Abstract!ANext
<1> DEFINE m == waiting[t]
<1>1. /\ os.state[t] = "ACTIVE" /\ waiting[t] # NULL
      /\ waiting' = [waiting EXCEPT ![t] = NULL] /\ mtx' = mtx
  BY CallerFacts DEF MInv, LockReturn
<1>2. waiting \in [Threads -> Mutexes \cup {NULL}] /\ NULL \notin Mutexes
  BY MTypes, MutexConstants
<1>3. m \in Mutexes
  BY <1>1, <1>2
<1>4. \A r \in Mutexes : ~Queued(t, r)
  BY <1>1, MFacts, Mapping
<1>5. tokens' = tokens /\ queue' = queue
  BY <1>1, Mapping, MappingAfter
<1>6. \A r \in Mutexes : \A u : Queued(u, r)' <=> Queued(u, r)
  BY <1>1 DEF Queued
<1>7. ASSUME NEW r \in Mutexes, NEW u \in Threads
      PROVE  waiting'[u] = r /\ ~Queued(u, r)'
               <=> (waiting[u] = r /\ ~Queued(u, r)) /\ ~(r = m /\ u = t)
  <2>1. CASE u = t
    BY <1>1, <1>2, <2>1
  <2>2. CASE u # t
    BY <1>1, <1>2, <1>6, <2>2
  <2>3. QED BY <2>1, <2>2
<1>8. t \in granted[m]
  BY <1>3, <1>4 DEF granted
<1>9. granted' = [granted EXCEPT ![m] = granted[m] \ {t}]
  <2>1. granted' = [r \in Mutexes |->
                      {u \in Threads : waiting'[u] = r /\ ~Queued(u, r)'}]
    BY DEF granted
  <2>2. \A r \in Mutexes :
          {u \in Threads : waiting'[u] = r /\ ~Queued(u, r)'}
            = IF r = m THEN granted[r] \ {t} ELSE granted[r]
    BY <1>7 DEF granted
  <2>3. granted' = [r \in Mutexes |->
                      IF r = m THEN granted[r] \ {t} ELSE granted[r]]
    BY <2>1, <2>2
  <2>4. granted = [r \in Mutexes |-> granted[r]]
    BY DEF granted
  <2> HIDE DEF m
  <2>5. QED BY <2>3, <2>4
<1> HIDE DEF m
<1>10. Abstract!Depart(t, m)
  BY <1>5, <1>8, <1>9 DEF Abstract!Depart
<1>11. QED BY <1>3, <1>10 DEF Abstract!ANext

\* Steps that touch neither the mutexes nor who waits.
LEMMA StutterAbstract ==
  ASSUME mtx' = mtx, waiting' = waiting
  PROVE  UNCHANGED absvars
<1>1. tokens' = tokens /\ queue' = queue
  BY Mapping, MappingAfter
<1>2. \A r \in Mutexes : \A u : Queued(u, r)' <=> Queued(u, r)
  BY DEF Queued
<1>3. granted' = granted
  BY <1>2 DEF granted
<1>4. QED BY <1>1, <1>3 DEF absvars

LEMMA MNextAbstract ==
  ASSUME MInv, [MNext]_mvars
  PROVE  [Abstract!ANext]_absvars
<1>1. CASE MTick
  BY <1>1, StutterAbstract DEF MTick
<1>2. ASSUME NEW t \in Threads, MYield(t) PROVE [Abstract!ANext]_absvars
  BY <1>2, StutterAbstract DEF MYield
<1>3. ASSUME NEW t \in Threads, LockReturn(t) PROVE [Abstract!ANext]_absvars
  BY <1>3, ReturnAbstract
<1>4. ASSUME NEW t \in Threads, NEW m \in Mutexes, LockFirst(t, m) \/ Unlock(t, m)
      PROVE  [Abstract!ANext]_absvars
  BY <1>4, LockAbstract, UnlockAbstract
<1>5. CASE UNCHANGED mvars
  BY <1>5, StutterAbstract DEF mvars
<1>6. QED BY <1>1, <1>2, <1>3, <1>4, <1>5 DEF MNext

\* mutex.c implements semaphores of one token with direct hand-off
\* (mutex.c:48-77, 149-187).
THEOREM MutexRefinement == MSpec => ImplementsAbstractSemaphore
<1>1. MInit => Abstract!AInit
  BY AbstractInit
<1>2. MInv /\ [MNext]_mvars => [Abstract!ANext]_absvars
  BY MNextAbstract
<1>3. QED
  BY <1>1, <1>2, MutexInvariant, PTL
  DEF MSpec, ImplementsAbstractSemaphore, Abstract!ASpec, Abstract!avars, absvars
=============================================================================
