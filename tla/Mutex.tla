-------------------------------- MODULE Mutex --------------------------------
(***************************************************************************)
(* Mutexes with priority inheritance (mutex.c) on top of the kernel.  A    *)
(* lock that blocks comes back when an unlock has passed it the mutex;     *)
(* waiting[t] is the mutex whose mtx_lock thread t is inside of, held[m]   *)
(* the threads for which a lock of m has returned 0 and that have not      *)
(* unlocked it since.                                                      *)
(*                                                                         *)
(* The fixed_prio of the kernel is the priority a thread has now; the      *)
(* priority it was created with, base_prio, never changes.                 *)
(***************************************************************************)
EXTENDS Kernel, WaitQueue

CONSTANT Mutexes

ASSUME MutexAssumption ==
  /\ NUM_THREADS \in Nat
  /\ Cardinality(Threads) <= NUM_THREADS     \* one pool block per thread
  /\ NULL \notin Mutexes

VARIABLES mtx,        \* [holder, wq] of each mtx_t
          waiting,
          held,
          base_prio

mvars == <<os, mtx, waiting, held, base_prio>>

\* The operations take the kernel and the mutex and return both.
mtx_init == [holder |-> NULL, wq |-> <<>>]

\* Mutants of the next operator: the boost starts with the next slice, it adds
\* up.
boost_next_slice(k, h, prio) ==
  IF prio > k.fixed_prio[h] THEN [k EXCEPT !.fixed_prio[h] = prio] ELSE k

boost_adding(k, h, prio) ==
  IF prio > k.fixed_prio[h]
  THEN [k EXCEPT !.working_prio[h] = @ + prio, !.fixed_prio[h] = @ + prio]
  ELSE k

\* The holder h inherits the priority of the thread that starts to wait.
boost(k, h, prio) ==
  IF prio > k.fixed_prio[h]
  THEN [k EXCEPT !.working_prio[h] = @ + (prio - k.fixed_prio[h]),
                 !.fixed_prio[h] = prio]
  ELSE k

mtx_lock(k, m, t) ==
  LET j == start_critical(k)
  IN  IF m.holder = NULL
      THEN [k |-> end_critical(j), m |-> [m EXCEPT !.holder = t]]
      ELSE [k |-> end_critical(os_task_block(boost(j, m.holder, j.fixed_prio[t]), t)),
            m |-> [m EXCEPT !.wq = queue_wait_push(@, t)]]

\* Mutant of restore: the old holder keeps its boost.
restore_nothing(k, t) == k

restore(k, t) == [k EXCEPT !.fixed_prio[t] = base_prio[t]]

\* Mutant of pass: the mutex is passed on without the priority.
pass_nothing(k, t, wakeup) == restore(k, t)

\* The new holder gets the priority that the old one had at the end, and with
\* it a full slice.
pass(k, t, wakeup) ==
  LET prio == k.fixed_prio[t]
  IN  [restore(k, t) EXCEPT !.fixed_prio[wakeup] = prio,
                            !.working_prio[wakeup] = prio]

\* Mutant of mtx_unlock: the mutex is free although somebody was woken for it.
mtx_unlock_freeing(k, m, t) ==
  LET j == start_critical(k)
      p == queue_wait_pop(m.wq)
  IN  IF m.wq # <<>>
      THEN [k |-> end_critical(os_task_unpause(pass(j, t, p.item), p.item)),
            m |-> [holder |-> NULL, wq |-> p.left]]
      ELSE [k |-> end_critical(restore(j, t)), m |-> [m EXCEPT !.holder = NULL]]

\* Called by the holder; anybody else ends in os_panic.
mtx_unlock(k, m, t) ==
  LET j == start_critical(k)
      p == queue_wait_pop(m.wq)
  IN  IF m.wq # <<>>
      THEN [k |-> end_critical(os_task_unpause(pass(j, t, p.item), p.item)),
            m |-> [holder |-> p.item, wq |-> p.left]]
      ELSE [k |-> end_critical(restore(j, t)), m |-> [m EXCEPT !.holder = NULL]]

-----------------------------------------------------------------------------
MInit ==
  /\ KInit
  /\ mtx = [m \in Mutexes |-> mtx_init]
  /\ waiting = [t \in Threads |-> NULL]
  /\ held = [m \in Mutexes |-> {}]
  /\ base_prio = os.fixed_prio

InUserCode(t) == CanRun(t) /\ waiting[t] = NULL

\* lock(t, m) of a thread that does not hold m; a second lock by the holder
\* would block it for ever.
Lock(t, m) ==
  LET r == mtx_lock(os, mtx[m], t)
  IN  /\ InUserCode(t)
      /\ t \notin held[m]
      /\ os' = r.k
      /\ mtx' = [mtx EXCEPT ![m] = r.m]
      /\ IF r.m.holder = t
         THEN held' = [held EXCEPT ![m] = @ \cup {t}] /\ UNCHANGED waiting
         ELSE waiting' = [waiting EXCEPT ![t] = m] /\ UNCHANGED held
      /\ UNCHANGED base_prio

\* The holder of no mutex at all locks one: the discipline under which the
\* priorities are right.
LockFirst(t, m) == (\A n \in Mutexes : t \notin held[n]) /\ Lock(t, m)

\* A thread that was blocked is on the core again and leaves mtx_lock.
LockReturn(t) ==
  /\ CanRun(t)
  /\ waiting[t] # NULL
  /\ held' = [held EXCEPT ![waiting[t]] = @ \cup {t}]
  /\ waiting' = [waiting EXCEPT ![t] = NULL]
  /\ UNCHANGED <<os, mtx, base_prio>>

\* Only a thread whose lock returned 0 unlocks.
Unlock(t, m) ==
  LET r == mtx_unlock(os, mtx[m], t)
  IN  /\ InUserCode(t)
      /\ t \in held[m]
      /\ mtx[m].holder = t
      /\ os' = r.k
      /\ mtx' = [mtx EXCEPT ![m] = r.m]
      /\ held' = [held EXCEPT ![m] = @ \ {t}]
      /\ UNCHANGED <<waiting, base_prio>>

MYield(t) == InUserCode(t) /\ TaskYield(t) /\ UNCHANGED <<mtx, waiting, held, base_prio>>

MTick == Tick /\ UNCHANGED <<mtx, waiting, held, base_prio>>

MNext ==
  \/ MTick
  \/ \E t \in Threads : MYield(t) \/ LockReturn(t)
  \/ \E t \in Threads, m \in Mutexes : Unlock(t, m) \/ LockFirst(t, m)

MSpec == MInit /\ [][MNext]_mvars

\* The timer as in Semaphore; a thread that is given the core time and again
\* executes the return that is left of mtx_lock.
MFairness ==
  /\ SF_mvars(TimerTick /\ UNCHANGED <<mtx, waiting, held, base_prio>>)
  /\ WF_mvars(YieldTick /\ UNCHANGED <<mtx, waiting, held, base_prio>>)
  /\ \A t \in Threads : SF_mvars(LockReturn(t))

MFairSpec == MSpec /\ MFairness

-----------------------------------------------------------------------------
(* Properties.                                                             *)

Queued(t, m) == Waits(t, mtx[m].wq)

\* Types, and every priority stays in the range the threads were created with
\* (mutex.c:63-66, 164-175).
MTypeOK ==
  /\ mtx \in [Mutexes -> [holder : Threads \cup {NULL}, wq : Seq(Threads)]]
  /\ waiting \in [Threads -> Mutexes \cup {NULL}]
  /\ held \in [Mutexes -> SUBSET Threads]
  /\ base_prio \in [Tasks -> 1..MaxPrio]
  /\ os.fixed_prio \in [Tasks -> 1..MaxPrio]

\* At most one thread is between a lock that returned and its unlock, it is the
\* one the mutex names, and a mutex that names nobody has no waiters: a hand-off
\* never leaves a mutex free for a third thread (mutex.c:54-56, 169-181).
MutualExclusion ==
  \A m \in Mutexes :
    /\ \A t \in held[m] : mtx[m].holder = t
    /\ mtx[m].holder = NULL => mtx[m].wq = <<>>

\* A thread is BLOCKING exactly while one mutex that it does not hold has it in
\* its queue, once; a thread inside mtx_lock that is in no queue was passed the
\* mutex (mutex.c:68-71, 172-178).
BlockedMeansQueued ==
  \A t \in Threads :
    /\ os.state[t] \in {"ACTIVE", "BLOCKING"}
    /\ os.state[t] = "BLOCKING" <=> \E m \in Mutexes : Queued(t, m)
    /\ \A m \in Mutexes :
         /\ Queued(t, m) => waiting[t] = m /\ mtx[m].holder # t
         /\ waiting[t] = m => Queued(t, m) \/ mtx[m].holder = t
         /\ mtx[m].holder = t => t \in held[m] \/ waiting[t] = m
         /\ \A i, j \in 1..Len(mtx[m].wq) : mtx[m].wq[i] = mtx[m].wq[j] => i = j

\* Priority inheritance (README.md:19): no thread waits for a holder that has a
\* lower priority than its own.
Inherited ==
  \A m \in Mutexes, t \in Threads :
    Queued(t, m) => os.fixed_prio[mtx[m].holder] >= os.fixed_prio[t]

\* What is inherited is given back: a thread that holds no mutex has the
\* priority it was created with (mutex.c:164-167).
GivenBack ==
  \A t \in Threads :
    (\A m \in Mutexes : mtx[m].holder # t) => os.fixed_prio[t] = base_prio[t]

\* A thread that is off the core has exactly its priority left as its slice, so
\* the sum of mutex.c:64 boosts it to the inherited slice and not beyond
\* (mutex.c:64, 175; os.c:263-264).
FullSlices ==
  \A t \in Tasks \ {os.run_ptr} : os.working_prio[t] = os.fixed_prio[t]

\* A thread inside mtx_lock has no mutex to give back, and one in its own code
\* has one at most: LockFirst keeps chains of inheritance from forming
\* (mutex.c:61-67).
OneMutexEach ==
  \A t \in Threads :
    /\ waiting[t] # NULL => \A m \in Mutexes : t \notin held[m]
    /\ \A m, n \in Mutexes : t \in held[m] /\ t \in held[n] => m = n

\* The inductive invariant of the mutexes and the kernel together.
MInv ==
  /\ KInv
  /\ MTypeOK
  /\ MutualExclusion
  /\ BlockedMeansQueued
  /\ OneMutexEach
  /\ Inherited
  /\ GivenBack
  /\ FullSlices

\* A mutex is a semaphore of one token with direct hand-off.
tokens == [m \in Mutexes |-> IF mtx[m].holder = NULL THEN 1 ELSE 0]
queue == [m \in Mutexes |-> mtx[m].wq]
granted == [m \in Mutexes |-> {t \in Threads : waiting[t] = m /\ ~Queued(t, m)}]

Abstract == INSTANCE AbstractSemaphore WITH Semaphores <- Mutexes

\* An unlock passes the mutex to the thread that has waited longest, and nobody
\* overtakes it on the way out of mtx_lock (mutex.c:48-77, 149-187).
ImplementsAbstractSemaphore == Abstract!ASpec

HoldersRelease == \A m \in Mutexes, t \in Threads : []<>(t \notin held[m])

\* If every runnable thread gets its turns and every holder unlocks in the end,
\* every thread that locks comes back from mtx_lock: nobody is passed over in
\* the queue (mutex.c:68-71, 169-178).
LockersReturn ==
  RoundRobin /\ HoldersRelease =>
    \A t \in Threads : []<>(waiting[t] = NULL)
=============================================================================
