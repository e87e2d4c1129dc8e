------------------------------ MODULE TimedWait ------------------------------
(***************************************************************************)
(* Waits with a time limit: sem_timedwait, mtx_timedlock, the heap         *)
(* t_waitqueue and the second loop of os_update, beside the operations of  *)
(* Semaphore and Mutex.  A timed wait that blocks is two critical          *)
(* sections: the second one, when the thread has the core again, finds out *)
(* whether it was signalled or its time is over.                           *)
(*                                                                         *)
(* waiting[t] is the semaphore or mutex whose wait thread t is inside of.  *)
(***************************************************************************)
EXTENDS Kernel, DeadlineQueue

CONSTANTS Semaphores, Mutexes,
          Patient,       \* the threads that wait without a limit, and only so
          MaxVal,        \* bound on the value a post may leave
          MaxTicks       \* bound on the time limit

\* Where a thread is that has panicked.
Panic == "os_panic"

\* A limit of WordSize \div 2 ticks or more is stored as a negative priority;
\* with a limit of 0 a wait does not block and returns without the resource.
ASSUME TimedWaitAssumption ==
  /\ Patient \subseteq Threads
  /\ WordSize \in Nat
  /\ WordSize % 2 = 0
  /\ MaxTicks \in Nat
  /\ MaxTicks < WordSize \div 2
  /\ MaxVal \in Nat /\ MaxVal <= 32767      \* sem_t.val is an int16_t
  /\ NUM_THREADS \in Nat
  /\ Cardinality(Threads) <= NUM_THREADS     \* one pool block per thread
  /\ Semaphores \cap Mutexes = {}
  /\ NULL \notin Semaphores \cup Mutexes
  /\ Panic \notin Semaphores \cup Mutexes \cup {NULL}

VARIABLES sem, mtx, waiting, held, base_prio,    \* as in Semaphore and Mutex
          t_waitqueue

twvars == <<os, sem, mtx, waiting, held, base_prio, t_waitqueue>>

S == INSTANCE Semaphore
M == INSTANCE Mutex

\* The thread idles for good.  _low_power_mode_3 sets GIE, so that the others go
\* on, but no critical section is left any more: none of theirs ends.
os_panic(k) == [start_critical(k) EXCEPT !.gie = TRUE]

-----------------------------------------------------------------------------
(* The second loop of os_update.                                           *)

\* The first deadline has come, or its thread was signalled in the meantime.
Over(k, heap) ==
  \/ CountDown(heap)[1].priority <= 0
  \/ k.state[heap[1].data] = "ACTIVE"

\* What is left of the limit of the next deadline is cut, too.
NextDeadline(heap, ticks) ==
  IF heap = <<>> THEN heap
  ELSE [heap EXCEPT ![1].priority = Signed(@ - ticks),
                    ![1].ticks = Unsigned(@ + ticks)]

\* One turn: the thread is linked, but still SLEEPING if its time is over.
CleanupStep(x) ==
  IF ~x.more THEN x
  ELSE IF Over(x.k, x.heap)
  THEN [k    |-> os_add_task_mmang(x.k, x.heap[1].data),
        heap |-> NextDeadline(pqueue_pop(CountDown(x.heap)), x.heap[1].ticks),
        more |-> TRUE]
  ELSE [x EXCEPT !.heap = CountDown(@), !.more = FALSE]

\* At most half of the deadlines, rounded up, leave the heap in one call.  (The
\* set {turn[n - 1]} makes TLC evaluate a turn once.)
os_update_turns(k, heap, turns) ==
  LET turn[n \in 0..turns] ==
        IF n = 0 THEN [k |-> k, heap |-> heap, more |-> TRUE]
        ELSE CHOOSE y \in {CleanupStep(x) : x \in {turn[n - 1]}} : TRUE
  IN  turn[turns]

\* Mutant of os_update: rounded down, which is no turn for a single deadline.
os_update_half(k, heap) == os_update_turns(k, heap, Len(heap) \div 2)

os_update(k, heap) == os_update_turns(k, heap, Len(heap) - Len(heap) \div 2)

-----------------------------------------------------------------------------
(* The calls.                                                              *)

\* For ticks > 0; called inside a critical section.
os_task_timedwait(k, heap, t, ticks) ==
  LET j == [start_critical(k) EXCEPT !.state[t] = "SLEEPING",
                                     !.working_prio[t] = k.fixed_prio[t]]
  IN  [k    |-> os_task_pause(end_critical(j), t),
       heap |-> pqueue_push(heap, Deadline(t, ticks))]

\* The first critical section of sem_timedwait, when the semaphore is taken.
sem_timedwait(k, s, heap, t, ticks) ==
  LET r == os_task_timedwait(start_critical(k), heap, t, ticks)
  IN  [k    |-> end_critical(r.k),
       s    |-> [val |-> s.val - 1, wq |-> S!queue_wait_push(s.wq, t)],
       heap |-> r.heap]

\* Mutant of sem_timedout: the thread just goes.
sem_timedout_leaving(k, s, t) == [k |-> [k EXCEPT !.state[t] = "ACTIVE"], s |-> s]

\* The second one of a thread that nobody has signalled: it undoes its wait
\* with a post of its own.
sem_timedout(k, s, t) ==
  LET r == S!sem_post([start_critical(k) EXCEPT !.state[t] = "ACTIVE"], s)
  IN  [k |-> end_critical(r.k), s |-> r.s]

\* The first critical section of mtx_timedlock, when the mutex is held.
mtx_timedlock(k, m, heap, t, ticks) ==
  LET j == start_critical(k)
      r == os_task_timedwait(M!boost(j, m.holder, j.fixed_prio[t]), heap, t, ticks)
  IN  [k    |-> end_critical(r.k),
       m    |-> [m EXCEPT !.wq = M!queue_wait_push(@, t)],
       heap |-> r.heap]

\* The second one of a thread that was not passed the mutex: mtx_unlock, which
\* panics because the thread is not the holder.  The thread stays in the queue.
mtx_timedout(k, t) ==
  os_panic(start_critical([start_critical(k) EXCEPT !.state[t] = "ACTIVE"]))

-----------------------------------------------------------------------------
TInit ==
  /\ KInit
  /\ \E v \in [Semaphores -> 0..MaxVal] :
       sem = [s \in Semaphores |-> S!sem_init(v[s])]
  /\ mtx = [m \in Mutexes |-> M!mtx_init]
  /\ waiting = [t \in Threads |-> NULL]
  /\ held = [m \in Mutexes |-> {}]
  /\ base_prio = os.fixed_prio
  /\ t_waitqueue = <<>>

InUserCode(t) == CanRun(t) /\ waiting[t] = NULL

Limits == 1..MaxTicks

\* sem_timedwait of a thread that has to wait.
SemTimedwait(t, s, ticks) ==
  LET r == sem_timedwait(os, sem[s], t_waitqueue, t, ticks)
  IN  /\ InUserCode(t)
      /\ sem[s].val <= 0
      /\ os' = r.k
      /\ sem' = [sem EXCEPT ![s] = r.s]
      /\ waiting' = [waiting EXCEPT ![t] = s]
      /\ t_waitqueue' = r.heap
      /\ UNCHANGED <<mtx, held, base_prio>>

\* Back on the core: status 0 after a post, -1 when the time is over.
SemTimedwaitReturn(t, s) ==
  LET timedout == os.state[t] = "SLEEPING"
      r == sem_timedout(os, sem[s], t)
  IN  /\ CanRun(t)
      /\ waiting[t] = s
      /\ os' = IF timedout THEN r.k ELSE os
      /\ sem' = IF timedout THEN [sem EXCEPT ![s] = r.s] ELSE sem
      /\ waiting' = [waiting EXCEPT ![t] = NULL]
      /\ UNCHANGED <<mtx, held, base_prio, t_waitqueue>>

MtxTimedlock(t, m, ticks) ==
  LET r == mtx_timedlock(os, mtx[m], t_waitqueue, t, ticks)
  IN  /\ InUserCode(t)
      /\ mtx[m].holder \notin {NULL, t}
      /\ os' = r.k
      /\ mtx' = [mtx EXCEPT ![m] = r.m]
      /\ waiting' = [waiting EXCEPT ![t] = m]
      /\ t_waitqueue' = r.heap
      /\ UNCHANGED <<sem, held, base_prio>>

\* Mutant of MtxTimedlockReturn: every thread that comes back has the mutex.
MtxTimedlockReturn_unchecked(t, m) ==
  /\ CanRun(t)
  /\ waiting[t] = m
  /\ held' = [held EXCEPT ![m] = @ \cup {t}]
  /\ waiting' = [waiting EXCEPT ![t] = NULL]
  /\ UNCHANGED <<os, sem, mtx, base_prio, t_waitqueue>>

\* Back on the core with the mutex.
MtxTimedlockReturn(t, m) ==
  /\ CanRun(t)
  /\ waiting[t] = m
  /\ mtx[m].holder = t
  /\ held' = [held EXCEPT ![m] = @ \cup {t}]
  /\ waiting' = [waiting EXCEPT ![t] = NULL]
  /\ UNCHANGED <<os, sem, mtx, base_prio, t_waitqueue>>

\* And without it.  The status of -1 is never returned.
MtxTimedlockTimeout(t, m) ==
  /\ CanRun(t)
  /\ waiting[t] = m
  /\ t \notin Patient
  /\ mtx[m].holder # t
  /\ os' = mtx_timedout(os, t)
  /\ waiting' = [waiting EXCEPT ![t] = Panic]
  /\ UNCHANGED <<sem, mtx, held, base_prio, t_waitqueue>>

\* sem_wait by a patient thread, sem_timedwait by the others; on a semaphore
\* that is free they are the same.
WaitFor(t, s) ==
  \/ /\ t \in Patient \/ sem[s].val > 0
     /\ S!SemWait(t, s)
     /\ UNCHANGED <<mtx, held, base_prio, t_waitqueue>>
  \/ t \notin Patient /\ \E ticks \in Limits : SemTimedwait(t, s, ticks)

WaitReturn(t, s) ==
  \/ /\ t \in Patient
     /\ waiting[t] = s
     /\ S!SemWaitReturn(t)
     /\ UNCHANGED <<mtx, held, base_prio, t_waitqueue>>
  \/ t \notin Patient /\ SemTimedwaitReturn(t, s)

\* mtx_lock and mtx_timedlock, likewise.
LockIt(t, m) ==
  \/ /\ t \in Patient \/ mtx[m].holder = NULL
     /\ M!Lock(t, m)
     /\ UNCHANGED <<sem, t_waitqueue>>
  \/ t \notin Patient /\ \E ticks \in Limits : MtxTimedlock(t, m, ticks)

LockedReturn(t, m) ==
  \/ /\ t \in Patient
     /\ waiting[t] = m
     /\ M!LockReturn(t)
     /\ UNCHANGED <<sem, t_waitqueue>>
  \/ t \notin Patient /\ MtxTimedlockReturn(t, m)

TSemPost(t, s) ==
  S!SemPost(t, s) /\ UNCHANGED <<mtx, held, base_prio, t_waitqueue>>

TUnlock(t, m) == M!Unlock(t, m) /\ UNCHANGED <<sem, t_waitqueue>>

\* os_tick: os_update comes before the scheduler.
Update ==
  \E x \in {os_update(os, t_waitqueue)} :
    /\ os' = os_tick(x.k)
    /\ t_waitqueue' = x.heap
    /\ UNCHANGED <<sem, mtx, waiting, held, base_prio>>

TTick == os.gie /\ Update

Common ==
  \/ TTick
  \/ \E t \in Threads, s \in Semaphores : TSemPost(t, s) \/ WaitReturn(t, s)
  \/ \E t \in Threads, m \in Mutexes :
       TUnlock(t, m) \/ LockIt(t, m) \/ LockedReturn(t, m)

NobodyWaits(s) == \A t \in Threads : waiting[t] # s

\* The discipline under which the timed waits do what they say: a semaphore has
\* one consumer at a time, and no thread gets back from a mtx_timedlock before it
\* has the mutex, be it in its last tick or later.
TNext ==
  Common \/ \E t \in Threads, s \in Semaphores : NobodyWaits(s) /\ WaitFor(t, s)

\* Any number of consumers.
CrowdedNext == Common \/ \E t \in Threads, s \in Semaphores : WaitFor(t, s)

\* A mtx_timedlock may also come back without the mutex.
TimeoutNext ==
  TNext \/ \E t \in Threads, m \in Mutexes : MtxTimedlockTimeout(t, m)

TSpec == TInit /\ [][TNext]_twvars
CrowdedSpec == TInit /\ [][CrowdedNext]_twvars
TimeoutSpec == TInit /\ [][TimeoutNext]_twvars

\* The timer never stops.  Nothing is assumed of the threads.
TFairSpec == TSpec /\ WF_twvars(TTick)

-----------------------------------------------------------------------------
(* Properties.                                                             *)

Resources == Semaphores \cup Mutexes

wq(r) == IF r \in Semaphores THEN sem[r].wq ELSE mtx[r].wq

Queued(t, r) == \E i \in 1..Len(wq(r)) : wq(r)[i] = t

\* Types.  In particular no slice is ever zero, and only threads that wait with a
\* limit have a deadline (os.c:243-252, 255-267, 307-323).
TTypeOK ==
  /\ os \in Kernels /\ PrioritiesOK(os)
  /\ sem \in [Semaphores -> [val : Int, wq : Seq(Threads)]]
  /\ mtx \in [Mutexes -> [holder : Threads \cup {NULL}, wq : Seq(Threads)]]
  /\ held \in [Mutexes -> SUBSET Threads]
  /\ base_prio \in [Tasks -> Nat \ {0}]
  /\ waiting \in [Threads -> Resources \cup {NULL}]
  /\ t_waitqueue \in Seq(Deadlines(Threads \ Patient))

\* Under the discipline of TNext, nobody but the holder is between a lock and its
\* unlock, also when a hand-off meets the end of a limit: the thread that is passed
\* the mutex in its last tick or after it has the mutex when it comes back
\* (mutex.c:113-119, 169-175).  With TimeoutNext it is not so: whoever locks a held
\* mutex after a panic blocks without giving up the core, and goes on.
MutualExclusion == M!MutualExclusion

\* A thread that is off the run queue will be put back: by a post or an unlock if
\* it is patient, by its deadline otherwise.  Deadlines that were left behind
\* by earlier waits take none of the live ones with them, nor are threads woken
\* by them that wait without a limit (os.c:243-252, 307-323).
DeadlineKept ==
  \A t \in Threads : ~Linked(os.run_queue, t) =>
    IF t \in Patient
    THEN os.state[t] = "BLOCKING" /\ \E r \in Resources : Queued(t, r)
    ELSE /\ os.state[t] = "SLEEPING"
         /\ \E i \in 1..Len(t_waitqueue) : t_waitqueue[i].data = t

\* No semaphore and no mutex has a thread in its queue that is not inside a wait
\* for it: "if you were signalled, then you would no longer lie within the queue
\* indices" (semaphore.c:92-93), and neither would you after a time-out.
NoPhantomWaiter ==
  \A t \in Threads, r \in Resources : Queued(t, r) => waiting[t] = r

\* Whatever left the run queue is suspended; who is BLOCKING comes back ACTIVE, so
\* that only a thread whose time is over is on the queue and not ACTIVE.  The
\* iterator stands on the running thread until that gives up the core.
RunQueueKept ==
  /\ \A i, j \in 1..Len(os.run_queue) : os.run_queue[i] = os.run_queue[j] => i = j
  /\ os.task_active_cnt = Len(os.run_queue)
  /\ os.run_queue # <<>> => Linked(os.run_queue, os.it)
  /\ \A t \in Threads :
       /\ ~Linked(os.run_queue, t) => os.state[t] \in Suspended
       /\ os.state[t] = "BLOCKING" => ~Linked(os.run_queue, t)
  /\ os.run_ptr \in Threads =>
       /\ ~os.wdtifg => os.it = os.run_ptr /\ Linked(os.run_queue, os.run_ptr)
       /\ os.state[os.run_ptr] = "ACTIVE" => os.it = os.run_ptr

\* Where a thread is, what its state says and the queues agree.
WaitersKept ==
  \A t \in Threads :
    /\ os.state[t] \in Suspended =>
         waiting[t] \in Resources /\ Queued(t, waiting[t])
    /\ \A r \in Resources : Queued(t, r) =>
         /\ waiting[t] = r
         /\ os.state[t] = IF t \in Patient THEN "BLOCKING" ELSE "SLEEPING"

\* One consumer makes at most one waiter.
SemaphoresKept ==
  /\ \A s \in Semaphores :
       IF sem[s].val < 0 THEN sem[s].val = -1 /\ Len(sem[s].wq) = 1
       ELSE sem[s].wq = <<>>
  /\ \A s \in Semaphores, t, u \in Threads :
       waiting[t] = s /\ waiting[u] = s => t = u

MutexesKept ==
  \A m \in Mutexes :
    /\ \A i, j \in 1..Len(mtx[m].wq) : mtx[m].wq[i] = mtx[m].wq[j] => i = j
    /\ \A t \in Threads :
         /\ Queued(t, m) => mtx[m].holder # t
         /\ waiting[t] = m => Queued(t, m) \/ mtx[m].holder = t
         /\ mtx[m].holder = t => t \in held[m] \/ waiting[t] = m

\* The inductive invariant of the timed waits and the kernel together.
TInv ==
  /\ TTypeOK
  /\ RunQueueKept
  /\ Preemptible(os)
  /\ WaitersKept
  /\ SemaphoresKept
  /\ MutexesKept
  /\ MutualExclusion

\* There is a free element in the heap of deadlines.
RoomForDeadlines == Len(t_waitqueue) + 1 < NUM_THREADS

\* The abstract semaphores: those of the code, and the mutexes as semaphores of
\* one token.
tokens ==
  [r \in Resources |->
     IF r \in Semaphores THEN IF sem[r].val > 0 THEN sem[r].val ELSE 0
     ELSE IF mtx[r].holder = NULL THEN 1 ELSE 0]
queue == [r \in Resources |-> wq(r)]
granted == [r \in Resources |-> {t \in Threads : waiting[t] = r /\ ~Queued(t, r)}]

Abstract == INSTANCE AbstractTimedSemaphore WITH Semaphores <- Resources

\* However posts, hand-offs and time limits cross: a wait that returns 0 took a
\* token of its own, and a sem_timedwait that returns -1 took none and leaves
\* none.  A mtx_timedlock never returns -1 (semaphore.c:69-108, mutex.c:79-119).
ImplementsTimedSemaphore == Abstract!ATSpec

\* A thread that waits with a limit can run again although nobody signals it,
\* whatever deadlines were left behind in front of its own: os_update reaches
\* every one (semaphore.h:33, "Blocking wait() with a time limit"; os.c:243-252).
TimeLimitsEnd ==
  \A t \in Threads \ Patient : []<>Linked(os.run_queue, t)
=============================================================================
