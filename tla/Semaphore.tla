------------------------------ MODULE Semaphore ------------------------------
(***************************************************************************)
(* Counting semaphores (semaphore.c) on top of the kernel.  A call is one  *)
(* critical section, except that a sem_wait that blocks comes back later:  *)
(* waiting[t] is the semaphore whose sem_wait thread t is inside of.       *)
(***************************************************************************)
EXTENDS Kernel, WaitQueue, Integers

CONSTANTS Semaphores,
          MaxVal         \* bound on the value a post may leave

ASSUME SemaphoreAssumption ==
  /\ NUM_THREADS \in Nat
  /\ Cardinality(Threads) <= NUM_THREADS     \* one pool block per thread
  /\ MaxVal \in Nat /\ MaxVal <= 32767      \* sem_t.val is an int16_t
  /\ NULL \notin Semaphores

VARIABLES sem,      \* [val, wq] of each sem_t
          waiting   \* where each thread is

svars == <<os, sem, waiting>>

\* The operations take the kernel and the semaphore and return both.
sem_init(value) == [val |-> value, wq |-> <<>>]

\* Mutant of sem_wait: the waiter is taken off the run queue and stays ACTIVE.
sem_wait_pausing(k, s, t) ==
  LET j == start_critical(k)
  IN  IF s.val - 1 < 0
      THEN [k |-> end_critical(os_task_pause(j, t)),
            s |-> [val |-> s.val - 1, wq |-> queue_wait_push(s.wq, t)]]
      ELSE [k |-> end_critical(j), s |-> [s EXCEPT !.val = @ - 1]]

sem_wait(k, s, t) ==
  LET j == start_critical(k)
  IN  IF s.val - 1 < 0
      THEN [k |-> end_critical(os_task_block(j, t)),
            s |-> [val |-> s.val - 1, wq |-> queue_wait_push(s.wq, t)]]
      ELSE [k |-> end_critical(j), s |-> [s EXCEPT !.val = @ - 1]]

\* Mutant of sem_trywait: a wrong sign.
sem_trywait_increments(k, s) ==
  [k |-> end_critical(start_critical(k)),
   s |-> IF s.val > 0 THEN [s EXCEPT !.val = @ + 1] ELSE s]

sem_trywait(k, s) ==
  [k |-> end_critical(start_critical(k)),
   s |-> IF s.val > 0 THEN [s EXCEPT !.val = @ - 1] ELSE s]

\* Mutant of sem_post: the waiter is dequeued but not woken.
sem_post_silent(k, s) ==
  LET j == start_critical(k)
      p == queue_wait_pop(s.wq)
  IN  IF s.val + 1 <= 0
      THEN [k |-> end_critical(j), s |-> [val |-> s.val + 1, wq |-> p.left]]
      ELSE [k |-> end_critical(j), s |-> [s EXCEPT !.val = @ + 1]]

\* A post that finds val < 0 and no waiter would wake an uninitialised pointer.
sem_post(k, s) ==
  LET j == start_critical(k)
      p == queue_wait_pop(s.wq)
  IN  IF s.val + 1 <= 0
      THEN [k |-> end_critical(os_task_unpause(j, p.item)),
            s |-> [val |-> s.val + 1, wq |-> p.left]]
      ELSE [k |-> end_critical(j), s |-> [s EXCEPT !.val = @ + 1]]

-----------------------------------------------------------------------------
SInit ==
  /\ KInit
  /\ \E v \in [Semaphores -> 0..MaxVal] :
       sem = [s \in Semaphores |-> sem_init(v[s])]
  /\ waiting = [t \in Threads |-> NULL]

\* The thread is in its own code, not inside a call.
InUserCode(t) == CanRun(t) /\ waiting[t] = NULL

SemWait(t, s) ==
  LET r == sem_wait(os, sem[s], t)
  IN  /\ InUserCode(t)
      /\ os' = r.k
      /\ sem' = [sem EXCEPT ![s] = r.s]
      /\ waiting' = IF r.s.val < 0 THEN [waiting EXCEPT ![t] = s] ELSE waiting

\* A thread that was blocked is on the core again and leaves sem_wait.
SemWaitReturn(t) ==
  /\ CanRun(t)
  /\ waiting[t] # NULL
  /\ waiting' = [waiting EXCEPT ![t] = NULL]
  /\ UNCHANGED <<os, sem>>

SemTrywait(t, s) ==
  LET r == sem_trywait(os, sem[s])
  IN  /\ InUserCode(t)
      /\ os' = r.k
      /\ sem' = [sem EXCEPT ![s] = r.s]
      /\ UNCHANGED waiting

SemPost(t, s) ==
  LET r == sem_post(os, sem[s])
  IN  /\ InUserCode(t)
      /\ sem[s].val < MaxVal
      /\ os' = r.k
      /\ sem' = [sem EXCEPT ![s] = r.s]
      /\ UNCHANGED waiting

SYield(t) == InUserCode(t) /\ TaskYield(t) /\ UNCHANGED <<sem, waiting>>

STick == Tick /\ UNCHANGED <<sem, waiting>>

SNext ==
  \/ STick
  \/ \E t \in Threads : SYield(t) \/ SemWaitReturn(t)
  \/ \E t \in Threads, s \in Semaphores :
       SemWait(t, s) \/ SemTrywait(t, s) \/ SemPost(t, s)

SSpec == SInit /\ [][SNext]_svars

\* The timer never stops, whatever else raises the flag, and a pending interrupt
\* is taken.  A thread that is given the core time and again executes the one
\* return that is left of sem_wait: a slice is 2 ms, a switch about 100 us
\* (README.md:47-48).  Calls are the threads' own choice.
SFairness ==
  /\ SF_svars(TimerTick /\ UNCHANGED <<sem, waiting>>)
  /\ WF_svars(YieldTick /\ UNCHANGED <<sem, waiting>>)
  /\ \A t \in Threads : SF_svars(SemWaitReturn(t))

SFairSpec == SSpec /\ SFairness

-----------------------------------------------------------------------------
(* Properties.                                                             *)

Queued(t, s) == Waits(t, sem[s].wq)

\* Types of the semaphores; the kernel's own are in KTypeOK.
STypeOK ==
  /\ sem \in [Semaphores -> [val : Int, wq : Seq(Threads)]]
  /\ \A s \in Semaphores : sem[s].val <= MaxVal
  /\ waiting \in [Threads -> Semaphores \cup {NULL}]

\* A negative value counts the waiters and no post is ever owed to anybody
\* else: val and the wait queue agree, no waiter is lost to a full queue and
\* none is queued twice (semaphore.c:54-58, 139-142; definitions.h:106).
ValueCountsWaiters ==
  \A s \in Semaphores :
    /\ Len(sem[s].wq) = IF sem[s].val < 0 THEN -sem[s].val ELSE 0
    /\ \A i, j \in 1..Len(sem[s].wq) : sem[s].wq[i] = sem[s].wq[j] => i = j

\* No lost wake-up and no phantom waiter: a thread is BLOCKING exactly while
\* the one semaphore it waits for holds it in its queue, so a later post will
\* find it, and a woken thread is in no queue (semaphore.c:58-61, 142-145).
BlockedMeansQueued ==
  \A t \in Threads :
    /\ os.state[t] \in {"ACTIVE", "BLOCKING"}
    /\ os.state[t] = "BLOCKING" <=> \E s \in Semaphores : Queued(t, s)
    /\ \A s \in Semaphores : Queued(t, s) => waiting[t] = s

\* The inductive invariant.
SInv == KInv /\ STypeOK /\ ValueCountsWaiters /\ BlockedMeansQueued

\* The abstract semaphore: val holds the tokens when it is positive, and the
\* threads a post has chosen are those inside sem_wait but in no queue.
tokens == [s \in Semaphores |-> IF sem[s].val > 0 THEN sem[s].val ELSE 0]
queue == [s \in Semaphores |-> sem[s].wq]
granted == [s \in Semaphores |-> {t \in Threads : waiting[t] = s /\ ~Queued(t, s)}]

Abstract == INSTANCE AbstractSemaphore

\* semaphore.c is a FIFO counting semaphore: every post is handed to the
\* longest waiter, no trywait or wait overtakes one that queues, and a thread
\* leaves sem_wait only with a post of its own (semaphore.c:49-67, 114-151).
ImplementsAbstractSemaphore == Abstract!ASpec

\* Every step of the semaphores is a step of the kernel's interface, so what
\* holds of KSpec holds here (semaphore.c:60-61, 144-145).
ImplementsKernel == KSpec

\* A thread that a post has chosen does come back from sem_wait, unless the
\* system keeps waking threads for ever (semaphore.c:134-151, os.c:255-272).
WokenWaiterReturns ==
  WakeupsStop =>
    \A t \in Threads :
      waiting[t] # NULL /\ os.state[t] = "ACTIVE" ~> waiting[t] = NULL
=============================================================================
