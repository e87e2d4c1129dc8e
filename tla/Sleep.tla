-------------------------------- MODULE Sleep --------------------------------
(***************************************************************************)
(* thrd_sleep (os_task_sleep, os_update) on top of the kernel.  Unlike the *)
(* calls that block, it is two critical sections, and a tick may come in   *)
(* between: pausing[t] says that thread t is there.                        *)
(*                                                                         *)
(* Time is counted in calls of os_update, the unit of os_time(): the ticks *)
(* of the timer and those that threads raise to give up the core.          *)
(***************************************************************************)
EXTENDS Kernel, DeadlineQueue

CONSTANT MaxTicks     \* bound on the argument of thrd_sleep

\* A sleep of WordSize \div 2 ticks or more is stored as a negative priority.
ASSUME SleepAssumption ==
  /\ WordSize \in Nat
  /\ WordSize % 2 = 0
  /\ MaxTicks \in Nat
  /\ MaxTicks < WordSize \div 2
  /\ NUM_THREADS \in Nat

VARIABLES sleep_queue,
          pausing,
          owed,       \* ghost: what is left of the sleep that was asked for
          alone       \* ghost: nobody else has slept since the sleep began

lvars == <<os, sleep_queue, pausing, owed, alone>>

Sleeping == {sleep_queue[i].data : i \in 1..Len(sleep_queue)}

-----------------------------------------------------------------------------
(* os_update: at most half of the sleepers, rounded up, leave the heap in  *)
(* one call.                                                               *)

\* The deadline that comes first now was counted from the start of the one
\* that has passed, less the tick that is about to be counted.
NextDeadline(heap, ticks) ==
  IF heap = <<>> THEN heap
  ELSE [heap EXCEPT ![1].priority = Signed(@ - (ticks - 1)),
                    ![1].ticks = Unsigned(@ + ticks)]

\* Mutant of Expired: the deadline passes one tick later.
ExpiredLate(heap) == CountDown(heap)[1].priority < 0

Expired(heap) == CountDown(heap)[1].priority <= 0

\* One turn of the loop, which pops no more than count - count / 2 deadlines:
\* the condition counts the first one down, the body wakes its thread.
CleanupStep(x) ==
  IF ~x.more THEN x
  ELSE IF Expired(x.heap)
  THEN [heap  |-> NextDeadline(pqueue_pop(CountDown(x.heap)), x.heap[1].ticks),
        woken |-> Append(x.woken, x.heap[1].data),
        more  |-> TRUE]
  ELSE [x EXCEPT !.heap = CountDown(@), !.more = FALSE]

\* Mutant of Cleanup: half of the sleepers is rounded the other way.
CleanupRounded(heap) ==
  LET thresh == (Len(heap) + 1) \div 2
      turn[n \in 0..(Len(heap) - thresh)] ==
        IF n = 0 THEN [heap |-> heap, woken |-> <<>>, more |-> TRUE]
        ELSE CleanupStep(turn[n - 1])
  IN  turn[Len(heap) - thresh]

\* The heap after the loop, and the threads it wakes.
Cleanup(heap) ==
  LET thresh == Len(heap) \div 2
      turn[n \in 0..(Len(heap) - thresh)] ==
        IF n = 0 THEN [heap |-> heap, woken |-> <<>>, more |-> TRUE]
        ELSE CleanupStep(turn[n - 1])
  IN  turn[Len(heap) - thresh]

\* Mutant of Wake: the thread is linked and still counts as asleep.
WakeUnmarked(k, t) == os_add_task_mmang(k, t)

Wake(k, t) == [os_add_task_mmang(k, t) EXCEPT !.state[t] = "ACTIVE"]

os_update(k, woken) ==
  LET after[n \in 0..Len(woken)] ==
        IF n = 0 THEN k ELSE Wake(after[n - 1], woken[n])
  IN  after[Len(woken)]

-----------------------------------------------------------------------------
LInit ==
  /\ KInit
  /\ sleep_queue = <<>>
  /\ pausing = [t \in Threads |-> FALSE]
  /\ owed = [t \in Threads |-> 0]
  /\ alone = [t \in Threads |-> TRUE]

InUserCode(t) == CanRun(t) /\ ~pausing[t]

\* The first critical section of os_task_sleep for ticks > 0.
FallAsleep(t, ticks) ==
  LET j == [start_critical(os) EXCEPT !.state[t] = "SLEEPING",
                                      !.working_prio[t] = os.fixed_prio[t]]
  IN  /\ InUserCode(t)
      /\ os' = end_critical(j)
      /\ sleep_queue' = pqueue_push(sleep_queue, Deadline(t, ticks))
      /\ pausing' = [pausing EXCEPT ![t] = TRUE]
      /\ owed' = [owed EXCEPT ![t] = ticks]
      /\ alone' = [u \in Threads |-> IF u = t THEN Sleeping = {}
                                     ELSE alone[u] /\ u \notin Sleeping]

\* The second: the thread may be ACTIVE again by now.
Pause(t) ==
  /\ CanRun(t)
  /\ pausing[t]
  /\ os' = os_task_pause(os, t)
  /\ pausing' = [pausing EXCEPT ![t] = FALSE]
  /\ UNCHANGED <<sleep_queue, owed, alone>>

\* thrd_sleep(0).
SleepYield(t) ==
  InUserCode(t) /\ TaskYield(t) /\ UNCHANGED <<sleep_queue, pausing, owed, alone>>

\* os_tick: os_update comes before the scheduler.
Update ==
  \E x \in {Cleanup(sleep_queue)} :
    /\ \E k \in {os_update(os, x.woken)} : os' = os_tick(k)
    /\ sleep_queue' = x.heap
    /\ owed' = [t \in Threads |-> IF owed[t] = 0 THEN 0 ELSE owed[t] - 1]
    /\ UNCHANGED <<pausing, alone>>

\* The tick of the timer or the one a thread has asked for; both count.
SleepTick == os.gie /\ Update

Common ==
  \/ SleepTick
  \/ \E t \in Threads : SleepYield(t) \/ Pause(t)

\* The discipline under which the iterator survives: who sleeps has slices of
\* one tick.
LNext ==
  \/ Common
  \/ \E t \in Threads, ticks \in 1..MaxTicks :
       os.fixed_prio[t] = 1 /\ FallAsleep(t, ticks)

\* Whoever likes sleeps.
AnyNext ==
  Common \/ \E t \in Threads, ticks \in 1..MaxTicks : FallAsleep(t, ticks)

LSpec == LInit /\ [][LNext]_lvars
AnySpec == LInit /\ [][AnyNext]_lvars

\* The timer never stops, and a pending interrupt is taken.
LFairSpec == LSpec /\ WF_lvars(SleepTick)

-----------------------------------------------------------------------------
(* Properties.                                                             *)

Nodes == Deadlines(Threads)

\* Types.  In particular no slice is ever zero, whether a slice was used up or
\* given back by a sleep (os.c:255-267, 295), and only threads have deadlines.
LTypeOK ==
  /\ os \in Kernels /\ PrioritiesOK(os)
  /\ sleep_queue \in Seq(Nodes)
  /\ pausing \in [Threads -> BOOLEAN]
  /\ owed \in [Threads -> 0..MaxTicks]
  /\ alone \in [Threads -> BOOLEAN]

\* The heap holds each sleeping thread once, and nobody else: no pop takes out
\* the wrong node, none is lost or doubled when the heap is rearranged, and a
\* thread that was woken leaves nothing behind (os.c:231-240, pqueue.h:55-100).
HeapHoldsTheSleepers ==
  /\ Sleeping = {t \in Threads : os.state[t] = "SLEEPING"}
  /\ \A i, j \in 1..Len(sleep_queue) :
       sleep_queue[i].data = sleep_queue[j].data => i = j

\* "move backwards to avoid iterator invalidation" (os.c:102): the scheduler's
\* iterator is on the run queue.
IteratorValid == os.run_queue # <<>> => Linked(os.run_queue, os.it)

\* Whoever falls asleep has slices of one tick: what LNext asks for, as a property
\* of behaviours (os.c:289-299).
ShortSleep ==
  \A t \in Threads : ~pausing[t] /\ pausing'[t] => os.fixed_prio[t] = 1

ShortSleepers == [][ShortSleep]_lvars

\* As long as only threads with slices of one tick sleep (LNext; with longer ones
\* the iterator is lost): however the tick falls into a thrd_sleep, the run queue
\* has nobody twice, is counted right, its iterator is on it, and a suspended thread
\* is on it only between the two halves of its thrd_sleep (os.c:289-305, 82-109).
RunQueueIntact ==
  /\ \A i, j \in 1..Len(os.run_queue) : os.run_queue[i] = os.run_queue[j] => i = j
  /\ os.task_active_cnt = Len(os.run_queue)
  /\ IteratorValid
  /\ \A t \in Threads :
       Linked(os.run_queue, t) /\ os.state[t] # "ACTIVE"
         => os.state[t] = "SLEEPING" /\ pausing[t]

SlicesOK ==
  /\ os.fixed_prio[Idle] = 1
  /\ \A t \in Tasks : os.working_prio[t] <= os.fixed_prio[t]

\* The iterator stands on the running thread, unless that has just taken itself
\* off the queue; then it gives up the core at the next tick, even if the tick
\* wakes it.
RunnerOK ==
  os.run_ptr \in Threads =>
    IF Linked(os.run_queue, os.run_ptr) THEN os.it = os.run_ptr
    ELSE os.wdtifg /\ os.fixed_prio[os.run_ptr] = 1

StatesOK ==
  /\ \A t \in Tasks : os.state[t] \in {"ACTIVE", "SLEEPING"}
  /\ os.state[Idle] = "ACTIVE"
  /\ \A t \in Threads :
       pausing[t] => Linked(os.run_queue, t) /\ os.fixed_prio[t] = 1

\* The inductive invariant of the run queue.
LInv ==
  /\ LTypeOK
  /\ Preemptible(os)
  /\ RunQueueIntact
  /\ SlicesOK
  /\ RunnerOK
  /\ StatesOK

\* A thread that has the sleep queue to itself sleeps exactly as long as it
\* asked for (os.c:231, 299).
PunctualAlone ==
  \A t \in Threads : alone[t] => (os.state[t] = "SLEEPING" <=> owed[t] > 0)

\* Why: the deadline of a thread that sleeps alone is what it is owed.
AloneInv ==
  \A t \in Threads : alone[t] =>
    IF t \in Sleeping
    THEN Len(sleep_queue) = 1 /\ sleep_queue[1].priority = owed[t] /\ owed[t] > 0
    ELSE owed[t] = 0

SleepsStop == <>[][\A t \in Threads : ~pausing[t] => ~pausing'[t]]_lvars

\* If nobody goes to sleep any more, every sleeper's deadline passes in the end:
\* counting down and the shifting of deadlines never strand one (os.c:231-240).
DeadlinesPass ==
  SleepsStop => \A t \in Threads : []<>(os.state[t] # "SLEEPING")

\* A thread sleeps "for the specified amount of time, or at least that much"
\* (thread.h:31).
NeverEarly == \A t \in Threads : owed[t] > 0 => os.state[t] = "SLEEPING"

\* A thread whose sleep is over can run: it is on the run queue.
WokenIsRunnable ==
  \A t \in Threads : os.state[t] = "ACTIVE" => Linked(os.run_queue, t)
=============================================================================
