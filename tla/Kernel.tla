------------------------------- MODULE Kernel -------------------------------
(***************************************************************************)
(* The scheduler of MS-TOS (os.c, list.h, the tick ISR of krnl_swtch.asm). *)
(*                                                                         *)
(* There is one core.  A thread loses it only to the watchdog interrupt    *)
(* os_tick, and that interrupt is taken only while GIE is set; everything  *)
(* between the outermost start_critical and its end_critical is therefore  *)
(* one step.  Each C function is an operator of the same name from a       *)
(* kernel record to the kernel record it leaves behind, so that a handler  *)
(* is written as the composition of the calls it makes.                    *)
(*                                                                         *)
(* The specification KSpec is what the kernel offers to the modules built  *)
(* on it: a running thread yields, blocks itself (os_task_block) or makes  *)
(* a blocked thread runnable again (os_task_unpause).                      *)
(***************************************************************************)
EXTENDS Naturals, Sequences, FiniteSets, SequencesExt

CONSTANTS Threads,    \* the threads main() creates before os_launch
          Idle,       \* &idle_thrd, which is never an element of the run queue
          ListHead,   \* &run_queue.head, the pseudo element of the circular list
          NULL,
          MaxPrio     \* bound on the priority handed to thrd_create

ASSUME KernelAssumption ==
  /\ IsFiniteSet(Threads)
  /\ Idle \notin Threads
  /\ ListHead \notin Threads \cup {Idle}
  /\ NULL \notin Threads \cup {Idle, ListHead}
  /\ MaxPrio \in Nat \ {0}

VARIABLE os           \* the static variables of os.c and the two interrupt bits

kvars == os

Tasks == Threads \cup {Idle}
ThreadStates == {"ACTIVE", "BLOCKING", "SLEEPING"}
Suspended == {"BLOCKING", "SLEEPING"}

-----------------------------------------------------------------------------
(* Critical sections.  gie is the GIE bit of the status register, nest is  *)
(* crit_sec_nest_counter, which all threads share.                         *)

start_critical(k) == [k EXCEPT !.gie = FALSE, !.nest = @ + 1]

end_critical(k) ==
  IF k.nest = 0 THEN k
  ELSE [k EXCEPT !.gie = @ \/ k.nest = 1, !.nest = @ - 1]

-----------------------------------------------------------------------------
(* The run queue: k.run_queue lists the elements from head.next to         *)
(* head.prev.  An element that is not linked has NULL in prev and next.    *)

Circle(q) == <<ListHead>> \o q

Position(q, e) == CHOOSE i \in 1..Len(Circle(q)) : Circle(q)[i] = e

Linked(q, e) == \E i \in 1..Len(Circle(q)) : Circle(q)[i] = e

ElementNext(q, e) ==
  IF ~Linked(q, e) THEN NULL
  ELSE IF Position(q, e) = Len(Circle(q)) THEN ListHead
  ELSE Circle(q)[Position(q, e) + 1]

ElementPrev(q, e) ==
  IF ~Linked(q, e) THEN NULL
  ELSE IF Position(q, e) = 1 THEN Circle(q)[Len(Circle(q))]
  ELSE Circle(q)[Position(q, e) - 1]

\* list_remove of a linked element.
Unlink(q, e) == RemoveAt(q, Position(q, e) - 1)

\* it.current after list_iterator_next_circular and ..._previous_circular,
\* which step over the head.
NextCircular(q, e) ==
  IF ElementNext(q, e) = ListHead THEN ElementNext(q, ListHead) ELSE ElementNext(q, e)

PrevCircular(q, e) ==
  IF ElementPrev(q, e) = ListHead THEN ElementPrev(q, ListHead) ELSE ElementPrev(q, e)

-----------------------------------------------------------------------------
(* Adding, removing and selecting threads.                                 *)

os_add_task_mmang(k, t) ==
  LET j == IF k.task_active_cnt = 0 THEN [k EXCEPT !.it = ListHead] ELSE k
  IN  IF Linked(j.run_queue, t) THEN j
      ELSE [j EXCEPT !.run_queue = Append(@, t), !.task_active_cnt = @ + 1]

\* Mutants of the next operator: the counter is forgotten, the iterator stays
\* where it is, the iterator moves the wrong way.
os_del_task_uncounted(k, t) ==
  LET j == [k EXCEPT !.it = PrevCircular(k.run_queue, @)]
  IN  IF ~Linked(j.run_queue, t) THEN j
      ELSE [j EXCEPT !.run_queue = Unlink(@, t)]

os_del_task_iterator_kept(k, t) ==
  IF ~Linked(k.run_queue, t) THEN k
  ELSE [k EXCEPT !.run_queue = Unlink(@, t), !.task_active_cnt = @ - 1]

os_del_task_iterator_forward(k, t) ==
  LET j == [k EXCEPT !.it = NextCircular(k.run_queue, @)]
  IN  IF ~Linked(j.run_queue, t) THEN j
      ELSE [j EXCEPT !.run_queue = Unlink(@, t), !.task_active_cnt = @ - 1]

os_del_task_mmang(k, t) ==
  LET j == [k EXCEPT !.it = PrevCircular(k.run_queue, @)]
  IN  IF ~Linked(j.run_queue, t) THEN j
      ELSE [j EXCEPT !.run_queue = Unlink(@, t), !.task_active_cnt = @ - 1]

os_add_task(k, t) == end_critical(os_add_task_mmang(start_critical(k), t))
os_del_task(k, t) == end_critical(os_del_task_mmang(start_critical(k), t))

\* The pending bit of the watchdog interrupt, set by software.
os_task_yield(k) == [k EXCEPT !.wdtifg = TRUE]

\* Mutant of os_task_pause: the thread leaves the queue but keeps the core.
os_task_pause_unyielding(k, t) ==
  end_critical(os_del_task(start_critical(k), t))

os_task_pause(k, t) ==
  end_critical(os_task_yield(os_del_task(start_critical(k), t)))

os_task_unpause(k, t) ==
  LET j == [start_critical(k) EXCEPT !.state[t] = "ACTIVE"]
  IN  end_critical(os_add_task(j, t))

os_task_block(k, t) ==
  LET j == [start_critical(k) EXCEPT !.state[t] = "BLOCKING"]
  IN  end_critical(os_task_pause(j, t))

\* Mutant of os_change_task: every turn starts at the front of the queue.
os_change_task_restarting(k) ==
  LET current == NextCircular(k.run_queue, ListHead)
  IN  [k EXCEPT !.it = current, !.run_ptr = current]

os_change_task(k) ==
  LET current == NextCircular(k.run_queue, k.it)
  IN  [k EXCEPT !.it = current, !.run_ptr = current]

\* Mutant of SliceOver: the slice is counted down to 0.
SliceOverAtZero(k) ==
  k.state[k.run_ptr] \in Suspended \/ k.working_prio[k.run_ptr] = 0

\* The slice of a suspended thread is not charged.
SliceOver(k) ==
  k.state[k.run_ptr] \in Suspended \/ k.working_prio[k.run_ptr] = 1

os_next(k) ==
  IF SliceOver(k)
  THEN os_change_task([k EXCEPT !.working_prio[k.run_ptr] =
                                  k.fixed_prio[k.run_ptr]])
  ELSE [k EXCEPT !.working_prio[k.run_ptr] = @ - 1]

os_schedule(k) ==
  IF k.task_active_cnt > 0 THEN os_next(k) ELSE [k EXCEPT !.run_ptr = Idle]

os_first_task(k) ==
  IF k.task_active_cnt > 0 THEN os_change_task(k)
  ELSE [k EXCEPT !.run_ptr = Idle]

\* The ISR: the flag is cleared when the interrupt is accepted, and every
\* context that restore resumes has GIE set in its saved status register.
os_tick(k) == [os_schedule(k) EXCEPT !.wdtifg = FALSE, !.gie = TRUE]

-----------------------------------------------------------------------------
(* Boot: os_init, thrd_create of every thread in the order of q with the   *)
(* priorities p, then os_launch.                                           *)

created(q, p) ==
  [run_queue       |-> q,
   it              |-> ListHead,
   task_active_cnt |-> Len(q),
   run_ptr         |-> NULL,
   state           |-> [t \in Tasks |-> "ACTIVE"],
   fixed_prio      |-> [t \in Tasks |-> IF t = Idle THEN 1 ELSE p[t]],
   working_prio    |-> [t \in Tasks |-> IF t = Idle THEN 1 ELSE p[t]],
   nest            |-> 0,
   gie             |-> TRUE,
   wdtifg          |-> FALSE]

KInit ==
  \E q \in [1..Cardinality(Threads) -> Threads], p \in [Threads -> 1..MaxPrio] :
    /\ \A i, j \in DOMAIN q : q[i] = q[j] => i = j
    /\ \A t \in Threads : \E i \in DOMAIN q : q[i] = t
    /\ os = os_first_task(created(q, p))

\* Thread t executes its next instruction: a tick that is pending while GIE
\* is set is taken first.
CanRun(t) == os.run_ptr = t /\ ~(os.gie /\ os.wdtifg)

\* The interval of the watchdog ends.
TimerTick == os.gie /\ ~os.wdtifg /\ os' = os_tick(os)

\* The interrupt that os_task_yield asked for.
YieldTick == os.gie /\ os.wdtifg /\ os' = os_tick(os)

Tick == TimerTick \/ YieldTick

\* thrd_sleep(0); thrd_yield is the same call.
TaskYield(t) == CanRun(t) /\ os' = os_task_yield(os)

TaskBlock(t) == CanRun(t) /\ os' = os_task_block(os, t)

TaskUnpause(t, u) ==
  /\ CanRun(t)
  /\ os.state[u] = "BLOCKING"
  /\ os' = os_task_unpause(os, u)

KNext ==
  \/ TimerTick
  \/ YieldTick
  \/ \E t \in Threads : TaskYield(t) \/ TaskBlock(t)
  \/ \E t, u \in Threads : TaskUnpause(t, u)

KSpec == KInit /\ [][KNext]_kvars

-----------------------------------------------------------------------------
(* Properties.                                                             *)

Kernels ==
  [run_queue       : Seq(Threads),
   it              : Threads \cup {ListHead},
   task_active_cnt : Nat,
   run_ptr         : Tasks,
   state           : [Tasks -> ThreadStates],
   fixed_prio      : [Tasks -> Nat],
   working_prio    : [Tasks -> Nat],
   nest            : Nat,
   gie             : BOOLEAN,
   wdtifg          : BOOLEAN]

PrioritiesOK(k) ==
  \A t \in Tasks : k.fixed_prio[t] > 0 /\ k.working_prio[t] > 0

\* Every variable of the kernel has its type; in particular the iterator and
\* run_ptr are never NULL and no time slice is ever zero (os.c:255-267).
KTypeOK == os \in Kernels /\ PrioritiesOK(os)

\* Between critical sections nobody holds the interrupt off.
Preemptible(k) == k.nest = 0 /\ k.gie

RunQueueOK(k) ==
  /\ \A i, j \in 1..Len(k.run_queue) : k.run_queue[i] = k.run_queue[j] => i = j
  /\ \A t \in Threads : k.state[t] = "ACTIVE" <=> Linked(k.run_queue, t)
  /\ k.task_active_cnt = Len(k.run_queue)

\* The run queue, the thread states and task_active_cnt agree: the queue holds
\* each ACTIVE thread once and nobody else, however blocks and wake-ups
\* interleave (os.c:82-109, 201-226).
RunQueueHoldsTheActive == RunQueueOK(os)

IteratorOK(k) ==
  /\ k.run_queue # <<>> => Linked(k.run_queue, k.it)
  /\ k.run_ptr \in Threads /\ k.state[k.run_ptr] = "ACTIVE" => k.it = k.run_ptr

\* The scheduler's iterator is never left on an element that was taken off
\* the queue, which is what moving it backwards is for (os.c:102), and it
\* stands on the running thread while that thread is ACTIVE.
IteratorOnTheQueue == IteratorOK(os)

CpuOK(k) ==
  /\ k.state[Idle] = "ACTIVE"
  /\ IF k.run_ptr = Idle THEN k.run_queue = <<>>
     ELSE k.wdtifg \/ k.state[k.run_ptr] = "ACTIVE"

\* A suspended thread executes nothing before it is woken, and the core idles
\* only when nobody is runnable (os.c:269-272, krnl_swtch.asm:158-169).
OnlyActiveThreadsRun == CpuOK(os) /\ Preemptible(os)

\* The inductive invariant of the kernel.
KernelInv(k) ==
  /\ k \in Kernels
  /\ PrioritiesOK(k)
  /\ RunQueueOK(k)
  /\ IteratorOK(k)
  /\ CpuOK(k)

KInv == KernelInv(os) /\ Preemptible(os)

\* The thread the iterator would select next.
NextUp(k) == NextCircular(k.run_queue, k.it)

\* The turn order survives every change of the queue: when the running thread
\* leaves it the thread behind it is still next, and a thread that is woken
\* goes next only if the running one was the last of the queue.  Nobody is
\* skipped and nobody gets two turns (os.c:82-109).
TurnOrderKept ==
  [][ /\ Len(os'.run_queue) < Len(os.run_queue) /\ os'.run_queue # <<>>
           => NextUp(os') = NextUp(os)
      /\ Len(os'.run_queue) > Len(os.run_queue) /\ os.it # Last(os.run_queue)
           => NextUp(os') = NextUp(os) ]_kvars

\* A thread that stays runnable is given the core again and again (README.md:20,
\* "Round-robin scheduling w/ priority").
RoundRobin ==
  \A t \in Threads : []<>(os.run_ptr = t \/ ~Linked(os.run_queue, t))

WakeupsStop == <>[][Len(os'.run_queue) <= Len(os.run_queue)]_kvars

\* RoundRobin holds once no thread is woken any more: the timer alone drives
\* the iterator round the whole queue, through slices of any length, yields
\* and blocks (os.c:255-272).
RoundRobinWithoutWakeups == WakeupsStop => RoundRobin
=============================================================================
