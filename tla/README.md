# A TLA+ verification of MS-TOS

MS-TOS is a small preemptive operating system for the single-core MSP430:
threads with weighted round-robin scheduling, sleeping, semaphores, mutexes with
priority inheritance, barriers and timed waits, about 1200 lines of C, 200 of
assembly and a handful of generic containers. This directory models it in TLA+,
checks the models with TLC and proves the main results with TLAPS.

## Inventory

What a component keeps, what it offers, how it meets the others, what is hard
about it, and what makes it correct.

**Scheduler and run queue** (`os.c`, `list.h`, `krnl_swtch.asm`).
State: the circular list `run_queue` of runnable threads, the iterator `it`,
`run_ptr`, `task_active_cnt`, the state and the priorities of each thread,
`crit_sec_nest_counter`, the interrupt bits GIE and WDTIFG. Operations: add,
delete, yield, pause, unpause, block, the tick interrupt. Everything else calls
it. Hard: a switch may come at any instruction outside a critical section; the
iterator points into a list that changes; a thread that takes itself off the
queue goes on executing until the interrupt it raised is taken. Correct when the
queue holds exactly the ACTIVE threads, the iterator stays on it, suspended
threads do not run, no one is skipped and everyone gets a turn.

**Wait queue** (`queue.h`, `definitions.h:99`). A ring of `NUM_THREADS` thread
pointers in every semaphore and mutex. Correct when it is a FIFO that is never
asked to hold more than fits: no caller looks at the result of a push.

**Semaphores** (`semaphore.c`). State: `val` and the wait queue. Operations:
wait, trywait, timedwait, post. They block and wake threads through the
scheduler. Hard: the window between the count, the push and the block; who gets
a post. Correct when it is a FIFO counting semaphore and no wake-up is lost.

**Mutexes** (`mutex.c`). State: the holder, the wait queue, and the priorities of
holders, which they change. Operations: lock, trylock, timedlock, unlock. Hard:
hand-off to a thread that has not run yet, priorities that travel from thread to
thread. Correct when holders exclude each other, waiters are served in order,
and no thread waits for a holder of lower priority.

**Sleep queue and timed waits** (`os.c:228-253, 289-323`, `pqueue.h`). Two heaps
with relative deadlines, counted down by the tick. Hard: `os_task_sleep` ends its
critical section between the push and the pause; `os_update` changes priorities
inside the heap; a timed wait may time out and be signalled at once, and leaves its
deadline behind when it is signalled. Correct when nobody wakes early, nobody is
lost, every limit ends and an expired waiter leaves no trace.

**Barriers** (`barrier.c`). Two semaphore turnstiles and a count. Hard: threads
that re-enter while others leave. Correct when no thread passes before all have
come, round after round.

**Thread life cycle** (`thread.c`, `os.c:62-80, 135-199, 325-357`, `pool.h`).
Allocation from a pool, exit, kill, join through a semaphore in the thread.
Hard: the memory of a thread is freed while it runs on it; the error paths of
`os_task_create`. Correct when a joiner gets the code and no block is shared.

**Containers** (`queue.h`, `pqueue.h`, `pool.h`, `slist.h`). Ring, heap, free
list. Correct when they are what they say at every fill level.

**Context switch and stack frames** (`krnl_swtch.asm`, `data_model.h`,
`thread.c:5-51`): what the switch does to the scheduler (`run_ptr`, GIE, in `Kernel`) and
to the memory of a thread (the stack pointer it saves, in `Lifecycle`) is modelled,
the registers and the first stack frame are not: straight-line code without state.
The **demo application** (`main.c`) is a client and not modelled. It shows how the
API is used, and that is where the models' initial states come from: threads are
created in `main` and then the system is launched.

`PROJECT.json` lists the hazards of each part at their lines.

## Modules

| module | models | builds on |
|---|---|---|
| `Config` | `NUM_THREADS`, the size of every pool, queue and heap | |
| `Kernel` | scheduler, run queue, tick, critical sections | |
| `WaitQueue` | `queue_wait` as a sequence | `Config` |
| `Ring` | `queue_wait` as the array it is, with `queue_wait_back` | `Config` |
| `Semaphore` | `sem_init`, `sem_wait`, `sem_trywait`, `sem_post` | `Kernel`, `WaitQueue` |
| `Mutex` | `mtx_init`, `mtx_lock`, `mtx_unlock` | `Kernel`, `WaitQueue` |
| `AbstractSemaphore` | what a semaphore promises, without a scheduler | |
| `DeadlineQueue` | the heap of `pqueue.h` on its array | `Config` |
| `Sleep` | `thrd_sleep`, `os_task_sleep`, `os_update` (first loop) | `Kernel`, `DeadlineQueue` |
| `TimedWait` | `sem_timedwait`, `mtx_timedlock`, `os_task_timedwait`, `os_update` (second loop) | `Kernel`, `DeadlineQueue`, `Semaphore`, `Mutex` |
| `AbstractTimedSemaphore` | a semaphore whose waiters may give up | `AbstractSemaphore` |
| `Barrier` | `barrier_init`, `barrier_wait` | `AbstractSemaphore` |
| `AbstractBarrier` | what a barrier promises | |
| `Lifecycle` | `thrd_create`, `thrd_join`, `thrd_exit`, `os_task_exit`, `os_task_kill`, the pool and its free list | `Kernel`, `Ring`, `Semaphore` |
| `AbstractJoin` | what `thrd_join` promises | |
| `SemaphoreMC`, `MutexMC`, `SleepMC`, `BarrierMC`, `TimedWaitMC`, `LifecycleMC` | finite instances for TLC | |
| `DataProofs` | induction, loops, wait queues and heaps, for the proofs | `KernelProofs`, `WaitQueue`, `DeadlineQueue` |
| `KernelProofs`, `SemaphoreProofs`, `MutexProofs`, `BarrierProofs`, `SleepProofs`, `LifecycleProofs`, `TimedWaitProofs` | theorems | each on the module it is named for |

### Kernel

The static variables of `os.c` and the two interrupt bits are the fields of one
record, `os`. Every C function is an operator of the same name that takes such a
record and returns the one the function leaves behind, so a handler is the
composition of the calls it makes: `os_task_block` calls `os_task_pause`, which
calls `os_del_task`, which calls `os_del_task_mmang`, each with its own
`start_critical` and `end_critical`.

The core is lost only to the watchdog interrupt, which needs GIE. A call that is
one outermost critical section is therefore one action. The interrupt comes in
two ways: `TimerTick` when the interval ends, `YieldTick` when a thread has raised
the flag in software; a thread executes nothing (`CanRun`) while the flag is up
and GIE is set. The circular list is the sequence from `head.next` to `head.prev`;
`ElementNext` and `ElementPrev` are the pointers, the iterator is an element or
the head, and an unlinked element has NULL in both pointers.

`KInit` is the state `os_launch` resumes into: every creation order and every
priority up to `MaxPrio`. `KNext` is what the kernel offers: yield, block, unpause
of a blocked thread, tick; it is checked through `Semaphore`, whose calls make every one
of these steps (`ImplementsKernel`) and block and wake in every order. The thread states are ACTIVE and BLOCKING here;
SLEEPING appears in the type and in the test of `os_next` and is entered only in
`Sleep`. `os_update` changes nothing but the tick count while nobody sleeps, and the
count is left out.

### Semaphore and Mutex

A call is one critical section, except that a call which blocks returns in a later
action (`SemWaitReturn`, `LockReturn`) once its thread has the core again;
`waiting[t]` says which call thread `t` is inside of. This is a ghost for the
program counter, as is `held` in `Mutex`, the threads whose lock has returned 0.
`base_prio` of the code's thread is a variable of `Mutex` and of `TimedWait`, which
alone use it.

`MSpec` is the discipline under which priority inheritance is right: a thread
locks only while it holds no mutex (`LockFirst`).

### Sleep

`os_task_sleep` marks the thread in one critical section and takes it off the run
queue in another, with the core still its own in between, so it is two actions, `FallAsleep` and `Pause`, with `pausing[t]` as the program counter
between them. `SleepTick` is the whole interrupt: `os_update`, then `os_schedule`.
The interrupt does not know whether the timer or a thread raised it, and
`os_update` counts both; a sleep's own yield is thus the first tick of the sleep.
That is the unit of time here, as it is of `os_time()`.

`DeadlineQueue` keeps the heap as the array it is, because the order in which
deadlines leave depends on it: `os_update` changes the priority of the root only and
lets at most half of the heap go in one tick. A function on the places of the heap
says which items a push moves down and which a pop moves up. `int` and `size_t`
are 16 bits wide and mixed in the comparison of a push and in the shift of a
deadline; `Signed` and `Unsigned` are the conversions and `WordSize` the width.

`LSpec` is the discipline under which the iterator of the scheduler survives: a thread
that sleeps has slices of one tick. `AnySpec` lets every thread sleep. The threads that do
not sleep have any priority in both.

Two variables are ghosts: `owed[t]` counts down what thread `t` asked for,
`alone[t]` says that nobody else has slept since `t` fell asleep.

### TimedWait

`sem_timedwait` and `mtx_timedlock` give up the core between two critical sections, so
a call that blocks is two actions: the first pushes the thread onto the wait queue and
its deadline onto `t_waitqueue` and takes it off the run queue; the second, when it has
the core again, finds out why. The first section is composed of the operators of
`Semaphore`, `Mutex` and `DeadlineQueue`, the second of `sem_post`. `Patient` are the
threads that call `sem_wait` and `mtx_lock` instead, the actions of those modules; the
others always wait with a limit. `Update` is the tick: the second loop of `os_update`, then
`os_schedule` (nobody is in `sleep_queue`, so that the first loop does nothing). A tick
may come at any moment, which makes a voluntary yield nothing new, and there is none.

A wait that is signalled leaves its deadline in the heap, and `NextDeadline` shifts it,
too: the stale deadlines are the interesting part of the state.

A time-out of `mtx_timedlock` calls `mtx_unlock` without holding the mutex, and that ends
in `os_panic` (`MtxTimedlockTimeout`). The thread idles for good (`Panic`) with the nesting
counter raised by three, but the idling sets GIE: ticks and the other threads go on, and
no `end_critical` of theirs reaches zero any more. A call that takes its thread off the run queue
then goes on without giving up the core until the next tick.

`TSpec` is the discipline under which the timed waits do what they say: a semaphore has
one consumer at a time (`NobodyWaits`), and `mtx_timedlock` comes back only with the mutex,
be it in the last tick of the limit or later (`MtxTimedlockTimeout` is not a step of it). The first is up to the
clients. The second is not, it is the part of `mtx_timedlock` that works. `CrowdedSpec` drops the
first, `TimeoutSpec` the second. `AbstractTimedSemaphore` adds to the abstract semaphore a waiter that gives up; a mutex
is again a semaphore of one token, whose waiters never do.

### Barrier

The code is three semaphores and a count, and what it needs of a semaphore is what
`AbstractSemaphore` promises and `SemaphoreRefinement` proves of `semaphore.c`. So
`Barrier` is built on the abstract one, each call of `barrier.c` an action, with no
scheduler: its interleavings are all that the kernel allows, and more, and which threads get turns is a hypothesis. `at[t]` is
the phase and the next call of `t`, `posts[t]` the loop counter. `released`
is the ghost of the refinement: the last thread of phase 1 lets a round go, and
`place` maps the state to that of `AbstractBarrier`. As many threads use the barrier
as it was initialised for.

### Lifecycle

A thread is the block of the pool it lives in, and `Threads` is the pool. A block is a
union: its first word, `word0`, is the link of the free list while it is free and the
saved stack pointer while it is a thread. `LCTick` is the interrupt with `save`, which
writes that word for whatever thread is running, a killed one included: between
`os_task_kill` and the end of its slice a thread spins on a block that is free already.

`Create` is `thrd_create` with everything it calls, `Join` and `JoinReturn` the two sides of
the block in `thrd_join`, `Exit` and `Kill` the two critical sections of `thrd_exit`, with
other threads in between. `phase` is the program counter of that. The join semaphore is
`sem_wait` and `sem_post` of `Semaphore` over `Ring`: `View` is the sequence the ring stands
for, and the ring moves as the sequence does. The array matters because `os_task_exit`
writes the return code where `queue_wait_back` points: one slot behind the newest waiter.
A code is named by the thread that returns it.

`AbstractJoin` knows phases, waiters and who may return: whoever joins a running thread is let go
when that exits. `ImplementsAbstractJoin` maps the rings and the thread states to it.
`LCNext` lets a thread be joined until it is killed, as the code does. A join after
`os_task_exit` has emptied the queue waits for ever, against thread.h:48, "Waits on a thread
to return"; `TimelyNext` is the discipline that nobody does that.

## Runs

| run | checks | result |
|---|---|---|
| `semaphore` | types, run queue, iterator, running thread, turn order, round robin without wake-ups; value against queue, no lost wake-up, refinement of `AbstractSemaphore` and of `KSpec`, woken waiters return | holds |
| `mutex` | mutual exclusion, queues, priorities inherited, given back and with slices of the right length, refinement of `AbstractSemaphore`, lockers return | holds |
| `sleep` | types, heap against thread states, run queue under ticks inside `thrd_sleep`, a lone sleeper is punctual, deadlines pass | holds |
| `barrier` | counts of overlapping rounds, no post left over, refinement of `AbstractBarrier`, waiters return if all get turns and keep coming | holds |
| `timedwait` | types, mutual exclusion when the ends of limits meet hand-offs, nobody's deadline lost, nobody left behind in a queue, refinement of `AbstractTimedSemaphore`, limits end | holds |
| `lifecycle` | types, run queue against the living, no block with two owners, return codes reach nobody, refinement of `AbstractJoin` if only running threads are joined | holds |
| `iterator` | `IteratorValid` when any thread sleeps (os.c:102) | violated |
| `early` | `NeverEarly` (thread.h:31) | violated |
| `lost` | `WokenIsRunnable` (thread.h:31) | violated |
| `phantom` | `NoPhantomWaiter` with two consumers (semaphore.c:92-93) | violated |
| `timeout` | `MutualExclusion` when `mtx_timedlock` times out (mutex.h:33, mutex.c:114) | violated |
| `pool` | `AllocReturnsABlock` (pool.h:83) | violated |

**Bounds.** Three threads: two that contend and one that overtakes, is skipped or
starves; the queue then has a front, a middle and an end, and every length from
0 to 3. Slices of 1 and 2 ticks (`MaxPrio = 2`) tell a slice that ends from one that
goes on; priorities up to 3 in `mutex` allow a chain of two boosts. Two
semaphores or mutexes let a thread leave one queue while others wait in another.
`NUM_THREADS = 3` equals the number of threads, so the wait queue is full when all
block. `MaxVal = 1` lets a post find waiters, nobody, and a positive value; it
is the only bound in a guard (`SemPost`).

In `sleep`, sleeps of one and two ticks overlap in every way; shifted deadlines go
negative and, with words of 3 bits (`WordSize = 8`), wrap, which with 16 bits would
take thousands of ticks. `MaxPrio = 2` adds threads with longer slices, which in `sleep`
only compute and in `iterator` sleep, too. The heap has a place for every thread: it holds one item
less than `NUM_THREADS`, 4 here. `early` and `lost` use the real 16 and 2^16. In `barrier`,
four threads are enough for two to be a round ahead of two, one of them
inside either phase; there is no bound on the rounds.

In `timedwait`, two threads with limits and a patient one meet on a semaphore and a mutex,
so that a time-out can cross a post by the third, and deadlines of two threads and of
earlier waits share the heap (up to four at once; it has 15 places). Limits are one or
two ticks. Words of 6 values hold them, and the shifted stale deadlines wrap.
Without `MaxTicks` in the guard the calls would have no finite set of
limits; `MaxVal` bounds posts as in `semaphore`. Every run checks for deadlock. In `lifecycle`, a pool of three blocks of which one to three
are taken at the start: it can be exhausted, two threads can join a third, and blocks
are used again without bound. `NUM_THREADS` is the size of the pool.

**Fairness.** Of the hardware: the watchdog timer never stops (`SF` of `TimerTick`;
strong, because the flag of a yield hides the timer's own interrupt for a moment)
and a pending interrupt is taken (`WF` of `YieldTick`). Of the threads: one that has
returned from blocking and is given the core again and again executes the return
of the call it is in (`SF` of `SemWaitReturn`, `LockReturn`); a slice is 2 ms and a
switch takes about 100 us (README.md:47-48). No thread is assumed to make a call,
to post or to unlock: where a property needs that, it says so (`WakeupsStop`,
`HoldersRelease`, `RoundRobin` as hypotheses).

`sleep` and `timedwait` need only the hardware's part, `WF` of `SleepTick` and of `TTick`. `barrier`
has no scheduler and assumes none: `WaitersReturn` has as hypotheses that every thread inside
`barrier_wait` that can go on does in the end (`EveryoneGetsTurns`) and that all keep coming
(`EveryoneComes`). The scheduler does not justify the first whatever the rest of the program does,
because round robin itself (`RoundRobin`) does not hold: with the queue
[C, A] and A running, A wakes B, which is appended, and blocks, so that the iterator steps
back to C and B is next; B wakes A and blocks, and A is next. C never runs. What the
scheduler gives is `RoundRobinWithoutWakeups`.

**What the violations show.**
*Iterator*: a thread with a slice of two ticks falls asleep, and the very tick that takes
the core from it ends its sleep. `os_update` links it and marks it ACTIVE, so that
`os_next` finds a running thread with half a slice left and lets it go on; but the
iterator was moved back when the thread was unlinked and stands on another one. When
the thread sleeps again, `os_del_task_mmang` moves the iterator back once more, onto
the thread it is about to unlink, and the next tick follows the pointers of an unlinked
element. A thread with slices of one tick is always passed over in that tick.
*Early*: when a deadline passes, `os_update` subtracts its length from the next one,
as if both sleeps had begun in the same tick. A sleep that began later is cut short.
*Lost*: a tick between the two critical sections of `os_task_sleep` ends the sleep
of a thread that is still linked; it is not linked again, and its pause then takes
it off the queue for good.
*Phantom*: t3 waits, then t2 waits with a limit on the same semaphore. The limit ends, and t2
undoes its wait with a post, which wakes t3: it returns 0 without a token, while t2
returns -1 and is still in the queue. The next post goes to t2, whatever it does then.
*Timeout*: t1 holds the mutex, and the `mtx_timedlock` of t2 times out. It panics where it should return
-1 (mutex.c:116). After the next tick t3 calls `mtx_lock`, queues up and is taken off the run queue, but as
the nesting counter stays above zero no interrupt can take the core where it would block, and
the call returns 0. t1 and t3 both have the mutex.
*Pool*: a thread exits and is killed; its block is the head of the free list and its
first word the link. The next tick saves its stack pointer over the link. One creation
later the stack pointer is the head: the next one would build a thread in the middle of
the first one's stack.

## Proofs

All for any finite set of threads, any priorities, any number of semaphores and
mutexes, any word width, and any capacity that is at least the number of threads
(`NUM_THREADS`, which is also the size of the pool threads come from). The assumptions
are the named ones of `Kernel`, `Semaphore`, `Mutex`, `Barrier`, `Sleep`, `Lifecycle` and `TimedWait` (the pool has
`NUM_THREADS` blocks, each once, and neither a stack pointer nor the index of a ring is the address of
a block), which TLC evaluates in the runs. Three theorems about the heaps have a
hypothesis of their own (`Roomy` and `RoomForDeadlines`, below).

`KernelProofs`. `RunQueueHoldsTheActive` alone is not inductive: that removing the
running thread keeps the counter right needs that it is linked, hence ACTIVE, and
that a thread which has blocked itself does not run again needs that the pending
flag stays up until the tick. `KInv` is the conjunction of types, queue, iterator and
core (`KernelInv`) with "outside critical sections GIE is set and the nesting is 0".
The proof has a lemma per layer: what linking and unlinking do to a sequence
without repetitions, what NextCircular and PrevCircular return, what each kernel
function does to a record that satisfies `KernelInv`; what a boot, a wake and a tick leave
(`BootEffect`, `Woke`, `TickEffect`); then one step per action. The same lemmas give `TurnOrder`, the theorem that no change of the queue skips a thread
or repeats one.

`SemaphoreProofs`. `SInv` adds to `KInv` that a value below zero is minus the length of
the queue, and that a thread is BLOCKING exactly while it is in one queue, that of
the semaphore it waits for. The latter is what makes the post's wake-up legal for the
kernel (`SemaphoreImplementsKernel`) and what makes the chosen threads of the abstract
semaphore free of every queue (`SemaphoreRefinement`: initial states map to initial
states, each action to the abstract action of its outcome or to a stutter).

`MutexProofs`. The priorities are fields of the kernel's record that `mutex.c` writes in
the middle of a critical section, so the first part shows that `KernelInv` does not
care which positive numbers they are, and the second what lock and unlock leave of the
kernel and of the mutex. `MInv` joins all invariants of the run, because they need each
other: `Inherited` and `GivenBack` survive an unlock only if the holder has no other
mutex whose waiters it owes its priority to (`OneMutexEach`, which follows from the
discipline `LockFirst`), `FullSlices` needs that a boosted holder is off the core, hence
that the locker is the one that runs, and both need that a holder is never itself queued
(`BlockedMeansQueued`), so that a chain of boosts has one link. From `MInv` alone follows
`MutexDeadlockFree`: as a holder is never queued, some thread is always runnable.
`MutexRefinement` maps each call to the abstract semaphore.

`BarrierProofs`. `CountsThreads` and `NoPostLeftOver` say that rounds do not mix, and why
they do not is the shape of a round: either threads arrive and the first turnstile is
closed, or they depart and the second one is. On the turnstile that is open, the posts
made (tokens and chosen threads) and those that its opener has still to make are as
many as the threads before it. `BInv` says that, who owns the mutex, and that the count
is right. The cardinalities change by one thread at a time (`Move`). The step that
closes one half and opens the other is the count of the last thread (`JustOpened`).
`BarrierRefinement` uses that when the last thread is counted all others are waiting.
The types of the barrier's state are proved only (`BarrierTypes`), not checked in a run.

`DataProofs`. What several of the others need. The library's induction has an operator as a parameter,
which the provers cannot instantiate. From the well-foundedness of the natural numbers follows that
a nonempty set of them has a least element, and from that induction over a set, and that
a recursive function which is a loop exists and keeps its invariant. Data structures
whose loops are written as functions can thus be reasoned about. A wait queue without
repetitions and without thread t has room for t. For the heap, `PushEffect` and `PopEffect` say
that a push on a heap with room adds one item and a pop takes out the first one,
whatever the order of the rest and whatever the words hold; `MovesUp` and `MovesDown` are paths
in a tree, and every place on them has one successor.

`SleepProofs`. `LInv` is what a tick anywhere leaves intact: the run queue, the iterator,
and that the thread which has the core is either where the iterator is or off the
queue with a slice of one tick and the flag up (`RunnerOK`). The attempt to prove
`RunQueueIntact` without that last condition failed, and the failure is the run
`iterator`. `SleepKeepsRunQueue` has the condition as a hypothesis about behaviours in which every thread
may sleep (`AnySpec`): whoever falls asleep has slices of one tick (`ShortSleepers`). The threads of
`main.c` that sleep at priority 2 (main.c:84, 98) do not meet it. The other theorems are about `LSpec`,
which has it in its steps. The loop of `os_update` is an induction over its turns: what has left the
heap has been linked, once each. That a heap has nobody twice is
shown by counting: it has as many threads as items. `SleepersHeld` and `SleepsPunctually`
suppose `Roomy`, fewer threads than `NUM_THREADS`, since the heap holds one item less
than its size and `os_task_sleep` ignores a push that is refused (pqueue.h:58, os.c:299).
`PInv` adds that a thread which sleeps alone has in its deadline what it is owed.

`LifecycleProofs`. `PoolIntact` speaks of the walk along the free list and is not inductive: a tick
may cut the list short, and what an allocation leaves depends on blocks the walk does not reach.
`LinksOK` does without the walk: every link, the head included, leads to a free block, no two
of them to the same one, and the first word of a living thread is its stack pointer. From it
follows `PoolIntact`, by induction along the walk: a list in which every block has one
predecessor and the head has none does not come back to itself. The ring is tied
to its `View` by what a push and a pop leave of it for any `NUM_THREADS`. `RingOK` says that a ring holds blocked
joiners, each once, and that in a thread which has not exited it still begins at the
first slot, with NULL behind the newest waiter; the slot `queue_wait_back` reads is
therefore NULL or one of the small numbers beside the array, and no return code reaches a thread (`NobodyGetsMail`). The
loop of `os_task_exit` is an induction over its turns: it wakes the threads in the ring, each
once, and nobody else (`ExitEffect`). `RunnerOK` is the one condition about the core: a killed
thread keeps it to the end of its slice, with the iterator elsewhere.
`JoinRefinement` maps each action of `TimelySpec` to one of `AbstractJoin` or to a stutter; the invariant
and the other theorems hold of `LCSpec`, late joins included.

`TimedWaitProofs`. `KernelInv` is not kept here: a thread whose limit has ended is on the run queue
and still marked SLEEPING, until its call finds out. `TInv` therefore has its own account of the
kernel (`RunQueueKept`). It says that a BLOCKING thread is never linked, so that a patient
thread which runs again was chosen. That critical sections are closed outside of calls (`Preemptible`) is
part of it, and is what a panic would break: `timeout` is the counterexample without `TSpec`'s second
condition.
`WaitersKept` ties the state of a thread, the queues and the program counter to each other:
a queued thread is inside a wait for just that resource and its state is the one its
kind of wait sets. With one consumer at a time a semaphore has at most one waiter and never less
than -1 (`SemaphoresKept`), so that the post of a time-out can only take out the thread that
does it. The rest is about mutexes (`MutexesKept`): who is inside a wait for one is queued or
holds it already. From `TInv` follow `MutualExclusion` and `NoPhantomWaiter`.

Every call does one of six things (`Did`): the thread joins a queue, passes the resource to the
longest waiter, takes it, puts it back, leaves the wait in which it was chosen, or gives up. Each call is shown to do one of them, once. The invariant, the deadlines and
the refinement (`TimedWaitRefinement`, each of the six an action of
`AbstractTimedSemaphore` or a stutter) are then shown from these alone. The loop of `os_update` is an induction over its
turns, with `TurnOK`: who had a deadline has one or is on the run queue, and nothing has joined the
queue but threads that had one. How many stale deadlines the heap has,
and of whom, makes no difference to it.

`DeadlinesKept` states `DeadlineKept` under `[]RoomForDeadlines`, that the heap always has a free
place. The number of threads does not give that: a thread has as many stale
deadlines as waits in which it was signalled in time, and a heap that is full of them refuses the next
one (below). The heap of the run `timedwait` never holds more than four of its fifteen.

Model-checked only: liveness (beyond the prover's reach, as is ENABLED), that is
`RoundRobinWithoutWakeups`, `WokenWaiterReturns`, `LockersReturn`, `WaitersReturn`, `DeadlinesPass` and
`TimeLimitsEnd`; that the heap is ordered, of which the runs show only what follows for the deadlines.
No module uses RECURSIVE.

## Not modelled, and limits of the models

* `sem_destroy`, `mtx_destroy` and `barrier_destroy` clear the wait queue, and
  `queue_wait_clear` calls `queue_##name_##init` (queue.h:82), which is `queue_name_init`
  for every queue and defined nowhere: they do not link.
* `mtx_trylock`: its condition (mutex.c:135) is the opposite of its comment, so that it
  steals a mutex that is held and fails on a free one.
* Nested mutexes: `mtx_unlock` restores `base_prio` (mutex.c:164-167) while the thread may
  hold another mutex for whose sake it was boosted. `LockFirst` keeps to one at a time.
* A second lock by the holder, 32767 posts without a wait, and sleeps or limits of
  32768 ticks or more, which are stored as negative priorities and end at once.
* A limit of 0: `os_task_timedwait` only yields, and the thread goes on as if it had the
  resource (`sem_timedwait` returns 0 without a token; `mtx_timedlock` panics).
* What the rest of the system does after a panic. `Timeout.cfg` follows it as far as the first
  two threads that have one mutex.
* Threads that wait with a limit at one time and sleep or wait without one at another: a
  deadline that a signalled wait left behind makes them runnable in the middle of the
  other call. `Patient` separates the two kinds. A stale deadline that ends a later timed
  wait of the same thread early is modelled, and is a time-out like another.
* A heap of deadlines that is full of stale ones. `os_task_timedwait` ignores that the push was
  refused (os.c:314), and the wait has no limit. With `NUM_THREADS = 3`, a heap of two places, and limits of
  up to four ticks TLC finds `DeadlineKept` violated: t1 waits for the semaphore, is posted at
  once and waits for the mutex, and the heap is full when t2 calls `sem_timedwait`. With 15 places it
  takes more waits: behind the deadline of a thread that is still asleep, which stays at the root,
  those of another that is signalled again and again pile up.
* A `thrd_create` that fails returns with the nesting counter one too high
  (os.c:156, 162, 166), after which no critical section enables interrupts again.
* The return code of a join: `queue_wait_back` never points to the waiter (os.c:336), so
  that the joiner reads an `mbox` nobody has written. `NoMailAtAll` says so, against the comment
  there: the code goes to no thread, neither the joiner nor a stranger, but to NULL or a small number
  taken for an address; what that write does to the machine is left out.
* Handles of threads that were killed. A join that comes between `os_task_exit` and
  `os_task_kill` is a step of `LCSpec`; it waits for ever, against thread.h:48. No run shows the
  hang, and `lifecycle` excludes it (`TimelyNext`).
* The sixteenth sleeper: `pqueue_push` refuses it, `os_task_sleep` does not look at the
  result, and nothing wakes it. The instances give every thread a place, and the theorems
  about the heap suppose it.
* A thread that sleeps one tick again and again is popped in every tick, and with
  two sleepers the loop of `os_update` may pop only one: the other one's deadline is
  not counted down. `DeadlinesPass` therefore supposes that new sleeps cease.

## Plan

All modules of the table are written, and every safety invariant, action property and refinement that a
passing run checks is a theorem, with the hypotheses named above. Worth adding: a model of
limits of 0 and of threads that mix timed waits, sleeps and plain waits, with the disagreements
listed above as runs, and the order of the heap as an invariant for priorities that do not wrap.
