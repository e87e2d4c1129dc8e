------------------------------ MODULE Lifecycle ------------------------------
(***************************************************************************)
(* Threads that are created, joined, that exit and are killed while the    *)
(* system runs (thread.c, os.c), and the pool their memory comes from      *)
(* (pool.h, slist.h).                                                      *)
(*                                                                         *)
(* A thread is the block of the pool it lives in, so that Threads is the   *)
(* pool.  The first word of a block is a union: in a free block it is the  *)
(* link to the next one of the free list, in a thread the stack pointer    *)
(* that the tick saves (krnl_swtch.asm).  One stack pointer is as good as  *)
(* another here; none is the address of a block.                           *)
(***************************************************************************)
EXTENDS Kernel, Ring

CONSTANT Pool        \* the free list that os_mem_init leaves

SP == "sp"

\* Each block is in the pool once; the indices of a ring and the stack pointer are
\* no addresses of blocks.
ASSUME LifecycleAssumption ==
  /\ Pool \in Seq(Threads)
  /\ NUM_THREADS = Len(Pool)
  /\ \A t \in Threads : \E i \in 1..Len(Pool) : Pool[i] = t
  /\ \A i, j \in 1..Len(Pool) : Pool[i] = Pool[j] => i = j
  /\ SP \notin Threads
  /\ \A i \in 0..NUM_THREADS : i \notin Threads

VARIABLES free_list,   \* task_mem.free_list.head.next
          word0,       \* the first word of each block
          join_sem,    \* [val, wq] of each block, wq a ring
          mbox,        \* of each block; a return code is named by who returned it
          phase,       \* of each block: "free", "running" or, after os_task_exit, "ending"
          joining      \* the thread whose join_sem a thread waits for in thrd_join

lvars == <<os, free_list, word0, join_sem, mbox, phase, joining>>

S == INSTANCE Semaphore
       WITH sem <- join_sem, waiting <- joining, Semaphores <- Threads, MaxVal <- 0

-----------------------------------------------------------------------------
(* The pool.  f is the pair of free_list and word0.                        *)

\* Mutant of slist_remove_head: the head stays where it is.
slist_remove_head_keeping(f) == f

\* The head of the list is a block; the link to the next one is read from it.
slist_remove_head(f) == [f EXCEPT !.head = f.word0[f.head]]

\* The link is written to the block.
slist_prepend(f, b) == [head |-> b, word0 |-> [f.word0 EXCEPT ![b] = f.head]]

\* What talloc returns and what it leaves.
talloc(f) == [process |-> f.head, left |-> slist_remove_head(f)]

tfree(f, process) == slist_prepend(f, process)

-----------------------------------------------------------------------------
(* The semaphore of a thread: semaphore.c with the ring for its queue.     *)

sem_init(j) == [val |-> 0, wq |-> queue_wait_init(j.wq, NULL)]

View(j) == [val |-> j.val, wq |-> Items(j.wq)]

join_wait(k, j, t) ==
  LET r == S!sem_wait(k, View(j), t)
  IN  [k |-> r.k,
       j |-> [val |-> r.s.val,
              wq |-> IF r.s.wq = Items(j.wq) THEN j.wq ELSE ring_push(j.wq, t)]]

join_post(k, j) ==
  LET r == S!sem_post(k, View(j))
  IN  [k |-> r.k,
       j |-> [val |-> r.s.val,
              wq |-> IF r.s.wq = Items(j.wq) THEN j.wq ELSE ring_pop(j.wq)]]

-----------------------------------------------------------------------------
(* The calls.                                                              *)

\* When talloc has returned the block b.
os_task_create(k, b) == end_critical(os_add_task(start_critical(k), b))

\* Mutant of thrd_init: a new thread has no slice.
thrd_init_sliceless(k, b, priority) ==
  [k EXCEPT !.fixed_prio[b] = priority, !.state[b] = "ACTIVE"]

thrd_init(k, b, priority) ==
  [k EXCEPT !.fixed_prio[b] = priority,
            !.working_prio[b] = priority,
            !.state[b] = "ACTIVE"]

thrd_create(k, b, priority) ==
  end_critical(thrd_init(os_task_create(start_critical(k), b), b, priority))

\* One turn of the loop of os_task_exit: the code is written to the thread that
\* queue_wait_back returns (or to what the number it returns happens to be the
\* address of), and the thread at the front is woken.
WakeOne(x, u) ==
  LET addressee == queue_wait_back(x.j.wq)
      r == join_post(x.k, x.j)
  IN  [k |-> r.k, j |-> r.j,
       mbox |-> IF addressee \in Threads
                THEN [x.mbox EXCEPT ![addressee] = u] ELSE x.mbox]

\* Mutant of os_task_exit: only one of the waiting threads is woken.
os_task_exit_one(k, j, m, u) ==
  LET x == [k |-> start_critical(k), j |-> j, mbox |-> m]
      y == IF j.wq.count = 0 THEN x ELSE WakeOne(x, u)
  IN  [y EXCEPT !.k = end_critical(@)]

os_task_exit(k, j, m, u) ==
  LET turn[n \in 0..j.wq.count] ==
        IF n = 0 THEN [k |-> start_critical(k), j |-> j, mbox |-> m]
        ELSE CHOOSE y \in {WakeOne(x, u) : x \in {turn[n - 1]}} : TRUE
      last == turn[j.wq.count]
  IN  [last EXCEPT !.k = end_critical(@)]

\* Mutant of os_task_kill: the thread stays in the run queue.
os_task_kill_linked(k, u) ==
  end_critical(os_task_yield(start_critical(k)))

\* The thread part of os_task_kill; its state stays ACTIVE.
os_task_kill(k, u) ==
  end_critical(os_task_yield(os_del_task(start_critical(k), u)))

-----------------------------------------------------------------------------
Rest(i) == IF i > Len(Pool) THEN NULL ELSE Pool[i]

Place(t) == CHOOSE i \in 1..Len(Pool) : Pool[i] = t

\* main has created the first n blocks.
LCInit ==
  \E n \in 1..Len(Pool), p \in [Threads -> 1..MaxPrio] :
    LET Taken(t) == Place(t) <= n
    IN  /\ os = os_first_task(created(SubSeq(Pool, 1, n),
                                      [t \in Threads |-> IF Taken(t) THEN p[t] ELSE 0]))
        /\ free_list = Rest(n + 1)
        /\ word0 = [t \in Threads |-> IF Taken(t) THEN SP ELSE Rest(Place(t) + 1)]
        /\ join_sem = [t \in Threads |-> [val |-> 0, wq |-> AllZero(NULL)]]
        /\ mbox = [t \in Threads |-> NULL]
        /\ phase = [t \in Threads |-> IF Taken(t) THEN "running" ELSE "free"]
        /\ joining = [t \in Threads |-> NULL]

InUserCode(t) == CanRun(t) /\ phase[t] = "running" /\ joining[t] = NULL

FreeList == [head |-> free_list, word0 |-> word0]

\* thrd_create by t.  The pool is not empty (a failed call leaves the interrupts
\* off), and its head is a block (the model ends where it is not).
Create(t, priority) ==
  LET a == talloc(FreeList)
      b == a.process
  IN  /\ InUserCode(t)
      /\ free_list \in Threads
      /\ os' = thrd_create(os, b, priority)
      /\ free_list' = a.left.head
      /\ word0' = [a.left.word0 EXCEPT ![b] = SP]
      /\ join_sem' = [join_sem EXCEPT ![b] = sem_init(@)]
      /\ phase' = [phase EXCEPT ![b] = "running"]
      /\ UNCHANGED <<mbox, joining>>

\* thrd_join up to the block in sem_wait.  Whoever joins a thread that has exited
\* already, but still lives, blocks as well, and nobody will post for it.
Join(t, u) ==
  LET r == join_wait(os, join_sem[u], t)
  IN  /\ InUserCode(t)
      /\ t # u
      /\ phase[u] # "free"
      /\ os' = r.k
      /\ join_sem' = [join_sem EXCEPT ![u] = r.j]
      /\ joining' = [joining EXCEPT ![t] = u]
      /\ UNCHANGED <<free_list, word0, mbox, phase>>

JoinReturn(t) ==
  /\ CanRun(t)
  /\ joining[t] # NULL
  /\ joining' = [joining EXCEPT ![t] = NULL]
  /\ UNCHANGED <<os, free_list, word0, join_sem, mbox, phase>>

\* The thread's routine has returned: the first half of thrd_exit.
Exit(t) ==
  /\ InUserCode(t)
  /\ \E r \in {os_task_exit(os, join_sem[t], mbox, t)} :
       /\ os' = r.k
       /\ join_sem' = [join_sem EXCEPT ![t] = r.j]
       /\ mbox' = r.mbox
  /\ phase' = [phase EXCEPT ![t] = "ending"]
  /\ UNCHANGED <<free_list, word0, joining>>

\* The second half.  The thread is on the core until its slice is over.
Kill(t) ==
  LET f == tfree(FreeList, t)
  IN  /\ CanRun(t)
      /\ phase[t] = "ending"
      /\ os' = os_task_kill(os, t)
      /\ free_list' = f.head
      /\ word0' = f.word0
      /\ phase' = [phase EXCEPT ![t] = "free"]
      /\ UNCHANGED <<join_sem, mbox, joining>>

\* The stack pointer of the running thread, the idle one excepted, goes to the
\* first word of a block.
save == [t \in Threads |-> IF t = os.run_ptr THEN SP ELSE word0[t]]

LCTick ==
  /\ Tick
  /\ word0' = save
  /\ UNCHANGED <<free_list, join_sem, mbox, phase, joining>>

Common ==
  \/ LCTick
  \/ \E t \in Threads : JoinReturn(t) \/ Exit(t) \/ Kill(t)
  \/ \E t \in Threads, priority \in 1..MaxPrio : Create(t, priority)

\* Whatever has not been killed may be joined.
LCNext == Common \/ \E t, u \in Threads : Join(t, u)

\* The discipline under which thrd_join does what it says: nobody joins a thread
\* between its os_task_exit and its os_task_kill.
TimelyNext ==
  Common \/ \E t, u \in Threads : phase[u] = "running" /\ Join(t, u)

LCSpec == LCInit /\ [][LCNext]_lvars
TimelySpec == LCInit /\ [][TimelyNext]_lvars

-----------------------------------------------------------------------------
(* Properties.                                                             *)

Alive(t) == phase[t] # "free"

Rings ==
  [storage : [0..(NUM_THREADS - 1) -> Threads \cup {NULL}],
   read    : 0..(NUM_THREADS - 1),
   write   : 0..(NUM_THREADS - 1),
   count   : 0..NUM_THREADS]

\* Types of the kernel, the pool, the rings and the priorities, which are 0 only in
\* blocks that were never used.
LCTypeOK ==
  /\ os \in Kernels
  /\ \A t \in Threads : Alive(t) => os.working_prio[t] \in 1..os.fixed_prio[t]
  /\ free_list \in Threads \cup {SP, NULL}
  /\ word0 \in [Threads -> Threads \cup {SP, NULL}]
  /\ mbox \in [Threads -> Threads \cup {NULL}]
  /\ phase \in [Threads -> {"free", "running", "ending"}]
  /\ joining \in [Threads -> Threads \cup {NULL}]
  /\ join_sem \in [Threads -> [val : Int, wq : Rings]]
  /\ \A t \in Threads :
       /\ join_sem[t].val = -join_sem[t].wq.count
       /\ \A i \in 1..join_sem[t].wq.count : Items(join_sem[t].wq)[i] \in Threads

\* The run queue holds exactly the living threads that can run, each once, and
\* the scheduler's iterator never stands on a dead one, although the block of a
\* killed thread is free while the core is still in it (os.c:187-199).
RunQueueHoldsTheLiving ==
  /\ \A t \in Threads :
       Linked(os.run_queue, t) <=> Alive(t) /\ os.state[t] = "ACTIVE"
  /\ os.task_active_cnt = Len(os.run_queue)
  /\ os.run_queue # <<>> => Linked(os.run_queue, os.it)
  /\ \A i, j \in 1..Len(os.run_queue) :
       os.run_queue[i] = os.run_queue[j] => i = j

\* The blocks that a walk from the head of the free list comes to.
Walk ==
  LET at[n \in 0..Cardinality(Threads)] ==
        IF n = 0 THEN free_list
        ELSE IF at[n - 1] \in Threads THEN word0[at[n - 1]] ELSE at[n - 1]
  IN  at

\* No block belongs to two threads: as far as the free list leads to blocks it
\* meets no living thread and comes to an end, although a killed thread's stack
\* pointer cuts it short, and in a living thread the first word is no link
\* (pool.h:37-51; os.c:62-80, 187-199).
PoolIntact ==
  /\ \A n \in DOMAIN Walk : Walk[n] \in Threads => ~Alive(Walk[n])
  /\ Walk[Cardinality(Threads)] \notin Threads
  /\ \A t \in Threads : Alive(t) => word0[t] = SP

\* Every link of the pool leads to a free block, and no two links, the head of the
\* free list among them, to the same one.
LinksOK ==
  /\ free_list \in Threads => ~Alive(free_list)
  /\ \A t \in Threads : Alive(t) => word0[t] = SP
  /\ \A t \in Threads :
       word0[t] \in Threads => ~Alive(word0[t]) /\ word0[t] # free_list
  /\ \A t, u \in Threads : word0[t] \in Threads /\ word0[t] = word0[u] => t = u

\* A thread that was killed keeps the core until its slice is over, with the
\* iterator somewhere on the queue; one that has blocked leaves it at once.
RunnerOK ==
  os.run_ptr \in Threads =>
    /\ os.working_prio[os.run_ptr] \in 1..os.fixed_prio[os.run_ptr]
    /\ IF Linked(os.run_queue, os.run_ptr) THEN os.it = os.run_ptr
       ELSE os.state[os.run_ptr] = "BLOCKING" => os.wdtifg

IdleOK ==
  os.state[Idle] = "ACTIVE" /\ os.fixed_prio[Idle] = 1 /\ os.working_prio[Idle] = 1

\* Only a thread inside thrd_join is blocked, and nobody joins himself.
JoinersOK ==
  \A t \in Threads :
    /\ os.state[t] \in {"ACTIVE", "BLOCKING"}
    /\ os.state[t] = "BLOCKING" => joining[t] # NULL
    /\ joining[t] # NULL => phase[t] = "running" /\ joining[t] # t

\* The ring of t holds threads that have joined t and are blocked, each once.  In a
\* thread that has not exited it starts at the first slot, with nothing behind the
\* newest item.
RingOK(t, q) ==
  /\ q.write = (q.read + q.count) % NUM_THREADS
  /\ \A i, j \in 1..q.count : Items(q)[i] = Items(q)[j] => i = j
  /\ \A i \in 1..q.count :
       joining[Items(q)[i]] = t /\ os.state[Items(q)[i]] = "BLOCKING"
  /\ phase[t] = "running" =>
       /\ q.read = 0 /\ q.write = q.count
       /\ \A i \in (q.write + 1)..(NUM_THREADS - 1) : q.storage[i] = NULL

RingsOK == \A t \in Threads : RingOK(t, join_sem[t].wq)

\* The inductive invariant of the life cycle.
LCInv ==
  /\ LCTypeOK
  /\ Preemptible(os)
  /\ RunQueueHoldsTheLiving
  /\ LinksOK
  /\ RunnerOK
  /\ IdleOK
  /\ JoinersOK
  /\ RingsOK

\* The return code of a thread is written to no thread at all: not to the one that
\* is woken, whatever os.c:336 says, and not to a stranger.  queue_wait_back reads
\* the slot behind the newest waiter, and that never names a thread, because every
\* life of a block starts with a ring of zeros and no ring goes round in one life
\* (os.c:331-342; queue.h:56-61, 93-100).
NoMailAtAll == [][UNCHANGED mbox]_lvars

InQueue(u, t) == \E i \in 1..join_sem[t].wq.count : Items(join_sem[t].wq)[i] = u

waiters == [t \in Threads |-> {u \in Threads : InQueue(u, t)}]
go == {t \in Threads : joining[t] # NULL /\ os.state[t] = "ACTIVE"}

Abstract == INSTANCE AbstractJoin

\* As long as only running threads are joined, thrd_join returns exactly when the
\* thread that was joined exits, to everybody who had joined by then, however
\* creation, exit and kill interleave and although blocks are used again
\* (os.c:325-353; thread.c:58-62).
ImplementsAbstractJoin == Abstract!JASpec

\* "pointer to TYPE if successful, NULL if not successful" (pool.h:83): the next
\* thrd_create gets a block of the pool, or NULL.
AllocReturnsABlock == free_list \in Threads \cup {NULL}
=============================================================================
