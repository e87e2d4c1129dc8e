------------------------------- MODULE Barrier -------------------------------
(***************************************************************************)
(* Barriers (barrier.c) made of three semaphores.  The semaphores are the  *)
(* abstract ones, which semaphore.c on top of the kernel implements        *)
(* (SemaphoreProofs!SemaphoreRefinement): a switch may come between any    *)
(* two calls, and nothing else is known of the scheduler.                  *)
(*                                                                         *)
(* barrier_wait is the same code twice, phase 1 and phase 2; at[t] is the  *)
(* phase and the next call of thread t.                                    *)
(***************************************************************************)
EXTENDS Integers, Sequences, FiniteSets

CONSTANT Threads    \* the threads that use the barrier, as many as its val

ASSUME BarrierAssumption == IsFiniteSet(Threads) /\ Threads # {}

VARIABLES tokens, queue, granted,    \* the semaphores
          count,                     \* barrier->count
          at,
          posts,                     \* i of the loop a thread is in
          released                   \* ghost: the threads a round has let go

semaphores == <<tokens, queue, granted>>
bvars == <<tokens, queue, granted, count, at, posts, released>>

val == Cardinality(Threads)

Semaphores == {"mutex", "turnstile1", "turnstile2"}

Sem == INSTANCE AbstractSemaphore

Outside == <<0, "outside">>
Turnstile(phase) == IF phase = 1 THEN "turnstile1" ELSE "turnstile2"

-----------------------------------------------------------------------------
barrier_init ==
  /\ tokens = [s \in Semaphores |-> IF s = "mutex" THEN 1 ELSE 0]
  /\ queue = [s \in Semaphores |-> <<>>]
  /\ granted = [s \in Semaphores |-> {}]
  /\ count = 0

BInit ==
  /\ barrier_init
  /\ at = [t \in Threads |-> Outside]
  /\ posts = [t \in Threads |-> 0]
  /\ released = {}

\* A sem_wait that returns at once, blocks, or returns after a post.
sem_wait(t, s, there) ==
  \/ (Sem!Take(t, s) \/ Sem!Depart(t, s)) /\ at' = [at EXCEPT ![t] = there]
  \/ Sem!Enqueue(t, s) /\ UNCHANGED at

sem_post(s) == Sem!Deposit(s) \/ Sem!HandOver(s)

Call(t) ==
  /\ at[t] = Outside
  /\ at' = [at EXCEPT ![t] = <<1, "enter">>]
  /\ UNCHANGED <<semaphores, count, posts, released>>

\* Mutant of Enter: the mutex is not taken.
EnterUnlocked(t, phase) ==
  /\ at[t] = <<phase, "enter">>
  /\ at' = [at EXCEPT ![t] = <<phase, "count">>]
  /\ UNCHANGED <<semaphores, count, posts, released>>

Enter(t, phase) ==
  /\ at[t] = <<phase, "enter">>
  /\ sem_wait(t, "mutex", <<phase, "count">>)
  /\ UNCHANGED <<count, posts, released>>

\* Mutants of EveryoneCounted: one thread too few, in either phase.
EveryoneCountedBut1(n, phase) == n = IF phase = 1 THEN val - 1 ELSE 0

EveryoneCountedTo1(n, phase) == n = IF phase = 1 THEN val ELSE 1

EveryoneCounted(n, phase) == n = IF phase = 1 THEN val ELSE 0

Count(t, phase) ==
  LET n == IF phase = 1 THEN count + 1 ELSE count - 1
  IN  /\ at[t] = <<phase, "count">>
      /\ count' = n
      /\ at' = [at EXCEPT ![t] =
                  IF EveryoneCounted(n, phase) THEN <<phase, "open">>
                  ELSE <<phase, "leave">>]
      /\ released' = IF EveryoneCounted(n, phase) /\ phase = 1 THEN Threads
                     ELSE released
      /\ UNCHANGED <<semaphores, posts>>

\* Mutant of PostsDone: the last thread keeps no post for itself.
PostsDoneBut1(n) == n >= val - 1

PostsDone(n) == n = val

\* One turn of the last thread's loop.
Open(t, phase) ==
  LET n == posts[t] + 1
  IN  /\ at[t] = <<phase, "open">>
      /\ sem_post(Turnstile(phase))
      /\ IF PostsDone(n)
         THEN /\ at' = [at EXCEPT ![t] = <<phase, "leave">>]
              /\ posts' = [posts EXCEPT ![t] = 0]
         ELSE posts' = [posts EXCEPT ![t] = n] /\ UNCHANGED at
      /\ UNCHANGED <<count, released>>

Leave(t, phase) ==
  /\ at[t] = <<phase, "leave">>
  /\ sem_post("mutex")
  /\ at' = [at EXCEPT ![t] = <<phase, "pass">>]
  /\ UNCHANGED <<count, posts, released>>

Pass(t, phase) ==
  /\ at[t] = <<phase, "pass">>
  /\ sem_wait(t, Turnstile(phase), IF phase = 1 THEN <<2, "enter">> ELSE Outside)
  /\ released' = IF at'[t] = Outside THEN released \ {t} ELSE released
  /\ UNCHANGED <<count, posts>>

\* What thread t does inside barrier_wait.
Step(t) ==
  \E phase \in 1..2 :
    \/ Enter(t, phase)
    \/ Count(t, phase)
    \/ Open(t, phase)
    \/ Leave(t, phase)
    \/ Pass(t, phase)

BNext == \E t \in Threads : Call(t) \/ Step(t)

BSpec == BInit /\ [][BNext]_bvars

-----------------------------------------------------------------------------
(* Properties.                                                             *)

\* Types; a turnstile never holds more posts than there are threads.
BTypeOK ==
  /\ tokens \in [Semaphores -> 0..val]
  /\ queue \in [Semaphores -> Seq(Threads)]
  /\ granted \in [Semaphores -> SUBSET Threads]
  /\ count \in 0..val
  /\ at \in [Threads -> {Outside} \cup
               ((1..2) \X {"enter", "count", "open", "leave", "pass"})]
  /\ posts \in [Threads -> 0..val]
  /\ released \subseteq Threads

\* The threads the phase has counted that are not through its turnstile.
Counted(phase) == {t \in Threads : at[t] \in {phase} \X {"open", "leave", "pass"}}

\* One thread at a time is between the mutex's wait and its post, and the count is
\* that of the threads that phase 1 has counted and phase 2 has not: rounds that
\* overlap do not mix their counts (barrier.c:29-36, 41-48).
CountsThreads ==
  /\ Cardinality({t \in Threads : at[t][2] \in {"count", "open", "leave"}}) <= 1
  /\ count = Cardinality(Counted(1) \cup
                {t \in Threads : at[t] \in {2} \X {"enter", "count"}})

\* The posts that are made on the phase's turnstile and not yet used up.
Made(phase) == tokens[Turnstile(phase)] + Cardinality(granted[Turnstile(phase)])

\* Every post on a turnstile has a thread still to go through it: none is left
\* over for a thread that comes round again while slow ones are still inside
\* (barrier.c:31-37, 43-49).
NoPostLeftOver ==
  \A phase \in 1..2 : Made(phase) <= Cardinality(Counted(phase))

\* The inductive invariant.  A round has two halves: the threads arrive and the
\* first turnstile is closed, then they go on and the second one is.
Coming == {t \in Threads : at[t] \in {Outside} \cup {1} \X {"enter", "count"}}
Between == {t \in Threads : at[t] \in {2} \X {"enter", "count"}}
Inside == {t \in Threads : at[t][2] \in {"count", "open", "leave"}}
Openers(phase) == {t \in Threads : at[t] = <<phase, "open">>}

Closed(phase) ==
  /\ tokens[Turnstile(phase)] = 0
  /\ granted[Turnstile(phase)] = {}
  /\ Openers(phase) = {}

\* There is one post, made or still to come, for each thread before the turnstile.
Opened(phase) ==
  /\ Openers(phase) = {} => Made(phase) = Cardinality(Counted(phase))
  /\ \A t \in Openers(phase) :
       /\ posts[t] < val
       /\ Made(phase) + (val - posts[t]) = Cardinality(Counted(phase))

Arriving == Between = {} /\ released = Counted(2) /\ Closed(1) /\ Opened(2)

Departing == Coming = {} /\ released = Threads /\ Closed(2) /\ Opened(1)

\* Who is in a queue or chosen by a post is at the wait of that semaphore.
WaitsAt(t, s) ==
  IF s = "mutex" THEN at[t] \in (1..2) \X {"enter"}
  ELSE \E phase \in 1..2 : s = Turnstile(phase) /\ at[t] = <<phase, "pass">>

QueuesOK ==
  \A s \in Semaphores :
    /\ \A i, j \in 1..Len(queue[s]) : queue[s][i] = queue[s][j] => i = j
    /\ \A t \in Threads :
         /\ Sem!InQueue(t, s) => WaitsAt(t, s) /\ t \notin granted[s]
         /\ t \in granted[s] => WaitsAt(t, s)

\* The mutex is free, or one thread has it or was passed it.
MutexOwned ==
  LET owners == granted["mutex"] \cup Inside
  IN  /\ \A t, u \in owners : t = u
      /\ tokens["mutex"] = IF owners = {} THEN 1 ELSE 0

BInv ==
  /\ BTypeOK
  /\ QueuesOK
  /\ MutexOwned
  /\ \A t \in Threads : at[t][2] # "open" => posts[t] = 0
  /\ count = Cardinality(Counted(1) \cup Between)
  /\ Arriving \/ Departing

\* barrier.c is a reusable barrier: nobody returns from barrier_wait before all
\* have called it in this round, whoever runs ahead (barrier.c:28-59).
place == [t \in Threads |->
            IF at[t] = Outside THEN "outside"
            ELSE IF t \in released THEN "released" ELSE "waiting"]

Abstract == INSTANCE AbstractBarrier

ImplementsAbstractBarrier == Abstract!BSpec

\* Every thread that can go on inside barrier_wait does in the end.  The scheduler
\* alone does not see to that: other threads that wake each other for ever can
\* keep the core from it.
EveryoneGetsTurns == \A t \in Threads : WF_bvars(Step(t))

EveryoneComes == \A t \in Threads : []<>(at[t] # Outside)

\* If every thread gets its turns and all keep coming to the barrier, every
\* barrier_wait returns: the three semaphores never leave everybody waiting, nor
\* anyone behind the others' rounds (barrier.c:28-59).
WaitersReturn ==
  EveryoneGetsTurns /\ EveryoneComes => \A t \in Threads : []<>(at[t] = Outside)
=============================================================================
