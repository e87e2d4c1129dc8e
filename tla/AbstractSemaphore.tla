-------------------------- MODULE AbstractSemaphore --------------------------
(***************************************************************************)
(* What semaphore.c promises: a counting semaphore whose post hands the    *)
(* resource to the thread that has waited longest, if any waits.  Nothing  *)
(* is said of the scheduler.                                               *)
(***************************************************************************)
EXTENDS Naturals, Sequences

CONSTANTS Threads, Semaphores

VARIABLES tokens,    \* resources nobody has taken yet
          queue,     \* threads waiting, the oldest first
          granted    \* threads a post has chosen, still inside sem_wait

avars == <<tokens, queue, granted>>

InQueue(t, s) == \E i \in 1..Len(queue[s]) : queue[s][i] = t

\* The thread is outside sem_wait.
Free(t) == \A s \in Semaphores : ~InQueue(t, s) /\ t \notin granted[s]

AInit ==
  /\ tokens \in [Semaphores -> Nat]
  /\ queue = [s \in Semaphores |-> <<>>]
  /\ granted = [s \in Semaphores |-> {}]

\* A wait that finds a resource, or a successful sem_trywait.
Take(t, s) ==
  /\ Free(t)
  /\ tokens[s] > 0
  /\ tokens' = [tokens EXCEPT ![s] = @ - 1]
  /\ UNCHANGED <<queue, granted>>

Enqueue(t, s) ==
  /\ Free(t)
  /\ tokens[s] = 0
  /\ queue' = [queue EXCEPT ![s] = Append(@, t)]
  /\ UNCHANGED <<tokens, granted>>

\* A post without waiters leaves a resource behind.
Deposit(s) ==
  /\ queue[s] = <<>>
  /\ tokens' = [tokens EXCEPT ![s] = @ + 1]
  /\ UNCHANGED <<queue, granted>>

\* A post with waiters passes the resource on; nobody can take it in between.
HandOver(s) ==
  /\ queue[s] # <<>>
  /\ queue' = [queue EXCEPT ![s] = Tail(@)]
  /\ granted' = [granted EXCEPT ![s] = @ \cup {Head(queue[s])}]
  /\ UNCHANGED tokens

\* The chosen thread comes back from sem_wait.
Depart(t, s) ==
  /\ t \in granted[s]
  /\ granted' = [granted EXCEPT ![s] = @ \ {t}]
  /\ UNCHANGED <<tokens, queue>>

ANext ==
  \E s \in Semaphores :
    \/ Deposit(s)
    \/ HandOver(s)
    \/ \E t \in Threads : Take(t, s) \/ Enqueue(t, s) \/ Depart(t, s)

ASpec == AInit /\ [][ANext]_avars
=============================================================================
