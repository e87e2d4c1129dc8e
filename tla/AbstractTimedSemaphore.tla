------------------------ MODULE AbstractTimedSemaphore ------------------------
(***************************************************************************)
(* What a wait with a time limit adds to a semaphore: a thread may give up *)
(* waiting.  It then leaves no trace: it takes no resource, and none is    *)
(* ever kept for it.                                                       *)
(***************************************************************************)
EXTENDS AbstractSemaphore, SequencesExt

TimeOut(t, s) ==
  /\ \E i \in 1..Len(queue[s]) :
       queue[s][i] = t /\ queue' = [queue EXCEPT ![s] = RemoveAt(@, i)]
  /\ UNCHANGED <<tokens, granted>>

ATNext == ANext \/ \E t \in Threads, s \in Semaphores : TimeOut(t, s)

ATSpec == AInit /\ [][ATNext]_avars
=============================================================================
