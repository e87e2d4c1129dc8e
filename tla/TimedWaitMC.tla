----------------------------- MODULE TimedWaitMC -----------------------------
(* Two threads that wait with a limit and a patient one; a semaphore and a
   mutex. *)
EXTENDS TimedWait

CONSTANTS t1, t2, t3, s1, m1

MCThreads == {t1, t2, t3}
MCPatient == {t3}
MCSemaphores == {s1}
MCMutexes == {m1}
=============================================================================
