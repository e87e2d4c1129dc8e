----------------------------- MODULE SemaphoreMC -----------------------------
(* Three threads, as many as a wait queue holds, and two semaphores. *)
EXTENDS Semaphore

CONSTANTS t1, t2, t3, s1, s2

MCThreads == {t1, t2, t3}
MCSemaphores == {s1, s2}
=============================================================================
