------------------------------- MODULE MutexMC -------------------------------
(* Three threads that contend for two mutexes.  *)
EXTENDS Mutex

CONSTANTS t1, t2, t3, m1, m2

MCThreads == {t1, t2, t3}
MCMutexes == {m1, m2}
=============================================================================
