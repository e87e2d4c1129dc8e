------------------------------- MODULE SleepMC -------------------------------
(* Three threads that sleep; the words are short. *)
EXTENDS Sleep

CONSTANTS t1, t2, t3

MCThreads == {t1, t2, t3}
=============================================================================
