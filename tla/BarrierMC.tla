------------------------------ MODULE BarrierMC ------------------------------
(* Four threads go through one barrier again and again. *)
EXTENDS Barrier

CONSTANTS t1, t2, t3, t4

MCThreads == {t1, t2, t3, t4}
=============================================================================
