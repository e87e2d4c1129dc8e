----------------------------- MODULE LifecycleMC -----------------------------
(* A pool of three blocks. *)
EXTENDS Lifecycle

CONSTANTS t1, t2, t3

MCThreads == {t1, t2, t3}
MCPool == <<t1, t2, t3>>
=============================================================================
