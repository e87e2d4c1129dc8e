------------------------------- MODULE Config -------------------------------
(* config.h: one constant sizes the pool, the wait queues and the heaps. *)
CONSTANT NUM_THREADS
=============================================================================
