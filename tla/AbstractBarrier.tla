--------------------------- MODULE AbstractBarrier ---------------------------
(***************************************************************************)
(* What barrier.c promises: of the threads that call barrier_wait none     *)
(* returns before all have called it, and the barrier can be used again at *)
(* once, also by a thread that returns while others have not yet.          *)
(***************************************************************************)
CONSTANT Threads

VARIABLE place     \* "outside", "waiting" or "released"

BInit == place = [t \in Threads |-> "outside"]

Arrive(t) == place[t] = "outside" /\ place' = [place EXCEPT ![t] = "waiting"]

Release ==
  /\ \A t \in Threads : place[t] = "waiting"
  /\ place' = [t \in Threads |-> "released"]

Return(t) == place[t] = "released" /\ place' = [place EXCEPT ![t] = "outside"]

BNext == Release \/ \E t \in Threads : Arrive(t) \/ Return(t)

BSpec == BInit /\ [][BNext]_place
=============================================================================
