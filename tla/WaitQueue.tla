------------------------------ MODULE WaitQueue ------------------------------
(***************************************************************************)
(* queue_wait (queue.h, definitions.h:99-103), the FIFO of threads inside  *)
(* every semaphore, mutex and barrier, as the sequence of its items.       *)
(***************************************************************************)
EXTENDS Integers, Sequences, Config

\* Mutants of queue_wait_push: one slot too few, the write index does not move.
queue_wait_push_short(wq, t) ==
  IF Len(wq) + 1 < NUM_THREADS THEN Append(wq, t) ELSE wq

queue_wait_push_overwriting(wq, t) ==
  IF wq = <<>> THEN <<t>> ELSE [wq EXCEPT ![Len(wq)] = t]

\* A push onto a full queue fails, and no caller looks at the result.
queue_wait_push(wq, t) ==
  IF Len(wq) < NUM_THREADS THEN Append(wq, t) ELSE wq

\* Mutant of queue_wait_pop: the newest item.
queue_wait_pop_newest(wq) ==
  [item |-> wq[Len(wq)], left |-> SubSeq(wq, 1, Len(wq) - 1)]

\* For count > 0: what a pop returns and what it leaves.
queue_wait_pop(wq) == [item |-> Head(wq), left |-> Tail(wq)]

Waits(t, wq) == \E i \in 1..Len(wq) : wq[i] = t
=============================================================================
