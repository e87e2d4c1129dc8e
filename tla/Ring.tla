-------------------------------- MODULE Ring --------------------------------
(***************************************************************************)
(* queue.h as it is: an array, the indices of the last item read and the   *)
(* last item written, and a count.  WaitQueue has the same queue as a      *)
(* sequence; what only the array tells is what queue_wait_back returns.    *)
(***************************************************************************)
EXTENDS Integers, Sequences, Config

\* An array of zeros, which is what static storage starts as.
AllZero(zero) ==
  [storage |-> [i \in 0..(NUM_THREADS - 1) |-> zero],
   read |-> 0, write |-> 0, count |-> 0]

\* Mutant of queue_wait_init: the storage is not cleared.
queue_wait_init_dirty(q, zero) == [q EXCEPT !.read = 0, !.write = 0, !.count = 0]

queue_wait_init(q, zero) == AllZero(zero)

ring_push(q, item) ==
  LET next == (q.write + 1) % NUM_THREADS
  IN  IF q.count < NUM_THREADS
      THEN [q EXCEPT !.storage[next] = item, !.write = next, !.count = @ + 1]
      ELSE q

\* For count > 0, without the item returned.
ring_pop(q) == [q EXCEPT !.read = (@ + 1) % NUM_THREADS, !.count = @ - 1]

\* The slot behind the last one written; behind the array lies the index read.
queue_wait_back(q) ==
  IF q.write + 1 < NUM_THREADS THEN q.storage[q.write + 1] ELSE q.read

\* The items from the oldest to the newest.
Items(q) == [i \in 1..q.count |-> q.storage[(q.read + i) % NUM_THREADS]]
=============================================================================
