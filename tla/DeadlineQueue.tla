---------------------------- MODULE DeadlineQueue ----------------------------
(***************************************************************************)
(* pqueue_sleep and pqueue_timedwait (pqueue.h, definitions.h:127-134):    *)
(* binary heaps of deadlines.  A heap is the sequence of storage[1] to     *)
(* storage[count]; what lies beyond is dead.                               *)
(*                                                                         *)
(* A priority is an int and ticks a size_t of the same width, and the      *)
(* code mixes them.                                                        *)
(***************************************************************************)
EXTENDS Integers, Sequences, Config

CONSTANT WordSize       \* 2^16 on this machine

Unsigned(x) == x % WordSize

Signed(x) ==
  IF Unsigned(x) < WordSize \div 2 THEN Unsigned(x) ELSE Unsigned(x) - WordSize

\* The nodes of a heap, D being what they point to.
Deadlines(D) == [priority : -(WordSize \div 2)..(WordSize \div 2 - 1),
                 data : D,
                 ticks : 0..(WordSize - 1)]

Deadline(t, ticks) == [priority |-> Signed(ticks), data |-> t, ticks |-> ticks]

\* The places that a push of priority goes through: from the first free one up,
\* past every parent that is larger.  The comparison is one of unsigned numbers.
MovesDown(heap, priority) ==
  LET last == Len(heap) + 1
      path[i \in 1..last] ==
        \/ i = last
        \/ /\ Unsigned(heap[i].priority) > priority
           /\ \E child \in {2 * i, 2 * i + 1} : child <= last /\ path[child]
  IN  {i \in 1..last : path[i]}

\* storage has NUM_THREADS elements; the first is not used, so that one item
\* less fits.
pqueue_push(heap, item) ==
  LET last == Len(heap) + 1
      path == MovesDown(heap, item.ticks)
  IN  IF last >= NUM_THREADS THEN heap
      ELSE [i \in 1..last |-> IF i \notin path THEN heap[i]
                              ELSE IF i \div 2 \in path THEN heap[i \div 2]
                              ELSE item]

\* The smaller child of place i if it is smaller than the last item, else the
\* place of the last item.
Successor(heap, i) ==
  LET last == Len(heap)
      Smaller(j, k) == IF j < last /\ heap[j].priority < heap[k].priority
                       THEN j ELSE k
  IN  Smaller(2 * i + 1, Smaller(2 * i, last))

\* The places the items move up along when the first one is removed.
MovesUp(heap) ==
  LET path[i \in 1..Len(heap)] ==
        i = 1 \/ (path[i \div 2] /\ Successor(heap, i \div 2) = i)
  IN  {i \in 1..(Len(heap) - 1) : path[i]}

\* Mutant of pqueue_pop: the last item goes with the first.
pqueue_pop_losing(heap) ==
  [i \in 1..(Len(heap) - 2) |-> heap[i + 1]]

\* For count > 0: the heap without storage[1].
pqueue_pop(heap) ==
  [i \in 1..(Len(heap) - 1) |->
     IF i \in MovesUp(heap) THEN heap[Successor(heap, i)] ELSE heap[i]]

\* For count > 0: one tick less until the first deadline.
CountDown(heap) == [heap EXCEPT ![1].priority = Signed(@ - 1)]
=============================================================================
