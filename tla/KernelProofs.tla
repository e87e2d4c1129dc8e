---------------------------- MODULE KernelProofs ----------------------------
(***************************************************************************)
(* Theorems about Kernel, for every set of threads and every priority.     *)
(***************************************************************************)
EXTENDS Kernel, SequenceTheorems, FiniteSetTheorems, TLAPS

-----------------------------------------------------------------------------
(* The circular list.                                                      *)

LEMMA CircleElements ==
  ASSUME NEW q \in Seq(Threads)
  PROVE  /\ Circle(q) \in Seq(Threads \cup {ListHead})
         /\ Len(Circle(q)) = Len(q) + 1
         /\ Circle(q)[1] = ListHead
         /\ \A i \in 1..Len(q) : Circle(q)[i + 1] = q[i]
         /\ \A i \in 2..Len(q) + 1 : Circle(q)[i] = q[i - 1]
BY DEF Circle

LEMMA LinkedElements ==
  ASSUME NEW q \in Seq(Threads)
  PROVE  /\ Linked(q, ListHead)
         /\ \A t \in Threads : Linked(q, t) <=> \E i \in 1..Len(q) : q[i] = t
         /\ \A e : Linked(q, e) => e \in Threads \cup {ListHead}
<1>1. Linked(q, ListHead)
  BY CircleElements DEF Linked
<1>2. ASSUME NEW t \in Threads
      PROVE  Linked(q, t) <=> \E i \in 1..Len(q) : q[i] = t
  <2>1. ASSUME Linked(q, t) PROVE \E i \in 1..Len(q) : q[i] = t
    <3>1. PICK i \in 1..Len(q) + 1 : Circle(q)[i] = t
      BY <2>1, CircleElements DEF Linked
    <3>2. i # 1
      BY <3>1, CircleElements, KernelAssumption
    <3>3. i - 1 \in 1..Len(q) /\ q[i - 1] = t
      BY <3>1, <3>2, CircleElements
    <3>4. QED BY <3>3
  <2>2. ASSUME NEW i \in 1..Len(q), q[i] = t PROVE Linked(q, t)
    <3>1. i + 1 \in 1..Len(Circle(q)) /\ Circle(q)[i + 1] = t
      BY <2>2, CircleElements
    <3>2. QED BY <3>1 DEF Linked
  <2>3. QED BY <2>1, <2>2
<1>3. ASSUME NEW e, Linked(q, e) PROVE e \in Threads \cup {ListHead}
  BY <1>3, CircleElements DEF Linked
<1>4. QED BY <1>1, <1>2, <1>3

LEMMA PositionOfLinked ==
  ASSUME NEW q \in Seq(Threads), NEW e, Linked(q, e)
  PROVE  /\ Position(q, e) \in 1..Len(q) + 1
         /\ Circle(q)[Position(q, e)] = e
         /\ e # ListHead => Position(q, e) \in 2..Len(q) + 1
         /\ e # ListHead => q[Position(q, e) - 1] = e
         /\ e = ListHead => Position(q, e) = 1
<1>1. /\ Position(q, e) \in 1..Len(q) + 1
      /\ Circle(q)[Position(q, e)] = e
  BY CircleElements DEF Linked, Position
<1>2. ASSUME e # ListHead
      PROVE  /\ Position(q, e) \in 2..Len(q) + 1
             /\ q[Position(q, e) - 1] = e
  BY <1>1, <1>2, CircleElements
<1>3. ASSUME e = ListHead PROVE Position(q, e) = 1
  <2>1. \A i \in 2..Len(q) + 1 : Circle(q)[i] \in Threads
    BY CircleElements
  <2>2. QED BY <1>1, <1>3, <2>1, KernelAssumption
<1>4. QED BY <1>1, <1>2, <1>3

Distinct(q) == \A i, j \in 1..Len(q) : q[i] = q[j] => i = j

\* A walk over a queue that is not empty stays on its threads: stepping over
\* the head never stops there.
LEMMA NextOnQueue ==
  ASSUME NEW q \in Seq(Threads), q # <<>>, NEW e, Linked(q, e)
  PROVE  NextCircular(q, e) \in Threads /\ Linked(q, NextCircular(q, e))
<1> DEFINE n == Len(q)
<1>1. n \in Nat /\ n # 0
  OBVIOUS
<1>2. ElementNext(q, ListHead) = q[1]
  BY <1>1, LinkedElements, PositionOfLinked, CircleElements DEF ElementNext
<1>3. ElementNext(q, e) = ListHead \/ \E i \in 1..n : ElementNext(q, e) = q[i]
  <2>1. CASE Position(q, e) = n + 1
    BY <2>1, CircleElements DEF ElementNext
  <2>2. CASE Position(q, e) # n + 1
    <3>1. Position(q, e) \in 1..n
      BY <2>2, PositionOfLinked
    <3>2. ElementNext(q, e) = q[Position(q, e)]
      BY <3>1, CircleElements DEF ElementNext
    <3>3. QED BY <3>1, <3>2
  <2>3. QED BY <2>1, <2>2
<1>4. \E i \in 1..n : NextCircular(q, e) = q[i]
  BY <1>1, <1>2, <1>3 DEF NextCircular
<1>5. QED BY <1>4, LinkedElements

\* The same walking backwards; and from a thread of a longer queue the walk
\* really leaves that thread.
LEMMA PrevOnQueue ==
  ASSUME NEW q \in Seq(Threads), q # <<>>, NEW e, Linked(q, e)
  PROVE  /\ PrevCircular(q, e) \in Threads
         /\ Linked(q, PrevCircular(q, e))
         /\ Distinct(q) /\ Len(q) > 1 => PrevCircular(q, e) # e
<1> DEFINE n == Len(q)
           p == Position(q, e)
<1>1. n \in Nat /\ n # 0 /\ p \in 1..n + 1
  BY PositionOfLinked
<1>2. ElementPrev(q, ListHead) = q[n]
  BY <1>1, LinkedElements, PositionOfLinked, CircleElements DEF ElementPrev
<1>3. CASE e = ListHead
  <2>1. PrevCircular(q, e) = q[n]
    BY <1>1, <1>2, <1>3, KernelAssumption DEF PrevCircular
  <2>2. QED BY <1>1, <1>3, <2>1, LinkedElements, KernelAssumption
<1>4. CASE e # ListHead /\ p = 2
  <2>1. ElementPrev(q, e) = ListHead
    BY <1>4, CircleElements DEF ElementPrev
  <2>2. PrevCircular(q, e) = q[n]
    BY <1>2, <2>1 DEF PrevCircular
  <2>3. e = q[1]
    BY <1>4, PositionOfLinked
  <2>4. QED BY <1>1, <2>2, <2>3, LinkedElements DEF Distinct
<1>5. CASE e # ListHead /\ p # 2
  <2>1. p \in 3..n + 1 /\ q[p - 1] = e
    BY <1>1, <1>5, PositionOfLinked
  <2>2. ElementPrev(q, e) = q[p - 2]
    BY <1>1, <2>1, CircleElements DEF ElementPrev
  <2>3. q[p - 2] \in Threads
    BY <1>1, <2>1
  <2>4. PrevCircular(q, e) = q[p - 2]
    BY <2>2, <2>3, KernelAssumption DEF PrevCircular
  <2>5. QED BY <1>1, <2>1, <2>3, <2>4, LinkedElements DEF Distinct
<1>6. QED BY <1>3, <1>4, <1>5

\* The queue without t: what stood behind it moves up.
LEMMA UnlinkAt ==
  ASSUME NEW q \in Seq(Threads), NEW t \in Threads, Linked(q, t)
  PROVE  LET p == Position(q, t) - 1
             r == Unlink(q, t)
         IN  /\ p \in 1..Len(q) /\ q[p] = t
             /\ r \in Seq(Threads)
             /\ Len(r) = Len(q) - 1
             /\ \A i \in 1..Len(q) - 1 : r[i] = IF i < p THEN q[i] ELSE q[i + 1]
<1> DEFINE n == Len(q)
           p == Position(q, t) - 1
           r == Unlink(q, t)
<1>1. n \in Nat /\ p \in 1..n /\ q[p] = t
  BY PositionOfLinked, KernelAssumption
<1>2. r = SubSeq(q, 1, p - 1) \o SubSeq(q, p + 1, n)
  BY DEF Unlink, RemoveAt
<1> HIDE DEF p, r
<1> DEFINE a == SubSeq(q, 1, p - 1)
           b == SubSeq(q, p + 1, n)
<1>3. /\ a \in Seq(Threads) /\ Len(a) = p - 1
      /\ \A i \in 1..p - 1 : a[i] = q[i]
  BY <1>1
<1>4. /\ b \in Seq(Threads) /\ Len(b) = n - p
      /\ \A i \in 1..n - p : b[i] = q[p + i]
  BY <1>1
<1>5. r = a \o b
  BY <1>2
<1> HIDE DEF a, b
<1>6. /\ r \in Seq(Threads)
      /\ Len(r) = n - 1
      /\ \A i \in 1..n - 1 : r[i] = IF i < p THEN a[i] ELSE b[i - (p - 1)]
  <2>1. /\ a \o b \in Seq(Threads)
        /\ Len(a \o b) = Len(a) + Len(b)
        /\ \A i \in 1..Len(a) + Len(b) :
             (a \o b)[i] = IF i <= Len(a) THEN a[i] ELSE b[i - Len(a)]
    BY <1>3, <1>4, ConcatProperties, Zenon
  <2>2. Len(a) + Len(b) = n - 1
    BY <1>1, <1>3, <1>4
  <2>3. \A i \in 1..n - 1 : i <= Len(a) <=> i < p
    BY <1>1, <1>3
  <2>4. QED BY <1>3, <1>5, <2>1, <2>2, <2>3
<1>7. \A i \in 1..n - 1 : r[i] = IF i < p THEN q[i] ELSE q[i + 1]
  BY <1>1, <1>3, <1>4, <1>6
<1>8. QED BY <1>1, <1>6, <1>7 DEF p, r

\* Unlinking a thread takes that thread off, and only that one.
LEMMA UnlinkElements ==
  ASSUME NEW q \in Seq(Threads), Distinct(q), NEW t \in Threads, Linked(q, t)
  PROVE  /\ Unlink(q, t) \in Seq(Threads)
         /\ Len(Unlink(q, t)) = Len(q) - 1
         /\ Distinct(Unlink(q, t))
         /\ \A u \in Threads : Linked(Unlink(q, t), u) <=> Linked(q, u) /\ u # t
<1> DEFINE n == Len(q)
           p == Position(q, t) - 1
           r == Unlink(q, t)
<1>1. n \in Nat /\ p \in 1..n /\ q[p] = t
  BY UnlinkAt
<1>6. r \in Seq(Threads) /\ Len(r) = n - 1
  BY UnlinkAt
<1>7. \A i \in 1..n - 1 : r[i] = IF i < p THEN q[i] ELSE q[i + 1]
  BY UnlinkAt
<1> HIDE DEF p, r
<1>8. Distinct(r)
  BY <1>1, <1>6, <1>7 DEF Distinct
<1>9. ASSUME NEW u \in Threads
      PROVE  (\E i \in 1..Len(r) : r[i] = u) <=> (\E i \in 1..n : q[i] = u) /\ u # t
  <2>1. ASSUME NEW i \in 1..Len(r), r[i] = u
        PROVE  (\E j \in 1..n : q[j] = u) /\ u # t
    BY <1>1, <1>6, <1>7, <2>1 DEF Distinct
  <2>2. ASSUME NEW j \in 1..n, q[j] = u, u # t
        PROVE  \E i \in 1..Len(r) : r[i] = u
    <3>1. CASE j < p
      <4>1. j \in 1..Len(r) /\ r[j] = u
        BY <1>1, <1>6, <1>7, <2>2, <3>1
      <4>2. QED BY <4>1
    <3>2. CASE j > p
      <4>1. j - 1 \in 1..Len(r) /\ r[j - 1] = u
        BY <1>1, <1>6, <1>7, <2>2, <3>2
      <4>2. QED BY <4>1
    <3>3. QED BY <1>1, <2>2, <3>1, <3>2
  <2>3. QED BY <2>1, <2>2
<1>10. QED
  BY <1>6, <1>8, <1>9, LinkedElements DEF r

\* Where the walk goes from a thread of a queue without duplicates.
LEMMA NextAt ==
  ASSUME NEW q \in Seq(Threads), Distinct(q), NEW i \in 1..Len(q)
  PROVE  /\ Linked(q, q[i])
         /\ Position(q, q[i]) = i + 1
         /\ NextCircular(q, q[i]) = IF i = Len(q) THEN q[1] ELSE q[i + 1]
         /\ PrevCircular(q, q[i]) = IF i = 1 THEN q[Len(q)] ELSE q[i - 1]
<1> DEFINE n == Len(q)
           e == q[i]
<1>1. n \in Nat /\ n # 0 /\ e \in Threads /\ e # ListHead
  BY KernelAssumption
<1>2. Linked(q, e)
  BY <1>1, LinkedElements
<1>3. Position(q, e) = i + 1
  BY <1>1, <1>2, PositionOfLinked DEF Distinct
<1>4. /\ Linked(q, ListHead) /\ Position(q, ListHead) = 1
      /\ Len(Circle(q)) = n + 1
  BY <1>1, LinkedElements, PositionOfLinked, CircleElements
<1>5. ElementNext(q, ListHead) = q[1] /\ ElementPrev(q, ListHead) = q[n]
  <2>1. ElementNext(q, ListHead) = q[1]
    BY <1>1, LinkedElements, PositionOfLinked, CircleElements DEF ElementNext
  <2>2. Circle(q)[n + 1] = q[n]
    BY <1>1, CircleElements
  <2>3. ElementPrev(q, ListHead) = q[n]
    BY <1>4, <2>2 DEF ElementPrev
  <2>4. QED BY <2>1, <2>3
<1>6. NextCircular(q, e) = IF i = n THEN q[1] ELSE q[i + 1]
  <2>1. CASE i = n
    <3>1. ElementNext(q, e) = ListHead
      BY <1>2, <1>3, <1>4, <2>1 DEF ElementNext
    <3>2. QED BY <1>5, <2>1, <3>1 DEF NextCircular
  <2>2. CASE i # n
    <3>1. ElementNext(q, e) = q[i + 1]
      BY <1>1, <1>2, <1>3, <1>4, <2>2, CircleElements DEF ElementNext
    <3>2. q[i + 1] \in Threads
      BY <1>1, <2>2
    <3>3. QED BY <2>2, <3>1, <3>2, KernelAssumption DEF NextCircular
  <2>3. QED BY <2>1, <2>2
<1>7. PrevCircular(q, e) = IF i = 1 THEN q[n] ELSE q[i - 1]
  <2>1. CASE i = 1
    <3>1. ElementPrev(q, e) = ListHead
      BY <1>1, <1>2, <1>3, <2>1, CircleElements DEF ElementPrev
    <3>2. QED BY <1>5, <2>1, <3>1 DEF PrevCircular
  <2>2. CASE i # 1
    <3>1. ElementPrev(q, e) = q[i - 1]
      BY <1>1, <1>2, <1>3, <2>2, CircleElements DEF ElementPrev
    <3>2. q[i - 1] \in Threads
      BY <1>1, <2>2
    <3>3. QED BY <2>2, <3>1, <3>2, KernelAssumption DEF PrevCircular
  <2>3. QED BY <2>1, <2>2
<1>8. QED BY <1>2, <1>3, <1>6, <1>7

\* Stepping back before t is unlinked keeps the thread behind t next in turn.
LEMMA NextAfterUnlink ==
  ASSUME NEW q \in Seq(Threads), Distinct(q), NEW t \in Threads, Linked(q, t), Len(q) > 1
  PROVE  NextCircular(Unlink(q, t), PrevCircular(q, t)) = NextCircular(q, t)
<1> DEFINE n == Len(q)
           p == Position(q, t) - 1
           r == Unlink(q, t)
<1>1. n \in Nat /\ n > 1 /\ p \in 1..n /\ q[p] = t
  BY UnlinkAt
<1>2. /\ r \in Seq(Threads) /\ Len(r) = n - 1 /\ Distinct(r)
      /\ \A i \in 1..n - 1 : r[i] = IF i < p THEN q[i] ELSE q[i + 1]
  BY UnlinkAt, UnlinkElements
<1> HIDE DEF p, r
<1>3. /\ NextCircular(q, t) = IF p = n THEN q[1] ELSE q[p + 1]
      /\ PrevCircular(q, t) = IF p = 1 THEN q[n] ELSE q[p - 1]
  BY <1>1, NextAt
<1>4. \A i \in 1..n - 1 : NextCircular(r, r[i]) = IF i = n - 1 THEN r[1] ELSE r[i + 1]
  <2>1. r \in Seq(Threads) /\ Distinct(r) /\ Len(r) = n - 1
    BY <1>2
  <2>2. \A i \in 1..Len(r) : NextCircular(r, r[i]) = IF i = Len(r) THEN r[1] ELSE r[i + 1]
    BY <2>1, NextAt
  <2> HIDE DEF n
  <2> QED
    BY <2>1, <2>2
<1>5. CASE p = 1
  <2>1. r[n - 1] = q[n] /\ r[1] = q[2]
    BY <1>1, <1>2, <1>5
  <2>2. NextCircular(r, q[n]) = q[2]
    BY <1>1, <1>4, <2>1
  <2>3. QED BY <1>1, <1>3, <1>5, <2>2 DEF r
<1>6. CASE p # 1
  <2>1. p - 1 \in 1..n - 1 /\ r[p - 1] = q[p - 1] /\ r[1] = q[1]
    BY <1>1, <1>2, <1>6
  <2>2. CASE p = n
    <3>1. NextCircular(r, q[p - 1]) = q[1]
      BY <1>1, <1>4, <2>1, <2>2
    <3>2. QED BY <1>3, <1>6, <2>2, <3>1 DEF r
  <2>3. CASE p # n
    <3>1. r[p] = q[p + 1]
      BY <1>1, <1>2, <2>3
    <3>2. NextCircular(r, r[p - 1]) = r[p]
      BY <1>1, <1>4, <2>1, <2>3
    <3>3. QED BY <1>3, <1>6, <2>1, <2>3, <3>1, <3>2 DEF r
  <2>4. QED BY <2>2, <2>3
<1>7. QED BY <1>5, <1>6

LEMMA AppendElements ==
  ASSUME NEW q \in Seq(Threads), Distinct(q), NEW t \in Threads, ~Linked(q, t)
  PROVE  /\ Append(q, t) \in Seq(Threads)
         /\ Len(Append(q, t)) = Len(q) + 1
         /\ Distinct(Append(q, t))
         /\ \A u \in Threads : Linked(Append(q, t), u) <=> Linked(q, u) \/ u = t
<1> DEFINE n == Len(q)
           r == Append(q, t)
<1>1. /\ r \in Seq(Threads)
      /\ Len(r) = n + 1
      /\ r[n + 1] = t
      /\ \A i \in 1..n : r[i] = q[i]
  OBVIOUS
<1>2. \A i \in 1..n : q[i] # t
  BY LinkedElements
<1> HIDE DEF r
<1>3. Distinct(r)
  BY <1>1, <1>2 DEF Distinct
<1>4. ASSUME NEW u \in Threads
      PROVE  (\E i \in 1..Len(r) : r[i] = u) <=> (\E i \in 1..n : q[i] = u) \/ u = t
  BY <1>1
<1>5. QED
  BY <1>1, <1>3, <1>4, LinkedElements DEF r

-----------------------------------------------------------------------------
(* Critical sections cancel out.                                           *)

\* Interrupts are off exactly inside the critical sections.
NestOK(k) == k.gie = (k.nest = 0)

\* j and k agree on everything but the critical section they are in.
SameScheduler(j, k) ==
  /\ j.run_queue = k.run_queue
  /\ j.it = k.it
  /\ j.task_active_cnt = k.task_active_cnt
  /\ j.run_ptr = k.run_ptr
  /\ j.state = k.state
  /\ j.fixed_prio = k.fixed_prio
  /\ j.working_prio = k.working_prio
  /\ j.wdtifg = k.wdtifg

LEMMA KernelFields ==
  ASSUME NEW k \in Kernels
  PROVE  k = [run_queue |-> k.run_queue, it |-> k.it,
            task_active_cnt |-> k.task_active_cnt, run_ptr |-> k.run_ptr,
            state |-> k.state, fixed_prio |-> k.fixed_prio,
            working_prio |-> k.working_prio, nest |-> k.nest,
            gie |-> k.gie, wdtifg |-> k.wdtifg]
BY DEF Kernels

LEMMA KernelTypes ==
  ASSUME NEW k \in Kernels
  PROVE  /\ k.run_queue \in Seq(Threads)
         /\ k.it \in Threads \cup {ListHead}
         /\ k.task_active_cnt \in Nat
         /\ k.run_ptr \in Tasks
         /\ k.state \in [Tasks -> ThreadStates]
         /\ k.fixed_prio \in [Tasks -> Nat]
         /\ k.working_prio \in [Tasks -> Nat]
         /\ k.nest \in Nat
         /\ k.gie \in BOOLEAN
         /\ k.wdtifg \in BOOLEAN
BY DEF Kernels

LEMMA KernelUpdates ==
  ASSUME NEW k \in Kernels
  PROVE  /\ \A x \in Seq(Threads) : [k EXCEPT !.run_queue = x] \in Kernels
         /\ \A x \in Threads \cup {ListHead} : [k EXCEPT !.it = x] \in Kernels
         /\ \A x \in Nat : [k EXCEPT !.task_active_cnt = x] \in Kernels
         /\ \A x \in Tasks : [k EXCEPT !.run_ptr = x] \in Kernels
         /\ \A x \in [Tasks -> ThreadStates] : [k EXCEPT !.state = x] \in Kernels
         /\ \A x \in [Tasks -> Nat] : [k EXCEPT !.fixed_prio = x] \in Kernels
         /\ \A x \in [Tasks -> Nat] : [k EXCEPT !.working_prio = x] \in Kernels
         /\ \A x \in Nat : [k EXCEPT !.nest = x] \in Kernels
         /\ \A x \in BOOLEAN : [k EXCEPT !.gie = x] \in Kernels
         /\ \A x \in BOOLEAN : [k EXCEPT !.wdtifg = x] \in Kernels
<1>1. ASSUME NEW x \in Seq(Threads) PROVE [k EXCEPT !.run_queue = x] \in Kernels
  BY DEF Kernels
<1>2. ASSUME NEW x \in Threads \cup {ListHead} PROVE [k EXCEPT !.it = x] \in Kernels
  BY DEF Kernels
<1>3. ASSUME NEW x \in Nat PROVE [k EXCEPT !.task_active_cnt = x] \in Kernels
  BY DEF Kernels
<1>4. ASSUME NEW x \in Tasks PROVE [k EXCEPT !.run_ptr = x] \in Kernels
  BY DEF Kernels
<1>5. ASSUME NEW x \in [Tasks -> ThreadStates] PROVE [k EXCEPT !.state = x] \in Kernels
  BY DEF Kernels
<1>6. ASSUME NEW x \in [Tasks -> Nat] PROVE [k EXCEPT !.fixed_prio = x] \in Kernels
  BY DEF Kernels
<1>7. ASSUME NEW x \in [Tasks -> Nat] PROVE [k EXCEPT !.working_prio = x] \in Kernels
  BY DEF Kernels
<1>8. ASSUME NEW x \in Nat PROVE [k EXCEPT !.nest = x] \in Kernels
  BY DEF Kernels
<1>9. ASSUME NEW x \in BOOLEAN PROVE [k EXCEPT !.gie = x] \in Kernels
  BY DEF Kernels
<1>10. ASSUME NEW x \in BOOLEAN PROVE [k EXCEPT !.wdtifg = x] \in Kernels
  BY DEF Kernels
<1>11. QED BY <1>1, <1>2, <1>3, <1>4, <1>5, <1>6, <1>7, <1>8, <1>9, <1>10

LEMMA KernelEquality ==
  ASSUME NEW j \in Kernels, NEW k \in Kernels,
         SameScheduler(j, k), j.nest = k.nest, j.gie = k.gie
  PROVE  j = k
<1>1. j = [run_queue |-> j.run_queue, it |-> j.it,
            task_active_cnt |-> j.task_active_cnt, run_ptr |-> j.run_ptr,
            state |-> j.state, fixed_prio |-> j.fixed_prio,
            working_prio |-> j.working_prio, nest |-> j.nest,
            gie |-> j.gie, wdtifg |-> j.wdtifg]
  BY KernelFields
<1>2. k = [run_queue |-> k.run_queue, it |-> k.it,
            task_active_cnt |-> k.task_active_cnt, run_ptr |-> k.run_ptr,
            state |-> k.state, fixed_prio |-> k.fixed_prio,
            working_prio |-> k.working_prio, nest |-> k.nest,
            gie |-> k.gie, wdtifg |-> k.wdtifg]
  BY KernelFields
<1>3. QED BY <1>1, <1>2, Zenon DEF SameScheduler

LEMMA StartEffect ==
  ASSUME NEW k \in Kernels
  PROVE  /\ start_critical(k) \in Kernels
         /\ SameScheduler(start_critical(k), k)
         /\ start_critical(k).nest = k.nest + 1
         /\ start_critical(k).gie = FALSE
<1> DEFINE j == [k EXCEPT !.gie = FALSE]
<1>1. j \in Kernels
  BY KernelUpdates
<1>2. k.nest + 1 \in Nat
  BY KernelTypes
<1>3. start_critical(k) = [j EXCEPT !.nest = k.nest + 1]
  BY DEF start_critical, Kernels
<1> HIDE DEF j
<1>4. start_critical(k) \in Kernels
  BY <1>1, <1>2, <1>3, KernelUpdates
<1>5. QED
  BY <1>4 DEF start_critical, Kernels, SameScheduler

\* j is what a body leaves that was entered with start_critical(k).
LEMMA EndEffect ==
  ASSUME NEW k \in Kernels, NestOK(k),
         NEW j \in Kernels, j.nest = k.nest + 1, j.gie = FALSE
  PROVE  /\ end_critical(j) \in Kernels
         /\ SameScheduler(end_critical(j), j)
         /\ end_critical(j).nest = k.nest
         /\ end_critical(j).gie = k.gie
<1> DEFINE g == j.gie \/ j.nest = 1
           i == [j EXCEPT !.gie = g]
<1>1. k.nest \in Nat /\ j.nest \in Nat /\ j.nest - 1 = k.nest /\ j.nest # 0
  <2>1. k.nest \in Nat /\ j.nest \in Nat
    BY KernelTypes, Zenon
  <2>2. QED BY <2>1
<1>2. g = k.gie /\ g \in BOOLEAN
  BY <1>1 DEF NestOK
<1>3. end_critical(j) = [i EXCEPT !.nest = j.nest - 1]
  BY <1>1 DEF end_critical, Kernels
<1> HIDE DEF g
<1>4. i \in Kernels
  BY <1>2, KernelUpdates
<1>5. SameScheduler(i, j) /\ i.gie = k.gie
  BY <1>2 DEF Kernels, SameScheduler
<1> HIDE DEF i
<1>6. /\ end_critical(j) \in Kernels
      /\ end_critical(j).nest = k.nest
      /\ end_critical(j).gie = i.gie
      /\ SameScheduler(end_critical(j), i)
  <2>1. end_critical(j) \in Kernels
    BY <1>1, <1>3, <1>4, KernelUpdates
  <2>2. QED
    BY <1>1, <1>3, <1>4, <2>1 DEF Kernels, SameScheduler
<1>7. QED
  BY <1>5, <1>6, Zenon DEF SameScheduler

LEMMA EmptySection ==
  ASSUME NEW k \in Kernels, NestOK(k)
  PROVE  end_critical(start_critical(k)) = k
<1> DEFINE j == start_critical(k)
<1>1. /\ j \in Kernels
      /\ SameScheduler(j, k)
      /\ j.nest = k.nest + 1
      /\ j.gie = FALSE
  BY StartEffect
<1> HIDE DEF j
<1>2. /\ end_critical(j) \in Kernels
      /\ SameScheduler(end_critical(j), j)
      /\ end_critical(j).nest = k.nest
      /\ end_critical(j).gie = k.gie
  BY <1>1, EndEffect
<1>3. SameScheduler(end_critical(j), k)
  BY <1>1, <1>2 DEF SameScheduler
<1>4. end_critical(j) = k
  BY <1>2, <1>3, KernelEquality
<1>5. QED BY <1>4 DEF j

LEMMA StartNest ==
  ASSUME NEW k \in Kernels
  PROVE  NestOK(start_critical(k))
<1>1. k.nest \in Nat
  BY KernelTypes, Zenon
<1>2. k.nest + 1 # 0
  BY <1>1
<1>3. start_critical(k).nest = k.nest + 1 /\ start_critical(k).gie = FALSE
  BY StartEffect, Zenon
<1>4. QED BY <1>2, <1>3 DEF NestOK

-----------------------------------------------------------------------------
(* What the operations of the run queue change.                            *)

LEMMA AddEffect ==
  ASSUME NEW k \in Kernels, NEW t \in Threads, ~Linked(k.run_queue, t)
  PROVE  LET j == os_add_task_mmang(k, t)
         IN  /\ j \in Kernels
             /\ j.run_queue = Append(k.run_queue, t)
             /\ j.it = IF k.task_active_cnt = 0 THEN ListHead ELSE k.it
             /\ j.task_active_cnt = k.task_active_cnt + 1
             /\ j.run_ptr = k.run_ptr
             /\ j.state = k.state
             /\ j.fixed_prio = k.fixed_prio
             /\ j.working_prio = k.working_prio
             /\ j.nest = k.nest
             /\ j.gie = k.gie
             /\ j.wdtifg = k.wdtifg
<1> DEFINE x == IF k.task_active_cnt = 0 THEN ListHead ELSE k.it
           h == [k EXCEPT !.it = x]
           i == [h EXCEPT !.run_queue = Append(k.run_queue, t)]
           n == k.task_active_cnt + 1
           j == [i EXCEPT !.task_active_cnt = n]
<1>1. x \in Threads \cup {ListHead} /\ n \in Nat /\ Append(k.run_queue, t) \in Seq(Threads)
  BY KernelTypes
<1>2. h = IF k.task_active_cnt = 0 THEN [k EXCEPT !.it = ListHead] ELSE k
  <2>1. CASE k.task_active_cnt = 0
    BY <2>1
  <2>2. CASE k.task_active_cnt # 0
    BY <2>2 DEF Kernels
  <2>3. QED BY <2>1, <2>2
<1>3. h \in Kernels
  BY <1>1, KernelUpdates
<1>4. /\ h.run_queue = k.run_queue
      /\ h.task_active_cnt = k.task_active_cnt
      /\ h.it = x
      /\ h.run_ptr = k.run_ptr /\ h.state = k.state
      /\ h.fixed_prio = k.fixed_prio /\ h.working_prio = k.working_prio
      /\ h.nest = k.nest /\ h.gie = k.gie /\ h.wdtifg = k.wdtifg
  BY DEF Kernels
<1> HIDE DEF x
<1>5. os_add_task_mmang(k, t) = j
  BY <1>2, <1>3, <1>4 DEF os_add_task_mmang
<1> HIDE DEF h, n
<1>6. i \in Kernels
  BY <1>1, <1>3, KernelUpdates
<1>7. /\ i.run_queue = Append(k.run_queue, t)
      /\ i.task_active_cnt = h.task_active_cnt
      /\ i.it = h.it
      /\ i.run_ptr = h.run_ptr /\ i.state = h.state
      /\ i.fixed_prio = h.fixed_prio /\ i.working_prio = h.working_prio
      /\ i.nest = h.nest /\ i.gie = h.gie /\ i.wdtifg = h.wdtifg
  BY <1>3 DEF Kernels
<1> HIDE DEF i
<1>8. j \in Kernels
  BY <1>1, <1>6, KernelUpdates
<1>9. /\ j.run_queue = i.run_queue
      /\ j.task_active_cnt = n
      /\ j.it = i.it
      /\ j.run_ptr = i.run_ptr /\ j.state = i.state
      /\ j.fixed_prio = i.fixed_prio /\ j.working_prio = i.working_prio
      /\ j.nest = i.nest /\ j.gie = i.gie /\ j.wdtifg = i.wdtifg
  BY <1>6 DEF Kernels
<1> HIDE DEF j
<1>10. QED
  BY <1>4, <1>5, <1>7, <1>8, <1>9, Zenon DEF n, x

LEMMA DelEffect ==
  ASSUME NEW k \in Kernels, NEW t \in Threads, Linked(k.run_queue, t),
         Distinct(k.run_queue), Linked(k.run_queue, k.it), k.task_active_cnt # 0
  PROVE  LET j == os_del_task_mmang(k, t)
         IN  /\ j \in Kernels
             /\ j.run_queue = Unlink(k.run_queue, t)
             /\ j.it = PrevCircular(k.run_queue, k.it)
             /\ j.task_active_cnt = k.task_active_cnt - 1
             /\ j.run_ptr = k.run_ptr
             /\ j.state = k.state
             /\ j.fixed_prio = k.fixed_prio
             /\ j.working_prio = k.working_prio
             /\ j.nest = k.nest
             /\ j.gie = k.gie
             /\ j.wdtifg = k.wdtifg
<1> DEFINE x == PrevCircular(k.run_queue, k.it)
           q == Unlink(k.run_queue, t)
           h == [k EXCEPT !.it = x]
           i == [h EXCEPT !.run_queue = q]
           n == k.task_active_cnt - 1
           j == [i EXCEPT !.task_active_cnt = n]
<1>1. /\ k.run_queue \in Seq(Threads)
      /\ k.task_active_cnt \in Nat
  BY KernelTypes, Zenon
<1>2. k.run_queue # <<>>
  BY <1>1, LinkedElements
<1>3. x \in Threads \cup {ListHead} /\ n \in Nat /\ q \in Seq(Threads)
  BY <1>1, <1>2, PrevOnQueue, UnlinkElements
<1>4. h \in Kernels
  BY <1>3, KernelUpdates
<1>5. /\ h.run_queue = k.run_queue
      /\ h.task_active_cnt = k.task_active_cnt
      /\ h.it = x
      /\ h.run_ptr = k.run_ptr /\ h.state = k.state
      /\ h.fixed_prio = k.fixed_prio /\ h.working_prio = k.working_prio
      /\ h.nest = k.nest /\ h.gie = k.gie /\ h.wdtifg = k.wdtifg
  BY DEF Kernels
<1>6. os_del_task_mmang(k, t) = j
  BY <1>4, <1>5 DEF os_del_task_mmang
<1> HIDE DEF x, q, h, n
<1>7. i \in Kernels
  BY <1>3, <1>4, KernelUpdates
<1>8. /\ i.run_queue = q
      /\ i.task_active_cnt = h.task_active_cnt
      /\ i.it = h.it
      /\ i.run_ptr = h.run_ptr /\ i.state = h.state
      /\ i.fixed_prio = h.fixed_prio /\ i.working_prio = h.working_prio
      /\ i.nest = h.nest /\ i.gie = h.gie /\ i.wdtifg = h.wdtifg
  BY <1>4 DEF Kernels
<1> HIDE DEF i
<1>9. j \in Kernels
  BY <1>3, <1>7, KernelUpdates
<1>10. /\ j.run_queue = i.run_queue
       /\ j.task_active_cnt = n
       /\ j.it = i.it
       /\ j.run_ptr = i.run_ptr /\ j.state = i.state
       /\ j.fixed_prio = i.fixed_prio /\ j.working_prio = i.working_prio
       /\ j.nest = i.nest /\ j.gie = i.gie /\ j.wdtifg = i.wdtifg
  BY <1>7 DEF Kernels
<1> HIDE DEF j
<1>11. QED
  BY <1>5, <1>6, <1>8, <1>9, <1>10, Zenon DEF n, x, q

\* A critical section around an operation adds nothing to it.
LEMMA AddSection ==
  ASSUME NEW k \in Kernels, NestOK(k), NEW t \in Threads, ~Linked(k.run_queue, t)
  PROVE  os_add_task(k, t) = os_add_task_mmang(k, t)
<1> DEFINE s == start_critical(k)
           a == os_add_task_mmang(s, t)
           b == os_add_task_mmang(k, t)
<1>1. /\ s \in Kernels /\ SameScheduler(s, k)
      /\ s.nest = k.nest + 1 /\ s.gie = FALSE
  BY StartEffect
<1>2. ~Linked(s.run_queue, t)
  BY <1>1 DEF SameScheduler
<1> HIDE DEF s
<1>3. /\ a \in Kernels /\ a.nest = k.nest + 1 /\ a.gie = FALSE
  BY <1>1, <1>2, AddEffect, Zenon
<1>4. b \in Kernels /\ b.nest = k.nest /\ b.gie = k.gie
  BY AddEffect, Zenon
<1>5. SameScheduler(a, b)
  <2>1. SameScheduler(s, k)
    BY <1>1
  <2>2. /\ a.run_queue = Append(s.run_queue, t)
        /\ a.it = IF s.task_active_cnt = 0 THEN ListHead ELSE s.it
        /\ a.task_active_cnt = s.task_active_cnt + 1 /\ a.run_ptr = s.run_ptr
        /\ a.state = s.state /\ a.fixed_prio = s.fixed_prio
        /\ a.working_prio = s.working_prio /\ a.wdtifg = s.wdtifg
    BY <1>1, <1>2, AddEffect, Zenon
  <2>3. /\ b.run_queue = Append(k.run_queue, t)
        /\ b.it = IF k.task_active_cnt = 0 THEN ListHead ELSE k.it
        /\ b.task_active_cnt = k.task_active_cnt + 1 /\ b.run_ptr = k.run_ptr
        /\ b.state = k.state /\ b.fixed_prio = k.fixed_prio
        /\ b.working_prio = k.working_prio /\ b.wdtifg = k.wdtifg
    BY AddEffect, Zenon
  <2> HIDE DEF a, b
  <2> QED
    BY <2>1, <2>2, <2>3 DEF SameScheduler
<1> HIDE DEF a, b
<1>6. /\ end_critical(a) \in Kernels /\ SameScheduler(end_critical(a), a)
      /\ end_critical(a).nest = k.nest /\ end_critical(a).gie = k.gie
  BY <1>3, EndEffect
<1>7. SameScheduler(end_critical(a), b)
  BY <1>5, <1>6, Zenon DEF SameScheduler
<1>8. end_critical(a) = b
  BY <1>4, <1>6, <1>7, KernelEquality, Zenon
<1>9. QED BY <1>8 DEF a, b, s, os_add_task

LEMMA DelSection ==
  ASSUME NEW k \in Kernels, NestOK(k), NEW t \in Threads, Linked(k.run_queue, t),
         Distinct(k.run_queue), Linked(k.run_queue, k.it), k.task_active_cnt # 0
  PROVE  os_del_task(k, t) = os_del_task_mmang(k, t)
<1> DEFINE s == start_critical(k)
           a == os_del_task_mmang(s, t)
           b == os_del_task_mmang(k, t)
<1>1. /\ s \in Kernels /\ SameScheduler(s, k)
      /\ s.nest = k.nest + 1 /\ s.gie = FALSE
  BY StartEffect
<1>2. /\ Linked(s.run_queue, t) /\ Distinct(s.run_queue)
      /\ Linked(s.run_queue, s.it) /\ s.task_active_cnt # 0
  BY <1>1 DEF SameScheduler
<1> HIDE DEF s
<1>3. /\ a \in Kernels /\ a.nest = k.nest + 1 /\ a.gie = FALSE
  BY <1>1, <1>2, DelEffect, Zenon
<1>4. b \in Kernels /\ b.nest = k.nest /\ b.gie = k.gie
  BY DelEffect, Zenon
<1>5. SameScheduler(a, b)
  BY <1>1, <1>2, DelEffect DEF SameScheduler
<1> HIDE DEF a, b
<1>6. /\ end_critical(a) \in Kernels /\ SameScheduler(end_critical(a), a)
      /\ end_critical(a).nest = k.nest /\ end_critical(a).gie = k.gie
  BY <1>3, EndEffect
<1>7. SameScheduler(end_critical(a), b)
  BY <1>5, <1>6, Zenon DEF SameScheduler
<1>8. end_critical(a) = b
  BY <1>4, <1>6, <1>7, KernelEquality, Zenon
<1>9. QED BY <1>8 DEF a, b, s, os_del_task

-----------------------------------------------------------------------------
(* What blocking and waking a thread change.  The caller may be inside a   *)
(* critical section of its own.                                            *)

LEMMA UnpauseEffect ==
  ASSUME NEW k \in Kernels, NestOK(k), NEW t \in Threads, ~Linked(k.run_queue, t)
  PROVE  LET j == os_task_unpause(k, t)
         IN  /\ j \in Kernels
             /\ j.run_queue = Append(k.run_queue, t)
             /\ j.it = IF k.task_active_cnt = 0 THEN ListHead ELSE k.it
             /\ j.task_active_cnt = k.task_active_cnt + 1
             /\ j.run_ptr = k.run_ptr
             /\ j.state = [k.state EXCEPT ![t] = "ACTIVE"]
             /\ j.fixed_prio = k.fixed_prio
             /\ j.working_prio = k.working_prio
             /\ j.nest = k.nest
             /\ j.gie = k.gie
             /\ j.wdtifg = k.wdtifg
<1> DEFINE s == start_critical(k)
           f == [k.state EXCEPT ![t] = "ACTIVE"]
           h == [s EXCEPT !.state = f]
           a == os_add_task_mmang(h, t)
           j == end_critical(a)
<1>1. /\ s \in Kernels /\ SameScheduler(s, k)
      /\ s.nest = k.nest + 1 /\ s.gie = FALSE /\ NestOK(s)
  BY StartEffect, StartNest
<1>2. f \in [Tasks -> ThreadStates]
  <2>1. k.state \in [Tasks -> ThreadStates]
    BY KernelTypes, Zenon
  <2>2. QED BY <2>1 DEF ThreadStates
<1>3. h = [s EXCEPT !.state[t] = "ACTIVE"]
  BY <1>1 DEF SameScheduler
<1> HIDE DEF s, f
<1>4. h \in Kernels
  BY <1>1, <1>2, KernelUpdates
<1>5. /\ h.state = f
      /\ h.run_queue = s.run_queue /\ h.it = s.it
      /\ h.task_active_cnt = s.task_active_cnt /\ h.run_ptr = s.run_ptr
      /\ h.fixed_prio = s.fixed_prio /\ h.working_prio = s.working_prio
      /\ h.nest = s.nest /\ h.gie = s.gie /\ h.wdtifg = s.wdtifg
  BY <1>1 DEF Kernels
<1> HIDE DEF h
<1>6. NestOK(h) /\ ~Linked(h.run_queue, t)
  BY <1>1, <1>5 DEF NestOK, SameScheduler
<1>7. j = os_task_unpause(k, t)
  BY <1>3, <1>4, <1>6, AddSection DEF os_task_unpause, s
<1>8. /\ a \in Kernels
      /\ a.run_queue = Append(h.run_queue, t)
      /\ a.it = IF h.task_active_cnt = 0 THEN ListHead ELSE h.it
      /\ a.task_active_cnt = h.task_active_cnt + 1
      /\ a.run_ptr = h.run_ptr /\ a.state = h.state
      /\ a.fixed_prio = h.fixed_prio /\ a.working_prio = h.working_prio
      /\ a.nest = h.nest /\ a.gie = h.gie /\ a.wdtifg = h.wdtifg
  BY <1>4, <1>6, AddEffect, Zenon
<1> HIDE DEF a
<1>9. /\ j \in Kernels /\ SameScheduler(j, a)
      /\ j.nest = k.nest /\ j.gie = k.gie
  <2>1. a.nest = k.nest + 1 /\ a.gie = FALSE
    BY <1>1, <1>5, <1>8
  <2>2. QED BY <1>8, <2>1, EndEffect
<1> HIDE DEF j
<1>10. QED
  BY <1>1, <1>5, <1>7, <1>8, <1>9 DEF SameScheduler, f

LEMMA PauseEffect ==
  ASSUME NEW k \in Kernels, NestOK(k), NEW t \in Threads, Linked(k.run_queue, t),
         Distinct(k.run_queue), Linked(k.run_queue, k.it), k.task_active_cnt # 0
  PROVE  LET j == os_task_pause(k, t)
         IN  /\ j \in Kernels
             /\ j.run_queue = Unlink(k.run_queue, t)
             /\ j.it = PrevCircular(k.run_queue, k.it)
             /\ j.task_active_cnt = k.task_active_cnt - 1
             /\ j.run_ptr = k.run_ptr
             /\ j.state = k.state
             /\ j.fixed_prio = k.fixed_prio
             /\ j.working_prio = k.working_prio
             /\ j.nest = k.nest
             /\ j.gie = k.gie
             /\ j.wdtifg = TRUE
<1> DEFINE s == start_critical(k)
           d == os_del_task_mmang(s, t)
           y == [d EXCEPT !.wdtifg = TRUE]
           j == end_critical(y)
<1>1. /\ s \in Kernels /\ SameScheduler(s, k)
      /\ s.nest = k.nest + 1 /\ s.gie = FALSE /\ NestOK(s)
  BY StartEffect, StartNest
<1> HIDE DEF s
<1>2. /\ Linked(s.run_queue, t) /\ Distinct(s.run_queue)
      /\ Linked(s.run_queue, s.it) /\ s.task_active_cnt # 0
  BY <1>1 DEF SameScheduler
<1>3. j = os_task_pause(k, t)
  BY <1>1, <1>2, DelSection DEF os_task_pause, os_task_yield, s
<1>4. /\ d \in Kernels
      /\ d.run_queue = Unlink(s.run_queue, t)
      /\ d.it = PrevCircular(s.run_queue, s.it)
      /\ d.task_active_cnt = s.task_active_cnt - 1
      /\ d.run_ptr = s.run_ptr /\ d.state = s.state
      /\ d.fixed_prio = s.fixed_prio /\ d.working_prio = s.working_prio
      /\ d.nest = s.nest /\ d.gie = s.gie
  BY <1>1, <1>2, DelEffect, Zenon
<1> HIDE DEF d
<1>5. y \in Kernels
  BY <1>4, KernelUpdates
<1>6. /\ y.run_queue = d.run_queue /\ y.it = d.it
      /\ y.task_active_cnt = d.task_active_cnt
      /\ y.run_ptr = d.run_ptr /\ y.state = d.state
      /\ y.fixed_prio = d.fixed_prio /\ y.working_prio = d.working_prio
      /\ y.nest = d.nest /\ y.gie = d.gie /\ y.wdtifg = TRUE
  BY <1>4 DEF Kernels
<1> HIDE DEF y
<1>7. /\ j \in Kernels /\ SameScheduler(j, y)
      /\ j.nest = k.nest /\ j.gie = k.gie
  <2>1. y.nest = k.nest + 1 /\ y.gie = FALSE
    BY <1>1, <1>4, <1>6
  <2>2. QED BY <1>5, <2>1, EndEffect
<1> HIDE DEF j
<1>8. QED
  BY <1>1, <1>3, <1>4, <1>6, <1>7 DEF SameScheduler

LEMMA BlockEffect ==
  ASSUME NEW k \in Kernels, NestOK(k), NEW t \in Threads, Linked(k.run_queue, t),
         Distinct(k.run_queue), Linked(k.run_queue, k.it), k.task_active_cnt # 0
  PROVE  LET j == os_task_block(k, t)
         IN  /\ j \in Kernels
             /\ j.run_queue = Unlink(k.run_queue, t)
             /\ j.it = PrevCircular(k.run_queue, k.it)
             /\ j.task_active_cnt = k.task_active_cnt - 1
             /\ j.run_ptr = k.run_ptr
             /\ j.state = [k.state EXCEPT ![t] = "BLOCKING"]
             /\ j.fixed_prio = k.fixed_prio
             /\ j.working_prio = k.working_prio
             /\ j.nest = k.nest
             /\ j.gie = k.gie
             /\ j.wdtifg = TRUE
<1> DEFINE s == start_critical(k)
           f == [k.state EXCEPT ![t] = "BLOCKING"]
           h == [s EXCEPT !.state = f]
           a == os_task_pause(h, t)
           j == end_critical(a)
<1>1. /\ s \in Kernels /\ SameScheduler(s, k)
      /\ s.nest = k.nest + 1 /\ s.gie = FALSE /\ NestOK(s)
  BY StartEffect, StartNest
<1>2. f \in [Tasks -> ThreadStates]
  <2>1. k.state \in [Tasks -> ThreadStates]
    BY KernelTypes, Zenon
  <2>2. QED BY <2>1 DEF ThreadStates
<1>3. h = [s EXCEPT !.state[t] = "BLOCKING"]
  BY <1>1 DEF SameScheduler
<1> HIDE DEF s, f
<1>4. h \in Kernels
  BY <1>1, <1>2, KernelUpdates
<1>5. /\ h.state = f
      /\ h.run_queue = s.run_queue /\ h.it = s.it
      /\ h.task_active_cnt = s.task_active_cnt /\ h.run_ptr = s.run_ptr
      /\ h.fixed_prio = s.fixed_prio /\ h.working_prio = s.working_prio
      /\ h.nest = s.nest /\ h.gie = s.gie /\ h.wdtifg = s.wdtifg
  BY <1>1 DEF Kernels
<1>6. j = os_task_block(k, t)
  BY <1>3 DEF os_task_block, s
<1> HIDE DEF h
<1>7. /\ NestOK(h) /\ Linked(h.run_queue, t) /\ Distinct(h.run_queue)
      /\ Linked(h.run_queue, h.it) /\ h.task_active_cnt # 0
  BY <1>1, <1>5 DEF NestOK, SameScheduler
<1>8. /\ a \in Kernels
      /\ a.run_queue = Unlink(h.run_queue, t)
      /\ a.it = PrevCircular(h.run_queue, h.it)
      /\ a.task_active_cnt = h.task_active_cnt - 1
      /\ a.run_ptr = h.run_ptr /\ a.state = h.state
      /\ a.fixed_prio = h.fixed_prio /\ a.working_prio = h.working_prio
      /\ a.nest = h.nest /\ a.gie = h.gie /\ a.wdtifg = TRUE
  BY <1>4, <1>7, PauseEffect, Zenon
<1> HIDE DEF a
<1>9. /\ j \in Kernels /\ SameScheduler(j, a)
      /\ j.nest = k.nest /\ j.gie = k.gie
  <2>1. a.nest = k.nest + 1 /\ a.gie = FALSE
    BY <1>1, <1>5, <1>8
  <2>2. QED BY <1>8, <2>1, EndEffect
<1> HIDE DEF j
<1>10. QED
  BY <1>1, <1>5, <1>6, <1>8, <1>9 DEF SameScheduler, f

\* Blocking inside the critical section of its caller.
LEMMA BlockSection ==
  ASSUME NEW k \in Kernels, NestOK(k), NEW t \in Threads, Linked(k.run_queue, t),
         Distinct(k.run_queue), Linked(k.run_queue, k.it), k.task_active_cnt # 0
  PROVE  end_critical(os_task_block(start_critical(k), t)) = os_task_block(k, t)
<1> DEFINE s == start_critical(k)
           a == os_task_block(s, t)
           b == os_task_block(k, t)
<1>1. /\ s \in Kernels /\ SameScheduler(s, k)
      /\ s.nest = k.nest + 1 /\ s.gie = FALSE /\ NestOK(s)
  BY StartEffect, StartNest
<1>2. /\ Linked(s.run_queue, t) /\ Distinct(s.run_queue)
      /\ Linked(s.run_queue, s.it) /\ s.task_active_cnt # 0
  BY <1>1 DEF SameScheduler
<1> HIDE DEF s
<1>3. /\ a \in Kernels /\ a.nest = k.nest + 1 /\ a.gie = FALSE
  BY <1>1, <1>2, BlockEffect, Zenon
<1>4. b \in Kernels /\ b.nest = k.nest /\ b.gie = k.gie
  BY BlockEffect, Zenon
<1>5. SameScheduler(a, b)
  <2>1. [s.state EXCEPT ![t] = "BLOCKING"] = [k.state EXCEPT ![t] = "BLOCKING"]
    BY <1>1 DEF SameScheduler
  <2> DEFINE g == [s.state EXCEPT ![t] = "BLOCKING"]
  <2>2. a.state = g
    BY <1>1, <1>2, BlockEffect, Zenon
  <2>3. b.state = g
    BY <2>1, BlockEffect, Zenon
  <2> HIDE DEF g
  <2>4. /\ a.run_queue = Unlink(s.run_queue, t)
        /\ a.it = PrevCircular(s.run_queue, s.it)
        /\ a.task_active_cnt = s.task_active_cnt - 1
        /\ a.run_ptr = s.run_ptr
        /\ a.fixed_prio = s.fixed_prio /\ a.working_prio = s.working_prio
        /\ a.wdtifg = TRUE
    BY <1>1, <1>2, BlockEffect, Zenon
  <2>5. /\ b.run_queue = Unlink(k.run_queue, t)
        /\ b.it = PrevCircular(k.run_queue, k.it)
        /\ b.task_active_cnt = k.task_active_cnt - 1
        /\ b.run_ptr = k.run_ptr
        /\ b.fixed_prio = k.fixed_prio /\ b.working_prio = k.working_prio
        /\ b.wdtifg = TRUE
    BY BlockEffect, Zenon
  <2>6. QED
    BY <1>1, <2>2, <2>3, <2>4, <2>5 DEF SameScheduler
<1> HIDE DEF a, b
<1>6. /\ end_critical(a) \in Kernels /\ SameScheduler(end_critical(a), a)
      /\ end_critical(a).nest = k.nest /\ end_critical(a).gie = k.gie
  BY <1>3, EndEffect
<1>7. SameScheduler(end_critical(a), b)
  BY <1>5, <1>6, Zenon DEF SameScheduler
<1>8. end_critical(a) = b
  BY <1>4, <1>6, <1>7, KernelEquality, Zenon
<1>9. QED BY <1>8 DEF a, b, s

\* Waking inside the critical section of its caller.
LEMMA UnpauseSection ==
  ASSUME NEW k \in Kernels, NestOK(k), NEW t \in Threads, ~Linked(k.run_queue, t)
  PROVE  end_critical(os_task_unpause(start_critical(k), t)) = os_task_unpause(k, t)
<1> DEFINE s == start_critical(k)
           a == os_task_unpause(s, t)
           b == os_task_unpause(k, t)
<1>1. /\ s \in Kernels /\ SameScheduler(s, k)
      /\ s.nest = k.nest + 1 /\ s.gie = FALSE /\ NestOK(s)
  BY StartEffect, StartNest
<1>2. ~Linked(s.run_queue, t)
  BY <1>1 DEF SameScheduler
<1> HIDE DEF s
<1>3. /\ a \in Kernels /\ a.nest = k.nest + 1 /\ a.gie = FALSE
  BY <1>1, <1>2, UnpauseEffect, Zenon
<1>4. b \in Kernels /\ b.nest = k.nest /\ b.gie = k.gie
  BY UnpauseEffect, Zenon
<1>5. SameScheduler(a, b)
  <2>1. [s.state EXCEPT ![t] = "ACTIVE"] = [k.state EXCEPT ![t] = "ACTIVE"]
    BY <1>1 DEF SameScheduler
  <2> DEFINE g == [s.state EXCEPT ![t] = "ACTIVE"]
  <2>2. a.state = g
    BY <1>1, <1>2, UnpauseEffect, Zenon
  <2>3. b.state = g
    BY <2>1, UnpauseEffect, Zenon
  <2> HIDE DEF g
  <2>4. /\ a.run_queue = Append(s.run_queue, t)
        /\ a.it = IF s.task_active_cnt = 0 THEN ListHead ELSE s.it
        /\ a.task_active_cnt = s.task_active_cnt + 1
        /\ a.run_ptr = s.run_ptr
        /\ a.fixed_prio = s.fixed_prio /\ a.working_prio = s.working_prio
        /\ a.wdtifg = s.wdtifg
    BY <1>1, <1>2, UnpauseEffect, Zenon
  <2>5. /\ b.run_queue = Append(k.run_queue, t)
        /\ b.it = IF k.task_active_cnt = 0 THEN ListHead ELSE k.it
        /\ b.task_active_cnt = k.task_active_cnt + 1
        /\ b.run_ptr = k.run_ptr
        /\ b.fixed_prio = k.fixed_prio /\ b.working_prio = k.working_prio
        /\ b.wdtifg = k.wdtifg
    BY UnpauseEffect, Zenon
  <2>6. QED
    BY <1>1, <2>2, <2>3, <2>4, <2>5 DEF SameScheduler
<1> HIDE DEF a, b
<1>6. /\ end_critical(a) \in Kernels /\ SameScheduler(end_critical(a), a)
      /\ end_critical(a).nest = k.nest /\ end_critical(a).gie = k.gie
  BY <1>3, EndEffect
<1>7. SameScheduler(end_critical(a), b)
  BY <1>5, <1>6, Zenon DEF SameScheduler
<1>8. end_critical(a) = b
  BY <1>4, <1>6, <1>7, KernelEquality, Zenon
<1>9. QED BY <1>8 DEF a, b, s

\* What the critical section in which a thread goes to sleep changes: it keeps
\* its place in the run queue and gets a full slice.
LEMMA FallEffect ==
  ASSUME NEW k \in Kernels, NestOK(k), NEW t \in Threads
  PROVE  LET j == end_critical([start_critical(k) EXCEPT
                                  !.state[t] = "SLEEPING",
                                  !.working_prio[t] = k.fixed_prio[t]])
         IN  /\ j \in Kernels
             /\ j.run_queue = k.run_queue
             /\ j.it = k.it
             /\ j.task_active_cnt = k.task_active_cnt
             /\ j.run_ptr = k.run_ptr
             /\ j.state = [k.state EXCEPT ![t] = "SLEEPING"]
             /\ j.fixed_prio = k.fixed_prio
             /\ j.working_prio = [k.working_prio EXCEPT ![t] = k.fixed_prio[t]]
             /\ j.nest = k.nest
             /\ j.gie = k.gie
             /\ j.wdtifg = k.wdtifg
<1> DEFINE s == start_critical(k)
           f == [k.state EXCEPT ![t] = "SLEEPING"]
           w == [k.working_prio EXCEPT ![t] = k.fixed_prio[t]]
           h == [s EXCEPT !.state = f]
           g == [h EXCEPT !.working_prio = w]
           j == end_critical(g)
<1>1. /\ s \in Kernels /\ SameScheduler(s, k)
      /\ s.nest = k.nest + 1 /\ s.gie = FALSE
  BY StartEffect
<1>2. /\ k.state \in [Tasks -> ThreadStates]
      /\ k.fixed_prio \in [Tasks -> Nat]
      /\ k.working_prio \in [Tasks -> Nat]
  BY KernelTypes
<1>3. f \in [Tasks -> ThreadStates]
  BY <1>2 DEF ThreadStates
<1>4. w \in [Tasks -> Nat]
  BY <1>2 DEF Tasks
<1>5. g = [s EXCEPT !.state[t] = "SLEEPING", !.working_prio[t] = k.fixed_prio[t]]
  <2>1. s.state = k.state /\ s.working_prio = k.working_prio
    BY <1>1 DEF SameScheduler
  <2> HIDE DEF s
  <2>2. [s EXCEPT !.state[t] = "SLEEPING", !.working_prio[t] = k.fixed_prio[t]]
          = [s EXCEPT !.state = [s.state EXCEPT ![t] = "SLEEPING"],
                      !.working_prio = [s.working_prio EXCEPT ![t] = k.fixed_prio[t]]]
    BY <1>1 DEF Kernels
  <2> QED
    BY <1>1, <2>1, <2>2 DEF Kernels
<1> HIDE DEF s, f, w
<1>6. h \in Kernels
  BY <1>1, <1>3, KernelUpdates
<1>7. /\ h.run_queue = s.run_queue /\ h.it = s.it /\ h.run_ptr = s.run_ptr
      /\ h.task_active_cnt = s.task_active_cnt /\ h.state = f
      /\ h.fixed_prio = s.fixed_prio /\ h.working_prio = s.working_prio
      /\ h.nest = s.nest /\ h.gie = s.gie /\ h.wdtifg = s.wdtifg
  BY <1>1 DEF Kernels
<1> HIDE DEF h
<1>8. g \in Kernels
  BY <1>4, <1>6, KernelUpdates
<1>9. /\ g.run_queue = h.run_queue /\ g.it = h.it /\ g.run_ptr = h.run_ptr
      /\ g.task_active_cnt = h.task_active_cnt /\ g.state = h.state
      /\ g.fixed_prio = h.fixed_prio /\ g.working_prio = w
      /\ g.nest = h.nest /\ g.gie = h.gie /\ g.wdtifg = h.wdtifg
  BY <1>6 DEF Kernels
<1>10. j = end_critical([start_critical(k) EXCEPT
                           !.state[t] = "SLEEPING",
                           !.working_prio[t] = k.fixed_prio[t]])
  BY <1>5 DEF s
<1> HIDE DEF g
<1>11. g.nest = k.nest + 1 /\ g.gie = FALSE
  BY <1>1, <1>7, <1>9
<1>12. /\ j \in Kernels /\ SameScheduler(j, g)
       /\ j.nest = k.nest /\ j.gie = k.gie
  BY <1>8, <1>11, EndEffect
<1> HIDE DEF j
<1>13. /\ j.run_queue = k.run_queue /\ j.it = k.it
       /\ j.task_active_cnt = k.task_active_cnt /\ j.run_ptr = k.run_ptr
       /\ j.state = f /\ j.fixed_prio = k.fixed_prio
       /\ j.working_prio = w /\ j.wdtifg = k.wdtifg
  BY <1>1, <1>7, <1>9, <1>12 DEF SameScheduler
<1> QED
  BY <1>10, <1>12, <1>13 DEF f, w

-----------------------------------------------------------------------------
(* The inductive invariant, operation by operation.                        *)

LEMMA SamePriorities ==
  ASSUME NEW k, PrioritiesOK(k), NEW j,
         j.fixed_prio = k.fixed_prio, j.working_prio = k.working_prio
  PROVE  PrioritiesOK(j)
BY Zenon DEF PrioritiesOK

LEMMA ActiveQueue ==
  ASSUME NEW k, KernelInv(k), NEW t \in Threads, k.state[t] = "ACTIVE"
  PROVE  /\ k.run_queue \in Seq(Threads)
         /\ Distinct(k.run_queue)
         /\ Linked(k.run_queue, t)
         /\ k.run_queue # <<>>
         /\ Linked(k.run_queue, k.it)
         /\ k.task_active_cnt = Len(k.run_queue)
         /\ k.task_active_cnt # 0
<1>1. k \in Kernels /\ k.run_queue \in Seq(Threads)
  BY KernelTypes DEF KernelInv
<1>2. /\ Distinct(k.run_queue) /\ Linked(k.run_queue, t)
      /\ k.task_active_cnt = Len(k.run_queue)
  BY DEF KernelInv, RunQueueOK, Distinct
<1>3. k.run_queue # <<>>
  BY <1>1, <1>2, LinkedElements
<1>4. Linked(k.run_queue, k.it)
  BY <1>3 DEF KernelInv, IteratorOK
<1>5. Len(k.run_queue) # 0
  BY <1>1, <1>3
<1>6. QED BY <1>1, <1>2, <1>3, <1>4, <1>5

LEMMA BlockInv ==
  ASSUME NEW k, KernelInv(k), NestOK(k), NEW t \in Threads,
         k.run_ptr = t, k.state[t] = "ACTIVE"
  PROVE  LET j == os_task_block(k, t)
         IN  /\ KernelInv(j)
             /\ j.state = [k.state EXCEPT ![t] = "BLOCKING"]
             /\ j.run_ptr = k.run_ptr
             /\ j.nest = k.nest
             /\ j.gie = k.gie
<1> DEFINE j == os_task_block(k, t)
           q == k.run_queue
<1>1. /\ k \in Kernels /\ q \in Seq(Threads) /\ Distinct(q)
      /\ Linked(q, t) /\ q # <<>> /\ Linked(q, k.it)
      /\ k.task_active_cnt = Len(q) /\ k.task_active_cnt # 0
  BY ActiveQueue DEF KernelInv
<1>2. k.it = t /\ k.state \in [Tasks -> ThreadStates] /\ t # Idle
  BY <1>1, KernelTypes, KernelAssumption DEF KernelInv, IteratorOK
<1>3. /\ j \in Kernels
      /\ j.run_queue = Unlink(q, t)
      /\ j.it = PrevCircular(q, k.it)
      /\ j.task_active_cnt = k.task_active_cnt - 1
      /\ j.run_ptr = k.run_ptr
      /\ j.state = [k.state EXCEPT ![t] = "BLOCKING"]
      /\ j.nest = k.nest /\ j.gie = k.gie /\ j.wdtifg = TRUE
      /\ j.fixed_prio = k.fixed_prio /\ j.working_prio = k.working_prio
  BY <1>1, BlockEffect, Zenon
<1> HIDE DEF j
<1>4. /\ Unlink(q, t) \in Seq(Threads)
      /\ Len(Unlink(q, t)) = Len(q) - 1
      /\ Distinct(Unlink(q, t))
      /\ \A u \in Threads : Linked(Unlink(q, t), u) <=> Linked(q, u) /\ u # t
  BY <1>1, UnlinkElements
<1>5. RunQueueOK(j)
  <2>1. Distinct(j.run_queue) /\ j.task_active_cnt = Len(j.run_queue)
    BY <1>1, <1>3, <1>4
  <2>2. ASSUME NEW u \in Threads
        PROVE  j.state[u] = "ACTIVE" <=> Linked(j.run_queue, u)
    <3>1. k.state[u] = "ACTIVE" <=> Linked(q, u)
      BY DEF KernelInv, RunQueueOK
    <3>2. CASE u = t
      BY <1>2, <1>3, <1>4, <3>2 DEF Tasks
    <3>3. CASE u # t
      BY <1>2, <1>3, <1>4, <3>1, <3>3 DEF Tasks
    <3>4. QED BY <3>2, <3>3
  <2>3. QED BY <2>1, <2>2 DEF RunQueueOK, Distinct
<1>6. IteratorOK(j)
  <2>1. j.state[j.run_ptr] # "ACTIVE"
    BY <1>2, <1>3 DEF Tasks
  <2>2. ASSUME j.run_queue # <<>> PROVE Linked(j.run_queue, j.it)
    <3>1. Len(q) > 1
      BY <1>1, <1>3, <1>4, <2>2
    <3>2. PrevCircular(q, t) \in Threads /\ Linked(q, PrevCircular(q, t))
          /\ PrevCircular(q, t) # t
      BY <1>1, <3>1, PrevOnQueue
    <3>3. QED BY <1>2, <1>3, <1>4, <3>2
  <2>3. QED BY <2>1, <2>2 DEF IteratorOK
<1>7. CpuOK(j)
  <2>1. j.state[Idle] = "ACTIVE"
    BY <1>2, <1>3 DEF KernelInv, CpuOK, Tasks
  <2>2. QED BY <1>2, <1>3, <2>1 DEF CpuOK
<1>8. KernelInv(j)
  <2>1. PrioritiesOK(j)
    BY <1>3, SamePriorities DEF KernelInv
  <2> QED
    BY <1>3, <1>5, <1>6, <1>7, <2>1 DEF KernelInv
<1>9. QED
  BY <1>3, <1>8 DEF j

LEMMA UnpauseInv ==
  ASSUME NEW k, KernelInv(k), NestOK(k), NEW t \in Threads,
         k.run_ptr \in Threads, k.state[k.run_ptr] = "ACTIVE", k.state[t] # "ACTIVE"
  PROVE  LET j == os_task_unpause(k, t)
         IN  /\ KernelInv(j)
             /\ j.state = [k.state EXCEPT ![t] = "ACTIVE"]
             /\ j.run_ptr = k.run_ptr
             /\ j.nest = k.nest
             /\ j.gie = k.gie
<1> DEFINE j == os_task_unpause(k, t)
           q == k.run_queue
           r == k.run_ptr
<1>1. /\ k \in Kernels /\ q \in Seq(Threads) /\ Distinct(q)
      /\ Linked(q, r) /\ q # <<>> /\ Linked(q, k.it)
      /\ k.task_active_cnt = Len(q) /\ k.task_active_cnt # 0
  BY ActiveQueue DEF KernelInv
<1>2. /\ k.it = r /\ r # Idle /\ r # t /\ t # Idle
      /\ k.state \in [Tasks -> ThreadStates]
      /\ ~Linked(q, t)
  BY <1>1, KernelTypes, KernelAssumption DEF KernelInv, IteratorOK, RunQueueOK
<1>3. /\ j \in Kernels
      /\ j.run_queue = Append(q, t)
      /\ j.it = k.it
      /\ j.task_active_cnt = k.task_active_cnt + 1
      /\ j.run_ptr = k.run_ptr
      /\ j.state = [k.state EXCEPT ![t] = "ACTIVE"]
      /\ j.nest = k.nest /\ j.gie = k.gie
      /\ j.fixed_prio = k.fixed_prio /\ j.working_prio = k.working_prio
  BY <1>1, <1>2, UnpauseEffect, Zenon
<1> HIDE DEF j
<1>4. /\ Append(q, t) \in Seq(Threads)
      /\ Len(Append(q, t)) = Len(q) + 1
      /\ Distinct(Append(q, t))
      /\ \A u \in Threads : Linked(Append(q, t), u) <=> Linked(q, u) \/ u = t
  BY <1>1, <1>2, AppendElements
<1>5. RunQueueOK(j)
  <2>1. Distinct(j.run_queue) /\ j.task_active_cnt = Len(j.run_queue)
    BY <1>1, <1>3, <1>4
  <2>2. ASSUME NEW u \in Threads
        PROVE  j.state[u] = "ACTIVE" <=> Linked(j.run_queue, u)
    <3>1. k.state[u] = "ACTIVE" <=> Linked(q, u)
      BY DEF KernelInv, RunQueueOK
    <3>2. CASE u = t
      BY <1>2, <1>3, <1>4, <3>2 DEF Tasks
    <3>3. CASE u # t
      BY <1>2, <1>3, <1>4, <3>1, <3>3 DEF Tasks
    <3>4. QED BY <3>2, <3>3
  <2>3. QED BY <2>1, <2>2 DEF RunQueueOK, Distinct
<1>6. IteratorOK(j)
  BY <1>1, <1>2, <1>3, <1>4 DEF IteratorOK
<1>7. CpuOK(j)
  <2>1. j.state[Idle] = "ACTIVE" /\ j.state[r] = "ACTIVE"
    BY <1>2, <1>3 DEF KernelInv, CpuOK, Tasks
  <2>2. QED BY <1>2, <1>3, <2>1 DEF CpuOK
<1>8. KernelInv(j)
  <2>1. PrioritiesOK(j)
    BY <1>3, SamePriorities DEF KernelInv
  <2> QED
    BY <1>3, <1>5, <1>6, <1>7, <2>1 DEF KernelInv
<1>9. QED
  BY <1>3, <1>8 DEF j

\* Selecting the next thread: the iterator and run_ptr move together.
LEMMA ChangeTaskEffect ==
  ASSUME NEW k \in Kernels, k.run_queue # <<>>, Linked(k.run_queue, k.it)
  PROVE  LET c == NextCircular(k.run_queue, k.it)
             j == os_change_task(k)
         IN  /\ c \in Threads
             /\ Linked(k.run_queue, c)
             /\ j \in Kernels
             /\ j.it = c
             /\ j.run_ptr = c
             /\ j.run_queue = k.run_queue
             /\ j.task_active_cnt = k.task_active_cnt
             /\ j.state = k.state
             /\ j.fixed_prio = k.fixed_prio
             /\ j.working_prio = k.working_prio
             /\ j.nest = k.nest
<1> DEFINE c == NextCircular(k.run_queue, k.it)
           i == [k EXCEPT !.it = c]
           j == [i EXCEPT !.run_ptr = c]
<1>1. c \in Threads /\ Linked(k.run_queue, c)
  BY KernelTypes, NextOnQueue
<1>2. j = os_change_task(k)
  BY DEF os_change_task
<1> HIDE DEF c
<1>3. i \in Kernels
  BY <1>1, KernelUpdates
<1>4. /\ i.it = c /\ i.run_queue = k.run_queue
      /\ i.task_active_cnt = k.task_active_cnt /\ i.state = k.state
      /\ i.fixed_prio = k.fixed_prio /\ i.working_prio = k.working_prio
      /\ i.nest = k.nest
  BY DEF Kernels
<1> HIDE DEF i
<1>5. j \in Kernels
  BY <1>1, <1>3, KernelUpdates DEF Tasks
<1>6. /\ j.it = i.it /\ j.run_ptr = c /\ j.run_queue = i.run_queue
      /\ j.task_active_cnt = i.task_active_cnt /\ j.state = i.state
      /\ j.fixed_prio = i.fixed_prio /\ j.working_prio = i.working_prio
      /\ j.nest = i.nest
  BY <1>3 DEF Kernels
<1> HIDE DEF j
<1>7. QED
  BY <1>1, <1>2, <1>4, <1>5, <1>6, Zenon DEF c

\* The queue, its length and its iterator agree, whatever the states of threads.
QueueOK(k) ==
  /\ k \in Kernels
  /\ Distinct(k.run_queue)
  /\ k.task_active_cnt = Len(k.run_queue)
  /\ k.run_queue # <<>> => Linked(k.run_queue, k.it)

\* Linking a thread, which may be linked already.
LEMMA AddAny ==
  ASSUME NEW k, QueueOK(k), NEW t \in Threads
  PROVE  LET j == os_add_task_mmang(k, t)
         IN  /\ QueueOK(j)
             /\ \A u \in Threads :
                  Linked(j.run_queue, u) <=> Linked(k.run_queue, u) \/ u = t
             /\ k.run_queue # <<>> => j.it = k.it
             /\ j.run_ptr = k.run_ptr
             /\ j.state = k.state
             /\ j.fixed_prio = k.fixed_prio
             /\ j.working_prio = k.working_prio
             /\ j.nest = k.nest
             /\ j.gie = k.gie
             /\ j.wdtifg = k.wdtifg
<1> DEFINE q == k.run_queue
           j == os_add_task_mmang(k, t)
<1>1. /\ k \in Kernels /\ Distinct(q) /\ k.task_active_cnt = Len(q)
      /\ q # <<>> => Linked(q, k.it)
  BY DEF QueueOK
<1>2. q \in Seq(Threads)
  BY <1>1, KernelTypes
<1>3. q # <<>> <=> Len(q) # 0
  BY <1>2, EmptySeq
<1>4. CASE Linked(q, t)
  <2>1. q # <<>>
    BY <1>2, <1>4, LinkedElements
  <2>2. k.task_active_cnt # 0
    BY <1>1, <1>3, <2>1
  <2>3. j = k
    BY <1>4, <2>2 DEF os_add_task_mmang
  <2> HIDE DEF j, q
  <2> QED
    BY <1>4, <2>3 DEF j, q
<1>5. CASE ~Linked(q, t)
  <2>1. /\ j \in Kernels
        /\ j.run_queue = Append(q, t)
        /\ j.it = IF k.task_active_cnt = 0 THEN ListHead ELSE k.it
        /\ j.task_active_cnt = k.task_active_cnt + 1
        /\ j.run_ptr = k.run_ptr
        /\ j.state = k.state
        /\ j.fixed_prio = k.fixed_prio
        /\ j.working_prio = k.working_prio
        /\ j.nest = k.nest
        /\ j.gie = k.gie
        /\ j.wdtifg = k.wdtifg
    BY <1>1, <1>5, AddEffect
  <2> HIDE DEF j
  <2>2. /\ Append(q, t) \in Seq(Threads)
        /\ Len(Append(q, t)) = Len(q) + 1
        /\ Distinct(Append(q, t))
        /\ \A u \in Threads : Linked(Append(q, t), u) <=> Linked(q, u) \/ u = t
    BY <1>1, <1>2, <1>5, AppendElements
  <2>3. Linked(j.run_queue, j.it)
    <3>1. CASE k.task_active_cnt = 0
      <4>1. Linked(Append(q, t), ListHead)
        BY <2>2, LinkedElements
      <4>2. j.it = ListHead
        BY <2>1, <3>1
      <4> QED
        BY <2>1, <4>1, <4>2
    <3>2. CASE k.task_active_cnt # 0
      <4>1. Linked(q, k.it) /\ j.it = k.it
        BY <1>1, <1>3, <2>1, <3>2
      <4>2. k.it \in Threads \/ k.it = ListHead
        BY <1>1, KernelTypes
      <4>3. CASE k.it \in Threads
        <5>1. Linked(Append(q, t), k.it)
          BY <2>2, <4>1, <4>3
        <5> QED
          BY <2>1, <4>1, <5>1
      <4>4. CASE k.it = ListHead
        <5>1. Linked(Append(q, t), ListHead)
          BY <2>2, LinkedElements
        <5> QED
          BY <2>1, <4>1, <4>4, <5>1
      <4> QED
        BY <4>2, <4>3, <4>4
    <3> QED
      BY <3>1, <3>2
  <2>4. QueueOK(j)
    BY <1>1, <2>1, <2>2, <2>3 DEF QueueOK
  <2>5. q # <<>> => j.it = k.it
    BY <1>1, <1>3, <2>1
  <2> QED
    BY <2>1, <2>2, <2>4, <2>5 DEF j
<1> QED
  BY <1>4, <1>5

\* j is k after the threads of W were woken.
Woke(k, j, W) ==
  /\ QueueOK(j)
  /\ \A u \in Threads : Linked(j.run_queue, u) <=> Linked(k.run_queue, u) \/ u \in W
  /\ k.run_queue # <<>> => j.it = k.it
  /\ j.run_ptr = k.run_ptr
  /\ \A u \in Tasks : j.state[u] = IF u \in W THEN "ACTIVE" ELSE k.state[u]
  /\ j.fixed_prio = k.fixed_prio
  /\ j.working_prio = k.working_prio
  /\ j.nest = k.nest
  /\ j.gie = k.gie
  /\ j.wdtifg = k.wdtifg

LEMMA WokeAgain ==
  ASSUME NEW k, QueueOK(k), NEW j, NEW W, Woke(k, j, W),
         NEW i, NEW t \in Threads, Woke(j, i, {t})
  PROVE  Woke(k, i, W \cup {t})
<1>1. QueueOK(j)
  BY DEF Woke
<1>2. \A u \in Threads :
        Linked(i.run_queue, u) <=> Linked(k.run_queue, u) \/ u \in W \cup {t}
  BY DEF Woke
<1>3. ASSUME k.run_queue # <<>> PROVE i.it = k.it
  <2>1. k.run_queue \in Seq(Threads) /\ j.run_queue \in Seq(Threads)
    BY <1>1, KernelTypes DEF QueueOK
  <2>2. PICK u \in Threads : Linked(k.run_queue, u)
    BY <1>3, <2>1, EmptySeq, LinkedElements
  <2>3. Linked(j.run_queue, u)
    BY <2>2 DEF Woke
  <2>4. j.run_queue # <<>>
    BY <2>1, <2>3, LinkedElements
  <2>5. i.it = j.it
    BY <2>4 DEF Woke
  <2>6. j.it = k.it
    BY <1>3 DEF Woke
  <2> QED
    BY <2>5, <2>6
<1>4. \A u \in Tasks : i.state[u] = IF u \in W \cup {t} THEN "ACTIVE" ELSE k.state[u]
  BY DEF Woke
<1> QED
  BY <1>2, <1>3, <1>4 DEF Woke
\* The first n items of woken.
FirstOf(woken, n) == {woken[i] : i \in 1..n}

LEMMA FirstMore ==
  ASSUME NEW woken, NEW n \in Nat, n > 0
  PROVE  FirstOf(woken, n) = FirstOf(woken, n - 1) \cup {woken[n]}
BY DEF FirstOf

\* os_task_unpause of a thread that is not linked.
LEMMA UnpauseWakes ==
  ASSUME NEW k, QueueOK(k), NestOK(k), NEW t \in Threads, ~Linked(k.run_queue, t)
  PROVE  Woke(k, os_task_unpause(k, t), {t})
<1> DEFINE a == os_add_task_mmang(k, t)
           j == os_task_unpause(k, t)
<1>1. k \in Kernels
  BY DEF QueueOK
<1>2. /\ QueueOK(a)
      /\ \A u \in Threads :
           Linked(a.run_queue, u) <=> Linked(k.run_queue, u) \/ u = t
      /\ k.run_queue # <<>> => a.it = k.it
  BY AddAny
<1>3. /\ a.run_queue = Append(k.run_queue, t)
      /\ a.it = IF k.task_active_cnt = 0 THEN ListHead ELSE k.it
      /\ a.task_active_cnt = k.task_active_cnt + 1
  BY <1>1, AddEffect
<1>4. /\ j \in Kernels
      /\ j.run_queue = Append(k.run_queue, t)
      /\ j.it = IF k.task_active_cnt = 0 THEN ListHead ELSE k.it
      /\ j.task_active_cnt = k.task_active_cnt + 1
      /\ j.run_ptr = k.run_ptr
      /\ j.state = [k.state EXCEPT ![t] = "ACTIVE"]
      /\ j.fixed_prio = k.fixed_prio
      /\ j.working_prio = k.working_prio
      /\ j.nest = k.nest
      /\ j.gie = k.gie
      /\ j.wdtifg = k.wdtifg
  BY <1>1, UnpauseEffect
<1> HIDE DEF a, j
<1>5. j.run_queue = a.run_queue /\ j.it = a.it /\ j.task_active_cnt = a.task_active_cnt
  BY <1>3, <1>4
<1>6. QueueOK(j)
  BY <1>2, <1>4, <1>5 DEF QueueOK
<1>7. \A u \in Tasks : j.state[u] = IF u \in {t} THEN "ACTIVE" ELSE k.state[u]
  <2>1. k.state \in [Tasks -> ThreadStates]
    BY <1>1, KernelTypes
  <2> QED
    BY <1>4, <2>1
<1>8. /\ \A u \in Threads :
           Linked(j.run_queue, u) <=> Linked(k.run_queue, u) \/ u \in {t}
      /\ k.run_queue # <<>> => j.it = k.it
  BY <1>2, <1>5
<1> QED
  BY <1>4, <1>6, <1>7, <1>8 DEF Woke, j

\* The slice of the running thread after one tick.
SliceLeft(k) ==
  IF k.run_queue = <<>> THEN k.working_prio[k.run_ptr]
  ELSE IF SliceOver(k) THEN k.fixed_prio[k.run_ptr]
  ELSE k.working_prio[k.run_ptr] - 1

\* j is k after the scheduler has run.
Rescheduled(k, j) ==
  /\ QueueOK(j)
  /\ j.run_queue = k.run_queue
  /\ j.state = k.state
  /\ j.fixed_prio = k.fixed_prio
  /\ j.nest = k.nest
  /\ \A t \in Tasks :
       j.working_prio[t] = IF t = k.run_ptr THEN SliceLeft(k) ELSE k.working_prio[t]
  /\ IF k.run_queue = <<>> THEN j.run_ptr = Idle
     ELSE IF SliceOver(k)
     THEN j.run_ptr \in Threads /\ Linked(j.run_queue, j.run_ptr) /\ j.it = j.run_ptr
     ELSE j.run_ptr = k.run_ptr /\ j.it = k.it

\* One turn of the scheduler, on any queue the iterator stands on.
LEMMA ScheduleEffect ==
  ASSUME NEW k, QueueOK(k), k.working_prio[k.run_ptr] > 0
  PROVE  Rescheduled(k, os_schedule(k))
<1> DEFINE j == os_schedule(k)
           r == k.run_ptr
           w == [k.working_prio EXCEPT ![r] = k.fixed_prio[r]]
           v == [k.working_prio EXCEPT ![r] = @ - 1]
<1>1. /\ k \in Kernels /\ k.run_queue \in Seq(Threads) /\ r \in Tasks
      /\ k.fixed_prio \in [Tasks -> Nat]
      /\ k.working_prio \in [Tasks -> Nat]
      /\ k.task_active_cnt = Len(k.run_queue)
  BY KernelTypes DEF QueueOK
<1>2. k.task_active_cnt = 0 <=> k.run_queue = <<>>
  BY <1>1, EmptySeq
<1>3. CASE k.task_active_cnt = 0
  <2>1. j = [k EXCEPT !.run_ptr = Idle]
    BY <1>3 DEF os_schedule
  <2> HIDE DEF j
  <2>2. j \in Kernels
    <3>1. Idle \in Tasks
      BY DEF Tasks
    <3> QED
      BY <1>1, <2>1, <3>1, KernelUpdates
  <2>3. /\ j.run_ptr = Idle /\ j.run_queue = k.run_queue /\ j.it = k.it
        /\ j.state = k.state /\ j.task_active_cnt = k.task_active_cnt
        /\ j.fixed_prio = k.fixed_prio /\ j.working_prio = k.working_prio
        /\ j.nest = k.nest
    BY <1>1, <2>1 DEF Kernels
  <2>4. QueueOK(j)
    BY <2>2, <2>3 DEF QueueOK
  <2>5. Rescheduled(k, j)
    BY <1>2, <1>3, <2>3, <2>4 DEF Rescheduled, SliceLeft
  <2> QED
    BY <2>5 DEF j
<1>4. CASE k.task_active_cnt # 0
  <2>1. k.run_queue # <<>> /\ Linked(k.run_queue, k.it)
    BY <1>2, <1>4 DEF QueueOK
  <2>2. j = os_next(k)
    BY <1>1, <1>4 DEF os_schedule
  <2>3. CASE SliceOver(k)
    <3> DEFINE i == [k EXCEPT !.working_prio = w]
    <3>1. /\ w \in [Tasks -> Nat]
          /\ \A t \in Tasks : w[t] = IF t = r THEN k.fixed_prio[r] ELSE k.working_prio[t]
      BY <1>1
    <3>2. j = os_change_task(i)
      BY <2>2, <2>3 DEF os_next
    <3> HIDE DEF w
    <3>3. i \in Kernels
      BY <1>1, <3>1, KernelUpdates
    <3>4. /\ i.run_queue = k.run_queue /\ i.it = k.it
          /\ i.task_active_cnt = k.task_active_cnt
          /\ i.fixed_prio = k.fixed_prio /\ i.working_prio = w
          /\ i.state = k.state /\ i.nest = k.nest
      BY <1>1 DEF Kernels
    <3> HIDE DEF i, j
    <3>5. /\ j \in Kernels /\ j.run_ptr \in Threads /\ j.it = j.run_ptr
          /\ Linked(k.run_queue, j.run_ptr)
          /\ j.run_queue = k.run_queue /\ j.state = k.state
          /\ j.fixed_prio = k.fixed_prio /\ j.working_prio = w
          /\ j.task_active_cnt = k.task_active_cnt /\ j.nest = k.nest
      BY <2>1, <3>2, <3>3, <3>4, ChangeTaskEffect
    <3>6. QueueOK(j)
      BY <3>5 DEF QueueOK
    <3>7. Rescheduled(k, j)
      BY <2>1, <2>3, <3>1, <3>5, <3>6 DEF Rescheduled, SliceLeft
    <3> QED
      BY <3>7 DEF j
  <2>4. CASE ~SliceOver(k)
    <3> DEFINE i == [k EXCEPT !.working_prio = v]
    <3>1. /\ v \in [Tasks -> Nat]
          /\ \A t \in Tasks : v[t] = IF t = r THEN k.working_prio[r] - 1
                                     ELSE k.working_prio[t]
      BY <1>1
    <3>2. j = i
      BY <2>2, <2>4 DEF os_next
    <3> HIDE DEF v
    <3>3. i \in Kernels
      BY <1>1, <3>1, KernelUpdates
    <3>4. /\ i.run_queue = k.run_queue /\ i.it = k.it /\ i.run_ptr = r
          /\ i.task_active_cnt = k.task_active_cnt
          /\ i.fixed_prio = k.fixed_prio /\ i.working_prio = v
          /\ i.state = k.state /\ i.nest = k.nest
      BY <1>1 DEF Kernels
    <3> HIDE DEF i, j
    <3>5. QueueOK(i)
      BY <3>3, <3>4 DEF QueueOK
    <3>6. Rescheduled(k, i)
      BY <2>1, <2>4, <3>1, <3>4, <3>5 DEF Rescheduled, SliceLeft
    <3> QED
      BY <3>2, <3>6 DEF j
  <2> QED
    BY <2>3, <2>4
<1> QED
  BY <1>3, <1>4

LEMMA TickEffect ==
  ASSUME NEW k, QueueOK(k), k.working_prio[k.run_ptr] > 0
  PROVE  /\ Rescheduled(k, os_tick(k))
         /\ os_tick(k).gie = TRUE
<1> DEFINE i == os_schedule(k)
           h == [i EXCEPT !.wdtifg = FALSE]
           j == [h EXCEPT !.gie = TRUE]
<1>1. j = os_tick(k)
  BY DEF os_tick
<1>2. Rescheduled(k, i)
  BY ScheduleEffect
<1> HIDE DEF i
<1>3. i \in Kernels
  BY <1>2 DEF Rescheduled, QueueOK
<1>4. h \in Kernels
  BY <1>3, KernelUpdates
<1>5. /\ h.run_queue = i.run_queue /\ h.it = i.it /\ h.run_ptr = i.run_ptr
      /\ h.task_active_cnt = i.task_active_cnt /\ h.state = i.state
      /\ h.fixed_prio = i.fixed_prio /\ h.working_prio = i.working_prio
      /\ h.nest = i.nest
  BY <1>3 DEF Kernels
<1> HIDE DEF h
<1>6. j \in Kernels
  BY <1>4, KernelUpdates
<1>7. /\ j.run_queue = i.run_queue /\ j.it = i.it /\ j.run_ptr = i.run_ptr
      /\ j.task_active_cnt = i.task_active_cnt /\ j.state = i.state
      /\ j.fixed_prio = i.fixed_prio /\ j.working_prio = i.working_prio
      /\ j.nest = i.nest /\ j.gie = TRUE
  BY <1>4, <1>5 DEF Kernels
<1> HIDE DEF j
<1>8. QueueOK(j)
  BY <1>2, <1>6, <1>7 DEF Rescheduled, QueueOK
<1>9. Rescheduled(k, j)
  BY <1>2, <1>7, <1>8 DEF Rescheduled
<1> QED
  BY <1>1, <1>7, <1>9

\* A tick keeps the invariant, and leaves the core to an ACTIVE thread.
LEMMA TickInv ==
  ASSUME NEW k, KernelInv(k)
  PROVE  /\ KernelInv(os_tick(k))
         /\ os_tick(k).state = k.state
         /\ os_tick(k).run_queue = k.run_queue
         /\ os_tick(k).nest = k.nest
         /\ os_tick(k).gie = TRUE
<1> DEFINE j == os_tick(k)
           r == k.run_ptr
<1>1. /\ k \in Kernels /\ k.run_queue \in Seq(Threads) /\ r \in Tasks
      /\ k.state \in [Tasks -> ThreadStates]
      /\ k.working_prio \in [Tasks -> Nat]
      /\ \A t \in Tasks : k.fixed_prio[t] > 0 /\ k.working_prio[t] > 0
  BY KernelTypes DEF KernelInv, PrioritiesOK
<1>2. QueueOK(k)
  BY DEF KernelInv, RunQueueOK, IteratorOK, QueueOK, Distinct
<1>3. Rescheduled(k, j) /\ j.gie = TRUE
  BY <1>1, <1>2, TickEffect
<1> HIDE DEF j
<1>4. j.run_queue = k.run_queue /\ j.state = k.state /\ QueueOK(j)
  BY <1>3 DEF Rescheduled
<1>5. RunQueueOK(j)
  BY <1>4 DEF KernelInv, RunQueueOK, QueueOK, Distinct
<1>6. PrioritiesOK(j)
  <2>1. SliceLeft(k) > 0
    BY <1>1 DEF SliceLeft, SliceOver
  <2> QED
    BY <1>1, <1>3, <2>1 DEF Rescheduled, PrioritiesOK
<1>7. /\ j.run_ptr \in Threads /\ j.state[j.run_ptr] = "ACTIVE" => j.it = j.run_ptr
      /\ IF j.run_ptr = Idle THEN j.run_queue = <<>>
         ELSE j.state[j.run_ptr] = "ACTIVE"
  <2>1. CASE k.run_queue = <<>>
    BY <1>3, <1>4, <2>1, KernelAssumption DEF Rescheduled
  <2>2. CASE k.run_queue # <<>> /\ SliceOver(k)
    BY <1>3, <1>4, <1>5, <2>2, KernelAssumption DEF Rescheduled, RunQueueOK
  <2>3. CASE k.run_queue # <<>> /\ ~SliceOver(k)
    <3>1. r # Idle /\ r \in Threads
      BY <1>1, <2>3 DEF KernelInv, CpuOK, Tasks
    <3>2. k.state[r] = "ACTIVE"
      BY <1>1, <2>3 DEF SliceOver, ThreadStates, Suspended
    <3>3. k.it = r
      BY <3>1, <3>2 DEF KernelInv, IteratorOK
    <3> QED
      BY <1>3, <1>4, <2>3, <3>1, <3>2, <3>3 DEF Rescheduled
  <2> QED
    BY <2>1, <2>2, <2>3
<1>8. IteratorOK(j) /\ CpuOK(j)
  BY <1>4, <1>7 DEF QueueOK, IteratorOK, CpuOK, KernelInv
<1>9. KernelInv(j)
  BY <1>4, <1>5, <1>6, <1>8 DEF KernelInv, QueueOK
<1> QED
  BY <1>3, <1>4, <1>9 DEF Rescheduled, j

LEMMA YieldInv ==
  ASSUME NEW k, KernelInv(k), k.run_ptr \in Threads
  PROVE  /\ KernelInv(os_task_yield(k))
         /\ os_task_yield(k).state = k.state
         /\ os_task_yield(k).nest = k.nest
         /\ os_task_yield(k).gie = k.gie
<1> DEFINE j == os_task_yield(k)
<1>1. k \in Kernels
  BY DEF KernelInv
<1>2. j \in Kernels
  BY <1>1, KernelUpdates DEF os_task_yield
<1>3. /\ j.run_queue = k.run_queue /\ j.it = k.it /\ j.run_ptr = k.run_ptr
      /\ j.task_active_cnt = k.task_active_cnt /\ j.state = k.state
      /\ j.fixed_prio = k.fixed_prio /\ j.working_prio = k.working_prio
      /\ j.nest = k.nest /\ j.gie = k.gie /\ j.wdtifg = TRUE
  BY <1>1 DEF os_task_yield, Kernels
<1> HIDE DEF j
<1>4. RunQueueOK(j) /\ IteratorOK(j) /\ CpuOK(j)
  BY <1>3, KernelAssumption DEF KernelInv, RunQueueOK, IteratorOK, CpuOK
<1>5. PrioritiesOK(j)
  BY <1>3, SamePriorities DEF KernelInv
<1>6. QED
  BY <1>2, <1>3, <1>4, <1>5 DEF KernelInv, j

-----------------------------------------------------------------------------
(* Priorities and slices.                                                  *)

\* A tick changes no priority; the thread that loses the core to another one
\* has its full slice again, and nobody else's slice is touched.
LEMMA TickSlices ==
  ASSUME NEW k, KernelInv(k)
  PROVE  LET j == os_tick(k)
         IN  /\ j.fixed_prio = k.fixed_prio
             /\ k.task_active_cnt = 0 => j.run_ptr = Idle
             /\ \A t \in Tasks \ {j.run_ptr} :
                  j.working_prio[t] =
                    IF t = k.run_ptr /\ k.task_active_cnt # 0 THEN k.fixed_prio[t]
                    ELSE k.working_prio[t]
<1> DEFINE j == os_tick(k)
<1>1. QueueOK(k)
  BY DEF KernelInv, RunQueueOK, IteratorOK, QueueOK, Distinct
<1>2. k.run_ptr \in Tasks /\ k.working_prio[k.run_ptr] > 0
  BY KernelTypes DEF KernelInv, PrioritiesOK
<1>3. Rescheduled(k, j)
  BY <1>1, <1>2, TickEffect
<1> HIDE DEF j
<1>4. k.task_active_cnt = 0 <=> k.run_queue = <<>>
  BY <1>1, KernelTypes, EmptySeq DEF QueueOK
<1> QED
  BY <1>3, <1>4 DEF Rescheduled, SliceLeft, j

LEMMA YieldPrios ==
  ASSUME NEW k \in Kernels
  PROVE  /\ os_task_yield(k).fixed_prio = k.fixed_prio
         /\ os_task_yield(k).working_prio = k.working_prio
         /\ os_task_yield(k).run_ptr = k.run_ptr
BY DEF os_task_yield, Kernels

\* The kernel boots with the priorities of thrd_create and full slices.
LEMMA KInitPrios ==
  ASSUME KInit
  PROVE  /\ os.fixed_prio \in [Tasks -> 1..MaxPrio]
         /\ os.working_prio = os.fixed_prio
<1>1. PICK q \in [1..Cardinality(Threads) -> Threads], p \in [Threads -> 1..MaxPrio] :
        os = os_first_task(created(q, p))
  BY DEF KInit
<1> DEFINE prio == [t \in Tasks |-> IF t = Idle THEN 1 ELSE p[t]]
<1>2. prio \in [Tasks -> 1..MaxPrio]
  BY KernelAssumption DEF Tasks
<1>3. os.fixed_prio = prio /\ os.working_prio = prio
  BY <1>1 DEF os_first_task, os_change_task, created
<1>4. QED BY <1>2, <1>3

-----------------------------------------------------------------------------
(* The kernel as a whole.                                                  *)

\* What os_launch leaves when main has created the threads of q.
Booted(j, q, p) ==
  /\ j \in Kernels
  /\ j.run_queue = q
  /\ j.task_active_cnt = Len(q)
  /\ \A t \in Tasks : j.state[t] = "ACTIVE"
  /\ \A t \in Tasks : /\ j.fixed_prio[t] = IF t = Idle THEN 1 ELSE p[t]
                     /\ j.working_prio[t] = j.fixed_prio[t]
  /\ j.nest = 0 /\ j.gie = TRUE
  /\ q = <<>> => j.run_ptr = Idle
  /\ q # <<>> => j.run_ptr \in Threads /\ j.it = j.run_ptr /\ Linked(q, j.it)

LEMMA BootEffect ==
  ASSUME NEW q \in Seq(Threads), NEW p \in [Threads -> Nat]
  PROVE  Booted(os_first_task(created(q, p)), q, p)
<1> DEFINE k == created(q, p)
           j == os_first_task(k)
           prio == [t \in Tasks |-> IF t = Idle THEN 1 ELSE p[t]]
<1>1. /\ prio \in [Tasks -> Nat]
      /\ \A t \in Tasks : prio[t] = IF t = Idle THEN 1 ELSE p[t]
  BY DEF Tasks
<1>2. /\ k.run_queue = q /\ k.it = ListHead /\ k.task_active_cnt = Len(q)
  BY DEF created
<1>3. CASE q = <<>>
  <2>1. j = [k EXCEPT !.run_ptr = Idle]
    BY <1>2, <1>3 DEF os_first_task
  <2>2. j = [created(q, p) EXCEPT !.run_ptr = Idle]
    BY <2>1
  <2>3. j = [run_queue |-> q, it |-> ListHead, task_active_cnt |-> Len(q),
             run_ptr |-> Idle, state |-> [t \in Tasks |-> "ACTIVE"],
             fixed_prio |-> prio, working_prio |-> prio,
             nest |-> 0, gie |-> TRUE, wdtifg |-> FALSE]
    BY <2>2 DEF created
  <2> HIDE DEF j, k, prio
  <2>4. j \in Kernels
    BY <1>1, <2>3 DEF Kernels, Tasks, ThreadStates
  <2>5. /\ j.run_queue = q /\ j.run_ptr = Idle /\ j.task_active_cnt = Len(q)
        /\ j.state = [t \in Tasks |-> "ACTIVE"] /\ j.nest = 0 /\ j.gie = TRUE
        /\ j.fixed_prio = prio /\ j.working_prio = prio
    BY <2>3
  <2> QED
    BY <1>1, <1>3, <2>4, <2>5 DEF Booted, j, k
<1>4. CASE q # <<>>
  <2> DEFINE c == NextCircular(q, ListHead)
  <2>1. c \in Threads /\ Linked(q, c)
    BY <1>4, LinkedElements, NextOnQueue
  <2>2. Len(q) > 0
    BY <1>4, EmptySeq
  <2>3. j = os_change_task(created(q, p))
    BY <1>2, <2>2 DEF os_first_task
  <2>4. j = [[created(q, p) EXCEPT !.it = c] EXCEPT !.run_ptr = c]
    BY <2>3 DEF os_change_task, created
  <2> HIDE DEF c
  <2>5. j = [run_queue |-> q, it |-> c, task_active_cnt |-> Len(q),
             run_ptr |-> c, state |-> [t \in Tasks |-> "ACTIVE"],
             fixed_prio |-> prio, working_prio |-> prio,
             nest |-> 0, gie |-> TRUE, wdtifg |-> FALSE]
    BY <2>4 DEF created
  <2> HIDE DEF j, k, prio
  <2>6. j \in Kernels
    BY <1>1, <2>1, <2>5 DEF Kernels, Tasks, ThreadStates
  <2>7. /\ j.run_queue = q /\ j.run_ptr = c /\ j.it = c /\ j.task_active_cnt = Len(q)
        /\ j.state = [t \in Tasks |-> "ACTIVE"] /\ j.nest = 0 /\ j.gie = TRUE
        /\ j.fixed_prio = prio /\ j.working_prio = prio
    BY <2>5
  <2> QED
    BY <1>1, <1>4, <2>1, <2>6, <2>7 DEF Booted, j, k
<1>5. QED BY <1>3, <1>4

LEMMA BootInv ==
  ASSUME NEW q \in Seq(Threads), Distinct(q),
         \A t \in Threads : \E i \in 1..Len(q) : q[i] = t,
         NEW p \in [Threads -> 1..MaxPrio]
  PROVE  LET j == os_first_task(created(q, p))
         IN  KernelInv(j) /\ Preemptible(j) /\ \A t \in Threads : j.state[t] = "ACTIVE"
<1> DEFINE j == os_first_task(created(q, p))
<1>1. p \in [Threads -> Nat] /\ \A t \in Threads : p[t] > 0
  <2>1. 1..MaxPrio \subseteq Nat \ {0}
    BY KernelAssumption
  <2>2. QED BY <2>1
<1>2. \A t \in Threads : Linked(q, t)
  BY LinkedElements
<1>3. /\ j \in Kernels
      /\ j.run_queue = q /\ j.task_active_cnt = Len(q)
      /\ \A t \in Tasks : j.state[t] = "ACTIVE"
      /\ \A t \in Tasks : /\ j.fixed_prio[t] = IF t = Idle THEN 1 ELSE p[t]
                         /\ j.working_prio[t] = j.fixed_prio[t]
      /\ j.nest = 0 /\ j.gie = TRUE
      /\ q = <<>> => j.run_ptr = Idle
      /\ q # <<>> => j.run_ptr \in Threads /\ j.it = j.run_ptr /\ Linked(q, j.it)
  <2>1. Booted(j, q, p)
    BY <1>1, BootEffect
  <2>2. QED BY <2>1 DEF Booted
<1> HIDE DEF j
<1>4. RunQueueOK(j)
  <2>1. \A t \in Threads : j.state[t] = "ACTIVE"
    BY <1>3 DEF Tasks
  <2>2. /\ Distinct(j.run_queue)
        /\ \A t \in Threads : Linked(j.run_queue, t)
        /\ j.task_active_cnt = Len(j.run_queue)
    BY <1>2, <1>3
  <2>3. QED BY <2>1, <2>2, Zenon DEF RunQueueOK, Distinct
<1>5. IteratorOK(j) /\ CpuOK(j)
  BY <1>3, KernelAssumption DEF IteratorOK, CpuOK, Tasks
<1>6. PrioritiesOK(j)
  <2>1. ASSUME NEW t \in Tasks PROVE j.fixed_prio[t] > 0
    <3>1. CASE t = Idle
      BY <1>3, <3>1
    <3>2. CASE t # Idle
      BY <1>1, <1>3, <3>2 DEF Tasks
    <3>3. QED BY <3>1, <3>2
  <2>2. QED BY <1>3, <2>1 DEF PrioritiesOK
<1>7. QED BY <1>3, <1>4, <1>5, <1>6 DEF KernelInv, Preemptible, Tasks, j

LEMMA KInitInv ==
  ASSUME KInit
  PROVE  KInv /\ \A t \in Threads : os.state[t] = "ACTIVE"
<1>1. Cardinality(Threads) \in Nat
  BY KernelAssumption, FS_CardinalityType
<1>2. PICK q \in [1..Cardinality(Threads) -> Threads], p \in [Threads -> 1..MaxPrio] :
        /\ \A i, j \in DOMAIN q : q[i] = q[j] => i = j
        /\ \A t \in Threads : \E i \in DOMAIN q : q[i] = t
        /\ os = os_first_task(created(q, p))
  BY DEF KInit
<1>3. q \in Seq(Threads) /\ DOMAIN q = 1..Len(q)
  BY <1>1
<1>4. Distinct(q) /\ \A t \in Threads : \E i \in 1..Len(q) : q[i] = t
  BY <1>2, <1>3 DEF Distinct
<1>5. /\ KernelInv(os_first_task(created(q, p)))
      /\ Preemptible(os_first_task(created(q, p)))
      /\ \A t \in Threads : os_first_task(created(q, p)).state[t] = "ACTIVE"
  BY <1>3, <1>4, BootInv, Zenon
<1>6. QED BY <1>2, <1>5, Zenon DEF KInv

\* A thread that is about to execute is ACTIVE.
LEMMA RunnerActive ==
  ASSUME KInv, NEW t \in Threads, CanRun(t)
  PROVE  os.run_ptr = t /\ os.state[t] = "ACTIVE" /\ NestOK(os)
BY KernelAssumption DEF KInv, KernelInv, CpuOK, Preemptible, CanRun, NestOK

\* What KInv gives to a thread that is about to enter a call.
LEMMA CallerFacts ==
  ASSUME KInv, NEW t \in Threads, CanRun(t)
  PROVE  /\ os \in Kernels
         /\ NestOK(os)
         /\ os.run_ptr = t
         /\ os.state[t] = "ACTIVE"
         /\ Linked(os.run_queue, t)
         /\ Distinct(os.run_queue)
         /\ Linked(os.run_queue, os.it)
         /\ os.task_active_cnt # 0
BY RunnerActive, ActiveQueue DEF KInv, KernelInv

LEMMA KNextInv ==
  ASSUME KInv, [KNext]_kvars
  PROVE  KInv'
<1> USE DEF KInv, Preemptible
<1>1. CASE TimerTick
  BY <1>1, TickInv DEF TimerTick
<1>2. CASE YieldTick
  BY <1>2, TickInv DEF YieldTick
<1>3. ASSUME NEW t \in Threads, TaskYield(t) PROVE KInv'
  BY <1>3, RunnerActive, YieldInv DEF TaskYield
<1>4. ASSUME NEW t \in Threads, TaskBlock(t) PROVE KInv'
  BY <1>4, RunnerActive, BlockInv DEF TaskBlock
<1>5. ASSUME NEW t \in Threads, NEW u \in Threads, TaskUnpause(t, u) PROVE KInv'
  <2>1. /\ os.run_ptr = t /\ os.state[t] = "ACTIVE" /\ NestOK(os)
        /\ os.state[u] # "ACTIVE" /\ os' = os_task_unpause(os, u)
    BY <1>5, RunnerActive DEF TaskUnpause
  <2>2. /\ KernelInv(os_task_unpause(os, u))
        /\ os_task_unpause(os, u).nest = os.nest
        /\ os_task_unpause(os, u).gie = os.gie
    BY <2>1, UnpauseInv
  <2> QED
    BY <2>1, <2>2
<1>6. CASE UNCHANGED kvars
  BY <1>6 DEF kvars
<1>7. QED BY <1>1, <1>2, <1>3, <1>4, <1>5, <1>6 DEF KNext

\* The kernel's inductive invariant: types, the run queue, the iterator and
\* the choice of the running thread, for any number of threads and any slices.
THEOREM KernelInvariant == KSpec => []KInv
<1>1. KInit => KInv
  BY KInitInv
<1>2. KInv /\ [KNext]_kvars => KInv'
  BY KNextInv
<1>3. QED BY <1>1, <1>2, PTL DEF KSpec

\* No variable of the kernel leaves its type: no NULL iterator, no slice of 0.
THEOREM KernelTypeCorrect == KSpec => []KTypeOK
<1>1. KInv => KTypeOK
  BY DEF KInv, KernelInv, KTypeOK
<1>2. QED BY <1>1, KernelInvariant, PTL

\* The queue holds exactly the ACTIVE threads, once each.
THEOREM RunQueueCorrect == KSpec => []RunQueueHoldsTheActive
<1>1. KInv => RunQueueHoldsTheActive
  BY DEF KInv, KernelInv, RunQueueHoldsTheActive
<1>2. QED BY <1>1, KernelInvariant, PTL

\* The iterator never dangles.
THEOREM IteratorCorrect == KSpec => []IteratorOnTheQueue
<1>1. KInv => IteratorOnTheQueue
  BY DEF KInv, KernelInv, IteratorOnTheQueue
<1>2. QED BY <1>1, KernelInvariant, PTL

\* A blocked thread executes nothing, and the idle thread runs only when every
\* thread is blocked.
THEOREM OnlyActiveRun == KSpec => []OnlyActiveThreadsRun
<1>1. KInv => OnlyActiveThreadsRun
  BY DEF KInv, KernelInv, OnlyActiveThreadsRun
<1>2. QED BY <1>1, KernelInvariant, PTL

-----------------------------------------------------------------------------
(* The turn order.                                                         *)

\* One step of TurnOrderKept.
OrderKept ==
  /\ Len(os'.run_queue) < Len(os.run_queue) /\ os'.run_queue # <<>>
       => NextUp(os') = NextUp(os)
  /\ Len(os'.run_queue) > Len(os.run_queue) /\ os.it # Last(os.run_queue)
       => NextUp(os') = NextUp(os)

LEMMA BlockOrder ==
  ASSUME KInv, NEW t \in Threads, TaskBlock(t)
  PROVE  OrderKept
<1> DEFINE q == os.run_queue
<1>1. os.run_ptr = t /\ os.state[t] = "ACTIVE" /\ NestOK(os) /\ os' = os_task_block(os, t)
  BY RunnerActive DEF TaskBlock
<1>2. /\ os \in Kernels /\ q \in Seq(Threads) /\ Distinct(q) /\ Linked(q, t)
      /\ Linked(q, os.it) /\ os.task_active_cnt # 0
  BY <1>1, ActiveQueue DEF KInv, KernelInv
<1>3. os.it = t
  BY <1>1 DEF KInv, KernelInv, IteratorOK
<1>4. os'.run_queue = Unlink(q, t) /\ os'.it = PrevCircular(q, t)
  <2>1. LET j == os_task_block(os, t)
        IN  j.run_queue = Unlink(q, t) /\ j.it = PrevCircular(q, os.it)
    BY <1>1, <1>2, BlockEffect
  <2>2. QED BY <1>1, <1>3, <2>1
<1>5. Len(os'.run_queue) = Len(q) - 1
  BY <1>2, <1>4, UnlinkElements
<1>6. ASSUME os'.run_queue # <<>> PROVE NextUp(os') = NextUp(os)
  <2>1. os'.run_queue \in Seq(Threads)
    BY <1>2, <1>4, UnlinkElements
  <2>2. Len(q) > 1
    BY <1>2, <1>5, <1>6, <2>1, EmptySeq
  <2>3. NextCircular(Unlink(q, t), PrevCircular(q, t)) = NextCircular(q, t)
    BY <1>2, <2>2, NextAfterUnlink
  <2>4. QED BY <1>3, <1>4, <2>3 DEF NextUp
<1>7. Len(q) \in Nat
  BY <1>2
<1>8. QED BY <1>5, <1>6, <1>7 DEF OrderKept

LEMMA UnpauseOrder ==
  ASSUME KInv, NEW t \in Threads, NEW u \in Threads, TaskUnpause(t, u)
  PROVE  OrderKept
<1> DEFINE q == os.run_queue
           n == Len(q)
<1>1. os.run_ptr = t /\ os.state[t] = "ACTIVE" /\ NestOK(os) /\ os' = os_task_unpause(os, u)
  BY RunnerActive DEF TaskUnpause
<1>2. /\ os \in Kernels /\ q \in Seq(Threads) /\ Distinct(q) /\ Linked(q, t)
      /\ os.task_active_cnt # 0
  BY <1>1, ActiveQueue DEF KInv, KernelInv
<1>3. os.it = t
  BY <1>1 DEF KInv, KernelInv, IteratorOK
<1>4. ~Linked(q, u)
  BY DEF KInv, KernelInv, RunQueueOK, TaskUnpause
<1>5. os'.run_queue = Append(q, u) /\ os'.it = t
  <2>1. LET j == os_task_unpause(os, u)
        IN  /\ j.run_queue = Append(q, u)
            /\ j.it = IF os.task_active_cnt = 0 THEN ListHead ELSE os.it
    BY <1>1, <1>2, <1>4, UnpauseEffect
  <2>2. QED BY <1>1, <1>2, <1>3, <2>1
<1>6. /\ Len(Append(q, u)) = n + 1 /\ Append(q, u) \in Seq(Threads)
      /\ Distinct(Append(q, u))
  BY <1>2, <1>4, AppendElements
<1>7. n \in Nat
  BY <1>2
<1>8. ASSUME os.it # Last(q) PROVE NextUp(os') = NextUp(os)
  <2>1. PICK i \in 1..n : q[i] = t
    BY <1>2, LinkedElements
  <2>2. i # n
    BY <1>3, <1>8, <2>1 DEF Last
  <2>3. /\ Append(q, u)[i] = t /\ Append(q, u)[i + 1] = q[i + 1]
    BY <1>2, <1>7, <2>1, <2>2
  <2>4. NextCircular(q, t) = q[i + 1]
    BY <1>2, <2>1, <2>2, NextAt
  <2>5. NextCircular(Append(q, u), t) = Append(q, u)[i + 1]
    <3> DEFINE r == Append(q, u)
    <3>1. r \in Seq(Threads) /\ Distinct(r) /\ i \in 1..Len(r) /\ i # Len(r) /\ r[i] = t
      BY <1>6, <1>7, <2>1, <2>3
    <3> HIDE DEF r
    <3>2. NextCircular(r, t) = r[i + 1]
      BY <3>1, NextAt
    <3>3. QED BY <3>2 DEF r
  <2>6. QED BY <1>3, <1>5, <2>3, <2>4, <2>5 DEF NextUp
<1>9. QED BY <1>5, <1>6, <1>7, <1>8 DEF OrderKept

\* Nobody is skipped and nobody is served twice, whatever leaves or joins the
\* queue and wherever the iterator stands.
THEOREM TurnOrder == KSpec => TurnOrderKept
<1>1. ASSUME KInv, [KNext]_kvars PROVE [OrderKept]_kvars
  <2>1. ASSUME os'.run_queue = os.run_queue PROVE OrderKept
    <3>1. os \in Kernels /\ os.run_queue \in Seq(Threads)
      BY <1>1, KernelTypes DEF KInv, KernelInv
    <3>2. QED BY <2>1, <3>1 DEF OrderKept
  <2>2. CASE TimerTick \/ YieldTick
    BY <1>1, <2>1, <2>2, TickInv DEF TimerTick, YieldTick, KInv
  <2>3. ASSUME NEW t \in Threads, TaskYield(t) PROVE OrderKept
    <3>1. os \in Kernels
      BY <1>1 DEF KInv, KernelInv
    <3>2. os'.run_queue = os.run_queue
      BY <2>3, <3>1 DEF TaskYield, os_task_yield, Kernels
    <3>3. QED BY <2>1, <3>2
  <2>4. ASSUME NEW t \in Threads, TaskBlock(t) PROVE OrderKept
    BY <1>1, <2>4, BlockOrder
  <2>5. ASSUME NEW t \in Threads, NEW u \in Threads, TaskUnpause(t, u) PROVE OrderKept
    BY <1>1, <2>5, UnpauseOrder
  <2>6. QED BY <1>1, <2>2, <2>3, <2>4, <2>5 DEF KNext
<1>2. QED BY <1>1, KernelInvariant, PTL DEF KSpec, TurnOrderKept, OrderKept
=============================================================================
