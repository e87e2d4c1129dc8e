-------------------------- MODULE LifecycleProofs --------------------------
(***************************************************************************)
(* Proofs about the life cycle, for every pool: no block has two owners,   *)
(* the run queue holds the living, and thrd_join is AbstractJoin.          *)
(***************************************************************************)
EXTENDS Lifecycle, DataProofs

-----------------------------------------------------------------------------
(* The kernel's operators as the instance of Semaphore sees them.          *)

\* They are the operators of Kernel.
LEMMA SameKernel ==
  /\ \A k, t : S!os_task_block(k, t) = os_task_block(k, t)
  /\ \A k, t : S!os_task_unpause(k, t) = os_task_unpause(k, t)
  /\ \A k : S!start_critical(k) = start_critical(k)
  /\ \A k : S!end_critical(k) = end_critical(k)
<1>1. \A k : S!start_critical(k) = start_critical(k)
  BY DEF start_critical, S!start_critical
<1>2. \A k : S!end_critical(k) = end_critical(k)
  BY DEF end_critical, S!end_critical
<1>3. \A q, e : S!Position(q, e) = Position(q, e)
  BY DEF Position, S!Position, Circle, S!Circle
<1>4. \A q, e : S!Unlink(q, e) = Unlink(q, e)
  BY <1>3 DEF Unlink, S!Unlink, RemoveAt, S!RemoveAt
<1>5. \A q, e : S!Linked(q, e) = Linked(q, e)
  BY Zenon DEF Linked, S!Linked, Circle, S!Circle
<1>6. \A q, e : S!PrevCircular(q, e) = PrevCircular(q, e)
  <2>1. \A q, e : S!ElementPrev(q, e) = ElementPrev(q, e)
    BY <1>3, <1>5, Zenon DEF ElementPrev, S!ElementPrev, Circle, S!Circle
  <2> QED
    BY <2>1, Zenon DEF PrevCircular, S!PrevCircular
<1>7. ASSUME NEW k, NEW t PROVE S!os_add_task_mmang(k, t) = os_add_task_mmang(k, t)
  <2> DEFINE j == IF k.task_active_cnt = 0 THEN [k EXCEPT !.it = ListHead] ELSE k
             a == [j EXCEPT !.run_queue = Append(@, t), !.task_active_cnt = @ + 1]
  <2>1. os_add_task_mmang(k, t) = IF Linked(j.run_queue, t) THEN j ELSE a
    BY Zenon DEF os_add_task_mmang
  <2>2. S!os_add_task_mmang(k, t) = IF S!Linked(j.run_queue, t) THEN j ELSE a
    BY Zenon DEF S!os_add_task_mmang
  <2> HIDE DEF a, j
  <2> QED
    BY <1>5, <2>1, <2>2, Zenon
<1>8. ASSUME NEW k, NEW t PROVE S!os_del_task_mmang(k, t) = os_del_task_mmang(k, t)
  <2> DEFINE j == [k EXCEPT !.it = PrevCircular(k.run_queue, @)]
             d == [j EXCEPT !.run_queue = Unlink(@, t), !.task_active_cnt = @ - 1]
  <2>1. os_del_task_mmang(k, t) = IF ~Linked(j.run_queue, t) THEN j ELSE d
    BY Zenon DEF os_del_task_mmang
  <2>2. S!os_del_task_mmang(k, t) = IF ~S!Linked(j.run_queue, t) THEN j ELSE d
    BY <1>4, <1>6, Zenon DEF S!os_del_task_mmang
  <2> HIDE DEF d, j
  <2> QED
    BY <1>5, <2>1, <2>2, Zenon
<1>9. \A k, t : S!os_add_task(k, t) = os_add_task(k, t)
  BY <1>1, <1>2, <1>7, Zenon DEF os_add_task, S!os_add_task
<1>10. \A k, t : S!os_del_task(k, t) = os_del_task(k, t)
  BY <1>1, <1>2, <1>8, Zenon DEF os_del_task, S!os_del_task
<1>11. \A k, t : S!os_task_pause(k, t) = os_task_pause(k, t)
  BY <1>1, <1>2, <1>10, Zenon
  DEF os_task_pause, S!os_task_pause, os_task_yield, S!os_task_yield
<1>12. \A k, t : S!os_task_block(k, t) = os_task_block(k, t)
  BY <1>1, <1>2, <1>11, Zenon DEF os_task_block, S!os_task_block
<1>13. \A k, t : S!os_task_unpause(k, t) = os_task_unpause(k, t)
  BY <1>1, <1>2, <1>9, Zenon DEF os_task_unpause, S!os_task_unpause
<1> QED
  BY <1>1, <1>2, <1>12, <1>13

-----------------------------------------------------------------------------
(* Rings.                                                                  *)

\* Each block is in the pool.
LEMMA PoolRoom ==
  /\ NUM_THREADS \in Nat
  /\ Cardinality(Threads) <= NUM_THREADS
  /\ \A t \in Threads : NUM_THREADS > 0
<1>1. NUM_THREADS \in Nat /\ Pool \in [1..NUM_THREADS -> Threads]
  BY LifecycleAssumption
<1>2. Pool \in Surjection(1..NUM_THREADS, Threads)
  BY <1>1, LifecycleAssumption DEF Surjection
<1>3. Cardinality(Threads) <= NUM_THREADS
  BY <1>1, <1>2, FS_SurjCardinalityBound DEF ExistsSurjection
<1>4. ASSUME NEW t \in Threads PROVE NUM_THREADS > 0
  BY <1>1, LifecycleAssumption
<1> QED
  BY <1>1, <1>3, <1>4

\* The slot i places behind the slot r of the array.
Slot(r, i) == IF r + i < NUM_THREADS THEN r + i ELSE r + i - NUM_THREADS

\* Slot is what the remainder says.
LEMMA SlotOf ==
  ASSUME NUM_THREADS > 0, NEW r \in 0..(NUM_THREADS - 1), NEW i \in 0..NUM_THREADS
  PROVE  (r + i) % NUM_THREADS = Slot(r, i) /\ Slot(r, i) \in 0..(NUM_THREADS - 1)
<1>1. NUM_THREADS \in Nat
  BY PoolRoom
<1>2. CASE r + i < NUM_THREADS
  BY <1>1, <1>2 DEF Slot
<1>3. CASE r + i >= NUM_THREADS
  BY <1>1, <1>3 DEF Slot
<1> QED
  BY <1>1, <1>2, <1>3

\* Slot by slot.
LEMMA SlotNext ==
  ASSUME NUM_THREADS > 0, NEW r \in 0..(NUM_THREADS - 1), NEW i \in 0..(NUM_THREADS - 1)
  PROVE  Slot(Slot(r, i), 1) = Slot(r, i + 1) /\ Slot(Slot(r, 1), i) = Slot(r, i + 1)
<1>1. NUM_THREADS \in Nat
  BY PoolRoom
<1>2. CASE r + i + 1 < NUM_THREADS
  BY <1>1, <1>2 DEF Slot
<1>3. CASE r + i + 1 >= NUM_THREADS
  <2>1. Slot(r, i + 1) = r + i + 1 - NUM_THREADS
    BY <1>1, <1>3 DEF Slot
  <2>2. Slot(Slot(r, i), 1) = r + i + 1 - NUM_THREADS
    BY <1>1, <1>3 DEF Slot
  <2>3. Slot(Slot(r, 1), i) = r + i + 1 - NUM_THREADS
    BY <1>1, <1>3 DEF Slot
  <2> QED
    BY <2>1, <2>2, <2>3
<1> QED
  BY <1>1, <1>2, <1>3

\* A ring of threads whose indices agree.
Sound(q) ==
  /\ q \in Rings
  /\ q.write = (q.read + q.count) % NUM_THREADS
  /\ \A i \in 1..q.count : Items(q)[i] \in Threads

\* The types of a ring's fields.
LEMMA RingFields ==
  ASSUME NEW q \in Rings
  PROVE  /\ NUM_THREADS \in Nat /\ NUM_THREADS > 0
         /\ q.storage \in [0..(NUM_THREADS - 1) -> Threads \cup {NULL}]
         /\ q.read \in 0..(NUM_THREADS - 1)
         /\ q.write \in 0..(NUM_THREADS - 1)
         /\ q.count \in 0..NUM_THREADS
<1>1. NUM_THREADS \in Nat
  BY PoolRoom
<1>2. /\ q.storage \in [0..(NUM_THREADS - 1) -> Threads \cup {NULL}]
      /\ q.read \in 0..(NUM_THREADS - 1)
      /\ q.write \in 0..(NUM_THREADS - 1)
      /\ q.count \in 0..NUM_THREADS
  BY DEF Rings
<1> QED
  BY <1>1, <1>2

\* Where the items are.
LEMMA ItemAt ==
  ASSUME NEW q \in Rings, NEW i \in 1..q.count
  PROVE  Items(q)[i] = q.storage[Slot(q.read, i)]
<1>1. Items(q)[i] = q.storage[(q.read + i) % NUM_THREADS]
  BY DEF Items
<1>2. i \in 0..NUM_THREADS
  BY RingFields
<1> QED
  BY <1>1, <1>2, RingFields, SlotOf

\* The items are a sequence of threads.
LEMMA ItemsSequence ==
  ASSUME NEW q, Sound(q)
  PROVE  Items(q) \in Seq(Threads) /\ Len(Items(q)) = q.count
<1>1. q.count \in Nat
  BY RingFields DEF Sound
<1>2. Items(q) \in [1..q.count -> Threads]
  BY DEF Sound, Items
<1> QED
  BY <1>1, <1>2

\* The newest item is where the write index says.
LEMMA SoundWrite ==
  ASSUME NEW q, Sound(q)
  PROVE  q.write = Slot(q.read, q.count)
<1>1. /\ NUM_THREADS > 0
      /\ q.read \in 0..(NUM_THREADS - 1)
      /\ q.count \in 0..NUM_THREADS
  BY RingFields DEF Sound
<1>2. (q.read + q.count) % NUM_THREADS = Slot(q.read, q.count)
  BY <1>1, SlotOf
<1> QED
  BY <1>2 DEF Sound

\* ring_push adds an item behind the newest.
LEMMA RingPush ==
  ASSUME NEW q, Sound(q), q.count < NUM_THREADS, NEW t \in Threads
  PROVE  LET r == ring_push(q, t)
         IN  /\ Sound(r)
             /\ r.read = q.read
             /\ r.write = Slot(q.write, 1)
             /\ r.count = q.count + 1
             /\ r.storage = [q.storage EXCEPT ![Slot(q.write, 1)] = t]
             /\ \A i \in 1..q.count : Items(r)[i] = Items(q)[i]
             /\ Items(r)[q.count + 1] = t
<1> DEFINE n == q.count
           w == Slot(q.write, 1)
           r == ring_push(q, t)
<1>1. /\ q \in Rings /\ NUM_THREADS \in Nat /\ NUM_THREADS > 0
      /\ q.storage \in [0..(NUM_THREADS - 1) -> Threads \cup {NULL}]
      /\ q.read \in 0..(NUM_THREADS - 1)
      /\ q.write \in 0..(NUM_THREADS - 1)
      /\ n \in 0..(NUM_THREADS - 1)
  BY RingFields DEF Sound
<1>2. w = (q.write + 1) % NUM_THREADS /\ w \in 0..(NUM_THREADS - 1)
  <2>1. 1 \in 0..NUM_THREADS
    BY <1>1
  <2> HIDE DEF w
  <2> QED
    BY <1>1, <2>1, SlotOf DEF w
<1>3. q.write = Slot(q.read, n)
  BY SoundWrite
<1>4. w = Slot(q.read, n + 1)
  BY <1>1, <1>3, SlotNext
<1> HIDE DEF w
<1>5. /\ r.read = q.read /\ r.write = w /\ r.count = n + 1
      /\ r.storage = [q.storage EXCEPT ![w] = t]
      /\ r = [storage |-> [q.storage EXCEPT ![w] = t], read |-> q.read,
              write |-> w, count |-> n + 1]
  BY <1>1, <1>2 DEF ring_push, Rings
<1>6. [q.storage EXCEPT ![w] = t] \in [0..(NUM_THREADS - 1) -> Threads \cup {NULL}]
  BY <1>1, <1>2
<1>7. r \in Rings
  BY <1>1, <1>2, <1>5, <1>6 DEF Rings
<1> HIDE DEF r
<1>8. ASSUME NEW i \in 1..n PROVE Items(r)[i] = Items(q)[i]
  <2>1. Slot(q.read, i) # w /\ Slot(q.read, i) \in 0..(NUM_THREADS - 1)
    <3>1. i \in Nat /\ i > 0 /\ i <= n /\ n < NUM_THREADS
      BY <1>1
    <3>2. i \in 0..NUM_THREADS
      BY <1>1
    <3>3. Slot(q.read, i) # Slot(q.read, n + 1)
      BY <1>1, <3>1 DEF Slot
    <3> QED
      BY <1>1, <1>4, <3>2, <3>3, SlotOf
  <2>2. r.storage[Slot(q.read, i)] = q.storage[Slot(q.read, i)]
    BY <1>1, <1>5, <2>1
  <2>3. i \in 1..r.count
    BY <1>1, <1>5
  <2>4. Items(r)[i] = r.storage[Slot(q.read, i)]
    <3>1. Items(r)[i] = r.storage[Slot(r.read, i)]
      BY <1>7, <2>3, ItemAt
    <3>2. r.read = q.read
      BY <1>5
    <3> QED
      BY <3>1, <3>2
  <2>5. Items(q)[i] = q.storage[Slot(q.read, i)]
    BY <1>1, ItemAt
  <2> QED
    BY <2>2, <2>4, <2>5
<1>9. Items(r)[n + 1] = t
  <2>1. n + 1 \in 1..r.count
    BY <1>1, <1>5
  <2>2. Items(r)[n + 1] = r.storage[w]
    <3>1. Items(r)[n + 1] = r.storage[Slot(r.read, n + 1)]
      BY <1>7, <2>1, ItemAt
    <3>2. r.read = q.read
      BY <1>5
    <3> QED
      BY <1>4, <3>1, <3>2
  <2> QED
    BY <1>1, <1>2, <1>5, <2>2
<1>10. Sound(r)
  <2>1. r.write = (r.read + r.count) % NUM_THREADS
    <3>1. n + 1 \in 0..NUM_THREADS
      BY <1>1
    <3>2. (q.read + (n + 1)) % NUM_THREADS = Slot(q.read, n + 1)
      BY <1>1, <3>1, SlotOf
    <3> QED
      BY <1>4, <1>5, <3>2
  <2>2. ASSUME NEW i \in 1..r.count PROVE Items(r)[i] \in Threads
    <3>1. i \in 1..n \/ i = n + 1
      BY <1>1, <1>5
    <3> QED
      BY <1>8, <1>9, <3>1 DEF Sound
  <2> QED
    BY <1>7, <2>1, <2>2 DEF Sound
<1> QED
  BY <1>5, <1>8, <1>9, <1>10 DEF r, w

\* ring_pop takes the oldest item away.
LEMMA RingPop ==
  ASSUME NEW q, Sound(q), q.count > 0
  PROVE  LET r == ring_pop(q)
         IN  /\ Sound(r)
             /\ r.read = Slot(q.read, 1)
             /\ r.write = q.write
             /\ r.count = q.count - 1
             /\ r.storage = q.storage
             /\ \A i \in 1..(q.count - 1) : Items(r)[i] = Items(q)[i + 1]
<1> DEFINE n == q.count
           d == Slot(q.read, 1)
           r == ring_pop(q)
<1>1. /\ q \in Rings /\ NUM_THREADS \in Nat /\ NUM_THREADS > 0
      /\ q.storage \in [0..(NUM_THREADS - 1) -> Threads \cup {NULL}]
      /\ q.read \in 0..(NUM_THREADS - 1)
      /\ q.write \in 0..(NUM_THREADS - 1)
      /\ n \in 1..NUM_THREADS
  BY RingFields DEF Sound
<1>2. d = (q.read + 1) % NUM_THREADS /\ d \in 0..(NUM_THREADS - 1)
  <2>1. 1 \in 0..NUM_THREADS
    BY <1>1
  <2> HIDE DEF d
  <2> QED
    BY <1>1, <2>1, SlotOf DEF d
<1>3. q.write = Slot(q.read, n)
  BY SoundWrite
<1>4. ASSUME NEW i \in 0..(n - 1) PROVE Slot(d, i) = Slot(q.read, i + 1)
  <2>1. i \in 0..(NUM_THREADS - 1)
    BY <1>1
  <2> QED
    BY <1>1, <2>1, SlotNext
<1> HIDE DEF d
<1>5. /\ r.read = d /\ r.write = q.write /\ r.count = n - 1
      /\ r.storage = q.storage
      /\ r = [storage |-> q.storage, read |-> d, write |-> q.write, count |-> n - 1]
  <2>1. r = [q EXCEPT !.read = d, !.count = n - 1]
    BY <1>2 DEF ring_pop
  <2> HIDE DEF r
  <2> QED
    BY <1>1, <2>1 DEF Rings
<1>6. r \in Rings
  BY <1>1, <1>2, <1>5 DEF Rings
<1> HIDE DEF r
<1>7. ASSUME NEW i \in 1..(n - 1) PROVE Items(r)[i] = Items(q)[i + 1]
  <2>1. i \in 1..r.count /\ i + 1 \in 1..q.count /\ i \in 0..(n - 1)
    BY <1>1, <1>5
  <2>2. Items(r)[i] = q.storage[Slot(d, i)]
    <3>1. Items(r)[i] = r.storage[Slot(r.read, i)]
      BY <1>6, <2>1, ItemAt
    <3>2. r.read = d /\ r.storage = q.storage
      BY <1>5
    <3> QED
      BY <3>1, <3>2
  <2>3. Items(q)[i + 1] = q.storage[Slot(q.read, i + 1)]
    BY <1>1, <2>1, ItemAt
  <2> QED
    BY <1>4, <2>1, <2>2, <2>3
<1>8. Sound(r)
  <2>1. r.write = (r.read + r.count) % NUM_THREADS
    <3>1. n - 1 \in 0..NUM_THREADS /\ n - 1 \in 0..(n - 1)
      BY <1>1
    <3>2. (d + (n - 1)) % NUM_THREADS = Slot(d, n - 1)
      BY <1>1, <1>2, <3>1, SlotOf
    <3>3. Slot(d, n - 1) = Slot(q.read, (n - 1) + 1)
      BY <1>4, <3>1
    <3>4. (n - 1) + 1 = n
      BY <1>1
    <3> QED
      BY <1>3, <1>5, <3>2, <3>3, <3>4
  <2>2. ASSUME NEW i \in 1..r.count PROVE Items(r)[i] \in Threads
    <3>1. i \in 1..(n - 1) /\ i + 1 \in 1..q.count
      BY <1>1, <1>5
    <3> QED
      BY <1>7, <3>1 DEF Sound
  <2> QED
    BY <1>6, <2>1, <2>2 DEF Sound
<1> QED
  BY <1>5, <1>7, <1>8 DEF r, d

-----------------------------------------------------------------------------
(* The calls of semaphore.c on a ring.                                     *)

\* sem_wait in thrd_join: the value is never positive, and the thread blocks.
LEMMA JoinWait ==
  ASSUME NEW k \in Kernels, NestOK(k), NEW t \in Threads, Linked(k.run_queue, t),
         Distinct(k.run_queue), Linked(k.run_queue, k.it), k.task_active_cnt # 0,
         NEW j, Sound(j.wq), j.val = -j.wq.count, j.wq.count < NUM_THREADS
  PROVE  join_wait(k, j, t) =
           [k |-> os_task_block(k, t),
            j |-> [val |-> j.val - 1, wq |-> ring_push(j.wq, t)]]
<1> DEFINE I == Items(j.wq)
           b == end_critical(os_task_block(start_critical(k), t))
           r == S!sem_wait(k, View(j), t)
<1>1. j.wq.count \in Nat /\ j.val - 1 < 0
  BY RingFields DEF Sound
<1>2. I \in Seq(Threads) /\ Len(I) = j.wq.count
  BY ItemsSequence
<1>3. View(j).val = j.val /\ View(j).wq = I
  BY DEF View
<1> HIDE DEF I
<1>4. S!queue_wait_push(I, t) = Append(I, t)
  BY <1>2 DEF S!queue_wait_push
<1>5. b = os_task_block(k, t)
  BY BlockSection
<1>6. r = [k |-> b, s |-> [val |-> j.val - 1, wq |-> Append(I, t)]]
  BY <1>1, <1>3, <1>4, SameKernel, Zenon DEF S!sem_wait
<1> HIDE DEF r, b
<1>7. Append(I, t) # I
  <2>1. Len(Append(I, t)) # Len(I)
    BY <1>2
  <2> QED
    BY <2>1
<1>8. r.k = b /\ r.s.val = j.val - 1 /\ r.s.wq # I
  BY <1>6, <1>7
<1> QED
  BY <1>5, <1>8, Zenon DEF join_wait, r, I

\* sem_post in os_task_exit with somebody in the ring: the oldest is woken.
LEMMA JoinPost ==
  ASSUME NEW k \in Kernels, NestOK(k),
         NEW j, Sound(j.wq), j.val = -j.wq.count, j.wq.count > 0,
         ~Linked(k.run_queue, Items(j.wq)[1])
  PROVE  join_post(k, j) =
           [k |-> os_task_unpause(k, Items(j.wq)[1]),
            j |-> [val |-> j.val + 1, wq |-> ring_pop(j.wq)]]
<1> DEFINE I == Items(j.wq)
           b == end_critical(os_task_unpause(start_critical(k), I[1]))
           r == S!sem_post(k, View(j))
<1>1. j.wq.count \in Nat /\ j.val + 1 <= 0
  BY RingFields DEF Sound
<1>2. I \in Seq(Threads) /\ Len(I) = j.wq.count
  BY ItemsSequence
<1>3. View(j).val = j.val /\ View(j).wq = I
  BY DEF View
<1>4. I[1] \in Threads
  BY <1>1 DEF Sound
<1>5. b = os_task_unpause(k, I[1])
  BY <1>4, UnpauseSection
<1> HIDE DEF I
<1>6. S!queue_wait_pop(I).item = I[1] /\ S!queue_wait_pop(I).left = Tail(I)
  BY <1>2 DEF S!queue_wait_pop
<1>7. r = [k |-> b, s |-> [val |-> j.val + 1, wq |-> Tail(I)]]
  BY <1>1, <1>3, <1>6, SameKernel, Zenon DEF S!sem_post
<1> HIDE DEF r, b
<1>8. Tail(I) # I
  <2>1. Len(Tail(I)) # Len(I)
    BY <1>1, <1>2
  <2> QED
    BY <2>1
<1>9. r.k = b /\ r.s.val = j.val + 1 /\ r.s.wq # I
  BY <1>7, <1>8
<1> QED
  BY <1>5, <1>9, Zenon DEF join_post, r, I

-----------------------------------------------------------------------------
(* The loop of os_task_exit.                                               *)

Exits ==
  [k : Kernels, j : [val : Int, wq : Rings], mbox : [Threads -> Threads \cup {NULL}]]

\* What os_task_exit finds in k and j: blocked threads in the ring, and nothing
\* behind the newest.
Joined(k, j) ==
  /\ Sound(j.wq)
  /\ j \in [val : Int, wq : Rings]
  /\ j.val = -j.wq.count
  /\ Distinct(Items(j.wq))
  /\ \A i \in 1..j.wq.count : ~Linked(k.run_queue, Items(j.wq)[i])
  /\ \A i \in (j.wq.write + 1)..(NUM_THREADS - 1) : j.wq.storage[i] = NULL

\* x is what n turns leave of k, j and m.
Exited(k, j, m, n, x) ==
  /\ x \in Exits
  /\ Woke(k, x.k, FirstOf(Items(j.wq), n))
  /\ Sound(x.j.wq)
  /\ x.j.wq.count = j.wq.count - n
  /\ x.j.val = -x.j.wq.count
  /\ x.j.wq.write = j.wq.write
  /\ x.j.wq.storage = j.wq.storage
  /\ \A i \in 1..(j.wq.count - n) : Items(x.j.wq)[i] = Items(j.wq)[n + i]
  /\ x.mbox = m

\* The return code goes nowhere.
LEMMA NoAddressee ==
  ASSUME NEW q \in Rings,
         \A i \in (q.write + 1)..(NUM_THREADS - 1) : q.storage[i] = NULL
  PROVE  queue_wait_back(q) \notin Threads
<1>1. /\ NUM_THREADS \in Nat
      /\ q.read \in 0..(NUM_THREADS - 1) /\ q.write \in 0..(NUM_THREADS - 1)
  BY RingFields
<1>2. CASE q.write + 1 < NUM_THREADS
  <2>1. queue_wait_back(q) = NULL
    BY <1>1, <1>2 DEF queue_wait_back
  <2> QED
    BY <2>1, KernelAssumption
<1>3. CASE ~(q.write + 1 < NUM_THREADS)
  <2>1. queue_wait_back(q) = q.read /\ q.read \in 0..NUM_THREADS
    BY <1>1, <1>3 DEF queue_wait_back
  <2> QED
    BY <2>1, LifecycleAssumption
<1> QED
  BY <1>2, <1>3

\* One turn of the loop.
LEMMA ExitStep ==
  ASSUME NEW k, QueueOK(k), NestOK(k), NEW j, Joined(k, j), NEW m,
         NEW n \in 1..j.wq.count, NEW x, Exited(k, j, m, n - 1, x), NEW u
  PROVE  Exited(k, j, m, n, WakeOne(x, u))
<1> DEFINE q == x.j.wq
           I == Items(j.wq)
           w == Items(q)[1]
           p == ring_pop(q)
           y == WakeOne(x, u)
<1>1. /\ NUM_THREADS \in Nat /\ j.wq.count \in Nat /\ j.wq.count <= NUM_THREADS
      /\ j.wq.write \in 0..(NUM_THREADS - 1)
  BY RingFields DEF Joined, Sound
<1>2. n \in Nat /\ n > 0 /\ n <= j.wq.count
  BY <1>1
<1>3. /\ x \in Exits /\ x.k \in Kernels
      /\ Woke(k, x.k, FirstOf(I, n - 1))
      /\ Sound(q)
      /\ q.count = j.wq.count - (n - 1)
      /\ x.j.val = -q.count
      /\ q.write = j.wq.write
      /\ q.storage = j.wq.storage
      /\ x.mbox = m
  BY DEF Exited, Exits
<1>4. q.count > 0 /\ q.count \in Nat
  BY <1>1, <1>2, <1>3
<1>5. \A i \in 1..q.count : Items(q)[i] = I[(n - 1) + i]
  BY <1>3 DEF Exited
<1>6. w = I[n] /\ w \in Threads
  <2>1. 1 \in 1..q.count
    BY <1>4
  <2>2. w = I[(n - 1) + 1] /\ w \in Threads
    BY <1>3, <1>5, <2>1 DEF Sound
  <2>3. (n - 1) + 1 = n
    BY <1>2
  <2> QED
    BY <2>2, <2>3
<1>7. I \in Seq(Threads) /\ Len(I) = j.wq.count /\ Distinct(I)
  BY ItemsSequence DEF Joined
<1>8. ~Linked(x.k.run_queue, w)
  <2>1. ~Linked(k.run_queue, w)
    BY <1>6 DEF Joined
  <2>2. w \notin FirstOf(I, n - 1)
    <3>1. ASSUME NEW i \in 1..(n - 1) PROVE I[i] # I[n]
      BY <1>2, <1>7 DEF Distinct
    <3> QED
      BY <1>6, <3>1 DEF FirstOf
  <2> QED
    BY <1>3, <1>6, <2>1, <2>2 DEF Woke
<1>9. QueueOK(x.k) /\ NestOK(x.k)
  BY <1>3 DEF Woke, NestOK
<1>10. join_post(x.k, x.j) =
         [k |-> os_task_unpause(x.k, w), j |-> [val |-> x.j.val + 1, wq |-> p]]
  BY <1>3, <1>4, <1>8, <1>9, JoinPost
<1>11. queue_wait_back(q) \notin Threads
  BY <1>3, NoAddressee DEF Joined, Sound
<1>12. y = [k |-> os_task_unpause(x.k, w), j |-> [val |-> x.j.val + 1, wq |-> p],
            mbox |-> m]
  BY <1>3, <1>10, <1>11 DEF WakeOne
<1>13. /\ Sound(p)
       /\ p.write = q.write /\ p.count = q.count - 1 /\ p.storage = q.storage
       /\ \A i \in 1..(q.count - 1) : Items(p)[i] = Items(q)[i + 1]
  BY <1>3, <1>4, RingPop
<1>14. Woke(k, os_task_unpause(x.k, w), FirstOf(I, n))
  <2>1. Woke(x.k, os_task_unpause(x.k, w), {w})
    BY <1>6, <1>8, <1>9, UnpauseWakes
  <2>2. FirstOf(I, n) = FirstOf(I, n - 1) \cup {w}
    BY <1>2, <1>6, FirstMore
  <2> QED
    BY <1>3, <1>6, <2>1, <2>2, WokeAgain
<1> HIDE DEF y, p, I, w, q
<1>15. /\ y.k = os_task_unpause(x.k, w) /\ y.j.val = x.j.val + 1 /\ y.j.wq = p
       /\ y.j = [val |-> x.j.val + 1, wq |-> p]
       /\ y.mbox = m
       /\ y = [k |-> y.k, j |-> y.j, mbox |-> y.mbox]
  BY <1>12
<1>16. y.j.val \in Int /\ y.j.val = -p.count /\ p.count = j.wq.count - n
  BY <1>1, <1>2, <1>3, <1>13, <1>15
<1>17. y \in Exits
  <2>1. y.k \in Kernels
    BY <1>14, <1>15 DEF Woke, QueueOK
  <2>2. y.j \in [val : Int, wq : Rings]
    BY <1>13, <1>15, <1>16 DEF Sound
  <2>3. y.mbox \in [Threads -> Threads \cup {NULL}]
    BY <1>3, <1>15 DEF Exits
  <2> QED
    BY <1>15, <2>1, <2>2, <2>3 DEF Exits
<1>18. ASSUME NEW i \in 1..(j.wq.count - n) PROVE Items(p)[i] = I[n + i]
  <2>1. i \in 1..(q.count - 1) /\ i + 1 \in 1..q.count /\ (n - 1) + (i + 1) = n + i
    BY <1>1, <1>2, <1>3
  <2>2. Items(p)[i] = Items(q)[i + 1]
    BY <1>13, <2>1
  <2>3. Items(q)[i + 1] = I[(n - 1) + (i + 1)]
    BY <1>5, <2>1
  <2> QED
    BY <2>1, <2>2, <2>3
<1> QED
  BY <1>3, <1>13, <1>14, <1>15, <1>16, <1>17, <1>18 DEF Exited, I, p, y

\* The choice in a turn is no choice.
LEMMA TurnIsWakeOne ==
  ASSUME NEW z, NEW u
  PROVE  (CHOOSE y \in {WakeOne(x, u) : x \in {z}} : TRUE) = WakeOne(z, u)
<1>1. \E y \in {WakeOne(x, u) : x \in {z}} : TRUE
  OBVIOUS
<1>2. \A y \in {WakeOne(x, u) : x \in {z}} : y = WakeOne(z, u)
  OBVIOUS
<1> QED
  BY <1>1, <1>2

\* All turns, between start_critical and end_critical.
Turns(k, j, m, u) ==
  LET turn[n \in 0..j.wq.count] ==
        IF n = 0 THEN [k |-> k, j |-> j, mbox |-> m]
        ELSE CHOOSE y \in {WakeOne(x, u) : x \in {turn[n - 1]}} : TRUE
  IN  turn[j.wq.count]

\* All turns wake all members of the ring.
LEMMA ExitLoop ==
  ASSUME NEW k, QueueOK(k), NestOK(k), NEW j, Joined(k, j),
         NEW m \in [Threads -> Threads \cup {NULL}], NEW u
  PROVE  Exited(k, j, m, j.wq.count, Turns(k, j, m, u))
<1> DEFINE N == j.wq.count
           a == [k |-> k, j |-> j, mbox |-> m]
           Turn(z) == CHOOSE y \in {WakeOne(x, u) : x \in {z}} : TRUE
           turn[n \in 0..N] == IF n = 0 THEN a ELSE Turn(turn[n - 1])
           R == [n \in 0..N |-> {x \in Exits : Exited(k, j, m, n, x)}]
           G == [p \in (1..N) \X Exits |-> WakeOne(p[2], u)]
<1>1. N \in Nat
  BY RingFields DEF Joined, Sound
<1>2. a \in Exits /\ a.k = k /\ a.j = j /\ a.mbox = m
  BY DEF Exits, QueueOK, Joined
<1> HIDE DEF a
<1>3. Exited(k, j, m, 0, a)
  <2>1. Woke(k, k, FirstOf(Items(j.wq), 0))
    <3>1. FirstOf(Items(j.wq), 0) = {}
      BY DEF FirstOf
    <3> QED
      BY <3>1 DEF Woke
  <2>2. \A i \in 1..(j.wq.count - 0) : Items(j.wq)[i] = Items(j.wq)[0 + i]
    BY <1>1
  <2>3. j.wq.count = j.wq.count - 0
    BY <1>1
  <2> QED
    BY <1>2, <2>1, <2>2, <2>3 DEF Exited, Joined
<1>4. ASSUME NEW n \in 1..N, NEW x, Exited(k, j, m, n - 1, x)
      PROVE  Exited(k, j, m, n, WakeOne(x, u))
  BY <1>4, ExitStep
<1> HIDE DEF N
<1>5. \A n \in 0..N : \A x : x \in R[n] <=> Exited(k, j, m, n, x)
  BY DEF Exited
<1>6. ASSUME NEW n \in 1..N, NEW x \in R[n - 1]
      PROVE  G[<<n, x>>] = WakeOne(x, u) /\ G[<<n, x>>] \in R[n]
  <2>1. n \in 0..N /\ n - 1 \in 0..N
    BY <1>1
  <2>2. x \in Exits /\ Exited(k, j, m, n - 1, x)
    BY <2>1
  <2>3. G[<<n, x>>] = WakeOne(x, u)
    BY <2>2
  <2> QED
    BY <1>4, <1>5, <2>1, <2>2, <2>3
<1>7. a \in R[0]
  <2>1. 0 \in 0..N
    BY <1>1
  <2> QED
    BY <1>3, <1>5, <2>1
<1>8. \A z : Turn(z) = WakeOne(z, u)
  BY TurnIsWakeOne
<1> HIDE DEF R, G, Turn
<1>9. PICK f : IsLoop(f, N, a, G) /\ \A n \in 0..N : f[n] \in R[n]
  <2> HIDE DEF turn
  <2> QED
    BY <1>1, <1>6, <1>7, LoopFunction
<1>10. f = [n \in 0..N |-> IF n = 0 THEN a ELSE Turn(f[n - 1])]
  <2> HIDE DEF turn
  <2> DEFINE g == [n \in 0..N |-> IF n = 0 THEN a ELSE G[<<n, f[n - 1]>>]]
             h == [n \in 0..N |-> IF n = 0 THEN a ELSE Turn(f[n - 1])]
  <2>1. ASSUME NEW n \in 0..N, n # 0 PROVE G[<<n, f[n - 1]>>] = Turn(f[n - 1])
    <3>1. n \in 1..N /\ n - 1 \in 0..N
      BY <1>1, <2>1
    <3> QED
      BY <1>6, <1>8, <1>9, <3>1
  <2>2. \A n \in 0..N : g[n] = h[n]
    BY <2>1
  <2>3. g = [n \in 0..N |-> g[n]] /\ h = [n \in 0..N |-> h[n]]
    OBVIOUS
  <2>4. f = g
    BY <1>9 DEF IsLoop
  <2> HIDE DEF g, h
  <2>5. g = h
    BY <2>2, <2>3
  <2> QED
    BY <2>4, <2>5 DEF h
<1>11. turn = [n \in 0..N |-> IF n = 0 THEN a ELSE Turn(turn[n - 1])]
  BY <1>10
<1> HIDE DEF turn
<1>12. turn[0] \in R[0]
  BY <1>1, <1>7, <1>11
<1>13. ASSUME NEW n \in 1..N, turn[n - 1] \in R[n - 1] PROVE turn[n] \in R[n]
  <2>1. n \in 0..N /\ n # 0
    BY <1>1
  <2>2. turn[n] = Turn(turn[n - 1])
    BY <1>11, <2>1
  <2> QED
    BY <1>6, <1>8, <1>13, <2>2
<1>14. \A n \in 0..N : turn[n] \in R[n]
  BY <1>1, <1>12, <1>13, LoopInvariant
<1>15. Exited(k, j, m, N, turn[N])
  BY <1>1, <1>5, <1>14
<1> QED
  BY <1>15 DEF N, turn, Turn, a, Turns

\* os_task_exit wakes everybody in the ring and writes no return code.
LEMMA ExitEffect ==
  ASSUME NEW k, QueueOK(k), NestOK(k), NEW j, Joined(k, j),
         NEW m \in [Threads -> Threads \cup {NULL}], NEW u
  PROVE  LET y == os_task_exit(k, j, m, u)
         IN  /\ Woke(k, y.k, FirstOf(Items(j.wq), j.wq.count))
             /\ y.j \in [val : Int, wq : Rings]
             /\ Sound(y.j.wq)
             /\ y.j.wq.count = 0
             /\ y.j.val = 0
             /\ y.mbox = m
<1> DEFINE N == j.wq.count
           s == start_critical(k)
           last == Turns(s, j, m, u)
           y == os_task_exit(k, j, m, u)
           e == end_critical(last.k)
           W == FirstOf(Items(j.wq), N)
<1>1. N \in Nat
  BY RingFields DEF Joined, Sound
<1>2. k \in Kernels
  BY DEF QueueOK
<1>3. /\ s \in Kernels /\ SameScheduler(s, k)
      /\ s.nest = k.nest + 1 /\ s.gie = FALSE /\ NestOK(s)
  BY <1>2, StartEffect, StartNest
<1>4. y = [last EXCEPT !.k = e]
  BY DEF os_task_exit, Turns
<1> HIDE DEF s
<1>5. QueueOK(s) /\ Joined(s, j)
  BY <1>3 DEF QueueOK, SameScheduler, Joined
<1>6. Exited(s, j, m, N, last)
  BY <1>3, <1>5, ExitLoop
<1> HIDE DEF last, y
<1>7. /\ last \in Exits /\ Woke(s, last.k, W) /\ Sound(last.j.wq)
      /\ last.j.wq.count = N - N /\ last.j.val = -last.j.wq.count /\ last.mbox = m
  BY <1>6 DEF Exited
<1>8. y.k = e /\ y.j = last.j /\ y.mbox = last.mbox
  BY <1>4, <1>7 DEF Exits
<1>9. /\ QueueOK(last.k) /\ last.k \in Kernels
      /\ last.k.nest = k.nest + 1 /\ last.k.gie = FALSE
  BY <1>3, <1>7 DEF Woke, QueueOK
<1>10. /\ e \in Kernels /\ SameScheduler(e, last.k)
       /\ e.nest = k.nest /\ e.gie = k.gie
  BY <1>2, <1>9, EndEffect
<1> HIDE DEF e, W
<1>11. QueueOK(e)
  BY <1>9, <1>10 DEF QueueOK, SameScheduler
<1>12. Woke(k, e, W)
  <2>1. /\ \A t \in Threads : Linked(e.run_queue, t) <=> Linked(k.run_queue, t) \/ t \in W
        /\ k.run_queue # <<>> => e.it = k.it
    BY <1>3, <1>7, <1>10 DEF Woke, SameScheduler
  <2>2. \A t \in Tasks : e.state[t] = IF t \in W THEN "ACTIVE" ELSE k.state[t]
    BY <1>3, <1>7, <1>10 DEF Woke, SameScheduler
  <2>3. /\ e.run_ptr = k.run_ptr /\ e.fixed_prio = k.fixed_prio
        /\ e.working_prio = k.working_prio /\ e.wdtifg = k.wdtifg
    BY <1>3, <1>7, <1>10 DEF Woke, SameScheduler
  <2> QED
    BY <1>10, <1>11, <2>1, <2>2, <2>3 DEF Woke
<1>13. y.j \in [val : Int, wq : Rings] /\ y.j.wq.count = 0 /\ y.j.val = 0
  BY <1>1, <1>7, <1>8 DEF Exits
<1> QED
  BY <1>7, <1>8, <1>12, <1>13 DEF y, W

-----------------------------------------------------------------------------
(* Creation and death: what they do to the kernel.                         *)

\* thrd_create of a block that is not in the run queue.
LEMMA CreateEffect ==
  ASSUME NEW k, QueueOK(k), NestOK(k), NEW b \in Threads, ~Linked(k.run_queue, b),
         NEW priority \in Nat
  PROVE  LET j == thrd_create(k, b, priority)
         IN  /\ QueueOK(j)
             /\ \A u \in Threads :
                  Linked(j.run_queue, u) <=> Linked(k.run_queue, u) \/ u = b
             /\ k.run_queue # <<>> => j.it = k.it
             /\ j.run_ptr = k.run_ptr
             /\ j.state = [k.state EXCEPT ![b] = "ACTIVE"]
             /\ j.fixed_prio = [k.fixed_prio EXCEPT ![b] = priority]
             /\ j.working_prio = [k.working_prio EXCEPT ![b] = priority]
             /\ j.nest = k.nest
             /\ j.gie = k.gie
             /\ j.wdtifg = k.wdtifg
<1> DEFINE s == start_critical(k)
           s2 == start_critical(s)
           a == os_add_task_mmang(s2, b)
           c == end_critical(a)
           st == [c.state EXCEPT ![b] = "ACTIVE"]
           fp == [c.fixed_prio EXCEPT ![b] = priority]
           wp == [c.working_prio EXCEPT ![b] = priority]
           i1 == [c EXCEPT !.fixed_prio = fp]
           i2 == [i1 EXCEPT !.working_prio = wp]
           i == [i2 EXCEPT !.state = st]
           j == end_critical(i)
<1>1. k \in Kernels
  BY DEF QueueOK
<1>2. /\ s \in Kernels /\ SameScheduler(s, k)
      /\ s.nest = k.nest + 1 /\ s.gie = FALSE /\ NestOK(s)
  BY <1>1, StartEffect, StartNest
<1> HIDE DEF s
<1>3. /\ s2 \in Kernels /\ SameScheduler(s2, s)
      /\ s2.nest = s.nest + 1 /\ s2.gie = FALSE /\ NestOK(s2)
  BY <1>2, StartEffect, StartNest
<1> HIDE DEF s2
<1>4. QueueOK(s2) /\ ~Linked(s2.run_queue, b)
  BY <1>2, <1>3 DEF QueueOK, SameScheduler
<1>5. os_add_task(s2, b) = a
  BY <1>3, <1>4, AddSection
<1>6. /\ QueueOK(a)
      /\ \A u \in Threads : Linked(a.run_queue, u) <=> Linked(k.run_queue, u) \/ u = b
      /\ k.run_queue # <<>> => a.it = k.it
      /\ a.run_ptr = k.run_ptr /\ a.state = k.state
      /\ a.fixed_prio = k.fixed_prio /\ a.working_prio = k.working_prio
      /\ a.nest = s.nest + 1 /\ a.gie = FALSE /\ a.wdtifg = k.wdtifg
  BY <1>2, <1>3, <1>4, AddAny DEF SameScheduler
<1>7. thrd_create(k, b, priority) = end_critical(thrd_init(c, b, priority))
  BY <1>5 DEF thrd_create, os_task_create, s, s2
<1> HIDE DEF a
<1>8. a \in Kernels
  BY <1>6 DEF QueueOK
<1>9. /\ c \in Kernels /\ SameScheduler(c, a)
      /\ c.nest = k.nest + 1 /\ c.gie = FALSE
  BY <1>2, <1>6, <1>8, EndEffect
<1> HIDE DEF c
<1>10. /\ c.state = k.state /\ c.fixed_prio = k.fixed_prio
       /\ c.working_prio = k.working_prio
  BY <1>6, <1>9 DEF SameScheduler
<1>11. thrd_init(c, b, priority) = i
  BY <1>9 DEF thrd_init, Kernels
<1>12. /\ k.state \in [Tasks -> ThreadStates]
       /\ k.fixed_prio \in [Tasks -> Nat]
       /\ k.working_prio \in [Tasks -> Nat]
  BY <1>1, KernelTypes
<1>13. /\ st \in [Tasks -> ThreadStates] /\ fp \in [Tasks -> Nat] /\ wp \in [Tasks -> Nat]
       /\ st = [k.state EXCEPT ![b] = "ACTIVE"]
       /\ fp = [k.fixed_prio EXCEPT ![b] = priority]
       /\ wp = [k.working_prio EXCEPT ![b] = priority]
  BY <1>10, <1>12 DEF ThreadStates
<1> HIDE DEF st, fp, wp
<1>14. i1 \in Kernels
  BY <1>9, <1>13, KernelUpdates
<1>15. i2 \in Kernels
  <2> HIDE DEF i1
  <2> QED
    BY <1>13, <1>14, KernelUpdates
<1>16. i \in Kernels
  <2> HIDE DEF i2
  <2> QED
    BY <1>13, <1>15, KernelUpdates
<1>17. /\ i.run_queue = c.run_queue /\ i.it = c.it
       /\ i.task_active_cnt = c.task_active_cnt /\ i.run_ptr = c.run_ptr
       /\ i.state = st /\ i.fixed_prio = fp /\ i.working_prio = wp
       /\ i.nest = c.nest /\ i.gie = c.gie /\ i.wdtifg = c.wdtifg
  BY <1>9 DEF Kernels
<1> HIDE DEF i
<1>18. /\ j \in Kernels /\ SameScheduler(j, i)
       /\ j.nest = k.nest /\ j.gie = k.gie
  <2>1. i.nest = k.nest + 1 /\ i.gie = FALSE
    BY <1>9, <1>17
  <2> QED
    BY <1>1, <1>16, <2>1, EndEffect
<1>19. thrd_create(k, b, priority) = j
  BY <1>7, <1>11
<1> HIDE DEF j
<1>20. /\ j.run_queue = a.run_queue /\ j.it = a.it
       /\ j.task_active_cnt = a.task_active_cnt /\ j.run_ptr = k.run_ptr
       /\ j.state = st /\ j.fixed_prio = fp /\ j.working_prio = wp
       /\ j.wdtifg = k.wdtifg
  BY <1>6, <1>9, <1>17, <1>18 DEF SameScheduler
<1>21. QueueOK(j)
  BY <1>6, <1>18, <1>20 DEF QueueOK
<1> QED
  BY <1>6, <1>13, <1>18, <1>19, <1>20, <1>21

\* os_task_kill does to the queue what os_task_pause does.
LEMMA KillIsPause ==
  ASSUME NEW k, NEW t
  PROVE  os_task_kill(k, t) = os_task_pause(k, t)
BY DEF os_task_kill, os_task_pause

-----------------------------------------------------------------------------
(* The inductive invariant, action by action.                              *)

\* What the invariant says of the kernel.
LEMMA LCFacts ==
  ASSUME LCInv
  PROVE  /\ QueueOK(os)
         /\ os \in Kernels
         /\ os.run_queue \in Seq(Threads)
         /\ os.run_ptr \in Tasks
         /\ os.state \in [Tasks -> ThreadStates]
         /\ os.fixed_prio \in [Tasks -> Nat]
         /\ os.working_prio \in [Tasks -> Nat]
         /\ os.nest = 0
         /\ os.gie = TRUE
         /\ NestOK(os)
<1>1. os \in Kernels
  BY DEF LCInv, LCTypeOK
<1>2. QueueOK(os)
  BY <1>1 DEF LCInv, RunQueueHoldsTheLiving, QueueOK, Distinct
<1>3. os.gie \in BOOLEAN
  BY <1>1, KernelTypes
<1>4. os.nest = 0 /\ os.gie = TRUE /\ NestOK(os)
  BY <1>3 DEF LCInv, Preemptible, NestOK
<1> QED
  BY <1>1, <1>2, <1>4, KernelTypes

\* What the invariant says of the other variables.
LEMMA LCTypes ==
  ASSUME LCInv
  PROVE  /\ free_list \in Threads \cup {SP, NULL}
         /\ word0 \in [Threads -> Threads \cup {SP, NULL}]
         /\ mbox \in [Threads -> Threads \cup {NULL}]
         /\ phase \in [Threads -> {"free", "running", "ending"}]
         /\ joining \in [Threads -> Threads \cup {NULL}]
         /\ join_sem \in [Threads -> [val : Int, wq : Rings]]
         /\ SP \notin Threads
         /\ NULL \notin Threads
BY LifecycleAssumption, KernelAssumption DEF LCInv, LCTypeOK

\* The ring of a thread.
LEMMA RingFacts ==
  ASSUME LCInv, NEW t \in Threads
  PROVE  /\ Sound(join_sem[t].wq)
         /\ Distinct(Items(join_sem[t].wq))
         /\ join_sem[t].val = -join_sem[t].wq.count
         /\ \A i \in 1..join_sem[t].wq.count :
              /\ Items(join_sem[t].wq)[i] \in Threads
              /\ joining[Items(join_sem[t].wq)[i]] = t
              /\ os.state[Items(join_sem[t].wq)[i]] = "BLOCKING"
<1> DEFINE q == join_sem[t].wq
<1>1. q \in Rings /\ RingOK(t, q)
  BY LCTypes DEF LCInv, RingsOK
<1>2. /\ join_sem[t].val = -q.count
      /\ \A i \in 1..q.count : Items(q)[i] \in Threads
  BY DEF LCInv, LCTypeOK
<1> HIDE DEF q
<1>3. Sound(q)
  BY <1>1, <1>2 DEF Sound, RingOK
<1>4. Len(Items(q)) = q.count
  BY <1>3, ItemsSequence
<1> QED
  BY <1>1, <1>2, <1>3, <1>4 DEF RingOK, Distinct, q

\* The thread on the core runs, and if it lives it is linked and under the iterator.
LEMMA Running ==
  ASSUME LCInv, NEW t \in Threads, CanRun(t)
  PROVE  /\ os.run_ptr = t
         /\ os.state[t] = "ACTIVE"
         /\ \A u \in Threads : \A i \in 1..join_sem[u].wq.count :
              Items(join_sem[u].wq)[i] # t
         /\ Alive(t) => /\ Linked(os.run_queue, t) /\ os.it = t
                        /\ os.run_queue # <<>> /\ os.task_active_cnt # 0
<1>1. os.run_ptr = t /\ ~os.wdtifg
  BY LCFacts DEF CanRun
<1>2. os.state[t] = "ACTIVE"
  <2>1. CASE Linked(os.run_queue, t)
    BY <2>1 DEF LCInv, RunQueueHoldsTheLiving
  <2>2. CASE ~Linked(os.run_queue, t)
    BY <1>1, <2>2 DEF LCInv, RunnerOK, JoinersOK
  <2> QED
    BY <2>1, <2>2
<1>3. \A u \in Threads : \A i \in 1..join_sem[u].wq.count : Items(join_sem[u].wq)[i] # t
  BY <1>2, RingFacts
<1>4. ASSUME Alive(t)
      PROVE  /\ Linked(os.run_queue, t) /\ os.it = t
             /\ os.run_queue # <<>> /\ os.task_active_cnt # 0
  <2>1. Linked(os.run_queue, t)
    BY <1>2, <1>4 DEF LCInv, RunQueueHoldsTheLiving
  <2>2. os.it = t
    BY <1>1, <2>1 DEF LCInv, RunnerOK
  <2> QED
    BY <2>1, <2>2, LCFacts, LinkedElements DEF QueueOK
<1> QED
  BY <1>1, <1>2, <1>3, <1>4

\* The running thread leaves the queue.
LEMMA LeaveQueue ==
  ASSUME NEW k, QueueOK(k), NEW t \in Threads, Linked(k.run_queue, t), k.it = t,
         NEW j \in Kernels, j.run_queue = Unlink(k.run_queue, t),
         j.it = PrevCircular(k.run_queue, k.it),
         j.task_active_cnt = k.task_active_cnt - 1
  PROVE  /\ QueueOK(j)
         /\ \A u \in Threads : Linked(j.run_queue, u) <=> Linked(k.run_queue, u) /\ u # t
<1> DEFINE q == k.run_queue
           r == Unlink(q, t)
<1>1. /\ k \in Kernels /\ q \in Seq(Threads) /\ Distinct(q)
      /\ k.task_active_cnt = Len(q)
  BY KernelTypes DEF QueueOK
<1>2. /\ r \in Seq(Threads)
      /\ Len(r) = Len(q) - 1
      /\ Distinct(r)
      /\ \A u \in Threads : Linked(r, u) <=> Linked(q, u) /\ u # t
  BY <1>1, UnlinkElements
<1>3. ASSUME r # <<>> PROVE Linked(r, j.it)
  <2>1. Len(q) > 1 /\ q # <<>>
    BY <1>1, <1>2, <1>3, EmptySeq
  <2>2. /\ PrevCircular(q, t) \in Threads /\ Linked(q, PrevCircular(q, t))
        /\ PrevCircular(q, t) # t
    BY <1>1, <2>1, PrevOnQueue
  <2> QED
    BY <1>2, <2>2
<1> HIDE DEF q, r
<1> QED
  BY <1>1, <1>2, <1>3 DEF QueueOK, q, r

\* The tick reschedules: the task on the core has something left of its slice.
LEMMA TickFacts ==
  ASSUME LCInv
  PROVE  /\ os.working_prio[os.run_ptr] > 0
         /\ os.working_prio[os.run_ptr] <= os.fixed_prio[os.run_ptr]
         /\ Rescheduled(os, os_tick(os))
         /\ os_tick(os).gie = TRUE
<1> DEFINE r == os.run_ptr
<1>1. /\ QueueOK(os) /\ r \in Tasks
      /\ os.working_prio[r] \in Nat /\ os.fixed_prio[r] \in Nat
  BY LCFacts
<1>2. os.working_prio[r] > 0 /\ os.working_prio[r] <= os.fixed_prio[r]
  <2>1. CASE r \in Threads
    BY <1>1, <2>1 DEF LCInv, RunnerOK
  <2>2. CASE r = Idle
    BY <2>2 DEF LCInv, IdleOK
  <2> QED
    BY <1>1, <2>1, <2>2 DEF Tasks
<1> QED
  BY <1>1, <1>2, TickEffect

\* The tick saves a stack pointer in a block, which is what cuts the free list short.
LEMMA LCTickInv ==
  ASSUME LCInv, LCTick
  PROVE  LCInv'
<1> DEFINE r == os.run_ptr
<1>1. /\ os' = os_tick(os)
      /\ word0' = [t \in Threads |-> IF t = r THEN SP ELSE word0[t]]
      /\ UNCHANGED <<free_list, join_sem, mbox, phase, joining>>
  BY DEF LCTick, Tick, TimerTick, YieldTick, save
<1>2. /\ QueueOK(os) /\ os \in Kernels /\ os.run_queue \in Seq(Threads) /\ r \in Tasks
      /\ os.working_prio \in [Tasks -> Nat] /\ os.fixed_prio \in [Tasks -> Nat]
  BY LCFacts
<1>3. os.working_prio[r] \in Nat /\ os.fixed_prio[r] \in Nat
  BY <1>2
<1>4. os.working_prio[r] > 0 /\ os.working_prio[r] <= os.fixed_prio[r]
  BY TickFacts
<1>5. Rescheduled(os, os') /\ os'.gie = TRUE
  BY <1>1, TickFacts
<1>6. /\ QueueOK(os') /\ os' \in Kernels
      /\ os'.run_queue = os.run_queue /\ os'.state = os.state
      /\ os'.fixed_prio = os.fixed_prio /\ os'.nest = os.nest
  BY <1>5 DEF Rescheduled, QueueOK
<1>7. \A t \in Tasks :
        os'.working_prio[t] = IF t = r THEN SliceLeft(os) ELSE os.working_prio[t]
  BY <1>5 DEF Rescheduled
<1>8. SliceLeft(os) \in 1..os.fixed_prio[r]
  BY <1>3, <1>4 DEF SliceLeft, SliceOver
<1>9. ASSUME NEW t \in Threads, os.working_prio[t] \in 1..os.fixed_prio[t] \/ t = r
      PROVE  os'.working_prio[t] \in 1..os'.fixed_prio[t]
  BY <1>6, <1>7, <1>8, <1>9 DEF Tasks
<1>10. LCTypeOK'
  <2>1. ASSUME NEW t \in Threads, (Alive(t))'
        PROVE  os'.working_prio[t] \in 1..os'.fixed_prio[t]
    BY <1>1, <1>9, <2>1 DEF LCInv, LCTypeOK, Alive
  <2>2. word0' \in [Threads -> Threads \cup {SP, NULL}]
    BY <1>1, LCTypes
  <2> QED
    BY <1>1, <1>6, <2>1, <2>2 DEF LCInv, LCTypeOK
<1>11. Preemptible(os')
  BY <1>5, <1>6, LCFacts DEF Preemptible
<1>12. RunQueueHoldsTheLiving'
  <2>1. \A t \in Threads : Linked(os'.run_queue, t) <=> (Alive(t))' /\ os'.state[t] = "ACTIVE"
    BY <1>1, <1>6 DEF LCInv, RunQueueHoldsTheLiving, Alive
  <2> QED
    BY <1>6, <2>1 DEF QueueOK, RunQueueHoldsTheLiving, Distinct
<1>13. LinksOK'
  <2>1. \A t \in Threads : (Alive(t))' <=> Alive(t)
    BY <1>1 DEF Alive
  <2>2. \A t \in Threads : word0'[t] = SP \/ word0'[t] = word0[t]
    BY <1>1
  <2> QED
    BY <1>1, <2>1, <2>2, LCTypes DEF LCInv, LinksOK, Alive
<1>14. RunnerOK'
  <2>1. CASE os.run_queue = <<>>
    BY <1>5, <2>1, KernelAssumption DEF Rescheduled, RunnerOK
  <2>2. CASE os.run_queue # <<>> /\ SliceOver(os)
    <3>1. /\ os'.run_ptr \in Threads
          /\ Linked(os'.run_queue, os'.run_ptr) /\ os'.it = os'.run_ptr
      BY <1>5, <2>2 DEF Rescheduled
    <3>2. (Alive(os.run_ptr))'
      BY <1>12, <3>1 DEF RunQueueHoldsTheLiving, Alive
    <3>3. os'.working_prio[os'.run_ptr] \in 1..os'.fixed_prio[os'.run_ptr]
      BY <1>10, <3>1, <3>2 DEF LCTypeOK, Alive
    <3> QED
      BY <3>1, <3>3 DEF RunnerOK
  <2>3. CASE os.run_queue # <<>> /\ ~SliceOver(os)
    <3>1. os'.run_ptr = r /\ os'.it = os.it
      BY <1>5, <2>3 DEF Rescheduled
    <3>2. os.state[r] # "BLOCKING"
      BY <2>3 DEF SliceOver, Suspended
    <3>3. ASSUME r \in Threads
          PROVE  /\ os'.working_prio[r] \in 1..os'.fixed_prio[r]
                 /\ Linked(os.run_queue, r) => os.it = r
      BY <1>9, <3>3 DEF LCInv, RunnerOK
    <3> QED
      BY <1>6, <3>1, <3>2, <3>3 DEF RunnerOK
  <2> QED
    BY <2>1, <2>2, <2>3
<1>15. IdleOK'
  <2>1. os.fixed_prio[Idle] = 1 /\ os.state[Idle] = "ACTIVE" /\ os.working_prio[Idle] = 1
    BY DEF LCInv, IdleOK
  <2>2. os'.working_prio[Idle] = 1
    BY <1>7, <1>8, <2>1 DEF Tasks
  <2> QED
    BY <1>6, <2>1, <2>2 DEF IdleOK
<1>16. JoinersOK'
  BY <1>1, <1>6 DEF LCInv, JoinersOK
<1>17. RingsOK'
  BY <1>1, <1>6 DEF LCInv, RingsOK, RingOK
<1> QED
  BY <1>10, <1>11, <1>12, <1>13, <1>14, <1>15, <1>16, <1>17 DEF LCInv

\* A thread that returns from thrd_join is in no ring.
LEMMA JoinReturnInv ==
  ASSUME LCInv, NEW t \in Threads, JoinReturn(t)
  PROVE  LCInv'
<1>1. /\ CanRun(t) /\ joining[t] # NULL
      /\ joining' = [joining EXCEPT ![t] = NULL]
      /\ UNCHANGED <<os, free_list, word0, join_sem, mbox, phase>>
  BY DEF JoinReturn
<1>2. /\ os.state[t] = "ACTIVE"
      /\ \A u \in Threads : \A i \in 1..join_sem[u].wq.count : Items(join_sem[u].wq)[i] # t
  BY <1>1, Running
<1>3. /\ joining' \in [Threads -> Threads \cup {NULL}]
      /\ \A u \in Threads : joining'[u] = IF u = t THEN NULL ELSE joining[u]
  BY <1>1, LCTypes
<1>4. LCTypeOK'
  BY <1>1, <1>3 DEF LCInv, LCTypeOK, Alive
<1>5. RunQueueHoldsTheLiving' /\ LinksOK' /\ RunnerOK' /\ IdleOK'
  BY <1>1 DEF LCInv, RunQueueHoldsTheLiving, LinksOK, RunnerOK, IdleOK, Alive
<1>6. JoinersOK'
  BY <1>1, <1>2, <1>3 DEF LCInv, JoinersOK
<1>7. RingsOK'
  <2>1. ASSUME NEW u \in Threads PROVE RingOK(u, join_sem[u].wq)'
    <3>1. \A i \in 1..join_sem[u].wq.count :
            joining'[Items(join_sem[u].wq)[i]] = u
      BY <1>2, <1>3, RingFacts
    <3> QED
      BY <1>1, <3>1 DEF LCInv, RingsOK, RingOK
  <2> QED
    BY <2>1 DEF RingsOK
<1> QED
  BY <1>1, <1>4, <1>5, <1>6, <1>7 DEF LCInv

\* The killed thread leaves the queue and its block becomes the head of the list.
LEMMA KillInv ==
  ASSUME LCInv, NEW t \in Threads, Kill(t)
  PROVE  LCInv'
<1>1. /\ CanRun(t) /\ phase[t] = "ending"
      /\ os' = os_task_kill(os, t)
      /\ free_list' = t
      /\ word0' = [word0 EXCEPT ![t] = free_list]
      /\ phase' = [phase EXCEPT ![t] = "free"]
      /\ UNCHANGED <<join_sem, mbox, joining>>
  BY DEF Kill, tfree, slist_prepend, FreeList
<1>2. Alive(t) /\ joining[t] = NULL
  BY <1>1 DEF Alive, LCInv, JoinersOK
<1>3. /\ os.run_ptr = t /\ os.state[t] = "ACTIVE"
      /\ Linked(os.run_queue, t) /\ os.it = t /\ os.task_active_cnt # 0
  BY <1>1, <1>2, Running
<1>4. /\ QueueOK(os) /\ os \in Kernels /\ NestOK(os) /\ Distinct(os.run_queue)
      /\ Linked(os.run_queue, os.it) /\ os.nest = 0 /\ os.gie = TRUE
  BY <1>3, LCFacts DEF QueueOK
<1>5. /\ os' \in Kernels
      /\ os'.run_queue = Unlink(os.run_queue, t)
      /\ os'.it = PrevCircular(os.run_queue, os.it)
      /\ os'.task_active_cnt = os.task_active_cnt - 1
      /\ os'.run_ptr = os.run_ptr
      /\ os'.state = os.state
      /\ os'.fixed_prio = os.fixed_prio
      /\ os'.working_prio = os.working_prio
      /\ os'.nest = os.nest
      /\ os'.gie = os.gie
      /\ os'.wdtifg = TRUE
  BY <1>1, <1>3, <1>4, KillIsPause, PauseEffect, Zenon
<1>6. /\ QueueOK(os')
      /\ \A u \in Threads : Linked(os'.run_queue, u) <=> Linked(os.run_queue, u) /\ u # t
  BY <1>3, <1>4, <1>5, LeaveQueue
<1>7. /\ phase' \in [Threads -> {"free", "running", "ending"}]
      /\ \A u \in Threads : phase'[u] = IF u = t THEN "free" ELSE phase[u]
      /\ word0' \in [Threads -> Threads \cup {SP, NULL}]
      /\ \A u \in Threads : word0'[u] = IF u = t THEN free_list ELSE word0[u]
  BY <1>1, LCTypes
<1>8. LCTypeOK'
  BY <1>1, <1>5, <1>7 DEF LCInv, LCTypeOK, Alive
<1>9. Preemptible(os')
  BY <1>4, <1>5 DEF Preemptible
<1>10. RunQueueHoldsTheLiving'
  <2>1. \A u \in Threads :
          Linked(os'.run_queue, u) <=> phase'[u] # "free" /\ os'.state[u] = "ACTIVE"
    BY <1>5, <1>6, <1>7 DEF LCInv, RunQueueHoldsTheLiving, Alive
  <2> QED
    BY <1>6, <2>1 DEF QueueOK, RunQueueHoldsTheLiving, Distinct, Alive
<1>11. LinksOK'
  <2>1. free_list # t
    BY <1>2 DEF LCInv, LinksOK
  <2>2. \A u \in Threads : word0[u] # t
    BY <1>2 DEF LCInv, LinksOK
  <2>3. /\ \A u \in Threads : phase'[u] # "free" => word0'[u] = SP
        /\ \A u \in Threads :
             word0'[u] \in Threads => phase'[word0'[u]] = "free" /\ word0'[u] # t
    BY <1>7, <2>1, <2>2 DEF LCInv, LinksOK, Alive
  <2>4. \A u, v \in Threads : word0'[u] \in Threads /\ word0'[u] = word0'[v] => u = v
    BY <1>7 DEF LCInv, LinksOK
  <2> QED
    BY <1>1, <1>7, <2>3, <2>4 DEF LinksOK, Alive
<1>12. RunnerOK'
  <2>1. os'.run_ptr = t /\ ~Linked(os'.run_queue, t) /\ os'.state[t] = "ACTIVE"
    BY <1>3, <1>5, <1>6
  <2>2. os'.working_prio[t] \in 1..os'.fixed_prio[t]
    BY <1>3, <1>5 DEF LCInv, RunnerOK
  <2> QED
    BY <2>1, <2>2 DEF RunnerOK
<1>13. IdleOK'
  BY <1>5 DEF LCInv, IdleOK
<1>14. JoinersOK'
  BY <1>1, <1>2, <1>5, <1>7 DEF LCInv, JoinersOK
<1>15. RingsOK'
  BY <1>1, <1>5, <1>7 DEF LCInv, RingsOK, RingOK
<1> QED
  BY <1>8, <1>9, <1>10, <1>11, <1>12, <1>13, <1>14, <1>15 DEF LCInv

\* There is room in the ring, and in one life it never goes round.
LEMMA JoinRoom ==
  ASSUME LCInv, NEW t \in Threads, NEW u \in Threads, t # u,
         \A i \in 1..join_sem[u].wq.count : Items(join_sem[u].wq)[i] # t
  PROVE  join_sem[u].wq.count + 1 < NUM_THREADS
<1> DEFINE q == join_sem[u].wq
           I == Items(q)
           A == Append(I, t)
<1>1. /\ I \in Seq(Threads) /\ Len(I) = q.count /\ Distinct(I)
      /\ \A i \in 1..q.count : I[i] # t /\ I[i] # u
  <2>1. \A i \in 1..q.count : joining[I[i]] = u /\ I[i] \in Threads
    BY RingFacts
  <2>2. joining[u] # u
    BY KernelAssumption DEF LCInv, JoinersOK
  <2> QED
    BY <2>1, <2>2, RingFacts, ItemsSequence
<1> HIDE DEF q, I
<1>2. /\ q.count \in Nat
      /\ A \in Seq(Threads) /\ Len(A) = q.count + 1
      /\ \A i \in 1..(q.count + 1) : A[i] = IF i <= q.count THEN I[i] ELSE t
  BY <1>1
<1> HIDE DEF A
<1>3. Distinct(A) /\ ~Waits(u, A)
  <2> DEFINE n == q.count
  <2>1. /\ n \in Nat
        /\ \A i, j \in 1..n : I[i] = I[j] => i = j
        /\ \A i \in 1..n : I[i] # t /\ I[i] # u
    BY <1>1, <1>2 DEF Distinct
  <2>2. \A i \in 1..(n + 1) : A[i] = IF i <= n THEN I[i] ELSE t
    BY <1>2
  <2> HIDE DEF n
  <2>3. ASSUME NEW i \in 1..(n + 1), NEW j \in 1..(n + 1), A[i] = A[j] PROVE i = j
    <3>1. (i \in 1..n \/ i = n + 1) /\ (j \in 1..n \/ j = n + 1)
      BY <2>1
    <3> QED
      BY <2>1, <2>2, <2>3, <3>1
  <2>4. ASSUME NEW i \in 1..(n + 1) PROVE A[i] # u
    <3>1. i \in 1..n \/ i = n + 1
      BY <2>1
    <3> QED
      BY <2>1, <2>2, <3>1
  <2>5. Len(A) = n + 1
    BY <1>2 DEF n
  <2> QED
    BY <2>3, <2>4, <2>5, Zenon DEF Distinct, Waits
<1>4. Len(A) < NUM_THREADS
  BY <1>2, <1>3, PoolRoom, RoomToWait
<1> QED
  BY <1>2, <1>4 DEF q

\* What a join does: t is the newest item of the ring of u, and blocked.
JoinStep(t, u) ==
  LET q == join_sem[u].wq
      p == join_sem'[u].wq
  IN  /\ CanRun(t) /\ phase[t] = "running" /\ joining[t] = NULL /\ t # u /\ phase[u] # "free"
      /\ os.run_ptr = t /\ os.state[t] = "ACTIVE"
      /\ os' \in Kernels /\ QueueOK(os')
      /\ \A v \in Threads :
           Linked(os'.run_queue, v) <=> Linked(os.run_queue, v) /\ v # t
      /\ os'.run_ptr = t
      /\ \A v \in Tasks : os'.state[v] = IF v = t THEN "BLOCKING" ELSE os.state[v]
      /\ os'.fixed_prio = os.fixed_prio
      /\ os'.working_prio = os.working_prio
      /\ os'.nest = os.nest /\ os'.gie = os.gie /\ os'.wdtifg
      /\ q.count \in Nat /\ q.count + 1 < NUM_THREADS
      /\ Sound(p) /\ p.count = q.count + 1
      /\ p.read = q.read
      /\ p.write = Slot(q.write, 1)
      /\ p.storage = [q.storage EXCEPT ![Slot(q.write, 1)] = t]
      /\ \A i \in 1..q.count : Items(p)[i] = Items(q)[i] /\ Items(q)[i] # t
      /\ Items(p)[q.count + 1] = t
      /\ join_sem' \in [Threads -> [val : Int, wq : Rings]]
      /\ join_sem'[u].val = -p.count
      /\ \A v \in Threads : v # u => join_sem'[v] = join_sem[v]
      /\ joining' \in [Threads -> Threads \cup {NULL}]
      /\ \A v \in Threads : joining'[v] = IF v = t THEN u ELSE joining[v]
      /\ free_list' = free_list /\ word0' = word0
      /\ mbox' = mbox /\ phase' = phase

\* That is what the handler does.
LEMMA JoinFacts ==
  ASSUME LCInv, NEW t \in Threads, NEW u \in Threads, Join(t, u)
  PROVE  JoinStep(t, u)
<1> DEFINE j == join_sem[u]
           q == j.wq
           p == ring_push(q, t)
           y == [val |-> j.val - 1, wq |-> p]
<1>1. /\ CanRun(t) /\ phase[t] = "running" /\ joining[t] = NULL
      /\ t # u /\ phase[u] # "free"
      /\ os' = join_wait(os, j, t).k
      /\ join_sem' = [join_sem EXCEPT ![u] = join_wait(os, j, t).j]
      /\ joining' = [joining EXCEPT ![t] = u]
      /\ free_list' = free_list /\ word0' = word0 /\ mbox' = mbox /\ phase' = phase
  BY DEF Join, InUserCode
<1>2. /\ os.run_ptr = t /\ os.state[t] = "ACTIVE"
      /\ Linked(os.run_queue, t) /\ os.it = t /\ os.task_active_cnt # 0
      /\ \A v \in Threads : \A i \in 1..join_sem[v].wq.count :
           Items(join_sem[v].wq)[i] # t
  BY <1>1, Running DEF Alive
<1>3. /\ QueueOK(os) /\ os \in Kernels /\ NestOK(os) /\ Distinct(os.run_queue)
      /\ Linked(os.run_queue, os.it) /\ os.nest = 0 /\ os.gie = TRUE
      /\ os.state \in [Tasks -> ThreadStates]
  BY <1>2, LCFacts DEF QueueOK
<1>4. /\ Sound(q) /\ Distinct(Items(q)) /\ j.val = -q.count
      /\ q.count \in Nat /\ NUM_THREADS \in Nat
      /\ q.write \in 0..(NUM_THREADS - 1)
      /\ q.storage \in [0..(NUM_THREADS - 1) -> Threads \cup {NULL}]
  BY RingFacts, RingFields DEF Sound
<1>5. q.count + 1 < NUM_THREADS
  BY <1>1, <1>2, JoinRoom
<1>6. q.count < NUM_THREADS
  BY <1>4, <1>5
<1> HIDE DEF j, q
<1>7. join_wait(os, j, t) = [k |-> os_task_block(os, t), j |-> y]
  BY <1>2, <1>3, <1>4, <1>6, JoinWait DEF q
<1>8. /\ Sound(p)
      /\ p.read = q.read
      /\ p.write = Slot(q.write, 1)
      /\ p.count = q.count + 1
      /\ p.storage = [q.storage EXCEPT ![Slot(q.write, 1)] = t]
      /\ \A i \in 1..q.count : Items(p)[i] = Items(q)[i]
      /\ Items(p)[q.count + 1] = t
  BY <1>4, <1>6, RingPush
<1> HIDE DEF p
<1> HIDE DEF y
<1>9. /\ os' \in Kernels
      /\ os'.run_queue = Unlink(os.run_queue, t)
      /\ os'.it = PrevCircular(os.run_queue, os.it)
      /\ os'.task_active_cnt = os.task_active_cnt - 1
      /\ os'.run_ptr = os.run_ptr
      /\ os'.state = [os.state EXCEPT ![t] = "BLOCKING"]
      /\ os'.fixed_prio = os.fixed_prio
      /\ os'.working_prio = os.working_prio
      /\ os'.nest = os.nest
      /\ os'.gie = os.gie
      /\ os'.wdtifg = TRUE
  <2>1. os' = os_task_block(os, t)
    BY <1>1, <1>7
  <2>2. /\ os \in Kernels /\ NestOK(os) /\ Linked(os.run_queue, t)
        /\ Distinct(os.run_queue) /\ Linked(os.run_queue, os.it)
        /\ os.task_active_cnt # 0
    BY <1>2, <1>3
  <2> QED
    BY <2>1, <2>2, BlockEffect, Zenon
<1>10. join_sem' = [join_sem EXCEPT ![u] = y]
  BY <1>1, <1>7
<1>11. /\ QueueOK(os')
       /\ \A v \in Threads : Linked(os'.run_queue, v) <=> Linked(os.run_queue, v) /\ v # t
  BY <1>2, <1>3, <1>9, LeaveQueue
<1>12. \A v \in Tasks : os'.state[v] = IF v = t THEN "BLOCKING" ELSE os.state[v]
  BY <1>3, <1>9
<1>13. /\ joining' \in [Threads -> Threads \cup {NULL}]
       /\ \A v \in Threads : joining'[v] = IF v = t THEN u ELSE joining[v]
  BY <1>1, LCTypes
<1>14. y \in [val : Int, wq : Rings] /\ y.val = -p.count /\ y.wq = p
  BY <1>4, <1>8 DEF Sound, y
<1>15. /\ join_sem' \in [Threads -> [val : Int, wq : Rings]]
       /\ \A v \in Threads : join_sem'[v] = IF v = u THEN y ELSE join_sem[v]
  BY <1>10, <1>14, LCTypes
<1>16. join_sem'[u].wq = p /\ join_sem'[u].val = -p.count
  BY <1>14, <1>15
<1>17. \A i \in 1..q.count : Items(q)[i] # t
  BY <1>2 DEF q, j
<1>18. \A v \in Threads : v # u => join_sem'[v] = join_sem[v]
  BY <1>15
<1> HIDE DEF y
<1>19. os'.run_ptr = t /\ os'.wdtifg
  BY <1>2, <1>9
<1> QED
  BY <1>1, <1>2, <1>4, <1>5, <1>8, <1>9, <1>11, <1>12, <1>13, <1>15, <1>16, <1>17, <1>18,
     <1>19, Zenon DEF JoinStep, q, j

\* A join keeps the invariant.
LEMMA JoinInv ==
  ASSUME LCInv, NEW t \in Threads, NEW u \in Threads, Join(t, u)
  PROVE  LCInv'
<1> DEFINE q == join_sem[u].wq
           p == join_sem'[u].wq
<1>1. JoinStep(t, u)
  BY JoinFacts
<1>2. /\ CanRun(t) /\ phase[t] = "running" /\ joining[t] = NULL
      /\ t # u /\ phase[u] # "free"
      /\ os.run_ptr = t /\ os.state[t] = "ACTIVE"
      /\ free_list' = free_list /\ word0' = word0 /\ mbox' = mbox /\ phase' = phase
  BY <1>1 DEF JoinStep
<1>3. /\ os' \in Kernels /\ QueueOK(os')
      /\ \A v \in Threads : Linked(os'.run_queue, v) <=> Linked(os.run_queue, v) /\ v # t
      /\ os'.run_ptr = t
      /\ \A v \in Tasks : os'.state[v] = IF v = t THEN "BLOCKING" ELSE os.state[v]
      /\ os'.fixed_prio = os.fixed_prio
      /\ os'.working_prio = os.working_prio
      /\ os'.nest = os.nest /\ os'.gie = os.gie /\ os'.wdtifg
  BY <1>1 DEF JoinStep
<1>4. /\ q.count \in Nat /\ q.count + 1 < NUM_THREADS
      /\ Sound(p) /\ p.count = q.count + 1
      /\ p.read = q.read
      /\ p.write = Slot(q.write, 1)
      /\ p.storage = [q.storage EXCEPT ![Slot(q.write, 1)] = t]
      /\ \A i \in 1..q.count : Items(p)[i] = Items(q)[i] /\ Items(q)[i] # t
      /\ Items(p)[q.count + 1] = t
  BY <1>1 DEF JoinStep
<1>5. /\ join_sem' \in [Threads -> [val : Int, wq : Rings]]
      /\ join_sem'[u].val = -p.count
      /\ \A v \in Threads : v # u => join_sem'[v] = join_sem[v]
      /\ joining' \in [Threads -> Threads \cup {NULL}]
      /\ \A v \in Threads : joining'[v] = IF v = t THEN u ELSE joining[v]
  BY <1>1 DEF JoinStep
<1>6. /\ \A v \in Threads : \A i \in 1..join_sem[v].wq.count :
           Items(join_sem[v].wq)[i] # t
      /\ os.nest = 0 /\ os.gie = TRUE
  BY <1>2, Running, LCFacts
<1>7. /\ Distinct(Items(q)) /\ Len(Items(q)) = q.count
      /\ NUM_THREADS \in Nat
      /\ q.write \in 0..(NUM_THREADS - 1)
      /\ q.storage \in [0..(NUM_THREADS - 1) -> Threads \cup {NULL}]
      /\ \A i \in 1..q.count : Items(q)[i] \in Threads /\ joining[Items(q)[i]] = u
                              /\ os.state[Items(q)[i]] = "BLOCKING"
  BY RingFacts, RingFields, ItemsSequence DEF Sound
<1> HIDE DEF q, p
<1>8. LCTypeOK'
  <2>1. ASSUME NEW v \in Threads
        PROVE  /\ join_sem'[v].val = -join_sem'[v].wq.count
               /\ \A i \in 1..join_sem'[v].wq.count : Items(join_sem'[v].wq)[i] \in Threads
    <3>1. CASE v = u
      BY <1>4, <1>5, <3>1 DEF Sound, p
    <3>2. CASE v # u
      BY <1>5, <3>2 DEF LCInv, LCTypeOK
    <3> QED
      BY <3>1, <3>2
  <2>2. \A v \in Threads : (Alive(v))' => os'.working_prio[v] \in 1..os'.fixed_prio[v]
    BY <1>2, <1>3 DEF LCInv, LCTypeOK, Alive
  <2>3. /\ free_list' \in Threads \cup {SP, NULL}
        /\ word0' \in [Threads -> Threads \cup {SP, NULL}]
        /\ mbox' \in [Threads -> Threads \cup {NULL}]
        /\ phase' \in [Threads -> {"free", "running", "ending"}]
    BY <1>2, LCTypes
  <2> QED
    BY <1>3, <1>5, <2>1, <2>2, <2>3 DEF LCTypeOK
<1>9. Preemptible(os')
  BY <1>3, <1>6 DEF Preemptible
<1>10. RunQueueHoldsTheLiving'
  <2>1. \A v \in Threads : Linked(os'.run_queue, v) <=> (Alive(v))' /\ os'.state[v] = "ACTIVE"
    BY <1>2, <1>3 DEF LCInv, RunQueueHoldsTheLiving, Alive, Tasks
  <2> QED
    BY <1>3, <2>1 DEF QueueOK, RunQueueHoldsTheLiving, Distinct
<1>11. LinksOK'
  BY <1>2 DEF LCInv, LinksOK, Alive
<1>12. RunnerOK'
  <2>1. ~Linked(os'.run_queue, t)
    BY <1>3
  <2>2. os'.working_prio[t] \in 1..os'.fixed_prio[t]
    BY <1>2, <1>3 DEF LCInv, RunnerOK
  <2> QED
    BY <1>3, <2>1, <2>2 DEF RunnerOK
<1>13. IdleOK'
  BY <1>3, KernelAssumption DEF LCInv, IdleOK, Tasks
<1>14. JoinersOK'
  <2>1. u # NULL
    BY KernelAssumption
  <2> QED
    BY <1>2, <1>3, <1>5, <2>1 DEF LCInv, JoinersOK, Tasks
<1>15. RingsOK'
  <2>1. ASSUME NEW v \in Threads, v # u PROVE RingOK(v, join_sem[v].wq)'
    <3>1. \A i \in 1..join_sem[v].wq.count :
            /\ joining'[Items(join_sem[v].wq)[i]] = v
            /\ os'.state[Items(join_sem[v].wq)[i]] = "BLOCKING"
      BY <1>3, <1>5, <1>6, RingFacts DEF Tasks
    <3>2. join_sem'[v].wq = join_sem[v].wq
      BY <1>5, <2>1
    <3> QED
      BY <1>2, <3>1, <3>2 DEF LCInv, RingsOK, RingOK
  <2>2. p.write = (p.read + p.count) % NUM_THREADS
    BY <1>4 DEF Sound
  <2>3. ASSUME NEW i \in 1..p.count, NEW k \in 1..p.count, Items(p)[i] = Items(p)[k]
        PROVE  i = k
    <3>1. (i \in 1..q.count \/ i = q.count + 1) /\ (k \in 1..q.count \/ k = q.count + 1)
      BY <1>4
    <3>2. \A m, n \in 1..q.count : Items(q)[m] = Items(q)[n] => m = n
      BY <1>7 DEF Distinct
    <3> QED
      BY <1>4, <2>3, <3>1, <3>2
  <2>4. ASSUME NEW i \in 1..p.count
        PROVE  joining'[Items(p)[i]] = u /\ os'.state[Items(p)[i]] = "BLOCKING"
    <3>1. i \in 1..q.count \/ i = q.count + 1
      BY <1>4
    <3>2. CASE i \in 1..q.count
      <4>1. /\ Items(p)[i] = Items(q)[i] /\ Items(q)[i] # t
            /\ Items(q)[i] \in Threads /\ joining[Items(q)[i]] = u
            /\ os.state[Items(q)[i]] = "BLOCKING"
        BY <1>4, <1>7, <3>2
      <4> QED
        BY <1>3, <1>5, <4>1 DEF Tasks
    <3>3. CASE i = q.count + 1
      BY <1>3, <1>4, <1>5, <3>3 DEF Tasks
    <3> QED
      BY <3>1, <3>2, <3>3
  <2>5. ASSUME phase'[u] = "running"
        PROVE  /\ p.read = 0 /\ p.write = p.count
               /\ \A i \in (p.write + 1)..(NUM_THREADS - 1) : p.storage[i] = NULL
    <3>1. /\ q.read = 0 /\ q.write = q.count
          /\ \A i \in (q.write + 1)..(NUM_THREADS - 1) : q.storage[i] = NULL
      BY <1>2, <2>5 DEF LCInv, RingsOK, RingOK, q
    <3>2. Slot(q.write, 1) = q.write + 1
      BY <1>4, <1>7, <3>1 DEF Slot
    <3>3. p.read = 0 /\ p.write = q.write + 1 /\ p.write = p.count
      BY <1>4, <3>1, <3>2
    <3>4. ASSUME NEW i \in (p.write + 1)..(NUM_THREADS - 1) PROVE p.storage[i] = NULL
      <4>1. /\ i \in (q.write + 1)..(NUM_THREADS - 1) /\ i # q.write + 1
            /\ i \in 0..(NUM_THREADS - 1)
        BY <1>7, <3>3
      <4>2. p.storage[i] = q.storage[i]
        BY <1>4, <1>7, <3>2, <4>1
      <4> QED
        BY <3>1, <4>1, <4>2
    <3> QED
      BY <3>3, <3>4
  <2>6. RingOK(u, join_sem[u].wq)'
    BY <2>2, <2>3, <2>4, <2>5 DEF RingOK, p
  <2> QED
    BY <2>1, <2>6 DEF RingsOK
<1> QED
  BY <1>8, <1>9, <1>10, <1>11, <1>12, <1>13, <1>14, <1>15 DEF LCInv

\* What the exit of t does: it wakes the members of its ring.
LEMMA ExitFacts ==
  ASSUME LCInv, NEW t \in Threads, Exit(t)
  PROVE  /\ CanRun(t) /\ phase[t] = "running" /\ joining[t] = NULL
         /\ Linked(os.run_queue, t) /\ os.it = t /\ os.run_ptr = t /\ os.run_queue # <<>>
         /\ os.state[t] = "ACTIVE"
         /\ Woke(os, os', FirstOf(Items(join_sem[t].wq), join_sem[t].wq.count))
         /\ join_sem' \in [Threads -> [val : Int, wq : Rings]]
         /\ \A u \in Threads : u # t => join_sem'[u] = join_sem[u]
         /\ Sound(join_sem'[t].wq)
         /\ join_sem'[t].wq.count = 0 /\ join_sem'[t].val = 0
         /\ mbox' = mbox
         /\ phase' = [phase EXCEPT ![t] = "ending"]
         /\ UNCHANGED <<free_list, word0, joining>>
<1> DEFINE j == join_sem[t]
           r == os_task_exit(os, j, mbox, t)
<1>1. /\ CanRun(t) /\ phase[t] = "running" /\ joining[t] = NULL
      /\ os' = r.k /\ join_sem' = [join_sem EXCEPT ![t] = r.j] /\ mbox' = r.mbox
      /\ phase' = [phase EXCEPT ![t] = "ending"]
      /\ UNCHANGED <<free_list, word0, joining>>
  BY DEF Exit, InUserCode
<1>2. /\ os.run_ptr = t /\ os.state[t] = "ACTIVE"
      /\ Linked(os.run_queue, t) /\ os.it = t /\ os.run_queue # <<>>
  BY <1>1, Running DEF Alive
<1>3. Joined(os, j)
  <2>1. /\ Sound(j.wq) /\ j \in [val : Int, wq : Rings] /\ j.val = -j.wq.count
        /\ Distinct(Items(j.wq))
    BY RingFacts, LCTypes
  <2>2. \A i \in 1..j.wq.count : ~Linked(os.run_queue, Items(j.wq)[i])
    BY RingFacts DEF LCInv, RunQueueHoldsTheLiving
  <2>3. \A i \in (j.wq.write + 1)..(NUM_THREADS - 1) : j.wq.storage[i] = NULL
    BY <1>1 DEF LCInv, RingsOK, RingOK
  <2> QED
    BY <2>1, <2>2, <2>3 DEF Joined
<1>4. QueueOK(os) /\ NestOK(os) /\ mbox \in [Threads -> Threads \cup {NULL}]
  BY LCFacts, LCTypes
<1>5. /\ Woke(os, r.k, FirstOf(Items(j.wq), j.wq.count))
      /\ r.j \in [val : Int, wq : Rings]
      /\ Sound(r.j.wq) /\ r.j.wq.count = 0 /\ r.j.val = 0 /\ r.mbox = mbox
  <2> HIDE DEF j
  <2> QED
    BY <1>3, <1>4, ExitEffect
<1> HIDE DEF r
<1>6. /\ join_sem' \in [Threads -> [val : Int, wq : Rings]]
      /\ join_sem'[t] = r.j
      /\ \A u \in Threads : u # t => join_sem'[u] = join_sem[u]
  BY <1>1, <1>5, LCTypes
<1> QED
  BY <1>1, <1>2, <1>5, <1>6

\* Whom an exit wakes.
LEMMA ExitWakes ==
  ASSUME LCInv, NEW t \in Threads, Exit(t), NEW u \in Threads
  PROVE  LET W == FirstOf(Items(join_sem[t].wq), join_sem[t].wq.count)
         IN  u \in W => joining[u] = t /\ os.state[u] = "BLOCKING" /\ u # t
<1>1. joining[t] = NULL
  BY ExitFacts
<1>2. t # NULL
  BY KernelAssumption
<1> QED
  BY <1>1, <1>2, RingFacts DEF FirstOf

\* An exit keeps the invariant.
LEMMA ExitInv ==
  ASSUME LCInv, NEW t \in Threads, Exit(t)
  PROVE  LCInv'
<1> DEFINE W == FirstOf(Items(join_sem[t].wq), join_sem[t].wq.count)
<1>1. /\ CanRun(t) /\ phase[t] = "running" /\ joining[t] = NULL
      /\ Linked(os.run_queue, t) /\ os.it = t /\ os.run_ptr = t /\ os.run_queue # <<>>
      /\ os.state[t] = "ACTIVE"
      /\ Woke(os, os', W)
      /\ mbox' = mbox
      /\ phase' = [phase EXCEPT ![t] = "ending"]
      /\ UNCHANGED <<free_list, word0, joining>>
  BY ExitFacts
<1>2. \A u \in Threads : u \in W => joining[u] = t /\ os.state[u] = "BLOCKING" /\ u # t
  BY ExitWakes
<1>3. /\ join_sem' \in [Threads -> [val : Int, wq : Rings]]
      /\ \A u \in Threads : u # t => join_sem'[u] = join_sem[u]
      /\ Sound(join_sem'[t].wq)
      /\ join_sem'[t].wq.count = 0 /\ join_sem'[t].val = 0
  BY ExitFacts
<1>4. W \subseteq Threads
  BY RingFacts DEF FirstOf
<1> HIDE DEF W
<1>5. /\ QueueOK(os') /\ os' \in Kernels
      /\ \A u \in Threads : Linked(os'.run_queue, u) <=> Linked(os.run_queue, u) \/ u \in W
      /\ os'.it = os.it /\ os'.run_ptr = os.run_ptr
      /\ \A u \in Tasks : os'.state[u] = IF u \in W THEN "ACTIVE" ELSE os.state[u]
      /\ os'.fixed_prio = os.fixed_prio /\ os'.working_prio = os.working_prio
      /\ os'.nest = os.nest /\ os'.gie = os.gie /\ os'.wdtifg = os.wdtifg
  BY <1>1 DEF Woke, QueueOK
<1>6. /\ phase' \in [Threads -> {"free", "running", "ending"}]
      /\ \A u \in Threads : phase'[u] = IF u = t THEN "ending" ELSE phase[u]
      /\ \A u \in Threads : (Alive(u))' <=> Alive(u)
  BY <1>1, LCTypes DEF Alive
<1>7. LCTypeOK'
  <2>1. ASSUME NEW u \in Threads
        PROVE  /\ join_sem'[u].val = -join_sem'[u].wq.count
               /\ \A i \in 1..join_sem'[u].wq.count : Items(join_sem'[u].wq)[i] \in Threads
    <3>1. CASE u = t
      BY <1>3, <3>1
    <3>2. CASE u # t
      BY <1>3, <3>2 DEF LCInv, LCTypeOK
    <3> QED
      BY <3>1, <3>2
  <2>2. \A u \in Threads : (Alive(u))' => os'.working_prio[u] \in 1..os'.fixed_prio[u]
    BY <1>5, <1>6 DEF LCInv, LCTypeOK
  <2>3. /\ free_list' \in Threads \cup {SP, NULL}
        /\ word0' \in [Threads -> Threads \cup {SP, NULL}]
        /\ mbox' \in [Threads -> Threads \cup {NULL}]
        /\ joining' \in [Threads -> Threads \cup {NULL}]
    BY <1>1, LCTypes
  <2> QED
    BY <1>3, <1>5, <1>6, <2>1, <2>2, <2>3 DEF LCTypeOK
<1>8. Preemptible(os')
  BY <1>5, LCFacts DEF Preemptible
<1>9. RunQueueHoldsTheLiving'
  <2>1. ASSUME NEW u \in Threads
        PROVE  Linked(os'.run_queue, u) <=> (Alive(u))' /\ os'.state[u] = "ACTIVE"
    <3>1. Linked(os.run_queue, u) <=> Alive(u) /\ os.state[u] = "ACTIVE"
      BY DEF LCInv, RunQueueHoldsTheLiving
    <3>2. u \in W => Alive(u)
      BY <1>2, KernelAssumption DEF LCInv, JoinersOK, Alive
    <3> QED
      BY <1>5, <1>6, <3>1, <3>2 DEF Tasks
  <2> QED
    BY <1>5, <2>1 DEF QueueOK, RunQueueHoldsTheLiving, Distinct
<1>10. LinksOK'
  BY <1>1, <1>6, LCTypes DEF LCInv, LinksOK
<1>11. RunnerOK'
  BY <1>1, <1>5 DEF LCInv, RunnerOK
<1>12. IdleOK'
  BY <1>4, <1>5, KernelAssumption DEF LCInv, IdleOK, Tasks
<1>13. JoinersOK'
  BY <1>1, <1>5, <1>6 DEF LCInv, JoinersOK, Tasks
<1>14. RingsOK'
  <2>1. ASSUME NEW u \in Threads, u # t PROVE RingOK(u, join_sem[u].wq)'
    <3>1. \A i \in 1..join_sem[u].wq.count :
            /\ joining'[Items(join_sem[u].wq)[i]] = u
            /\ os'.state[Items(join_sem[u].wq)[i]] = "BLOCKING"
      BY <1>1, <1>2, <1>5, <2>1, RingFacts DEF Tasks
    <3>2. join_sem'[u].wq = join_sem[u].wq /\ phase'[u] = phase[u]
      BY <1>3, <1>6, <2>1
    <3> QED
      BY <3>1, <3>2 DEF LCInv, RingsOK, RingOK
  <2>2. RingOK(t, join_sem[t].wq)'
    <3>1. \A i \in 1..join_sem'[t].wq.count : FALSE
      BY <1>3
    <3>2. phase'[t] # "running"
      BY <1>6
    <3> QED
      BY <1>3, <3>1, <3>2 DEF RingOK, Sound
  <2> QED
    BY <2>1, <2>2 DEF RingsOK
<1> QED
  BY <1>7, <1>8, <1>9, <1>10, <1>11, <1>12, <1>13, <1>14 DEF LCInv

\* What a creation does: the block b at the head of the free list starts a new life.
CreateStep(t, b, priority) ==
  /\ b \in Threads /\ ~Alive(b) /\ b # t /\ joining[b] = NULL
  /\ phase[t] = "running" /\ joining[t] = NULL
  /\ os.run_ptr = t /\ priority \in Nat /\ priority > 0
  /\ QueueOK(os') /\ os' \in Kernels
  /\ \A u \in Threads : Linked(os'.run_queue, u) <=> Linked(os.run_queue, u) \/ u = b
  /\ os'.it = os.it /\ os'.run_ptr = os.run_ptr
  /\ \A u \in Tasks :
       /\ os'.state[u] = IF u = b THEN "ACTIVE" ELSE os.state[u]
       /\ os'.fixed_prio[u] = IF u = b THEN priority ELSE os.fixed_prio[u]
       /\ os'.working_prio[u] = IF u = b THEN priority ELSE os.working_prio[u]
  /\ os'.nest = os.nest /\ os'.gie = os.gie /\ os'.wdtifg = os.wdtifg
  /\ phase' \in [Threads -> {"free", "running", "ending"}]
  /\ \A u \in Threads : phase'[u] = IF u = b THEN "running" ELSE phase[u]
  /\ word0' \in [Threads -> Threads \cup {SP, NULL}]
  /\ \A u \in Threads : word0'[u] = IF u = b THEN SP ELSE word0[u]
  /\ free_list' \in Threads \cup {SP, NULL} /\ free_list' = word0[b]
  /\ join_sem' \in [Threads -> [val : Int, wq : Rings]]
  /\ join_sem'[b] = [val |-> 0, wq |-> AllZero(NULL)]
  /\ \A u \in Threads : u # b => join_sem'[u] = join_sem[u]
  /\ mbox' = mbox /\ joining' = joining

\* That is what the handler does.
LEMMA CreateFacts ==
  ASSUME LCInv, NEW t \in Threads, NEW priority \in 1..MaxPrio, Create(t, priority)
  PROVE  CreateStep(t, free_list, priority)
<1> DEFINE b == free_list
<1>1. /\ CanRun(t) /\ phase[t] = "running" /\ joining[t] = NULL
      /\ b \in Threads
      /\ os' = thrd_create(os, b, priority)
      /\ free_list' = word0[b]
      /\ word0' = [word0 EXCEPT ![b] = SP]
      /\ join_sem' = [join_sem EXCEPT ![b] = sem_init(@)]
      /\ phase' = [phase EXCEPT ![b] = "running"]
      /\ mbox' = mbox /\ joining' = joining
  BY DEF Create, InUserCode, talloc, slist_remove_head, FreeList
<1>2. /\ os.run_ptr = t /\ os.state[t] = "ACTIVE"
      /\ Linked(os.run_queue, t) /\ os.it = t /\ os.run_queue # <<>>
  BY <1>1, Running DEF Alive
<1>3. ~Alive(b) /\ b # t /\ ~Linked(os.run_queue, b) /\ joining[b] = NULL
  <2>1. ~Alive(b)
    BY <1>1 DEF LCInv, LinksOK
  <2> QED
    BY <1>1, <2>1 DEF LCInv, RunQueueHoldsTheLiving, JoinersOK, Alive
<1>4. QueueOK(os) /\ NestOK(os) /\ os \in Kernels /\ priority \in Nat /\ priority > 0
  BY LCFacts, KernelAssumption
<1> HIDE DEF b
<1>5. /\ QueueOK(os')
      /\ \A u \in Threads : Linked(os'.run_queue, u) <=> Linked(os.run_queue, u) \/ u = b
      /\ os'.it = os.it
      /\ os'.run_ptr = os.run_ptr
      /\ os'.state = [os.state EXCEPT ![b] = "ACTIVE"]
      /\ os'.fixed_prio = [os.fixed_prio EXCEPT ![b] = priority]
      /\ os'.working_prio = [os.working_prio EXCEPT ![b] = priority]
      /\ os'.nest = os.nest
      /\ os'.gie = os.gie
      /\ os'.wdtifg = os.wdtifg
  BY <1>1, <1>2, <1>3, <1>4, CreateEffect, SMTT(20)
<1>6. /\ os' \in Kernels
      /\ \A u \in Tasks :
           /\ os'.state[u] = IF u = b THEN "ACTIVE" ELSE os.state[u]
           /\ os'.fixed_prio[u] = IF u = b THEN priority ELSE os.fixed_prio[u]
           /\ os'.working_prio[u] = IF u = b THEN priority ELSE os.working_prio[u]
  BY <1>5, LCFacts DEF QueueOK
<1>7. /\ phase' \in [Threads -> {"free", "running", "ending"}]
      /\ \A u \in Threads : phase'[u] = IF u = b THEN "running" ELSE phase[u]
      /\ word0' \in [Threads -> Threads \cup {SP, NULL}]
      /\ \A u \in Threads : word0'[u] = IF u = b THEN SP ELSE word0[u]
      /\ free_list' \in Threads \cup {SP, NULL}
  BY <1>1, LCTypes
<1>8. AllZero(NULL) \in Rings
  BY <1>1, PoolRoom DEF AllZero, Rings
<1>9. sem_init(join_sem[b]) = [val |-> 0, wq |-> AllZero(NULL)]
  BY DEF sem_init, queue_wait_init
<1>10. /\ join_sem' \in [Threads -> [val : Int, wq : Rings]]
       /\ join_sem'[b] = [val |-> 0, wq |-> AllZero(NULL)]
       /\ \A u \in Threads : u # b => join_sem'[u] = join_sem[u]
  BY <1>1, <1>8, <1>9, LCTypes
<1> QED
  BY <1>1, <1>2, <1>3, <1>4, <1>5, <1>6, <1>7, <1>10 DEF CreateStep, b

\* A creation keeps the invariant: the links lose the block they led to.
LEMMA CreateInv ==
  ASSUME LCInv, NEW t \in Threads, NEW priority \in 1..MaxPrio, Create(t, priority)
  PROVE  LCInv'
<1> DEFINE b == free_list
           z == AllZero(NULL)
<1>1. CreateStep(t, b, priority)
  BY CreateFacts
<1> HIDE DEF b, z
<1>2. /\ b \in Threads /\ ~Alive(b) /\ b # t /\ joining[b] = NULL
      /\ phase[t] = "running" /\ joining[t] = NULL
      /\ os.run_ptr = t /\ priority \in Nat /\ priority > 0
      /\ mbox' = mbox /\ joining' = joining
  BY <1>1 DEF CreateStep
<1>3. /\ QueueOK(os') /\ os' \in Kernels
      /\ \A u \in Threads : Linked(os'.run_queue, u) <=> Linked(os.run_queue, u) \/ u = b
      /\ os'.it = os.it /\ os'.run_ptr = os.run_ptr
      /\ os'.nest = os.nest /\ os'.gie = os.gie /\ os'.wdtifg = os.wdtifg
  BY <1>1 DEF CreateStep
<1>4. \A u \in Tasks :
        /\ os'.state[u] = IF u = b THEN "ACTIVE" ELSE os.state[u]
        /\ os'.fixed_prio[u] = IF u = b THEN priority ELSE os.fixed_prio[u]
        /\ os'.working_prio[u] = IF u = b THEN priority ELSE os.working_prio[u]
  BY <1>1 DEF CreateStep
<1>5. /\ phase' \in [Threads -> {"free", "running", "ending"}]
      /\ \A u \in Threads : phase'[u] = IF u = b THEN "running" ELSE phase[u]
      /\ word0' \in [Threads -> Threads \cup {SP, NULL}]
      /\ \A u \in Threads : word0'[u] = IF u = b THEN SP ELSE word0[u]
      /\ free_list' \in Threads \cup {SP, NULL} /\ free_list' = word0[b]
  BY <1>1 DEF CreateStep
<1>6. /\ join_sem' \in [Threads -> [val : Int, wq : Rings]]
      /\ join_sem'[b].wq = z /\ join_sem'[b].val = 0
      /\ \A u \in Threads : u # b => join_sem'[u] = join_sem[u]
  BY <1>1 DEF CreateStep, z
<1>7. /\ z \in Rings
      /\ z.count = 0 /\ z.read = 0 /\ z.write = 0
      /\ \A i \in 0..(NUM_THREADS - 1) : z.storage[i] = NULL
  BY PoolRoom DEF AllZero, Rings, z
<1>8. LCTypeOK'
  <2>1. ASSUME NEW u \in Threads
        PROVE  /\ join_sem'[u].val = -join_sem'[u].wq.count
               /\ \A i \in 1..join_sem'[u].wq.count : Items(join_sem'[u].wq)[i] \in Threads
    <3>1. CASE u = b
      BY <1>6, <1>7, <3>1
    <3>2. CASE u # b
      BY <1>6, <3>2 DEF LCInv, LCTypeOK
    <3> QED
      BY <3>1, <3>2
  <2>2. ASSUME NEW u \in Threads, (Alive(u))'
        PROVE  os'.working_prio[u] \in 1..os'.fixed_prio[u]
    <3>1. CASE u = b
      BY <1>2, <1>4, <3>1 DEF Tasks
    <3>2. CASE u # b
      BY <1>4, <1>5, <2>2, <3>2 DEF LCInv, LCTypeOK, Alive, Tasks
    <3> QED
      BY <3>1, <3>2
  <2>3. /\ mbox' \in [Threads -> Threads \cup {NULL}]
        /\ joining' \in [Threads -> Threads \cup {NULL}]
    BY <1>2, LCTypes
  <2> QED
    BY <1>3, <1>5, <1>6, <2>1, <2>2, <2>3 DEF LCTypeOK
<1>9. Preemptible(os')
  BY <1>3, LCFacts DEF Preemptible
<1>10. RunQueueHoldsTheLiving'
  <2>1. ASSUME NEW u \in Threads
        PROVE  Linked(os'.run_queue, u) <=> (Alive(u))' /\ os'.state[u] = "ACTIVE"
    BY <1>3, <1>4, <1>5 DEF LCInv, RunQueueHoldsTheLiving, Alive, Tasks
  <2> QED
    BY <1>3, <2>1 DEF QueueOK, RunQueueHoldsTheLiving, Distinct
<1>11. LinksOK'
  <2>1. /\ \A u \in Threads : word0[u] # b
        /\ \A u \in Threads : word0[u] \in Threads => ~Alive(word0[u])
        /\ \A u, v \in Threads : word0[u] \in Threads /\ word0[u] = word0[v] => u = v
        /\ \A u \in Threads : Alive(u) => word0[u] = SP
    BY <1>2 DEF LCInv, LinksOK, b
  <2>2. \A u \in Threads : (Alive(u))' <=> Alive(u) \/ u = b
    BY <1>5 DEF Alive
  <2>3. SP \notin Threads
    BY LCTypes
  <2>4. free_list' \in Threads => ~(Alive(free_list))'
    BY <1>2, <1>5, <2>1, <2>2
  <2>5. \A u \in Threads : (Alive(u))' => word0'[u] = SP
    BY <1>2, <1>5, <2>1, <2>2
  <2>6. ASSUME NEW u \in Threads, word0'[u] \in Threads
        PROVE  ~(Alive(word0[u]))' /\ word0'[u] # free_list'
    <3>1. u # b /\ word0'[u] = word0[u] /\ word0[u] \in Threads
      BY <1>5, <2>3, <2>6
    <3>2. ~(Alive(word0[u]))'
      BY <2>1, <2>2, <3>1
    <3> QED
      BY <1>2, <1>5, <2>1, <3>1, <3>2
  <2>7. \A u, v \in Threads : word0'[u] \in Threads /\ word0'[u] = word0'[v] => u = v
    BY <1>5, <2>1, <2>3
  <2> QED
    BY <2>4, <2>5, <2>6, <2>7 DEF LinksOK
<1>12. RunnerOK'
  <2>1. os'.working_prio[t] \in 1..os'.fixed_prio[t]
    BY <1>2, <1>4 DEF LCInv, RunnerOK, Tasks
  <2> QED
    BY <1>2, <1>3, <1>4, <2>1 DEF LCInv, RunnerOK, Tasks
<1>13. IdleOK'
  BY <1>2, <1>4, KernelAssumption DEF LCInv, IdleOK, Tasks
<1>14. JoinersOK'
  BY <1>2, <1>4, <1>5 DEF LCInv, JoinersOK, Tasks
<1>15. RingsOK'
  <2>1. ASSUME NEW u \in Threads, u # b PROVE RingOK(u, join_sem[u].wq)'
    <3>1. \A i \in 1..join_sem[u].wq.count :
            /\ joining'[Items(join_sem[u].wq)[i]] = u
            /\ os'.state[Items(join_sem[u].wq)[i]] = "BLOCKING"
      <4>1. u # NULL
        BY KernelAssumption
      <4> QED
        BY <1>2, <1>4, <4>1, RingFacts DEF Tasks
    <3>2. join_sem'[u].wq = join_sem[u].wq /\ phase'[u] = phase[u]
      BY <1>5, <1>6, <2>1
    <3> QED
      BY <3>1, <3>2 DEF LCInv, RingsOK, RingOK
  <2>2. ASSUME NEW u \in Threads, u = b PROVE RingOK(u, join_sem[u].wq)'
    <3>1. \A i \in 1..z.count : FALSE
      BY <1>7
    <3>2. z.write = (z.read + z.count) % NUM_THREADS
      BY <1>7, PoolRoom
    <3>3. \A i \in (z.write + 1)..(NUM_THREADS - 1) : z.storage[i] = NULL
      BY <1>7
    <3>4. join_sem'[u].wq = z
      BY <1>6, <2>2
    <3> QED
      BY <1>7, <3>1, <3>2, <3>3, <3>4 DEF RingOK
  <2> QED
    BY <2>1, <2>2 DEF RingsOK
<1> QED
  BY <1>8, <1>9, <1>10, <1>11, <1>12, <1>13, <1>14, <1>15 DEF LCInv

\* Each block has one place in the pool.
LEMMA PlaceOf ==
  /\ Len(Pool) \in Nat /\ Pool \in Seq(Threads)
  /\ \A t \in Threads : Place(t) \in 1..Len(Pool) /\ Pool[Place(t)] = t
  /\ \A i \in 1..Len(Pool) : Pool[i] \in Threads /\ Place(Pool[i]) = i
<1>1. Len(Pool) \in Nat /\ Pool \in Seq(Threads)
  BY LifecycleAssumption
<1>2. ASSUME NEW t \in Threads PROVE Place(t) \in 1..Len(Pool) /\ Pool[Place(t)] = t
  <2>1. \E i \in 1..Len(Pool) : Pool[i] = t
    BY LifecycleAssumption
  <2> QED
    BY <2>1 DEF Place
<1>3. ASSUME NEW i \in 1..Len(Pool) PROVE Pool[i] \in Threads /\ Place(Pool[i]) = i
  <2>1. Pool[i] \in Threads
    BY <1>1
  <2>2. Place(Pool[i]) \in 1..Len(Pool) /\ Pool[Place(Pool[i])] = Pool[i]
    BY <1>2, <2>1
  <2> QED
    BY <2>1, <2>2, LifecycleAssumption
<1> QED
  BY <1>1, <1>2, <1>3

\* main leaves the invariant, whatever number of threads it creates.
LEMMA LCInitInv ==
  ASSUME LCInit
  PROVE  LCInv
<1> DEFINE Taken(n, t) == Place(t) <= n
           prio(n, p) == [t \in Threads |-> IF Taken(n, t) THEN p[t] ELSE 0]
           q(n) == SubSeq(Pool, 1, n)
<1>1. PICK n \in 1..Len(Pool), p \in [Threads -> 1..MaxPrio] :
        /\ os = os_first_task(created(q(n), prio(n, p)))
        /\ free_list = Rest(n + 1)
        /\ word0 = [t \in Threads |-> IF Taken(n, t) THEN SP ELSE Rest(Place(t) + 1)]
        /\ join_sem = [t \in Threads |-> [val |-> 0, wq |-> AllZero(NULL)]]
        /\ mbox = [t \in Threads |-> NULL]
        /\ phase = [t \in Threads |-> IF Taken(n, t) THEN "running" ELSE "free"]
        /\ joining = [t \in Threads |-> NULL]
  BY DEF LCInit
<1> DEFINE s == q(n)
           r == prio(n, p)
           z == AllZero(NULL)
<1> DEFINE L == Len(Pool)
<1>2. /\ L \in Nat /\ n \in 1..L
      /\ \A t \in Threads : Place(t) \in 1..L /\ Pool[Place(t)] = t
      /\ \A i \in 1..L : Pool[i] \in Threads /\ Place(Pool[i]) = i
      /\ \A i \in 1..(L + 1) : Rest(i) = IF i > L THEN NULL ELSE Pool[i]
  BY PlaceOf DEF Rest
<1>3. /\ s \in Seq(Threads) /\ Len(s) = n /\ n \in Nat /\ n > 0
      /\ \A i \in 1..n : s[i] = Pool[i]
  BY PlaceOf
<1> HIDE DEF L
<1>4. \A t \in Threads : /\ Place(t) \in Nat
                         /\ Taken(n, t) <=> \E i \in 1..n : s[i] = t
  <2>1. ASSUME NEW t \in Threads, NEW i \in 1..n, s[i] = t PROVE Taken(n, t)
    <3>1. i \in 1..L /\ Pool[i] = t
      BY <1>2, <1>3, <2>1
    <3>2. Place(t) = i
      BY <1>2, <3>1
    <3> QED
      BY <3>2
  <2>2. ASSUME NEW t \in Threads, Taken(n, t) PROVE \E i \in 1..n : s[i] = t
    <3>1. Place(t) \in 1..L /\ Pool[Place(t)] = t
      BY <1>2
    <3>2. Place(t) \in 1..n
      BY <1>2, <1>3, <2>2, <3>1
    <3> QED
      BY <1>3, <3>1, <3>2
  <2>3. \A t \in Threads : Place(t) \in Nat
    BY <1>2
  <2> QED
    BY <2>1, <2>2, <2>3
<1>5. Distinct(s)
  <2>1. ASSUME NEW i \in 1..n, NEW j \in 1..n, s[i] = s[j] PROVE i = j
    <3>1. i \in 1..L /\ j \in 1..L /\ Pool[i] = Pool[j]
      BY <1>2, <1>3, <2>1
    <3> QED
      BY <1>2, <3>1
  <2> QED
    BY <1>3, <2>1 DEF Distinct
<1>6. /\ r \in [Threads -> Nat]
      /\ \A t \in Threads : Taken(n, t) => r[t] \in 1..MaxPrio
  BY KernelAssumption
<1> HIDE DEF s, r
<1>7. \A t \in Threads : Linked(s, t) <=> Taken(n, t)
  BY <1>3, <1>4, LinkedElements
<1>8. Booted(os, s, r)
  <2>1. os = os_first_task(created(s, r))
    BY <1>1 DEF s, r
  <2> QED
    BY <1>3, <1>6, <2>1, BootEffect
<1>9. /\ os \in Kernels
      /\ os.run_queue = s /\ os.task_active_cnt = Len(s)
      /\ \A t \in Tasks : os.state[t] = "ACTIVE"
      /\ \A t \in Tasks : /\ os.fixed_prio[t] = IF t = Idle THEN 1 ELSE r[t]
                          /\ os.working_prio[t] = os.fixed_prio[t]
      /\ os.nest = 0 /\ os.gie = TRUE
      /\ os.run_ptr \in Threads /\ os.it = os.run_ptr /\ Linked(s, os.it)
  <2>1. s # <<>>
    BY <1>3, EmptySeq
  <2> QED
    BY <1>8, <2>1 DEF Booted
<1>10. \A t \in Threads :
        /\ phase[t] = IF Taken(n, t) THEN "running" ELSE "free"
        /\ word0[t] = IF Taken(n, t) THEN SP ELSE Rest(Place(t) + 1)
        /\ joining[t] = NULL
        /\ join_sem[t] = [val |-> 0, wq |-> z]
  BY <1>1
<1>11. /\ z \in Rings
       /\ z.count = 0 /\ z.read = 0 /\ z.write = 0
       /\ \A i \in 0..(NUM_THREADS - 1) : z.storage[i] = NULL
  BY <1>9, PoolRoom DEF AllZero, Rings
<1>12. \A i \in 1..(L + 1) :
         /\ Rest(i) \in Threads \cup {NULL}
         /\ Rest(i) \in Threads => i \in 1..L /\ Place(Rest(i)) = i
  <2>1. ASSUME NEW i \in 1..(L + 1), ~(i > L) PROVE i \in 1..L
    BY <1>2, <2>1
  <2>2. NULL \notin Threads
    BY KernelAssumption
  <2> QED
    BY <1>2, <2>1, <2>2
<1>13. \A t \in Threads : Place(t) + 1 \in 1..(L + 1)
  BY <1>2
<1>14. n + 1 \in 1..(L + 1)
  BY <1>2
<1> HIDE DEF z
<1>15. \A t \in Threads : Alive(t) <=> Taken(n, t)
  BY <1>10 DEF Alive
<1>16. \A t \in Threads :
         Taken(n, t) => os.working_prio[t] \in 1..os.fixed_prio[t]
  BY <1>6, <1>9, KernelAssumption DEF Tasks
<1>17. LCTypeOK
  <2>1. /\ free_list \in Threads \cup {SP, NULL}
        /\ word0 \in [Threads -> Threads \cup {SP, NULL}]
    BY <1>1, <1>12, <1>13, <1>14
  <2>2. /\ mbox \in [Threads -> Threads \cup {NULL}]
        /\ phase \in [Threads -> {"free", "running", "ending"}]
        /\ joining \in [Threads -> Threads \cup {NULL}]
    BY <1>1
  <2>3. join_sem \in [Threads -> [val : Int, wq : Rings]]
    BY <1>1, <1>11 DEF z
  <2>4. \A t \in Threads :
          /\ join_sem[t].val = -join_sem[t].wq.count
          /\ \A i \in 1..join_sem[t].wq.count : Items(join_sem[t].wq)[i] \in Threads
    BY <1>10, <1>11
  <2> QED
    BY <1>9, <1>15, <1>16, <2>1, <2>2, <2>3, <2>4 DEF LCTypeOK
<1>18. RunQueueHoldsTheLiving
  <2>1. \A t \in Threads : Linked(os.run_queue, t) <=> Alive(t) /\ os.state[t] = "ACTIVE"
    BY <1>7, <1>9, <1>15 DEF Tasks
  <2> QED
    BY <1>5, <1>9, <2>1 DEF RunQueueHoldsTheLiving, Distinct
<1>19. LinksOK
  <2>1. free_list \in Threads => Place(free_list) = n + 1
    BY <1>1, <1>12, <1>14
  <2>2. \A t \in Threads : Alive(t) => word0[t] = SP
    BY <1>10, <1>15
  <2>3. ASSUME NEW t \in Threads, word0[t] \in Threads
        PROVE  ~Taken(n, t) /\ Place(word0[t]) = Place(t) + 1
    BY <1>10, <1>12, <1>13, <2>3, LifecycleAssumption
  <2>4. ASSUME NEW t \in Threads, word0[t] \in Threads
        PROVE  ~Alive(word0[t]) /\ word0[t] # free_list
    <3>1. ~(Place(t) <= n) /\ Place(word0[t]) = Place(t) + 1 /\ Place(t) \in Nat
      BY <1>4, <2>3, <2>4
    <3>2. ~(Place(word0[t]) <= n) /\ Place(word0[t]) # n + 1
      BY <1>3, <3>1
    <3> QED
      BY <1>15, <2>1, <2>4, <3>2
  <2>5. ASSUME NEW t \in Threads, NEW u \in Threads,
               word0[t] \in Threads, word0[t] = word0[u]
        PROVE  t = u
    <3>1. Place(t) + 1 = Place(u) + 1
      BY <2>3, <2>5
    <3>2. Place(t) = Place(u)
      BY <1>4, <3>1
    <3> QED
      BY <1>2, <3>2
  <2>6. free_list \in Threads => ~Alive(free_list)
    BY <1>3, <1>15, <2>1
  <2> QED
    BY <2>2, <2>4, <2>5, <2>6 DEF LinksOK
<1>20. RunnerOK
  BY <1>7, <1>9, <1>16 DEF RunnerOK
<1>21. IdleOK
  BY <1>9 DEF IdleOK, Tasks
<1>22. JoinersOK
  BY <1>9, <1>10 DEF JoinersOK, Tasks
<1>23. RingsOK
  <2>1. ASSUME NEW t \in Threads PROVE RingOK(t, join_sem[t].wq)
    <3>1. join_sem[t].wq = z
      BY <1>10
    <3>2. z.write = (z.read + z.count) % NUM_THREADS
      BY <1>11, PoolRoom
    <3>3. \A i \in (z.write + 1)..(NUM_THREADS - 1) : z.storage[i] = NULL
      BY <1>11
    <3> QED
      BY <1>11, <3>1, <3>2, <3>3 DEF RingOK
  <2> QED
    BY <2>1 DEF RingsOK
<1> QED
  BY <1>9, <1>17, <1>18, <1>19, <1>20, <1>21, <1>22, <1>23 DEF LCInv, Preemptible

\* Every step keeps it.
LEMMA LCNextInv ==
  ASSUME LCInv, [LCNext]_lvars
  PROVE  LCInv'
<1>1. CASE LCTick
  BY <1>1, LCTickInv
<1>2. ASSUME NEW t \in Threads, JoinReturn(t) PROVE LCInv'
  BY <1>2, JoinReturnInv
<1>3. ASSUME NEW t \in Threads, Exit(t) PROVE LCInv'
  BY <1>3, ExitInv
<1>4. ASSUME NEW t \in Threads, Kill(t) PROVE LCInv'
  BY <1>4, KillInv
<1>5. ASSUME NEW t \in Threads, NEW u \in Threads, Join(t, u) PROVE LCInv'
  BY <1>5, JoinInv
<1>6. ASSUME NEW t \in Threads, NEW priority \in 1..MaxPrio, Create(t, priority) PROVE LCInv'
  BY <1>6, CreateInv
<1>7. CASE UNCHANGED lvars
  <2>1. /\ os' = os /\ free_list' = free_list /\ word0' = word0 /\ join_sem' = join_sem
        /\ mbox' = mbox /\ phase' = phase /\ joining' = joining
    BY <1>7 DEF lvars
  <2> QED
    BY <2>1 DEF LCInv, LCTypeOK, RunQueueHoldsTheLiving, LinksOK, RunnerOK, IdleOK,
                JoinersOK, RingsOK, RingOK, Alive
<1> QED
  BY <1>1, <1>2, <1>3, <1>4, <1>5, <1>6, <1>7 DEF LCNext, Common

\* The invariant of the life cycle, for every pool.
THEOREM LifecycleInvariant == LCSpec => []LCInv
<1>1. LCInit => LCInv
  BY LCInitInv
<1>2. LCInv /\ [LCNext]_lvars => LCInv'
  BY LCNextInv
<1> QED
  BY <1>1, <1>2, PTL DEF LCSpec

-----------------------------------------------------------------------------
(* The walk through the free list.                                         *)

FreeBlocks == {x \in Threads \cup {SP, NULL} : x \in Threads => ~Alive(x)}

\* What the walk comes to from x.
Link(x) == IF x \in Threads THEN word0[x] ELSE x

\* The walk starts at the head, follows the links and meets no living thread.
LEMMA WalkSteps ==
  ASSUME LCInv
  PROVE  LET N == Cardinality(Threads)
         IN  /\ N \in Nat
             /\ DOMAIN Walk = 0..N
             /\ Walk[0] = free_list
             /\ \A n \in 1..N : Walk[n] = Link(Walk[n - 1])
             /\ \A n \in 0..N : Walk[n] \in FreeBlocks
<1> DEFINE N == Cardinality(Threads)
           at[n \in 0..N] ==
             IF n = 0 THEN free_list
             ELSE IF at[n - 1] \in Threads THEN word0[at[n - 1]] ELSE at[n - 1]
           R == [n \in 0..N |-> FreeBlocks]
           G == [p \in (1..N) \X FreeBlocks |-> Link(p[2])]
<1>1. N \in Nat
  BY KernelAssumption, FS_CardinalityType
<1>2. free_list \in FreeBlocks
  BY LCTypes DEF FreeBlocks, LCInv, LinksOK
<1>3. ASSUME NEW x \in FreeBlocks PROVE Link(x) \in FreeBlocks
  <2>1. CASE x \in Threads
    BY <2>1, LCTypes DEF FreeBlocks, Link, LCInv, LinksOK
  <2>2. CASE x \notin Threads
    BY <2>2 DEF Link
  <2> QED
    BY <2>1, <2>2
<1> HIDE DEF N
<1>4. /\ 0 \in 0..N
      /\ \A n \in 1..N : n \in 0..N /\ n # 0 /\ n - 1 \in 0..N
  BY <1>1
<1>5. ASSUME NEW n \in 1..N, NEW x \in R[n - 1]
      PROVE  G[<<n, x>>] = Link(x) /\ G[<<n, x>>] \in R[n]
  BY <1>3, <1>4
<1>6. free_list \in R[0]
  BY <1>2, <1>4
<1>7. \A n \in 0..N : R[n] = FreeBlocks
  OBVIOUS
<1> HIDE DEF R, G
<1>8. PICK f : IsLoop(f, N, free_list, G) /\ \A n \in 0..N : f[n] \in R[n]
  <2> HIDE DEF at
  <2> QED
    BY <1>1, <1>5, <1>6, LoopFunction
<1>9. f = [n \in 0..N |->
             IF n = 0 THEN free_list
             ELSE IF f[n - 1] \in Threads THEN word0[f[n - 1]] ELSE f[n - 1]]
  <2> HIDE DEF at
  <2> DEFINE g == [n \in 0..N |-> IF n = 0 THEN free_list ELSE G[<<n, f[n - 1]>>]]
             h == [n \in 0..N |-> IF n = 0 THEN free_list ELSE Link(f[n - 1])]
  <2>1. ASSUME NEW n \in 0..N, n # 0 PROVE G[<<n, f[n - 1]>>] = Link(f[n - 1])
    <3>1. n \in 1..N /\ n - 1 \in 0..N
      BY <1>1, <2>1
    <3> QED
      BY <1>5, <1>8, <3>1
  <2>2. \A n \in 0..N : g[n] = h[n]
    BY <2>1
  <2>3. g = [n \in 0..N |-> g[n]] /\ h = [n \in 0..N |-> h[n]]
    OBVIOUS
  <2>4. f = g
    BY <1>8 DEF IsLoop
  <2> HIDE DEF g, h
  <2>5. f = h
    BY <2>2, <2>3, <2>4
  <2> QED
    BY <2>5 DEF h, Link
<1>10. at = [n \in 0..N |->
               IF n = 0 THEN free_list
               ELSE IF at[n - 1] \in Threads THEN word0[at[n - 1]] ELSE at[n - 1]]
  BY <1>9
<1>11. Walk = at
  BY DEF Walk, N
<1> HIDE DEF at
<1>12. DOMAIN at = 0..N /\ at[0] = free_list
  BY <1>4, <1>10
<1>13. \A n \in 1..N : at[n] = Link(at[n - 1])
  BY <1>4, <1>10 DEF Link
<1>14. ASSUME NEW n \in 1..N, at[n - 1] \in R[n - 1] PROVE at[n] \in R[n]
  BY <1>3, <1>4, <1>7, <1>13, <1>14
<1>15. at[0] \in R[0]
  BY <1>6, <1>12
<1>16. \A n \in 0..N : at[n] \in R[n]
  BY <1>1, <1>14, <1>15, LoopInvariant
<1> QED
  BY <1>1, <1>7, <1>11, <1>12, <1>13, <1>16 DEF N

\* As long as it meets blocks it meets each of them once.
LEMMA WalkOnce ==
  ASSUME LCInv, \A n \in 0..Cardinality(Threads) : Walk[n] \in Threads
  PROVE  \A i, j \in 0..Cardinality(Threads) : Walk[i] = Walk[j] => i = j
<1> DEFINE N == Cardinality(Threads)
           W == Walk
           Good == {i \in 0..N : \A j \in 0..N : i < j => W[i] # W[j]}
<1>1. /\ N \in Nat /\ W[0] = free_list
      /\ \A n \in 1..N : W[n] = Link(W[n - 1])
      /\ \A n \in 0..N : W[n] \in Threads
  BY WalkSteps
<1> HIDE DEF N, W
<1>2. \A n \in 1..N : n - 1 \in 0..N /\ n \in 0..N
  BY <1>1
<1>3. \A n \in 1..N : W[n - 1] \in Threads /\ W[n] = word0[W[n - 1]] /\ W[n] \in Threads
  BY <1>1, <1>2 DEF Link
<1>4. 0 \in Good
  <2>1. ASSUME NEW j \in 0..N, 0 < j PROVE W[0] # W[j]
    <3>1. j \in 1..N
      BY <2>1
    <3> QED
      BY <1>1, <1>3, <3>1 DEF LCInv, LinksOK
  <2> QED
    BY <1>1, <2>1
<1>5. ASSUME NEW i \in 1..N, i - 1 \in Good PROVE i \in Good
  <2>1. ASSUME NEW j \in 0..N, i < j PROVE W[i] # W[j]
    <3>1. j \in 1..N /\ j - 1 \in 0..N /\ i - 1 < j - 1
      BY <1>1, <2>1
    <3>2. W[i - 1] # W[j - 1]
      BY <1>5, <3>1
    <3> QED
      BY <1>3, <3>1, <3>2 DEF LCInv, LinksOK
  <2> QED
    BY <1>2, <2>1
<1>6. \A i \in 0..N : i \in Good
  <2> HIDE DEF Good
  <2> QED
    BY <1>1, <1>4, <1>5, SetInduction
<1>7. ASSUME NEW i \in 0..N, NEW j \in 0..N, W[i] = W[j] PROVE i = j
  BY <1>1, <1>6, <1>7
<1> QED
  BY <1>7 DEF N, W

\* It comes to an end, because there is one block less than there are steps.
LEMMA WalkEnds ==
  ASSUME LCInv
  PROVE  Walk[Cardinality(Threads)] \notin Threads
<1> DEFINE N == Cardinality(Threads)
           W == Walk
<1>1. /\ N \in Nat
      /\ \A n \in 1..N : W[n] = Link(W[n - 1])
  BY WalkSteps
<1> HIDE DEF N, W
<1>2. ASSUME NEW n \in 0..N, W[n] \notin Threads PROVE W[N] \notin Threads
  <2> DEFINE Good == {i \in 0..N : i >= n => W[i] \notin Threads}
  <2>1. 0 \in Good
    BY <1>1, <1>2
  <2>2. ASSUME NEW i \in 1..N, i - 1 \in Good PROVE i \in Good
    <3>1. CASE i = n
      BY <1>2, <3>1
    <3>2. CASE i # n
      <4>1. i >= n => i - 1 >= n
        BY <3>2
      <4>2. i >= n => W[i] = W[i - 1]
        BY <1>1, <2>2, <4>1 DEF Link
      <4> QED
        BY <2>2, <4>1, <4>2
    <3> QED
      BY <3>1, <3>2
  <2>3. \A i \in 0..N : i \in Good
    <3> HIDE DEF Good
    <3> QED
      BY <1>1, <2>1, <2>2, SetInduction
  <2> QED
    BY <1>1, <2>3
<1>3. SUFFICES ASSUME W[N] \in Threads PROVE FALSE
  BY DEF N, W
<1>4. \A n \in 0..N : W[n] \in Threads
  BY <1>2, <1>3
<1>5. \A i, j \in 0..N : W[i] = W[j] => i = j
  BY <1>4, WalkOnce DEF N, W
<1> DEFINE D == 0..N
           f == [n \in D |-> W[n]]
<1>6. IsFiniteSet(D) /\ Cardinality(D) = N + 1
  <2>1. IsFiniteSet(0..N) /\ Cardinality(0..N) = IF 0 > N THEN 0 ELSE N - 0 + 1
    BY <1>1, FS_Interval
  <2> QED
    BY <1>1, <2>1
<1>7. IsFiniteSet(Threads) /\ Cardinality(Threads) < Cardinality(D)
  BY <1>1, <1>6, KernelAssumption DEF N
<1>8. f \in [D -> Threads]
  BY <1>4
<1>9. \A x, y \in D : f[x] = f[y] => x = y
  BY <1>5
<1> HIDE DEF D, f
<1>10. \E x, y \in D : x # y /\ f[x] = f[y]
  BY <1>6, <1>7, <1>8, FS_PigeonHole
<1> QED
  BY <1>9, <1>10

\* The walk meets free blocks only, and ends.
LEMMA PoolIsIntact ==
  ASSUME LCInv
  PROVE  PoolIntact
<1>1. \A n \in DOMAIN Walk : Walk[n] \in Threads => ~Alive(Walk[n])
  BY WalkSteps DEF FreeBlocks
<1>2. Walk[Cardinality(Threads)] \notin Threads
  BY WalkEnds
<1>3. \A t \in Threads : Alive(t) => word0[t] = SP
  BY DEF LCInv, LinksOK
<1> QED
  BY <1>1, <1>2, <1>3 DEF PoolIntact

-----------------------------------------------------------------------------
(* The properties of the runs.                                             *)

\* Types are kept, for every pool.
THEOREM LifecycleTypes == LCSpec => []LCTypeOK
<1>1. LCInv => LCTypeOK
  BY DEF LCInv
<1> QED
  BY <1>1, LifecycleInvariant, PTL

\* The run queue holds exactly the living threads that can run, and the iterator
\* never stands on a dead one, however creation, exit and kill interleave
\* (os.c:187-199).
THEOREM LivingQueue == LCSpec => []RunQueueHoldsTheLiving
<1>1. LCInv => RunQueueHoldsTheLiving
  BY DEF LCInv
<1> QED
  BY <1>1, LifecycleInvariant, PTL

\* No block of the pool belongs to two threads, although a stack pointer is saved to
\* the block of a killed thread (pool.h:37-51; os.c:62-80).
THEOREM PoolStaysIntact == LCSpec => []PoolIntact
<1>1. LCInv => PoolIntact
  BY PoolIsIntact
<1> QED
  BY <1>1, LifecycleInvariant, PTL

\* No step writes a return code.
LEMMA MailStays ==
  ASSUME LCInv, [LCNext]_lvars
  PROVE  mbox' = mbox
<1>1. ASSUME NEW t \in Threads, Exit(t) PROVE mbox' = mbox
  BY <1>1, ExitFacts
<1>2. ASSUME NEW t \in Threads, JoinReturn(t) \/ Kill(t) PROVE mbox' = mbox
  BY <1>2 DEF JoinReturn, Kill
<1>3. ASSUME NEW t \in Threads, NEW u \in Threads, Join(t, u) PROVE mbox' = mbox
  BY <1>3 DEF Join
<1>4. ASSUME NEW t \in Threads, NEW priority, Create(t, priority) PROVE mbox' = mbox
  BY <1>4 DEF Create
<1>5. CASE LCTick
  BY <1>5 DEF LCTick
<1>6. CASE UNCHANGED lvars
  BY <1>6 DEF lvars
<1> QED
  BY <1>1, <1>2, <1>3, <1>4, <1>5, <1>6 DEF LCNext, Common

\* The return code of a thread is written to nobody, for every pool: the slot
\* behind the newest waiter is empty in every thread that has not exited
\* (os.c:331-342; queue.h:93-100).
THEOREM NobodyGetsMail == LCSpec => NoMailAtAll
<1>1. LCInv /\ [LCNext]_lvars => [UNCHANGED mbox]_lvars
  BY MailStays
<1> QED
  BY <1>1, LifecycleInvariant, PTL DEF LCSpec, NoMailAtAll

-----------------------------------------------------------------------------
(* The refinement of AbstractJoin.                                         *)

\* The threads in the ring of t.
LEMMA WaitersOf ==
  ASSUME NEW t \in Threads
  PROVE  waiters[t] = {u \in Threads : \E i \in 1..join_sem[t].wq.count :
                                          Items(join_sem[t].wq)[i] = u}
BY DEF waiters, InQueue

\* A thread in its own code is at liberty.
LEMMA UserIsAtLiberty ==
  ASSUME LCInv, NEW t \in Threads, InUserCode(t)
  PROVE  Abstract!AtLiberty(t)
<1>1. CanRun(t) /\ phase[t] = "running" /\ joining[t] = NULL
  BY DEF InUserCode
<1>2. \A u \in Threads : t \notin waiters[u]
  BY <1>1, Running, WaitersOf
<1> QED
  BY <1>1, <1>2 DEF Abstract!AtLiberty, go

\* Who waits and who may go depends on these variables only.
LEMMA SameJoins ==
  ASSUME join_sem' = join_sem, joining' = joining, os'.state = os.state
  PROVE  waiters' = waiters /\ go' = go
BY DEF waiters, InQueue, go

\* After main nobody waits.
LEMMA AbstractInit ==
  ASSUME LCInit
  PROVE  Abstract!JAInit
<1>1. /\ join_sem = [t \in Threads |-> [val |-> 0, wq |-> AllZero(NULL)]]
      /\ joining = [t \in Threads |-> NULL]
      /\ phase \in [Threads -> {"free", "running"}]
  BY DEF LCInit
<1>2. AllZero(NULL).count = 0
  BY DEF AllZero
<1>3. \A t \in Threads : waiters[t] = {}
  BY <1>1, <1>2, WaitersOf
<1>4. waiters = [t \in Threads |-> {}]
  BY <1>3 DEF waiters
<1>5. go = {}
  BY <1>1 DEF go
<1> QED
  BY <1>1, <1>4, <1>5 DEF Abstract!JAInit

\* The tick changes nothing that is visible here.
LEMMA AbstractTick ==
  ASSUME LCInv, LCTick
  PROVE  UNCHANGED Abstract!javars
<1>1. /\ os' = os_tick(os) /\ join_sem' = join_sem /\ phase' = phase /\ joining' = joining
  BY DEF LCTick, Tick, TimerTick, YieldTick
<1>2. os'.state = os.state
  <2>1. Rescheduled(os, os_tick(os))
    BY TickFacts
  <2> QED
    BY <1>1, <2>1 DEF Rescheduled
<1> QED
  BY <1>1, <1>2, SameJoins DEF Abstract!javars

\* JoinReturn is Return.
LEMMA AbstractReturn ==
  ASSUME LCInv, NEW t \in Threads, JoinReturn(t)
  PROVE  Abstract!Return(t)
<1>1. /\ CanRun(t) /\ joining[t] # NULL
      /\ joining' = [joining EXCEPT ![t] = NULL]
      /\ os' = os /\ join_sem' = join_sem /\ phase' = phase
  BY DEF JoinReturn
<1>2. os.state[t] = "ACTIVE"
  BY <1>1, Running
<1>3. \A u \in Threads : joining'[u] = IF u = t THEN NULL ELSE joining[u]
  BY <1>1, LCTypes
<1>4. waiters' = waiters
  BY <1>1 DEF waiters, InQueue
<1>5. t \in go /\ go' = go \ {t}
  BY <1>1, <1>2, <1>3 DEF go
<1> QED
  BY <1>1, <1>4, <1>5 DEF Abstract!Return

\* Kill is Kill.
LEMMA AbstractKill ==
  ASSUME LCInv, NEW t \in Threads, Kill(t)
  PROVE  Abstract!Kill(t)
<1>1. /\ CanRun(t) /\ phase[t] = "ending"
      /\ os' = os_task_kill(os, t)
      /\ phase' = [phase EXCEPT ![t] = "free"]
      /\ join_sem' = join_sem /\ joining' = joining
  BY DEF Kill
<1>2. Linked(os.run_queue, t) /\ os.task_active_cnt # 0 /\ os.run_queue # <<>>
  BY <1>1, Running DEF Alive
<1>3. /\ os \in Kernels /\ NestOK(os) /\ Distinct(os.run_queue)
      /\ Linked(os.run_queue, os.it)
  BY <1>2, LCFacts DEF QueueOK
<1>4. os'.state = os.state
  BY <1>1, <1>2, <1>3, KillIsPause, PauseEffect, Zenon
<1> QED
  BY <1>1, <1>4, SameJoins DEF Abstract!Kill

\* Join is Join.
LEMMA AbstractJoins ==
  ASSUME LCInv, NEW t \in Threads, NEW u \in Threads, phase[u] = "running", Join(t, u)
  PROVE  Abstract!Join(t, u)
<1> DEFINE q == join_sem[u].wq
           p == join_sem'[u].wq
<1>1. JoinStep(t, u)
  BY JoinFacts
<1>2. /\ joining[t] = NULL /\ phase' = phase
      /\ q.count \in Nat /\ p.count = q.count + 1
      /\ \A i \in 1..q.count : Items(p)[i] = Items(q)[i]
      /\ Items(p)[q.count + 1] = t
      /\ \A v \in Threads : v # u => join_sem'[v] = join_sem[v]
      /\ \A v \in Threads : joining'[v] = IF v = t THEN u ELSE joining[v]
      /\ \A v \in Tasks : os'.state[v] = IF v = t THEN "BLOCKING" ELSE os.state[v]
  BY <1>1 DEF JoinStep
<1>3. Abstract!AtLiberty(t)
  BY UserIsAtLiberty DEF Join
<1>4. go' = go
  BY <1>2 DEF go, Tasks
<1>5. waiters'[u] = waiters[u] \cup {t}
  <2>1. /\ waiters[u] = {v \in Threads : \E i \in 1..q.count : Items(q)[i] = v}
        /\ waiters'[u] = {v \in Threads : \E i \in 1..p.count : Items(p)[i] = v}
    BY DEF waiters, InQueue
  <2> HIDE DEF q, p
  <2>2. \A i \in 1..p.count : i \in 1..q.count \/ i = q.count + 1
    BY <1>2
  <2>3. (\A i \in 1..q.count : i \in 1..p.count) /\ q.count + 1 \in 1..p.count
    BY <1>2
  <2> QED
    BY <1>2, <2>1, <2>2, <2>3
<1>6. \A v \in Threads : v # u => waiters'[v] = waiters[v]
  BY <1>2 DEF waiters, InQueue
<1>7. waiters' = [waiters EXCEPT ![u] = @ \cup {t}]
  BY <1>5, <1>6 DEF waiters
<1> QED
  BY <1>2, <1>3, <1>4, <1>7 DEF Abstract!Join

\* Exit is Exit: the ring holds exactly the waiters.
LEMMA AbstractExit ==
  ASSUME LCInv, NEW t \in Threads, Exit(t)
  PROVE  Abstract!Exit(t)
<1> DEFINE W == FirstOf(Items(join_sem[t].wq), join_sem[t].wq.count)
<1>1. /\ Woke(os, os', W)
      /\ \A u \in Threads : u # t => join_sem'[u] = join_sem[u]
      /\ join_sem'[t].wq.count = 0
      /\ phase' = [phase EXCEPT ![t] = "ending"]
      /\ joining' = joining
  BY ExitFacts
<1>2. Abstract!AtLiberty(t)
  BY UserIsAtLiberty DEF Exit
<1>3. /\ W = waiters[t]
      /\ \A u \in W : joining[u] # NULL
  <2>1. \A i \in 1..join_sem[t].wq.count : Items(join_sem[t].wq)[i] \in Threads
    BY RingFacts
  <2>2. W = waiters[t]
    BY <2>1, WaitersOf DEF FirstOf
  <2>3. \A u \in Threads : u \in W => joining[u] = t
    BY ExitWakes
  <2> QED
    BY <2>2, <2>3, WaitersOf, KernelAssumption
<1>4. \A u \in Threads : os'.state[u] = IF u \in W THEN "ACTIVE" ELSE os.state[u]
  BY <1>1 DEF Woke, Tasks
<1>5. W \subseteq Threads
  BY <1>3, WaitersOf
<1> HIDE DEF W
<1>6. go' = go \cup waiters[t]
  BY <1>1, <1>3, <1>4, <1>5 DEF go
<1>7. waiters'[t] = {} /\ \A u \in Threads : u # t => waiters'[u] = waiters[u]
  BY <1>1 DEF waiters, InQueue
<1>8. waiters' = [waiters EXCEPT ![t] = {}]
  BY <1>7 DEF waiters
<1> QED
  BY <1>1, <1>2, <1>6, <1>8 DEF Abstract!Exit

\* Create is the creation of the block at the head of the list.
LEMMA AbstractCreate ==
  ASSUME LCInv, NEW t \in Threads, NEW priority \in 1..MaxPrio, Create(t, priority)
  PROVE  \E b \in Threads : Abstract!Create(b)
<1> DEFINE b == free_list
<1>1. CreateStep(t, b, priority)
  BY CreateFacts
<1>2. /\ b \in Threads /\ phase[b] = "free" /\ joining[b] = NULL /\ joining' = joining
      /\ phase' = [phase EXCEPT ![b] = "running"]
      /\ join_sem'[b].wq.count = 0
      /\ \A u \in Threads : u # b => join_sem'[u] = join_sem[u]
      /\ \A u \in Tasks : os'.state[u] = IF u = b THEN "ACTIVE" ELSE os.state[u]
  BY <1>1 DEF CreateStep, Create, talloc, FreeList, AllZero, Alive
<1>3. go' = go
  BY <1>2 DEF go, Tasks
<1>4. waiters'[b] = {} /\ \A u \in Threads : u # b => waiters'[u] = waiters[u]
  BY <1>2 DEF waiters, InQueue
<1>5. waiters' = [waiters EXCEPT ![b] = {}]
  BY <1>4 DEF waiters
<1> QED
  BY <1>2, <1>3, <1>5 DEF Abstract!Create

\* Every step that joins only running threads is a step or a stutter of AbstractJoin.
LEMMA AbstractStep ==
  ASSUME LCInv, [TimelyNext]_lvars
  PROVE  [Abstract!JANext]_(Abstract!javars)
<1>1. CASE LCTick
  BY <1>1, AbstractTick
<1>2. ASSUME NEW t \in Threads, JoinReturn(t) PROVE Abstract!JANext
  BY <1>2, AbstractReturn DEF Abstract!JANext
<1>3. ASSUME NEW t \in Threads, Exit(t) PROVE Abstract!JANext
  BY <1>3, AbstractExit DEF Abstract!JANext
<1>4. ASSUME NEW t \in Threads, Kill(t) PROVE Abstract!JANext
  BY <1>4, AbstractKill DEF Abstract!JANext
<1>5. ASSUME NEW t \in Threads, NEW u \in Threads, phase[u] = "running", Join(t, u)
      PROVE  Abstract!JANext
  BY <1>5, AbstractJoins DEF Abstract!JANext
<1>6. ASSUME NEW t \in Threads, NEW priority \in 1..MaxPrio, Create(t, priority)
      PROVE  Abstract!JANext
  BY <1>6, AbstractCreate DEF Abstract!JANext
<1>7. CASE UNCHANGED lvars
  <2>1. os' = os /\ join_sem' = join_sem /\ joining' = joining /\ phase' = phase
    BY <1>7 DEF lvars
  <2> QED
    BY <2>1, SameJoins DEF Abstract!javars
<1> QED
  BY <1>1, <1>2, <1>3, <1>4, <1>5, <1>6, <1>7 DEF TimelyNext, Common

\* A timely step is one of LCNext.
LEMMA TimelyStep ==
  ASSUME [TimelyNext]_lvars
  PROVE  [LCNext]_lvars
BY DEF TimelyNext, LCNext

\* As long as only running threads are joined, thrd_join returns exactly when the
\* thread that was joined exits, to everybody who had joined by then, for every
\* pool (os.c:325-353; thread.c:58-62).
THEOREM JoinRefinement == TimelySpec => ImplementsAbstractJoin
<1>1. LCInit => Abstract!JAInit
  BY AbstractInit
<1>2. LCInv /\ [TimelyNext]_lvars => [Abstract!JANext]_(Abstract!javars)
  BY AbstractStep
<1>3. [TimelyNext]_lvars => [LCNext]_lvars
  BY TimelyStep
<1>4. TimelySpec => []LCInv
  BY <1>3, LifecycleInvariant, PTL DEF TimelySpec, LCSpec
<1> QED
  BY <1>1, <1>2, <1>4, PTL DEF TimelySpec, ImplementsAbstractJoin, Abstract!JASpec
=============================================================================
