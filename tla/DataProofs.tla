----------------------------- MODULE DataProofs -----------------------------
(***************************************************************************)
(* Lemmas about the data that several components share: the functions that *)
(* loops are written as, the wait queues of semaphores and mutexes, and    *)
(* the heaps of deadlines.                                                 *)
(***************************************************************************)
EXTENDS WaitQueue, DeadlineQueue, KernelProofs, WellFoundedInduction

-----------------------------------------------------------------------------
(* Induction over the natural numbers in first-order form: about a set     *)
(* instead of an operator.                                                 *)

LEMMA NatMinimum ==
  ASSUME NEW S, S \subseteq Nat, S # {}
  PROVE  \E m \in S : \A n \in S : m <= n
<1> DEFINE R == OpToRel(<, Nat)
<1>1. IsWellFoundedOn(R, Nat)
  BY NatLessThanWellFounded
<1>2. PICK m \in S : \A n \in S : ~(<<n, m>> \in R)
  <2> HIDE DEF R
  <2> QED
    BY <1>1, WFMin
<1>3. \A n \in S : <<n, m>> \in R <=> n < m
  BY DEF OpToRel
<1> HIDE DEF R
<1>4. \A n \in S : n \in Nat /\ ~(n < m)
  BY <1>2, <1>3
<1>5. \A n \in S : m <= n
  BY <1>4
<1> QED
  BY <1>5

LEMMA SetInduction ==
  ASSUME NEW N \in Nat, NEW S, 0 \in S,
         \A n \in 1..N : n - 1 \in S => n \in S
  PROVE  \A n \in 0..N : n \in S
<1> DEFINE Bad == {n \in 0..N : n \notin S}
<1>1. SUFFICES ASSUME Bad # {} PROVE FALSE
  OBVIOUS
<1>2. Bad \subseteq Nat
  OBVIOUS
<1>3. PICK m \in Bad : \A n \in Bad : m <= n
  <2> HIDE DEF Bad
  <2> QED
    BY <1>1, <1>2, NatMinimum
<1>4. m \in 1..N /\ m - 1 \in 0..N /\ m - 1 \notin Bad
  BY <1>3
<1> QED
  BY <1>3, <1>4

IsLoop(f, N, a, G) ==
  f = [n \in 0..N |-> IF n = 0 THEN a ELSE G[<<n, f[n - 1]>>]]

\* A loop: f[n] is what n turns of G leave of a, and S its invariant.
LEMMA LoopFunction ==
  ASSUME NEW N \in Nat, NEW a, NEW G, NEW S, a \in S[0],
         \A n \in 1..N : \A x \in S[n - 1] : G[<<n, x>>] \in S[n]
  PROVE  \E f : /\ IsLoop(f, N, a, G)
                /\ \A n \in 0..N : f[n] \in S[n]
<1> DEFINE Loop(f, m) ==
             /\ f = [n \in 0..m |-> f[n]]
             /\ f[0] = a
             /\ \A n \in 0..m : f[n] \in S[n]
             /\ \A n \in 1..m : f[n] = G[<<n, f[n - 1]>>]
           Good == {m \in 0..N : \E f : Loop(f, m)}
<1>1. 0 \in Good
  <2>1. Loop([n \in 0..0 |-> a], 0)
    OBVIOUS
  <2> HIDE DEF Loop
  <2>2. \E f : Loop(f, 0)
    BY <2>1
  <2> QED
    BY <2>2
<1>2. ASSUME NEW m \in 1..N, m - 1 \in Good PROVE m \in Good
  <2>1. PICK f : Loop(f, m - 1)
    BY <1>2
  <2> DEFINE y == G[<<m, f[m - 1]>>]
             g == [n \in 0..m |-> IF n = m THEN y ELSE f[n]]
  <2>2. /\ f[0] = a
        /\ \A n \in 0..m - 1 : f[n] \in S[n]
        /\ \A n \in 1..m - 1 : f[n] = G[<<n, f[n - 1]>>]
    BY <2>1
  <2>3. y \in S[m]
    <3>1. m - 1 \in 0..m - 1
      OBVIOUS
    <3> QED
      BY <2>2, <3>1
  <2>4. /\ g = [n \in 0..m |-> g[n]]
        /\ \A n \in 0..m - 1 : g[n] = f[n]
        /\ g[m] = y
    OBVIOUS
  <2> HIDE DEF g, y
  <2>5. /\ g[0] = a
        /\ \A n \in 0..m : g[n] \in S[n]
    <3>1. /\ \A n \in 0..m - 1 : g[n] = f[n]
          /\ g[m] = y
      BY <2>4
    <3> QED
      BY <2>2, <2>3, <3>1
  <2>6. ASSUME NEW n \in 1..m PROVE g[n] = G[<<n, g[n - 1]>>]
    <3>1. /\ \A i \in 0..m - 1 : g[i] = f[i]
          /\ g[m] = y
      BY <2>4
    <3>2. n - 1 \in 0..m - 1
      OBVIOUS
    <3>3. g[n - 1] = f[n - 1]
      BY <3>1, <3>2
    <3>4. CASE n = m
      BY <3>1, <3>3, <3>4 DEF y
    <3>5. CASE n # m
      <4>1. n \in 1..m - 1 /\ n \in 0..m - 1
        BY <3>5
      <4>2. g[n] = f[n] /\ f[n] = G[<<n, f[n - 1]>>]
        BY <2>2, <3>1, <4>1
      <4> QED
        BY <3>3, <4>2
    <3> QED
      BY <3>4, <3>5
  <2>7. Loop(g, m)
    BY <2>4, <2>5, <2>6
  <2> HIDE DEF Loop
  <2>8. \E h : Loop(h, m)
    BY <2>7
  <2> QED
    BY <2>8
<1>3. N \in Good
  <2> HIDE DEF Good
  <2> QED
    BY <1>1, <1>2, SetInduction
<1>4. PICK f : Loop(f, N)
  BY <1>3
<1>5. f = [n \in 0..N |-> IF n = 0 THEN a ELSE G[<<n, f[n - 1]>>]]
  <2> DEFINE g == [n \in 0..N |-> IF n = 0 THEN a ELSE G[<<n, f[n - 1]>>]]
  <2>1. \A n \in 0..N : f[n] = g[n]
    BY <1>4
  <2>2. f = [n \in 0..N |-> f[n]]
    BY <1>4
  <2>3. g = [n \in 0..N |-> g[n]]
    OBVIOUS
  <2> HIDE DEF g
  <2>4. f = g
    BY <2>1, <2>2, <2>3
  <2> QED
    BY <2>4 DEF g
<1> QED
  BY <1>4, <1>5 DEF IsLoop

\* An invariant of every turn holds of every value of the loop.
LEMMA LoopInvariant ==
  ASSUME NEW N \in Nat, NEW f, NEW S, f[0] \in S[0],
         \A n \in 1..N : f[n - 1] \in S[n - 1] => f[n] \in S[n]
  PROVE  \A n \in 0..N : f[n] \in S[n]
<1> DEFINE Good == {n \in 0..N : f[n] \in S[n]}
<1>1. 0 \in Good
  OBVIOUS
<1>2. \A n \in 1..N : n - 1 \in Good => n \in Good
  OBVIOUS
<1>3. \A n \in 0..N : n \in Good
  <2> HIDE DEF Good
  <2> QED
    BY <1>1, <1>2, SetInduction
<1> QED
  BY <1>3

-----------------------------------------------------------------------------
(* Wait queues.                                                            *)

\* There is room for a thread that does not wait yet.
LEMMA RoomToWait ==
  ASSUME NEW q \in Seq(Threads), Distinct(q), NEW t \in Threads, ~Waits(t, q),
         NUM_THREADS \in Nat, Cardinality(Threads) <= NUM_THREADS
  PROVE  Len(q) < NUM_THREADS
<1> DEFINE T == Threads \ {t}
           S == 1..Len(q)
<1>1. IsFiniteSet(T) /\ Cardinality(T) = Cardinality(Threads) - 1
  BY KernelAssumption, FS_RemoveElement
<1>2. IsFiniteSet(S) /\ Cardinality(S) = Len(q)
  <2>1. Len(q) \in Nat
    OBVIOUS
  <2>2. \A n \in Nat : IsFiniteSet(1..n) /\ Cardinality(1..n) = n
    <3>1. ASSUME NEW n \in Nat PROVE IsFiniteSet(1..n) /\ Cardinality(1..n) = n
      <4>1. 1 \in Int /\ n \in Int
        OBVIOUS
      <4>2. IsFiniteSet(1..n) /\ Cardinality(1..n) = IF 1 > n THEN 0 ELSE n - 1 + 1
        BY <4>1, FS_Interval
      <4>3. QED BY <4>2
    <3>2. QED BY <3>1
  <2>3. QED BY <2>1, <2>2
<1>3. q \in [S -> T]
  BY DEF Waits
<1>4. Cardinality(Threads) \in Nat
  BY KernelAssumption, FS_CardinalityType
<1>5. ~(Cardinality(T) < Cardinality(S))
  <2>1. SUFFICES ASSUME Cardinality(T) < Cardinality(S) PROVE FALSE
    OBVIOUS
  <2> HIDE DEF S, T
  <2>2. \E x, y \in S : x # y /\ q[x] = q[y]
    BY <1>1, <1>2, <1>3, <2>1, FS_PigeonHole
  <2>3. QED BY <2>2 DEF Distinct, S
<1>6. QED
  BY <1>1, <1>2, <1>4, <1>5

LEMMA PushElements ==
  ASSUME NEW q \in Seq(Threads), Distinct(q), NEW t \in Threads, ~Waits(t, q),
         NUM_THREADS \in Nat, Cardinality(Threads) <= NUM_THREADS
  PROVE  LET r == queue_wait_push(q, t)
         IN  /\ r \in Seq(Threads)
             /\ Len(r) = Len(q) + 1
             /\ Distinct(r)
             /\ \A u : Waits(u, r) <=> Waits(u, q) \/ u = t
             /\ r = Append(q, t)
<1> DEFINE r == Append(q, t)
           n == Len(q)
<1>1. queue_wait_push(q, t) = r
  BY RoomToWait DEF queue_wait_push
<1>2. /\ n \in Nat /\ r \in Seq(Threads) /\ Len(r) = n + 1
      /\ r[n + 1] = t
      /\ \A i \in 1..n : r[i] = q[i]
  OBVIOUS
<1> HIDE DEF r
<1>3. Distinct(r)
  BY <1>2 DEF Distinct, Waits
<1>4. \A u : Waits(u, r) <=> Waits(u, q) \/ u = t
  BY <1>2 DEF Waits
<1>5. QED BY <1>1, <1>2, <1>3, <1>4 DEF r

LEMMA PopElements ==
  ASSUME NEW q \in Seq(Threads), Distinct(q), Len(q) # 0
  PROVE  /\ Head(q) \in Threads
         /\ Waits(Head(q), q)
         /\ Tail(q) \in Seq(Threads)
         /\ Len(Tail(q)) = Len(q) - 1
         /\ Distinct(Tail(q))
         /\ \A u : Waits(u, Tail(q)) <=> Waits(u, q) /\ u # Head(q)
<1> DEFINE r == Tail(q)
           n == Len(q)
<1>1. /\ n \in Nat \ {0} /\ r \in Seq(Threads) /\ Len(r) = n - 1
      /\ Head(q) = q[1] /\ q[1] \in Threads
      /\ \A i \in 1..n - 1 : r[i] = q[i + 1]
  OBVIOUS
<1> HIDE DEF r
<1>2. Waits(q[1], q)
  BY <1>1 DEF Waits
<1>3. Distinct(r)
  BY <1>1 DEF Distinct
<1>4. ASSUME NEW u PROVE Waits(u, r) <=> Waits(u, q) /\ u # q[1]
  <2>1. ASSUME NEW i \in 1..n - 1, r[i] = u PROVE Waits(u, q) /\ u # q[1]
    BY <1>1, <2>1 DEF Waits, Distinct
  <2>2. ASSUME NEW i \in 1..n, q[i] = u, u # q[1] PROVE Waits(u, r)
    <3>1. i - 1 \in 1..n - 1 /\ r[i - 1] = u
      BY <1>1, <2>2
    <3>2. QED BY <1>1, <3>1 DEF Waits
  <2>3. QED BY <1>1, <2>1, <2>2 DEF Waits
<1>5. QED BY <1>1, <1>2, <1>3, <1>4 DEF r

-----------------------------------------------------------------------------
(* Words.                                                                  *)

\* A word has two halves, one of which is negative when it is signed.
EvenWord == WordSize \in Nat \ {0} /\ WordSize % 2 = 0

LEMMA EvenWords ==
  ASSUME EvenWord
  PROVE  /\ WordSize \in Nat
         /\ WordSize \div 2 \in Nat
         /\ WordSize = 2 * (WordSize \div 2)
         /\ WordSize > 0
         /\ \A x \in Int : Unsigned(x) \in 0..(WordSize - 1)
         /\ \A x \in Int : Signed(x) \in -(WordSize \div 2)..(WordSize \div 2 - 1)
         /\ \A x \in 0..(WordSize \div 2 - 1) : Unsigned(x) = x /\ Signed(x) = x
<1>1. /\ WordSize \in Nat
      /\ WordSize \div 2 \in Nat
      /\ WordSize = 2 * (WordSize \div 2)
      /\ WordSize > 0
  BY DEF EvenWord
<1>2. \A x \in Int : Unsigned(x) \in 0..(WordSize - 1)
  BY <1>1 DEF Unsigned
<1>3. \A x \in Int : Signed(x) \in -(WordSize \div 2)..(WordSize \div 2 - 1)
  BY <1>1, <1>2 DEF Signed
<1>4. ASSUME NEW x \in 0..(WordSize \div 2 - 1) PROVE Unsigned(x) = x /\ Signed(x) = x
  <2>1. x \in 0..(WordSize - 1) /\ x < WordSize \div 2
    BY <1>1
  <2>2. x % WordSize = x
    BY <1>1, <2>1
  <2> QED
    BY <2>1, <2>2 DEF Unsigned, Signed
<1> QED
  BY <1>1, <1>2, <1>3, <1>4

-----------------------------------------------------------------------------
(* The heap as a rearrangement: which threads it has deadlines of.         *)

DataOf(heap) == {heap[i].data : i \in 1..Len(heap)}

LEMMA SuccessorPlace ==
  ASSUME NEW heap, Len(heap) \in Nat, NEW i \in 1..Len(heap)
  PROVE  LET s == Successor(heap, i)
         IN  /\ s \in 1..Len(heap)
             /\ s < Len(heap) => s > i /\ s \div 2 = i
<1> DEFINE last == Len(heap)
           s == Successor(heap, i)
<1>1. \/ s = last
      \/ s = 2 * i /\ 2 * i < last
      \/ s = 2 * i + 1 /\ 2 * i + 1 < last
  BY DEF Successor
<1> HIDE DEF s, last
<1>2. last \in Nat /\ i \in Nat /\ i > 0 /\ i <= last
  BY DEF last
<1>3. s \in 1..last /\ (s < last => s > i /\ s \div 2 = i)
  BY <1>1, <1>2
<1> QED
  BY <1>3 DEF s, last

\* The path of MovesUp exists: R is the set of the places that are successors
\* of their parents.
LEMMA PathUp ==
  ASSUME NEW N \in Nat, NEW R
  PROVE  \E f : f = [i \in 1..N |-> i = 1 \/ (f[i \div 2] /\ i \in R)]
<1> DEFINE Path(f, m) ==
             /\ f = [i \in 1..m |-> f[i]]
             /\ \A i \in 1..m : f[i] = (i = 1 \/ (f[i \div 2] /\ i \in R))
           Good == {m \in 0..N : \E f : Path(f, m)}
<1>1. 0 \in Good
  <2>1. Path([i \in 1..0 |-> TRUE], 0)
    OBVIOUS
  <2> HIDE DEF Path
  <2>2. \E f : Path(f, 0)
    BY <2>1
  <2> QED
    BY <2>2
<1>2. ASSUME NEW m \in 1..N, m - 1 \in Good PROVE m \in Good
  <2>1. PICK f : Path(f, m - 1)
    BY <1>2
  <2> DEFINE y == (m = 1 \/ (f[m \div 2] /\ m \in R))
             g == [i \in 1..m |-> IF i = m THEN y ELSE f[i]]
  <2>2. \A i \in 1..m - 1 : f[i] = (i = 1 \/ (f[i \div 2] /\ i \in R))
    BY <2>1
  <2>3. /\ g = [i \in 1..m |-> g[i]]
        /\ \A i \in 1..m - 1 : g[i] = f[i]
        /\ g[m] = y
    OBVIOUS
  <2> HIDE DEF g
  <2>4. ASSUME NEW i \in 1..m PROVE g[i] = (i = 1 \/ (g[i \div 2] /\ i \in R))
    <3>1. /\ \A j \in 1..m - 1 : g[j] = f[j]
          /\ g[m] = y
      BY <2>3
    <3>2. i # 1 => i \div 2 \in 1..m - 1
      OBVIOUS
    <3>3. i # 1 => g[i \div 2] = f[i \div 2]
      BY <3>1, <3>2
    <3>4. CASE i = m
      BY <3>1, <3>3, <3>4, Zenon
    <3>5. CASE i # m
      <4>1. i \in 1..m - 1
        BY <3>5
      <4>2. g[i] = f[i] /\ f[i] = (i = 1 \/ (f[i \div 2] /\ i \in R))
        BY <2>2, <3>1, <4>1
      <4> QED
        BY <3>3, <4>2, Zenon
    <3> QED
      BY <3>4, <3>5
  <2>5. Path(g, m)
    BY <2>3, <2>4
  <2> HIDE DEF Path
  <2>6. \E h : Path(h, m)
    BY <2>5
  <2> QED
    BY <2>6
<1>3. N \in Good
  <2> HIDE DEF Good
  <2> QED
    BY <1>1, <1>2, SetInduction
<1>4. PICK f : Path(f, N)
  BY <1>3
<1>5. f = [i \in 1..N |-> i = 1 \/ (f[i \div 2] /\ i \in R)]
  <2> DEFINE g == [i \in 1..N |-> i = 1 \/ (f[i \div 2] /\ i \in R)]
  <2>1. \A i \in 1..N : f[i] = g[i]
    BY <1>4
  <2>2. f = [i \in 1..N |-> f[i]] /\ g = [i \in 1..N |-> g[i]]
    BY <1>4
  <2> HIDE DEF g
  <2>3. f = g
    BY <2>1, <2>2
  <2> QED
    BY <2>3 DEF g
<1> QED
  BY <1>5

LEMMA MovesUpPlaces ==
  ASSUME NEW heap, Len(heap) \in Nat, Len(heap) > 0
  PROVE  /\ MovesUp(heap) \subseteq 1..(Len(heap) - 1)
         /\ Len(heap) > 1 => 1 \in MovesUp(heap)
         /\ \A i \in MovesUp(heap) :
              i # 1 => /\ i \div 2 \in MovesUp(heap)
                       /\ Successor(heap, i \div 2) = i
         /\ \A i \in MovesUp(heap) :
              Successor(heap, i) < Len(heap) => Successor(heap, i) \in MovesUp(heap)
<1> DEFINE N == Len(heap)
           R == {i \in 1..N : Successor(heap, i \div 2) = i}
           path[i \in 1..N] ==
             i = 1 \/ (path[i \div 2] /\ Successor(heap, i \div 2) = i)
           M == MovesUp(heap)
<1>1. M = {i \in 1..(N - 1) : path[i]}
  BY DEF MovesUp
<1>2. PICK f : f = [i \in 1..N |-> i = 1 \/ (f[i \div 2] /\ i \in R)]
  <2> HIDE DEF R
  <2> QED
    BY PathUp
<1>3. f = [i \in 1..N |-> i = 1 \/ (f[i \div 2] /\ Successor(heap, i \div 2) = i)]
  <2> DEFINE g == [i \in 1..N |-> i = 1 \/ (f[i \div 2] /\ i \in R)]
             h == [i \in 1..N |-> i = 1 \/ (f[i \div 2] /\ Successor(heap, i \div 2) = i)]
  <2>1. \A i \in 1..N : g[i] = h[i]
    OBVIOUS
  <2>2. g = [i \in 1..N |-> g[i]] /\ h = [i \in 1..N |-> h[i]]
    OBVIOUS
  <2>3. f = g
    BY <1>2
  <2> HIDE DEF g, h
  <2>4. g = h
    BY <2>1, <2>2
  <2> QED
    BY <2>3, <2>4 DEF h
<1>4. path = [i \in 1..N |-> i = 1 \/ (path[i \div 2] /\ Successor(heap, i \div 2) = i)]
  BY <1>3
<1> HIDE DEF path
<1>5. \A i \in 1..N :
        path[i] <=> i = 1 \/ (path[i \div 2] /\ Successor(heap, i \div 2) = i)
  BY <1>4
<1> HIDE DEF M, N
<1>6. N \in Nat /\ N > 0
  BY DEF N
<1>7. M \subseteq 1..(N - 1) /\ (N > 1 => 1 \in M)
  BY <1>1, <1>5, <1>6
<1>8. ASSUME NEW i \in M, i # 1
      PROVE  i \div 2 \in M /\ Successor(heap, i \div 2) = i
  BY <1>1, <1>5, <1>6, <1>8
<1>9. ASSUME NEW i \in M, Successor(heap, i) < N PROVE Successor(heap, i) \in M
  <2> DEFINE s == Successor(heap, i)
  <2>1. i \in 1..N
    BY <1>6, <1>7
  <2>2. s \in 1..N /\ s > i /\ s \div 2 = i
    BY <1>9, <2>1, SuccessorPlace DEF N
  <2>3. path[i]
    BY <1>1
  <2>4. s \in 1..(N - 1) /\ s \in 1..N
    BY <1>6, <1>9, <2>2
  <2>5. path[s]
    BY <1>5, <2>2, <2>3, <2>4
  <2> QED
    BY <1>1, <2>4, <2>5
<1> QED
  BY <1>7, <1>8, <1>9 DEF M, N

LEMMA PopEffect ==
  ASSUME NEW X, NEW heap \in Seq(X), Len(heap) > 0
  PROVE  /\ pqueue_pop(heap) \in Seq(X)
         /\ Len(pqueue_pop(heap)) = Len(heap) - 1
         /\ DataOf(heap) = DataOf(pqueue_pop(heap)) \cup {heap[1].data}
<1> DEFINE N == Len(heap)
           M == MovesUp(heap)
           r == pqueue_pop(heap)
<1>1. N \in Nat /\ N > 0
  OBVIOUS
<1>2. /\ M \subseteq 1..(N - 1)
      /\ N > 1 => 1 \in M
      /\ \A i \in M : i # 1 => i \div 2 \in M /\ Successor(heap, i \div 2) = i
      /\ \A i \in M : Successor(heap, i) < N => Successor(heap, i) \in M
  BY MovesUpPlaces
<1>3. \A i \in 1..N : /\ Successor(heap, i) \in 1..N
                      /\ Successor(heap, i) < N => Successor(heap, i) > i
  BY SuccessorPlace
<1>4. r = [i \in 1..(N - 1) |-> IF i \in M THEN heap[Successor(heap, i)] ELSE heap[i]]
  BY DEF pqueue_pop
<1> HIDE DEF r, M
<1>5. \A i \in 1..N : heap[i] \in X
  OBVIOUS
<1> HIDE DEF N
<1>6. ASSUME NEW i \in 1..(N - 1) PROVE r[i] \in X
  <2>1. i \in 1..N /\ Successor(heap, i) \in 1..N
    BY <1>1, <1>3
  <2>2. heap[i] \in X /\ heap[Successor(heap, i)] \in X
    BY <1>5, <2>1
  <2>3. r[i] = IF i \in M THEN heap[Successor(heap, i)] ELSE heap[i]
    BY <1>4
  <2> QED
    BY <2>2, <2>3
<1>7. r \in Seq(X) /\ Len(r) = N - 1
  <2>1. N - 1 \in Nat
    BY <1>1
  <2>2. r \in [1..(N - 1) -> X]
    BY <1>4, <1>6
  <2> QED
    BY <2>1, <2>2
<1>8. ASSUME NEW j \in 2..N PROVE \E i \in 1..(N - 1) : r[i] = heap[j]
  <2>1. CASE j = N
    <3> DEFINE Left == {N - i : i \in M}
    <3>1. Left \subseteq Nat /\ Left # {}
      BY <1>1, <1>2
    <3>2. PICK l \in Left : \A n \in Left : l <= n
      <4> HIDE DEF Left
      <4> QED
        BY <3>1, NatMinimum
    <3>3. PICK i \in M : l = N - i
      BY <3>2
    <3>4. ASSUME NEW k \in M PROVE k <= i
      <4>1. N - k \in Left
        OBVIOUS
      <4>2. N - i <= N - k
        BY <3>2, <3>3, <4>1
      <4>3. i \in Int /\ k \in Int
        BY <1>1, <1>2
      <4> QED
        BY <1>1, <4>2, <4>3
    <3>5. i \in 1..(N - 1) /\ i \in 1..N
      BY <1>1, <1>2
    <3>6. Successor(heap, i) = N
      <4>1. SUFFICES ASSUME Successor(heap, i) < N PROVE FALSE
        BY <1>1, <1>3, <3>5
      <4>2. Successor(heap, i) \in M /\ Successor(heap, i) > i
        BY <1>2, <1>3, <3>5, <4>1
      <4>3. Successor(heap, i) <= i /\ Successor(heap, i) \in Int
        BY <1>3, <3>4, <3>5, <4>2
      <4> QED
        BY <3>5, <4>2, <4>3
    <3> QED
      BY <1>4, <2>1, <3>5, <3>6
  <2>2. CASE j # N /\ j \in M
    <3>1. j \div 2 \in M /\ Successor(heap, j \div 2) = j
      BY <1>2, <2>2
    <3> QED
      BY <1>2, <1>4, <3>1
  <2>3. CASE j # N /\ j \notin M
    <3>1. j \in 1..(N - 1)
      BY <1>1, <2>3
    <3> QED
      BY <1>4, <2>3, <3>1
  <2> QED
    BY <2>1, <2>2, <2>3
<1>9. ASSUME NEW i \in 1..(N - 1) PROVE \E j \in 1..N : r[i] = heap[j]
  <2>1. i \in 1..N /\ Successor(heap, i) \in 1..N
    BY <1>1, <1>3
  <2>2. r[i] = heap[i] \/ r[i] = heap[Successor(heap, i)]
    BY <1>4
  <2> QED
    BY <2>1, <2>2
<1>10. DataOf(r) \cup {heap[1].data} \subseteq DataOf(heap)
  <2>1. 1 \in 1..N
    BY <1>1
  <2> QED
    BY <1>7, <1>9, <2>1 DEF DataOf, N
<1>11. DataOf(heap) \subseteq DataOf(r) \cup {heap[1].data}
  <2>1. ASSUME NEW j \in 1..N PROVE heap[j].data \in DataOf(r) \cup {heap[1].data}
    <3>1. j = 1 \/ j \in 2..N
      BY <1>1
    <3> QED
      BY <1>7, <1>8, <3>1 DEF DataOf
  <2> QED
    BY <2>1 DEF DataOf, N
<1> QED
  BY <1>7, <1>10, <1>11 DEF r, N

IsPathDown(f, N, B) ==
  f = [i \in 1..N |->
         i = N \/ (i \in B /\ \E c \in {2 * i, 2 * i + 1} : c <= N /\ f[c])]

\* The path of MovesDown exists: B is the set of the places with larger items.
LEMMA PathDown ==
  ASSUME NEW N \in Nat, NEW B
  PROVE  \E f : IsPathDown(f, N, B)
<1> DEFINE On(f, i) ==
             i = N \/ (i \in B /\ \E c \in {2 * i, 2 * i + 1} : c <= N /\ f[c])
           Path(f, m) ==
             /\ f = [i \in (N - m + 1)..N |-> f[i]]
             /\ \A i \in (N - m + 1)..N : f[i] = On(f, i)
           Good == {m \in 0..N : \E f : Path(f, m)}
<1>1. 0 \in Good
  <2>1. (N - 0 + 1)..N = {}
    OBVIOUS
  <2>2. Path([i \in {} |-> TRUE], 0)
    BY <2>1
  <2> HIDE DEF Path
  <2>3. \E f : Path(f, 0)
    BY <2>2
  <2> QED
    BY <2>3
<1>2. ASSUME NEW m \in 1..N, m - 1 \in Good PROVE m \in Good
  <2> DEFINE k == N - m + 1
  <2>1. PICK f : Path(f, m - 1)
    BY <1>2
  <2> DEFINE y == On(f, k)
             g == [i \in k..N |-> IF i = k THEN y ELSE f[i]]
  <2>2. k \in 1..N /\ N - (m - 1) + 1 = k + 1 /\ N - m + 1 = k
    OBVIOUS
  <2>3. \A i \in (k + 1)..N : f[i] = On(f, i)
    <3> HIDE DEF On
    <3>1. \A i \in (N - (m - 1) + 1)..N : f[i] = On(f, i)
      BY <2>1
    <3> HIDE DEF k
    <3> QED
      BY <2>2, <3>1
  <2> HIDE DEF k
  <2>4. /\ g = [i \in k..N |-> g[i]]
        /\ \A i \in (k + 1)..N : g[i] = f[i]
        /\ g[k] = y
    <3> HIDE DEF y
    <3> QED
      BY <2>2
  <2> HIDE DEF g
  <2>5. ASSUME NEW i \in k..N PROVE g[i] = On(g, i)
    <3>1. /\ \A j \in (k + 1)..N : g[j] = f[j]
          /\ g[k] = y
      BY <2>4
    <3>2. \A c \in {2 * i, 2 * i + 1} : c <= N => c \in (k + 1)..N
      BY <2>2
    <3>3. \A c \in {2 * i, 2 * i + 1} : c <= N => g[c] = f[c]
      BY <3>1, <3>2
    <3>4. On(g, i) = On(f, i)
      BY <3>3
    <3> HIDE DEF On
    <3>5. CASE i = k
      BY <3>1, <3>4, <3>5
    <3>6. CASE i # k
      <4>1. i \in (k + 1)..N
        BY <2>2, <3>6
      <4>2. g[i] = f[i] /\ f[i] = On(f, i)
        BY <2>3, <3>1, <4>1
      <4> QED
        BY <3>4, <4>2
    <3> QED
      BY <3>5, <3>6
  <2>6. Path(g, m)
    <3> HIDE DEF On
    <3> QED
      BY <2>2, <2>4, <2>5
  <2> HIDE DEF Path
  <2>7. \E h : Path(h, m)
    BY <2>6
  <2> QED
    BY <2>7
<1>3. N \in Good
  <2> HIDE DEF Good
  <2> QED
    BY <1>1, <1>2, SetInduction
<1>4. PICK f : Path(f, N)
  BY <1>3
<1>5. f = [i \in 1..N |-> On(f, i)]
  <2> DEFINE g == [i \in 1..N |-> On(f, i)]
  <2> HIDE DEF On
  <2>1. N - N + 1 = 1
    OBVIOUS
  <2>2. f = [i \in 1..N |-> f[i]] /\ \A i \in 1..N : f[i] = On(f, i)
    BY <1>4, <2>1
  <2>3. g = [i \in 1..N |-> g[i]] /\ \A i \in 1..N : g[i] = On(f, i)
    OBVIOUS
  <2> HIDE DEF g
  <2>4. f = g
    BY <2>2, <2>3
  <2> QED
    BY <2>4 DEF g
<1> QED
  BY <1>5 DEF IsPathDown

LEMMA MovesDownPlaces ==
  ASSUME NEW heap, Len(heap) \in Nat, NEW priority
  PROVE  LET M == MovesDown(heap, priority)
             last == Len(heap) + 1
         IN  /\ M \subseteq 1..last
             /\ last \in M
             /\ \A i \in M : i # last =>
                  \E c \in M : c \div 2 = i
<1> DEFINE N == Len(heap) + 1
           Larger(i) == Unsigned(heap[i].priority) > priority
           B == {i \in 1..N : Larger(i)}
           path[i \in 1..N] ==
             i = N \/ (Larger(i) /\ \E c \in {2 * i, 2 * i + 1} : c <= N /\ path[c])
           M == MovesDown(heap, priority)
<1>1. M = {i \in 1..N : path[i]}
  BY DEF MovesDown
<1> HIDE DEF Larger
<1>2. PICK f : IsPathDown(f, N, B)
  <2>1. N \in Nat
    OBVIOUS
  <2> HIDE DEF B, N, M, path
  <2> QED
    BY <2>1, PathDown, Zenon
<1>3. f = [i \in 1..N |->
        i = N \/ (Larger(i) /\ \E c \in {2 * i, 2 * i + 1} : c <= N /\ f[c])]
  <2> DEFINE On(i) == \E c \in {2 * i, 2 * i + 1} : c <= N /\ f[c]
             g == [i \in 1..N |-> i = N \/ (i \in B /\ On(i))]
             h == [i \in 1..N |-> i = N \/ (Larger(i) /\ On(i))]
  <2>1. f = g
    BY <1>2 DEF IsPathDown
  <2> HIDE DEF On
  <2>2. \A i \in 1..N : g[i] = h[i]
    OBVIOUS
  <2>3. g = [i \in 1..N |-> g[i]] /\ h = [i \in 1..N |-> h[i]]
    OBVIOUS
  <2> HIDE DEF g, h
  <2>4. g = h
    BY <2>2, <2>3
  <2> QED
    BY <2>1, <2>4 DEF h, On
<1>4. path = [i \in 1..N |->
        i = N \/ (Larger(i) /\ \E c \in {2 * i, 2 * i + 1} : c <= N /\ path[c])]
  BY <1>3
<1> HIDE DEF path
<1>5. \A i \in 1..N :
        path[i] <=> i = N \/ (Larger(i) /\ \E c \in {2 * i, 2 * i + 1} : c <= N /\ path[c])
  <2> DEFINE On(i) == \E c \in {2 * i, 2 * i + 1} : c <= N /\ path[c]
  <2>1. path = [i \in 1..N |-> i = N \/ (Larger(i) /\ On(i))]
    BY <1>4
  <2> HIDE DEF On
  <2>2. \A i \in 1..N : path[i] <=> i = N \/ (Larger(i) /\ On(i))
    BY <2>1
  <2> QED
    BY <2>2 DEF On
<1>6. N \in Nat /\ N > 0
  OBVIOUS
<1> HIDE DEF M, N
<1>7. M \subseteq 1..N /\ N \in M
  BY <1>1, <1>5, <1>6
<1>8. ASSUME NEW i \in M, i # N PROVE \E c \in M : c \div 2 = i
  <2>1. i \in 1..N /\ path[i]
    BY <1>1
  <2>2. PICK c \in {2 * i, 2 * i + 1} : c <= N /\ path[c]
    BY <1>5, <1>8, <2>1
  <2>3. c \in 1..N /\ c \div 2 = i
    BY <1>6, <2>1, <2>2
  <2> QED
    BY <1>1, <2>2, <2>3
<1> QED
  BY <1>7, <1>8 DEF M, N

LEMMA PushEffect ==
  ASSUME NEW X, NEW heap \in Seq(X), NEW item \in X, Len(heap) + 1 < NUM_THREADS, NUM_THREADS \in Nat
  PROVE  /\ pqueue_push(heap, item) \in Seq(X)
         /\ Len(pqueue_push(heap, item)) = Len(heap) + 1
         /\ DataOf(pqueue_push(heap, item)) = DataOf(heap) \cup {item.data}
<1> DEFINE N == Len(heap) + 1
           M == MovesDown(heap, item.ticks)
           r == pqueue_push(heap, item)
<1>1. N \in Nat /\ N > 0
  OBVIOUS
<1>2. /\ M \subseteq 1..N
      /\ N \in M
      /\ \A i \in M : i # N => \E c \in M : c \div 2 = i
  BY MovesDownPlaces
<1>3. \A i \in 1..(N - 1) : heap[i] \in X
  OBVIOUS
<1>4. r = [i \in 1..N |-> IF i \notin M THEN heap[i]
                          ELSE IF i \div 2 \in M THEN heap[i \div 2] ELSE item]
  <2>1. ~(N >= NUM_THREADS)
    OBVIOUS
  <2> QED
    BY <2>1 DEF pqueue_push
<1> HIDE DEF r, M
<1>5. DataOf(heap) = {heap[i].data : i \in 1..(N - 1)}
  BY DEF DataOf
<1> HIDE DEF N
<1>6. ASSUME NEW i \in 1..N
      PROVE  r[i] = item \/ \E j \in 1..(N - 1) : r[i] = heap[j]
  <2>1. CASE i \notin M
    <3>1. i \in 1..(N - 1)
      BY <1>1, <1>2, <2>1
    <3> QED
      BY <1>4, <2>1, <3>1
  <2>2. CASE i \in M /\ i \div 2 \in M
    <3>1. i \div 2 \in 1..(N - 1)
      BY <1>1, <1>2, <2>2
    <3> QED
      BY <1>4, <2>2, <3>1
  <2>3. CASE i \in M /\ i \div 2 \notin M
    BY <1>4, <2>3
  <2> QED
    BY <2>1, <2>2, <2>3
<1>7. r \in Seq(X) /\ Len(r) = N
  <2>1. \A i \in 1..N : r[i] \in X
    BY <1>3, <1>6
  <2>2. r \in [1..N -> X]
    BY <1>4, <2>1
  <2> QED
    BY <1>1, <2>2
<1>8. ASSUME NEW j \in 1..(N - 1) PROVE \E i \in 1..N : r[i] = heap[j]
  <2>1. CASE j \notin M
    <3>1. j \in 1..N
      BY <1>1
    <3> QED
      BY <1>4, <2>1, <3>1
  <2>2. CASE j \in M
    <3>1. PICK c \in M : c \div 2 = j
      BY <1>1, <1>2, <2>2
    <3>2. c \in 1..N
      BY <1>2
    <3>3. r[c] = heap[j]
      BY <1>4, <2>2, <3>1, <3>2
    <3> QED
      BY <3>2, <3>3
  <2> QED
    BY <2>1, <2>2
<1>9. \E i \in 1..N : r[i] = item
  <2>1. M \subseteq Nat /\ M # {}
    BY <1>2
  <2>2. PICK i \in M : \A n \in M : i <= n
    BY <2>1, NatMinimum
  <2>3. i \in 1..N /\ i \div 2 \in Nat /\ i \div 2 < i
    BY <1>2
  <2>4. i \div 2 \notin M
    BY <2>2, <2>3
  <2>5. r[i] = item
    BY <1>4, <2>3, <2>4
  <2> QED
    BY <2>3, <2>5
<1>10. DataOf(r) = {r[i].data : i \in 1..N}
  BY <1>7 DEF DataOf
<1>11. DataOf(r) \subseteq DataOf(heap) \cup {item.data}
  BY <1>5, <1>6, <1>10
<1>12. DataOf(heap) \cup {item.data} \subseteq DataOf(r)
  BY <1>5, <1>8, <1>9, <1>10
<1> QED
  BY <1>7, <1>11, <1>12 DEF r, N

Retime(heap, p, w) == [heap EXCEPT ![1].priority = p, ![1].ticks = w]

LEMMA Retimed ==
  ASSUME NEW D, NEW heap \in Seq(Deadlines(D)), Len(heap) > 0,
         NEW p \in -(WordSize \div 2)..(WordSize \div 2 - 1), NEW w \in 0..(WordSize - 1)
  PROVE  LET r == Retime(heap, p, w)
         IN  /\ r \in Seq(Deadlines(D))
             /\ Len(r) = Len(heap)
             /\ DataOf(r) = DataOf(heap)
             /\ r[1].data = heap[1].data
             /\ r[1].priority = p
             /\ r[1].ticks = w
<1> DEFINE n == [[heap[1] EXCEPT !.priority = p] EXCEPT !.ticks = w]
           r == Retime(heap, p, w)
<1>1. heap[1] \in Deadlines(D)
  OBVIOUS
<1>2. /\ n \in Deadlines(D) /\ n.data = heap[1].data
      /\ n.priority = p /\ n.ticks = w
  BY <1>1 DEF Deadlines
<1>3. r = [heap EXCEPT ![1] = n]
  BY <1>1 DEF Deadlines, Retime
<1> HIDE DEF n, r
<1>4. /\ r \in Seq(Deadlines(D)) /\ Len(r) = Len(heap) /\ r[1] = n
      /\ \A i \in 1..Len(heap) : i # 1 => r[i] = heap[i]
  BY <1>2, <1>3
<1>5. \A i \in 1..Len(heap) : r[i].data = heap[i].data
  BY <1>2, <1>4
<1>6. DataOf(r) = DataOf(heap)
  BY <1>4, <1>5 DEF DataOf
<1> QED
  BY <1>2, <1>4, <1>6 DEF r

LEMMA CountDownEffect ==
  ASSUME EvenWord, NEW D, NEW heap \in Seq(Deadlines(D)), Len(heap) > 0
  PROVE  /\ CountDown(heap) \in Seq(Deadlines(D))
         /\ Len(CountDown(heap)) = Len(heap)
         /\ DataOf(CountDown(heap)) = DataOf(heap)
         /\ CountDown(heap)[1].data = heap[1].data
         /\ CountDown(heap)[1].priority = Signed(heap[1].priority - 1)
<1> DEFINE p == Signed(heap[1].priority - 1)
           w == heap[1].ticks
           r == Retime(heap, p, w)
<1>1. heap[1] \in Deadlines(D)
  OBVIOUS
<1>2. heap[1].priority - 1 \in Int /\ w \in 0..(WordSize - 1)
  <2>1. WordSize \in Nat /\ WordSize \div 2 \in Nat
    BY EvenWords
  <2>2. /\ heap[1].priority \in -(WordSize \div 2)..(WordSize \div 2 - 1)
        /\ w \in 0..(WordSize - 1)
    BY <1>1 DEF Deadlines
  <2> HIDE DEF w
  <2> QED
    BY <2>1, <2>2
<1>3. p \in -(WordSize \div 2)..(WordSize \div 2 - 1)
  BY <1>2, EvenWords
<1>4. CountDown(heap) = r
  <2>1. CountDown(heap) = [heap EXCEPT ![1] = [heap[1] EXCEPT !.priority = p]]
    BY DEF CountDown
  <2> DEFINE n == [[heap[1] EXCEPT !.priority = p] EXCEPT !.ticks = w]
  <2>2. r = [heap EXCEPT ![1] = n]
    BY <1>1 DEF Deadlines, Retime
  <2>3. n = [heap[1] EXCEPT !.priority = p]
    BY <1>1 DEF Deadlines
  <2> QED
    BY <2>1, <2>2, <2>3
<1> HIDE DEF p, w
<1>5. /\ r \in Seq(Deadlines(D)) /\ Len(r) = Len(heap) /\ DataOf(r) = DataOf(heap)
      /\ r[1].data = heap[1].data /\ r[1].priority = p
  <2>1. w \in 0..(WordSize - 1)
    BY <1>2
  <2> QED
    BY <1>3, <2>1, Retimed
<1> QED
  BY <1>4, <1>5 DEF p

\* The first deadline cut by a ticks, its ticks raised by b.
Shifted(heap, a, b) == [heap EXCEPT ![1].priority = Signed(@ - a),
                                    ![1].ticks = Unsigned(@ + b)]

\* No deadline comes or goes with it.
LEMMA ShiftedEffect ==
  ASSUME EvenWord, NEW D, NEW heap \in Seq(Deadlines(D)), heap # <<>>,
         NEW a \in Int, NEW b \in Int
  PROVE  /\ Shifted(heap, a, b) \in Seq(Deadlines(D))
         /\ Len(Shifted(heap, a, b)) = Len(heap)
         /\ DataOf(Shifted(heap, a, b)) = DataOf(heap)
<1> DEFINE p == Signed(heap[1].priority - a)
           w == Unsigned(heap[1].ticks + b)
           r == Retime(heap, p, w)
<1>1. Len(heap) > 0
  BY EmptySeq
<1>2. heap[1] \in Deadlines(D)
  BY <1>1
<1>3. heap[1].priority - a \in Int /\ heap[1].ticks + b \in Int
  <2>1. WordSize \in Nat /\ WordSize \div 2 \in Nat
    BY EvenWords
  <2>2. /\ heap[1].priority \in -(WordSize \div 2)..(WordSize \div 2 - 1)
        /\ heap[1].ticks \in 0..(WordSize - 1)
    BY <1>2 DEF Deadlines
  <2>3. heap[1].priority \in Int /\ heap[1].ticks \in Int
    BY <2>1, <2>2
  <2> QED
    BY <2>3
<1>4. /\ p \in -(WordSize \div 2)..(WordSize \div 2 - 1)
      /\ w \in 0..(WordSize - 1)
  BY <1>3, EvenWords
<1>5. Shifted(heap, a, b) = r
  <2> DEFINE n == [[heap[1] EXCEPT !.priority = p] EXCEPT !.ticks = w]
  <2>1. r = [heap EXCEPT ![1] = n]
    BY <1>2 DEF Deadlines, Retime
  <2>2. Shifted(heap, a, b) = [heap EXCEPT ![1] = n]
    BY <1>1, <1>2 DEF Shifted, Deadlines
  <2> QED
    BY <2>1, <2>2
<1> HIDE DEF p, w
<1>6. r \in Seq(Deadlines(D)) /\ Len(r) = Len(heap) /\ DataOf(r) = DataOf(heap)
  BY <1>1, <1>4, Retimed
<1> QED
  BY <1>5, <1>6

\* Pushing keeps the heap's type, full or not.
LEMMA PushTypes ==
  ASSUME NEW X, NEW heap \in Seq(X), NEW item \in X, NUM_THREADS \in Nat
  PROVE  pqueue_push(heap, item) \in Seq(X)
<1>1. NUM_THREADS \in Nat /\ Len(heap) \in Nat
  OBVIOUS
<1>2. CASE Len(heap) + 1 >= NUM_THREADS
  <2>1. pqueue_push(heap, item) = heap
    BY <1>2 DEF pqueue_push
  <2> QED
    BY <2>1
<1>3. CASE ~(Len(heap) + 1 >= NUM_THREADS)
  <2>1. Len(heap) + 1 < NUM_THREADS
    BY <1>1, <1>3
  <2> QED
    BY <2>1, PushEffect
<1> QED
  BY <1>2, <1>3
=============================================================================
