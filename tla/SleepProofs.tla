----------------------------- MODULE SleepProofs -----------------------------
(***************************************************************************)
(* Proofs about the sleep queue.                                           *)
(***************************************************************************)
EXTENDS Sleep, DataProofs

-----------------------------------------------------------------------------
(* Words.                                                                  *)

LEMMA Words ==
  /\ EvenWord
  /\ WordSize \in Nat
  /\ WordSize \div 2 \in Nat
  /\ \A x \in 0..MaxTicks : Signed(x) = x /\ x \in 0..(WordSize - 1)
  /\ \A x \in Int : Signed(x) \in -(WordSize \div 2)..(WordSize \div 2 - 1)
<1>1. /\ WordSize \in Nat
      /\ WordSize % 2 = 0
      /\ MaxTicks \in Nat
      /\ MaxTicks < WordSize \div 2
  BY SleepAssumption
<1>2. EvenWord
  BY <1>1 DEF EvenWord
<1>3. /\ WordSize \div 2 \in Nat
      /\ \A x \in Int : Signed(x) \in -(WordSize \div 2)..(WordSize \div 2 - 1)
      /\ \A x \in 0..(WordSize \div 2 - 1) : Signed(x) = x
  BY <1>2, EvenWords
<1>4. ASSUME NEW x \in 0..MaxTicks PROVE Signed(x) = x /\ x \in 0..(WordSize - 1)
  <2>1. x \in 0..(WordSize \div 2 - 1) /\ x \in 0..(WordSize - 1)
    BY <1>1
  <2> QED
    BY <1>3, <2>1
<1> QED
  BY <1>1, <1>2, <1>3, <1>4

-----------------------------------------------------------------------------
(* os_update: what the loop leaves in the heap and whom it wakes.          *)

LEMMA NextDeadlineEffect ==
  ASSUME NEW heap \in Seq(Nodes), NEW ticks \in 0..(WordSize - 1)
  PROVE  /\ NextDeadline(heap, ticks) \in Seq(Nodes)
         /\ Len(NextDeadline(heap, ticks)) = Len(heap)
         /\ DataOf(NextDeadline(heap, ticks)) = DataOf(heap)
<1>1. CASE heap = <<>>
  <2>1. NextDeadline(heap, ticks) = heap
    BY <1>1 DEF NextDeadline
  <2> QED
    BY <2>1
<1>2. CASE heap # <<>>
  <2>1. NextDeadline(heap, ticks) = Shifted(heap, ticks - 1, ticks)
    BY <1>2 DEF NextDeadline, Shifted
  <2>2. WordSize \in Nat
    BY Words
  <2>3. ticks - 1 \in Int /\ ticks \in Int
    BY <2>2
  <2> QED
    BY <1>2, <2>1, <2>3, Words, ShiftedEffect DEF Nodes
<1> QED
  BY <1>1, <1>2

WokenOf(woken) == {woken[i] : i \in 1..Len(woken)}

Turns == [heap : Seq(Nodes), woken : Seq(Threads), more : BOOLEAN]

\* After n turns nobody is lost and nobody has come.
TurnOK(heap, n, x) ==
  /\ x \in Turns
  /\ Len(x.woken) <= n
  /\ Len(x.heap) + Len(x.woken) = Len(heap)
  /\ DataOf(x.heap) \cup WokenOf(x.woken) = DataOf(heap)

LEMMA TurnStep ==
  ASSUME NEW heap \in Seq(Nodes), NEW n \in Nat, NEW x, TurnOK(heap, n, x),
         Len(x.heap) > 0
  PROVE  TurnOK(heap, n + 1, CleanupStep(x))
<1> DEFINE y == CleanupStep(x)
<1>1. /\ x.heap \in Seq(Nodes) /\ x.woken \in Seq(Threads) /\ x.more \in BOOLEAN
      /\ x = [heap |-> x.heap, woken |-> x.woken, more |-> x.more]
  BY DEF TurnOK, Turns
<1>2. CASE ~x.more
  <2>1. y = x
    BY <1>2 DEF CleanupStep
  <2>2. Len(x.woken) <= n + 1
    BY <1>1 DEF TurnOK
  <2> QED
    BY <2>1, <2>2 DEF TurnOK
<1>3. CASE x.more /\ Expired(x.heap)
  <2> DEFINE c == CountDown(x.heap)
             p == pqueue_pop(c)
             d == NextDeadline(p, x.heap[1].ticks)
             t == x.heap[1].data
             w == Append(x.woken, t)
  <2>1. y = [heap |-> d, woken |-> w, more |-> TRUE]
    BY <1>3 DEF CleanupStep
  <2>2. x.heap[1] \in Nodes
    BY <1>1
  <2>3. t \in Threads /\ x.heap[1].ticks \in 0..(WordSize - 1)
    BY <2>2 DEF Nodes, Deadlines
  <2>4. /\ c \in Seq(Nodes) /\ Len(c) = Len(x.heap)
        /\ DataOf(c) = DataOf(x.heap) /\ c[1].data = t
    BY <1>1, Words, CountDownEffect DEF Nodes
  <2>5. /\ p \in Seq(Nodes) /\ Len(p) = Len(x.heap) - 1
        /\ DataOf(c) = DataOf(p) \cup {t}
    <3> HIDE DEF c, t
    <3> QED
      BY <2>4, PopEffect
  <2>6. d \in Seq(Nodes) /\ Len(d) = Len(p) /\ DataOf(d) = DataOf(p)
    <3> HIDE DEF p
    <3> QED
      BY <2>3, <2>5, NextDeadlineEffect
  <2> HIDE DEF c, p, d, t
  <2>7. /\ w \in Seq(Threads) /\ Len(w) = Len(x.woken) + 1
        /\ \A i \in 1..Len(x.woken) : w[i] = x.woken[i]
        /\ w[Len(x.woken) + 1] = t
    BY <1>1, <2>3
  <2> HIDE DEF w
  <2>8. WokenOf(w) = WokenOf(x.woken) \cup {t}
    <3>1. Len(x.woken) \in Nat
      BY <1>1
    <3>2. WokenOf(w) \subseteq WokenOf(x.woken) \cup {t}
      <4>1. ASSUME NEW i \in 1..Len(w) PROVE w[i] \in WokenOf(x.woken) \cup {t}
        <5>1. i = Len(x.woken) + 1 \/ i \in 1..Len(x.woken)
          BY <2>7, <3>1
        <5> QED
          BY <2>7, <5>1 DEF WokenOf
      <4> QED
        BY <4>1 DEF WokenOf
    <3>3. WokenOf(x.woken) \cup {t} \subseteq WokenOf(w)
      <4>1. /\ Len(x.woken) + 1 \in 1..Len(w)
            /\ \A i \in 1..Len(x.woken) : i \in 1..Len(w)
        BY <2>7, <3>1
      <4>2. t \in WokenOf(w)
        BY <2>7, <4>1 DEF WokenOf
      <4>3. WokenOf(x.woken) \subseteq WokenOf(w)
        BY <2>7, <4>1 DEF WokenOf
      <4> QED
        BY <4>2, <4>3
    <3> QED
      BY <3>2, <3>3
  <2>9. y \in Turns
    BY <2>1, <2>6, <2>7 DEF Turns
  <2>10. Len(w) <= n + 1 /\ Len(d) + Len(w) = Len(heap)
    <3>1. /\ Len(x.woken) \in Nat /\ Len(x.heap) \in Nat /\ Len(x.woken) <= n
          /\ Len(x.heap) + Len(x.woken) = Len(heap)
      BY <1>1 DEF TurnOK
    <3>2. Len(w) = Len(x.woken) + 1 /\ Len(d) = Len(x.heap) - 1
      BY <2>5, <2>6, <2>7
    <3> DEFINE a == Len(x.heap)
               b == Len(x.woken)
    <3>3. a \in Nat /\ b \in Nat /\ b <= n /\ a + b = Len(heap)
      BY <3>1
    <3>4. Len(w) = b + 1 /\ Len(d) = a - 1
      BY <3>2
    <3> HIDE DEF a, b
    <3> QED
      BY <3>3, <3>4
  <2>11. DataOf(d) \cup WokenOf(w) = DataOf(heap)
    BY <2>4, <2>5, <2>6, <2>8 DEF TurnOK
  <2>12. y.heap = d /\ y.woken = w
    BY <2>1
  <2> HIDE DEF y
  <2>13. TurnOK(heap, n + 1, y)
    BY <2>9, <2>10, <2>11, <2>12 DEF TurnOK
  <2> QED
    BY <2>13 DEF y
<1>4. CASE x.more /\ ~Expired(x.heap)
  <2> DEFINE c == CountDown(x.heap)
  <2>1. y = [heap |-> c, woken |-> x.woken, more |-> FALSE]
    BY <1>1, <1>4 DEF CleanupStep
  <2>2. c \in Seq(Nodes) /\ Len(c) = Len(x.heap) /\ DataOf(c) = DataOf(x.heap)
    BY <1>1, Words, CountDownEffect DEF Nodes
  <2> HIDE DEF c
  <2>3. y \in Turns /\ y.heap = c /\ y.woken = x.woken
    BY <1>1, <2>1, <2>2 DEF Turns
  <2>4. Len(x.woken) <= n + 1
    BY <1>1 DEF TurnOK
  <2> HIDE DEF y
  <2>5. TurnOK(heap, n + 1, y)
    BY <2>2, <2>3, <2>4 DEF TurnOK
  <2> QED
    BY <2>5 DEF y
<1> QED
  BY <1>1, <1>2, <1>3, <1>4
\* The loop makes no more turns than there are deadlines.
LEMMA TurnInLoop ==
  ASSUME NEW heap \in Seq(Nodes), NEW n \in 1..(Len(heap) - Len(heap) \div 2),
         NEW x, TurnOK(heap, n - 1, x)
  PROVE  TurnOK(heap, n, CleanupStep(x))
<1>1. n - 1 \in Nat /\ Len(heap) - (n - 1) > 0
  BY LenProperties
<1>2. /\ Len(x.woken) \in Nat /\ Len(x.heap) \in Nat
      /\ Len(x.woken) <= n - 1
      /\ Len(x.heap) + Len(x.woken) = Len(heap)
  BY DEF TurnOK, Turns
<1>3. Len(x.heap) > 0
  <2> DEFINE a == Len(x.heap)
             b == Len(x.woken)
             c == Len(heap)
  <2>1. /\ a \in Nat /\ b \in Nat /\ b <= n - 1 /\ a + b = c
    BY <1>2
  <2>2. c \in Nat /\ n \in Nat /\ c - (n - 1) > 0
    BY <1>1
  <2> HIDE DEF a, b, c
  <2>3. a > 0
    BY <2>1, <2>2
  <2> QED
    BY <2>3 DEF a
<1>4. n - 1 + 1 = n
  OBVIOUS
<1>5. TurnOK(heap, n - 1 + 1, CleanupStep(x))
  BY <1>1, <1>3, TurnStep
<1> QED
  BY <1>4, <1>5

\* Nobody is lost and nobody has come before the first turn.
LEMMA TurnFirst ==
  ASSUME NEW heap \in Seq(Nodes)
  PROVE  TurnOK(heap, 0, [heap |-> heap, woken |-> <<>>, more |-> TRUE])
<1> DEFINE first == [heap |-> heap, woken |-> <<>>, more |-> TRUE]
<1>1. first \in Turns /\ first.woken = <<>> /\ first.heap = heap
  BY DEF Turns
<1>2. WokenOf(<<>>) = {}
  BY DEF WokenOf
<1> HIDE DEF first
<1>3. DataOf(first.heap) \cup WokenOf(first.woken) = DataOf(heap)
  BY <1>1, <1>2
<1>4. Len(first.heap) + Len(first.woken) = Len(heap) /\ Len(first.woken) <= 0
  BY <1>1
<1>5. TurnOK(heap, 0, first)
  BY <1>1, <1>3, <1>4 DEF TurnOK
<1> QED
  BY <1>5 DEF first

LEMMA CleanupLoop ==
  ASSUME NEW heap \in Seq(Nodes)
  PROVE  LET N == Len(heap) - Len(heap) \div 2
             first == [heap |-> heap, woken |-> <<>>, more |-> TRUE]
         IN  \E f : /\ f = [n \in 0..N |-> IF n = 0 THEN first ELSE CleanupStep(f[n - 1])]
                    /\ \A n \in 0..N : TurnOK(heap, n, f[n])
<1> DEFINE N == Len(heap) - Len(heap) \div 2
           first == [heap |-> heap, woken |-> <<>>, more |-> TRUE]
           S == [n \in 0..N |-> {x \in Turns : TurnOK(heap, n, x)}]
           G == [p \in (1..N) \X Turns |-> CleanupStep(p[2])]
<1>1. N \in Nat
  BY LenProperties
<1>2. TurnOK(heap, 0, first)
  BY TurnFirst
<1>3. \A n \in 1..N : \A x : TurnOK(heap, n - 1, x) => TurnOK(heap, n, CleanupStep(x))
  BY TurnInLoop
<1> HIDE DEF first, N
<1>4. first \in S[0]
  <2>1. 0 \in 0..N
    BY <1>1
  <2> QED
    BY <1>2, <2>1 DEF TurnOK
<1>5. ASSUME NEW n \in 1..N, NEW x \in S[n - 1]
      PROVE  G[<<n, x>>] = CleanupStep(x) /\ CleanupStep(x) \in S[n]
  <2>1. n \in 0..N /\ n - 1 \in 0..N
    BY <1>1
  <2>2. x \in Turns /\ TurnOK(heap, n - 1, x)
    BY <2>1
  <2>3. TurnOK(heap, n, CleanupStep(x))
    BY <1>3, <2>2
  <2>4. CleanupStep(x) \in Turns
    BY <2>3 DEF TurnOK
  <2>5. G[<<n, x>>] = CleanupStep(x)
    BY <2>2
  <2> QED
    BY <2>1, <2>3, <2>4, <2>5
<1>6. \A n \in 0..N : S[n] = {x \in Turns : TurnOK(heap, n, x)}
  OBVIOUS
<1> HIDE DEF S, G
<1>7. PICK f : /\ IsLoop(f, N, first, G)
               /\ \A n \in 0..N : f[n] \in S[n]
  <2>1. \A n \in 1..N : \A x \in S[n - 1] : G[<<n, x>>] \in S[n]
    BY <1>5
  <2> QED
    BY <1>1, <1>4, <2>1, LoopFunction
<1>8. f = [n \in 0..N |-> IF n = 0 THEN first ELSE CleanupStep(f[n - 1])]
  <2> DEFINE g == [n \in 0..N |-> IF n = 0 THEN first ELSE G[<<n, f[n - 1]>>]]
             h == [n \in 0..N |-> IF n = 0 THEN first ELSE CleanupStep(f[n - 1])]
  <2>1. ASSUME NEW n \in 0..N, n # 0 PROVE G[<<n, f[n - 1]>>] = CleanupStep(f[n - 1])
    <3>1. n \in 1..N /\ n - 1 \in 0..N
      BY <1>1, <2>1
    <3> QED
      BY <1>5, <1>7, <3>1 DEF IsLoop
  <2>2. \A n \in 0..N : g[n] = h[n]
    BY <2>1
  <2>3. g = [n \in 0..N |-> g[n]] /\ h = [n \in 0..N |-> h[n]]
    OBVIOUS
  <2>4. f = g
    BY <1>7 DEF IsLoop
  <2> HIDE DEF g, h
  <2>5. g = h
    BY <2>2, <2>3
  <2> QED
    BY <2>4, <2>5 DEF h
<1>9. \A n \in 0..N : TurnOK(heap, n, f[n])
  BY <1>6, <1>7
<1> QED
  BY <1>8, <1>9 DEF N, first

\* What the loop in Cleanup leaves: nobody is lost and nobody has come.
LEMMA CleanupEffect ==
  ASSUME NEW heap \in Seq(Nodes)
  PROVE  TurnOK(heap, Len(heap) - Len(heap) \div 2, Cleanup(heap))
<1> DEFINE N == Len(heap) - Len(heap) \div 2
           first == [heap |-> heap, woken |-> <<>>, more |-> TRUE]
           turn[n \in 0..N] == IF n = 0 THEN first ELSE CleanupStep(turn[n - 1])
           S == [n \in 0..N |-> {x \in Turns : TurnOK(heap, n, x)}]
<1>1. N \in Nat
  BY LenProperties
<1>2. Cleanup(heap) = turn[N]
  BY DEF Cleanup
<1>3. PICK f : f = [n \in 0..N |-> IF n = 0 THEN first ELSE CleanupStep(f[n - 1])]
  BY CleanupLoop
<1>4. turn = [n \in 0..N |-> IF n = 0 THEN first ELSE CleanupStep(turn[n - 1])]
  BY <1>3
<1> HIDE DEF turn
<1>5. TurnOK(heap, 0, first)
  BY TurnFirst
<1>6. \A n \in 1..N : \A x : TurnOK(heap, n - 1, x) => TurnOK(heap, n, CleanupStep(x))
  BY TurnInLoop
<1> HIDE DEF N, first
<1>7. \A n \in 0..N : \A x : x \in S[n] <=> TurnOK(heap, n, x)
  BY DEF TurnOK
<1> HIDE DEF S
<1>8. turn[0] \in S[0]
  BY <1>1, <1>4, <1>5, <1>7
<1>9. ASSUME NEW n \in 1..N, turn[n - 1] \in S[n - 1] PROVE turn[n] \in S[n]
  <2>1. n \in 0..N /\ n - 1 \in 0..N /\ n # 0
    BY <1>1
  <2>2. turn[n] = CleanupStep(turn[n - 1])
    BY <1>4, <2>1
  <2>3. TurnOK(heap, n - 1, turn[n - 1])
    BY <1>7, <1>9, <2>1
  <2> QED
    BY <1>6, <1>7, <2>1, <2>2, <2>3
<1>10. \A n \in 0..N : turn[n] \in S[n]
  BY <1>1, <1>8, <1>9, LoopInvariant
<1>11. TurnOK(heap, N, turn[N])
  BY <1>1, <1>7, <1>10
<1> QED
  BY <1>2, <1>11 DEF N

-----------------------------------------------------------------------------
(* os_update: what it does to the run queue.                               *)

LEMMA WakeEffect ==
  ASSUME NEW k, QueueOK(k), NEW t \in Threads
  PROVE  Woke(k, Wake(k, t), {t})
<1> DEFINE a == os_add_task_mmang(k, t)
           s == [a.state EXCEPT ![t] = "ACTIVE"]
           j == [a EXCEPT !.state = s]
<1>1. /\ QueueOK(a)
      /\ \A u \in Threads :
           Linked(a.run_queue, u) <=> Linked(k.run_queue, u) \/ u = t
      /\ k.run_queue # <<>> => a.it = k.it
      /\ a.run_ptr = k.run_ptr
      /\ a.state = k.state
      /\ a.fixed_prio = k.fixed_prio
      /\ a.working_prio = k.working_prio
      /\ a.nest = k.nest
      /\ a.gie = k.gie
      /\ a.wdtifg = k.wdtifg
  BY AddAny
<1> HIDE DEF a
<1>2. a \in Kernels
  BY <1>1 DEF QueueOK
<1>3. Wake(k, t) = j
  BY <1>2 DEF Wake, a, Kernels
<1>4. a.state \in [Tasks -> ThreadStates]
  BY <1>2, KernelTypes
<1>5. /\ s \in [Tasks -> ThreadStates]
      /\ \A u \in Tasks : s[u] = IF u \in {t} THEN "ACTIVE" ELSE a.state[u]
  BY <1>4 DEF ThreadStates, Tasks
<1> HIDE DEF s
<1>6. j \in Kernels
  BY <1>2, <1>5, KernelUpdates
<1>7. /\ j.run_queue = a.run_queue /\ j.it = a.it
      /\ j.task_active_cnt = a.task_active_cnt /\ j.run_ptr = a.run_ptr
      /\ j.state = s /\ j.fixed_prio = a.fixed_prio
      /\ j.working_prio = a.working_prio /\ j.nest = a.nest
      /\ j.gie = a.gie /\ j.wdtifg = a.wdtifg
  BY <1>2 DEF Kernels
<1> HIDE DEF j
<1>8. QueueOK(j)
  BY <1>1, <1>6, <1>7 DEF QueueOK
<1>9. /\ \A u \in Threads :
           Linked(j.run_queue, u) <=> Linked(k.run_queue, u) \/ u \in {t}
      /\ k.run_queue # <<>> => j.it = k.it
  BY <1>1, <1>7
<1>10. \A u \in Tasks : j.state[u] = IF u \in {t} THEN "ACTIVE" ELSE k.state[u]
  BY <1>1, <1>5, <1>7
<1>11. Woke(k, j, {t})
  BY <1>1, <1>7, <1>8, <1>9, <1>10 DEF Woke
<1> QED
  BY <1>3, <1>11

LEMMA WokeMore ==
  ASSUME NEW k, QueueOK(k), NEW j, NEW W, Woke(k, j, W), NEW t \in Threads
  PROVE  Woke(k, Wake(j, t), W \cup {t})
<1>1. Woke(j, Wake(j, t), {t})
  BY WakeEffect DEF Woke
<1> QED
  BY <1>1, WokeAgain

LEMMA UpdateEffect ==
  ASSUME NEW k, QueueOK(k), NEW woken \in Seq(Threads)
  PROVE  Woke(k, os_update(k, woken), WokenOf(woken))
<1> DEFINE N == Len(woken)
           after[n \in 0..N] == IF n = 0 THEN k ELSE Wake(after[n - 1], woken[n])
           S == [n \in 0..N |-> {j \in Kernels : Woke(k, j, FirstOf(woken, n))}]
           G == [p \in (1..N) \X Kernels |-> Wake(p[2], woken[p[1]])]
<1>1. N \in Nat
  OBVIOUS
<1>2. os_update(k, woken) = after[N]
  BY DEF os_update
<1>3. Woke(k, k, FirstOf(woken, 0))
  <2>1. FirstOf(woken, 0) = {}
    BY DEF FirstOf
  <2> QED
    BY <2>1 DEF Woke
<1>4. ASSUME NEW n \in 1..N, NEW j, Woke(k, j, FirstOf(woken, n - 1))
      PROVE  Woke(k, Wake(j, woken[n]), FirstOf(woken, n))
  <2>1. woken[n] \in Threads
    OBVIOUS
  <2>2. FirstOf(woken, n) = FirstOf(woken, n - 1) \cup {woken[n]}
    BY FirstMore
  <2> QED
    BY <1>4, <2>1, <2>2, WokeMore
<1> HIDE DEF N
<1>5. \A n \in 0..N : \A j : j \in S[n] <=> Woke(k, j, FirstOf(woken, n))
  BY DEF Woke, QueueOK
<1>6. ASSUME NEW n \in 1..N, NEW j \in S[n - 1]
      PROVE  G[<<n, j>>] = Wake(j, woken[n]) /\ G[<<n, j>>] \in S[n]
  <2>1. n \in 0..N /\ n - 1 \in 0..N
    BY <1>1
  <2>2. j \in Kernels /\ Woke(k, j, FirstOf(woken, n - 1))
    BY <2>1
  <2>3. G[<<n, j>>] = Wake(j, woken[n])
    BY <2>2
  <2> QED
    BY <1>4, <1>5, <2>1, <2>2, <2>3
<1>7. k \in S[0]
  <2>1. 0 \in 0..N
    BY <1>1
  <2> QED
    BY <1>3, <1>5, <2>1
<1> HIDE DEF S, G
<1>8. PICK f : IsLoop(f, N, k, G) /\ \A n \in 0..N : f[n] \in S[n]
  <2> HIDE DEF after
  <2> QED
    BY <1>1, <1>6, <1>7, LoopFunction
<1>9. f = [n \in 0..N |-> IF n = 0 THEN k ELSE Wake(f[n - 1], woken[n])]
  <2> HIDE DEF after
  <2> DEFINE g == [n \in 0..N |-> IF n = 0 THEN k ELSE G[<<n, f[n - 1]>>]]
             h == [n \in 0..N |-> IF n = 0 THEN k ELSE Wake(f[n - 1], woken[n])]
  <2>1. ASSUME NEW n \in 0..N, n # 0 PROVE G[<<n, f[n - 1]>>] = Wake(f[n - 1], woken[n])
    <3>1. n \in 1..N /\ n - 1 \in 0..N
      BY <1>1, <2>1
    <3> QED
      BY <1>6, <1>8, <3>1
  <2>2. \A n \in 0..N : g[n] = h[n]
    BY <2>1
  <2>3. g = [n \in 0..N |-> g[n]] /\ h = [n \in 0..N |-> h[n]]
    OBVIOUS
  <2>4. f = g
    BY <1>8 DEF IsLoop
  <2> HIDE DEF g, h
  <2>5. g = h
    BY <2>2, <2>3
  <2> QED
    BY <2>4, <2>5 DEF h
<1>10. after = [n \in 0..N |-> IF n = 0 THEN k ELSE Wake(after[n - 1], woken[n])]
  BY <1>9
<1> HIDE DEF after
<1>11. after[0] \in S[0]
  BY <1>1, <1>7, <1>10
<1>12. ASSUME NEW n \in 1..N, after[n - 1] \in S[n - 1] PROVE after[n] \in S[n]
  <2>1. n \in 0..N /\ n # 0
    BY <1>1
  <2>2. after[n] = Wake(after[n - 1], woken[n])
    BY <1>10, <2>1
  <2> QED
    BY <1>6, <1>12, <2>2
<1>13. \A n \in 0..N : after[n] \in S[n]
  BY <1>1, <1>11, <1>12, LoopInvariant
<1>14. Woke(k, after[N], FirstOf(woken, N))
  BY <1>1, <1>5, <1>13
<1>15. FirstOf(woken, N) = WokenOf(woken)
  BY DEF FirstOf, WokenOf, N
<1> QED
  BY <1>2, <1>14, <1>15

-----------------------------------------------------------------------------
(* The tick.                                                               *)

\* What the scheduler needs to leave the iterator on the running thread: a
\* thread with more than one tick to its slice is on the queue, and under the
\* iterator.
Settled(k) ==
  /\ QueueOK(k)
  /\ PrioritiesOK(k)
  /\ k.fixed_prio[Idle] = 1
  /\ \A t \in Tasks : k.working_prio[t] <= k.fixed_prio[t]
  /\ k.run_ptr \in Threads /\ k.fixed_prio[k.run_ptr] # 1
       => Linked(k.run_queue, k.run_ptr) /\ k.it = k.run_ptr

\* j is k after the scheduler has run.
Scheduled(k, j) ==
  /\ QueueOK(j)
  /\ PrioritiesOK(j)
  /\ j.run_queue = k.run_queue
  /\ j.state = k.state
  /\ j.fixed_prio = k.fixed_prio
  /\ \A t \in Tasks : j.working_prio[t] <= j.fixed_prio[t]
  /\ j.nest = k.nest
  /\ j.run_ptr \in Threads => Linked(j.run_queue, j.run_ptr) /\ j.it = j.run_ptr

LEMMA TickSettled ==
  ASSUME NEW k, Settled(k)
  PROVE  /\ Scheduled(k, os_tick(k))
         /\ os_tick(k).gie = TRUE
<1> DEFINE j == os_tick(k)
           r == k.run_ptr
<1>1. /\ QueueOK(k) /\ r \in Tasks
      /\ k.fixed_prio \in [Tasks -> Nat] /\ k.working_prio \in [Tasks -> Nat]
      /\ \A t \in Tasks : /\ k.fixed_prio[t] > 0 /\ k.working_prio[t] > 0
                          /\ k.working_prio[t] <= k.fixed_prio[t]
  BY KernelTypes DEF Settled, QueueOK, PrioritiesOK
<1>2. Rescheduled(k, j) /\ j.gie = TRUE
  BY <1>1, TickEffect
<1> HIDE DEF j
<1>3. /\ QueueOK(j) /\ j.run_queue = k.run_queue /\ j.state = k.state
      /\ j.fixed_prio = k.fixed_prio /\ j.nest = k.nest
      /\ \A t \in Tasks : j.working_prio[t] =
           IF t = r THEN SliceLeft(k) ELSE k.working_prio[t]
  BY <1>2 DEF Rescheduled
<1>4. SliceLeft(k) > 0 /\ SliceLeft(k) <= k.fixed_prio[r]
  BY <1>1 DEF SliceLeft, SliceOver
<1>5. PrioritiesOK(j) /\ \A t \in Tasks : j.working_prio[t] <= j.fixed_prio[t]
  BY <1>1, <1>3, <1>4 DEF PrioritiesOK
<1>6. ASSUME j.run_ptr \in Threads
      PROVE  Linked(j.run_queue, j.run_ptr) /\ j.it = j.run_ptr
  <2>1. k.run_queue # <<>>
    BY <1>2, <1>6, KernelAssumption DEF Rescheduled
  <2>2. CASE SliceOver(k)
    BY <1>2, <2>1, <2>2 DEF Rescheduled
  <2>3. CASE ~SliceOver(k)
    <3>1. j.run_ptr = r /\ j.it = k.it
      BY <1>2, <2>1, <2>3 DEF Rescheduled
    <3>2. k.fixed_prio[r] # 1
      BY <1>1, <2>3 DEF SliceOver
    <3> QED
      BY <1>3, <1>6, <3>1, <3>2 DEF Settled
  <2> QED
    BY <2>2, <2>3
<1>7. Scheduled(k, j)
  BY <1>3, <1>5, <1>6 DEF Scheduled
<1> QED
  BY <1>2, <1>7 DEF j

-----------------------------------------------------------------------------
(* The inductive invariant of the run queue, action by action.             *)

LEMMA LFacts ==
  ASSUME LInv
  PROVE  /\ QueueOK(os)
         /\ os \in Kernels
         /\ os.run_queue \in Seq(Threads)
         /\ os.state \in [Tasks -> ThreadStates]
         /\ os.fixed_prio \in [Tasks -> Nat]
         /\ os.working_prio \in [Tasks -> Nat]
         /\ PrioritiesOK(os)
         /\ NestOK(os)
         /\ os.nest = 0
         /\ os.gie = TRUE
         /\ \A t \in Tasks : os.working_prio[t] <= os.fixed_prio[t]
<1>1. os \in Kernels
  BY DEF LInv, LTypeOK
<1>2. QueueOK(os)
  BY <1>1 DEF LInv, RunQueueIntact, IteratorValid, QueueOK, Distinct
<1>3. os.gie \in BOOLEAN
  BY <1>1, KernelTypes
<1>4. os.nest = 0 /\ os.gie = TRUE /\ NestOK(os)
  BY <1>3 DEF LInv, Preemptible, NestOK
<1>5. \A t \in Tasks : os.working_prio[t] <= os.fixed_prio[t]
  BY DEF LInv, SlicesOK
<1>6. PrioritiesOK(os)
  BY DEF LInv, LTypeOK
<1> QED
  BY <1>1, <1>2, <1>4, <1>5, <1>6, KernelTypes

\* A thread that executes is on the queue, under the iterator.
LEMMA Executing ==
  ASSUME LInv, NEW t \in Threads, CanRun(t)
  PROVE  /\ os.run_ptr = t
         /\ Linked(os.run_queue, t)
         /\ os.it = t
<1>1. os.run_ptr = t /\ ~os.wdtifg
  BY LFacts DEF CanRun
<1> QED
  BY <1>1 DEF LInv, RunnerOK

\* The parts of LInv that speak of the kernel alone.
LEMMA QueueIntact ==
  ASSUME QueueOK(os),
         \A t \in Threads : Linked(os.run_queue, t) /\ os.state[t] # "ACTIVE"
                              => os.state[t] = "SLEEPING" /\ pausing[t]
  PROVE  RunQueueIntact
BY Zenon DEF QueueOK, RunQueueIntact, IteratorValid, Distinct

LEMMA LInitInv ==
  ASSUME LInit
  PROVE  LInv
<1>1. KInv /\ \A t \in Threads : os.state[t] = "ACTIVE"
  BY KInitInv DEF LInit
<1>2. /\ os \in Kernels /\ RunQueueOK(os) /\ IteratorOK(os) /\ CpuOK(os)
      /\ PrioritiesOK(os) /\ Preemptible(os)
  BY <1>1 DEF KInv, KernelInv
<1>3. QueueOK(os)
  BY <1>2 DEF QueueOK, RunQueueOK, IteratorOK, Distinct
<1>4. \A t \in Tasks : os.state[t] = "ACTIVE"
  BY <1>1, <1>2 DEF CpuOK, Tasks
<1>5. \A t \in Threads : pausing[t] = FALSE
  BY DEF LInit
<1>6. LTypeOK
  <2>1. /\ sleep_queue = <<>>
        /\ pausing = [t \in Threads |-> FALSE]
        /\ owed = [t \in Threads |-> 0]
        /\ alone = [t \in Threads |-> TRUE]
    BY DEF LInit
  <2>2. 0 \in 0..MaxTicks
    BY SleepAssumption
  <2> QED
    BY <1>2, <2>1, <2>2 DEF LTypeOK
<1>7. RunQueueIntact
  BY <1>3, <1>4, QueueIntact DEF Tasks
<1>8. SlicesOK
  <2>1. /\ os.fixed_prio \in [Tasks -> 1..MaxPrio]
        /\ os.working_prio = os.fixed_prio
    BY KInitPrios DEF LInit
  <2>2. os.fixed_prio[Idle] = 1
    BY DEF LInit, KInit, os_first_task, os_change_task, created, Tasks
  <2>3. \A t \in Tasks : os.fixed_prio[t] \in Int
    BY <2>1
  <2> QED
    BY <2>1, <2>2, <2>3 DEF SlicesOK
<1>9. RunnerOK
  <2>1. ASSUME os.run_ptr \in Threads
        PROVE  Linked(os.run_queue, os.run_ptr) /\ os.it = os.run_ptr
    <3>1. os.state[os.run_ptr] = "ACTIVE"
      BY <1>1, <2>1
    <3> QED
      BY <1>2, <2>1, <3>1 DEF RunQueueOK, IteratorOK
  <2> QED
    BY <2>1 DEF RunnerOK
<1>10. StatesOK
  BY <1>4, <1>5 DEF StatesOK, Tasks
<1> QED
  BY <1>2, <1>6, <1>7, <1>8, <1>9, <1>10 DEF LInv

LEMMA SleepYieldInv ==
  ASSUME LInv, NEW t \in Threads, SleepYield(t)
  PROVE  LInv'
<1>1. /\ os' = os_task_yield(os)
      /\ UNCHANGED <<sleep_queue, pausing, owed, alone>>
  BY DEF SleepYield, TaskYield
<1>2. os \in Kernels
  BY LFacts
<1>3. /\ os' \in Kernels
      /\ os'.run_queue = os.run_queue /\ os'.it = os.it /\ os'.run_ptr = os.run_ptr
      /\ os'.task_active_cnt = os.task_active_cnt /\ os'.state = os.state
      /\ os'.fixed_prio = os.fixed_prio /\ os'.working_prio = os.working_prio
      /\ os'.nest = os.nest /\ os'.gie = os.gie /\ os'.wdtifg = TRUE
  <2>1. os_task_yield(os) \in Kernels
    BY <1>2, KernelUpdates DEF os_task_yield
  <2> QED
    BY <1>1, <1>2, <2>1 DEF os_task_yield, Kernels
<1>4. LTypeOK' /\ Preemptible(os')
  <2>1. PrioritiesOK(os')
    BY <1>3, LFacts, SamePriorities
  <2> QED
    BY <1>1, <1>3, <2>1 DEF LInv, LTypeOK, Preemptible
<1>5. RunQueueIntact'
  <2>1. (QueueOK(os))'
    BY <1>3, LFacts DEF QueueOK
  <2>2. \A u \in Threads : Linked(os'.run_queue, u) /\ os'.state[u] # "ACTIVE"
                            => os'.state[u] = "SLEEPING" /\ pausing'[u]
    BY <1>1, <1>3 DEF LInv, RunQueueIntact
  <2> QED
    BY <2>1, <2>2, Zenon DEF QueueOK, RunQueueIntact, IteratorValid, Distinct
<1>6. SlicesOK' /\ StatesOK'
  BY <1>1, <1>3 DEF LInv, SlicesOK, StatesOK
<1>7. RunnerOK'
  BY <1>3 DEF LInv, RunnerOK
<1> QED
  BY <1>4, <1>5, <1>6, <1>7 DEF LInv

LEMMA PauseInv ==
  ASSUME LInv, NEW t \in Threads, Pause(t)
  PROVE  LInv'
<1> DEFINE q == os.run_queue
<1>1. /\ CanRun(t) /\ pausing[t]
      /\ os' = os_task_pause(os, t)
      /\ pausing' = [pausing EXCEPT ![t] = FALSE]
      /\ UNCHANGED <<sleep_queue, owed, alone>>
  BY DEF Pause
<1>2. /\ QueueOK(os) /\ os \in Kernels /\ q \in Seq(Threads) /\ NestOK(os)
      /\ Distinct(q) /\ os.task_active_cnt = Len(q)
  BY LFacts DEF QueueOK
<1>3. os.run_ptr = t /\ Linked(q, t) /\ os.it = t
  BY <1>1, Executing
<1>4. q # <<>> /\ os.task_active_cnt # 0
  BY <1>2, <1>3, LinkedElements
<1>5. /\ os' \in Kernels
      /\ os'.run_queue = Unlink(q, t)
      /\ os'.it = PrevCircular(q, os.it)
      /\ os'.task_active_cnt = os.task_active_cnt - 1
      /\ os'.run_ptr = os.run_ptr
      /\ os'.state = os.state
      /\ os'.fixed_prio = os.fixed_prio
      /\ os'.working_prio = os.working_prio
      /\ os'.nest = os.nest
      /\ os'.gie = os.gie
      /\ os'.wdtifg = TRUE
  BY <1>1, <1>2, <1>3, <1>4, PauseEffect, Zenon
<1>6. /\ Unlink(q, t) \in Seq(Threads)
      /\ Len(Unlink(q, t)) = Len(q) - 1
      /\ Distinct(Unlink(q, t))
      /\ \A u \in Threads : Linked(Unlink(q, t), u) <=> Linked(q, u) /\ u # t
  BY <1>2, <1>3, UnlinkElements
<1>7. /\ pausing' \in [Threads -> BOOLEAN]
      /\ \A u \in Threads : pausing'[u] => pausing[u] /\ u # t
      /\ \A u \in Threads : u # t => pausing'[u] = pausing[u]
  BY <1>1 DEF LInv, LTypeOK
<1>8. LTypeOK'
  <2>1. PrioritiesOK(os')
    BY <1>5, LFacts, SamePriorities
  <2> QED
    BY <1>1, <1>5, <1>7, <2>1 DEF LInv, LTypeOK
<1>9. Preemptible(os')
  BY <1>5 DEF LInv, Preemptible
<1>10. QueueOK(os')
  <2>1. ASSUME os'.run_queue # <<>> PROVE Linked(os'.run_queue, os'.it)
    <3>1. Len(q) > 1
      BY <1>2, <1>5, <1>6, <2>1
    <3>2. /\ PrevCircular(q, t) \in Threads /\ Linked(q, PrevCircular(q, t))
          /\ PrevCircular(q, t) # t
      BY <1>2, <1>3, <1>4, <3>1, PrevOnQueue
    <3> QED
      BY <1>3, <1>5, <1>6, <3>2
  <2> QED
    BY <1>2, <1>5, <1>6, <2>1 DEF QueueOK
<1>11. ASSUME NEW u \in Threads, Linked(os'.run_queue, u), os'.state[u] # "ACTIVE"
       PROVE  os'.state[u] = "SLEEPING" /\ pausing'[u]
  <2>1. Linked(q, u) /\ u # t /\ os.state[u] # "ACTIVE"
    BY <1>5, <1>6, <1>11
  <2> QED
    BY <1>5, <1>7, <2>1 DEF LInv, RunQueueIntact
<1>12. RunQueueIntact'
  <2>1. (QueueOK(os))'
    BY <1>10 DEF QueueOK, Kernels
  <2> QED
    BY <1>11, <2>1, Zenon DEF QueueOK, RunQueueIntact, IteratorValid, Distinct
<1>13. SlicesOK'
  BY <1>5 DEF LInv, SlicesOK
<1>14. StatesOK'
  BY <1>5, <1>6, <1>7 DEF LInv, StatesOK
<1>15. RunnerOK'
  <2>1. os'.run_ptr = t /\ ~Linked(os'.run_queue, t)
    BY <1>3, <1>5, <1>6
  <2>2. os'.fixed_prio[t] = 1
    BY <1>1, <1>5 DEF LInv, StatesOK
  <2> QED
    BY <1>5, <2>1, <2>2 DEF RunnerOK
<1> QED
  BY <1>8, <1>9, <1>12, <1>13, <1>14, <1>15 DEF LInv

LEMMA DeadlineNode ==
  ASSUME NEW t \in Threads, NEW ticks \in 1..MaxTicks
  PROVE  /\ Deadline(t, ticks) \in Nodes
         /\ Deadline(t, ticks).data = t
         /\ Deadline(t, ticks).priority = ticks
<1>1. MaxTicks \in Nat /\ MaxTicks < WordSize \div 2
  BY SleepAssumption
<1>2. ticks \in 0..MaxTicks
  BY <1>1
<1>3. Signed(ticks) = ticks /\ ticks \in Int
  BY <1>2, Words
<1>4. Signed(ticks) \in -(WordSize \div 2)..(WordSize \div 2 - 1)
  BY <1>3, Words
<1>5. ticks \in 0..(WordSize - 1)
  BY <1>2, Words
<1> QED
  BY <1>3, <1>4, <1>5 DEF Deadline, Nodes, Deadlines

LEMMA FallAsleepInv ==
  ASSUME LInv, NEW t \in Threads, NEW ticks \in 1..MaxTicks,
         os.fixed_prio[t] = 1, FallAsleep(t, ticks)
  PROVE  LInv'
<1> DEFINE q == os.run_queue
<1>1. /\ CanRun(t)
      /\ os' = end_critical([start_critical(os) EXCEPT
                               !.state[t] = "SLEEPING",
                               !.working_prio[t] = os.fixed_prio[t]])
      /\ sleep_queue' = pqueue_push(sleep_queue, Deadline(t, ticks))
      /\ pausing' = [pausing EXCEPT ![t] = TRUE]
      /\ owed' = [owed EXCEPT ![t] = ticks]
      /\ alone' = [u \in Threads |-> IF u = t THEN Sleeping = {}
                                     ELSE alone[u] /\ u \notin Sleeping]
  BY DEF FallAsleep, InUserCode
<1>2. /\ QueueOK(os) /\ os \in Kernels /\ q \in Seq(Threads) /\ NestOK(os)
      /\ os.state \in [Tasks -> ThreadStates]
      /\ os.fixed_prio \in [Tasks -> Nat]
      /\ os.working_prio \in [Tasks -> Nat]
  BY LFacts
<1>3. os.run_ptr = t /\ Linked(q, t) /\ os.it = t
  BY <1>1, Executing
<1>4. /\ os' \in Kernels
      /\ os'.run_queue = q
      /\ os'.it = os.it
      /\ os'.task_active_cnt = os.task_active_cnt
      /\ os'.run_ptr = os.run_ptr
      /\ os'.state = [os.state EXCEPT ![t] = "SLEEPING"]
      /\ os'.fixed_prio = os.fixed_prio
      /\ os'.working_prio = [os.working_prio EXCEPT ![t] = os.fixed_prio[t]]
      /\ os'.nest = os.nest
      /\ os'.gie = os.gie
      /\ os'.wdtifg = os.wdtifg
  BY <1>1, <1>2, FallEffect, Zenon
<1>5. /\ pausing' \in [Threads -> BOOLEAN]
      /\ pausing'[t] = TRUE
      /\ \A u \in Threads : u # t => pausing'[u] = pausing[u]
  BY <1>1 DEF LInv, LTypeOK
<1>6. LTypeOK'
  <2>1. sleep_queue' \in Seq(Nodes)
    BY <1>1, DeadlineNode, PushTypes, SleepAssumption DEF LInv, LTypeOK
  <2>2. owed' \in [Threads -> 0..MaxTicks]
    <3>1. ticks \in 0..MaxTicks
      BY SleepAssumption
    <3> QED
      BY <1>1, <3>1 DEF LInv, LTypeOK
  <2>3. alone' \in [Threads -> BOOLEAN]
    <3>1. \A u \in Threads : alone[u] \in BOOLEAN
      BY DEF LInv, LTypeOK
    <3>2. ASSUME NEW u \in Threads
          PROVE  (IF u = t THEN Sleeping = {} ELSE alone[u] /\ u \notin Sleeping) \in BOOLEAN
      BY <3>1
    <3> QED
      BY <1>1, <3>2
  <2>4. PrioritiesOK(os')
    <3>1. \A u \in Tasks : os'.fixed_prio[u] > 0
      BY <1>4, LFacts DEF PrioritiesOK
    <3>2. ASSUME NEW u \in Tasks PROVE os'.working_prio[u] > 0
      BY <1>2, <1>4, LFacts DEF PrioritiesOK
    <3> QED
      BY <3>1, <3>2 DEF PrioritiesOK
  <2> QED
    BY <1>4, <1>5, <2>1, <2>2, <2>3, <2>4 DEF LTypeOK
<1>7. Preemptible(os')
  BY <1>4 DEF LInv, Preemptible
<1>8. \A u \in Tasks : os'.state[u] = IF u = t THEN "SLEEPING" ELSE os.state[u]
  BY <1>2, <1>4
<1>9. RunQueueIntact'
  <2>1. (QueueOK(os))'
    BY <1>2, <1>4 DEF QueueOK
  <2>2. ASSUME NEW u \in Threads, Linked(os'.run_queue, u), os'.state[u] # "ACTIVE"
        PROVE  os'.state[u] = "SLEEPING" /\ pausing'[u]
    <3>1. CASE u = t
      BY <1>5, <1>8, <3>1 DEF Tasks
    <3>2. CASE u # t
      BY <1>4, <1>5, <1>8, <2>2, <3>2 DEF LInv, RunQueueIntact, Tasks
    <3> QED
      BY <3>1, <3>2
  <2> QED
    BY <2>1, <2>2, Zenon DEF QueueOK, RunQueueIntact, IteratorValid, Distinct
<1>10. SlicesOK'
  <2>1. \A u \in Tasks : os.working_prio[u] <= os.fixed_prio[u]
    BY LFacts
  <2>2. \A u \in Tasks : os'.working_prio[u] <= os.fixed_prio[u]
    BY <1>2, <1>4, <2>1
  <2> QED
    BY <1>4, <2>2 DEF LInv, SlicesOK
<1>11. StatesOK'
  <2>1. t # Idle
    BY KernelAssumption
  <2>2. \A u \in Tasks : os'.state[u] \in {"ACTIVE", "SLEEPING"}
    BY <1>8 DEF LInv, StatesOK
  <2>3. os'.state[Idle] = "ACTIVE"
    BY <1>8, <2>1 DEF LInv, StatesOK, Tasks
  <2>4. ASSUME NEW u \in Threads, pausing'[u]
        PROVE  Linked(os'.run_queue, u) /\ os'.fixed_prio[u] = 1
    BY <1>3, <1>4, <1>5, <2>4 DEF LInv, StatesOK
  <2> QED
    BY <2>2, <2>3, <2>4 DEF StatesOK
<1>12. RunnerOK'
  BY <1>3, <1>4 DEF RunnerOK
<1> QED
  BY <1>6, <1>7, <1>9, <1>10, <1>11, <1>12 DEF LInv

\* What Update does, in one place.
LEMMA UpdateFacts ==
  ASSUME LInv, Update
  PROVE  LET x == Cleanup(sleep_queue)
         IN  /\ TurnOK(sleep_queue, Len(sleep_queue) - Len(sleep_queue) \div 2, x)
             /\ sleep_queue' = x.heap
             /\ QueueOK(os')
             /\ PrioritiesOK(os')
             /\ \A u \in Threads :
                  Linked(os'.run_queue, u) <=>
                    Linked(os.run_queue, u) \/ u \in WokenOf(x.woken)
             /\ \A u \in Tasks :
                  os'.state[u] = IF u \in WokenOf(x.woken) THEN "ACTIVE" ELSE os.state[u]
             /\ os'.fixed_prio = os.fixed_prio
             /\ \A u \in Tasks : os'.working_prio[u] <= os'.fixed_prio[u]
             /\ Preemptible(os')
             /\ os'.run_ptr \in Threads =>
                  Linked(os'.run_queue, os'.run_ptr) /\ os'.it = os'.run_ptr
<1> DEFINE x == Cleanup(sleep_queue)
           W == WokenOf(x.woken)
           k == os_update(os, x.woken)
<1>1. sleep_queue \in Seq(Nodes) /\ QueueOK(os)
  BY LFacts DEF LInv, LTypeOK
<1>2. os' = os_tick(k) /\ sleep_queue' = x.heap
  BY DEF Update
<1>3. TurnOK(sleep_queue, Len(sleep_queue) - Len(sleep_queue) \div 2, x)
  BY <1>1, CleanupEffect
<1>4. x.woken \in Seq(Threads)
  BY <1>3 DEF TurnOK, Turns
<1> HIDE DEF x
<1>5. Woke(os, k, W)
  BY <1>1, <1>4, UpdateEffect
<1> HIDE DEF k, W
<1>6. Settled(k)
  <2>1. ASSUME k.run_ptr \in Threads, k.fixed_prio[k.run_ptr] # 1
        PROVE  Linked(k.run_queue, k.run_ptr) /\ k.it = k.run_ptr
    <3>1. os.run_ptr \in Threads /\ os.fixed_prio[os.run_ptr] # 1
      BY <1>5, <2>1 DEF Woke
    <3>2. Linked(os.run_queue, os.run_ptr) /\ os.it = os.run_ptr
      BY <3>1 DEF LInv, RunnerOK
    <3>3. os.run_queue # <<>>
      BY <3>1, <3>2, LFacts, LinkedElements
    <3> QED
      BY <1>5, <3>1, <3>2, <3>3 DEF Woke
  <2>2. \A t \in Tasks : k.working_prio[t] <= k.fixed_prio[t]
    BY <1>5, LFacts DEF Woke
  <2>3. k.fixed_prio[Idle] = 1
    BY <1>5 DEF Woke, LInv, SlicesOK
  <2>4. PrioritiesOK(k)
    BY <1>5, LFacts, SamePriorities DEF Woke
  <2> QED
    BY <1>5, <2>1, <2>2, <2>3, <2>4 DEF Woke, Settled
<1>7. Scheduled(k, os') /\ os'.gie = TRUE
  BY <1>2, <1>6, TickSettled
<1>8. Preemptible(os')
  BY <1>5, <1>7, LFacts DEF Scheduled, Woke, Preemptible
<1>9. /\ \A u \in Threads : Linked(os'.run_queue, u) <=> Linked(os.run_queue, u) \/ u \in W
      /\ \A u \in Tasks : os'.state[u] = IF u \in W THEN "ACTIVE" ELSE os.state[u]
  BY <1>5, <1>7 DEF Scheduled, Woke
<1>10. /\ QueueOK(os')
       /\ PrioritiesOK(os')
       /\ os'.fixed_prio = os.fixed_prio
       /\ \A u \in Tasks : os'.working_prio[u] <= os'.fixed_prio[u]
       /\ os'.run_ptr \in Threads =>
            Linked(os'.run_queue, os'.run_ptr) /\ os'.it = os'.run_ptr
  BY <1>5, <1>7 DEF Scheduled, Woke
<1> QED
  BY <1>2, <1>3, <1>8, <1>9, <1>10 DEF x, W

LEMMA UpdateInv ==
  ASSUME LInv, Update
  PROVE  LInv'
<1> DEFINE x == Cleanup(sleep_queue)
           W == WokenOf(x.woken)
<1>1. /\ TurnOK(sleep_queue, Len(sleep_queue) - Len(sleep_queue) \div 2, x)
      /\ sleep_queue' = x.heap
      /\ QueueOK(os')
      /\ PrioritiesOK(os')
      /\ \A u \in Threads :
           Linked(os'.run_queue, u) <=> Linked(os.run_queue, u) \/ u \in W
      /\ \A u \in Tasks : os'.state[u] = IF u \in W THEN "ACTIVE" ELSE os.state[u]
      /\ os'.fixed_prio = os.fixed_prio
      /\ \A u \in Tasks : os'.working_prio[u] <= os'.fixed_prio[u]
      /\ Preemptible(os')
      /\ os'.run_ptr \in Threads =>
           Linked(os'.run_queue, os'.run_ptr) /\ os'.it = os'.run_ptr
  BY UpdateFacts
<1>2. /\ owed' = [t \in Threads |-> IF owed[t] = 0 THEN 0 ELSE owed[t] - 1]
      /\ UNCHANGED <<pausing, alone>>
  BY DEF Update
<1>3. W \subseteq Threads
  BY <1>1 DEF TurnOK, Turns, WokenOf
<1>4. sleep_queue' \in Seq(Nodes)
  BY <1>1 DEF TurnOK, Turns
<1> HIDE DEF x, W
<1>5. LTypeOK'
  <2>1. owed' \in [Threads -> 0..MaxTicks]
    BY <1>2, SleepAssumption DEF LInv, LTypeOK
  <2> QED
    BY <1>1, <1>2, <1>4, <2>1 DEF LInv, LTypeOK, QueueOK
<1>6. RunQueueIntact'
  <2>1. (QueueOK(os))'
    BY <1>1
  <2>2. ASSUME NEW u \in Threads, Linked(os'.run_queue, u), os'.state[u] # "ACTIVE"
        PROVE  os'.state[u] = "SLEEPING" /\ pausing'[u]
    <3>1. u \notin W /\ os.state[u] = os'.state[u] /\ Linked(os.run_queue, u)
      BY <1>1, <2>2 DEF Tasks
    <3> QED
      BY <1>2, <2>2, <3>1 DEF LInv, RunQueueIntact
  <2> QED
    BY <2>1, <2>2, Zenon DEF QueueOK, RunQueueIntact, IteratorValid, Distinct
<1>7. SlicesOK'
  BY <1>1 DEF LInv, SlicesOK
<1>8. RunnerOK'
  BY <1>1 DEF RunnerOK
<1>9. StatesOK'
  <2>1. Idle \notin W
    BY <1>3, KernelAssumption
  <2>2. \A u \in Tasks : os'.state[u] \in {"ACTIVE", "SLEEPING"}
    BY <1>1 DEF LInv, StatesOK
  <2>3. os'.state[Idle] = "ACTIVE"
    BY <1>1, <2>1 DEF LInv, StatesOK, Tasks
  <2>4. \A u \in Threads : pausing'[u] => Linked(os'.run_queue, u) /\ os'.fixed_prio[u] = 1
    BY <1>1, <1>2 DEF LInv, StatesOK
  <2> QED
    BY <2>2, <2>3, <2>4 DEF StatesOK
<1> QED
  BY <1>1, <1>5, <1>6, <1>7, <1>8, <1>9 DEF LInv

LEMMA LNextInv ==
  ASSUME LInv, [LNext]_lvars
  PROVE  LInv'
<1>1. CASE SleepTick
  BY <1>1, UpdateInv DEF SleepTick
<1>2. ASSUME NEW t \in Threads, SleepYield(t) PROVE LInv'
  BY <1>2, SleepYieldInv
<1>3. ASSUME NEW t \in Threads, Pause(t) PROVE LInv'
  BY <1>3, PauseInv
<1>4. ASSUME NEW t \in Threads, NEW ticks \in 1..MaxTicks,
             os.fixed_prio[t] = 1, FallAsleep(t, ticks)
      PROVE  LInv'
  BY <1>4, FallAsleepInv
<1>5. CASE UNCHANGED lvars
  BY <1>5 DEF lvars, LInv, LTypeOK, Preemptible, RunQueueIntact, IteratorValid,
              SlicesOK, RunnerOK, StatesOK, Sleeping
<1> QED
  BY <1>1, <1>2, <1>3, <1>4, <1>5 DEF LNext, Common

-----------------------------------------------------------------------------
(* Theorems.                                                               *)

\* As long as only threads with slices of one tick sleep: the run queue, its
\* iterator and the running thread agree through every thrd_sleep and every tick
\* (os.c:82-109, 231-240, 289-305).
THEOREM SleepInvariant == LSpec => []LInv
<1>1. LInit => LInv
  BY LInitInv
<1>2. LInv /\ [LNext]_lvars => LInv'
  BY LNextInv
<1> QED
  BY <1>1, <1>2, PTL DEF LSpec

\* As long as only threads with slices of one tick sleep: every variable has its
\* type, and no slice is ever zero (os.c:255-267, 289-299).
THEOREM SleepTypes == LSpec => []LTypeOK
<1>1. LInv => LTypeOK
  BY DEF LInv
<1> QED
  BY <1>1, SleepInvariant, PTL

\* A step of AnyNext in which whoever falls asleep has slices of one tick is one
\* of LNext.
LEMMA ShortSleepStep ==
  ASSUME LInv, [AnyNext]_lvars, [ShortSleep]_lvars
  PROVE  [LNext]_lvars
<1>1. CASE Common
  BY <1>1 DEF LNext
<1>2. ASSUME NEW t \in Threads, NEW ticks \in 1..MaxTicks, FallAsleep(t, ticks)
      PROVE  [LNext]_lvars
  <2>1. ~pausing[t] /\ pausing' = [pausing EXCEPT ![t] = TRUE]
    BY <1>2 DEF FallAsleep, InUserCode
  <2>2. pausing \in [Threads -> BOOLEAN]
    BY DEF LInv, LTypeOK
  <2>3. pausing'[t] /\ pausing' # pausing
    BY <2>1, <2>2
  <2>4. os.fixed_prio[t] = 1
    BY <2>1, <2>3 DEF ShortSleep, lvars
  <2> QED
    BY <1>2, <2>4 DEF LNext
<1> QED
  BY <1>1, <1>2 DEF AnyNext

\* Whoever may sleep: as long as all who do have slices of one tick, a tick
\* between the two halves of a thrd_sleep harms the run queue in no way.  Without
\* the hypothesis it does: main.c:84 and 98 sleep at priority 2, and the iterator
\* is lost (IteratorValid; os.c:289-305, 82-109).
THEOREM SleepKeepsRunQueue == AnySpec /\ ShortSleepers => []RunQueueIntact
<1>1. LInit => LInv
  BY LInitInv
<1>2. LInv /\ [AnyNext]_lvars /\ [ShortSleep]_lvars => LInv'
  BY ShortSleepStep, LNextInv
<1>3. LInv => RunQueueIntact
  BY DEF LInv
<1> QED
  BY <1>1, <1>2, <1>3, PTL DEF AnySpec, ShortSleepers

-----------------------------------------------------------------------------
(* The heap and the sleepers.  The heap must have room for every thread:   *)
(* one that is full drops the next sleeper (pqueue.h:58).                  *)

\* n places have n different values exactly if no two of them are equal.
LEMMA ValuesCounted ==
  ASSUME NEW n \in Nat, NEW f
  PROVE  LET V == {f[i] : i \in 1..n}
         IN  /\ IsFiniteSet(V)
             /\ Cardinality(V) \in Nat
             /\ Cardinality(V) <= n
             /\ Cardinality(V) = n <=> \A i, j \in 1..n : f[i] = f[j] => i = j
<1> DEFINE V == {f[i] : i \in 1..n}
           g == [i \in 1..n |-> f[i]]
<1>1. IsFiniteSet(1..n) /\ Cardinality(1..n) = n
  BY FS_Interval
<1>2. g \in Surjection(1..n, V)
  BY DEF Surjection
<1>3. g \in Injection(1..n, V) <=> \A i, j \in 1..n : f[i] = f[j] => i = j
  BY DEF Injection, IsInjective
<1> HIDE DEF g, V
<1>4. /\ IsFiniteSet(V)
      /\ Cardinality(V) <= n
      /\ Cardinality(V) = n <=> g \in Injection(1..n, V)
  BY <1>1, <1>2, FS_Surjection
<1>5. Cardinality(V) \in Nat
  BY <1>4, FS_CardinalityType
<1> QED
  BY <1>3, <1>4, <1>5 DEF V

\* No thread has two deadlines in the heap.
Once(heap) == \A i, j \in 1..Len(heap) : heap[i].data = heap[j].data => i = j

LEMMA DataCounted ==
  ASSUME NEW heap \in Seq(Nodes)
  PROVE  /\ IsFiniteSet(DataOf(heap))
         /\ Cardinality(DataOf(heap)) \in Nat
         /\ Cardinality(DataOf(heap)) <= Len(heap)
         /\ Cardinality(DataOf(heap)) = Len(heap) <=> Once(heap)
<1> DEFINE n == Len(heap)
           f == [i \in 1..n |-> heap[i].data]
<1>1. n \in Nat
  OBVIOUS
<1>2. DataOf(heap) = {f[i] : i \in 1..n}
  BY DEF DataOf
<1>3. Once(heap) <=> \A i, j \in 1..n : f[i] = f[j] => i = j
  BY DEF Once
<1> HIDE DEF f, n
<1>4. /\ IsFiniteSet({f[i] : i \in 1..n})
      /\ Cardinality({f[i] : i \in 1..n}) \in Nat
      /\ Cardinality({f[i] : i \in 1..n}) <= n
      /\ Cardinality({f[i] : i \in 1..n}) = n <=> \A i, j \in 1..n : f[i] = f[j] => i = j
  BY <1>1, ValuesCounted
<1> QED
  BY <1>2, <1>3, <1>4 DEF n

\* What leaves the heap has been in it once, so it is not in it any more.
LEMMA CleanupOnce ==
  ASSUME NEW heap \in Seq(Nodes), Once(heap), NEW n, NEW x, TurnOK(heap, n, x)
  PROVE  /\ Once(x.heap)
         /\ DataOf(x.heap) = DataOf(heap) \ WokenOf(x.woken)
<1> DEFINE D == DataOf(x.heap)
           W == WokenOf(x.woken)
           a == Len(x.heap)
           b == Len(x.woken)
           c == Len(heap)
<1>1. /\ x.heap \in Seq(Nodes) /\ x.woken \in Seq(Threads)
      /\ a + b = c
      /\ D \cup W = DataOf(heap)
  BY DEF TurnOK, Turns
<1>2. a \in Nat /\ b \in Nat /\ c \in Nat
  BY <1>1
<1>3. Cardinality(DataOf(heap)) = c
  BY DataCounted
<1>4. /\ IsFiniteSet(D) /\ Cardinality(D) \in Nat /\ Cardinality(D) <= a
      /\ Cardinality(D) = a <=> Once(x.heap)
  BY <1>1, DataCounted
<1>5. IsFiniteSet(W) /\ Cardinality(W) \in Nat /\ Cardinality(W) <= b
  <2> DEFINE f == x.woken
  <2>0. b \in Nat
    BY <1>2
  <2>1. W = {f[i] : i \in 1..b}
    BY DEF WokenOf
  <2> HIDE DEF f, W, b
  <2>2. /\ IsFiniteSet({f[i] : i \in 1..b})
        /\ Cardinality({f[i] : i \in 1..b}) \in Nat
        /\ Cardinality({f[i] : i \in 1..b}) <= b
        /\ Cardinality({f[i] : i \in 1..b}) = b <=> \A i, j \in 1..b : f[i] = f[j] => i = j
    BY <2>0, ValuesCounted
  <2> QED
    BY <2>1, <2>2
<1> HIDE DEF D, W, a, b, c
<1>6. /\ Cardinality(D \cup W) = Cardinality(D) + Cardinality(W) - Cardinality(D \cap W)
      /\ IsFiniteSet(D \cap W) /\ Cardinality(D \cap W) \in Nat
  BY <1>4, <1>5, FS_Union, FS_Intersection, FS_CardinalityType
<1>7. c = Cardinality(D) + Cardinality(W) - Cardinality(D \cap W)
  BY <1>1, <1>3, <1>6
<1>8. Cardinality(D) = a /\ Cardinality(D \cap W) = 0
  BY <1>1, <1>2, <1>4, <1>5, <1>6, <1>7
<1>9. D \cap W = {}
  BY <1>6, <1>8, FS_EmptySet
<1>10. D = DataOf(heap) \ W
  BY <1>1, <1>9
<1> QED
  BY <1>4, <1>8, <1>10 DEF D, W

\* The capacity that rules the dropped sleeper out.
Roomy == Cardinality(Threads) < NUM_THREADS

HInv == LInv /\ HeapHoldsTheSleepers

LEMMA HFacts ==
  ASSUME HInv
  PROVE  /\ LInv
         /\ sleep_queue \in Seq(Nodes)
         /\ Once(sleep_queue)
         /\ Sleeping = DataOf(sleep_queue)
         /\ \A t \in Threads : t \in DataOf(sleep_queue) <=> os.state[t] = "SLEEPING"
         /\ DataOf(sleep_queue) \subseteq Threads
<1>1. sleep_queue \in Seq(Nodes)
  BY DEF HInv, LInv, LTypeOK
<1>2. Sleeping = DataOf(sleep_queue)
  BY DEF Sleeping, DataOf
<1> QED
  BY <1>1, <1>2 DEF HInv, HeapHoldsTheSleepers, Once

\* The way back, for the next state as well.
LEMMA HeapHolds ==
  ASSUME Once(sleep_queue), DataOf(sleep_queue) \subseteq Threads,
         \A t \in Threads : t \in DataOf(sleep_queue) <=> os.state[t] = "SLEEPING"
  PROVE  HeapHoldsTheSleepers
<1>1. Sleeping = DataOf(sleep_queue)
  BY DEF Sleeping, DataOf
<1>2. Sleeping = {t \in Threads : os.state[t] = "SLEEPING"}
  BY <1>1
<1> QED
  BY <1>2 DEF HeapHoldsTheSleepers, Once

LEMMA SameHeap ==
  ASSUME HInv, LInv', sleep_queue' = sleep_queue, os'.state = os.state
  PROVE  HInv'
<1>1. Sleeping' = Sleeping
  BY DEF Sleeping
<1>2. HeapHoldsTheSleepers'
  BY <1>1 DEF HInv, HeapHoldsTheSleepers
<1> QED
  BY <1>2 DEF HInv

LEMMA FallAsleepHeap ==
  ASSUME Roomy, HInv, NEW t \in Threads, NEW ticks \in 1..MaxTicks, FallAsleep(t, ticks)
  PROVE  /\ t \notin DataOf(sleep_queue)
         /\ Len(sleep_queue) + 1 < NUM_THREADS
         /\ sleep_queue' \in Seq(Nodes)
         /\ Len(sleep_queue') = Len(sleep_queue) + 1
         /\ DataOf(sleep_queue') = DataOf(sleep_queue) \cup {t}
         /\ Once(sleep_queue')
         /\ os'.state = [os.state EXCEPT ![t] = "SLEEPING"]
<1> DEFINE D == DataOf(sleep_queue)
<1>1. /\ CanRun(t) /\ ~pausing[t]
      /\ os' = end_critical([start_critical(os) EXCEPT
                               !.state[t] = "SLEEPING",
                               !.working_prio[t] = os.fixed_prio[t]])
      /\ sleep_queue' = pqueue_push(sleep_queue, Deadline(t, ticks))
  BY DEF FallAsleep, InUserCode
<1>2. os.state[t] # "SLEEPING"
  <2>1. Linked(os.run_queue, t)
    BY <1>1, HFacts, Executing
  <2> QED
    BY <1>1, <2>1 DEF HInv, LInv, RunQueueIntact
<1>3. /\ sleep_queue \in Seq(Nodes) /\ Once(sleep_queue)
      /\ D \subseteq Threads /\ t \notin D
  BY <1>2, HFacts
<1>4. /\ IsFiniteSet(D) /\ Cardinality(D) = Len(sleep_queue)
      /\ Len(sleep_queue) \in Nat
  BY <1>3, DataCounted
<1> HIDE DEF D
<1>5. Len(sleep_queue) + 1 < NUM_THREADS
  <2>1. /\ Cardinality(D \cup {t}) = Len(sleep_queue) + 1
    BY <1>3, <1>4, FS_AddElement
  <2>2. /\ D \cup {t} \in SUBSET Threads
        /\ IsFiniteSet(Threads) /\ Cardinality(Threads) \in Nat
    BY <1>3, KernelAssumption, FS_CardinalityType
  <2>3. Cardinality(D \cup {t}) <= Cardinality(Threads)
    BY <2>2, FS_Subset
  <2> QED
    BY <1>4, <2>1, <2>2, <2>3, SleepAssumption DEF Roomy
<1>6. /\ sleep_queue' \in Seq(Nodes)
      /\ Len(sleep_queue') = Len(sleep_queue) + 1
      /\ DataOf(sleep_queue') = D \cup {t}
  <2>1. /\ Deadline(t, ticks) \in Nodes
        /\ Deadline(t, ticks).data = t
    BY DeadlineNode
  <2> DEFINE item == Deadline(t, ticks)
  <2> HIDE DEF item
  <2>2. item \in Nodes /\ item.data = t /\ sleep_queue' = pqueue_push(sleep_queue, item)
    BY <1>1, <2>1 DEF item
  <2>3. /\ pqueue_push(sleep_queue, item) \in Seq(Nodes)
        /\ Len(pqueue_push(sleep_queue, item)) = Len(sleep_queue) + 1
        /\ DataOf(pqueue_push(sleep_queue, item)) = DataOf(sleep_queue) \cup {item.data}
    BY <1>3, <1>5, <2>2, PushEffect, SleepAssumption
  <2> QED
    BY <2>2, <2>3 DEF D
<1>7. Once(sleep_queue')
  <2>1. Cardinality(DataOf(sleep_queue')) = Len(sleep_queue')
    <3>1. Cardinality(D \cup {t}) = Len(sleep_queue) + 1
      BY <1>3, <1>4, FS_AddElement
    <3> QED
      BY <1>6, <3>1
  <2> QED
    BY <1>6, <2>1, DataCounted
<1>8. os'.state = [os.state EXCEPT ![t] = "SLEEPING"]
  BY <1>1, HFacts, LFacts, FallEffect
<1> QED
  BY <1>3, <1>5, <1>6, <1>7, <1>8 DEF D

LEMMA UpdateHeap ==
  ASSUME HInv, Update
  PROVE  LET W == WokenOf(Cleanup(sleep_queue).woken)
         IN  /\ sleep_queue' = Cleanup(sleep_queue).heap
             /\ Once(sleep_queue')
             /\ DataOf(sleep_queue') = DataOf(sleep_queue) \ W
             /\ \A u \in Threads :
                  os'.state[u] = IF u \in W THEN "ACTIVE" ELSE os.state[u]
<1>1. LInv /\ sleep_queue \in Seq(Nodes) /\ Once(sleep_queue)
  BY HFacts
<1>2. LET x == Cleanup(sleep_queue)
      IN  /\ TurnOK(sleep_queue, Len(sleep_queue) - Len(sleep_queue) \div 2, x)
          /\ sleep_queue' = x.heap
          /\ \A u \in Tasks :
               os'.state[u] = IF u \in WokenOf(x.woken) THEN "ACTIVE" ELSE os.state[u]
  BY <1>1, UpdateFacts
<1> QED
  BY <1>1, <1>2, CleanupOnce DEF Tasks

LEMMA HNextInv ==
  ASSUME Roomy, HInv, [LNext]_lvars
  PROVE  HInv'
<1>1. LInv'
  BY HFacts, LNextInv
<1>2. CASE SleepTick
  <2> DEFINE W == WokenOf(Cleanup(sleep_queue).woken)
  <2>1. Update
    BY <1>2 DEF SleepTick
  <2>2. /\ Once(sleep_queue')
        /\ DataOf(sleep_queue') = DataOf(sleep_queue) \ W
        /\ \A u \in Threads : os'.state[u] = IF u \in W THEN "ACTIVE" ELSE os.state[u]
    BY <2>1, UpdateHeap
  <2> HIDE DEF W
  <2>3. /\ DataOf(sleep_queue') \subseteq Threads
        /\ \A u \in Threads : u \in DataOf(sleep_queue') <=> os'.state[u] = "SLEEPING"
    BY <2>2, HFacts
  <2>4. HeapHoldsTheSleepers'
    BY <2>2, <2>3, HeapHolds DEF HeapHoldsTheSleepers, Sleeping, DataOf, Once
  <2> QED
    BY <1>1, <2>4 DEF HInv
<1>3. ASSUME NEW t \in Threads, SleepYield(t) PROVE HInv'
  <2>1. os'.state = os.state /\ sleep_queue' = sleep_queue
    BY <1>3, HFacts, LFacts DEF SleepYield, TaskYield, os_task_yield, Kernels
  <2> QED
    BY <1>1, <2>1, SameHeap
<1>4. ASSUME NEW t \in Threads, Pause(t) PROVE HInv'
  <2>1. os' = os_task_pause(os, t) /\ CanRun(t) /\ sleep_queue' = sleep_queue
    BY <1>4 DEF Pause
  <2>2. Linked(os.run_queue, t) /\ QueueOK(os) /\ NestOK(os)
        /\ os.run_queue \in Seq(Threads)
    BY <2>1, HFacts, Executing, LFacts
  <2>3. /\ os \in Kernels /\ Distinct(os.run_queue) /\ os.run_queue # <<>>
        /\ Linked(os.run_queue, os.it) /\ os.task_active_cnt # 0
    BY <2>2, LinkedElements DEF QueueOK
  <2>4. os'.state = os.state
    BY <2>1, <2>2, <2>3, PauseEffect
  <2> QED
    BY <1>1, <2>1, <2>4, SameHeap
<1>5. ASSUME NEW t \in Threads, NEW ticks \in 1..MaxTicks, FallAsleep(t, ticks)
      PROVE  HInv'
  <2>1. /\ DataOf(sleep_queue') = DataOf(sleep_queue) \cup {t}
        /\ Once(sleep_queue')
        /\ os'.state = [os.state EXCEPT ![t] = "SLEEPING"]
    BY <1>5, FallAsleepHeap
  <2>2. os.state \in [Tasks -> ThreadStates]
    BY HFacts, LFacts
  <2>3. /\ DataOf(sleep_queue') \subseteq Threads
        /\ \A u \in Threads : u \in DataOf(sleep_queue') <=> os'.state[u] = "SLEEPING"
    BY <2>1, <2>2, HFacts DEF Tasks
  <2>4. HeapHoldsTheSleepers'
    BY <2>1, <2>3, HeapHolds DEF HeapHoldsTheSleepers, Sleeping, DataOf, Once
  <2> QED
    BY <1>1, <2>4 DEF HInv
<1>6. CASE UNCHANGED lvars
  BY <1>1, <1>6, SameHeap DEF lvars
<1> QED
  BY <1>2, <1>3, <1>4, <1>5, <1>6 DEF LNext, Common

LEMMA HInitInv ==
  ASSUME LInit
  PROVE  HInv
<1>1. LInv
  BY LInitInv
<1>2. sleep_queue = <<>> /\ \A t \in Threads : os.state[t] = "ACTIVE"
  BY KInitInv DEF LInit
<1>3. DataOf(sleep_queue) = {} /\ Once(sleep_queue)
  BY <1>2 DEF DataOf, Once
<1> QED
  BY <1>1, <1>2, <1>3, HeapHolds DEF HInv

\* With room for every thread, the heap holds each sleeper once and nobody
\* else: no pop and no push loses or doubles a deadline (pqueue.h:55-100).
THEOREM SleepersHeld == ASSUME Roomy PROVE LSpec => []HeapHoldsTheSleepers
<1>1. LInit => HInv
  BY HInitInv
<1>2. HInv /\ [LNext]_lvars => HInv'
  BY HNextInv
<1>3. HInv => HeapHoldsTheSleepers
  BY DEF HInv
<1> QED
  BY <1>1, <1>2, <1>3, PTL DEF LSpec

-----------------------------------------------------------------------------
(* A thread that sleeps alone.                                             *)

\* One deadline: the loop makes one turn.
LEMMA CleanupOfOne ==
  ASSUME NEW heap \in Seq(Nodes), Len(heap) = 1
  PROVE  Cleanup(heap) = CleanupStep([heap |-> heap, woken |-> <<>>, more |-> TRUE])
<1> DEFINE N == Len(heap) - Len(heap) \div 2
           first == [heap |-> heap, woken |-> <<>>, more |-> TRUE]
           turn[n \in 0..N] == IF n = 0 THEN first ELSE CleanupStep(turn[n - 1])
<1>1. N = 1
  OBVIOUS
<1>2. Cleanup(heap) = turn[N]
  BY DEF Cleanup
<1>3. PICK f : f = [n \in 0..N |-> IF n = 0 THEN first ELSE CleanupStep(f[n - 1])]
  BY CleanupLoop
<1>4. turn = [n \in 0..N |-> IF n = 0 THEN first ELSE CleanupStep(turn[n - 1])]
  BY <1>3
<1> HIDE DEF turn, first, N
<1>5. turn[0] = first /\ turn[1] = CleanupStep(turn[0])
  BY <1>1, <1>4
<1> QED
  BY <1>1, <1>2, <1>5 DEF first

\* The deadline is counted down, and passes when it reaches 0.
LEMMA CleanupAlone ==
  ASSUME NEW heap \in Seq(Nodes), Len(heap) = 1,
         NEW p \in 1..MaxTicks, heap[1].priority = p
  PROVE  LET x == Cleanup(heap)
         IN  /\ p = 1 => x.heap = <<>>
             /\ p > 1 => /\ Len(x.heap) = 1
                         /\ x.heap[1].data = heap[1].data
                         /\ x.heap[1].priority = p - 1
<1> DEFINE first == [heap |-> heap, woken |-> <<>>, more |-> TRUE]
           c == CountDown(heap)
<1>1. Cleanup(heap) = CleanupStep(first)
  BY CleanupOfOne
<1>2. /\ c \in Seq(Nodes) /\ Len(c) = 1
      /\ c[1].data = heap[1].data
      /\ c[1].priority = Signed(p - 1)
  <2>1. Len(heap) > 0
    OBVIOUS
  <2>2. /\ c \in Seq(Nodes) /\ Len(c) = Len(heap)
        /\ c[1].data = heap[1].data
        /\ c[1].priority = Signed(heap[1].priority - 1)
    BY <2>1, Words, CountDownEffect DEF Nodes
  <2> QED
    BY <2>2
<1>3. Signed(p - 1) = p - 1
  <2>1. MaxTicks \in Nat
    BY SleepAssumption
  <2>2. p - 1 \in 0..MaxTicks
    BY <2>1
  <2> QED
    BY <2>2, Words
<1>4. Expired(heap) <=> p = 1
  <2>1. Expired(heap) <=> c[1].priority <= 0
    BY DEF Expired
  <2> QED
    BY <1>2, <1>3, <2>1
<1>5. ASSUME p = 1 PROVE Cleanup(heap).heap = <<>>
  <2>1. CleanupStep(first).heap = NextDeadline(pqueue_pop(c), heap[1].ticks)
    BY <1>4, <1>5 DEF CleanupStep
  <2> HIDE DEF c
  <2>2. pqueue_pop(c) \in Seq(Nodes) /\ Len(pqueue_pop(c)) = 0
    <3>1. c \in Seq(Nodes) /\ Len(c) = 1 /\ Len(c) > 0
      BY <1>2 DEF c
    <3>2. pqueue_pop(c) \in Seq(Nodes) /\ Len(pqueue_pop(c)) = Len(c) - 1
      BY <3>1, PopEffect
    <3> QED
      BY <3>1, <3>2
  <2>3. pqueue_pop(c) = <<>>
    BY <2>2, EmptySeq
  <2> QED
    BY <1>1, <2>1, <2>3 DEF NextDeadline
<1>6. ASSUME p > 1 PROVE Cleanup(heap).heap = c
  <2>1. ~Expired(heap)
    BY <1>4, <1>6
  <2> HIDE DEF c
  <2>2. CleanupStep(first) = [first EXCEPT !.heap = c, !.more = FALSE]
    BY <2>1 DEF CleanupStep, c
  <2> QED
    BY <1>1, <2>2
<1> HIDE DEF c
<1> QED
  BY <1>2, <1>3, <1>5, <1>6

\* A push into the empty heap.
LEMMA PushFirst ==
  ASSUME NEW item, NUM_THREADS > 1
  PROVE  pqueue_push(<<>>, item)[1] = item
<1>1. Len(<<>>) = 0 /\ NUM_THREADS \in Nat
  BY SleepAssumption
<1> DEFINE M == MovesDown(<<>>, item.ticks)
<1>2. 1 \in M /\ M \subseteq 1..1
  BY <1>1, MovesDownPlaces
<1> HIDE DEF M
<1>3. pqueue_push(<<>>, item) =
        [i \in 1..1 |-> IF i \notin M THEN <<>>[i]
                        ELSE IF i \div 2 \in M THEN <<>>[i \div 2] ELSE item]
  BY <1>1 DEF pqueue_push, M
<1>4. 1 \div 2 \notin M
  BY <1>2
<1> QED
  BY <1>2, <1>3, <1>4

PInv == HInv /\ AloneInv

LEMMA PFacts ==
  ASSUME PInv
  PROVE  /\ HInv
         /\ \A t \in Threads : owed[t] \in 0..MaxTicks
         /\ \A t \in Threads : alone[t] \in BOOLEAN
         /\ \A t \in Threads : alone[t] =>
              IF t \in DataOf(sleep_queue)
              THEN /\ Len(sleep_queue) = 1
                   /\ sleep_queue[1].priority = owed[t]
                   /\ owed[t] > 0
              ELSE owed[t] = 0
<1>1. Sleeping = DataOf(sleep_queue)
  BY DEF Sleeping, DataOf
<1>2. HInv /\ LTypeOK
  BY DEF PInv, HInv, LInv
<1> QED
  BY <1>1, <1>2, Zenon DEF PInv, AloneInv, LTypeOK

LEMMA SameAlone ==
  ASSUME PInv, HInv', UNCHANGED <<sleep_queue, owed, alone>>
  PROVE  PInv'
<1>1. Sleeping' = Sleeping
  BY DEF Sleeping
<1> QED
  BY <1>1 DEF PInv, AloneInv

LEMMA UpdateAlone ==
  ASSUME PInv, Update, HInv', NEW t \in Threads, alone'[t]
  PROVE  IF t \in DataOf(sleep_queue')
         THEN /\ Len(sleep_queue') = 1
              /\ sleep_queue'[1].priority = owed'[t]
              /\ owed'[t] > 0
         ELSE owed'[t] = 0
<1> DEFINE x == Cleanup(sleep_queue)
<1>1. /\ owed' = [u \in Threads |-> IF owed[u] = 0 THEN 0 ELSE owed[u] - 1]
      /\ alone' = alone
  BY DEF Update
<1>2. HInv /\ sleep_queue \in Seq(Nodes) /\ owed[t] \in 0..MaxTicks /\ MaxTicks \in Nat
  BY PFacts, HFacts, SleepAssumption
<1>3. sleep_queue' = x.heap /\ DataOf(sleep_queue') \subseteq DataOf(sleep_queue)
  BY <1>2, UpdateHeap
<1>4. CASE t \notin DataOf(sleep_queue)
  BY <1>1, <1>3, <1>4, PFacts
<1>5. CASE t \in DataOf(sleep_queue)
  <2>1. /\ Len(sleep_queue) = 1
        /\ sleep_queue[1].priority = owed[t]
        /\ owed[t] > 0
    BY <1>1, <1>5, PFacts
  <2>2. owed[t] \in 1..MaxTicks /\ owed'[t] = owed[t] - 1
    BY <1>1, <1>2, <2>1
  <2>3. /\ owed[t] = 1 => sleep_queue' = <<>>
        /\ owed[t] > 1 => /\ Len(sleep_queue') = 1
                          /\ sleep_queue'[1].data = sleep_queue[1].data
                          /\ sleep_queue'[1].priority = owed[t] - 1
    BY <1>2, <1>3, <2>1, <2>2, CleanupAlone
  <2>4. CASE owed[t] = 1
    <3>1. DataOf(sleep_queue') = {}
      BY <2>3, <2>4 DEF DataOf
    <3> QED
      BY <2>2, <2>4, <3>1
  <2>5. CASE owed[t] > 1
    <3>1. DataOf(sleep_queue) = {sleep_queue[1].data}
      BY <2>1 DEF DataOf
    <3>2. DataOf(sleep_queue') = {sleep_queue'[1].data}
      BY <2>3, <2>5 DEF DataOf
    <3>3. t \in DataOf(sleep_queue')
      BY <1>5, <2>3, <2>5, <3>1, <3>2
    <3>4. owed'[t] > 0
      BY <1>2, <2>2, <2>5
    <3> QED
      BY <2>2, <2>3, <2>5, <3>3, <3>4
  <2> QED
    BY <1>2, <2>2, <2>4, <2>5
<1> QED
  BY <1>4, <1>5

LEMMA FallAsleepAlone ==
  ASSUME Roomy, PInv, NEW t \in Threads, NEW ticks \in 1..MaxTicks, FallAsleep(t, ticks),
         NEW u \in Threads, alone'[u]
  PROVE  IF u \in DataOf(sleep_queue')
         THEN /\ Len(sleep_queue') = 1
              /\ sleep_queue'[1].priority = owed'[u]
              /\ owed'[u] > 0
         ELSE owed'[u] = 0
<1>1. /\ sleep_queue' = pqueue_push(sleep_queue, Deadline(t, ticks))
      /\ owed' = [owed EXCEPT ![t] = ticks]
      /\ alone' = [v \in Threads |-> IF v = t THEN Sleeping = {}
                                     ELSE alone[v] /\ v \notin Sleeping]
  BY DEF FallAsleep
<1>2. /\ HInv /\ LTypeOK /\ Sleeping = DataOf(sleep_queue)
      /\ sleep_queue \in Seq(Nodes)
  BY PFacts, HFacts DEF LInv
<1>3. /\ Len(sleep_queue) + 1 < NUM_THREADS
      /\ Len(sleep_queue') = Len(sleep_queue) + 1
      /\ DataOf(sleep_queue') = DataOf(sleep_queue) \cup {t}
  BY <1>2, FallAsleepHeap
<1>4. owed'[t] = ticks /\ \A v \in Threads : v # t => owed'[v] = owed[v]
  BY <1>1, <1>2 DEF LTypeOK
<1>5. CASE u = t
  <2>1. DataOf(sleep_queue) = {}
    BY <1>1, <1>2, <1>5
  <2>2. sleep_queue = <<>>
    <3>1. Len(sleep_queue) = 0
      <4>1. Len(sleep_queue) \in Nat
        BY <1>2
      <4>2. Len(sleep_queue) > 0 => sleep_queue[1].data \in DataOf(sleep_queue)
        BY <4>1 DEF DataOf
      <4> QED
        BY <2>1, <4>1, <4>2
    <3> QED
      BY <1>2, <3>1, EmptySeq
  <2>3. NUM_THREADS > 1 /\ Len(sleep_queue') = 1
    BY <1>3, <2>2, SleepAssumption
  <2>4. sleep_queue'[1] = Deadline(t, ticks)
    BY <1>1, <2>2, <2>3, PushFirst
  <2>5. sleep_queue'[1].priority = ticks
    BY <2>4, DeadlineNode
  <2>6. ticks > 0
    BY SleepAssumption
  <2> QED
    BY <1>3, <1>4, <1>5, <2>3, <2>5, <2>6
<1>6. CASE u # t
  <2>1. alone[u] /\ u \notin DataOf(sleep_queue)
    BY <1>1, <1>2, <1>6
  <2>2. owed[u] = 0
    BY <2>1, PFacts
  <2> QED
    BY <1>3, <1>4, <1>6, <2>1, <2>2
<1> QED
  BY <1>5, <1>6

LEMMA PNextInv ==
  ASSUME Roomy, PInv, [LNext]_lvars
  PROVE  PInv'
<1>1. HInv /\ HInv'
  BY PFacts, HNextInv
<1>2. Sleeping' = DataOf(sleep_queue')
  BY DEF Sleeping, DataOf
<1>3. ASSUME \A t \in Threads : alone'[t] =>
               IF t \in DataOf(sleep_queue')
               THEN /\ Len(sleep_queue') = 1
                    /\ sleep_queue'[1].priority = owed'[t]
                    /\ owed'[t] > 0
               ELSE owed'[t] = 0
      PROVE  PInv'
  BY <1>1, <1>2, <1>3, Zenon DEF PInv, AloneInv
<1>4. CASE SleepTick
  BY <1>1, <1>3, <1>4, UpdateAlone DEF SleepTick
<1>5. ASSUME NEW t \in Threads, SleepYield(t) \/ Pause(t) PROVE PInv'
  BY <1>1, <1>5, SameAlone DEF SleepYield, Pause
<1>6. ASSUME NEW t \in Threads, NEW ticks \in 1..MaxTicks, FallAsleep(t, ticks)
      PROVE  PInv'
  BY <1>3, <1>6, FallAsleepAlone
<1>7. CASE UNCHANGED lvars
  BY <1>1, <1>7, SameAlone DEF lvars
<1> QED
  BY <1>4, <1>5, <1>6, <1>7 DEF LNext, Common

\* With room for every thread, a thread that has the sleep queue to itself
\* wakes in the very tick it asked for (os.c:231, 299).
THEOREM SleepsPunctually == ASSUME Roomy PROVE LSpec => []PunctualAlone
<1>1. LInit => PInv
  <2>1. ASSUME LInit PROVE PInv
    <3>1. HInv
      BY <2>1, HInitInv
    <3>2. AloneInv
      <4>1. Sleeping = {}
        BY <2>1 DEF LInit, Sleeping
      <4> QED
        BY <2>1, <4>1 DEF LInit, AloneInv
    <3> QED
      BY <3>1, <3>2 DEF PInv
  <2> QED
    BY <2>1
<1>2. PInv /\ [LNext]_lvars => PInv'
  BY PNextInv
<1>3. PInv => PunctualAlone
  <2>1. ASSUME PInv, NEW t \in Threads, alone[t]
        PROVE  os.state[t] = "SLEEPING" <=> owed[t] > 0
    <3>1. t \in DataOf(sleep_queue) <=> os.state[t] = "SLEEPING"
      BY <2>1, PFacts, HFacts
    <3>2. owed[t] \in Nat
      BY <2>1, PFacts, SleepAssumption
    <3> QED
      BY <2>1, <3>1, <3>2, PFacts
  <2> QED
    BY <2>1 DEF PunctualAlone
<1> QED
  BY <1>1, <1>2, <1>3, PTL DEF LSpec
=============================================================================
