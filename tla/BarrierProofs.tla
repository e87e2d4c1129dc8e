---------------------------- MODULE BarrierProofs ----------------------------
(***************************************************************************)
(* Theorems about Barrier, for any number of threads.                      *)
(***************************************************************************)
EXTENDS Barrier, FiniteSetTheorems, TLAPS

-----------------------------------------------------------------------------
(* Counting threads.                                                       *)

LEMMA ThreadSets ==
  /\ val \in Nat /\ val >= 1
  /\ \A S \in SUBSET Threads :
       /\ IsFiniteSet(S)
       /\ Cardinality(S) \in Nat /\ Cardinality(S) <= val
       /\ Cardinality(S) = val <=> S = Threads
       /\ Cardinality(S) = 0 <=> S = {}
<1>1. ASSUME NEW S \in SUBSET Threads
      PROVE  /\ IsFiniteSet(S)
             /\ Cardinality(S) \in Nat /\ Cardinality(S) <= val
             /\ Cardinality(S) = val <=> S = Threads
             /\ Cardinality(S) = 0 <=> S = {}
  <2>1. /\ IsFiniteSet(S) /\ Cardinality(S) <= val
        /\ Cardinality(S) = val <=> S = Threads
    BY BarrierAssumption, FS_Subset DEF val
  <2>2. Cardinality(S) \in Nat /\ (Cardinality(S) = 0 <=> S = {})
    BY <2>1, FS_CardinalityType, FS_EmptySet
  <2>3. QED BY <2>1, <2>2
<1>2. val \in Nat /\ val # 0
  BY BarrierAssumption, FS_CardinalityType, FS_EmptySet DEF val
<1>3. QED BY <1>1, <1>2

LEMMA AddThread ==
  ASSUME NEW S \in SUBSET Threads, NEW t \in Threads, t \notin S
  PROVE  Cardinality(S \cup {t}) = Cardinality(S) + 1
BY ThreadSets, FS_AddElement

LEMMA RemoveThread ==
  ASSUME NEW S \in SUBSET Threads, NEW t \in S
  PROVE  Cardinality(S \ {t}) = Cardinality(S) - 1
BY ThreadSets, FS_RemoveElement

-----------------------------------------------------------------------------
(* Where the threads are.                                                  *)

Places == {Outside} \cup ((1..2) \X {"enter", "count", "open", "leave", "pass"})

\* The types without the bounds.
Shape ==
  /\ tokens \in [Semaphores -> Nat]
  /\ queue \in [Semaphores -> Seq(Threads)]
  /\ granted \in [Semaphores -> SUBSET Threads]
  /\ at \in [Threads -> Places]
  /\ posts \in [Threads -> Nat]

LEMMA InvShape == ASSUME BInv PROVE Shape
<1>1. 0..val \subseteq Nat
  BY ThreadSets
<1>2. QED BY <1>1 DEF BInv, BTypeOK, Shape, Places

LEMMA PlaceCases ==
  ASSUME NEW v \in Places
  PROVE  \/ v = Outside
         \/ \E phase \in 1..2 : \/ v = <<phase, "enter">>
                                \/ v = <<phase, "count">>
                                \/ v = <<phase, "open">>
                                \/ v = <<phase, "leave">>
                                \/ v = <<phase, "pass">>
BY DEF Places

CountedAt(phase, v) == v \in {<<phase, "open">>, <<phase, "leave">>, <<phase, "pass">>}
ComingAt(v) == v \in {Outside, <<1, "enter">>, <<1, "count">>}
BetweenAt(v) == v \in {<<2, "enter">>, <<2, "count">>}
InsideAt(v) == v[2] \in {"count", "open", "leave"}
OpenerAt(phase, v) == v = <<phase, "open">>

\* A set of threads after the move of one.
Moved(S, t, member) == IF member THEN S \cup {t} ELSE S \ {t}

LEMMA Move ==
  ASSUME Shape, NEW t \in Threads, NEW v \in Places, at' = [at EXCEPT ![t] = v]
  PROVE  /\ at' \in [Threads -> Places]
         /\ at'[t] = v
         /\ \A u \in Threads \ {t} : at'[u] = at[u]
         /\ \A phase \in 1..2 : Counted(phase)' = Moved(Counted(phase), t, CountedAt(phase, v))
         /\ \A phase \in 1..2 : Openers(phase)' = Moved(Openers(phase), t, OpenerAt(phase, v))
         /\ Coming' = Moved(Coming, t, ComingAt(v))
         /\ Between' = Moved(Between, t, BetweenAt(v))
         /\ Inside' = Moved(Inside, t, InsideAt(v))
<1>1. /\ at' \in [Threads -> Places]
      /\ at'[t] = v
      /\ \A u \in Threads \ {t} : at'[u] = at[u]
  BY DEF Shape
<1>2. ASSUME NEW phase \in 1..2
      PROVE  /\ Counted(phase)' = Moved(Counted(phase), t, CountedAt(phase, v))
             /\ Openers(phase)' = Moved(Openers(phase), t, OpenerAt(phase, v))
  <2>1. Counted(phase)' = Moved(Counted(phase), t, CountedAt(phase, v))
    BY <1>1 DEF Counted, Moved, CountedAt
  <2>2. Openers(phase)' = Moved(Openers(phase), t, OpenerAt(phase, v))
    BY <1>1 DEF Openers, Moved, OpenerAt
  <2>3. QED BY <2>1, <2>2
<1>3. Coming' = Moved(Coming, t, ComingAt(v))
  BY <1>1 DEF Coming, Moved, ComingAt
<1>4. Between' = Moved(Between, t, BetweenAt(v))
  BY <1>1 DEF Between, Moved, BetweenAt
<1>5. Inside' = Moved(Inside, t, InsideAt(v))
  BY <1>1 DEF Inside, Moved, InsideAt
<1>6. QED BY <1>1, <1>2, <1>3, <1>4, <1>5

LEMMA Member ==
  ASSUME NEW t \in Threads
  PROVE  /\ \A phase \in 1..2 : t \in Counted(phase) <=> CountedAt(phase, at[t])
         /\ \A phase \in 1..2 : t \in Openers(phase) <=> OpenerAt(phase, at[t])
         /\ t \in Coming <=> ComingAt(at[t])
         /\ t \in Between <=> BetweenAt(at[t])
         /\ t \in Inside <=> InsideAt(at[t])
BY DEF Counted, Openers, Coming, Between, Inside,
       CountedAt, OpenerAt, ComingAt, BetweenAt, InsideAt

\* Every thread is in one part of the round.
LEMMA Parts ==
  ASSUME Shape, NEW t \in Threads
  PROVE  t \in Coming \/ t \in Between \/ t \in Counted(1) \/ t \in Counted(2)
BY PlaceCases DEF Shape, Counted, Coming, Between

LEMMA PartsAreSets ==
  /\ \A phase : Counted(phase) \in SUBSET Threads
  /\ \A phase : Openers(phase) \in SUBSET Threads
  /\ Coming \in SUBSET Threads /\ Between \in SUBSET Threads /\ Inside \in SUBSET Threads
  /\ Counted(1) \cap Between = {} /\ Counted(1) \cap Counted(2) = {}
  /\ Counted(2) \cap Between = {} /\ Coming \cap Between = {}
  /\ \A phase \in 1..2 : Coming \cap Counted(phase) = {}
  /\ \A phase : Openers(phase) \subseteq Counted(phase)
  /\ \A phase : Openers(phase) \subseteq Inside
BY DEF Outside, Counted, Openers, Coming, Between, Inside

LEMMA TurnstileNames ==
  /\ Turnstile(1) = "turnstile1" /\ Turnstile(2) = "turnstile2"
  /\ \A phase \in 1..2 : Turnstile(phase) \in Semaphores /\ Turnstile(phase) # "mutex"
  /\ \A phase, other \in 1..2 : Turnstile(phase) = Turnstile(other) => phase = other
  /\ \A s \in Semaphores : s # "mutex" => \E phase \in 1..2 : s = Turnstile(phase)
BY DEF Turnstile, Semaphores

-----------------------------------------------------------------------------
(* The semaphores.                                                         *)

Injective(q) == \A i, j \in 1..Len(q) : q[i] = q[j] => i = j

Waiting(t, q) == \E i \in 1..Len(q) : q[i] = t

LEMMA AppendElements ==
  ASSUME NEW q \in Seq(Threads), NEW t \in Threads, Injective(q), ~Waiting(t, q)
  PROVE  /\ Append(q, t) \in Seq(Threads)
         /\ Injective(Append(q, t))
         /\ \A u : Waiting(u, Append(q, t)) <=> Waiting(u, q) \/ u = t
<1> DEFINE r == Append(q, t)
           n == Len(q)
<1>1. /\ n \in Nat /\ r \in Seq(Threads) /\ Len(r) = n + 1
      /\ r[n + 1] = t
      /\ \A i \in 1..n : r[i] = q[i]
  OBVIOUS
<1> HIDE DEF r
<1>2. Injective(r)
  BY <1>1 DEF Injective, Waiting
<1>3. \A u : Waiting(u, r) <=> Waiting(u, q) \/ u = t
  BY <1>1 DEF Waiting
<1>4. QED BY <1>1, <1>2, <1>3 DEF r

LEMMA TailElements ==
  ASSUME NEW q \in Seq(Threads), q # <<>>, Injective(q)
  PROVE  /\ Head(q) \in Threads /\ Waiting(Head(q), q)
         /\ Tail(q) \in Seq(Threads)
         /\ Injective(Tail(q))
         /\ \A u : Waiting(u, Tail(q)) <=> Waiting(u, q) /\ u # Head(q)
<1> DEFINE r == Tail(q)
           n == Len(q)
<1>1. /\ n \in Nat \ {0} /\ r \in Seq(Threads) /\ Len(r) = n - 1
      /\ Head(q) = q[1] /\ q[1] \in Threads
      /\ \A i \in 1..n - 1 : r[i] = q[i + 1]
  OBVIOUS
<1> HIDE DEF r
<1>2. Waiting(q[1], q)
  BY <1>1 DEF Waiting
<1>3. Injective(r)
  BY <1>1 DEF Injective
<1>4. ASSUME NEW u PROVE Waiting(u, r) <=> Waiting(u, q) /\ u # q[1]
  <2>1. ASSUME NEW i \in 1..n - 1, r[i] = u PROVE Waiting(u, q) /\ u # q[1]
    BY <1>1, <2>1 DEF Waiting, Injective
  <2>2. ASSUME NEW i \in 1..n, q[i] = u, u # q[1] PROVE Waiting(u, r)
    <3>1. i - 1 \in 1..n - 1 /\ r[i - 1] = u
      BY <1>1, <2>2
    <3>2. QED BY <1>1, <3>1 DEF Waiting
  <2>3. QED BY <1>1, <2>1, <2>2 DEF Waiting
<1>5. QED BY <1>1, <1>2, <1>3, <1>4 DEF r

\* The clauses of QueuesOK, with the queue as an argument.
LEMMA QueueFacts ==
  ASSUME QueuesOK, NEW s \in Semaphores
  PROVE  /\ Injective(queue[s])
         /\ \A t \in Threads : Waiting(t, queue[s]) => WaitsAt(t, s) /\ t \notin granted[s]
         /\ \A t \in Threads : t \in granted[s] => WaitsAt(t, s)
         /\ \A t : Sem!InQueue(t, s) <=> Waiting(t, queue[s])
BY DEF QueuesOK, Injective, Waiting, Sem!InQueue

LEMMA QueuesAfter ==
  ASSUME \A s \in Semaphores :
           /\ Injective(queue'[s])
           /\ \A t \in Threads : Waiting(t, queue'[s]) => WaitsAt(t, s)' /\ t \notin granted'[s]
           /\ \A t \in Threads : t \in granted'[s] => WaitsAt(t, s)'
  PROVE  QueuesOK'
BY DEF QueuesOK, Injective, Waiting, Sem!InQueue

\* A thread is at the wait of one semaphore at most.
LEMMA OneWait ==
  ASSUME NEW t \in Threads, NEW s \in Semaphores, NEW r \in Semaphores,
         WaitsAt(t, s), WaitsAt(t, r)
  PROVE  s = r
BY DEF WaitsAt, Turnstile, Semaphores

\* Another thread's move leaves t at its wait.
LEMMA SameWait ==
  ASSUME NEW t \in Threads, at'[t] = at[t]
  PROVE  \A s \in Semaphores : WaitsAt(t, s)' <=> WaitsAt(t, s)
BY DEF WaitsAt

\* A thread that is at no wait is in no queue and was chosen by no post.
LEMMA NotWaiting ==
  ASSUME QueuesOK, NEW t \in Threads, \A s \in Semaphores : ~WaitsAt(t, s)
  PROVE  \A s \in Semaphores : ~Waiting(t, queue[s]) /\ t \notin granted[s]
BY QueueFacts

Apart(t) == \A s \in Semaphores : ~Waiting(t, queue[s]) /\ t \notin granted[s]

\* A sem_wait that goes on: the token is taken, or the thread was chosen.
GoesOn(t, s) ==
  /\ queue' = queue
  /\ \/ /\ Apart(t) /\ tokens[s] > 0
        /\ tokens' = [tokens EXCEPT ![s] = @ - 1] /\ granted' = granted
     \/ t \in granted[s] /\ tokens' = tokens /\ granted' = [granted EXCEPT ![s] = @ \ {t}]

\* One that joins the queue.
JoinsQueue(t, s) ==
  /\ Apart(t)
  /\ tokens' = tokens /\ granted' = granted /\ queue' = [queue EXCEPT ![s] = Append(@, t)]

LEMMA WaitCases ==
  ASSUME NEW t \in Threads, NEW s \in Semaphores, NEW there, sem_wait(t, s, there)
  PROVE  \/ GoesOn(t, s) /\ at' = [at EXCEPT ![t] = there]
         \/ JoinsQueue(t, s) /\ at' = at
BY DEF sem_wait, GoesOn, JoinsQueue, Apart, Waiting,
       Sem!Take, Sem!Depart, Sem!Enqueue, Sem!Free, Sem!InQueue

SemaphoreShape ==
  /\ tokens \in [Semaphores -> Nat]
  /\ queue \in [Semaphores -> Seq(Threads)]
  /\ granted \in [Semaphores -> SUBSET Threads]

LEMMA GoesOnQueues ==
  ASSUME Shape, QueuesOK, NEW t \in Threads, NEW s \in Semaphores, WaitsAt(t, s),
         GoesOn(t, s), \A u \in Threads \ {t} : at'[u] = at[u]
  PROVE  SemaphoreShape' /\ QueuesOK'
<1>1. SemaphoreShape'
  <2>1. granted' \in [Semaphores -> SUBSET Threads] /\ queue' \in [Semaphores -> Seq(Threads)]
    BY DEF Shape, GoesOn
  <2>2. tokens' \in [Semaphores -> Nat]
    <3>1. tokens \in [Semaphores -> Nat] /\ tokens[s] \in Nat
      BY DEF Shape
    <3>2. CASE tokens[s] > 0 /\ tokens' = [tokens EXCEPT ![s] = @ - 1]
      <4>1. tokens[s] - 1 \in Nat
        BY <3>1, <3>2
      <4>2. QED BY <3>1, <3>2, <4>1
    <3>3. QED BY <3>1, <3>2 DEF GoesOn
  <2>3. QED BY <2>1, <2>2 DEF SemaphoreShape
<1>2. /\ queue' = queue
      /\ \A r \in Semaphores : granted'[r] \subseteq granted[r]
      /\ \A r \in Semaphores : ~Waiting(t, queue[r]) /\ t \notin granted'[r]
  <2>1. queue' = queue /\ \A r \in Semaphores : granted'[r] \subseteq granted[r]
    BY DEF Shape, GoesOn
  <2>2. CASE t \in granted[s] /\ granted' = [granted EXCEPT ![s] = @ \ {t}]
    <3>1. ASSUME NEW r \in Semaphores, r # s
          PROVE  ~Waiting(t, queue[r]) /\ t \notin granted[r]
      BY <3>1, OneWait, QueueFacts
    <3>2. ~Waiting(t, queue[s]) /\ t \notin granted'[s]
      BY <2>2, QueueFacts DEF Shape
    <3>3. QED BY <2>1, <3>1, <3>2
  <2>3. CASE Apart(t) /\ granted' = granted
    BY <2>1, <2>3 DEF Apart
  <2>4. QED BY <2>1, <2>2, <2>3 DEF GoesOn
<1>3. ASSUME NEW r \in Semaphores
      PROVE  /\ Injective(queue'[r])
             /\ \A u \in Threads : Waiting(u, queue'[r]) => WaitsAt(u, r)' /\ u \notin granted'[r]
             /\ \A u \in Threads : u \in granted'[r] => WaitsAt(u, r)'
  BY <1>2, QueueFacts, SameWait
<1>4. QED BY <1>1, <1>3, QueuesAfter

LEMMA JoinsQueues ==
  ASSUME Shape, QueuesOK, NEW t \in Threads, NEW s \in Semaphores, WaitsAt(t, s),
         JoinsQueue(t, s), at' = at
  PROVE  SemaphoreShape' /\ QueuesOK'
<1>1. /\ Append(queue[s], t) \in Seq(Threads)
      /\ Injective(Append(queue[s], t))
      /\ \A u : Waiting(u, Append(queue[s], t)) <=> Waiting(u, queue[s]) \/ u = t
  BY AppendElements, QueueFacts DEF Shape, JoinsQueue, Apart
<1>2. /\ queue'[s] = Append(queue[s], t)
      /\ \A r \in Semaphores \ {s} : queue'[r] = queue[r]
      /\ granted' = granted /\ tokens' = tokens
      /\ queue' \in [Semaphores -> Seq(Threads)]
  BY <1>1 DEF Shape, JoinsQueue
<1>3. \A u \in Threads : \A r \in Semaphores : WaitsAt(u, r)' <=> WaitsAt(u, r)
  BY SameWait
<1>4. ASSUME NEW r \in Semaphores
      PROVE  /\ Injective(queue'[r])
             /\ \A u \in Threads : Waiting(u, queue'[r]) => WaitsAt(u, r)' /\ u \notin granted'[r]
             /\ \A u \in Threads : u \in granted'[r] => WaitsAt(u, r)'
  <2>1. CASE r = s
    BY <1>1, <1>2, <1>3, <2>1, QueueFacts DEF JoinsQueue, Apart
  <2>2. CASE r # s
    BY <1>2, <1>3, <2>2, QueueFacts
  <2>3. QED BY <2>1, <2>2
<1>5. SemaphoreShape'
  BY <1>2 DEF SemaphoreShape, Shape
<1>6. QED BY <1>4, <1>5, QueuesAfter

\* A sem_post leaves a token behind, or chooses a thread.
Deposits(s) ==
  tokens' = [tokens EXCEPT ![s] = @ + 1] /\ granted' = granted

Chooses(s, h) ==
  /\ WaitsAt(h, s) /\ h \notin granted[s]
  /\ tokens' = tokens /\ granted' = [granted EXCEPT ![s] = @ \cup {h}]

LEMMA PostQueues ==
  ASSUME Shape, QueuesOK, NEW t \in Threads, NEW s \in Semaphores,
         \A r \in Semaphores : ~WaitsAt(t, r),
         sem_post(s), \A u \in Threads \ {t} : at'[u] = at[u]
  PROVE  /\ SemaphoreShape' /\ QueuesOK'
         /\ Deposits(s) \/ \E h \in Threads : Chooses(s, h)
<1>1. Apart(t)
  BY NotWaiting DEF Apart
<1>2. CASE Sem!Deposit(s)
  <2>1. /\ tokens' = [tokens EXCEPT ![s] = @ + 1]
        /\ queue' = queue /\ granted' = granted
    BY <1>2 DEF Sem!Deposit
  <2>2. ASSUME NEW r \in Semaphores
        PROVE  /\ Injective(queue'[r])
               /\ \A u \in Threads : Waiting(u, queue'[r]) => WaitsAt(u, r)' /\ u \notin granted'[r]
               /\ \A u \in Threads : u \in granted'[r] => WaitsAt(u, r)'
    BY <1>1, <2>1, QueueFacts, SameWait DEF Apart
  <2>3. SemaphoreShape'
    BY <2>1 DEF Shape, SemaphoreShape
  <2>4. QED BY <2>1, <2>2, <2>3, QueuesAfter DEF Deposits
<1>3. CASE Sem!HandOver(s)
  <2> DEFINE h == Head(queue[s])
  <2>1. /\ queue[s] # <<>> /\ tokens' = tokens
        /\ queue' = [queue EXCEPT ![s] = Tail(@)]
        /\ granted' = [granted EXCEPT ![s] = @ \cup {h}]
    BY <1>3 DEF Sem!HandOver
  <2>2. /\ h \in Threads /\ Waiting(h, queue[s])
        /\ Tail(queue[s]) \in Seq(Threads)
        /\ Injective(Tail(queue[s]))
        /\ \A u : Waiting(u, Tail(queue[s])) <=> Waiting(u, queue[s]) /\ u # h
    BY <2>1, TailElements, QueueFacts DEF Shape
  <2> HIDE DEF h
  <2>3. WaitsAt(h, s) /\ h \notin granted[s] /\ h # t
    BY <1>1, <2>2, QueueFacts DEF Apart
  <2>4. /\ queue'[s] = Tail(queue[s]) /\ granted'[s] = granted[s] \cup {h}
        /\ \A r \in Semaphores \ {s} : queue'[r] = queue[r] /\ granted'[r] = granted[r]
    BY <2>1 DEF Shape
  <2>5. SemaphoreShape'
    BY <2>1, <2>2 DEF Shape, SemaphoreShape
  <2>6. ASSUME NEW r \in Semaphores
        PROVE  /\ Injective(queue'[r])
               /\ \A u \in Threads : Waiting(u, queue'[r]) => WaitsAt(u, r)' /\ u \notin granted'[r]
               /\ \A u \in Threads : u \in granted'[r] => WaitsAt(u, r)'
    <3>1. CASE r = s
      BY <1>1, <2>2, <2>3, <2>4, <3>1, QueueFacts, SameWait DEF Apart
    <3>2. CASE r # s
      BY <1>1, <2>4, <3>2, QueueFacts, SameWait DEF Apart
    <3>3. QED BY <3>1, <3>2
  <2>7. Chooses(s, h)
    BY <2>1, <2>3 DEF Chooses
  <2>8. QED BY <2>2, <2>5, <2>6, <2>7, QueuesAfter
<1>4. QED BY <1>2, <1>3 DEF sem_post

-----------------------------------------------------------------------------
(* The parts of the invariant.                                             *)

PostsFresh == \A t \in Threads : at[t][2] # "open" => posts[t] = 0

CountOK == count = Cardinality(Counted(1) \cup Between)

LEMMA InvParts ==
  ASSUME BInv
  PROVE  /\ Shape /\ QueuesOK /\ MutexOwned /\ PostsFresh /\ CountOK
         /\ Arriving \/ Departing
BY InvShape DEF BInv, PostsFresh, CountOK

\* The bounds of the types follow from the rest.
LEMMA TypesFromParts ==
  ASSUME SemaphoreShape', at' \in [Threads -> Places], posts' \in [Threads -> Nat],
         MutexOwned', PostsFresh', CountOK', (Arriving \/ Departing)'
  PROVE  BTypeOK'
<1>1. /\ \A phase \in 1..2 : /\ IsFiniteSet(Counted(phase)')
                             /\ Cardinality(Counted(phase)') \in 0..val
      /\ Cardinality((Counted(1) \cup Between)') \in 0..val
      /\ Counted(2)' \subseteq Threads
  <2>1. /\ \A phase \in 1..2 : Counted(phase)' \in SUBSET Threads
        /\ (Counted(1) \cup Between)' \in SUBSET Threads
    BY DEF Counted, Between
  <2>2. QED BY <2>1, ThreadSets
<1>2. ASSUME NEW phase \in 1..2
      PROVE  tokens'[Turnstile(phase)] \in 0..val
  <2>1. /\ tokens'[Turnstile(phase)] \in Nat
        /\ Cardinality(granted'[Turnstile(phase)]) \in Nat
    BY TurnstileNames, ThreadSets DEF SemaphoreShape
  <2>2. Made(phase)' = tokens'[Turnstile(phase)] + Cardinality(granted'[Turnstile(phase)])
    BY DEF Made
  <2>3. Closed(phase)' \/ Opened(phase)'
    BY DEF Arriving, Departing
  <2>4. CASE Closed(phase)'
    BY <2>4, ThreadSets DEF Closed
  <2>5. CASE Opened(phase)'
    <3>1. \A t \in Openers(phase)' : posts'[t] \in Nat
      BY DEF Openers
    <3>2. Made(phase)' <= Cardinality(Counted(phase)')
      <4>1. Made(phase)' \in Nat
        BY <2>1, <2>2
      <4>2. CASE Openers(phase)' = {}
        BY <1>1, <2>5, <4>1, <4>2 DEF Opened
      <4>3. CASE Openers(phase)' # {}
        <5>1. PICK t \in Openers(phase)' : TRUE
          BY <4>3
        <5>2. posts'[t] < val /\ Made(phase)' + (val - posts'[t]) = Cardinality(Counted(phase)')
          BY <2>5, <5>1 DEF Opened
        <5>3. QED BY <1>1, <3>1, <4>1, <5>2, ThreadSets
      <4>4. QED BY <4>2, <4>3
    <3>3. QED BY <1>1, <2>1, <2>2, <3>2, ThreadSets
  <2>6. QED BY <2>3, <2>4, <2>5
<1>3. tokens' \in [Semaphores -> 0..val]
  <2>1. tokens'["mutex"] \in 0..val
    BY ThreadSets DEF MutexOwned
  <2>2. \A s \in Semaphores : tokens'[s] \in 0..val
    BY <1>2, <2>1, TurnstileNames
  <2>3. QED BY <2>2 DEF SemaphoreShape
<1>4. count' \in 0..val
  BY <1>1 DEF CountOK
<1>5. posts' \in [Threads -> 0..val]
  <2>1. ASSUME NEW t \in Threads PROVE posts'[t] \in 0..val
    <3>1. posts'[t] \in Nat /\ at'[t] \in Places
      OBVIOUS
    <3>2. CASE at'[t][2] # "open"
      BY <3>2, ThreadSets DEF PostsFresh
    <3>3. CASE at'[t][2] = "open"
      <4>1. \E phase \in 1..2 : at'[t] = <<phase, "open">>
        BY <3>1, <3>3 DEF Places, Outside
      <4>2. \E phase \in 1..2 : t \in Openers(phase)'
        BY <4>1 DEF Openers
      <4>3. posts'[t] < val
        BY <4>2 DEF Arriving, Departing, Closed, Opened
      <4>4. QED BY <3>1, <4>3, ThreadSets
    <3>4. QED BY <3>2, <3>3
  <2>2. QED BY <2>1
<1>6. released' \subseteq Threads
  BY <1>1 DEF Arriving, Departing
<1>7. QED
  BY <1>3, <1>4, <1>5, <1>6 DEF BTypeOK, SemaphoreShape, Places

LEMMA InvAfter ==
  ASSUME SemaphoreShape', at' \in [Threads -> Places], posts' \in [Threads -> Nat],
         QueuesOK', MutexOwned', PostsFresh', CountOK', (Arriving \/ Departing)'
  PROVE  BInv'
BY TypesFromParts DEF BInv, PostsFresh, CountOK

-----------------------------------------------------------------------------
(* What a move keeps.                                                      *)

LEMMA MoveSame ==
  ASSUME Shape, NEW t \in Threads, NEW v \in Places, at' = [at EXCEPT ![t] = v]
  PROVE  /\ \A phase \in 1..2 : (CountedAt(phase, at[t]) <=> CountedAt(phase, v))
                                  => Counted(phase)' = Counted(phase)
         /\ \A phase \in 1..2 : (OpenerAt(phase, at[t]) <=> OpenerAt(phase, v))
                                  => Openers(phase)' = Openers(phase)
         /\ (ComingAt(at[t]) <=> ComingAt(v)) => Coming' = Coming
         /\ (BetweenAt(at[t]) <=> BetweenAt(v)) => Between' = Between
         /\ (InsideAt(at[t]) <=> InsideAt(v)) => Inside' = Inside
<1>1. ASSUME NEW phase \in 1..2, CountedAt(phase, at[t]) <=> CountedAt(phase, v)
      PROVE  Counted(phase)' = Counted(phase)
  <2>1. t \in Counted(phase) <=> CountedAt(phase, v)
    BY <1>1, Member
  <2>2. Counted(phase)' = Moved(Counted(phase), t, CountedAt(phase, v))
    BY Move
  <2>3. QED BY <2>1, <2>2 DEF Moved
<1>2. ASSUME NEW phase \in 1..2, OpenerAt(phase, at[t]) <=> OpenerAt(phase, v)
      PROVE  Openers(phase)' = Openers(phase)
  <2>1. t \in Openers(phase) <=> OpenerAt(phase, v)
    BY <1>2, Member
  <2>2. Openers(phase)' = Moved(Openers(phase), t, OpenerAt(phase, v))
    BY Move
  <2>3. QED BY <2>1, <2>2 DEF Moved
<1>3. /\ Coming' = Moved(Coming, t, ComingAt(v))
      /\ Between' = Moved(Between, t, BetweenAt(v))
      /\ Inside' = Moved(Inside, t, InsideAt(v))
  BY Move
<1>4. /\ t \in Coming <=> ComingAt(at[t])
      /\ t \in Between <=> BetweenAt(at[t])
      /\ t \in Inside <=> InsideAt(at[t])
  BY Member
<1>5. (ComingAt(at[t]) <=> ComingAt(v)) => Coming' = Coming
  BY <1>3, <1>4 DEF Moved
<1>6. (BetweenAt(at[t]) <=> BetweenAt(v)) => Between' = Between
  BY <1>3, <1>4 DEF Moved
<1>7. (InsideAt(at[t]) <=> InsideAt(v)) => Inside' = Inside
  BY <1>3, <1>4 DEF Moved
<1>8. QED BY <1>1, <1>2, <1>5, <1>6, <1>7

LEMMA NothingMoves ==
  ASSUME at' = at
  PROVE  /\ \A phase : Counted(phase)' = Counted(phase) /\ Openers(phase)' = Openers(phase)
         /\ Coming' = Coming /\ Between' = Between /\ Inside' = Inside
BY DEF Counted, Openers, Coming, Between, Inside

\* The round goes on as it is when only the mutex of the barrier changes.
LEMMA SameRound ==
  ASSUME Arriving \/ Departing,
         \A phase \in 1..2 : /\ tokens'[Turnstile(phase)] = tokens[Turnstile(phase)]
                             /\ granted'[Turnstile(phase)] = granted[Turnstile(phase)]
                             /\ Counted(phase)' = Counted(phase)
                             /\ Openers(phase)' = Openers(phase),
         Coming' = Coming, Between' = Between, posts' = posts, released' = released
  PROVE  (Arriving \/ Departing)'
<1>1. \A phase \in 1..2 : Made(phase)' = Made(phase)
  BY DEF Made
<1>2. \A phase \in 1..2 : (Closed(phase)' <=> Closed(phase)) /\ (Opened(phase)' <=> Opened(phase))
  BY <1>1 DEF Closed, Opened
<1>3. QED BY <1>2 DEF Arriving, Departing

LEMMA SameOwners ==
  ASSUME MutexOwned, tokens'["mutex"] = tokens["mutex"],
         (granted["mutex"] \cup Inside)' = granted["mutex"] \cup Inside
  PROVE  MutexOwned'
BY DEF MutexOwned

LEMMA MoveQueues ==
  ASSUME Shape, QueuesOK, NEW t \in Threads, \A r \in Semaphores : ~WaitsAt(t, r),
         \A u \in Threads \ {t} : at'[u] = at[u],
         queue' = queue, granted' = granted, tokens' = tokens
  PROVE  QueuesOK' /\ SemaphoreShape'
<1>1. Apart(t)
  BY NotWaiting DEF Apart
<1>2. ASSUME NEW r \in Semaphores
      PROVE  /\ Injective(queue'[r])
             /\ \A u \in Threads : Waiting(u, queue'[r]) => WaitsAt(u, r)' /\ u \notin granted'[r]
             /\ \A u \in Threads : u \in granted'[r] => WaitsAt(u, r)'
  BY <1>1, QueueFacts, SameWait DEF Apart
<1>3. QED BY <1>2, QueuesAfter DEF Shape, SemaphoreShape

\* Which semaphore a thread may wait for.
LEMMA WaitPlaces ==
  ASSUME NEW t \in Threads, NEW phase \in 1..2
  PROVE  /\ at[t] = <<phase, "enter">> => WaitsAt(t, "mutex")
         /\ at[t] = <<phase, "pass">> => WaitsAt(t, Turnstile(phase))
         /\ at[t] \in {Outside, <<phase, "count">>, <<phase, "open">>, <<phase, "leave">>}
              => \A s \in Semaphores : ~WaitsAt(t, s)
BY TurnstileNames DEF WaitsAt, Outside

LEMMA FreshAfter ==
  ASSUME Shape, PostsFresh, NEW t \in Threads, posts'[t] = 0,
         \A u \in Threads \ {t} : at'[u] = at[u] /\ posts'[u] = posts[u]
  PROVE  PostsFresh'
BY DEF PostsFresh

LEMMA StayOutOf ==
  /\ Outside \in Places
  /\ \A phase \in 1..2 :
       /\ {<<phase, "enter">>, <<phase, "count">>, <<phase, "open">>,
           <<phase, "leave">>, <<phase, "pass">>} \subseteq Places
BY DEF Places

-----------------------------------------------------------------------------
(* Every step keeps the invariant.                                         *)

LEMMA CallStep ==
  ASSUME BInv, NEW t \in Threads, Call(t)
  PROVE  BInv'
<1> DEFINE v == <<1, "enter">>
<1>1. /\ Shape /\ QueuesOK /\ MutexOwned /\ PostsFresh /\ CountOK
      /\ Arriving \/ Departing
  BY InvParts
<1>2. /\ at[t] = Outside /\ v \in Places /\ at' = [at EXCEPT ![t] = v]
      /\ tokens' = tokens /\ queue' = queue /\ granted' = granted
      /\ count' = count /\ posts' = posts /\ released' = released
  BY StayOutOf DEF Call, semaphores
<1>3. /\ \A phase \in 1..2 : ~CountedAt(phase, Outside) /\ ~CountedAt(phase, v)
      /\ \A phase \in 1..2 : ~OpenerAt(phase, Outside) /\ ~OpenerAt(phase, v)
      /\ ComingAt(Outside) /\ ComingAt(v)
      /\ ~BetweenAt(Outside) /\ ~BetweenAt(v)
      /\ ~InsideAt(Outside) /\ ~InsideAt(v)
  BY DEF CountedAt, OpenerAt, ComingAt, BetweenAt, InsideAt, Outside
<1> HIDE DEF v
<1>4. /\ at' \in [Threads -> Places] /\ \A u \in Threads \ {t} : at'[u] = at[u]
  BY <1>1, <1>2, Move
<1>5. /\ \A phase \in 1..2 : Counted(phase)' = Counted(phase) /\ Openers(phase)' = Openers(phase)
      /\ Coming' = Coming /\ Between' = Between /\ Inside' = Inside
  BY <1>1, <1>2, <1>3, MoveSame
<1>6. QueuesOK' /\ SemaphoreShape'
  BY <1>1, <1>2, <1>4, WaitPlaces, MoveQueues
<1>7. (Arriving \/ Departing)'
  BY <1>1, <1>2, <1>5, SameRound
<1>8. MutexOwned'
  BY <1>1, <1>2, <1>5, SameOwners
<1>9. PostsFresh'
  BY <1>1, <1>2, <1>4, FreshAfter DEF PostsFresh, Outside
<1>10. CountOK'
  <2>1. Counted(1)' = Counted(1)
    BY <1>5
  <2>2. QED BY <1>1, <1>2, <1>5, <2>1 DEF CountOK
<1>11. posts' \in [Threads -> Nat]
  BY <1>1, <1>2 DEF Shape
<1>12. QED
  BY <1>4, <1>6, <1>7, <1>8, <1>9, <1>10, <1>11, InvAfter

\* A wait that joins a queue moves nobody.
LEMMA JoinStep ==
  ASSUME BInv, NEW t \in Threads, NEW s \in Semaphores, WaitsAt(t, s), JoinsQueue(t, s),
         at' = at, count' = count, posts' = posts, released' = released
  PROVE  BInv'
<1>1. /\ Shape /\ QueuesOK /\ MutexOwned /\ PostsFresh /\ CountOK
      /\ Arriving \/ Departing
  BY InvParts
<1>2. tokens' = tokens /\ granted' = granted
  BY DEF JoinsQueue
<1>3. QueuesOK' /\ SemaphoreShape'
  BY <1>1, JoinsQueues
<1>4. (Arriving \/ Departing)'
  BY <1>1, <1>2, NothingMoves, SameRound
<1>5. MutexOwned'
  BY <1>1, <1>2, NothingMoves, SameOwners
<1>6. PostsFresh' /\ CountOK'
  BY <1>1, NothingMoves DEF PostsFresh, CountOK
<1>7. at' \in [Threads -> Places] /\ posts' \in [Threads -> Nat]
  BY <1>1 DEF Shape
<1>8. QED BY <1>3, <1>4, <1>5, <1>6, <1>7, InvAfter

LEMMA EnterStep ==
  ASSUME BInv, NEW t \in Threads, NEW phase \in 1..2, Enter(t, phase)
  PROVE  BInv'
<1> DEFINE v == <<phase, "count">>
<1>1. /\ Shape /\ QueuesOK /\ MutexOwned /\ PostsFresh /\ CountOK
      /\ Arriving \/ Departing
  BY InvParts
<1>2. /\ at[t] = <<phase, "enter">> /\ v \in Places
      /\ sem_wait(t, "mutex", v)
      /\ count' = count /\ posts' = posts /\ released' = released
      /\ "mutex" \in Semaphores
  BY StayOutOf DEF Enter, Semaphores
<1>3. /\ \A p \in 1..2 : ~CountedAt(p, at[t]) /\ ~CountedAt(p, v)
      /\ \A p \in 1..2 : ~OpenerAt(p, at[t]) /\ ~OpenerAt(p, v)
      /\ ComingAt(at[t]) <=> ComingAt(v)
      /\ BetweenAt(at[t]) <=> BetweenAt(v)
      /\ InsideAt(v)
      /\ at[t][2] # "open" /\ v[2] # "open"
  BY <1>2 DEF CountedAt, OpenerAt, ComingAt, BetweenAt, InsideAt, Outside
<1> HIDE DEF v
<1>4. WaitsAt(t, "mutex")
  BY <1>2, WaitPlaces
<1>5. CASE JoinsQueue(t, "mutex") /\ at' = at
  BY <1>2, <1>4, <1>5, JoinStep
<1>6. CASE GoesOn(t, "mutex") /\ at' = [at EXCEPT ![t] = v]
  <2>1. /\ at' \in [Threads -> Places] /\ at'[t] = v
        /\ \A u \in Threads \ {t} : at'[u] = at[u]
    BY <1>1, <1>2, <1>6, Move
  <2>2. Inside' = Inside \cup {t}
    BY <1>1, <1>2, <1>3, <1>6, Move DEF Moved
  <2>3. /\ \A p \in 1..2 : Counted(p)' = Counted(p) /\ Openers(p)' = Openers(p)
        /\ Coming' = Coming /\ Between' = Between
    BY <1>1, <1>2, <1>3, <1>6, MoveSame
  <2>4. QueuesOK' /\ SemaphoreShape'
    BY <1>1, <1>2, <1>4, <1>6, <2>1, GoesOnQueues
  <2>5. \A s \in Semaphores : s # "mutex" => tokens'[s] = tokens[s] /\ granted'[s] = granted[s]
    BY <1>1, <1>6 DEF GoesOn, Shape
  <2>6. (Arriving \/ Departing)'
    BY <1>1, <1>2, <2>3, <2>5, TurnstileNames, SameRound
  <2>7. MutexOwned'
    <3>1. CASE t \in granted["mutex"] /\ tokens' = tokens
               /\ granted' = [granted EXCEPT !["mutex"] = @ \ {t}]
      <4>1. granted'["mutex"] = granted["mutex"] \ {t}
        BY <1>1, <1>2, <3>1 DEF Shape
      <4>2. QED BY <1>1, <2>2, <3>1, <4>1, SameOwners
    <3>2. CASE tokens["mutex"] > 0 /\ tokens' = [tokens EXCEPT !["mutex"] = @ - 1]
               /\ granted' = granted
      <4>1. granted["mutex"] = {} /\ Inside = {} /\ tokens["mutex"] = 1
        BY <1>1, <3>2 DEF MutexOwned
      <4>2. tokens'["mutex"] = 0
        BY <1>1, <1>2, <3>2, <4>1 DEF Shape
      <4>3. QED BY <2>2, <3>2, <4>1, <4>2 DEF MutexOwned
    <3>3. QED BY <1>6, <3>1, <3>2 DEF GoesOn
  <2>8. posts'[t] = 0
    BY <1>1, <1>2, <1>3 DEF PostsFresh
  <2>9. PostsFresh'
    BY <1>1, <1>2, <2>1, <2>8, FreshAfter
  <2>10. CountOK'
    <3>1. Counted(1)' = Counted(1)
      BY <2>3
    <3>2. QED BY <1>1, <1>2, <2>3, <3>1 DEF CountOK
  <2>11. posts' \in [Threads -> Nat]
    BY <1>1, <1>2 DEF Shape
  <2>12. QED
    BY <2>1, <2>4, <2>6, <2>7, <2>9, <2>10, <2>11, InvAfter
<1>7. QED
  BY <1>2, <1>5, <1>6, WaitCases

\* The threads that phase 1 has counted and phase 2 has not, after one more count.
LEMMA CountSets ==
  ASSUME BInv, NEW t \in Threads, NEW phase \in 1..2, at[t] = <<phase, "count">>
  PROVE  LET S == Counted(1) \cup Between
             n == IF phase = 1 THEN count + 1 ELSE count - 1
             T == IF phase = 1 THEN S \cup {t} ELSE S \ {t}
         IN  /\ n = Cardinality(T)
             /\ EveryoneCounted(n, phase) <=> T = IF phase = 1 THEN Threads ELSE {}
<1> DEFINE S == Counted(1) \cup Between
           T == IF phase = 1 THEN S \cup {t} ELSE S \ {t}
           n == IF phase = 1 THEN count + 1 ELSE count - 1
<1>1. count = Cardinality(S)
  BY InvParts DEF CountOK
<1>2. /\ S \in SUBSET Threads /\ T \in SUBSET Threads
      /\ phase = 1 => t \notin S
      /\ phase = 2 => t \in S
  <2>1. S \in SUBSET Threads
    BY PartsAreSets
  <2>2. phase = 1 => ~CountedAt(1, at[t]) /\ ~BetweenAt(at[t])
    BY DEF CountedAt, BetweenAt
  <2>3. phase = 2 => BetweenAt(at[t])
    BY DEF BetweenAt
  <2>4. QED BY <2>1, <2>2, <2>3, Member
<1>3. n = Cardinality(T)
  <2>1. CASE phase = 1
    BY <1>1, <1>2, <2>1, AddThread
  <2>2. CASE phase = 2
    BY <1>1, <1>2, <2>2, RemoveThread
  <2>3. QED BY <2>1, <2>2
<1> HIDE DEF T, n
<1>4. EveryoneCounted(n, phase) <=> T = IF phase = 1 THEN Threads ELSE {}
  BY <1>2, <1>3, ThreadSets DEF EveryoneCounted
<1>5. QED BY <1>3, <1>4 DEF T, n

\* When everybody is through an open turnstile, it is closed again.
LEMMA AllThrough ==
  ASSUME Shape, NEW phase \in 1..2, Opened(phase), Counted(phase) = {}
  PROVE  Closed(phase)
<1>1. Openers(phase) = {}
  BY PartsAreSets
<1>2. Made(phase) = 0
  BY <1>1, FS_EmptySet DEF Opened
<1>3. /\ tokens[Turnstile(phase)] \in Nat
      /\ Cardinality(granted[Turnstile(phase)]) \in Nat
      /\ Cardinality(granted[Turnstile(phase)]) = 0 <=> granted[Turnstile(phase)] = {}
  BY ThreadSets, TurnstileNames DEF Shape
<1>4. QED BY <1>1, <1>2, <1>3 DEF Made, Closed

\* The last thread starts with all the posts still to make.
LEMMA JustOpened ==
  ASSUME NEW phase \in 1..2, Closed(phase), NEW t,
         tokens' = tokens, granted' = granted,
         Openers(phase)' = {t}, posts'[t] = 0, Counted(phase)' = Threads
  PROVE  Opened(phase)'
<1>1. Made(phase)' = 0
  BY FS_EmptySet DEF Made, Closed
<1>2. Cardinality(Counted(phase)') = val /\ val \in Nat /\ val >= 1
  BY ThreadSets DEF val
<1>3. QED BY <1>1, <1>2 DEF Opened

LEMMA CountStep ==
  ASSUME BInv, NEW t \in Threads, NEW phase \in 1..2, Count(t, phase)
  PROVE  BInv'
<1> DEFINE n == IF phase = 1 THEN count + 1 ELSE count - 1
           v == IF EveryoneCounted(n, phase) THEN <<phase, "open">> ELSE <<phase, "leave">>
           S == Counted(1) \cup Between
           T == IF phase = 1 THEN S \cup {t} ELSE S \ {t}
<1>1. /\ Shape /\ QueuesOK /\ MutexOwned /\ PostsFresh /\ CountOK
      /\ Arriving \/ Departing
  BY InvParts
<1>2. /\ at[t] = <<phase, "count">> /\ v \in Places /\ at' = [at EXCEPT ![t] = v]
      /\ count' = n
      /\ tokens' = tokens /\ queue' = queue /\ granted' = granted /\ posts' = posts
      /\ released' = IF EveryoneCounted(n, phase) /\ phase = 1 THEN Threads ELSE released
  BY StayOutOf DEF Count, semaphores
<1>3. n = Cardinality(T) /\ (EveryoneCounted(n, phase) <=> T = IF phase = 1 THEN Threads ELSE {})
  BY <1>2, CountSets
<1>4. /\ \A p \in 1..2 : ~CountedAt(p, at[t]) /\ (CountedAt(p, v) <=> p = phase)
      /\ \A p \in 1..2 : ~OpenerAt(p, at[t])
      /\ \A p \in 1..2 : OpenerAt(p, v) <=> p = phase /\ EveryoneCounted(n, phase)
      /\ ComingAt(at[t]) <=> phase = 1
      /\ BetweenAt(at[t]) <=> phase = 2
      /\ ~ComingAt(v) /\ ~BetweenAt(v)
      /\ InsideAt(at[t]) /\ InsideAt(v)
  BY <1>2 DEF CountedAt, OpenerAt, ComingAt, BetweenAt, InsideAt, Outside
<1>5. v = <<phase, "open">> <=> EveryoneCounted(n, phase)
  OBVIOUS
<1> HIDE DEF v, n
<1>6. /\ at' \in [Threads -> Places] /\ \A u \in Threads \ {t} : at'[u] = at[u]
  BY <1>1, <1>2, Move
<1>7. /\ Counted(phase)' = Counted(phase) \cup {t}
      /\ \A p \in 1..2 : p # phase => Counted(p)' = Counted(p)
  <2>1. Counted(phase)' = Moved(Counted(phase), t, CountedAt(phase, v))
    BY <1>1, <1>2, Move
  <2>2. CountedAt(phase, v)
    BY <1>4
  <2>3. \A p \in 1..2 : p # phase => Counted(p)' = Counted(p)
    BY <1>1, <1>2, <1>4, MoveSame
  <2>4. QED BY <2>1, <2>2, <2>3 DEF Moved
<1>8. /\ Coming' = Coming \ {t} /\ Between' = Between \ {t} /\ Inside' = Inside
      /\ phase = 1 => Between' = Between
      /\ phase = 2 => Coming' = Coming
      /\ phase = 1 <=> t \in Coming
      /\ phase = 2 <=> t \in Between
  <2>1. Coming' = Coming \ {t} /\ Between' = Between \ {t}
    BY <1>1, <1>2, <1>4, Move DEF Moved
  <2>2. Inside' = Inside
    BY <1>1, <1>2, <1>4, MoveSame
  <2>3. (phase = 1 <=> t \in Coming) /\ (phase = 2 <=> t \in Between)
    BY <1>4, Member
  <2>4. QED BY <2>1, <2>2, <2>3
<1>9. QueuesOK' /\ SemaphoreShape'
  BY <1>1, <1>2, <1>6, WaitPlaces, MoveQueues
<1>10. MutexOwned'
  BY <1>1, <1>2, <1>8, SameOwners
<1>11. posts'[t] = 0 /\ posts' \in [Threads -> Nat]
  BY <1>1, <1>2 DEF PostsFresh, Shape
<1>12. PostsFresh'
  BY <1>1, <1>2, <1>6, <1>11, FreshAfter
<1>13. (Counted(1) \cup Between)' = T
  <2>1. CASE phase = 1
    BY <1>7, <1>8, <2>1
  <2>2. CASE phase = 2
    <3>1. Counted(1)' = Counted(1) /\ t \notin Counted(1)
      BY <1>7, <1>8, <2>2, PartsAreSets
    <3>2. QED BY <1>8, <2>2, <3>1
  <2>3. QED BY <2>1, <2>2
<1>14. CountOK'
  BY <1>2, <1>3, <1>13 DEF CountOK
<1>15. \A p \in 1..2 : Made(p)' = Made(p)
  BY <1>2 DEF Made
<1>16. (Arriving /\ phase = 1) \/ (Departing /\ phase = 2)
  BY <1>1, <1>8 DEF Arriving, Departing
<1>17. ASSUME ~EveryoneCounted(n, phase) PROVE (Arriving \/ Departing)'
  <2>1. \A p \in 1..2 : Openers(p)' = Openers(p)
    BY <1>1, <1>2, <1>4, <1>17, MoveSame
  <2>2. released' = released
    BY <1>2, <1>17
  <2>3. CASE Arriving /\ phase = 1
    <3>1. Counted(2)' = Counted(2)
      BY <1>7, <2>3
    <3>2. Closed(1)'
      BY <1>2, <2>1, <2>3 DEF Arriving, Closed
    <3>3. Opened(2)'
      BY <1>2, <1>15, <2>1, <2>3, <3>1 DEF Arriving, Opened
    <3>4. QED BY <1>8, <2>2, <2>3, <3>1, <3>2, <3>3 DEF Arriving
  <2>4. CASE Departing /\ phase = 2
    <3>1. Counted(1)' = Counted(1)
      BY <1>7, <2>4
    <3>2. Closed(2)'
      BY <1>2, <2>1, <2>4 DEF Departing, Closed
    <3>3. Opened(1)'
      BY <1>2, <1>15, <2>1, <2>4, <3>1 DEF Departing, Opened
    <3>4. QED BY <1>8, <2>2, <2>4, <3>2, <3>3 DEF Departing
  <2>5. QED BY <1>16, <2>3, <2>4
<1>18. ASSUME EveryoneCounted(n, phase) PROVE (Arriving \/ Departing)'
  <2>1. /\ Openers(phase)' = Openers(phase) \cup {t}
        /\ \A p \in 1..2 : p # phase => Openers(p)' = Openers(p)
    <3>1. Openers(phase)' = Moved(Openers(phase), t, OpenerAt(phase, v))
      BY <1>1, <1>2, Move
    <3>2. OpenerAt(phase, v)
      BY <1>4, <1>18
    <3>3. \A p \in 1..2 : p # phase => Openers(p)' = Openers(p)
      BY <1>1, <1>2, <1>4, MoveSame
    <3>4. QED BY <3>1, <3>2, <3>3 DEF Moved
  <2>2. CASE Arriving /\ phase = 1
    <3>1. Counted(1)' = Threads /\ Between = {} /\ Openers(1) = {}
      BY <1>3, <1>7, <1>13, <1>18, <2>2, <1>8 DEF Arriving, Closed
    <3>2. Coming' = {}
      BY <1>7, <1>8, <2>2, <3>1, PartsAreSets
    <3>3. Counted(2) = {} /\ Counted(2)' = Counted(2)
      BY <1>2, <1>7, <1>8, <2>2, <3>1, PartsAreSets
    <3>4. Closed(2)
      BY <1>1, <2>2, <3>3, AllThrough DEF Arriving
    <3>5. Closed(2)'
      BY <1>2, <2>1, <2>2, <3>4 DEF Closed
    <3>6. Opened(1)'
      BY <1>2, <1>11, <2>1, <2>2, <3>1, JustOpened DEF Arriving
    <3>7. released' = Threads
      BY <1>2, <1>18, <2>2
    <3>8. QED BY <3>2, <3>5, <3>6, <3>7 DEF Departing
  <2>3. CASE Departing /\ phase = 2
    <3>1. (Counted(1) \cup Between)' = {} /\ Counted(1)' = Counted(1)
      BY <1>3, <1>7, <1>13, <1>18, <2>3
    <3>2. Counted(1) = {} /\ Between' = {} /\ Between \subseteq {t}
      BY <1>8, <3>1
    <3>3. Counted(2)' = Threads
      <4>1. Counted(2)' = Counted(2) \cup {t}
        BY <1>7, <2>3
      <4>2. \A u \in Threads : u \in Between \/ u \in Counted(2)
        BY <1>1, <2>3, <3>2, Parts DEF Departing
      <4>3. QED BY <3>2, <4>1, <4>2, PartsAreSets
    <3>4. Closed(1)
      BY <1>1, <2>3, <3>2, AllThrough DEF Departing
    <3>5. Closed(1)'
      BY <1>2, <2>1, <2>3, <3>4 DEF Closed
    <3>6. Opened(2)'
      <4>1. Openers(2)' = {t}
        BY <2>1, <2>3 DEF Departing, Closed
      <4>2. QED BY <1>2, <1>11, <2>3, <3>3, <4>1, JustOpened DEF Departing
    <3>7. released' = Threads
      BY <1>2, <2>3 DEF Departing
    <3>8. QED BY <3>2, <3>3, <3>5, <3>6, <3>7 DEF Arriving
  <2>4. QED BY <1>16, <2>2, <2>3
<1>19. QED
  BY <1>6, <1>9, <1>10, <1>11, <1>12, <1>14, <1>17, <1>18, InvAfter

\* A post or a wait on one semaphore leaves the others as they are.
LEMMA OthersAfterPost ==
  ASSUME Shape, NEW s \in Semaphores, Deposits(s) \/ \E h \in Threads : Chooses(s, h)
  PROVE  \A r \in Semaphores : r # s => tokens'[r] = tokens[r] /\ granted'[r] = granted[r]
BY DEF Shape, Deposits, Chooses

LEMMA OthersAfterWait ==
  ASSUME Shape, NEW t \in Threads, NEW s \in Semaphores, GoesOn(t, s)
  PROVE  \A r \in Semaphores : r # s => tokens'[r] = tokens[r] /\ granted'[r] = granted[r]
BY DEF Shape, GoesOn

LEMMA PostMakes ==
  ASSUME Shape, NEW phase \in 1..2,
         Deposits(Turnstile(phase)) \/ \E h \in Threads : Chooses(Turnstile(phase), h)
  PROVE  Made(phase)' = Made(phase) + 1 /\ Made(phase) \in Nat
<1> DEFINE s == Turnstile(phase)
<1>1. /\ s \in Semaphores /\ tokens[s] \in Nat /\ granted[s] \in SUBSET Threads
      /\ Cardinality(granted[s]) \in Nat
  BY TurnstileNames, ThreadSets DEF Shape
<1>2. /\ Made(phase)' = tokens'[s] + Cardinality(granted'[s])
      /\ Made(phase) = tokens[s] + Cardinality(granted[s])
  BY DEF Made
<1> HIDE DEF s
<1>3. CASE Deposits(s)
  <2>1. tokens'[s] = tokens[s] + 1 /\ granted'[s] = granted[s]
    BY <1>1, <1>3 DEF Shape, Deposits
  <2>2. QED BY <1>1, <1>2, <2>1
<1>4. ASSUME NEW h \in Threads, Chooses(s, h)
      PROVE  Made(phase)' = Made(phase) + 1 /\ Made(phase) \in Nat
  <2>1. tokens'[s] = tokens[s] /\ granted'[s] = granted[s] \cup {h} /\ h \notin granted[s]
    BY <1>1, <1>4 DEF Shape, Chooses
  <2>2. Cardinality(granted'[s]) = Cardinality(granted[s]) + 1
    BY <1>1, <2>1, AddThread
  <2>3. QED BY <1>1, <1>2, <2>1, <2>2
<1>5. QED BY <1>3, <1>4 DEF s

LEMMA WaitUses ==
  ASSUME Shape, NEW t \in Threads, NEW phase \in 1..2, GoesOn(t, Turnstile(phase))
  PROVE  /\ Made(phase)' = Made(phase) - 1 /\ Made(phase) \in Nat
         /\ ~Closed(phase)
<1> DEFINE s == Turnstile(phase)
<1>1. /\ s \in Semaphores /\ tokens[s] \in Nat /\ granted[s] \in SUBSET Threads
      /\ Cardinality(granted[s]) \in Nat
  BY TurnstileNames, ThreadSets DEF Shape
<1>2. /\ Made(phase)' = tokens'[s] + Cardinality(granted'[s])
      /\ Made(phase) = tokens[s] + Cardinality(granted[s])
      /\ Closed(phase) => tokens[s] = 0 /\ granted[s] = {}
  BY DEF Made, Closed
<1> HIDE DEF s
<1>3. CASE /\ tokens[s] > 0
           /\ tokens' = [tokens EXCEPT ![s] = @ - 1] /\ granted' = granted
  <2>1. tokens'[s] = tokens[s] - 1 /\ granted'[s] = granted[s]
    BY <1>1, <1>3 DEF Shape
  <2>2. QED BY <1>1, <1>2, <1>3, <2>1
<1>4. CASE /\ t \in granted[s] /\ tokens' = tokens
           /\ granted' = [granted EXCEPT ![s] = @ \ {t}]
  <2>1. tokens'[s] = tokens[s] /\ granted'[s] = granted[s] \ {t}
    BY <1>1, <1>4 DEF Shape
  <2>2. Cardinality(granted'[s]) = Cardinality(granted[s]) - 1
    BY <1>1, <1>4, <2>1, RemoveThread
  <2>3. QED BY <1>1, <1>2, <1>4, <2>1, <2>2
<1>5. QED BY <1>3, <1>4 DEF GoesOn, s

LEMMA OpenStep ==
  ASSUME BInv, NEW t \in Threads, NEW phase \in 1..2, Open(t, phase)
  PROVE  BInv'
<1> DEFINE n == posts[t] + 1
           done == PostsDone(n)
           v == IF done THEN <<phase, "leave">> ELSE <<phase, "open">>
           w == IF done THEN 0 ELSE n
           s == Turnstile(phase)
<1>1. /\ Shape /\ QueuesOK /\ MutexOwned /\ PostsFresh /\ CountOK
      /\ Arriving \/ Departing
  BY InvParts
<1>2. /\ at[t] = <<phase, "open">> /\ v \in Places /\ sem_post(s)
      /\ count' = count /\ released' = released /\ s \in Semaphores /\ s # "mutex"
  BY StayOutOf, TurnstileNames DEF Open
<1>3. at' = [at EXCEPT ![t] = v] /\ posts' = [posts EXCEPT ![t] = w]
  <2>1. CASE done
    BY <2>1 DEF Open
  <2>2. CASE ~done
    <3>1. at' = at /\ posts' = [posts EXCEPT ![t] = w] /\ v = at[t]
      BY <1>2, <2>2 DEF Open
    <3>2. QED BY <1>1, <3>1 DEF Shape
  <2>3. QED BY <2>1, <2>2
<1>4. /\ \A p \in 1..2 : CountedAt(p, at[t]) <=> CountedAt(p, v)
      /\ \A p \in 1..2 : p # phase => ~OpenerAt(p, at[t]) /\ ~OpenerAt(p, v)
      /\ OpenerAt(phase, at[t]) /\ (OpenerAt(phase, v) <=> ~done)
      /\ ~ComingAt(at[t]) /\ ~ComingAt(v)
      /\ ~BetweenAt(at[t]) /\ ~BetweenAt(v)
      /\ InsideAt(at[t]) /\ InsideAt(v)
      /\ v[2] # "open" <=> done
  BY <1>2 DEF CountedAt, OpenerAt, ComingAt, BetweenAt, InsideAt, Outside
<1>5. posts[t] \in Nat /\ n \in Nat /\ w \in Nat /\ (done <=> n = val)
  BY <1>1 DEF Shape, PostsDone
<1>6. n = posts[t] + 1 /\ w = IF done THEN 0 ELSE n
  OBVIOUS
<1> HIDE DEF v, w, n, s, done
<1>7. /\ at' \in [Threads -> Places] /\ at'[t] = v
      /\ \A u \in Threads \ {t} : at'[u] = at[u]
  BY <1>1, <1>2, <1>3, Move
<1>8. /\ posts' \in [Threads -> Nat] /\ posts'[t] = w
      /\ \A u \in Threads \ {t} : posts'[u] = posts[u]
  BY <1>1, <1>3, <1>5 DEF Shape
<1>9. /\ QueuesOK' /\ SemaphoreShape'
      /\ Deposits(s) \/ \E h \in Threads : Chooses(s, h)
  BY <1>1, <1>2, <1>7, WaitPlaces, PostQueues
<1>10. \A r \in Semaphores : r # s => tokens'[r] = tokens[r] /\ granted'[r] = granted[r]
  BY <1>1, <1>2, <1>9, OthersAfterPost
<1>11. /\ \A p \in 1..2 : Counted(p)' = Counted(p)
       /\ \A p \in 1..2 : p # phase => Openers(p)' = Openers(p)
       /\ Coming' = Coming /\ Between' = Between /\ Inside' = Inside
  BY <1>1, <1>2, <1>3, <1>4, MoveSame
<1>12. Openers(phase) = {t} /\ Openers(phase)' = IF done THEN {} ELSE {t}
  <2>1. t \in Openers(phase)
    BY <1>4, Member
  <2>2. \A a, b \in Inside : a = b
    BY <1>1 DEF MutexOwned
  <2>3. Openers(phase) = {t}
    BY <2>1, <2>2, PartsAreSets
  <2>4. Openers(phase)' = Moved(Openers(phase), t, OpenerAt(phase, v))
    BY <1>1, <1>2, <1>3, Move
  <2>5. CASE done
    BY <1>4, <2>3, <2>4, <2>5 DEF Moved
  <2>6. CASE ~done
    BY <1>4, <2>3, <2>4, <2>6 DEF Moved
  <2>7. QED BY <2>3, <2>5, <2>6
<1>13. MutexOwned'
  BY <1>1, <1>2, <1>10, <1>11, SameOwners DEF Semaphores
<1>14. PostsFresh'
  <2>1. v[2] # "open" => w = 0
    BY <1>4, <1>6
  <2>2. QED BY <1>1, <1>7, <1>8, <2>1 DEF PostsFresh
<1>15. CountOK'
  <2>1. Counted(1)' = Counted(1)
    BY <1>11
  <2>2. QED BY <1>1, <1>2, <1>11, <2>1 DEF CountOK
<1>16. Made(phase)' = Made(phase) + 1 /\ Made(phase) \in Nat
  BY <1>1, <1>9, PostMakes DEF s
<1>17. Opened(phase) => Opened(phase)'
  <2> SUFFICES ASSUME Opened(phase) PROVE Opened(phase)'
    OBVIOUS
  <2>1. posts[t] < val /\ Made(phase) + (val - posts[t]) = Cardinality(Counted(phase))
    BY <1>12 DEF Opened
  <2>2. val \in Nat /\ Cardinality(Counted(phase)') = Cardinality(Counted(phase))
    BY <1>11, ThreadSets
  <2>3. CASE done
    <3>1. Made(phase)' = Cardinality(Counted(phase)')
      BY <1>5, <1>6, <1>16, <2>1, <2>2, <2>3
    <3>2. QED BY <1>12, <2>3, <3>1 DEF Opened
  <2>4. CASE ~done
    <3>1. w < val /\ Made(phase)' + (val - w) = Cardinality(Counted(phase)')
      BY <1>5, <1>6, <1>16, <2>1, <2>2, <2>4
    <3>2. QED BY <1>8, <1>12, <2>4, <3>1 DEF Opened
  <2>5. QED BY <2>3, <2>4
<1>18. \A p \in 1..2 : p # phase => (Closed(p) => Closed(p)')
  <2>1. ASSUME NEW p \in 1..2, p # phase, Closed(p) PROVE Closed(p)'
    <3>1. Turnstile(p) \in Semaphores /\ Turnstile(p) # s
      BY <2>1, TurnstileNames DEF s
    <3>2. QED BY <1>10, <1>11, <2>1, <3>1 DEF Closed
  <2>2. QED BY <2>1
<1>19. (Arriving \/ Departing)'
  <2>1. CASE Arriving
    <3>1. phase = 2
      BY <1>12, <2>1 DEF Arriving, Closed
    <3>2. QED BY <1>2, <1>11, <1>17, <1>18, <2>1, <3>1 DEF Arriving
  <2>2. CASE Departing
    <3>1. phase = 1
      BY <1>12, <2>2 DEF Departing, Closed
    <3>2. QED BY <1>2, <1>11, <1>17, <1>18, <2>2, <3>1 DEF Departing
  <2>3. QED BY <1>1, <2>1, <2>2
<1>20. QED
  BY <1>7, <1>8, <1>9, <1>13, <1>14, <1>15, <1>19, InvAfter

LEMMA LeaveStep ==
  ASSUME BInv, NEW t \in Threads, NEW phase \in 1..2, Leave(t, phase)
  PROVE  BInv'
<1> DEFINE v == <<phase, "pass">>
<1>1. /\ Shape /\ QueuesOK /\ MutexOwned /\ PostsFresh /\ CountOK
      /\ Arriving \/ Departing
  BY InvParts
<1>2. /\ at[t] = <<phase, "leave">> /\ v \in Places /\ sem_post("mutex")
      /\ at' = [at EXCEPT ![t] = v]
      /\ count' = count /\ posts' = posts /\ released' = released
      /\ "mutex" \in Semaphores
  BY StayOutOf DEF Leave, Semaphores
<1>3. /\ \A p \in 1..2 : CountedAt(p, at[t]) <=> CountedAt(p, v)
      /\ \A p \in 1..2 : ~OpenerAt(p, at[t]) /\ ~OpenerAt(p, v)
      /\ ~ComingAt(at[t]) /\ ~ComingAt(v)
      /\ ~BetweenAt(at[t]) /\ ~BetweenAt(v)
      /\ InsideAt(at[t]) /\ ~InsideAt(v)
      /\ at[t][2] # "open"
  BY <1>2 DEF CountedAt, OpenerAt, ComingAt, BetweenAt, InsideAt, Outside
<1> HIDE DEF v
<1>4. /\ at' \in [Threads -> Places] /\ \A u \in Threads \ {t} : at'[u] = at[u]
      /\ Inside' = Inside \ {t} /\ t \in Inside
  BY <1>1, <1>2, <1>3, Move, Member DEF Moved
<1>5. /\ \A p \in 1..2 : Counted(p)' = Counted(p) /\ Openers(p)' = Openers(p)
      /\ Coming' = Coming /\ Between' = Between
  BY <1>1, <1>2, <1>3, MoveSame
<1>6. /\ QueuesOK' /\ SemaphoreShape'
      /\ Deposits("mutex") \/ \E h \in Threads : Chooses("mutex", h)
  BY <1>1, <1>2, <1>4, WaitPlaces, PostQueues
<1>7. \A r \in Semaphores : r # "mutex" => tokens'[r] = tokens[r] /\ granted'[r] = granted[r]
  BY <1>1, <1>2, <1>6, OthersAfterPost
<1>8. (Arriving \/ Departing)'
  BY <1>1, <1>2, <1>5, <1>7, TurnstileNames, SameRound
\* Nobody else has the mutex, so it is free or has one new owner.
<1>9. granted["mutex"] \subseteq {t} /\ Inside' = {} /\ tokens["mutex"] = 0
  BY <1>1, <1>4 DEF MutexOwned
<1>10. t \notin granted["mutex"]
  BY <1>1, <1>2, WaitPlaces, QueueFacts
<1>11. MutexOwned'
  <2>1. CASE Deposits("mutex")
    <3>1. tokens'["mutex"] = 1 /\ granted'["mutex"] = {}
      BY <1>1, <1>2, <1>9, <1>10, <2>1 DEF Deposits, Shape
    <3>2. QED BY <1>9, <3>1 DEF MutexOwned
  <2>2. ASSUME NEW h \in Threads, Chooses("mutex", h) PROVE MutexOwned'
    <3>1. tokens'["mutex"] = 0 /\ granted'["mutex"] = {h}
      BY <1>1, <1>2, <1>9, <1>10, <2>2 DEF Chooses, Shape
    <3>2. QED BY <1>9, <3>1 DEF MutexOwned
  <2>3. QED BY <1>6, <2>1, <2>2
<1>12. posts'[t] = 0 /\ posts' \in [Threads -> Nat]
  BY <1>1, <1>2, <1>3 DEF PostsFresh, Shape
<1>13. PostsFresh'
  BY <1>1, <1>2, <1>4, <1>12, FreshAfter
<1>14. CountOK'
  <2>1. Counted(1)' = Counted(1)
    BY <1>5
  <2>2. QED BY <1>1, <1>2, <1>5, <2>1 DEF CountOK
<1>15. QED
  BY <1>4, <1>6, <1>8, <1>11, <1>12, <1>13, <1>14, InvAfter

LEMMA PassStep ==
  ASSUME BInv, NEW t \in Threads, NEW phase \in 1..2, Pass(t, phase)
  PROVE  BInv'
<1> DEFINE v == IF phase = 1 THEN <<2, "enter">> ELSE Outside
           s == Turnstile(phase)
<1>1. /\ Shape /\ QueuesOK /\ MutexOwned /\ PostsFresh /\ CountOK
      /\ Arriving \/ Departing
  BY InvParts
<1>2. /\ at[t] = <<phase, "pass">> /\ v \in Places /\ sem_wait(t, s, v)
      /\ count' = count /\ posts' = posts
      /\ released' = IF at'[t] = Outside THEN released \ {t} ELSE released
      /\ s \in Semaphores /\ s # "mutex"
  BY StayOutOf, TurnstileNames DEF Pass
<1>3. /\ \A p \in 1..2 : (CountedAt(p, at[t]) <=> p = phase) /\ ~CountedAt(p, v)
      /\ \A p \in 1..2 : ~OpenerAt(p, at[t]) /\ ~OpenerAt(p, v)
      /\ ~ComingAt(at[t]) /\ (ComingAt(v) <=> phase = 2)
      /\ ~BetweenAt(at[t]) /\ (BetweenAt(v) <=> phase = 1)
      /\ ~InsideAt(at[t]) /\ ~InsideAt(v)
      /\ at[t] # Outside /\ (v = Outside <=> phase = 2)
      /\ at[t][2] # "open"
  BY <1>2 DEF CountedAt, OpenerAt, ComingAt, BetweenAt, InsideAt, Outside
<1> HIDE DEF v, s
<1>4. WaitsAt(t, s)
  BY <1>2, WaitPlaces DEF s
<1>5. CASE JoinsQueue(t, s) /\ at' = at
  BY <1>2, <1>3, <1>4, <1>5, JoinStep
<1>6. CASE GoesOn(t, s) /\ at' = [at EXCEPT ![t] = v]
  <2>1. /\ at' \in [Threads -> Places] /\ at'[t] = v
        /\ \A u \in Threads \ {t} : at'[u] = at[u]
    BY <1>1, <1>2, <1>6, Move
  <2>2. /\ \A p \in 1..2 : Openers(p)' = Openers(p)
        /\ \A p \in 1..2 : p # phase => Counted(p)' = Counted(p)
        /\ Inside' = Inside
        /\ phase = 1 => Coming' = Coming
        /\ phase = 2 => Between' = Between
    <3>1. \A p \in 1..2 : Openers(p)' = Openers(p)
      BY <1>1, <1>2, <1>3, <1>6, MoveSame
    <3>2. \A p \in 1..2 : p # phase => Counted(p)' = Counted(p)
      BY <1>1, <1>2, <1>3, <1>6, MoveSame
    <3>3. Inside' = Inside
      BY <1>1, <1>2, <1>3, <1>6, MoveSame
    <3>4. (phase = 1 => ~ComingAt(v)) /\ (phase = 2 => ~BetweenAt(v))
      BY <1>3
    <3>5. phase = 1 => Coming' = Coming
      BY <1>1, <1>2, <1>3, <1>6, <3>4, MoveSame
    <3>6. phase = 2 => Between' = Between
      BY <1>1, <1>2, <1>3, <1>6, <3>4, MoveSame
    <3>7. QED BY <3>1, <3>2, <3>3, <3>5, <3>6
  <2>3. Counted(phase)' = Counted(phase) \ {t} /\ t \in Counted(phase)
    <3>1. Counted(phase)' = Moved(Counted(phase), t, CountedAt(phase, v))
      BY <1>1, <1>2, <1>6, Move
    <3>2. ~CountedAt(phase, v) /\ CountedAt(phase, at[t])
      BY <1>3
    <3>3. QED BY <3>1, <3>2, Member DEF Moved
  <2>4. phase = 1 => Between' = Between \cup {t}
    BY <1>1, <1>2, <1>3, <1>6, Move DEF Moved
  <2>5. QueuesOK' /\ SemaphoreShape'
    BY <1>1, <1>2, <1>4, <1>6, <2>1, GoesOnQueues
  <2>6. \A r \in Semaphores : r # s => tokens'[r] = tokens[r] /\ granted'[r] = granted[r]
    BY <1>1, <1>2, <1>6, OthersAfterWait
  <2>7. MutexOwned'
    BY <1>1, <1>2, <2>2, <2>6, SameOwners DEF Semaphores
  <2>8. posts'[t] = 0 /\ posts' \in [Threads -> Nat]
    BY <1>1, <1>2, <1>3 DEF PostsFresh, Shape
  <2>9. PostsFresh'
    BY <1>1, <1>2, <2>1, <2>8, FreshAfter
  <2>10. CountOK'
    <3>1. CASE phase = 1
      <4>1. (Counted(1) \cup Between)' = Counted(1) \cup Between
        BY <2>3, <2>4, <3>1
      <4>2. QED BY <1>1, <1>2, <4>1 DEF CountOK
    <3>2. CASE phase = 2
      <4>1. (Counted(1) \cup Between)' = Counted(1) \cup Between
        BY <2>2, <3>2
      <4>2. QED BY <1>1, <1>2, <4>1 DEF CountOK
    <3>3. QED BY <3>1, <3>2
  <2>11. Made(phase)' = Made(phase) - 1 /\ Made(phase) \in Nat /\ ~Closed(phase)
    BY <1>1, <1>6, WaitUses DEF s
  <2>12. Opened(phase) => Opened(phase)'
    <3> SUFFICES ASSUME Opened(phase) PROVE Opened(phase)'
      OBVIOUS
    <3>1. /\ Cardinality(Counted(phase)') = Cardinality(Counted(phase)) - 1
          /\ Cardinality(Counted(phase)) \in Nat
      BY <2>3, PartsAreSets, RemoveThread, ThreadSets
    <3>2. CASE Openers(phase) = {}
      <4>1. Openers(phase)' = {}
        BY <2>2, <3>2
      <4>2. Made(phase)' = Cardinality(Counted(phase)')
        BY <2>11, <3>1, <3>2 DEF Opened
      <4>3. QED BY <4>1, <4>2 DEF Opened
    <3>3. ASSUME NEW u \in Openers(phase)
          PROVE  posts'[u] < val /\ Made(phase)' + (val - posts'[u]) = Cardinality(Counted(phase)')
      <4>1. posts[u] < val /\ Made(phase) + (val - posts[u]) = Cardinality(Counted(phase))
        BY DEF Opened
      <4>2. posts[u] \in Nat /\ val \in Nat /\ posts' = posts
        BY <1>1, <1>2, PartsAreSets, ThreadSets DEF Shape
      <4>3. QED BY <2>11, <3>1, <4>1, <4>2
    <3>4. Openers(phase)' = Openers(phase)
      BY <2>2
    <3>5. QED BY <3>2, <3>3, <3>4 DEF Opened
  <2>13. \A p \in 1..2 : p # phase => (Closed(p) => Closed(p)')
    <3>1. ASSUME NEW p \in 1..2, p # phase, Closed(p) PROVE Closed(p)'
      <4>1. Turnstile(p) \in Semaphores /\ Turnstile(p) # s
        BY <3>1, TurnstileNames DEF s
      <4>2. QED BY <2>2, <2>6, <3>1, <4>1 DEF Closed
    <3>2. QED BY <3>1
  <2>14. (Arriving \/ Departing)'
    <3>1. CASE Arriving
      <4>1. phase = 2
        BY <2>11, <3>1 DEF Arriving
      <4>2. released' = Counted(2)'
        BY <1>2, <1>3, <2>1, <2>3, <3>1, <4>1 DEF Arriving
      <4>3. QED BY <2>2, <2>12, <2>13, <3>1, <4>1, <4>2 DEF Arriving
    <3>2. CASE Departing
      <4>1. phase = 1
        BY <2>11, <3>2 DEF Departing
      <4>2. released' = Threads
        BY <1>2, <1>3, <2>1, <3>2, <4>1 DEF Departing
      <4>3. QED BY <2>2, <2>12, <2>13, <3>2, <4>1, <4>2 DEF Departing
    <3>3. QED BY <1>1, <3>1, <3>2
  <2>15. QED
    BY <2>1, <2>5, <2>7, <2>8, <2>9, <2>10, <2>14, InvAfter
<1>7. QED
  BY <1>2, <1>5, <1>6, WaitCases

LEMMA BInitInv == ASSUME BInit PROVE BInv
<1>1. /\ tokens = [s \in Semaphores |-> IF s = "mutex" THEN 1 ELSE 0]
      /\ queue = [s \in Semaphores |-> <<>>]
      /\ granted = [s \in Semaphores |-> {}]
      /\ count = 0
      /\ at = [t \in Threads |-> Outside]
      /\ posts = [t \in Threads |-> 0]
      /\ released = {}
  BY DEF BInit, barrier_init
<1>2. /\ \A phase \in 1..2 : Counted(phase) = {} /\ Openers(phase) = {}
      /\ Between = {} /\ Inside = {}
  <2>1. \A t \in Threads : at[t] = Outside
    BY <1>1
  <2>2. \A phase \in 1..2 : Counted(phase) = {} /\ Openers(phase) = {}
    BY <2>1 DEF Counted, Openers, Outside
  <2>3. Between = {} /\ Inside = {}
    BY <2>1 DEF Between, Inside, Outside
  <2>4. QED BY <2>2, <2>3
<1>3. BTypeOK
  <2>1. 0 \in 0..val /\ 1 \in 0..val
    BY ThreadSets
  <2>2. QED BY <1>1, <2>1, StayOutOf DEF BTypeOK
<1>4. QueuesOK
  BY <1>1 DEF QueuesOK, Sem!InQueue
<1>5. MutexOwned
  BY <1>1, <1>2 DEF MutexOwned, Semaphores
<1>6. Arriving
  <2>1. Closed(1)
    BY <1>1, <1>2, TurnstileNames DEF Closed
  <2>2. Made(2) = 0
    BY <1>1, FS_EmptySet, TurnstileNames DEF Made
  <2>3. Opened(2)
    BY <1>2, <2>2, FS_EmptySet DEF Opened
  <2>4. QED BY <1>1, <1>2, <2>1, <2>3 DEF Arriving
<1>7. /\ \A t \in Threads : posts[t] = 0
      /\ count = Cardinality(Counted(1) \cup Between)
  <2>1. \A t \in Threads : posts[t] = 0
    BY <1>1
  <2>2. Counted(1) \cup Between = {}
    BY <1>2
  <2>3. Cardinality({}) = 0
    BY FS_EmptySet
  <2>4. QED BY <1>1, <2>1, <2>2, <2>3
<1>8. QED BY <1>3, <1>4, <1>5, <1>6, <1>7 DEF BInv

LEMMA BNextInv ==
  ASSUME BInv, [BNext]_bvars
  PROVE  BInv'
<1>1. ASSUME NEW t \in Threads, Call(t) PROVE BInv'
  BY <1>1, CallStep
<1>2. ASSUME NEW t \in Threads, NEW phase \in 1..2,
             Enter(t, phase) \/ Count(t, phase) \/ Open(t, phase)
               \/ Leave(t, phase) \/ Pass(t, phase)
      PROVE  BInv'
  BY <1>2, EnterStep, CountStep, OpenStep, LeaveStep, PassStep
<1>3. CASE UNCHANGED bvars
  <2>1. /\ tokens' = tokens /\ queue' = queue /\ granted' = granted
        /\ count' = count /\ at' = at /\ posts' = posts /\ released' = released
    BY <1>3 DEF bvars
  <2>2. /\ Shape /\ QueuesOK /\ MutexOwned /\ PostsFresh /\ CountOK
        /\ Arriving \/ Departing
    BY InvParts
  <2>3. QueuesOK'
    BY <2>1, <2>2, QueueFacts, SameWait, QueuesAfter
  <2>4. MutexOwned' /\ PostsFresh' /\ CountOK'
    BY <2>1, <2>2, NothingMoves, SameOwners DEF PostsFresh, CountOK
  <2>5. (Arriving \/ Departing)'
    BY <2>1, <2>2, NothingMoves, SameRound
  <2>6. SemaphoreShape' /\ at' \in [Threads -> Places] /\ posts' \in [Threads -> Nat]
    BY <2>1, <2>2 DEF Shape, SemaphoreShape
  <2>7. QED BY <2>3, <2>4, <2>5, <2>6, InvAfter
<1>4. QED BY <1>1, <1>2, <1>3 DEF BNext, Step

-----------------------------------------------------------------------------
(* The theorems.                                                           *)

\* The inductive invariant holds in every state of every behavior.
THEOREM BarrierInvariant == BSpec => []BInv
<1>1. BInit => BInv
  BY BInitInv
<1>2. BInv /\ [BNext]_bvars => BInv'
  BY BNextInv
<1>3. QED BY <1>1, <1>2, PTL DEF BSpec

\* Types; no turnstile ever holds more posts than there are threads
\* (barrier.c:31-33, 43-45).
THEOREM BarrierTypes == BSpec => []BTypeOK
<1>1. BInv => BTypeOK
  BY DEF BInv
<1>2. QED BY <1>1, BarrierInvariant, PTL

\* The mutex of the barrier excludes, and count counts (barrier.c:29-36, 41-48).
THEOREM BarrierCounts == BSpec => []CountsThreads
<1>1. ASSUME BInv PROVE CountsThreads
  <2>1. \A t, u \in Inside : t = u
    BY <1>1 DEF BInv, MutexOwned
  <2>2. Cardinality(Inside) <= 1
    <3>1. CASE Inside = {}
      BY <3>1, FS_EmptySet
    <3>2. CASE Inside # {}
      <4>1. PICK t \in Inside : Inside = {t}
        BY <2>1, <3>2
      <4>2. QED BY <4>1, FS_Singleton
    <3>3. QED BY <3>1, <3>2
  <2>3. QED BY <1>1, <2>2 DEF BInv, CountsThreads, Inside, Between
<1>2. QED BY <1>1, BarrierInvariant, PTL

\* Every post has a thread still to go through the turnstile: the next round
\* finds no post of this one (barrier.c:31-37, 43-49).
THEOREM BarrierPosts == BSpec => []NoPostLeftOver
<1>1. ASSUME BInv PROVE NoPostLeftOver
  <2>1. ASSUME NEW phase \in 1..2 PROVE Made(phase) <= Cardinality(Counted(phase))
    <3>1. /\ Cardinality(Counted(phase)) \in Nat
          /\ Cardinality(granted[Turnstile(phase)]) \in Nat
          /\ tokens[Turnstile(phase)] \in Nat
          /\ \A t \in Openers(phase) : posts[t] \in Nat
          /\ val \in Nat
      BY <1>1, InvShape, PartsAreSets, ThreadSets, TurnstileNames DEF Shape
    <3>2. Made(phase) \in Nat
      BY <3>1 DEF Made
    <3>3. Closed(phase) \/ Opened(phase)
      BY <1>1 DEF BInv, Arriving, Departing
    <3>4. CASE Closed(phase)
      <4>1. Made(phase) = 0
        BY <3>4, FS_EmptySet DEF Made, Closed
      <4>2. QED BY <3>1, <4>1
    <3>5. CASE Opened(phase) /\ Openers(phase) = {}
      BY <3>1, <3>2, <3>5 DEF Opened
    <3>6. CASE Opened(phase) /\ Openers(phase) # {}
      <4>1. PICK t \in Openers(phase) : TRUE
        BY <3>6
      <4>2. posts[t] < val /\ Made(phase) + (val - posts[t]) = Cardinality(Counted(phase))
        BY <3>6 DEF Opened
      <4>3. QED BY <3>1, <3>2, <4>2
    <3>7. QED BY <3>3, <3>4, <3>5, <3>6
  <2>2. QED BY <2>1 DEF NoPostLeftOver
<1>2. QED BY <1>1, BarrierInvariant, PTL

-----------------------------------------------------------------------------
(* The refinement of AbstractBarrier.                                      *)

PlaceOf(v, t, let) ==
  IF v = Outside THEN "outside" ELSE IF t \in let THEN "released" ELSE "waiting"

LEMMA Mapping ==
  /\ place = [t \in Threads |-> PlaceOf(at[t], t, released)]
  /\ place' = [t \in Threads |-> PlaceOf(at'[t], t, released')]
BY DEF place, PlaceOf

\* The release of a round is the count of the last thread in phase 1.
LEMMA CountAbstract ==
  ASSUME BInv, NEW t \in Threads, NEW phase \in 1..2, Count(t, phase)
  PROVE  [Abstract!BNext]_place
<1> DEFINE n == IF phase = 1 THEN count + 1 ELSE count - 1
           v == IF EveryoneCounted(n, phase) THEN <<phase, "open">> ELSE <<phase, "leave">>
           S == Counted(1) \cup Between
<1>1. Shape /\ (Arriving \/ Departing)
  BY InvParts
<1>2. /\ at[t] = <<phase, "count">> /\ at' = [at EXCEPT ![t] = v]
      /\ released' = IF EveryoneCounted(n, phase) /\ phase = 1 THEN Threads ELSE released
  BY DEF Count
<1>3. v # Outside /\ at[t] # Outside
  BY <1>2 DEF Outside
<1> HIDE DEF v
<1>4. \A u \in Threads : at'[u] = Outside <=> at[u] = Outside
  BY <1>1, <1>2, <1>3 DEF Shape
<1>5. CASE ~(EveryoneCounted(n, phase) /\ phase = 1)
  <2>1. \A u \in Threads : PlaceOf(at'[u], u, released') = PlaceOf(at[u], u, released)
    BY <1>2, <1>4, <1>5 DEF PlaceOf
  <2>2. place' = place
    BY <2>1, Mapping
  <2>3. QED BY <2>2
<1>6. CASE EveryoneCounted(n, phase) /\ phase = 1
  <2>1. S \cup {t} = Threads
    BY <1>2, <1>6, CountSets
  <2>2. ComingAt(at[t])
    BY <1>2, <1>6 DEF ComingAt
  <2>3. Arriving
    BY <1>1, <2>2, Member DEF Departing
  <2>4. Between = {} /\ released = Counted(2) /\ t \notin Counted(2)
    BY <2>2, <2>3, Member, PartsAreSets DEF Arriving
  <2>5. released = {} /\ \A u \in Threads \ {t} : u \in Counted(1)
    BY <2>1, <2>4, PartsAreSets
  <2>6. \A u \in Threads : at[u] # Outside
    <3>1. \A u \in Counted(1) : at[u] # Outside
      BY DEF Counted, Outside
    <3>2. QED BY <1>3, <2>5, <3>1
  <2>7. \A u \in Threads : place[u] = "waiting"
    BY <2>5, <2>6, Mapping DEF PlaceOf
  <2>8. place' = [u \in Threads |-> "released"]
    <3>1. \A u \in Threads : PlaceOf(at'[u], u, released') = "released"
      BY <1>2, <1>4, <1>6, <2>6 DEF PlaceOf
    <3>2. QED BY <3>1, Mapping
  <2>9. Abstract!Release
    BY <2>7, <2>8 DEF Abstract!Release
  <2>10. QED BY <2>9 DEF Abstract!BNext
<1>7. QED BY <1>5, <1>6

\* A step of one thread in the abstract barrier.
LEMMA OneMoves ==
  ASSUME BInv, NEW t \in Threads, NEW v, at' = [at EXCEPT ![t] = v],
         \A u \in Threads \ {t} : u \in released' <=> u \in released
  PROVE  place' = [place EXCEPT ![t] = PlaceOf(v, t, released')]
<1>1. at'[t] = v /\ \A u \in Threads \ {t} : at'[u] = at[u]
  BY InvShape DEF Shape
<1>2. \A u \in Threads : PlaceOf(at'[u], u, released') =
        IF u = t THEN PlaceOf(v, t, released') ELSE PlaceOf(at[u], u, released)
  BY <1>1 DEF PlaceOf
<1>3. QED BY <1>2, Mapping

LEMMA CallAbstract ==
  ASSUME BInv, NEW t \in Threads, Call(t)
  PROVE  Abstract!BNext
<1>1. /\ at[t] = Outside /\ at' = [at EXCEPT ![t] = <<1, "enter">>]
      /\ released' = released
  BY DEF Call
<1>2. t \in Coming
  BY <1>1, Member DEF ComingAt
<1>3. t \notin released
  BY <1>2, InvParts, PartsAreSets DEF Arriving, Departing
<1>4. place[t] = "outside"
  BY <1>1, Mapping DEF PlaceOf
<1>5. PlaceOf(<<1, "enter">>, t, released') = "waiting"
  BY <1>1, <1>3 DEF PlaceOf, Outside
<1>6. place' = [place EXCEPT ![t] = "waiting"]
  BY <1>1, <1>5, OneMoves
<1>7. Abstract!Arrive(t)
  BY <1>4, <1>6 DEF Abstract!Arrive
<1>8. QED BY <1>7 DEF Abstract!BNext

\* The second turnstile lets out only threads that were released.
LEMMA PassAbstract ==
  ASSUME BInv, NEW t \in Threads, NEW phase \in 1..2, Pass(t, phase)
  PROVE  [Abstract!BNext]_place
<1> DEFINE v == IF phase = 1 THEN <<2, "enter">> ELSE Outside
           s == Turnstile(phase)
<1>1. /\ Shape /\ (Arriving \/ Departing)
  BY InvParts
<1>2. /\ at[t] = <<phase, "pass">> /\ sem_wait(t, s, v) /\ s \in Semaphores
      /\ released' = IF at'[t] = Outside THEN released \ {t} ELSE released
      /\ at[t] # Outside
  BY TurnstileNames DEF Pass, Outside
<1>3. v = Outside <=> phase = 2
  BY DEF Outside
<1> HIDE DEF v, s
<1>4. CASE at' = at
  <2>1. released' = released
    BY <1>2, <1>4
  <2>2. place' = place
    BY <1>4, <2>1, Mapping
  <2>3. QED BY <2>2
<1>5. CASE GoesOn(t, s) /\ at' = [at EXCEPT ![t] = v]
  <2>1. at'[t] = v
    BY <1>1, <1>5 DEF Shape
  <2>2. CASE phase = 1
    <3>1. released' = released /\ v # Outside
      BY <1>2, <1>3, <2>1, <2>2
    <3>2. \A u \in Threads : PlaceOf(at'[u], u, released') = PlaceOf(at[u], u, released)
      BY <1>1, <1>2, <1>5, <2>1, <3>1 DEF PlaceOf, Shape
    <3>3. place' = place
      BY <3>2, Mapping
    <3>4. QED BY <3>3
  <2>3. CASE phase = 2
    <3>1. released' = released \ {t} /\ v = Outside
      BY <1>2, <1>3, <2>1, <2>3
    <3>2. ~Closed(2)
      BY <1>1, <1>5, <2>3, WaitUses DEF s
    <3>3. t \in Counted(2)
      BY <1>2, <2>3, Member DEF CountedAt
    <3>4. t \in released
      BY <1>1, <3>2, <3>3 DEF Arriving, Departing
    <3>5. place[t] = "released"
      BY <1>2, <3>4, Mapping DEF PlaceOf
    <3>6. PlaceOf(v, t, released') = "outside"
      BY <3>1 DEF PlaceOf
    <3>7. \A u \in Threads \ {t} : u \in released' <=> u \in released
      BY <3>1
    <3>8. place' = [place EXCEPT ![t] = "outside"]
      BY <1>5, <3>6, <3>7, OneMoves
    <3>9. Abstract!Return(t)
      BY <3>5, <3>8 DEF Abstract!Return
    <3>10. QED BY <3>9 DEF Abstract!BNext
  <2>4. QED BY <2>2, <2>3
<1>6. QED
  BY <1>2, <1>4, <1>5, WaitCases

\* Every other step of barrier_wait leaves the thread inside.
LEMMA InsideAbstract ==
  ASSUME BInv, NEW t \in Threads, NEW v, v # Outside, at[t] # Outside,
         at' = at \/ at' = [at EXCEPT ![t] = v], released' = released
  PROVE  place' = place
<1>1. \A u \in Threads : at'[u] = Outside <=> at[u] = Outside
  BY InvShape DEF Shape
<1>2. \A u \in Threads : PlaceOf(at'[u], u, released') = PlaceOf(at[u], u, released)
  BY <1>1 DEF PlaceOf
<1>3. QED BY <1>2, Mapping

LEMMA BNextAbstract ==
  ASSUME BInv, [BNext]_bvars
  PROVE  [Abstract!BNext]_place
<1>1. ASSUME NEW t \in Threads, Call(t) PROVE [Abstract!BNext]_place
  BY <1>1, CallAbstract
<1>2. ASSUME NEW t \in Threads, NEW phase \in 1..2, Enter(t, phase)
      PROVE  [Abstract!BNext]_place
  <2>1. /\ at[t] # Outside /\ <<phase, "count">> # Outside /\ released' = released
        /\ at' = at \/ at' = [at EXCEPT ![t] = <<phase, "count">>]
    BY <1>2 DEF Enter, sem_wait, Outside
  <2>2. QED BY <2>1, InsideAbstract
<1>3. ASSUME NEW t \in Threads, NEW phase \in 1..2, Open(t, phase)
      PROVE  [Abstract!BNext]_place
  <2>1. /\ at[t] # Outside /\ <<phase, "leave">> # Outside /\ released' = released
        /\ at' = at \/ at' = [at EXCEPT ![t] = <<phase, "leave">>]
    BY <1>3 DEF Open, Outside
  <2>2. QED BY <2>1, InsideAbstract
<1>4. ASSUME NEW t \in Threads, NEW phase \in 1..2, Leave(t, phase)
      PROVE  [Abstract!BNext]_place
  <2>1. /\ at[t] # Outside /\ <<phase, "pass">> # Outside /\ released' = released
        /\ at' = [at EXCEPT ![t] = <<phase, "pass">>]
    BY <1>4 DEF Leave, Outside
  <2>2. QED BY <2>1, InsideAbstract
<1>5. ASSUME NEW t \in Threads, NEW phase \in 1..2, Count(t, phase) \/ Pass(t, phase)
      PROVE  [Abstract!BNext]_place
  BY <1>5, CountAbstract, PassAbstract
<1>6. CASE UNCHANGED bvars
  BY <1>6, Mapping DEF bvars
<1>7. QED BY <1>1, <1>2, <1>3, <1>4, <1>5, <1>6 DEF BNext, Step

LEMMA BInitAbstract == ASSUME BInit PROVE Abstract!BInit
<1>1. \A t \in Threads : PlaceOf(at[t], t, released) = "outside"
  BY DEF BInit, PlaceOf
<1>2. QED BY <1>1, Mapping DEF Abstract!BInit

\* barrier.c is a reusable barrier for any number of threads: nobody returns
\* before all have called in this round (barrier.c:28-59).
THEOREM BarrierRefinement == BSpec => ImplementsAbstractBarrier
<1>1. BInit => Abstract!BInit
  BY BInitAbstract
<1>2. BInv /\ [BNext]_bvars => [Abstract!BNext]_place
  BY BNextAbstract
<1>3. QED
  BY <1>1, <1>2, BarrierInvariant, PTL
  DEF BSpec, ImplementsAbstractBarrier, Abstract!BSpec
=============================================================================
