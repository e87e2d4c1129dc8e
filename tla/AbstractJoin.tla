---------------------------- MODULE AbstractJoin ----------------------------
(***************************************************************************)
(* What thrd_join promises of a thread that is running: whoever has joined *)
(* it when it exits comes back, and comes back only then.  Nothing is said *)
(* of the scheduler, of the memory or of the return code.                  *)
(***************************************************************************)
CONSTANT Threads

VARIABLES phase,     \* [Threads -> {"free", "running", "ending"}]
          waiters,   \* the threads that have joined each thread
          go         \* the threads that may return from thrd_join

javars == <<phase, waiters, go>>

\* A running thread that is not inside thrd_join.
AtLiberty(t) ==
  /\ phase[t] = "running"
  /\ t \notin go
  /\ \A u \in Threads : t \notin waiters[u]

JAInit ==
  /\ phase \in [Threads -> {"free", "running"}]
  /\ waiters = [t \in Threads |-> {}]
  /\ go = {}

Create(u) ==
  /\ phase[u] = "free"
  /\ phase' = [phase EXCEPT ![u] = "running"]
  /\ waiters' = [waiters EXCEPT ![u] = {}]
  /\ UNCHANGED go

Join(t, u) ==
  /\ AtLiberty(t)
  /\ phase[u] = "running"
  /\ waiters' = [waiters EXCEPT ![u] = @ \cup {t}]
  /\ UNCHANGED <<phase, go>>

Exit(u) ==
  /\ AtLiberty(u)
  /\ phase' = [phase EXCEPT ![u] = "ending"]
  /\ go' = go \cup waiters[u]
  /\ waiters' = [waiters EXCEPT ![u] = {}]

Return(t) ==
  /\ t \in go
  /\ go' = go \ {t}
  /\ UNCHANGED <<phase, waiters>>

Kill(u) ==
  /\ phase[u] = "ending"
  /\ phase' = [phase EXCEPT ![u] = "free"]
  /\ UNCHANGED <<waiters, go>>

JANext ==
  \/ \E u \in Threads : Create(u) \/ Exit(u) \/ Return(u) \/ Kill(u)
  \/ \E t, u \in Threads : Join(t, u)

JASpec == JAInit /\ [][JANext]_javars
=============================================================================
