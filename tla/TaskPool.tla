------------------------------- MODULE TaskPool -------------------------------
(***************************************************************************)
(* What a pool of workers promises its callers, whatever its threads and   *)
(* queues: a submitted task is executed at most once and its result is     *)
(* handed to at most one caller, once.  ParallelExecutor implements it.    *)
(***************************************************************************)
CONSTANTS Tasks, Callers

VARIABLES
  known,      \* tasks ever given to the pool
  pending,    \* submitted, not executed yet
  executed,   \* executed, the result not handed out yet
  taken       \* the results each caller was handed

poolVars == <<known, pending, executed, taken>>

PoolInit ==
  /\ known = {}
  /\ pending = {}
  /\ executed = {}
  /\ taken = [c \in Callers |-> {}]

Submit(t) ==
  /\ t \notin known
  /\ known' = known \cup {t}
  /\ pending' = pending \cup {t}
  /\ UNCHANGED <<executed, taken>>

ExecuteTask(t) ==
  /\ t \in pending
  /\ pending' = pending \ {t}
  /\ executed' = executed \cup {t}
  /\ UNCHANGED <<known, taken>>

Deliver(c, t) ==
  /\ t \in executed
  /\ executed' = executed \ {t}
  /\ taken' = [taken EXCEPT ![c] = @ \cup {t}]
  /\ UNCHANGED <<known, pending>>

(* Tasks the caller executes itself: the pool is switched off.             *)
RunLocally(c, S) ==
  /\ S \cap known = {}
  /\ known' = known \cup S
  /\ taken' = [taken EXCEPT ![c] = @ \cup S]
  /\ UNCHANGED <<pending, executed>>

(* Results nobody can ask for any more.                                    *)
Lose(S) ==
  /\ S \subseteq executed
  /\ executed' = executed \ S
  /\ UNCHANGED <<known, pending, taken>>

PoolNext ==
  \/ \E t \in Tasks : Submit(t) \/ ExecuteTask(t) \/ \E c \in Callers : Deliver(c, t)
  \/ \E S \in SUBSET Tasks : Lose(S) \/ \E c \in Callers : RunLocally(c, S)

PoolSpec == PoolInit /\ [][PoolNext]_poolVars
=============================================================================
