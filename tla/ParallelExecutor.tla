--------------------------- MODULE ParallelExecutor ---------------------------
(***************************************************************************)
(* The work-queue executor of crates/performance/src/parallel.rs: callers  *)
(* that submit tasks and collect results, worker threads over a bounded    *)
(* task channel and an unbounded result channel, shutdown and drop.        *)
(*                                                                         *)
(* A task is <<c, i>>, the i-th of caller c's batch.  What a task computes *)
(* is left out; whether it overran max_task_duration is a choice.  One     *)
(* action per step another thread can observe: a channel operation or an   *)
(* atomic counter update.                                                  *)
(***************************************************************************)
EXTENDS Integers, Sequences, FiniteSets, Functions

CONSTANTS
  Callers,        \* threads sharing the executor
  Demand,         \* number of tasks in each caller's batch
  Collectors,     \* callers of execute_parallel; the others submit_batch
  Workers,        \* config.worker_threads threads
  QueueCapacity,  \* config.queue_capacity, 0 for an unbounded channel
  NoTask

ASSUME ExecutorAssumption ==
  /\ Demand \in [Callers -> Nat]
  /\ Collectors \subseteq Callers
  /\ QueueCapacity \in Nat
  /\ IsFiniteSet(Callers) /\ IsFiniteSet(Workers)

Batch(c) == {<<c, i>> : i \in 1 .. Demand[c]}
Tasks == UNION {Batch(c) : c \in Callers}

ASSUME NoTaskAssumption == NoTask \notin Tasks

VARIABLES
  parallel,    \* config.enable_parallel
  pc,          \* where each caller is
  sent,        \* tasks of its batch each caller has submitted
  got,         \* results each caller has collected
  queue,       \* task channel
  results,     \* result channel
  wpc, wtask,  \* where each worker is and the task it holds
  status,      \* TaskResult.status of the executed tasks
  stats,       \* ParallelStats: submitted, completed, failed
  wstats,      \* WorkerStats of each worker: completed, failed
  active,      \* active_tasks
  owner        \* the executor value: open, closing (shutdown), joined, dropped

callerVars == <<parallel, pc, sent, got>>
workerVars == <<wpc, wtask, status, wstats, active>>
vars == <<parallel, pc, sent, got, queue, results, wpc, wtask, status, stats,
          wstats, active, owner>>

Init ==
  /\ parallel \in BOOLEAN
  /\ pc = [c \in Callers |-> "submit"]
  /\ sent = [c \in Callers |-> 0]
  /\ got = [c \in Callers |-> << >>]
  /\ queue = << >>
  /\ results = << >>
  /\ wpc = [w \in Workers |-> "idle"]
  /\ wtask = [w \in Workers |-> NoTask]
  /\ status = [t \in Tasks |-> "none"]
  /\ stats = [submitted |-> 0, completed |-> 0, failed |-> 0]
  /\ wstats = [w \in Workers |-> [completed |-> 0, failed |-> 0]]
  /\ active = 0
  /\ owner = "open"

-----------------------------------------------------------------------------
(* Callers: submit_task, submit_batch, execute_parallel.                   *)

(* submit_task counts the task before it sends it.                         *)
CountTask(c) ==
  /\ parallel
  /\ pc[c] = "submit"
  /\ sent[c] < Demand[c]
  /\ stats' = [stats EXCEPT !.submitted = @ + 1]
  /\ pc' = [pc EXCEPT ![c] = "send"]
  /\ UNCHANGED <<parallel, sent, got, queue, results, workerVars, owner>>

(* Mutant: try_send, a task is given up when the channel is full.          *)
SendTaskTries(c) ==
  /\ pc[c] = "send"
  /\ queue' = IF QueueCapacity = 0 \/ Len(queue) < QueueCapacity
              THEN Append(queue, <<c, sent[c] + 1>>) ELSE queue
  /\ sent' = [sent EXCEPT ![c] = @ + 1]
  /\ pc' = [pc EXCEPT ![c] = "submit"]
  /\ UNCHANGED <<parallel, got, results, workerVars, stats, owner>>

(* The send blocks while the bounded channel is full.                      *)
SendTask(c) ==
  /\ pc[c] = "send"
  /\ QueueCapacity = 0 \/ Len(queue) < QueueCapacity
  /\ queue' = Append(queue, <<c, sent[c] + 1>>)
  /\ sent' = [sent EXCEPT ![c] = @ + 1]
  /\ pc' = [pc EXCEPT ![c] = "submit"]
  /\ UNCHANGED <<parallel, got, results, workerVars, stats, owner>>

AllSubmitted(c) ==
  /\ parallel
  /\ pc[c] = "submit"
  /\ sent[c] = Demand[c]
  /\ pc' = [pc EXCEPT ![c] = IF c \in Collectors THEN "collect" ELSE "done"]
  /\ UNCHANGED <<parallel, sent, got, queue, results, workerVars, stats, owner>>

(* Mutant: a result is looked at and left in the channel.                  *)
CollectResultPeeks(c) ==
  /\ pc[c] = "collect"
  /\ Len(got[c]) < Demand[c]
  /\ results # << >>
  /\ got' = [got EXCEPT ![c] = Append(@, Head(results))]
  /\ UNCHANGED <<parallel, pc, sent, queue, results, workerVars, stats, owner>>

(* recv_timeout: whatever result comes first, whoever submitted it.  A     *)
(* timeout only tries again.                                               *)
CollectResult(c) ==
  /\ pc[c] = "collect"
  /\ Len(got[c]) < Demand[c]
  /\ results # << >>
  /\ got' = [got EXCEPT ![c] = Append(@, Head(results))]
  /\ results' = Tail(results)
  /\ UNCHANGED <<parallel, pc, sent, queue, workerVars, stats, owner>>

Return(c) ==
  /\ pc[c] = "collect"
  /\ Len(got[c]) = Demand[c]
  /\ pc' = [pc EXCEPT ![c] = "done"]
  /\ UNCHANGED <<parallel, sent, got, queue, results, workerVars, stats, owner>>

(* enable_parallel = false: execute_parallel runs its batch itself, in     *)
(* order, and submit_task is an error.                                     *)
ExecuteSequential(c) ==
  /\ ~parallel
  /\ pc[c] = "submit"
  /\ c \in Collectors
  /\ got' = [got EXCEPT ![c] = [i \in 1 .. Demand[c] |-> <<c, i>>]]
  /\ status' = [t \in Tasks |-> IF t \in Batch(c) THEN "completed" ELSE status[t]]
  /\ pc' = [pc EXCEPT ![c] = "done"]
  /\ UNCHANGED <<parallel, sent, queue, results, wpc, wtask, stats, wstats, active, owner>>

RejectSubmit(c) ==
  /\ ~parallel
  /\ pc[c] = "submit"
  /\ c \notin Collectors
  /\ pc' = [pc EXCEPT ![c] = "done"]
  /\ UNCHANGED <<parallel, sent, got, queue, results, workerVars, stats, owner>>

Caller(c) ==
  \/ CountTask(c) \/ SendTask(c) \/ AllSubmitted(c) \/ CollectResult(c)
  \/ Return(c) \/ ExecuteSequential(c) \/ RejectSubmit(c)

-----------------------------------------------------------------------------
(* Workers: worker_thread_main.                                            *)

(* Mutant: a task is left at the head of the channel while it is run.      *)
TakeTaskPeeks(w) ==
  /\ wpc[w] = "idle"
  /\ queue # << >>
  /\ wtask' = [wtask EXCEPT ![w] = Head(queue)]
  /\ wpc' = [wpc EXCEPT ![w] = "taken"]
  /\ UNCHANGED <<callerVars, queue, results, status, stats, wstats, active, owner>>

TakeTask(w) ==
  /\ wpc[w] = "idle"
  /\ queue # << >>
  /\ wtask' = [wtask EXCEPT ![w] = Head(queue)]
  /\ queue' = Tail(queue)
  /\ wpc' = [wpc EXCEPT ![w] = "taken"]
  /\ UNCHANGED <<callerVars, results, status, stats, wstats, active, owner>>

BeginTask(w) ==
  /\ wpc[w] = "taken"
  /\ active' = active + 1
  /\ wpc' = [wpc EXCEPT ![w] = "running"]
  /\ UNCHANGED <<callerVars, queue, results, wtask, status, stats, wstats, owner>>

(* execute_task and the worker's own counters.  The time limit is looked   *)
(* at when the task is over: it changes the status, it stops nothing.      *)
ExecuteTask(w) ==
  /\ wpc[w] = "running"
  /\ \E timedOut \in BOOLEAN :
       /\ status' = [status EXCEPT ![wtask[w]] =
                       IF timedOut THEN "timedOut" ELSE "completed"]
       /\ wstats' = IF timedOut THEN [wstats EXCEPT ![w].failed = @ + 1]
                    ELSE [wstats EXCEPT ![w].completed = @ + 1]
  /\ wpc' = [wpc EXCEPT ![w] = "executed"]
  /\ UNCHANGED <<callerVars, queue, results, wtask, stats, active, owner>>

(* The send fails, and the worker stops, only when the executor is gone.   *)
SendResult(w) ==
  /\ wpc[w] = "executed"
  /\ IF owner = "dropped"
     THEN /\ wpc' = [wpc EXCEPT ![w] = "stopped"]
          /\ UNCHANGED results
     ELSE /\ wpc' = [wpc EXCEPT ![w] = "reported"]
          /\ results' = Append(results, wtask[w])
  /\ wtask' = [wtask EXCEPT ![w] = NoTask]
  /\ UNCHANGED <<callerVars, queue, status, stats, wstats, active, owner>>

(* Mutant: the counter of active tasks is left to the worker's end.        *)
FinishTaskForgets(w) ==
  /\ wpc[w] = "reported"
  /\ wpc' = [wpc EXCEPT ![w] = "idle"]
  /\ UNCHANGED <<callerVars, queue, results, wtask, status, stats, wstats, active, owner>>

FinishTask(w) ==
  /\ wpc[w] = "reported"
  /\ active' = active - 1
  /\ wpc' = [wpc EXCEPT ![w] = "idle"]
  /\ UNCHANGED <<callerVars, queue, results, wtask, status, stats, wstats, owner>>

WorkerStops(w, Condition) ==
  /\ wpc[w] = "idle"
  /\ Condition
  /\ wpc' = [wpc EXCEPT ![w] = "stopped"]
  /\ UNCHANGED <<callerVars, queue, results, wtask, status, stats, wstats, active, owner>>

(* Mutants: a worker stops as soon as the executor shuts down; it polls    *)
(* with try_recv and stops on an empty channel; shutdown keeps a clone of  *)
(* the sender while it joins.                                              *)
StopWorkerAtOnce(w) == WorkerStops(w, owner # "open")
StopWorkerOnEmpty(w) == WorkerStops(w, queue = << >>)
StopWorkerOnDrop(w) == WorkerStops(w, queue = << >> /\ owner = "dropped")

(* recv is an error once the sender is dropped and the channel drained.    *)
StopWorker(w) == WorkerStops(w, queue = << >> /\ owner # "open")

Worker(w) ==
  \/ TakeTask(w) \/ BeginTask(w) \/ ExecuteTask(w) \/ SendResult(w)
  \/ FinishTask(w) \/ StopWorker(w)

-----------------------------------------------------------------------------
(* The owner.  shutdown consumes the executor, so no call is running.      *)

NoCallRunning == \A c \in Callers : pc[c] = "done"

Shutdown ==
  /\ owner = "open"
  /\ NoCallRunning
  /\ owner' = "closing"
  /\ UNCHANGED <<callerVars, queue, results, workerVars, stats>>

Join ==
  /\ owner = "closing"
  /\ \A w \in Workers : wpc[w] = "stopped"
  /\ owner' = "joined"
  /\ UNCHANGED <<callerVars, queue, results, workerVars, stats>>

(* Dropped without shutdown: the result receiver is gone, nobody joins.    *)
DropExecutor ==
  /\ owner = "open"
  /\ NoCallRunning
  /\ owner' = "dropped"
  /\ results' = << >>
  /\ UNCHANGED <<callerVars, queue, workerVars, stats>>

Owner == Shutdown \/ Join \/ DropExecutor

Next == (\E c \in Callers : Caller(c)) \/ (\E w \in Workers : Worker(w)) \/ Owner

(* Operating-system threads; the owner need not ever shut down, but once   *)
(* it does it waits for the workers.                                       *)
Fairness ==
  /\ \A c \in Callers : WF_vars(Caller(c))
  /\ \A w \in Workers : WF_vars(Worker(w))
  /\ WF_vars(Join)

Spec == Init /\ [][Next]_vars
FairSpec == Spec /\ Fairness
-----------------------------------------------------------------------------
(* Properties.                                                             *)

PCs == {"submit", "send", "collect", "done"}
WPCs == {"idle", "taken", "running", "executed", "reported", "stopped"}

TypeOK ==
  /\ parallel \in BOOLEAN
  /\ pc \in [Callers -> PCs]
  /\ sent \in [Callers -> Nat]
  /\ got \in [Callers -> Seq(Tasks)]
  /\ queue \in Seq(Tasks)
  /\ results \in Seq(Tasks)
  /\ wpc \in [Workers -> WPCs]
  /\ wtask \in [Workers -> Tasks \cup {NoTask}]
  /\ status \in [Tasks -> {"none", "completed", "timedOut"}]
  /\ stats \in [submitted : Nat, completed : Nat, failed : Nat]
  /\ wstats \in [Workers -> [completed : Nat, failed : Nat]]
  /\ active \in Int
  /\ owner \in {"open", "closing", "joined", "dropped"}

(* Where a task can be: the task channel, a worker, the result channel,    *)
(* the results of a caller.                                                *)
Submitted == {t \in Tasks : t[2] <= sent[t[1]]}
Queued == Range(queue)
Held == {wtask[w] : w \in Workers} \ {NoTask}
Reported == Range(results)
Collected(c) == Range(got[c])
AllCollected == UNION {Collected(c) : c \in Callers}

(* No task is ever in two places or twice in one: none is run twice and no *)
(* result is handed out twice, whichever threads race for the channels.    *)
AtMostOnce ==
  /\ IsInjective(queue)
  /\ IsInjective(results)
  /\ \A c \in Callers : IsInjective(got[c])
  /\ \A v, w \in Workers : v # w /\ wtask[v] = wtask[w] => wtask[v] = NoTask
  /\ Queued \cap Held = {}
  /\ Queued \cap Reported = {}
  /\ Held \cap Reported = {}
  /\ \A c \in Callers : Collected(c) \cap (Queued \cup Held \cup Reported) = {}
  /\ \A c, d \in Callers : c # d => Collected(c) \cap Collected(d) = {}

(* And none disappears: until the executor is dropped a submitted task, or *)
(* its result, can be found somewhere.                                     *)
NoTaskLost ==
  parallel /\ owner # "dropped" =>
    Submitted \subseteq Queued \cup Held \cup Reported \cup AllCollected

(* shutdown does not abandon work: when it returns, every task submitted   *)
(* before has been run.  (With no worker thread it returns at once.)       *)
ShutdownRunsEverything ==
  owner = "joined" /\ Workers # {} => \A t \in Submitted : status[t] # "none"

(* The counters tasks_submitted and active_tasks and those of the workers, *)
(* each counted by another thread at another moment than the task moves    *)
(* on, agree with the tasks (get_stats).  A worker that cannot send its    *)
(* result leaves without counting itself off, but then the executor is     *)
(* gone and nobody is left to ask.  The totals of completed and failed     *)
(* tasks that get_stats returns as well are left out: nobody adds to them. *)
Working == {w \in Workers : wpc[w] \in {"running", "executed", "reported"}}
WithStatus(s) == {t \in Tasks : status[t] = s}
WorkerTotal(kind) == SumFunction([w \in Workers |-> wstats[w][kind]])
CountersAgree ==
  /\ owner # "dropped" => active = Cardinality(Working)
  /\ stats.submitted = Cardinality(Submitted) + Cardinality({c \in Callers : pc[c] = "send"})
  /\ parallel => /\ WorkerTotal("completed") = Cardinality(WithStatus("completed"))
                 /\ WorkerTotal("failed") = Cardinality(WithStatus("timedOut"))

(* The executor implements the pool: a task is pending until the worker    *)
(* that took it has run it, and executed until its result is collected.    *)
TakenNotRun == {wtask[w] : w \in {v \in Workers : wpc[v] \in {"taken", "running"}}}
RunNotSent == {wtask[w] : w \in {v \in Workers : wpc[v] = "executed"}}

Pool == INSTANCE TaskPool WITH
          known <- Submitted \cup AllCollected,
          pending <- Queued \cup TakenNotRun,
          executed <- RunNotSent \cup Reported,
          taken <- [c \in Callers |-> Collected(c)]
ImplementsPool == Pool!PoolSpec

(* Every call returns: execute_parallel finds as many results as it waits  *)
(* for, even when other callers take those of its own tasks, and no send   *)
(* blocks for ever on a full channel.  So does shutdown: the workers drain *)
(* the channel and stop.                                                   *)
EveryCallReturns ==
  /\ \A c \in Callers : <>(pc[c] = "done")
  /\ owner = "closing" ~> owner = "joined"
=============================================================================
