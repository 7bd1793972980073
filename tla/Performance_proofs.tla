-------------------------- MODULE Performance_proofs ------------------------
(***************************************************************************)
(* Theorems about the crate performance: ParallelExecutor for any callers, *)
(* batches, workers and channel capacity, and MemoryManager for any threads,*)
(* sizes and pools.                                                        *)
(***************************************************************************)
EXTENDS ParallelExecutor, MemoryManager, SumTheorems, SequenceTheorems, TLAPS

-----------------------------------------------------------------------------
(***************************************************************************)
(* ParallelExecutor.                                                       *)
(***************************************************************************)

(* TypeOK is not inductive by itself: a worker records the status of the   *)
(* task it holds, so it must hold one, and a caller sends the next task of *)
(* its batch, so there must be one.                                        *)
Carrying == {"taken", "running", "executed"}
HoldsTask ==
  \A w \in Workers : IF wpc[w] \in Carrying THEN wtask[w] \in Tasks
                     ELSE wtask[w] = NoTask
SendsOwnBatch ==
  \A c \in Callers : /\ sent[c] <= Demand[c]
                     /\ pc[c] = "send" => sent[c] < Demand[c]
TypeInv == TypeOK /\ HoldsTask /\ SendsOwnBatch

(* The i-th task of a caller's batch is a task.                            *)
LEMMA BatchTask ==
  ASSUME NEW c \in Callers, NEW i \in 1 .. Demand[c]
  PROVE  <<c, i>> \in Tasks
BY DEF Tasks, Batch

(* Counting a task keeps the record of counters well typed.                *)
LEMMA CountedTyped ==
  ASSUME NEW s \in [submitted : Nat, completed : Nat, failed : Nat]
  PROVE  [s EXCEPT !.submitted = @ + 1] \in [submitted : Nat, completed : Nat, failed : Nat]
OBVIOUS

(* Every step of a caller keeps the types.                                 *)
LEMMA CallerTyped ==
  ASSUME TypeInv, NEW c \in Callers, Caller(c)
  PROVE  TypeInv'
<1> USE ExecutorAssumption
    DEF TypeInv, TypeOK, HoldsTask, SendsOwnBatch, PCs, workerVars
<1>1. CASE CountTask(c)
  <2>1. stats' \in [submitted : Nat, completed : Nat, failed : Nat]
    BY <1>1, CountedTyped DEF CountTask
  <2>2. pc' \in [Callers -> PCs]
    BY <1>1 DEF CountTask
  <2>3. SendsOwnBatch'
    BY <1>1 DEF CountTask
  <2> QED
    BY <1>1, <2>1, <2>2, <2>3 DEF CountTask
<1>2. CASE SendTask(c)
  <2>1. sent[c] + 1 \in 1 .. Demand[c]
    BY <1>2 DEF SendTask
  <2>2. <<c, sent[c] + 1>> \in Tasks
    BY <2>1, BatchTask
  <2>3. queue' \in Seq(Tasks)
    BY <1>2, <2>2 DEF SendTask
  <2> QED
    BY <1>2, <2>1, <2>3 DEF SendTask
<1>3. CASE AllSubmitted(c)
  BY <1>3 DEF AllSubmitted
<1>4. CASE CollectResult(c)
  <2>1. Append(got[c], Head(results)) \in Seq(Tasks) /\ results' \in Seq(Tasks)
    BY <1>4 DEF CollectResult
  <2> QED
    BY <1>4, <2>1 DEF CollectResult
<1>5. CASE Return(c)
  BY <1>5 DEF Return
<1>6. CASE ExecuteSequential(c)
  <2>1. \A i \in 1 .. Demand[c] : <<c, i>> \in Tasks
    BY BatchTask
  <2>2. [i \in 1 .. Demand[c] |-> <<c, i>>] \in Seq(Tasks)
    BY <2>1, Demand[c] \in Nat, SMTT(30)
  <2> QED
    BY <1>6, <2>2 DEF ExecuteSequential
<1>7. CASE RejectSubmit(c)
  BY <1>7 DEF RejectSubmit
<1> QED
  BY <1>1, <1>2, <1>3, <1>4, <1>5, <1>6, <1>7 DEF Caller

(* Every step of a worker keeps the types; it only ever holds a task.      *)
LEMMA WorkerTyped ==
  ASSUME TypeInv, NEW w \in Workers, Worker(w)
  PROVE  TypeInv'
<1> USE ExecutorAssumption, NoTaskAssumption
    DEF TypeInv, TypeOK, HoldsTask, SendsOwnBatch, WPCs, Carrying, callerVars
<1>1. CASE TakeTask(w)
  <2>1. Head(queue) \in Tasks /\ queue' \in Seq(Tasks)
    BY <1>1 DEF TakeTask
  <2> QED
    BY <1>1, <2>1 DEF TakeTask
<1>2. CASE BeginTask(w)
  BY <1>2 DEF BeginTask
<1>3. CASE ExecuteTask(w)
  <2>1. PICK timedOut \in BOOLEAN :
          /\ status' = [status EXCEPT ![wtask[w]] =
                          IF timedOut THEN "timedOut" ELSE "completed"]
          /\ wstats' = IF timedOut THEN [wstats EXCEPT ![w].failed = @ + 1]
                       ELSE [wstats EXCEPT ![w].completed = @ + 1]
    BY <1>3 DEF ExecuteTask
  <2>2. status' \in [Tasks -> {"none", "completed", "timedOut"}]
    BY <2>1, Zenon
  <2>3. wstats' \in [Workers -> [completed : Nat, failed : Nat]]
    BY <2>1, SMTT(30)
  <2> QED
    BY <1>3, <2>2, <2>3 DEF ExecuteTask
<1>4. CASE SendResult(w)
  <2>1. wtask[w] \in Tasks
    BY <1>4 DEF SendResult
  <2>2. Append(results, wtask[w]) \in Seq(Tasks)
    BY <2>1
  <2>3. results' \in Seq(Tasks)
    BY <1>4, <2>2 DEF SendResult
  <2> QED
    BY <1>4, <2>3 DEF SendResult
<1>5. CASE FinishTask(w)
  BY <1>5 DEF FinishTask
<1>6. CASE StopWorker(w)
  BY <1>6 DEF StopWorker, WorkerStops
<1> QED
  BY <1>1, <1>2, <1>3, <1>4, <1>5, <1>6 DEF Worker

(* Shutdown, join and drop keep the types.                                 *)
LEMMA OwnerTyped ==
  ASSUME TypeInv, Owner
  PROVE  TypeInv'
<1> USE DEF TypeInv, TypeOK, HoldsTask, SendsOwnBatch, callerVars, workerVars
<1>1. CASE Shutdown
  BY <1>1 DEF Shutdown
<1>2. CASE Join
  BY <1>2 DEF Join
<1>3. CASE DropExecutor
  <2>1. results' \in Seq(Tasks)
    BY <1>3 DEF DropExecutor
  <2> QED
    BY <1>3, <2>1 DEF DropExecutor
<1> QED
  BY <1>1, <1>2, <1>3 DEF Owner

(* The types, and what makes them inductive, hold in every state.          *)
LEMMA TypeInvariance == Spec => []TypeInv
<1>1. Init => TypeInv
  BY ExecutorAssumption
  DEF Init, TypeInv, TypeOK, HoldsTask, SendsOwnBatch, PCs, WPCs, Carrying
<1>2. TypeInv /\ [Next]_vars => TypeInv'
  <2> SUFFICES ASSUME TypeInv, [Next]_vars PROVE TypeInv'
    OBVIOUS
  <2>1. CASE \E c \in Callers : Caller(c)
    BY <2>1, CallerTyped
  <2>2. CASE \E w \in Workers : Worker(w)
    BY <2>2, WorkerTyped
  <2>3. CASE Owner
    BY <2>3, OwnerTyped
  <2>4. CASE UNCHANGED vars
    BY <2>4 DEF vars, TypeInv, TypeOK, HoldsTask, SendsOwnBatch
  <2> QED
    BY <2>1, <2>2, <2>3, <2>4 DEF Next
<1> QED
  BY <1>1, <1>2, PTL DEF Spec

(* Every variable keeps its type, in every behaviour of the executor.      *)
THEOREM TypeCorrect == Spec => []TypeOK
BY TypeInvariance, PTL DEF TypeInv

-----------------------------------------------------------------------------
(* A task appended to, or taken from the head of, a channel in which no    *)
(* task occurs twice.                                                      *)
LEMMA AppendElements ==
  ASSUME NEW S, NEW s \in Seq(S), NEW e \in S
  PROVE  /\ Range(Append(s, e)) = Range(s) \cup {e}
         /\ IsInjective(s) /\ e \notin Range(s) => IsInjective(Append(s, e))
<1>1. /\ Append(s, e) \in Seq(S)
      /\ DOMAIN Append(s, e) = 1 .. Len(s) + 1
      /\ DOMAIN s = 1 .. Len(s)
      /\ \A i \in 1 .. Len(s) : Append(s, e)[i] = s[i]
      /\ Append(s, e)[Len(s) + 1] = e
      /\ Len(s) \in Nat
  OBVIOUS
<1>2. Range(Append(s, e)) = Range(s) \cup {e}
  BY <1>1 DEF Range
<1>3. ASSUME IsInjective(s), e \notin Range(s)
      PROVE  IsInjective(Append(s, e))
  BY <1>1, <1>3 DEF Range, IsInjective
<1> QED
  BY <1>2, <1>3

(* Taking the head of such a channel removes that task and no other.       *)
LEMMA HeadTailElements ==
  ASSUME NEW S, NEW s \in Seq(S), s # << >>, IsInjective(s)
  PROVE  /\ Head(s) \in Range(s)
         /\ Range(Tail(s)) = Range(s) \ {Head(s)}
         /\ IsInjective(Tail(s))
<1>1. /\ DOMAIN s = 1 .. Len(s)
      /\ Len(s) \in Nat \ {0}
      /\ Head(s) = s[1]
      /\ Tail(s) \in Seq(S)
      /\ DOMAIN Tail(s) = 1 .. Len(s) - 1
      /\ \A i \in 1 .. Len(s) - 1 : Tail(s)[i] = s[i + 1]
  OBVIOUS
<1>2. Head(s) \in Range(s)
  BY <1>1 DEF Range
<1>3. Range(Tail(s)) = Range(s) \ {Head(s)}
  <2>1. ASSUME NEW x \in Range(Tail(s)) PROVE x \in Range(s) /\ x # Head(s)
    <3>1. PICK i \in 1 .. Len(s) - 1 : x = s[i + 1]
      BY <1>1 DEF Range
    <3>2. i + 1 \in DOMAIN s /\ 1 \in DOMAIN s /\ i + 1 # 1
      BY <1>1
    <3> QED
      BY <1>1, <3>1, <3>2 DEF Range, IsInjective
  <2>2. ASSUME NEW x \in Range(s), x # Head(s) PROVE x \in Range(Tail(s))
    <3>1. PICK i \in 1 .. Len(s) : x = s[i]
      BY <1>1 DEF Range
    <3>2. i - 1 \in 1 .. Len(s) - 1
      BY <1>1, <3>1, <2>2
    <3>3. Tail(s)[i - 1] = x
      BY <1>1, <3>1, <3>2
    <3> QED
      BY <1>1, <3>2, <3>3 DEF Range
  <2> QED
    BY <2>1, <2>2
<1>4. IsInjective(Tail(s))
  <2> SUFFICES ASSUME NEW i \in 1 .. Len(s) - 1, NEW j \in 1 .. Len(s) - 1,
                      Tail(s)[i] = Tail(s)[j]
               PROVE  i = j
    BY <1>1 DEF IsInjective
  <2>1. s[i + 1] = s[j + 1] /\ i + 1 \in DOMAIN s /\ j + 1 \in DOMAIN s
    BY <1>1
  <2> QED
    BY <2>1 DEF IsInjective
<1> QED
  BY <1>2, <1>3, <1>4

-----------------------------------------------------------------------------
(* The inductive invariant for AtMostOnce and NoTaskLost.  What is         *)
(* anywhere was submitted (so the task a caller sends next is nowhere      *)
(* yet), and with parallel execution off the channels are never used.      *)
Somewhere == Queued \cup Held \cup Reported \cup AllCollected

OffInv ==
  ~parallel =>
    /\ queue = << >> /\ results = << >> /\ Held = {}
    /\ \A c \in Callers : /\ sent[c] = 0
                          /\ pc[c] \in {"submit", "done"}
                          /\ pc[c] = "submit" => got[c] = << >>
                          /\ Collected(c) \subseteq Batch(c)

PlacedInv ==
  /\ AtMostOnce
  /\ parallel => Somewhere \subseteq Submitted
  /\ NoTaskLost
  /\ OffInv

(* A step that moves no task keeps the invariant.                          *)
LEMMA PlacedFrame ==
  ASSUME PlacedInv, OffInv',
         UNCHANGED <<parallel, sent, got, queue, results, wtask>>,
         owner' # "dropped" => owner # "dropped"
  PROVE  PlacedInv'
<1>1. /\ Queued' = Queued /\ Held' = Held /\ Reported' = Reported
      /\ AllCollected' = AllCollected /\ Submitted' = Submitted
      /\ \A c \in Callers : Collected(c)' = Collected(c)
  BY DEF Queued, Held, Reported, AllCollected, Collected, Submitted
<1>2. AtMostOnce'
  BY <1>1 DEF PlacedInv, AtMostOnce
<1> QED
  BY <1>1, <1>2 DEF PlacedInv, Somewhere, NoTaskLost

(* submit_task submits exactly the next task of the caller's batch.        *)
LEMMA SendSubmits ==
  ASSUME TypeInv, NEW c \in Callers, SendTask(c)
  PROVE  LET t == <<c, sent[c] + 1>>
         IN t \in Tasks /\ Submitted' = Submitted \cup {t} /\ t \notin Submitted
<1> DEFINE t == <<c, sent[c] + 1>>
<1>1. t \in Tasks
  <2>1. sent[c] \in Nat /\ Demand[c] \in Nat /\ sent[c] < Demand[c]
    BY ExecutorAssumption DEF TypeInv, TypeOK, SendsOwnBatch, SendTask
  <2>2. sent[c] + 1 \in 1 .. Demand[c]
    BY <2>1
  <2> QED
    BY <2>2, BatchTask
<1>2. \A d \in Callers : sent[d] \in Nat /\ sent'[d] = IF d = c THEN sent[c] + 1 ELSE sent[d]
  BY DEF TypeInv, TypeOK, SendTask
<1>3. \A u \in Tasks : u \in Submitted' <=> (u \in Submitted \/ u = t)
  <2> SUFFICES ASSUME NEW u \in Tasks
               PROVE  u \in Submitted' <=> (u \in Submitted \/ u = t)
    OBVIOUS
  <2>1. PICK d \in Callers : \E i \in 1 .. Demand[d] : u = <<d, i>>
    BY DEF Tasks, Batch
  <2>2. PICK i \in 1 .. Demand[d] : u = <<d, i>>
    BY <2>1
  <2>3. i \in Nat /\ u[1] = d /\ u[2] = i
    BY <2>2, ExecutorAssumption
  <2> QED
    BY <1>2, <2>2, <2>3 DEF Submitted
<1>4. t \notin Submitted
  BY <1>2 DEF Submitted
<1> QED
  BY <1>1, <1>3, <1>4 DEF Submitted

(* submit_task puts a task that was nowhere into the channel.              *)
LEMMA PlacedSend ==
  ASSUME TypeInv, PlacedInv, NEW c \in Callers, SendTask(c)
  PROVE  PlacedInv'
<1> DEFINE t == <<c, sent[c] + 1>>
<1>1. parallel /\ parallel'
  BY DEF SendTask, PlacedInv, OffInv
<1>2. t \in Tasks
  BY SendSubmits
<1>3. Submitted' = Submitted \cup {t} /\ t \notin Submitted
  BY SendSubmits
<1>4. t \notin Somewhere
  BY <1>1, <1>3 DEF PlacedInv
<1>5. Queued' = Queued \cup {t} /\ IsInjective(queue')
  <2>1. queue \in Seq(Tasks) /\ IsInjective(queue) /\ t \notin Range(queue)
    BY <1>4 DEF TypeInv, TypeOK, PlacedInv, AtMostOnce, Somewhere, Queued
  <2> QED
    BY <1>2, <2>1, AppendElements, ZenonT(30) DEF SendTask, Queued
<1>6. /\ Held' = Held /\ Reported' = Reported /\ AllCollected' = AllCollected
      /\ \A d \in Callers : Collected(d)' = Collected(d)
      /\ UNCHANGED <<results, got, wtask, owner>>
  BY DEF SendTask, workerVars, Held, Reported, AllCollected, Collected
<1>7. \A d \in Callers : t \notin Collected(d)
  BY <1>4 DEF Somewhere, AllCollected
<1>8. AtMostOnce'
  BY <1>4, <1>5, <1>6, <1>7 DEF PlacedInv, AtMostOnce, Somewhere
<1>9. Somewhere' = Somewhere \cup {t}
  BY <1>5, <1>6 DEF Somewhere
<1>10. NoTaskLost'
  BY <1>1, <1>3, <1>6, <1>9 DEF PlacedInv, NoTaskLost, Somewhere
<1> QED
  BY <1>1, <1>3, <1>8, <1>9, <1>10 DEF PlacedInv, OffInv

(* A caller takes the first result for itself.                             *)
LEMMA PlacedCollect ==
  ASSUME TypeInv, PlacedInv, NEW c \in Callers, CollectResult(c)
  PROVE  PlacedInv'
<1> DEFINE t == Head(results)
<1>1. parallel /\ parallel'
  BY DEF CollectResult, PlacedInv, OffInv
<1>2. results \in Seq(Tasks) /\ results # << >> /\ t \in Tasks /\ IsInjective(results)
  BY DEF TypeInv, TypeOK, CollectResult, PlacedInv, AtMostOnce
<1>3. t \in Reported /\ Reported' = Reported \ {t} /\ IsInjective(results')
  BY <1>2, HeadTailElements DEF CollectResult, Reported
<1>4. \A d \in Callers : t \notin Collected(d)
  BY <1>3 DEF PlacedInv, AtMostOnce
<1>5. Collected(c)' = Collected(c) \cup {t} /\ IsInjective(got'[c])
  <2>1. got[c] \in Seq(Tasks) /\ IsInjective(got[c]) /\ t \notin Range(got[c])
    BY <1>4 DEF TypeInv, TypeOK, PlacedInv, AtMostOnce, Collected
  <2>2. got'[c] = Append(got[c], t)
    BY DEF CollectResult, TypeInv, TypeOK
  <2> QED
    BY <1>2, <2>1, <2>2, AppendElements DEF Collected
<1>6. \A d \in Callers \ {c} : got'[d] = got[d] /\ Collected(d)' = Collected(d)
  BY DEF CollectResult, TypeInv, TypeOK, Collected
<1>7. /\ Queued' = Queued /\ Held' = Held /\ Submitted' = Submitted
      /\ UNCHANGED <<queue, wtask, owner>>
  BY DEF CollectResult, workerVars, Queued, Held, Submitted
<1>8. AllCollected' = AllCollected \cup {t}
  <2>1. \A x : x \in AllCollected' <=> \E d \in Callers : x \in Collected(d)'
    BY DEF AllCollected
  <2>2. \A x : x \in AllCollected <=> \E d \in Callers : x \in Collected(d)
    BY DEF AllCollected
  <2> QED
    BY <1>5, <1>6, <2>1, <2>2
<1>9. AtMostOnce'
  <2>1. \A d \in Callers : IsInjective(got'[d])
    BY <1>5, <1>6 DEF PlacedInv, AtMostOnce
  <2>2. \A d \in Callers : Collected(d)' \subseteq Collected(d) \cup {t}
    BY <1>5, <1>6
  <2>3. t \notin Queued /\ t \notin Held
    BY <1>3 DEF PlacedInv, AtMostOnce
  <2>4. \A d \in Callers : Collected(d)' \cap (Queued \cup Held \cup Reported') = {}
    BY <1>3, <2>2, <2>3 DEF PlacedInv, AtMostOnce
  <2>5. \A d, e \in Callers : d # e => Collected(d)' \cap Collected(e)' = {}
    BY <1>4, <1>5, <1>6 DEF PlacedInv, AtMostOnce
  <2> QED
    BY <1>3, <1>7, <2>1, <2>4, <2>5 DEF PlacedInv, AtMostOnce
<1>10. Somewhere' = Somewhere
  BY <1>3, <1>7, <1>8 DEF Somewhere
<1>11. NoTaskLost'
  BY <1>1, <1>7, <1>10 DEF PlacedInv, NoTaskLost, Somewhere
<1> QED
  BY <1>1, <1>7, <1>9, <1>10, <1>11 DEF PlacedInv, OffInv

(* execute_parallel with the pool off: the caller's own batch, which       *)
(* nobody else collects.                                                   *)
LEMMA PlacedSequential ==
  ASSUME TypeInv, PlacedInv, NEW c \in Callers, ExecuteSequential(c)
  PROVE  PlacedInv'
<1> DEFINE batch == [i \in 1 .. Demand[c] |-> <<c, i>>]
<1>1. ~parallel /\ ~parallel'
  BY DEF ExecuteSequential
<1>2. /\ Queued' = {} /\ Held' = {} /\ Reported' = {}
      /\ UNCHANGED <<queue, results, wtask, sent>>
      /\ queue = << >> /\ results = << >>
  BY <1>1 DEF ExecuteSequential, PlacedInv, OffInv, Queued, Held, Reported, Range
<1>3. got'[c] = batch /\ \A d \in Callers \ {c} : got'[d] = got[d]
  BY DEF ExecuteSequential, TypeInv, TypeOK
<1>4. Collected(c)' = Batch(c) /\ IsInjective(got'[c])
  BY <1>3 DEF Collected, Batch, Range, IsInjective
<1>5. \A d \in Callers \ {c} : Collected(d)' = Collected(d)
  BY <1>3 DEF Collected
<1>6. \A d \in Callers : Collected(d)' \subseteq Batch(d)
  BY <1>1, <1>4, <1>5 DEF PlacedInv, OffInv
<1>7. \A d, e \in Callers : d # e => Collected(d)' \cap Collected(e)' = {}
  BY <1>6 DEF Batch
<1>8. \A d \in Callers : IsInjective(got'[d])
  BY <1>3, <1>4 DEF PlacedInv, AtMostOnce
<1>9. AtMostOnce'
  BY <1>2, <1>7, <1>8 DEF PlacedInv, AtMostOnce
<1>10. OffInv'
  <2>1. pc'[c] = "done" /\ \A d \in Callers \ {c} : pc'[d] = pc[d]
    BY DEF ExecuteSequential, TypeInv, TypeOK
  <2> QED
    BY <1>1, <1>2, <1>3, <1>6, <2>1 DEF PlacedInv, OffInv
<1> QED
  BY <1>1, <1>9, <1>10 DEF PlacedInv, NoTaskLost

(* A worker takes the first task of the channel.                           *)
LEMMA PlacedTake ==
  ASSUME TypeInv, PlacedInv, NEW w \in Workers, TakeTask(w)
  PROVE  PlacedInv'
<1> DEFINE t == Head(queue)
<1>1. parallel /\ parallel'
  BY DEF TakeTask, PlacedInv, OffInv, callerVars
<1>2. queue \in Seq(Tasks) /\ queue # << >> /\ t \in Tasks /\ IsInjective(queue)
  BY DEF TypeInv, TypeOK, TakeTask, PlacedInv, AtMostOnce
<1>3. t \in Queued /\ Queued' = Queued \ {t} /\ IsInjective(queue')
  BY <1>2, HeadTailElements DEF TakeTask, Queued
<1>4. wtask[w] = NoTask
  BY DEF TypeInv, HoldsTask, Carrying, TakeTask
<1>5. wtask'[w] = t /\ \A v \in Workers \ {w} : wtask'[v] = wtask[v]
  BY DEF TakeTask, TypeInv, TypeOK
<1>6. Held' = Held \cup {t}
  BY <1>2, <1>4, <1>5, NoTaskAssumption DEF Held
<1>7. /\ Reported' = Reported /\ AllCollected' = AllCollected /\ Submitted' = Submitted
      /\ \A d \in Callers : Collected(d)' = Collected(d)
      /\ UNCHANGED <<results, got, owner>>
  BY DEF TakeTask, callerVars, Reported, AllCollected, Collected, Submitted
<1>8. t \notin Held /\ t \notin Reported /\ \A d \in Callers : t \notin Collected(d)
  BY <1>3 DEF PlacedInv, AtMostOnce
<1>9. \A u, v \in Workers : u # v /\ wtask'[u] = wtask'[v] => wtask'[u] = NoTask
  <2>1. \A v \in Workers : wtask[v] # t
    BY <1>2, <1>8, NoTaskAssumption DEF Held
  <2> QED
    BY <1>5, <2>1 DEF PlacedInv, AtMostOnce
<1>10. AtMostOnce'
  BY <1>3, <1>6, <1>7, <1>8, <1>9 DEF PlacedInv, AtMostOnce
<1>11. Somewhere' = Somewhere
  BY <1>3, <1>6, <1>7 DEF Somewhere
<1> QED
  BY <1>1, <1>7, <1>10, <1>11 DEF PlacedInv, OffInv, NoTaskLost, Somewhere

(* It sends the result, or loses it because the executor is gone.          *)
LEMMA PlacedReport ==
  ASSUME TypeInv, PlacedInv, NEW w \in Workers, SendResult(w)
  PROVE  PlacedInv'
<1> DEFINE t == wtask[w]
<1>1. t \in Tasks /\ t # NoTask /\ t \in Held
  BY NoTaskAssumption DEF TypeInv, HoldsTask, Carrying, SendResult, Held
<1>2. parallel /\ parallel'
  BY <1>1 DEF SendResult, PlacedInv, OffInv, callerVars
<1>3. wtask'[w] = NoTask /\ \A v \in Workers \ {w} : wtask'[v] = wtask[v]
  BY DEF SendResult, TypeInv, TypeOK
<1>4. \A v \in Workers \ {w} : wtask[v] # t
  BY <1>1 DEF PlacedInv, AtMostOnce
<1>5. Held' = Held \ {t}
  BY <1>3, <1>4 DEF Held
<1>6. /\ Queued' = Queued /\ AllCollected' = AllCollected /\ Submitted' = Submitted
      /\ \A d \in Callers : Collected(d)' = Collected(d)
      /\ UNCHANGED <<queue, got, owner>>
  BY DEF SendResult, callerVars, Queued, AllCollected, Collected, Submitted
<1>7. t \notin Queued /\ t \notin Reported /\ \A d \in Callers : t \notin Collected(d)
  BY <1>1 DEF PlacedInv, AtMostOnce
<1>8. \A u, v \in Workers : u # v /\ wtask'[u] = wtask'[v] => wtask'[u] = NoTask
  BY <1>3 DEF PlacedInv, AtMostOnce
<1>9. CASE owner = "dropped"
  <2>1. results' = results /\ Reported' = Reported
    BY <1>9 DEF SendResult, Reported
  <2>2. AtMostOnce'
    BY <1>5, <1>6, <1>8, <2>1 DEF PlacedInv, AtMostOnce
  <2>3. Somewhere' \subseteq Somewhere
    BY <1>5, <1>6, <2>1 DEF Somewhere
  <2> QED
    BY <1>2, <1>6, <1>9, <2>2, <2>3 DEF PlacedInv, OffInv, NoTaskLost
<1>10. CASE owner # "dropped"
  <2>1. Reported' = Reported \cup {t} /\ IsInjective(results')
    <3>1. results' = Append(results, t)
      BY <1>10 DEF SendResult
    <3>2. results \in Seq(Tasks) /\ IsInjective(results) /\ t \notin Range(results)
      BY <1>7 DEF TypeInv, TypeOK, PlacedInv, AtMostOnce, Reported
    <3> QED
      BY <1>1, <3>1, <3>2, AppendElements DEF Reported
  <2>2. AtMostOnce'
    BY <1>5, <1>6, <1>7, <1>8, <2>1 DEF PlacedInv, AtMostOnce
  <2>3. Somewhere' = Somewhere
    BY <1>1, <1>5, <1>6, <2>1 DEF Somewhere
  <2> QED
    BY <1>2, <1>6, <2>2, <2>3 DEF PlacedInv, OffInv, NoTaskLost, Somewhere
<1> QED
  BY <1>9, <1>10

(* Every step keeps each task in one place: the channels, the workers,     *)
(* the callers.                                                            *)
LEMMA PlacedStep ==
  ASSUME TypeInv, PlacedInv, [Next]_vars
  PROVE  PlacedInv'
<1>1. ASSUME NEW c \in Callers, Caller(c) PROVE PlacedInv'
  <2> USE DEF workerVars
  <2>1. CASE CountTask(c) \/ AllSubmitted(c) \/ Return(c) \/ RejectSubmit(c)
    <3>1. OffInv'
      <4>1. CASE parallel
        BY <2>1, <4>1 DEF CountTask, AllSubmitted, Return, RejectSubmit, OffInv
      <4>2. CASE ~parallel /\ Return(c)
        BY <4>2 DEF Return, PlacedInv, OffInv
      <4>3. CASE ~parallel /\ RejectSubmit(c)
        <5>1. \A d \in Callers : pc'[d] = IF d = c THEN "done" ELSE pc[d]
          BY <4>3 DEF RejectSubmit, TypeInv, TypeOK
        <5> QED
          BY <4>3, <5>1 DEF RejectSubmit, PlacedInv, OffInv, Held, Collected
      <4> QED
        BY <2>1, <4>1, <4>2, <4>3 DEF CountTask, AllSubmitted
    <3> QED
      BY <2>1, <3>1, PlacedFrame DEF CountTask, AllSubmitted, Return, RejectSubmit
  <2> QED
    BY <1>1, <2>1, PlacedSend, PlacedCollect, PlacedSequential DEF Caller
<1>2. ASSUME NEW w \in Workers, Worker(w) PROVE PlacedInv'
  <2> USE DEF callerVars
  <2>1. CASE BeginTask(w) \/ ExecuteTask(w) \/ FinishTask(w) \/ StopWorker(w)
    <3>1. OffInv'
      BY <2>1 DEF BeginTask, ExecuteTask, FinishTask, StopWorker, WorkerStops,
                  PlacedInv, OffInv, Held, Collected
    <3> QED
      BY <2>1, <3>1, PlacedFrame
      DEF BeginTask, ExecuteTask, FinishTask, StopWorker, WorkerStops
  <2> QED
    BY <1>2, <2>1, PlacedTake, PlacedReport DEF Worker
<1>3. CASE Shutdown \/ Join
  <2>1. OffInv'
    BY <1>3 DEF Shutdown, Join, callerVars, workerVars, PlacedInv, OffInv, Held, Collected
  <2> QED
    BY <1>3, <2>1, PlacedFrame DEF Shutdown, Join, callerVars, workerVars
<1>4. CASE DropExecutor
  <2>1. /\ Queued' = Queued /\ Held' = Held /\ AllCollected' = AllCollected
        /\ Submitted' = Submitted
        /\ \A d \in Callers : Collected(d)' = Collected(d)
        /\ UNCHANGED <<parallel, pc, sent, got, queue, wtask>>
    BY <1>4 DEF DropExecutor, callerVars, workerVars, Queued, Held, AllCollected,
                Submitted, Collected
  <2>2. results' = << >> /\ Reported' = {} /\ IsInjective(results')
    BY <1>4 DEF DropExecutor, Reported, Range, IsInjective
  <2>3. AtMostOnce'
    BY <2>1, <2>2 DEF PlacedInv, AtMostOnce
  <2>4. NoTaskLost' /\ OffInv'
    BY <1>4, <2>1, <2>2 DEF DropExecutor, NoTaskLost, OffInv, PlacedInv
  <2> QED
    BY <2>1, <2>2, <2>3, <2>4 DEF PlacedInv, Somewhere
<1>5. CASE UNCHANGED vars
  <2>1. OffInv'
    BY <1>5 DEF vars, PlacedInv, OffInv, Held, Collected
  <2> QED
    BY <1>5, <2>1, PlacedFrame DEF vars
<1> QED
  BY <1>1, <1>2, <1>3, <1>4, <1>5 DEF Next, Owner

(* Task numbers start at 1, so a caller that sent nothing submitted nothing. *)
LEMMA NothingSubmitted ==
  ASSUME \A c \in Callers : sent[c] = 0
  PROVE  Submitted = {}
<1> SUFFICES ASSUME NEW t \in Submitted PROVE FALSE
  OBVIOUS
<1>1. t \in Tasks /\ t[2] <= sent[t[1]]
  BY DEF Submitted
<1>2. PICK c \in Callers : \E i \in 1 .. Demand[c] : t = <<c, i>>
  BY <1>1 DEF Tasks, Batch
<1>3. PICK i \in 1 .. Demand[c] : t = <<c, i>>
  BY <1>2
<1> QED
  BY <1>1, <1>3, ExecutorAssumption

(* At first there is no task anywhere.                                     *)
LEMMA PlacedInit == Init => PlacedInv
<1> SUFFICES ASSUME Init PROVE PlacedInv
  OBVIOUS
<1>1. /\ Queued = {} /\ Reported = {} /\ Held = {}
      /\ \A c \in Callers : Collected(c) = {}
  BY DEF Init, Queued, Reported, Held, Collected, Range
<1>2. AllCollected = {}
  BY <1>1 DEF AllCollected
<1>3. Submitted = {}
  BY NothingSubmitted DEF Init
<1>4. AtMostOnce
  BY <1>1 DEF Init, AtMostOnce, IsInjective
<1> QED
  BY <1>1, <1>2, <1>3, <1>4 DEF Init, PlacedInv, Somewhere, NoTaskLost, OffInv

(* In every state each task is in one place.                               *)
LEMMA PlacedInvariance == Spec => []PlacedInv
BY PlacedInit, PlacedStep, TypeInvariance, PTL DEF Spec

(* No task is run twice and no result handed out twice.                    *)
THEOREM NoDuplicates == Spec => []AtMostOnce
BY PlacedInvariance, PTL DEF PlacedInv

(* No submitted task disappears while the executor is in use.              *)
THEOREM NoLoss == Spec => []NoTaskLost
BY PlacedInvariance, PTL DEF PlacedInv

-----------------------------------------------------------------------------
(* The inductive invariant for ShutdownRunsEverything: a task without a    *)
(* status is still to be run, and once a worker has stopped the channel is *)
(* empty and stays so, because no call is running any more.                *)
NotRun == Queued \cup TakenNotRun

DrainInv ==
  /\ owner # "open" => NoCallRunning
  /\ \A w \in Workers : wpc[w] = "stopped" => owner # "open"
  /\ owner # "dropped" => \A w \in Workers : wpc[w] = "stopped" => queue = << >>
  /\ owner = "joined" => \A w \in Workers : wpc[w] = "stopped"
  /\ \A t \in Submitted : status[t] = "none" => t \in NotRun

(* At first no task is submitted and no worker has stopped.                *)
LEMMA DrainInit == Init => DrainInv
<1> SUFFICES ASSUME Init PROVE DrainInv
  OBVIOUS
<1>1. Submitted = {}
  BY NothingSubmitted DEF Init
<1> QED
  BY <1>1 DEF Init, DrainInv

(* What a caller adds is in the channel, and it adds only while no worker  *)
(* has stopped.                                                            *)
LEMMA DrainCaller ==
  ASSUME TypeInv, PlacedInv, DrainInv, NEW c \in Callers, Caller(c)
  PROVE  DrainInv'
<1>1. owner = "open" /\ owner' = "open" /\ wpc' = wpc /\ wtask' = wtask
  BY DEF Caller, CountTask, SendTask, AllSubmitted, CollectResult, Return,
         ExecuteSequential, RejectSubmit, DrainInv, NoCallRunning, workerVars
<1>2. \A t \in Submitted' : status'[t] = "none" => t \in NotRun'
  <2>1. TakenNotRun' = TakenNotRun
    BY <1>1 DEF TakenNotRun
  <2>2. CASE SendTask(c)
    <3> DEFINE u == <<c, sent[c] + 1>>
    <3>1. u \in Tasks /\ Submitted' = Submitted \cup {u}
      BY <2>2, SendSubmits
    <3>2. queue \in Seq(Tasks) /\ queue' = Append(queue, u) /\ status' = status
      BY <2>2 DEF SendTask, workerVars, TypeInv, TypeOK
    <3>3. Queued' = Queued \cup {u}
      BY <3>1, <3>2, AppendElements DEF Queued
    <3> QED
      BY <2>1, <3>1, <3>2, <3>3 DEF DrainInv, NotRun
  <2>3. CASE ExecuteSequential(c)
    <3>1. \A t \in Tasks : status'[t] = "none" => status[t] = "none"
      BY <2>3 DEF ExecuteSequential
    <3>2. Submitted' = Submitted /\ Queued' = Queued
      BY <2>3 DEF ExecuteSequential, Submitted, Queued
    <3> QED
      BY <2>1, <3>1, <3>2 DEF DrainInv, NotRun, Submitted
  <2>4. CASE CountTask(c) \/ AllSubmitted(c) \/ CollectResult(c) \/ Return(c) \/ RejectSubmit(c)
    <3>1. UNCHANGED <<sent, queue, status>>
      BY <2>4 DEF CountTask, AllSubmitted, CollectResult, Return, RejectSubmit, workerVars
    <3> QED
      BY <2>1, <3>1 DEF DrainInv, NotRun, Submitted, Queued
  <2> QED
    BY <2>2, <2>3, <2>4 DEF Caller
<1> QED
  BY <1>1, <1>2 DEF DrainInv

(* A worker that runs a task records its status, and it stops on an empty  *)
(* channel only.                                                           *)
LEMMA DrainWorker ==
  ASSUME TypeInv, PlacedInv, DrainInv, NEW w \in Workers, Worker(w)
  PROVE  DrainInv'
<1> USE DEF callerVars, NoCallRunning
<1>1. /\ owner' = owner /\ pc' = pc /\ Submitted' = Submitted
      /\ \A v \in Workers \ {w} : wpc'[v] = wpc[v]
  BY DEF Worker, TakeTask, BeginTask, ExecuteTask, SendResult, FinishTask,
         StopWorker, WorkerStops, Submitted, TypeInv, TypeOK
<1>2. CASE TakeTask(w)
  <2> DEFINE t == Head(queue)
  <2>1. wpc'[w] = "taken" /\ queue # << >> /\ wpc[w] = "idle" /\ status' = status
    BY <1>2 DEF TakeTask, TypeInv, TypeOK
  <2>2. Queued' = Queued \ {t}
    BY <1>2, HeadTailElements DEF TakeTask, Queued, TypeInv, TypeOK, PlacedInv, AtMostOnce
  <2>3. wtask'[w] = t /\ \A v \in Workers \ {w} : wtask'[v] = wtask[v]
    BY <1>2 DEF TakeTask, TypeInv, TypeOK
  <2>4. NotRun \subseteq NotRun'
    BY <1>1, <2>1, <2>2, <2>3 DEF NotRun, TakenNotRun
  <2> QED
    BY <1>1, <2>1, <2>4 DEF DrainInv
<1>3. CASE ExecuteTask(w)
  <2>1. wpc[w] = "running" /\ wpc'[w] = "executed" /\ queue' = queue /\ wtask' = wtask
    BY <1>3 DEF ExecuteTask, TypeInv, TypeOK
  <2>2. \A t \in Tasks : IF t = wtask[w] THEN status'[t] # "none" ELSE status'[t] = status[t]
    BY <1>3 DEF ExecuteTask, TypeInv, TypeOK
  <2>3. \A t \in NotRun : t # wtask[w] => t \in NotRun'
    BY <1>1, <2>1 DEF NotRun, Queued, TakenNotRun
  <2> QED
    BY <1>1, <2>1, <2>2, <2>3 DEF DrainInv, Submitted
<1>4. CASE BeginTask(w) \/ SendResult(w) \/ FinishTask(w) \/ StopWorker(w)
  <2>1. queue' = queue /\ status' = status
    BY <1>4 DEF BeginTask, SendResult, FinishTask, StopWorker, WorkerStops
  <2>2. \A v \in Workers : wpc[v] \in {"taken", "running"} =>
          wpc'[v] \in {"taken", "running"} /\ wtask'[v] = wtask[v]
    BY <1>4 DEF BeginTask, SendResult, FinishTask, StopWorker, WorkerStops, TypeInv, TypeOK
  <2>3. NotRun \subseteq NotRun'
    BY <2>1, <2>2 DEF NotRun, Queued, TakenNotRun
  <2>4. wpc'[w] = "stopped" => owner # "open" /\ (owner # "dropped" => queue = << >>)
    BY <1>4 DEF BeginTask, SendResult, FinishTask, StopWorker, WorkerStops, TypeInv, TypeOK
  <2>5. wpc[w] # "stopped"
    BY <1>4 DEF BeginTask, SendResult, FinishTask, StopWorker, WorkerStops
  <2>6. \A v \in Workers : wpc'[v] = "stopped" =>
          owner # "open" /\ (owner # "dropped" => queue = << >>)
    BY <1>1, <2>4 DEF DrainInv
  <2>7. owner = "joined" => \A v \in Workers : wpc'[v] = "stopped"
    BY <1>1, <2>5 DEF DrainInv
  <2> QED
    BY <1>1, <2>1, <2>3, <2>6, <2>7 DEF DrainInv
<1> QED
  BY <1>2, <1>3, <1>4 DEF Worker

(* Shutdown starts when no call is running and joins when all workers      *)
(* have stopped.                                                           *)
LEMMA DrainOwner ==
  ASSUME DrainInv, Owner \/ UNCHANGED vars
  PROVE  DrainInv'
<1>1. UNCHANGED <<pc, sent, queue, wpc, wtask, status>>
  BY DEF Owner, Shutdown, Join, DropExecutor, callerVars, workerVars, vars
<1>2. Submitted' = Submitted /\ NotRun' = NotRun
  BY <1>1 DEF Submitted, NotRun, Queued, TakenNotRun
<1> QED
  BY <1>1, <1>2 DEF Owner, Shutdown, Join, DropExecutor, vars, DrainInv, NoCallRunning

(* In every state a task without status is still to be run.                *)
LEMMA DrainInvariance == Spec => []DrainInv
<1>1. TypeInv /\ PlacedInv /\ DrainInv /\ [Next]_vars => DrainInv'
  BY DrainCaller, DrainWorker, DrainOwner DEF Next
<1> QED
  BY <1>1, DrainInit, TypeInvariance, PlacedInvariance, PTL DEF Spec

(* When shutdown returns, every submitted task has been run.               *)
THEOREM ShutdownDrains == Spec => []ShutdownRunsEverything
<1>1. TypeInv /\ DrainInv => ShutdownRunsEverything
  <2> SUFFICES ASSUME TypeInv, DrainInv, owner = "joined", Workers # {},
                      NEW t \in Submitted
               PROVE  status[t] # "none"
    BY DEF ShutdownRunsEverything
  <2>1. \A w \in Workers : wpc[w] = "stopped"
    BY DEF DrainInv
  <2>2. queue = << >>
    BY <2>1 DEF DrainInv
  <2>3. NotRun = {}
    BY <2>1, <2>2 DEF NotRun, Queued, TakenNotRun, Range
  <2> QED
    BY <2>3 DEF DrainInv
<1> QED
  BY <1>1, TypeInvariance, DrainInvariance, PTL

-----------------------------------------------------------------------------
(* The counters.  A worker counts the task it holds as completed or failed *)
(* when it records the task's status, so a task still to be run must have  *)
(* none yet, and a task with a status must be one that was submitted.      *)
Senders == {c \in Callers : pc[c] = "send"}

Totalled ==
  /\ WorkerTotal("completed") = Cardinality(WithStatus("completed"))
  /\ WorkerTotal("failed") = Cardinality(WithStatus("timedOut"))

CountInv ==
  /\ owner # "dropped" => active = Cardinality(Working)
  /\ IsFiniteSet(Submitted)
  /\ stats.submitted = Cardinality(Submitted) + Cardinality(Senders)
  /\ parallel =>
       /\ Totalled
       /\ \A t \in Tasks : status[t] # "none" => t \in Submitted
       /\ \A t \in NotRun : status[t] = "none"

(* Only finitely many threads can be counted.                              *)
LEMMA CountedSetsFinite == IsFiniteSet(Working) /\ IsFiniteSet(Senders)
<1>1. Working \in SUBSET Workers /\ Senders \in SUBSET Callers
  BY DEF Working, Senders
<1> QED
  BY <1>1, FS_Subset, ExecutorAssumption, Zenon

(* What the workers' counters add up to is the sum of this function.       *)
Counts(kind) == [w \in Workers |-> wstats[w][kind]]
(* A counter added up over the workers is a sum.                           *)
LEMMA TotalIsSum ==
  ASSUME NEW kind
  PROVE  WorkerTotal(kind) = SumFunctionOnSet(Counts(kind), Workers)
BY Zenon DEF WorkerTotal, Counts, SumFunction

(* A worker that counts a task of one kind raises that total by one.       *)
LEMMA TotalRises ==
  ASSUME TypeInv, NEW kind \in {"completed", "failed"}, NEW w \in Workers,
         \A v \in Workers : wstats'[v][kind] =
           IF v = w THEN wstats[v][kind] + 1 ELSE wstats[v][kind]
  PROVE  WorkerTotal(kind)' = WorkerTotal(kind) + 1
<1> DEFINE f == Counts(kind)
<1>1. \A v \in Workers : f[v] \in Int
  BY DEF Counts, TypeInv, TypeOK
<1>2. PICK g : g = Counts(kind)'
  OBVIOUS
<1>3. \A v \in Workers : g[v] = IF v = w THEN f[v] + 1 ELSE f[v]
  BY <1>2 DEF Counts
<1>4. WorkerTotal(kind) = SumFunctionOnSet(f, Workers)
      /\ WorkerTotal(kind)' = SumFunctionOnSet(g, Workers)
  <2>1. WorkerTotal(kind)' = SumFunctionOnSet(Counts(kind)', Workers)
    BY Zenon DEF WorkerTotal, Counts, SumFunction
  <2> QED
    BY <1>2, <2>1, TotalIsSum
<1> HIDE DEF f
<1>5. \A v \in Workers : f[v] \in Int /\ g[v] \in Int
  BY <1>1, <1>3
<1>6. \A v \in Workers \ {w} : g[v] = f[v]
  BY <1>3
<1>7. SumFunctionOnSet(g, Workers) = SumFunctionOnSet(f, Workers) - f[w] + g[w]
  BY <1>5, <1>6, SumChanged, ExecutorAssumption
<1>8. SumFunctionOnSet(f, Workers) \in Int
  BY <1>1, SumInteger, ExecutorAssumption, Zenon
<1> QED
  BY <1>1, <1>3, <1>4, <1>7, <1>8

(* A total of what nobody changes stays.                                   *)
LEMMA TotalStays ==
  ASSUME NEW kind, \A v \in Workers : wstats'[v][kind] = wstats[v][kind]
  PROVE  WorkerTotal(kind)' = WorkerTotal(kind)
<1>1. [w \in Workers |-> wstats'[w][kind]] = [w \in Workers |-> wstats[w][kind]]
  BY Zenon
<1> QED
  BY <1>1, Zenon DEF WorkerTotal

(* A step that moves no count and no task, or takes a task from those to   *)
(* be run, keeps the part of the invariant about statuses.                 *)
LEMMA TotalsFrame ==
  ASSUME CountInv, UNCHANGED <<parallel, sent, status, wstats>>,
         parallel => \A t \in NotRun' : t \in NotRun
  PROVE  parallel' =>
           /\ Totalled'
           /\ \A t \in Tasks : status'[t] # "none" => t \in Submitted'
           /\ \A t \in NotRun' : status'[t] = "none"
<1>1. Submitted' = Submitted
  BY DEF Submitted
<1>2. Totalled' = Totalled
  BY DEF Totalled, WorkerTotal, WithStatus
<1> QED
  BY <1>1, <1>2 DEF CountInv

(* At first nothing is counted and there is nothing to count.              *)
LEMMA CountInit == Init => CountInv
<1> SUFFICES ASSUME Init PROVE CountInv
  OBVIOUS
<1>1. Submitted = {} /\ Senders = {} /\ Working = {}
  BY NothingSubmitted DEF Init, Senders, Working
<1>2. WithStatus("completed") = {} /\ WithStatus("timedOut") = {}
  BY DEF Init, WithStatus
<1>3. ASSUME NEW kind \in {"completed", "failed"}
      PROVE  WorkerTotal(kind) = 0
  <2>1. \A w \in Workers : Counts(kind)[w] = 0
    BY DEF Init, Counts
  <2> QED
    BY <2>1, TotalIsSum, SumNothing, ExecutorAssumption, Zenon
<1>4. Totalled
  BY <1>2, <1>3, FS_EmptySet DEF Totalled
<1>5. NotRun = {}
  BY DEF Init, NotRun, Queued, TakenNotRun, Range
<1> QED
  BY <1>1, <1>4, <1>5, FS_EmptySet DEF Init, CountInv

(* submit_task: counted first, sent later.                                 *)
LEMMA CountCaller ==
  ASSUME TypeInv, PlacedInv, CountInv, NEW c \in Callers, Caller(c)
  PROVE  CountInv'
<1> USE DEF TypeInv, TypeOK
<1>1. CASE CountTask(c)
  <2>1. Senders' = Senders \cup {c} /\ c \notin Senders
    BY <1>1 DEF CountTask, Senders
  <2>2. Cardinality(Senders') = Cardinality(Senders) + 1
    BY <2>1, FS_AddElement, CountedSetsFinite, Zenon
  <2>3. UNCHANGED <<Submitted, Working, active, owner, NotRun>>
        /\ UNCHANGED <<parallel, sent, status, wstats>>
    BY <1>1 DEF CountTask, workerVars, Submitted, Working, NotRun, Queued, TakenNotRun
  <2>4. stats'.submitted = stats.submitted + 1
    BY <1>1 DEF CountTask
  <2>5. Cardinality(Senders) \in Nat /\ Cardinality(Submitted) \in Nat
    BY FS_CardinalityType, CountedSetsFinite DEF CountInv
  <2>6. stats'.submitted = Cardinality(Submitted') + Cardinality(Senders')
    BY <2>2, <2>3, <2>4, <2>5 DEF CountInv
  <2> QED
    BY <2>3, <2>6, TotalsFrame DEF CountInv
<1>2. CASE SendTask(c)
  <2> DEFINE t == <<c, sent[c] + 1>>
  <2>1. t \in Tasks /\ Submitted' = Submitted \cup {t} /\ t \notin Submitted
    BY <1>2, SendSubmits
  <2>2. Senders' = Senders \ {c} /\ c \in Senders
    BY <1>2 DEF SendTask, Senders
  <2>3. /\ Cardinality(Senders') = Cardinality(Senders) - 1
        /\ Cardinality(Submitted') = Cardinality(Submitted) + 1
        /\ IsFiniteSet(Submitted')
    <3>1. IsFiniteSet(Submitted) /\ IsFiniteSet(Senders)
      BY CountedSetsFinite DEF CountInv
    <3>2. Cardinality(Senders \ {c}) = Cardinality(Senders) - 1
      BY <2>2, <3>1, FS_RemoveElement
    <3>3. Cardinality(Submitted \cup {t}) = Cardinality(Submitted) + 1
          /\ IsFiniteSet(Submitted \cup {t})
      <4> HIDE DEF t
      <4> QED
        BY <2>1, <3>1, FS_AddElement
    <3> QED
      BY <2>1, <2>2, <3>2, <3>3, Zenon
  <2>4. Cardinality(Senders) \in Nat /\ Cardinality(Submitted) \in Nat
    BY FS_CardinalityType, CountedSetsFinite DEF CountInv
  <2>5. UNCHANGED <<stats, wpc, wtask, Working, active, owner, status, wstats, parallel>>
    BY <1>2 DEF SendTask, workerVars, Working
  <2>6. stats'.submitted = Cardinality(Submitted') + Cardinality(Senders')
    BY <2>3, <2>4, <2>5 DEF CountInv
  <2>7. Queued' = Queued \cup {t}
    <3>1. queue \in Seq(Tasks) /\ queue' = Append(queue, t)
      BY <1>2 DEF SendTask
    <3> HIDE DEF t
    <3>2. Range(Append(queue, t)) = Range(queue) \cup {t}
      BY <2>1, <3>1, AppendElements
    <3> QED
      BY <3>1, <3>2 DEF Queued
  <2>8. NotRun' = NotRun \cup {t}
    BY <2>5, <2>7 DEF NotRun, TakenNotRun
  <2>9. Totalled' = Totalled
    BY <2>5 DEF Totalled, WorkerTotal, WithStatus
  <2>10. status[t] = "none" \/ ~ parallel
    BY <2>1 DEF CountInv
  <2> QED
    BY <2>1, <2>3, <2>5, <2>6, <2>8, <2>9, <2>10 DEF CountInv
<1>3. CASE AllSubmitted(c) \/ CollectResult(c) \/ Return(c)
           \/ ExecuteSequential(c) \/ RejectSubmit(c)
  <2>1. Senders' = Senders
    BY <1>3 DEF AllSubmitted, CollectResult, Return, ExecuteSequential, RejectSubmit, Senders
  <2>2. UNCHANGED <<Submitted, Working, active, owner, NotRun, stats, parallel, sent, wstats>>
    BY <1>3 DEF AllSubmitted, CollectResult, Return, ExecuteSequential, RejectSubmit,
                workerVars, Submitted, Working, NotRun, Queued, TakenNotRun
  <2>3. parallel => status' = status
    BY <1>3 DEF AllSubmitted, CollectResult, Return, ExecuteSequential, RejectSubmit,
                workerVars
  <2> QED
    BY <2>1, <2>2, <2>3, TotalsFrame DEF CountInv
<1> QED
  BY <1>1, <1>2, <1>3 DEF Caller

(* What is to be run is a task.                                            *)
LEMMA NotRunTasks ==
  ASSUME TypeInv
  PROVE  NotRun \subseteq Tasks
<1>1. Queued \subseteq Tasks
  BY RangeOfSeq DEF Queued, TypeInv, TypeOK
<1>2. TakenNotRun \subseteq Tasks
  BY DEF TakenNotRun, TypeInv, HoldsTask, Carrying
<1> QED
  BY <1>1, <1>2 DEF NotRun

(* A worker that runs its task gives it the status it counts.              *)
LEMMA CountExecute ==
  ASSUME TypeInv, PlacedInv, CountInv, NEW w \in Workers, ExecuteTask(w)
  PROVE  CountInv'
<1> DEFINE t == wtask[w]
<1> USE DEF TypeInv, TypeOK
<1>1. wpc[w] = "running" /\ t \in Tasks /\ t \in Held /\ t \in NotRun
  BY NoTaskAssumption DEF ExecuteTask, HoldsTask, Carrying, Held, NotRun, TakenNotRun
<1>2. parallel /\ t \in Submitted /\ status[t] = "none"
  BY <1>1 DEF PlacedInv, OffInv, Somewhere, CountInv
<1>3. UNCHANGED <<queue, wtask, sent, pc, stats, owner, active, parallel>>
      /\ wpc' = [wpc EXCEPT ![w] = "executed"]
  BY DEF ExecuteTask, callerVars
<1>4. UNCHANGED <<Submitted, Senders, Working>>
  BY <1>1, <1>3 DEF Submitted, Senders, Working
<1>5. t \notin NotRun' /\ \A u \in NotRun' : u \in NotRun
  <2>1. t \notin Queued /\ \A v \in Workers \ {w} : wtask[v] # t
    BY <1>1, NoTaskAssumption DEF PlacedInv, AtMostOnce
  <2> QED
    BY <1>3, <2>1 DEF NotRun, Queued, TakenNotRun
<1>6. PICK timedOut \in BOOLEAN :
        /\ status' = [status EXCEPT ![t] = IF timedOut THEN "timedOut" ELSE "completed"]
        /\ wstats' = IF timedOut THEN [wstats EXCEPT ![w].failed = @ + 1]
                     ELSE [wstats EXCEPT ![w].completed = @ + 1]
  BY DEF ExecuteTask
<1>7. \A u \in Tasks : status'[u] = IF u = t THEN IF timedOut THEN "timedOut" ELSE "completed"
                                    ELSE status[u]
  BY <1>1, <1>6
<1>8. IsFiniteSet(WithStatus("completed")) /\ IsFiniteSet(WithStatus("timedOut"))
  <2>1. WithStatus("completed") \in SUBSET Submitted /\ WithStatus("timedOut") \in SUBSET Submitted
    BY <1>2 DEF WithStatus, CountInv
  <2> QED
    BY <2>1, FS_Subset DEF CountInv
<1>9. Totalled'
  <2>1. CASE timedOut
    <3>1. WithStatus("timedOut")' = WithStatus("timedOut") \cup {t}
          /\ t \notin WithStatus("timedOut")
          /\ WithStatus("completed")' = WithStatus("completed")
      BY <1>1, <1>2, <1>7, <2>1 DEF WithStatus
    <3>2. Cardinality(WithStatus("timedOut")') = Cardinality(WithStatus("timedOut")) + 1
      BY <1>8, <3>1, FS_AddElement, Zenon
    <3>3. \A v \in Workers : /\ wstats'[v].completed = wstats[v].completed
                             /\ wstats'[v].failed = IF v = w THEN wstats[v].failed + 1
                                                    ELSE wstats[v].failed
      BY <1>6, <2>1
    <3>4. WorkerTotal("failed")' = WorkerTotal("failed") + 1
          /\ WorkerTotal("completed")' = WorkerTotal("completed")
      BY <3>3, TotalRises, TotalStays
    <3> QED
      BY <1>2, <3>1, <3>2, <3>4 DEF CountInv, Totalled
  <2>2. CASE ~ timedOut
    <3>1. WithStatus("completed")' = WithStatus("completed") \cup {t}
          /\ t \notin WithStatus("completed")
          /\ WithStatus("timedOut")' = WithStatus("timedOut")
      BY <1>1, <1>2, <1>7, <2>2 DEF WithStatus
    <3>2. Cardinality(WithStatus("completed")') = Cardinality(WithStatus("completed")) + 1
      BY <1>8, <3>1, FS_AddElement, Zenon
    <3>3. \A v \in Workers : /\ wstats'[v].failed = wstats[v].failed
                             /\ wstats'[v].completed = IF v = w THEN wstats[v].completed + 1
                                                       ELSE wstats[v].completed
      BY <1>6, <2>2
    <3>4. WorkerTotal("completed")' = WorkerTotal("completed") + 1
          /\ WorkerTotal("failed")' = WorkerTotal("failed")
      BY <3>3, TotalRises, TotalStays
    <3> QED
      BY <1>2, <3>1, <3>2, <3>4 DEF CountInv, Totalled
  <2> QED
    BY <2>1, <2>2
<1>10. \A u \in Tasks : status'[u] # "none" => u \in Submitted'
  BY <1>2, <1>4, <1>7 DEF CountInv
<1>11. \A u \in NotRun' : status'[u] = "none"
  <2>1. \A u \in NotRun' : u \in Tasks /\ u # t /\ status[u] = "none"
    BY <1>2, <1>5, NotRunTasks DEF CountInv
  <2> QED
    BY <1>7, <2>1
<1> QED
  BY <1>3, <1>4, <1>9, <1>10, <1>11 DEF CountInv

(* A worker is active from the start of a task until after its report.     *)
LEMMA CountWorker ==
  ASSUME TypeInv, PlacedInv, CountInv, NEW w \in Workers, Worker(w)
  PROVE  CountInv'
<1> USE DEF TypeInv, TypeOK
<1>1. CASE ExecuteTask(w)
  BY <1>1, CountExecute
<1>2. CASE ~ ExecuteTask(w)
  <2>1. UNCHANGED <<pc, sent, stats, owner, parallel, status, wstats, Submitted, Senders>>
    BY <1>2 DEF Worker, TakeTask, BeginTask, SendResult, FinishTask, StopWorker, WorkerStops,
                callerVars, Submitted, Senders
  <2>2. \A t \in NotRun' : t \in NotRun
    <3>1. CASE TakeTask(w)
      <4>1. Queued' = Queued \ {Head(queue)} /\ Head(queue) \in Queued
        BY <3>1, HeadTailElements DEF TakeTask, Queued, PlacedInv, AtMostOnce
      <4>2. \A v \in Workers : wpc'[v] \in {"taken", "running"} =>
              wtask'[v] = Head(queue) \/ (wpc[v] \in {"taken", "running"} /\ wtask'[v] = wtask[v])
        BY <3>1 DEF TakeTask
      <4> QED
        BY <4>1, <4>2 DEF NotRun, TakenNotRun
    <3>2. CASE ~ TakeTask(w)
      <4>1. queue' = queue
        BY <1>2, <3>2 DEF Worker, BeginTask, SendResult, FinishTask, StopWorker, WorkerStops
      <4>2. \A v \in Workers : wpc'[v] \in {"taken", "running"} =>
              wpc[v] \in {"taken", "running"} /\ wtask'[v] = wtask[v]
        BY <1>2, <3>2 DEF Worker, BeginTask, SendResult, FinishTask, StopWorker, WorkerStops
      <4> QED
        BY <4>1, <4>2 DEF NotRun, Queued, TakenNotRun
    <3> QED
      BY <3>1, <3>2
  <2>3. owner # "dropped" => active' = Cardinality(Working')
    <3> SUFFICES ASSUME owner # "dropped" PROVE active' = Cardinality(Working')
      OBVIOUS
    <3>1. active = Cardinality(Working)
      BY DEF CountInv
    <3>2. CASE BeginTask(w)
      <4>1. Working' = Working \cup {w} /\ w \notin Working /\ active' = active + 1
        BY <3>2 DEF BeginTask, Working
      <4> QED
        BY <3>1, <4>1, FS_AddElement, CountedSetsFinite, Zenon
    <3>3. CASE FinishTask(w)
      <4>1. Working' = Working \ {w} /\ w \in Working /\ active' = active - 1
        BY <3>3 DEF FinishTask, Working
      <4> QED
        BY <3>1, <4>1, FS_RemoveElement, CountedSetsFinite, Zenon
    <3>4. CASE TakeTask(w) \/ SendResult(w) \/ StopWorker(w)
      <4>1. Working' = Working /\ active' = active
        BY <3>4 DEF TakeTask, SendResult, StopWorker, WorkerStops, Working
      <4> QED
        BY <3>1, <4>1
    <3> QED
      BY <1>2, <3>2, <3>3, <3>4 DEF Worker
  <2> QED
    BY <2>1, <2>2, <2>3, TotalsFrame DEF CountInv
<1> QED
  BY <1>1, <1>2

(* The owner counts nothing.                                               *)
LEMMA CountOwner ==
  ASSUME CountInv, Owner \/ UNCHANGED vars
  PROVE  CountInv'
<1>1. UNCHANGED <<pc, sent, stats, parallel, status, wstats, active, wpc, wtask, queue>>
      /\ (owner' # "dropped" => owner # "dropped")
  BY DEF Owner, Shutdown, Join, DropExecutor, callerVars, workerVars, vars
<1>2. UNCHANGED <<Submitted, Senders, Working, NotRun>>
  BY <1>1 DEF Submitted, Senders, Working, NotRun, Queued, TakenNotRun
<1> QED
  BY <1>1, <1>2, TotalsFrame DEF CountInv

(* In every state of every behaviour the counters are exact.               *)
LEMMA CountInvariance == Spec => []CountInv
<1>1. TypeInv /\ PlacedInv /\ CountInv /\ [Next]_vars => CountInv'
  BY CountCaller, CountWorker, CountOwner DEF Next
<1> QED
  BY <1>1, CountInit, TypeInvariance, PlacedInvariance, PTL DEF Spec

(* Of what get_stats returns, the tasks submitted and active, and those    *)
(* completed and failed added up over the workers, are right whenever they *)
(* are read; its own totals, which nobody counts, are not spoken of.       *)
THEOREM StatisticsExact == Spec => []CountersAgree
<1>1. CountInv => CountersAgree
  BY DEF CountInv, CountersAgree, Totalled, Senders, WithStatus
<1> QED
  BY <1>1, CountInvariance, PTL

-----------------------------------------------------------------------------
(* The executor implements the pool.  Each lemma maps one action.          *)
LEMMA MapsInit == Init => Pool!PoolInit
<1> SUFFICES ASSUME Init PROVE Pool!PoolInit
  OBVIOUS
<1>1. Queued = {} /\ Reported = {} /\ \A c \in Callers : Collected(c) = {}
  BY DEF Init, Queued, Reported, Collected, Range
<1>2. AllCollected = {} /\ Submitted = {} /\ TakenNotRun = {} /\ RunNotSent = {}
  BY <1>1, NothingSubmitted DEF Init, AllCollected, TakenNotRun, RunNotSent
<1> QED
  BY <1>1, <1>2 DEF Pool!PoolInit

(* Steps that move no task between the four places are stuttering steps.   *)
LEMMA MapsStutter ==
  ASSUME UNCHANGED <<sent, got, queue, results, wtask>>,
         TakenNotRun' = TakenNotRun, RunNotSent' = RunNotSent
  PROVE  UNCHANGED Pool!poolVars
BY DEF Pool!poolVars, Submitted, AllCollected, Collected, Queued, Reported

(* A send on the task channel is a submission to the pool.                 *)
LEMMA MapsSend ==
  ASSUME TypeInv, PlacedInv, NEW c \in Callers, SendTask(c)
  PROVE  Pool!PoolNext
<1> DEFINE t == <<c, sent[c] + 1>>
<1>1. t \in Tasks /\ Submitted' = Submitted \cup {t} /\ t \notin Submitted
  BY SendSubmits
<1>2. queue \in Seq(Tasks) /\ queue' = Append(queue, t)
  BY DEF SendTask, TypeInv, TypeOK
<1>3. Queued' = Queued \cup {t}
  BY <1>1, <1>2, AppendElements DEF Queued
<1>4. UNCHANGED <<TakenNotRun, RunNotSent, Reported, AllCollected>>
      /\ \A d \in Callers : Collected(d)' = Collected(d)
  BY DEF SendTask, workerVars, TakenNotRun, RunNotSent, Reported, AllCollected, Collected
<1>5. t \notin AllCollected
  BY <1>1 DEF SendTask, PlacedInv, OffInv, Somewhere
<1>6. Pool!Submit(t)
  BY <1>1, <1>3, <1>4, <1>5 DEF Pool!Submit
<1> QED
  BY <1>1, <1>6 DEF Pool!PoolNext

(* Taking a result is a delivery.                                          *)
LEMMA MapsCollect ==
  ASSUME TypeInv, PlacedInv, NEW c \in Callers, CollectResult(c)
  PROVE  Pool!PoolNext
<1> DEFINE t == Head(results)
<1>1. results \in Seq(Tasks) /\ t \in Tasks /\ results # << >> /\ IsInjective(results)
  BY DEF TypeInv, TypeOK, CollectResult, PlacedInv, AtMostOnce
<1>2. t \in Reported /\ Reported' = Reported \ {t}
  BY <1>1, HeadTailElements DEF CollectResult, Reported
<1>3. got[c] \in Seq(Tasks) /\ got'[c] = Append(got[c], t)
      /\ \A d \in Callers \ {c} : got'[d] = got[d]
  BY DEF CollectResult, TypeInv, TypeOK
<1>4. Collected(c)' = Collected(c) \cup {t}
      /\ \A d \in Callers \ {c} : Collected(d)' = Collected(d)
  BY <1>1, <1>3, AppendElements DEF Collected
<1>5. AllCollected' = AllCollected \cup {t}
  <2>1. \A x : x \in AllCollected' <=> \E d \in Callers : x \in Collected(d)'
    BY DEF AllCollected
  <2>2. \A x : x \in AllCollected <=> \E d \in Callers : x \in Collected(d)
    BY DEF AllCollected
  <2> QED
    BY <1>4, <2>1, <2>2
<1>6. UNCHANGED <<Submitted, Queued, TakenNotRun, RunNotSent>>
  BY DEF CollectResult, workerVars, Submitted, Queued, TakenNotRun, RunNotSent
<1>7. t \in Submitted
  BY <1>2 DEF CollectResult, PlacedInv, OffInv, Somewhere
<1>8. t \notin RunNotSent
  <2>1. t \notin Held /\ t # NoTask
    BY <1>1, <1>2, NoTaskAssumption DEF PlacedInv, AtMostOnce
  <2> QED
    BY <2>1 DEF Held, RunNotSent
<1>9. Pool!Deliver(c, t)
  BY <1>2, <1>4, <1>5, <1>6, <1>7, <1>8 DEF Pool!Deliver
<1> QED
  BY <1>1, <1>9 DEF Pool!PoolNext

(* execute_sequential is a batch the caller runs itself.                   *)
LEMMA MapsSequential ==
  ASSUME TypeInv, PlacedInv, NEW c \in Callers, ExecuteSequential(c)
  PROVE  Pool!PoolNext
<1>1. got'[c] = [i \in 1 .. Demand[c] |-> <<c, i>>]
      /\ \A d \in Callers \ {c} : got'[d] = got[d]
  BY DEF ExecuteSequential, TypeInv, TypeOK
<1>2. /\ Collected(c)' = Batch(c) /\ Collected(c) = {}
      /\ \A d \in Callers \ {c} : Collected(d)' = Collected(d)
  <2>1. got[c] = << >>
    BY DEF ExecuteSequential, PlacedInv, OffInv
  <2>2. Collected(c) = {}
    BY <2>1 DEF Collected, Range
  <2>3. Collected(c)' = Batch(c)
    BY <1>1 DEF Collected, Range, Batch
  <2> QED
    BY <1>1, <2>2, <2>3 DEF Collected
<1>3. Submitted = {}
  BY NothingSubmitted DEF ExecuteSequential, PlacedInv, OffInv
<1>4. UNCHANGED <<Submitted, Queued, Reported, TakenNotRun, RunNotSent>>
  BY DEF ExecuteSequential, Submitted, Queued, Reported, TakenNotRun, RunNotSent
<1>5. AllCollected' = AllCollected \cup Batch(c) /\ Batch(c) \cap AllCollected = {}
  <2>1. \A d \in Callers \ {c} : Collected(d) \cap Batch(c) = {}
    BY DEF ExecuteSequential, PlacedInv, OffInv, Batch
  <2>2. \A x : x \in AllCollected' <=> \E d \in Callers : x \in Collected(d)'
    BY DEF AllCollected
  <2>3. \A x : x \in AllCollected <=> \E d \in Callers : x \in Collected(d)
    BY DEF AllCollected
  <2> QED
    BY <1>2, <2>1, <2>2, <2>3
<1>6. Pool!RunLocally(c, Batch(c))
  BY <1>2, <1>3, <1>4, <1>5 DEF Pool!RunLocally
<1>7. Batch(c) \in SUBSET Tasks
  BY DEF Tasks
<1> QED
  BY <1>6, <1>7 DEF Pool!PoolNext

(* Running a task is the execution of a pending task.                      *)
LEMMA MapsExecute ==
  ASSUME TypeInv, PlacedInv, NEW w \in Workers, ExecuteTask(w)
  PROVE  Pool!PoolNext
<1> DEFINE t == wtask[w]
<1>1. wpc[w] = "running" /\ t \in Tasks /\ t \in Held /\ t \in TakenNotRun
  BY NoTaskAssumption
  DEF ExecuteTask, TypeInv, HoldsTask, Carrying, Held, TakenNotRun
<1>2. wpc'[w] = "executed" /\ \A v \in Workers \ {w} : wpc'[v] = wpc[v]
  BY DEF ExecuteTask, TypeInv, TypeOK
<1>3. wtask' = wtask /\ UNCHANGED <<sent, got, queue, results>>
  BY DEF ExecuteTask, callerVars
<1>4. \A v \in Workers \ {w} : wtask[v] # t
  BY <1>1, NoTaskAssumption DEF PlacedInv, AtMostOnce
<1>5. TakenNotRun' = TakenNotRun \ {t}
  BY <1>1, <1>2, <1>3, <1>4 DEF TakenNotRun
<1>6. RunNotSent' = RunNotSent \cup {t}
  BY <1>1, <1>2, <1>3 DEF RunNotSent
<1>7. t \notin Queued
  BY <1>1 DEF PlacedInv, AtMostOnce
<1>8. UNCHANGED <<Submitted, Queued, Reported, AllCollected>>
      /\ \A d \in Callers : Collected(d)' = Collected(d)
  BY <1>3 DEF Submitted, Queued, Reported, AllCollected, Collected
<1>9. Pool!ExecuteTask(t)
  BY <1>1, <1>5, <1>6, <1>7, <1>8 DEF Pool!ExecuteTask
<1> QED
  BY <1>1, <1>9 DEF Pool!PoolNext

(* Taking a task from the channel leaves it pending.                       *)
LEMMA MapsTake ==
  ASSUME TypeInv, PlacedInv, NEW w \in Workers, TakeTask(w)
  PROVE  UNCHANGED Pool!poolVars
<1> DEFINE t == Head(queue)
<1>1. queue \in Seq(Tasks) /\ queue # << >> /\ IsInjective(queue)
  BY DEF TypeInv, TypeOK, TakeTask, PlacedInv, AtMostOnce
<1>2. t \in Queued /\ Queued' = Queued \ {t}
  BY <1>1, HeadTailElements DEF TakeTask, Queued
<1>3. /\ wpc[w] = "idle" /\ wpc'[w] = "taken" /\ wtask'[w] = t
      /\ \A v \in Workers \ {w} : wpc'[v] = wpc[v] /\ wtask'[v] = wtask[v]
  BY DEF TakeTask, TypeInv, TypeOK
<1>4. TakenNotRun' = TakenNotRun \cup {t}
  BY <1>3 DEF TakenNotRun
<1>5. RunNotSent' = RunNotSent
  BY <1>3 DEF RunNotSent
<1>6. UNCHANGED <<Submitted, Reported, AllCollected>>
      /\ \A d \in Callers : Collected(d)' = Collected(d)
  BY DEF TakeTask, callerVars, Submitted, Reported, AllCollected, Collected
<1> QED
  BY <1>2, <1>4, <1>5, <1>6 DEF Pool!poolVars

(* Sending a result leaves its task executed, unless the result is lost.   *)
LEMMA MapsReport ==
  ASSUME TypeInv, PlacedInv, NEW w \in Workers, SendResult(w)
  PROVE  [Pool!PoolNext]_(Pool!poolVars)
<1> DEFINE t == wtask[w]
<1>1. wpc[w] = "executed" /\ t \in Tasks /\ t \in Held /\ t \in RunNotSent
  BY NoTaskAssumption
  DEF SendResult, TypeInv, HoldsTask, Carrying, Held, RunNotSent
<1>2. /\ wpc'[w] \notin Carrying
      /\ \A v \in Workers \ {w} : wpc'[v] = wpc[v] /\ wtask'[v] = wtask[v]
  BY DEF SendResult, Carrying, TypeInv, TypeOK
<1>3. \A v \in Workers \ {w} : wtask[v] # t
  BY <1>1, NoTaskAssumption DEF PlacedInv, AtMostOnce
<1>4. TakenNotRun' = TakenNotRun
  BY <1>1, <1>2 DEF TakenNotRun, Carrying
<1>5. RunNotSent' = RunNotSent \ {t}
  BY <1>1, <1>2, <1>3 DEF RunNotSent, Carrying
<1>6. t \notin Reported
  BY <1>1 DEF PlacedInv, AtMostOnce
<1>7. UNCHANGED <<Submitted, Queued, AllCollected>>
      /\ \A d \in Callers : Collected(d)' = Collected(d)
  BY DEF SendResult, callerVars, Submitted, Queued, AllCollected, Collected
<1>8. CASE owner = "dropped"
  <2>1. Reported' = Reported
    BY <1>8 DEF SendResult, Reported
  <2>2. Pool!Lose({t})
    BY <1>1, <1>4, <1>5, <1>6, <1>7, <2>1 DEF Pool!Lose
  <2> QED
    BY <1>1, <2>2 DEF Pool!PoolNext
<1>9. CASE owner # "dropped"
  <2>1. results \in Seq(Tasks) /\ results' = Append(results, t)
    BY <1>9 DEF SendResult, TypeInv, TypeOK
  <2>2. Reported' = Reported \cup {t}
    BY <1>1, <2>1, AppendElements DEF Reported
  <2> QED
    BY <1>1, <1>4, <1>5, <1>7, <2>2 DEF Pool!poolVars
<1> QED
  BY <1>8, <1>9

(* Dropping the executor loses the results nobody collected.               *)
LEMMA MapsDrop ==
  ASSUME TypeInv, PlacedInv, DropExecutor
  PROVE  Pool!PoolNext
<1>1. Reported' = {}
  BY DEF DropExecutor, Reported, Range
<1>2. UNCHANGED <<Submitted, Queued, AllCollected, TakenNotRun, RunNotSent>>
      /\ \A d \in Callers : Collected(d)' = Collected(d)
  BY DEF DropExecutor, callerVars, workerVars, Submitted, Queued, AllCollected,
         Collected, TakenNotRun, RunNotSent
<1>3. RunNotSent \cap Reported = {}
  <2> SUFFICES ASSUME NEW w \in Workers, wpc[w] = "executed"
               PROVE  wtask[w] \notin Reported
    BY DEF RunNotSent
  <2>1. wtask[w] \in Held
    BY NoTaskAssumption DEF TypeInv, HoldsTask, Carrying, Held
  <2> QED
    BY <2>1 DEF PlacedInv, AtMostOnce
<1>4. Reported \in SUBSET Tasks
  BY RangeOfSeq DEF Reported, TypeInv, TypeOK
<1>5. Pool!Lose(Reported)
  BY <1>1, <1>2, <1>3 DEF Pool!Lose
<1> QED
  BY <1>4, <1>5 DEF Pool!PoolNext

(* Every step of the executor is a step of the pool or changes nothing of  *)
(* it.                                                                     *)
LEMMA MapsStep ==
  ASSUME TypeInv, PlacedInv, [Next]_vars
  PROVE  [Pool!PoolNext]_(Pool!poolVars)
<1>1. ASSUME NEW c \in Callers, Caller(c) PROVE [Pool!PoolNext]_(Pool!poolVars)
  <2>1. CASE CountTask(c) \/ AllSubmitted(c) \/ Return(c) \/ RejectSubmit(c)
    BY <2>1, MapsStutter
    DEF CountTask, AllSubmitted, Return, RejectSubmit, workerVars, TakenNotRun, RunNotSent
  <2> QED
    BY <1>1, <2>1, MapsSend, MapsCollect, MapsSequential DEF Caller
<1>2. ASSUME NEW w \in Workers, Worker(w) PROVE [Pool!PoolNext]_(Pool!poolVars)
  <2>1. CASE BeginTask(w) \/ FinishTask(w) \/ StopWorker(w)
    <3>1. UNCHANGED <<sent, got, queue, results, wtask>>
      BY <2>1 DEF BeginTask, FinishTask, StopWorker, WorkerStops, callerVars
    <3>2. TakenNotRun' = TakenNotRun /\ RunNotSent' = RunNotSent
      BY <2>1, <3>1 DEF BeginTask, FinishTask, StopWorker, WorkerStops,
                        TakenNotRun, RunNotSent, TypeInv, TypeOK
    <3> QED
      BY <3>1, <3>2, MapsStutter
  <2> QED
    BY <1>2, <2>1, MapsTake, MapsExecute, MapsReport DEF Worker
<1>3. CASE Shutdown \/ Join \/ UNCHANGED vars
  BY <1>3, MapsStutter
  DEF Shutdown, Join, vars, callerVars, workerVars, TakenNotRun, RunNotSent
<1> QED
  BY <1>1, <1>2, <1>3, MapsDrop DEF Next, Owner

(* Every behaviour of the executor is one of the pool.                     *)
THEOREM Implementation == Spec => ImplementsPool
BY MapsInit, MapsStep, TypeInvariance, PlacedInvariance, PTL
DEF Spec, ImplementsPool, Pool!PoolSpec

-----------------------------------------------------------------------------
(***************************************************************************)
(* MemoryManager.                                                          *)
(***************************************************************************)

(* What blocks and pools look like, where a thread can be, and the stages in*)
(* which it holds a block of its own.                                      *)
Blocks == {x \in [size : Sizes, len : Nat] : x.len >= x.size}
Pools == [available : Nat, total : Nat, in_use : Nat]
WithBlock == {"count", "look", "compare", "raise", "return", "release"}
Stages == {"idle", "check", "collect", "recheck", "take"} \cup WithBlock

(* The types, and what a thread has asked for and holds at each stage.     *)
MemoryTypes ==
  /\ config \in [pool_sizes : PoolSizes, enable_pooling : BOOLEAN,
                 aggressive_gc : BOOLEAN, enable_compaction : BOOLEAN]
  /\ pools \in [ToSet(config.pool_sizes) -> Pools]
  /\ usage \in Int /\ excess \in Nat
  /\ stage \in [Threads -> Stages]
  /\ asked \in [Threads -> Sizes \cup {0, None}]
  /\ block \in [Threads -> Blocks \cup {None}]
  /\ held \in [Threads -> Seq(Blocks)]
  /\ \A t \in Threads :
       /\ stage[t] \in {"check", "recheck", "take", "count"} => asked[t] \in Sizes
       /\ stage[t] = "collect" => asked[t] \in Sizes \cup {None}
       /\ block[t] = None <=> stage[t] \notin WithBlock
       /\ stage[t] = "count" => block[t].size = asked[t]

(* There is room for the threshold and more in the counter.                *)
LEMMA WrapPositive ==
  /\ Wrap \in Nat \ {0}
  /\ Max(Sizes) \in Sizes /\ Max(Sizes) \in Nat /\ \A size \in Sizes : size <= Max(Sizes)
  /\ Cardinality(Threads) * Max(Sizes) \in Nat
<1>1. Max(Sizes) \in Sizes /\ \A size \in Sizes : Max(Sizes) >= size
  BY SizesAssumption DEF Max
<1>2. Max(Sizes) \in Nat /\ Cardinality(Threads) \in Nat /\ \A size \in Sizes : size \in Nat
  BY <1>1, SizesAssumption, FS_CardinalityType
<1>3. \A x, y \in Nat : x * y \in Nat
  OBVIOUS
<1>4. Cardinality(Threads) * Max(Sizes) \in Nat
  BY <1>2, <1>3
<1> QED
  BY <1>1, <1>2, <1>4, CounterAssumption

(* The pool a block is taken from fits it.                                 *)
LEMMA PoolForFits ==
  ASSUME MemoryTypes, NEW size \in Sizes, Fitting(size) # {}
  PROVE  /\ PoolFor(size) \in ToSet(config.pool_sizes)
         /\ PoolFor(size) \in Nat /\ PoolFor(size) >= size
<1> DEFINE s == config.pool_sizes
<1>1. s \in Seq(Nat \ {0})
  BY SizesAssumption DEF MemoryTypes
<1> DEFINE F == Fitting(size)
<1>2. F \in SUBSET Nat /\ F # {} /\ \A i \in F : i \in DOMAIN s /\ s[i] \in Nat /\ s[i] >= size
  BY <1>1 DEF Fitting
<1> HIDE DEF F
<1>3. \E i \in F : \A j \in F : i <= j
  BY <1>2, LeastNatural
<1>4. Min(F) \in F
  BY <1>3 DEF Min
<1>5. PoolFor(size) = s[Min(F)]
  BY DEF PoolFor, F
<1> HIDE DEF s
<1>6. s[Min(F)] \in ToSet(s)
  BY <1>2, <1>4 DEF ToSet
<1> QED
  BY <1>2, <1>4, <1>5, <1>6 DEF s

(* Taking, giving back and compacting keep a pool a pool.                  *)
LEMMA PoolMoves ==
  ASSUME NEW pool \in Pools
  PROVE  /\ Taken(pool) \in Pools
         /\ Taken(pool).in_use = pool.in_use + 1
         /\ pool.total = pool.available + pool.in_use =>
              Taken(pool).total = Taken(pool).available + Taken(pool).in_use
         /\ Returned(pool) \in Pools
         /\ pool.in_use > 0 => Returned(pool).in_use = pool.in_use - 1
         /\ pool.in_use > 0 /\ pool.total = pool.available + pool.in_use =>
              Returned(pool).total = Returned(pool).available + Returned(pool).in_use
         /\ Compacted(pool) \in Pools
         /\ Compacted(pool).in_use = pool.in_use
         /\ pool.total = pool.available + pool.in_use =>
              Compacted(pool).total = Compacted(pool).available + Compacted(pool).in_use
<1>1. PICK a \in Nat, b \in Nat, c \in Nat : pool.available = a /\ pool.total = b /\ pool.in_use = c
  BY DEF Pools
<1>2. /\ Taken(pool) \in Pools /\ Taken(pool).in_use = c + 1
      /\ b = a + c => Taken(pool).total = Taken(pool).available + Taken(pool).in_use
  <2>1. CASE a > 0
    <3>1. PICK x \in Nat, y \in Nat : x = a - 1 /\ y = c + 1
      BY <2>1
    <3>2. Taken(pool) = [pool EXCEPT !.available = x, !.in_use = y]
      BY <1>1, <2>1, <3>1 DEF Taken
    <3>3. Taken(pool) \in Pools /\ Taken(pool).available = x /\ Taken(pool).total = b /\ Taken(pool).in_use = y
      BY <1>1, <3>2 DEF Pools
    <3> QED
      BY <3>1, <3>3
  <2>2. CASE ~ (a > 0)
    <3>1. PICK x \in Nat, y \in Nat : x = b + 1 /\ y = c + 1
      OBVIOUS
    <3>2. Taken(pool) = [pool EXCEPT !.total = x, !.in_use = y]
      BY <1>1, <2>2, <3>1 DEF Taken
    <3>3. Taken(pool) \in Pools /\ Taken(pool).available = a /\ Taken(pool).total = x /\ Taken(pool).in_use = y
      BY <1>1, <3>2 DEF Pools
    <3> QED
      BY <3>1, <3>3
  <2> QED
    BY <2>1, <2>2
<1>3. /\ Returned(pool) \in Pools
      /\ c > 0 => Returned(pool).in_use = c - 1
      /\ c > 0 /\ b = a + c => Returned(pool).total = Returned(pool).available + Returned(pool).in_use
  <2>1. PICK x \in Nat, y \in Nat : x = a + 1 /\ y = IF c = 0 THEN 0 ELSE c - 1
    OBVIOUS
  <2>2. Returned(pool) = [pool EXCEPT !.available = x, !.in_use = y]
    BY <1>1, <2>1 DEF Returned
  <2>3. /\ Returned(pool) \in Pools
        /\ Returned(pool).available = x /\ Returned(pool).total = b /\ Returned(pool).in_use = y
    BY <1>1, <2>2 DEF Pools
  <2> QED
    BY <2>1, <2>3
<1>4. /\ Compacted(pool) \in Pools
      /\ Compacted(pool).in_use = c
      /\ b = a + c => Compacted(pool).total = Compacted(pool).available + Compacted(pool).in_use
  <2>1. PICK x \in Nat, y \in Nat : x = c + c \div 4 /\ y = c + x
    OBVIOUS
  <2>2. CASE a > x
    <3>1. Compacted(pool) = [pool EXCEPT !.available = x, !.total = y]
      BY <1>1, <2>1, <2>2 DEF Compacted
    <3>2. /\ Compacted(pool) \in Pools
          /\ Compacted(pool).available = x /\ Compacted(pool).total = y /\ Compacted(pool).in_use = c
      BY <1>1, <3>1 DEF Pools
    <3> QED
      BY <2>1, <3>2
  <2>3. CASE ~ (a > x)
    <3>1. Compacted(pool) = pool
      BY <1>1, <2>1, <2>3 DEF Compacted
    <3> QED
      BY <1>1, <3>1
  <2> QED
    BY <2>2, <2>3
<1> QED
  BY <1>1, <1>2, <1>3, <1>4

(* The types hold at first.                                                *)
LEMMA MemoryTypesInit == MemoryInit => MemoryTypes
<1> SUFFICES ASSUME MemoryInit PROVE MemoryTypes
  OBVIOUS
<1>1. EmptyPool \in Pools
  BY DEF EmptyPool, Pools
<1> QED
  BY <1>1 DEF MemoryInit, MemoryTypes, Stages, WithBlock

(* Removing a block from a list leaves the others.                         *)
LEMMA RemovalLeaves ==
  ASSUME NEW S, NEW s \in Seq(S), NEW n \in Nat, n = Len(s), NEW i \in 1 .. n
  PROVE  /\ RemoveAt(s, i) \in Seq(S) /\ DOMAIN RemoveAt(s, i) = 1 .. n - 1
         /\ \A j \in 1 .. n - 1 : RemoveAt(s, i)[j] = s[IF j < i THEN j ELSE j + 1]
<1>1. SubSeq(s, 1, i - 1) \in Seq(S) /\ SubSeq(s, i + 1, n) \in Seq(S)
  OBVIOUS
<1>2. Len(SubSeq(s, 1, i - 1)) = i - 1 /\ Len(SubSeq(s, i + 1, n)) = n - i
  OBVIOUS
<1>3. /\ \A j \in 1 .. i - 1 : SubSeq(s, 1, i - 1)[j] = s[j]
      /\ \A j \in 1 .. n - i : SubSeq(s, i + 1, n)[j] = s[i + j]
  OBVIOUS
<1>4. RemoveAt(s, i) = SubSeq(s, 1, i - 1) \o SubSeq(s, i + 1, n)
  BY DEF RemoveAt
<1> DEFINE a == SubSeq(s, 1, i - 1)
           b == SubSeq(s, i + 1, n)
<1> HIDE DEF a, b
<1>5. /\ a \in Seq(S) /\ b \in Seq(S) /\ Len(a) = i - 1 /\ Len(b) = n - i
      /\ \A j \in 1 .. i - 1 : a[j] = s[j]
      /\ \A j \in 1 .. n - i : b[j] = s[i + j]
      /\ RemoveAt(s, i) = a \o b
  BY <1>1, <1>2, <1>3, <1>4 DEF a, b
<1>6. a \o b \in Seq(S) /\ Len(a \o b) = n - 1
  <2>1. \A x, y \in Seq(S) : x \o y \in Seq(S) /\ Len(x \o y) = Len(x) + Len(y)
    OBVIOUS
  <2>2. Len(a \o b) = (i - 1) + (n - i)
    BY <1>5, <2>1
  <2> QED
    BY <1>5, <2>1, <2>2
<1>7. ASSUME NEW j \in 1 .. n - 1 PROVE (a \o b)[j] = s[IF j < i THEN j ELSE j + 1]
  <2>1. CASE j < i
    BY <1>5, <2>1
  <2>2. CASE ~ (j < i)
    <3>1. (a \o b)[j] = b[j - (i - 1)]
      BY <1>5, <2>2
    <3>2. j - (i - 1) \in 1 .. n - i /\ i + (j - (i - 1)) = j + 1
      BY <2>2
    <3>3. b[j - (i - 1)] = s[i + (j - (i - 1))]
      BY <1>5, <3>2
    <3> QED
      BY <2>2, <3>1, <3>2, <3>3
  <2> QED
    BY <2>1, <2>2
<1>8. DOMAIN (a \o b) = 1 .. n - 1
  BY <1>6
<1> QED
  BY <1>5, <1>6, <1>7, <1>8

(* Every step keeps them.                                                  *)
LEMMA MemoryTypesNext ==
  ASSUME MemoryTypes, [MemoryNext]_memoryVars
  PROVE  MemoryTypes'
<1>0. CASE UNCHANGED memoryVars
  BY <1>0 DEF memoryVars, threadVars, MemoryTypes
<1> SUFFICES ASSUME NEW t \in Threads,
                    \/ \E size \in Sizes : Allocate(t, size)
                    \/ Deallocate(t) \/ ForceGc(t)
                    \/ Step(t)
             PROVE  MemoryTypes'
  BY <1>0 DEF MemoryNext
<1> USE DEF MemoryTypes, Stages, WithBlock
<1>1. ASSUME NEW size \in Sizes, Allocate(t, size) PROVE MemoryTypes'
  BY <1>1 DEF Allocate, Call
<1>2. CASE CheckPressure(t)
  BY <1>2 DEF CheckPressure, Goto
<1>3. CASE CollectGarbage(t)
  <2>1. pools' \in [ToSet(config.pool_sizes) -> Pools]
    BY <1>3, PoolMoves DEF CollectGarbage
  <2> QED
    BY <1>3, <2>1, SizesAssumption DEF CollectGarbage, Goto
<1>4. CASE CheckAgain(t)
  BY <1>4 DEF CheckAgain, Goto
<1>5. CASE TakeBlock(t)
  <2>1. asked[t] \in Sizes /\ stage[t] = "take" /\ stage' = [stage EXCEPT ![t] = "count"]
    BY <1>5 DEF TakeBlock, Goto
  <2>2. PICK size \in Sizes : size = asked[t]
    BY <2>1
  <2>3. ASSUME NEW pool \in Nat, pool >= size, block' = [block EXCEPT ![t] = Block(size, pool)],
               pools' \in [ToSet(config.pool_sizes) -> Pools]
        PROVE  MemoryTypes'
    <3>1. /\ Block(size, pool) \in Blocks /\ Block(size, pool) # None
          /\ Block(size, pool).size = asked[t]
      BY <2>2, <2>3, SizesAssumption DEF Block, Blocks
    <3> QED
      BY <1>5, <2>1, <2>3, <3>1 DEF TakeBlock, Goto
  <2>4. CASE config.enable_pooling /\ Fitting(size) # {}
    <3>1. /\ PoolFor(size) \in ToSet(config.pool_sizes)
          /\ PoolFor(size) \in Nat /\ PoolFor(size) >= size
      BY <2>4, PoolForFits
    <3>2. /\ pools' = [pools EXCEPT ![PoolFor(size)] = Taken(@)]
          /\ block' = [block EXCEPT ![t] = Block(size, PoolFor(size))]
      BY <1>5, <2>2, <2>4 DEF TakeBlock
    <3>3. Taken(pools[PoolFor(size)]) \in Pools
      BY <3>1, PoolMoves
    <3> QED
      BY <2>3, <3>1, <3>2, <3>3
  <2>5. CASE ~ (config.enable_pooling /\ Fitting(size) # {})
    <3>1. pools' = pools /\ block' = [block EXCEPT ![t] = Block(size, size)]
      BY <1>5, <2>2, <2>5 DEF TakeBlock
    <3>2. size \in Nat /\ size >= size
      BY SizesAssumption
    <3> QED
      BY <2>3, <3>1, <3>2
  <2> QED
    BY <2>4, <2>5
<1>6. CASE CountUsage(t)
  <2>1. stage[t] = "count" /\ stage' = [stage EXCEPT ![t] = "look"]
    BY <1>6 DEF CountUsage, Goto
  <2>2. asked[t] \in Nat /\ Wrap \in Nat \ {0}
    BY <2>1, SizesAssumption, WrapPositive
  <2>3. usage + asked[t] \in Int
    BY <2>2
  <2>4. usage' \in Int
    BY <1>6, <2>2, <2>3, QuotientAndRemainder DEF CountUsage
  <2> QED
    BY <1>6, <2>1, <2>4 DEF CountUsage
<1>7. CASE LookAtUsage(t)
  BY <1>7 DEF LookAtUsage, Goto
<1>8. CASE BelowPeak(t) \/ RaisePeak(t)
  <2>1. block[t] \in Blocks
    BY <1>8 DEF BelowPeak, RaisePeak, Goto
  <2>2. \A b \in Seq(Blocks), x \in Blocks : Append(b, x) \in Seq(Blocks)
    OBVIOUS
  <2>3. PICK new \in Seq(Blocks) : new = Append(held[t], block[t])
    BY <2>1, <2>2
  <2>4. /\ held' = [held EXCEPT ![t] = new] /\ block' = [block EXCEPT ![t] = None]
        /\ stage' = [stage EXCEPT ![t] = "idle"]
        /\ UNCHANGED <<config, pools, usage, asked, excess>>
    BY <1>8, <2>3 DEF BelowPeak, RaisePeak, Goto, HandOver
  <2> QED
    BY <2>4
<1>9. CASE AbovePeak(t)
  BY <1>9 DEF AbovePeak, Goto
<1>10. CASE Deallocate(t)
  <2>1. PICK i \in DOMAIN held[t] : /\ block' = [block EXCEPT ![t] = held[t][i]]
                                   /\ held' = [held EXCEPT ![t] = RemoveAt(@, i)]
    BY <1>10 DEF Deallocate
  <2>2. PICK s \in Seq(Blocks) : s = held[t]
    OBVIOUS
  <2>3. PICK n \in Nat : n = Len(s) /\ i \in 1 .. n
    <3>1. \A b \in Seq(Blocks) : Len(b) \in Nat /\ DOMAIN b = 1 .. Len(b)
      OBVIOUS
    <3> QED
      BY <2>1, <2>2, <3>1
  <2>4. s[i] \in Blocks /\ s[i] # None
    <3>1. s[i] \in Blocks
      BY <2>3
    <3> QED
      BY <3>1, SizesAssumption DEF Blocks
  <2>5. RemoveAt(s, i) \in Seq(Blocks)
    BY <2>3, RemovalLeaves
  <2>6. stage[t] = "idle" /\ stage' = [stage EXCEPT ![t] = "return"]
    BY <1>10 DEF Deallocate, Call
  <2> QED
    BY <1>10, <2>1, <2>2, <2>4, <2>5, <2>6 DEF Deallocate
<1>11. CASE ReturnBlock(t)
  <2>1. pools' \in [ToSet(config.pool_sizes) -> Pools]
    BY <1>11, PoolMoves DEF ReturnBlock
  <2> QED
    BY <1>11, <2>1 DEF ReturnBlock, Goto
<1>12. CASE ReleaseUsage(t)
  <2>1. block[t] \in Blocks /\ stage' = [stage EXCEPT ![t] = "idle"]
    BY <1>12 DEF ReleaseUsage, Goto
  <2>2. PICK x \in Nat, y \in Nat : x = block[t].len /\ y = block[t].size /\ x >= y
    BY <2>1, SizesAssumption DEF Blocks
  <2>3. excess' = excess + x - y /\ usage' = (usage - x) % Wrap
    BY <1>12, <2>2 DEF ReleaseUsage
  <2>4. excess + x - y \in Nat
    BY <2>2
  <2>5. (usage - x) % Wrap \in Int
    BY QuotientAndRemainder, WrapPositive
  <2> QED
    BY <1>12, <2>1, <2>3, <2>4, <2>5 DEF ReleaseUsage
<1>13. CASE ForceGc(t)
  BY <1>13 DEF ForceGc, Call
<1> QED
  BY <1>1, <1>2, <1>3, <1>4, <1>5, <1>6, <1>7, <1>8, <1>9, <1>10, <1>11, <1>12, <1>13 DEF Step

(* What a block is.                                                        *)
LEMMA BlocksAre ==
  ASSUME NEW x \in Blocks
  PROVE  /\ x.size \in Sizes /\ x.size \in Nat /\ x.len \in Nat /\ x.len >= x.size
         /\ x # None
<1>1. x \in [size : Sizes, len : Nat] /\ x.len >= x.size
  BY DEF Blocks
<1>2. \A size \in Sizes : size \in Nat
  BY SizesAssumption
<1> QED
  BY <1>1, <1>2, SizesAssumption

(* Handing a block over changes the sums by that block.                    *)
LEMMA BlockAppended ==
  ASSUME NEW b \in Seq(Blocks), NEW x \in Blocks
  PROVE  /\ SizeOf(Append(b, x)) = SizeOf(b) + x.size
         /\ \A p \in Nat : NumberOf(Append(b, x), p) = NumberOf(b, p) + (IF x.len = p THEN 1 ELSE 0)
<1>1. PICK n \in Nat : DOMAIN b = 1 .. n /\ n = Len(b)
  OBVIOUS
<1> DEFINE c == Append(b, x)
<1>2. DOMAIN c = 1 .. n + 1 /\ c[n + 1] = x /\ \A i \in 1 .. n : c[i] = b[i] /\ b[i] \in Blocks
  BY <1>1
<1> HIDE DEF c
<1>3. \A y \in Blocks : y.size \in Int
  BY BlocksAre
<1>4. SizeOf(c) = SizeOf(b) + x.size
  <2> DEFINE f == [i \in DOMAIN b |-> b[i].size]
             g == [i \in DOMAIN c |-> c[i].size]
  <2>1. DOMAIN f = 1 .. n /\ DOMAIN g = 1 .. n + 1
    BY <1>1, <1>2
  <2>2. \A i \in 1 .. n : f[i] \in Int /\ g[i] = f[i]
    BY <1>1, <1>2, <1>3
  <2>3. n + 1 \in 1 .. n + 1
    BY <1>1
  <2>4. g[n + 1] = x.size /\ g[n + 1] \in Int
    BY <1>2, <1>3, <2>3
  <2>5. SizeOf(b) = SumFunctionOnSet(f, 1 .. n) /\ SizeOf(c) = SumFunctionOnSet(g, 1 .. n + 1)
    BY <2>1 DEF SizeOf, SumFunction
  <2> HIDE DEF f, g
  <2> QED
    BY <2>2, <2>4, <2>5, SumAppended
<1>5. ASSUME NEW p \in Nat
      PROVE  NumberOf(c, p) = NumberOf(b, p) + (IF x.len = p THEN 1 ELSE 0)
  <2> DEFINE f == [i \in DOMAIN b |-> IF b[i].len = p THEN 1 ELSE 0]
             g == [i \in DOMAIN c |-> IF c[i].len = p THEN 1 ELSE 0]
  <2>1. DOMAIN f = 1 .. n /\ DOMAIN g = 1 .. n + 1
    BY <1>1, <1>2
  <2>2. \A i \in 1 .. n : f[i] \in Int /\ g[i] = f[i]
    BY <1>1, <1>2
  <2>3. n + 1 \in 1 .. n + 1
    BY <1>1
  <2>4. g[n + 1] = (IF x.len = p THEN 1 ELSE 0) /\ g[n + 1] \in Int
    BY <1>2, <2>3
  <2>5. NumberOf(b, p) = SumFunctionOnSet(f, 1 .. n) /\ NumberOf(c, p) = SumFunctionOnSet(g, 1 .. n + 1)
    BY <2>1 DEF NumberOf, SumFunction
  <2> HIDE DEF f, g
  <2>6. SumFunctionOnSet(g, 1 .. n + 1) = SumFunctionOnSet(f, 1 .. n) + g[n + 1]
    BY <2>2, <2>4, SumAppended
  <2> QED
    BY <2>4, <2>5, <2>6
<1> QED
  BY <1>4, <1>5 DEF c

(* And so does taking one out.                                             *)
LEMMA BlockRemoved ==
  ASSUME NEW b \in Seq(Blocks), NEW i \in DOMAIN b
  PROVE  /\ SizeOf(b) = b[i].size + SizeOf(RemoveAt(b, i))
         /\ \A p \in Nat : NumberOf(b, p) = (IF b[i].len = p THEN 1 ELSE 0) + NumberOf(RemoveAt(b, i), p)
<1>1. PICK n \in Nat : DOMAIN b = 1 .. n /\ n = Len(b)
  OBVIOUS
<1> DEFINE c == RemoveAt(b, i)
<1>2. /\ DOMAIN c = 1 .. n - 1
      /\ \A j \in 1 .. n - 1 : c[j] = b[IF j < i THEN j ELSE j + 1]
      /\ \A j \in 1 .. n - 1 : (IF j < i THEN j ELSE j + 1) \in 1 .. n
  <2>1. i \in 1 .. n
    BY <1>1
  <2>2. \A j \in 1 .. n - 1 : (IF j < i THEN j ELSE j + 1) \in 1 .. n
    BY <2>1
  <2>3. b \in Seq(Blocks) /\ n \in Nat /\ n = Len(b)
    BY <1>1
  <2>4. /\ DOMAIN RemoveAt(b, i) = 1 .. n - 1
        /\ \A j \in 1 .. n - 1 : RemoveAt(b, i)[j] = b[IF j < i THEN j ELSE j + 1]
    <3> HIDE DEF c
    <3>1. PICK k \in 1 .. n : k = i
      BY <2>1
    <3>2. DOMAIN RemoveAt(b, k) = 1 .. n - 1
      BY <2>3, RemovalLeaves
    <3>3. \A j \in 1 .. n - 1 : RemoveAt(b, k)[j] = b[IF j < k THEN j ELSE j + 1]
      BY <2>3, RemovalLeaves
    <3> QED
      BY <3>1, <3>2, <3>3
  <2> QED
    BY <2>2, <2>4
<1> HIDE DEF c
<1>3. \A y \in Blocks : y.size \in Int
  BY BlocksAre
<1>4. \A j \in 1 .. n : b[j] \in Blocks
  BY <1>1
<1>5. SizeOf(b) = b[i].size + SizeOf(c)
  <2> DEFINE f == [j \in DOMAIN b |-> b[j].size]
             g == [j \in DOMAIN c |-> c[j].size]
  <2>1. DOMAIN f = 1 .. n /\ DOMAIN g = 1 .. n - 1
    BY <1>1, <1>2
  <2>2. \A j \in 1 .. n : f[j] \in Int /\ f[j] = b[j].size
    BY <1>1, <1>3, <1>4
  <2>3. \A j \in 1 .. n - 1 : g[j] = f[IF j < i THEN j ELSE j + 1]
    BY <1>2, <2>2
  <2>4. SizeOf(b) = SumFunctionOnSet(f, 1 .. n) /\ SizeOf(c) = SumFunctionOnSet(g, 1 .. n - 1)
    BY <2>1 DEF SizeOf, SumFunction
  <2> HIDE DEF f, g
  <2>6. i \in 1 .. n /\ \A j \in 1 .. n : f[j] \in Int
    BY <1>1, <2>2
  <2>5. SumFunctionOnSet(f, 1 .. n) = f[i] + SumFunctionOnSet(g, 1 .. n - 1)
    BY <2>3, <2>6, SumRemoved
  <2> QED
    BY <1>1, <2>2, <2>4, <2>5
<1>6. ASSUME NEW p \in Nat
      PROVE  NumberOf(b, p) = (IF b[i].len = p THEN 1 ELSE 0) + NumberOf(c, p)
  <2> DEFINE f == [j \in DOMAIN b |-> IF b[j].len = p THEN 1 ELSE 0]
             g == [j \in DOMAIN c |-> IF c[j].len = p THEN 1 ELSE 0]
  <2>1. DOMAIN f = 1 .. n /\ DOMAIN g = 1 .. n - 1
    BY <1>1, <1>2
  <2>2. \A j \in 1 .. n : f[j] \in Int /\ f[j] = IF b[j].len = p THEN 1 ELSE 0
    BY <1>1
  <2>3. \A j \in 1 .. n - 1 : g[j] = f[IF j < i THEN j ELSE j + 1]
    BY <1>2, <2>2
  <2>4. NumberOf(b, p) = SumFunctionOnSet(f, 1 .. n) /\ NumberOf(c, p) = SumFunctionOnSet(g, 1 .. n - 1)
    BY <2>1 DEF NumberOf, SumFunction
  <2> HIDE DEF f, g
  <2>6. i \in 1 .. n /\ \A j \in 1 .. n : f[j] \in Int
    BY <1>1, <2>2
  <2>5. SumFunctionOnSet(f, 1 .. n) = f[i] + SumFunctionOnSet(g, 1 .. n - 1)
    BY <2>3, <2>6, SumRemoved
  <2> QED
    BY <1>1, <2>2, <2>4, <2>5
<1> QED
  BY <1>5, <1>6 DEF c

(* The sums are numbers.                                                   *)
LEMMA SumsOfBlocks ==
  ASSUME NEW b \in Seq(Blocks)
  PROVE  SizeOf(b) \in Nat /\ \A p \in Nat : NumberOf(b, p) \in Nat
<1>1. PICK n \in Nat : DOMAIN b = 1 .. n
  OBVIOUS
<1>2. \A i \in 1 .. n : b[i].size \in Nat
  BY <1>1, BlocksAre
<1>3. IsFiniteSet(1 .. n)
  BY FS_Interval
<1>4. SizeOf(b) \in Nat
  <2> DEFINE f == [i \in DOMAIN b |-> b[i].size]
  <2>1. DOMAIN f = 1 .. n /\ \A i \in 1 .. n : f[i] \in Nat
    BY <1>1, <1>2
  <2>2. SizeOf(b) = SumFunctionOnSet(f, DOMAIN f)
    BY DEF SizeOf, SumFunction
  <2> HIDE DEF f
  <2> QED
    BY <1>3, <2>1, <2>2, SumNatural
<1>5. ASSUME NEW p \in Nat PROVE NumberOf(b, p) \in Nat
  <2> DEFINE f == [i \in DOMAIN b |-> IF b[i].len = p THEN 1 ELSE 0]
  <2>1. DOMAIN f = 1 .. n /\ \A i \in 1 .. n : f[i] \in Nat
    BY <1>1
  <2>2. NumberOf(b, p) = SumFunctionOnSet(f, DOMAIN f)
    BY DEF NumberOf, SumFunction
  <2> HIDE DEF f
  <2> QED
    BY <1>3, <2>1, <2>2, SumNatural
<1> QED
  BY <1>4, <1>5

(* What a thread contributes to the sums.                                  *)
CountedIn(h, b, s) == SizeOf(h) + (IF b = None \/ s = "count" THEN 0 ELSE b.size)
AdmittedIn(a, s) == IF s \in {"take", "count"} THEN a ELSE 0
OutIn(h, b, s, p) ==
  NumberOf(h, p) + (IF b = None \/ s = "release" \/ b.len # p THEN 0 ELSE 1)

(* Each part is a number, and nobody is let through with more than asked.  *)
LEMMA PartsTyped ==
  ASSUME NEW h \in Seq(Blocks), NEW b \in Blocks \cup {None}, NEW a, NEW s,
         s \in {"take", "count"} => a \in Sizes
  PROVE  /\ CountedIn(h, b, s) \in Nat
         /\ AdmittedIn(a, s) \in Nat /\ AdmittedIn(a, s) <= Max(Sizes)
         /\ \A p \in Nat : OutIn(h, b, s, p) \in Nat
<1>2. SizeOf(h) \in Nat /\ \A p \in Nat : NumberOf(h, p) \in Nat
  BY SumsOfBlocks
<1>3. \A x, y \in Nat : x + y \in Nat
  OBVIOUS
<1>4. CountedIn(h, b, s) \in Nat
  <2>1. (IF b = None \/ s = "count" THEN 0 ELSE b.size) \in Nat
    BY BlocksAre
  <2> QED
    BY <1>2, <1>3, <2>1 DEF CountedIn
<1>5. AdmittedIn(a, s) \in Nat /\ AdmittedIn(a, s) <= Max(Sizes)
  <2>1. AdmittedIn(a, s) = 0 \/ AdmittedIn(a, s) \in Sizes
    BY DEF AdmittedIn
  <2>2. \A size \in Sizes : size \in Nat /\ size <= Max(Sizes)
    BY WrapPositive, SizesAssumption
  <2>3. 0 \in Nat /\ 0 <= Max(Sizes)
    BY WrapPositive
  <2> QED
    BY <2>1, <2>2, <2>3
<1>6. ASSUME NEW p \in Nat PROVE OutIn(h, b, s, p) \in Nat
  BY <1>2, <1>3 DEF OutIn
<1> QED
  BY <1>4, <1>5, <1>6

(* The same of a thread as it is.                                          *)
LEMMA ThreadTyped ==
  ASSUME MemoryTypes, NEW t \in Threads
  PROVE  /\ CountedOf(t) = CountedIn(held[t], block[t], stage[t])
         /\ AdmittedOf(t) = AdmittedIn(asked[t], stage[t])
         /\ \A p : OutOf(t, p) = OutIn(held[t], block[t], stage[t], p)
         /\ CountedOf(t) \in Nat
         /\ AdmittedOf(t) \in Nat /\ AdmittedOf(t) <= Max(Sizes)
         /\ \A p \in Nat : OutOf(t, p) \in Nat
<1>1. /\ held[t] \in Seq(Blocks) /\ block[t] \in Blocks \cup {None}
      /\ stage[t] \in {"take", "count"} => asked[t] \in Sizes
  BY DEF MemoryTypes
<1>2. /\ CountedOf(t) = CountedIn(held[t], block[t], stage[t])
      /\ AdmittedOf(t) = AdmittedIn(asked[t], stage[t])
      /\ \A p : OutOf(t, p) = OutIn(held[t], block[t], stage[t], p)
  BY DEF CountedOf, CountedIn, AdmittedOf, AdmittedIn, OutOf, OutIn
<1>3. /\ CountedIn(held[t], block[t], stage[t]) \in Nat
      /\ AdmittedIn(asked[t], stage[t]) \in Nat /\ AdmittedIn(asked[t], stage[t]) <= Max(Sizes)
      /\ \A p \in Nat : OutIn(held[t], block[t], stage[t], p) \in Nat
  BY <1>1, PartsTyped
<1> QED
  BY <1>2, <1>3

(* And after a step.                                                       *)
LEMMA ThreadTypedNext ==
  ASSUME MemoryTypes', NEW t \in Threads
  PROVE  /\ CountedOf(t)' = CountedIn(held'[t], block'[t], stage'[t])
         /\ AdmittedOf(t)' = AdmittedIn(asked'[t], stage'[t])
         /\ \A p : OutOf(t, p)' = OutIn(held'[t], block'[t], stage'[t], p)
         /\ CountedOf(t)' \in Nat
         /\ AdmittedOf(t)' \in Nat /\ AdmittedOf(t)' <= Max(Sizes)
         /\ \A p \in Nat : OutOf(t, p)' \in Nat
<1>1. /\ held'[t] \in Seq(Blocks) /\ block'[t] \in Blocks \cup {None}
      /\ stage'[t] \in {"take", "count"} => asked'[t] \in Sizes
  BY DEF MemoryTypes
<1>2. /\ CountedOf(t)' = CountedIn(held'[t], block'[t], stage'[t])
      /\ AdmittedOf(t)' = AdmittedIn(asked'[t], stage'[t])
      /\ \A p : OutOf(t, p)' = OutIn(held'[t], block'[t], stage'[t], p)
  BY DEF CountedOf, CountedIn, AdmittedOf, AdmittedIn, OutOf, OutIn
<1>3. /\ CountedIn(held'[t], block'[t], stage'[t]) \in Nat
      /\ AdmittedIn(asked'[t], stage'[t]) \in Nat /\ AdmittedIn(asked'[t], stage'[t]) <= Max(Sizes)
      /\ \A p \in Nat : OutIn(held'[t], block'[t], stage'[t], p) \in Nat
  BY <1>1, PartsTyped
<1> QED
  BY <1>2, <1>3

(* How many blocks as long as those of pool p are out.                     *)
Outs(p) == SumFunction([t \in Threads |-> OutOf(t, p)])

(* Only thread t has moved.                                                *)
OnlyMoved(t) ==
  \A u \in Threads \ {t} : /\ stage'[u] = stage[u] /\ asked'[u] = asked[u]
                           /\ block'[u] = block[u] /\ held'[u] = held[u]

(* When one thread moves, the sums change by its part.                     *)
LEMMA SumsMove ==
  ASSUME MemoryTypes, MemoryTypes', NEW t \in Threads, OnlyMoved(t)
  PROVE  /\ Counted \in Nat /\ Admitted \in Nat /\ Counted' \in Nat /\ Admitted' \in Nat
         /\ Admitted' <= Cardinality(Threads) * Max(Sizes)
         /\ Counted' = Counted - CountedOf(t) + CountedOf(t)'
         /\ Admitted' = Admitted - AdmittedOf(t) + AdmittedOf(t)'
         /\ \A p \in Nat : Outs(p)' = Outs(p) - OutOf(t, p) + OutOf(t, p)'
<1>1. \A u \in Threads \ {t} : /\ CountedOf(u)' = CountedOf(u)
                               /\ AdmittedOf(u)' = AdmittedOf(u)
                               /\ \A p \in Nat : OutOf(u, p)' = OutOf(u, p)
  BY ThreadTyped, ThreadTypedNext DEF OnlyMoved
<1>2. \A u \in Threads : /\ CountedOf(u) \in Nat /\ AdmittedOf(u) \in Nat
                         /\ \A p \in Nat : OutOf(u, p) \in Nat
  BY ThreadTyped
<1>3. \A u \in Threads : /\ CountedOf(u)' \in Nat
                         /\ AdmittedOf(u)' \in Nat /\ AdmittedOf(u)' <= Max(Sizes)
                         /\ \A p \in Nat : OutOf(u, p)' \in Nat
  BY ThreadTypedNext
<1>4. IsFiniteSet(Threads)
  BY SizesAssumption
<1>5. /\ Counted \in Nat /\ Counted' \in Nat
      /\ Counted' = Counted - CountedOf(t) + CountedOf(t)'
  <2>1. PICK f : f = [u \in Threads |-> CountedOf(u)]
    OBVIOUS
  <2>2. PICK g : g = [u \in Threads |-> CountedOf(u)']
    OBVIOUS
  <2>3. /\ \A u \in Threads : f[u] \in Nat /\ g[u] \in Nat
        /\ \A u \in Threads : f[u] \in Int /\ g[u] \in Int
        /\ \A u \in Threads \ {t} : g[u] = f[u]
        /\ DOMAIN f = Threads /\ DOMAIN g = Threads
        /\ f[t] = CountedOf(t) /\ g[t] = CountedOf(t)'
    BY <1>1, <1>2, <1>3, <2>1, <2>2
  <2>4. Counted = SumFunctionOnSet(f, Threads)
    BY <2>1, <2>3 DEF Counted, SumFunction
  <2>5. Counted' = SumFunctionOnSet(g, Threads)
    BY <2>2, <2>3 DEF Counted, SumFunction
  <2>6. SumFunctionOnSet(g, Threads) = SumFunctionOnSet(f, Threads) - f[t] + g[t]
    BY <1>4, <2>3, SumChanged
  <2>7. SumFunctionOnSet(f, Threads) \in Nat /\ SumFunctionOnSet(g, Threads) \in Nat
    BY <1>4, <2>3, SumNatural
  <2> QED
    BY <2>3, <2>4, <2>5, <2>6, <2>7
<1>6. /\ Admitted \in Nat /\ Admitted' \in Nat
      /\ Admitted' = Admitted - AdmittedOf(t) + AdmittedOf(t)'
      /\ Admitted' <= Cardinality(Threads) * Max(Sizes)
  <2>1. PICK f : f = [u \in Threads |-> AdmittedOf(u)]
    OBVIOUS
  <2>2. PICK g : g = [u \in Threads |-> AdmittedOf(u)']
    OBVIOUS
  <2>3. /\ \A u \in Threads : f[u] \in Nat /\ g[u] \in Nat /\ g[u] <= Max(Sizes)
        /\ \A u \in Threads : f[u] \in Int /\ g[u] \in Int
        /\ \A u \in Threads \ {t} : g[u] = f[u]
        /\ DOMAIN f = Threads /\ DOMAIN g = Threads
        /\ f[t] = AdmittedOf(t) /\ g[t] = AdmittedOf(t)'
    BY <1>1, <1>2, <1>3, <2>1, <2>2
  <2>4. Admitted = SumFunctionOnSet(f, Threads)
    BY <2>1, <2>3 DEF Admitted, SumFunction
  <2>5. Admitted' = SumFunctionOnSet(g, Threads)
    BY <2>2, <2>3 DEF Admitted, SumFunction
  <2>6. SumFunctionOnSet(g, Threads) = SumFunctionOnSet(f, Threads) - f[t] + g[t]
    BY <1>4, <2>3, SumChanged
  <2>7. SumFunctionOnSet(f, Threads) \in Nat /\ SumFunctionOnSet(g, Threads) \in Nat
    BY <1>4, <2>3, SumNatural
  <2>8. SumFunctionOnSet(g, Threads) <= Cardinality(Threads) * Max(Sizes)
    BY <1>4, <2>3, WrapPositive, SumAtMost
  <2> QED
    BY <2>3, <2>4, <2>5, <2>6, <2>7, <2>8
<1>7. ASSUME NEW p \in Nat PROVE Outs(p)' = Outs(p) - OutOf(t, p) + OutOf(t, p)'
  <2>1. PICK f : f = [u \in Threads |-> OutOf(u, p)]
    OBVIOUS
  <2>2. PICK g : g = [u \in Threads |-> OutOf(u, p)']
    OBVIOUS
  <2>3. /\ \A u \in Threads : f[u] \in Int /\ g[u] \in Int
        /\ \A u \in Threads \ {t} : g[u] = f[u]
        /\ DOMAIN f = Threads /\ DOMAIN g = Threads
        /\ f[t] = OutOf(t, p) /\ g[t] = OutOf(t, p)'
    BY <1>1, <1>2, <1>3, <2>1, <2>2
  <2>4. Outs(p) = SumFunctionOnSet(f, Threads)
    BY <2>1, <2>3 DEF Outs, SumFunction
  <2>5. Outs(p)' = SumFunctionOnSet(g, Threads)
    BY <2>2, <2>3 DEF Outs, SumFunction
  <2> QED
    BY <1>4, <2>3, <2>4, <2>5, SumChanged
<1> QED
  BY <1>5, <1>6, <1>7

(* What thread t may do.                                                   *)
MoveOf(t) ==
  \/ \E size \in Sizes : Allocate(t, size)
  \/ Deallocate(t) \/ ForceGc(t)
  \/ Step(t)

(* The other threads stay as they are, and so does the configuration.      *)
LEMMA MovesAlone ==
  ASSUME MemoryTypes, NEW t \in Threads, MoveOf(t)
  PROVE  OnlyMoved(t) /\ config' = config
<1> USE DEF MemoryTypes, OnlyMoved
<1>1. CASE \E size \in Sizes : Allocate(t, size)
  BY <1>1 DEF Allocate, Call
<1>2. CASE Deallocate(t) \/ ForceGc(t)
  BY <1>2 DEF Deallocate, ForceGc, Call
<1>3. CASE CheckPressure(t) \/ CollectGarbage(t) \/ CheckAgain(t) \/ TakeBlock(t)
  BY <1>3 DEF CheckPressure, CollectGarbage, CheckAgain, TakeBlock, Goto
<1>4. CASE CountUsage(t) \/ LookAtUsage(t) \/ AbovePeak(t) \/ ReturnBlock(t) \/ ReleaseUsage(t)
  BY <1>4 DEF CountUsage, LookAtUsage, AbovePeak, ReturnBlock, ReleaseUsage, Goto
<1>5. CASE BelowPeak(t) \/ RaisePeak(t)
  BY <1>5 DEF BelowPeak, RaisePeak, HandOver, Goto
<1> QED
  BY <1>1, <1>2, <1>3, <1>4, <1>5 DEF MoveOf, Step

(* The steps that let nothing through and count nothing.                   *)
Quiet(t) ==
  \/ \E size \in Sizes : Allocate(t, size)
  \/ Deallocate(t) \/ ForceGc(t)
  \/ CollectGarbage(t) \/ LookAtUsage(t) \/ BelowPeak(t) \/ AbovePeak(t) \/ RaisePeak(t)

(* They leave what the thread contributes as it is.                        *)
LEMMA QuietMoves ==
  ASSUME MemoryTypes, MemoryTypes', NEW t \in Threads, Quiet(t)
  PROVE  /\ CountedOf(t)' = CountedOf(t) /\ AdmittedOf(t)' = AdmittedOf(t)
         /\ \A p \in Nat : OutOf(t, p)' = OutOf(t, p)
         /\ usage' = usage /\ excess' = excess
<1> DEFINE Same(h, b, a, s, g, c, d, z) ==
             /\ CountedIn(g, c, z) = CountedIn(h, b, s)
             /\ AdmittedIn(d, z) = AdmittedIn(a, s)
             /\ \A p \in Nat : OutIn(g, c, z, p) = OutIn(h, b, s, p)
<1> SUFFICES /\ Same(held[t], block[t], asked[t], stage[t], held'[t], block'[t], asked'[t], stage'[t])
             /\ usage' = usage /\ excess' = excess
  BY ThreadTyped, ThreadTypedNext
<1>1. CASE \E size \in Sizes : Allocate(t, size)
  <2>1. /\ held'[t] = held[t] /\ block'[t] = block[t] /\ block[t] = None
        /\ stage[t] = "idle" /\ stage'[t] = "check" /\ usage' = usage /\ excess' = excess
    BY <1>1 DEF Allocate, Call, MemoryTypes, WithBlock
  <2> QED
    BY <2>1 DEF CountedIn, AdmittedIn, OutIn
<1>2. CASE ForceGc(t)
  <2>1. /\ held'[t] = held[t] /\ block'[t] = block[t] /\ block[t] = None
        /\ stage[t] = "idle" /\ stage'[t] = "collect" /\ usage' = usage /\ excess' = excess
    BY <1>2 DEF ForceGc, Call, MemoryTypes, WithBlock
  <2> QED
    BY <2>1 DEF CountedIn, AdmittedIn, OutIn
<1>3. CASE CollectGarbage(t)
  <2>1. /\ held'[t] = held[t] /\ block'[t] = block[t] /\ block[t] = None
        /\ stage[t] = "collect" /\ stage'[t] \in {"idle", "recheck"} /\ usage' = usage /\ excess' = excess
    BY <1>3 DEF CollectGarbage, Goto, MemoryTypes, WithBlock
  <2> QED
    BY <2>1 DEF CountedIn, AdmittedIn, OutIn
<1>4. CASE LookAtUsage(t) \/ AbovePeak(t)
  <2>1. /\ held'[t] = held[t] /\ block'[t] = block[t] /\ stage[t] \in {"look", "compare"}
        /\ stage'[t] \in {"compare", "raise"} /\ usage' = usage /\ excess' = excess
    BY <1>4 DEF LookAtUsage, AbovePeak, Goto, MemoryTypes
  <2> QED
    BY <2>1 DEF CountedIn, AdmittedIn, OutIn
<1>5. CASE BelowPeak(t) \/ RaisePeak(t)
  <2>1. /\ held'[t] = Append(held[t], block[t]) /\ block'[t] = None
        /\ stage[t] \in {"compare", "raise"} /\ stage'[t] = "idle" /\ usage' = usage /\ excess' = excess
    BY <1>5 DEF BelowPeak, RaisePeak, HandOver, Goto, MemoryTypes
  <2>2. PICK b \in Seq(Blocks), x \in Blocks : b = held[t] /\ x = block[t]
    BY <2>1 DEF MemoryTypes, WithBlock
  <2>3. /\ SizeOf(Append(b, x)) = SizeOf(b) + x.size
        /\ \A p \in Nat : NumberOf(Append(b, x), p) = NumberOf(b, p) + (IF x.len = p THEN 1 ELSE 0)
    BY BlockAppended
  <2>4. /\ SizeOf(b) \in Nat /\ SizeOf(Append(b, x)) \in Nat /\ x # None
        /\ \A p \in Nat : NumberOf(b, p) \in Nat /\ NumberOf(Append(b, x), p) \in Nat
    <3>1. Append(b, x) \in Seq(Blocks)
      OBVIOUS
    <3> QED
      BY <3>1, SumsOfBlocks, BlocksAre
  <2>5. CountedIn(Append(b, x), None, "idle") = CountedIn(b, x, stage[t])
    <3>1. PICK m \in Nat, n \in Nat, z \in Nat :
            m = SizeOf(b) /\ n = SizeOf(Append(b, x)) /\ z = x.size
      BY <2>4, BlocksAre
    <3>2. n = m + z
      BY <2>3, <3>1
    <3>3. CountedIn(Append(b, x), None, "idle") = n + 0
      BY <3>1 DEF CountedIn
    <3>4. CountedIn(b, x, stage[t]) = m + z
      BY <2>1, <2>4, <3>1 DEF CountedIn
    <3> QED
      BY <3>2, <3>3, <3>4
  <2>6. ASSUME NEW p \in Nat
        PROVE  OutIn(Append(b, x), None, "idle", p) = OutIn(b, x, stage[t], p)
    <3>1. OutIn(Append(b, x), None, "idle", p) = NumberOf(Append(b, x), p) + 0
      BY DEF OutIn
    <3>2. OutIn(b, x, stage[t], p) = NumberOf(b, p) + (IF x.len # p THEN 0 ELSE 1)
      BY <2>1, <2>4 DEF OutIn
    <3>3. PICK m \in Nat, n \in Nat : m = NumberOf(b, p) /\ n = NumberOf(Append(b, x), p)
      BY <2>4
    <3>4. n = m + (IF x.len = p THEN 1 ELSE 0)
      BY <2>3, <3>3
    <3>5. /\ OutIn(Append(b, x), None, "idle", p) = n + 0
          /\ OutIn(b, x, stage[t], p) = m + (IF x.len # p THEN 0 ELSE 1)
      BY <3>1, <3>2, <3>3
    <3>6. n + 0 = m + (IF x.len # p THEN 0 ELSE 1)
      BY <3>4
    <3> QED
      BY <3>5, <3>6
  <2>7. AdmittedIn(asked'[t], "idle") = AdmittedIn(asked[t], stage[t])
    BY <2>1 DEF AdmittedIn
  <2> QED
    BY <2>1, <2>2, <2>5, <2>6, <2>7
<1>6. CASE Deallocate(t)
  <2>1. PICK i \in DOMAIN held[t] : /\ block' = [block EXCEPT ![t] = held[t][i]]
                                   /\ held' = [held EXCEPT ![t] = RemoveAt(@, i)]
    BY <1>6 DEF Deallocate
  <2>2. PICK b \in Seq(Blocks) : b = held[t]
    BY DEF MemoryTypes
  <2>3. /\ held'[t] = RemoveAt(b, i) /\ block'[t] = b[i] /\ block[t] = None
        /\ stage[t] = "idle" /\ stage'[t] = "return" /\ usage' = usage /\ excess' = excess
    BY <1>6, <2>1, <2>2 DEF Deallocate, Call, MemoryTypes, WithBlock
  <2>4. PICK c \in Seq(Blocks) : c = RemoveAt(b, i)
    BY <2>3 DEF MemoryTypes
  <2>5. PICK x \in Blocks : x = b[i]
    BY <2>2, <2>1
  <2>6. /\ SizeOf(b) = x.size + SizeOf(c)
        /\ \A p \in Nat : NumberOf(b, p) = (IF x.len = p THEN 1 ELSE 0) + NumberOf(c, p)
    BY <2>1, <2>2, <2>4, <2>5, BlockRemoved
  <2>7. /\ SizeOf(b) \in Nat /\ SizeOf(c) \in Nat /\ x # None /\ x.size \in Nat
        /\ \A p \in Nat : NumberOf(b, p) \in Nat /\ NumberOf(c, p) \in Nat
    BY SumsOfBlocks, BlocksAre
  <2>8. CountedIn(c, x, "return") = CountedIn(b, None, "idle")
    <3>1. PICK m \in Nat, n \in Nat, z \in Nat :
            m = SizeOf(b) /\ n = SizeOf(c) /\ z = x.size
      BY <2>7
    <3>2. m = z + n
      BY <2>6, <3>1
    <3>3. CountedIn(b, None, "idle") = m + 0
      BY <3>1 DEF CountedIn
    <3>4. CountedIn(c, x, "return") = n + z
      BY <2>7, <3>1 DEF CountedIn
    <3> QED
      BY <3>2, <3>3, <3>4
  <2>9. ASSUME NEW p \in Nat
        PROVE  OutIn(c, x, "return", p) = OutIn(b, None, "idle", p)
    <3>1. OutIn(b, None, "idle", p) = NumberOf(b, p) + 0
      BY DEF OutIn
    <3>2. OutIn(c, x, "return", p) = NumberOf(c, p) + (IF x.len # p THEN 0 ELSE 1)
      BY <2>7 DEF OutIn
    <3>3. PICK m \in Nat, n \in Nat : m = NumberOf(b, p) /\ n = NumberOf(c, p)
      BY <2>7
    <3>4. m = (IF x.len = p THEN 1 ELSE 0) + n
      BY <2>6, <3>3
    <3>5. OutIn(b, None, "idle", p) = m + 0 /\ OutIn(c, x, "return", p) = n + (IF x.len # p THEN 0 ELSE 1)
      BY <3>1, <3>2, <3>3
    <3>6. m + 0 = n + (IF x.len # p THEN 0 ELSE 1)
      BY <3>4
    <3> QED
      BY <3>5, <3>6
  <2>10. AdmittedIn(asked'[t], "return") = AdmittedIn(asked[t], "idle")
    BY DEF AdmittedIn
  <2> QED
    BY <2>2, <2>3, <2>4, <2>5, <2>8, <2>9, <2>10
<1> QED
  BY <1>1, <1>2, <1>3, <1>4, <1>5, <1>6 DEF Quiet

-----------------------------------------------------------------------------
(* The usage.                                                              *)

(* Nothing is used at first.                                               *)
LEMMA UsageInit ==
  MemoryInit => UsageAccounted
<1> SUFFICES ASSUME MemoryInit PROVE UsageAccounted
  OBVIOUS
<1>1. IsFiniteSet(Threads)
  BY SizesAssumption
<1>2. SizeOf(<<>>) = 0
  <2> DEFINE f == [i \in DOMAIN <<>> |-> <<>>[i].size]
  <2>1. DOMAIN f = {}
    OBVIOUS
  <2>2. SizeOf(<<>>) = SumFunctionOnSet(f, {})
    BY <2>1 DEF SizeOf, SumFunction
  <2> QED
    BY <2>2, SumEmpty
<1>3. Counted = 0
  <2> DEFINE f == [t \in Threads |-> CountedOf(t)]
  <2>1. DOMAIN f = Threads /\ \A t \in Threads : f[t] = 0
    BY <1>2 DEF MemoryInit, CountedOf
  <2>2. Counted = SumFunctionOnSet(f, Threads)
    BY <2>1 DEF Counted, SumFunction
  <2> HIDE DEF f
  <2> QED
    BY <1>1, <2>1, <2>2, SumNothing
<1>4. Admitted = 0
  <2> DEFINE f == [t \in Threads |-> AdmittedOf(t)]
  <2>1. DOMAIN f = Threads /\ \A t \in Threads : f[t] = 0
    BY DEF MemoryInit, AdmittedOf
  <2>2. Admitted = SumFunctionOnSet(f, Threads)
    BY <2>1 DEF Admitted, SumFunction
  <2> HIDE DEF f
  <2> QED
    BY <1>1, <2>1, <2>2, SumNothing
<1>5. 0 % Wrap = 0
  BY WrapPositive, RemainderOfSmall
<1>6. 0 <= Threshold + Cardinality(Threads) * Max(Sizes)
  BY WrapPositive, CounterAssumption
<1> QED
  BY <1>3, <1>4, <1>5, <1>6 DEF MemoryInit, UsageAccounted

(* Every step keeps the account of the usage.                              *)
LEMMA UsageNext ==
  ASSUME MemoryTypes, MemoryTypes', UsageAccounted, [MemoryNext]_memoryVars
  PROVE  UsageAccounted'
<1>0. CASE UNCHANGED memoryVars
  <2>1. UNCHANGED <<usage, excess, stage, asked, block, held>>
    BY <1>0 DEF memoryVars, threadVars
  <2>2. Counted' = Counted /\ Admitted' = Admitted
    BY <2>1 DEF Counted, CountedOf, Admitted, AdmittedOf
  <2> QED
    BY <2>1, <2>2 DEF UsageAccounted
<1> SUFFICES ASSUME NEW t \in Threads, MoveOf(t) PROVE UsageAccounted'
  BY <1>0 DEF MemoryNext, MoveOf
<1>1. OnlyMoved(t)
  BY MovesAlone
<1>2. PICK c \in Nat, d \in Nat, a \in Nat, b \in Nat :
        c = Counted /\ d = Counted' /\ a = Admitted /\ b = Admitted'
  BY <1>1, SumsMove
<1>3. PICK m \in Nat : m = Cardinality(Threads) * Max(Sizes)
  BY WrapPositive
<1>4. PICK i \in Nat, j \in Nat, k \in Nat, l \in Nat :
        i = CountedOf(t) /\ j = CountedOf(t)' /\ k = AdmittedOf(t) /\ l = AdmittedOf(t)'
  BY ThreadTyped, ThreadTypedNext
<1>5. d = c - i + j /\ b = a - k + l /\ b <= m
  BY <1>1, <1>2, <1>3, <1>4, SumsMove
<1>6. PICK e \in Nat, o \in Nat : e = excess /\ o = excess'
  BY DEF MemoryTypes
<1>7. usage = (c - e) % Wrap /\ (e = 0 => c + a <= Threshold + m)
  BY <1>2, <1>3, <1>6 DEF UsageAccounted
<1>8. SUFFICES usage' = (d - o) % Wrap /\ (o = 0 => d + b <= Threshold + m)
  BY <1>2, <1>3, <1>6 DEF UsageAccounted
<1>9. Threshold \in Nat /\ Wrap \in Nat \ {0} /\ Threshold + m < Wrap
  BY <1>3, WrapPositive, CounterAssumption
<1>10. ASSUME usage' = usage, o = e, j = i, l <= k
       PROVE  usage' = (d - o) % Wrap /\ (o = 0 => d + b <= Threshold + m)
  <2>1. d = c /\ b <= a
    BY <1>5, <1>10
  <2>2. d - o = c - e
    BY <1>10, <2>1
  <2>3. usage' = (d - o) % Wrap
    BY <1>7, <1>10, <2>2
  <2> QED
    BY <1>7, <1>9, <1>10, <2>1, <2>3
<1>11. CASE Quiet(t)
  <2>1. usage' = usage /\ o = e /\ j = i /\ l = k
    BY <1>4, <1>6, <1>11, QuietMoves
  <2> QED
    BY <1>10, <2>1
<1>12. CASE CheckPressure(t) \/ CheckAgain(t)
  <2>1. /\ held'[t] = held[t] /\ block'[t] = block[t] /\ block[t] = None
        /\ stage[t] \in {"check", "recheck"} /\ usage' = usage /\ excess' = excess
    BY <1>12 DEF CheckPressure, CheckAgain, Goto, MemoryTypes, WithBlock
  <2>2. stage'[t] \in {"take", "idle", "collect", "recheck"} /\ (stage'[t] = "take" => usage <= Threshold)
    <3>1. usage \in Int
      BY DEF MemoryTypes
    <3> QED
      BY <1>9, <1>12, <3>1 DEF CheckPressure, CheckAgain, Goto, MemoryTypes
  <2>3. j = i
    <3>1. CountedIn(held'[t], block'[t], stage'[t]) = CountedIn(held[t], block[t], stage[t])
      BY <2>1 DEF CountedIn
    <3> QED
      BY <1>4, <3>1, ThreadTyped, ThreadTypedNext
  <2>4. CASE stage'[t] = "take"
    <3>1. d = c /\ o = e
      BY <1>5, <1>6, <2>1, <2>3
    <3>2. usage' = (d - o) % Wrap
      BY <1>7, <2>1, <3>1
    <3>3. ASSUME o = 0 PROVE d + b <= Threshold + m
      <4>1. c <= Threshold + m
        BY <1>7, <1>9, <3>1, <3>3
      <4>2. c < Wrap
        BY <1>9, <4>1
      <4>3. c - e = c
        BY <3>1, <3>3
      <4>4. usage = c
        BY <1>7, <1>9, <4>2, <4>3, RemainderOfSmall
      <4>5. d <= Threshold
        BY <2>2, <2>4, <3>1, <4>4
      <4> QED
        BY <1>5, <1>9, <4>5
    <3> QED
      BY <3>2, <3>3
  <2>5. CASE stage'[t] # "take"
    <3>1. AdmittedIn(asked'[t], stage'[t]) = 0
      BY <2>2, <2>5 DEF AdmittedIn
    <3>2. l = 0 /\ o = e
      BY <1>4, <1>6, <2>1, <3>1, ThreadTypedNext
    <3> QED
      BY <1>10, <2>1, <2>3, <3>2
  <2> QED
    BY <2>4, <2>5
<1>13. CASE TakeBlock(t)
  <2>1. /\ held'[t] = held[t] /\ asked'[t] = asked[t] /\ block[t] = None
        /\ stage[t] = "take" /\ stage'[t] = "count" /\ usage' = usage /\ excess' = excess
    BY <1>13 DEF TakeBlock, Goto, MemoryTypes, WithBlock
  <2>2. /\ CountedIn(held'[t], block'[t], stage'[t]) = CountedIn(held[t], block[t], stage[t])
        /\ AdmittedIn(asked'[t], stage'[t]) = AdmittedIn(asked[t], stage[t])
    BY <2>1 DEF CountedIn, AdmittedIn
  <2>3. j = i /\ l = k /\ o = e
    BY <1>4, <1>6, <2>1, <2>2, ThreadTyped, ThreadTypedNext
  <2> QED
    BY <1>10, <2>1, <2>3
<1>14. CASE ReturnBlock(t)
  <2>1. /\ held'[t] = held[t] /\ asked'[t] = asked[t] /\ block'[t] = block[t]
        /\ stage[t] = "return" /\ stage'[t] = "release" /\ usage' = usage /\ excess' = excess
    BY <1>14 DEF ReturnBlock, Goto, MemoryTypes
  <2>2. /\ CountedIn(held'[t], block'[t], stage'[t]) = CountedIn(held[t], block[t], stage[t])
        /\ AdmittedIn(asked'[t], stage'[t]) = AdmittedIn(asked[t], stage[t])
    BY <2>1 DEF CountedIn, AdmittedIn
  <2>3. j = i /\ l = k /\ o = e
    BY <1>4, <1>6, <2>1, <2>2, ThreadTyped, ThreadTypedNext
  <2> QED
    BY <1>10, <2>1, <2>3
<1>15. CASE CountUsage(t)
  <2>1. PICK x \in Blocks : x = block[t] /\ x.size = asked[t]
    BY <1>15 DEF CountUsage, Goto, MemoryTypes, WithBlock
  <2>2. PICK z \in Nat : z = x.size /\ x # None
    BY BlocksAre
  <2>3. /\ held'[t] = held[t] /\ asked'[t] = asked[t] /\ block'[t] = block[t]
        /\ stage[t] = "count" /\ stage'[t] = "look" /\ excess' = excess
        /\ usage' = (usage + z) % Wrap
    BY <1>15, <2>1, <2>2 DEF CountUsage, Goto, MemoryTypes
  <2>4. SizeOf(held[t]) \in Nat
    BY SumsOfBlocks DEF MemoryTypes
  <2>5. /\ CountedIn(held'[t], block'[t], stage'[t]) = CountedIn(held[t], block[t], stage[t]) + z
        /\ AdmittedIn(asked'[t], stage'[t]) = 0 /\ AdmittedIn(asked[t], stage[t]) = z
    BY <2>1, <2>2, <2>3, <2>4 DEF CountedIn, AdmittedIn
  <2>6. j = i + z /\ l = 0 /\ k = z /\ o = e
    BY <1>4, <1>6, <2>3, <2>5, ThreadTyped, ThreadTypedNext
  <2>7. d = c + z /\ b = a - z
    BY <1>5, <2>6
  <2>8. usage' = (d - o) % Wrap
    <3>1. c - e \in Int /\ (c - e) + z = d - o
      BY <2>6, <2>7
    <3>2. PICK u \in Int, v \in Int, w \in Nat \ {0} : u = c - e /\ v = z /\ w = Wrap
      BY <1>9, <3>1
    <3>3. ((u % w) + v) % w = (u + v) % w
      BY RemainderOfSum
    <3>4. usage = u % w /\ usage' = (usage + v) % w /\ u + v = d - o
      BY <1>7, <2>3, <3>1, <3>2
    <3> QED
      BY <3>2, <3>3, <3>4
  <2> QED
    BY <1>7, <1>9, <2>6, <2>7, <2>8
<1>16. CASE ReleaseUsage(t)
  <2>1. PICK x \in Blocks : x = block[t]
    BY <1>16 DEF ReleaseUsage, Goto, MemoryTypes, WithBlock
  <2>2. PICK z \in Nat, y \in Nat : z = x.size /\ y = x.len /\ y >= z /\ x # None
    BY BlocksAre
  <2>3. /\ held'[t] = held[t] /\ asked'[t] = asked[t] /\ block'[t] = None
        /\ stage[t] = "release" /\ stage'[t] = "idle"
        /\ usage' = (usage - y) % Wrap /\ o = e + y - z
    BY <1>6, <1>16, <2>1, <2>2 DEF ReleaseUsage, Goto, MemoryTypes
  <2>4. SizeOf(held[t]) \in Nat
    BY SumsOfBlocks DEF MemoryTypes
  <2>5. /\ CountedIn(held[t], block[t], stage[t]) = CountedIn(held'[t], block'[t], stage'[t]) + z
        /\ AdmittedIn(asked'[t], stage'[t]) = 0 /\ AdmittedIn(asked[t], stage[t]) = 0
    BY <2>1, <2>2, <2>3, <2>4 DEF CountedIn, AdmittedIn
  <2>6. i = j + z /\ l = 0 /\ k = 0
    BY <1>4, <2>5, ThreadTyped, ThreadTypedNext
  <2>7. d = c - z /\ b = a
    BY <1>5, <2>6
  <2>8. usage' = (d - o) % Wrap
    <3>1. c - e \in Int /\ -y \in Int /\ (c - e) + (-y) = d - o
      BY <2>3, <2>7
    <3>2. ((c - e) % Wrap) \in Int /\ (((c - e) % Wrap) + (-y)) % Wrap = ((c - e) + (-y)) % Wrap
      BY <1>9, <3>1, RemainderOfSum
    <3>3. \A u \in Int : u - y = u + (-y)
      OBVIOUS
    <3> QED
      BY <1>7, <2>3, <3>1, <3>2, <3>3
  <2> QED
    BY <1>7, <1>9, <2>2, <2>3, <2>7, <2>8
<1> QED
  BY <1>11, <1>12, <1>13, <1>14, <1>15, <1>16 DEF MoveOf, Step, Quiet

(* The usage is what was counted and not given back.                       *)
THEOREM UsageStaysAccounted == MemorySpec => []UsageAccounted
<1>1. MemoryTypes /\ UsageAccounted /\ [MemoryNext]_memoryVars => (MemoryTypes /\ UsageAccounted)'
  BY MemoryTypesNext, UsageNext
<1> QED
  BY MemoryTypesInit, UsageInit, <1>1, PTL DEF MemorySpec

-----------------------------------------------------------------------------
(* The pools.                                                              *)

(* Nothing is out at first.                                                *)
LEMMA PoolsInit ==
  MemoryInit => PoolsAddUp
<1> SUFFICES ASSUME MemoryInit, NEW p \in DOMAIN pools
             PROVE  /\ pools[p].total = pools[p].available + pools[p].in_use
                    /\ pools[p].in_use = Outs(p)
  BY DEF PoolsAddUp, Outs
<1>1. NumberOf(<<>>, p) = 0
  <2> DEFINE f == [i \in DOMAIN <<>> |-> IF <<>>[i].len = p THEN 1 ELSE 0]
  <2>1. DOMAIN f = {}
    OBVIOUS
  <2>2. NumberOf(<<>>, p) = SumFunctionOnSet(f, {})
    BY <2>1 DEF NumberOf, SumFunction
  <2> QED
    BY <2>2, SumEmpty
<1>2. Outs(p) = 0
  <2> DEFINE f == [t \in Threads |-> OutOf(t, p)]
  <2>1. DOMAIN f = Threads /\ \A t \in Threads : f[t] = 0
    BY <1>1 DEF MemoryInit, OutOf
  <2>2. Outs(p) = SumFunctionOnSet(f, Threads)
    BY <2>1 DEF Outs, SumFunction
  <2>3. IsFiniteSet(Threads)
    BY SizesAssumption
  <2> HIDE DEF f
  <2> QED
    BY <2>1, <2>2, <2>3, SumNothing
<1>3. pools[p] = EmptyPool
  BY DEF MemoryInit
<1> QED
  BY <1>2, <1>3 DEF EmptyPool

(* What a thread has out is out.                                           *)
LEMMA OutsAtLeast ==
  ASSUME MemoryTypes, NEW t \in Threads, NEW p \in Nat
  PROVE  Outs(p) \in Nat /\ OutOf(t, p) \in Nat /\ OutOf(t, p) <= Outs(p)
<1> DEFINE f == [u \in Threads |-> OutOf(u, p)]
<1>1. \A u \in Threads : OutOf(u, p) \in Nat
  BY ThreadTyped
<1>2. IsFiniteSet(Threads)
  BY SizesAssumption
<1>3. DOMAIN f = Threads /\ f[t] = OutOf(t, p) /\ \A u \in Threads : f[u] \in Nat /\ f[u] \in Int
  BY <1>1
<1>4. Outs(p) = SumFunctionOnSet(f, Threads)
  BY <1>3 DEF Outs, SumFunction
<1>5. IsFiniteSet(Threads \ {t})
  BY <1>2, FS_Subset
<1> HIDE DEF f
<1>6. SumFunctionOnSet(f, Threads) = f[t] + SumFunctionOnSet(f, Threads \ {t})
  BY <1>2, <1>3, SumWithout
<1>7. SumFunctionOnSet(f, Threads) \in Nat /\ SumFunctionOnSet(f, Threads \ {t}) \in Nat
  BY <1>2, <1>3, <1>5, SumNatural
<1>8. \A x, y, z \in Nat : x = y + z => y <= x
  OBVIOUS
<1> QED
  BY <1>1, <1>3, <1>4, <1>6, <1>7, <1>8

(* Every step keeps the account of every pool.                             *)
LEMMA PoolsNext ==
  ASSUME MemoryTypes, MemoryTypes', PoolsAddUp, [MemoryNext]_memoryVars
  PROVE  PoolsAddUp'
<1>0. CASE UNCHANGED memoryVars
  <2>1. UNCHANGED <<config, pools, stage, asked, block, held>>
    BY <1>0 DEF memoryVars, threadVars
  <2>2. \A p : Outs(p)' = Outs(p)
    BY <2>1 DEF Outs, OutOf
  <2> QED
    BY <2>1, <2>2 DEF PoolsAddUp, Outs
<1> SUFFICES ASSUME NEW t \in Threads, MoveOf(t) PROVE PoolsAddUp'
  BY <1>0 DEF MemoryNext, MoveOf
<1>1. OnlyMoved(t) /\ config' = config
  BY MovesAlone
<1> SUFFICES ASSUME config.enable_pooling
             PROVE  \A p \in DOMAIN pools' : /\ pools'[p].total = pools'[p].available + pools'[p].in_use
                                            /\ pools'[p].in_use = Outs(p)'
  BY <1>1 DEF PoolsAddUp, Outs
<1>2. pools \in [ToSet(config.pool_sizes) -> Pools] /\ DOMAIN pools' = DOMAIN pools
  BY <1>1 DEF MemoryTypes
<1>3. DOMAIN pools \in SUBSET Nat
  <2>1. config.pool_sizes \in Seq(Nat \ {0})
    BY SizesAssumption DEF MemoryTypes
  <2>2. \A s \in Seq(Nat \ {0}) : ToSet(s) \in SUBSET Nat
    BY DEF ToSet
  <2> QED
    BY <1>2, <2>1, <2>2
<1>4. \A p \in DOMAIN pools : /\ pools[p] \in Pools
                              /\ pools[p].total = pools[p].available + pools[p].in_use
                              /\ pools[p].in_use = Outs(p)
  BY <1>2 DEF PoolsAddUp, Outs
<1>5. ASSUME NEW p \in DOMAIN pools
      PROVE  /\ Outs(p) \in Nat /\ OutOf(t, p) \in Nat /\ OutOf(t, p)' \in Nat
             /\ Outs(p)' = Outs(p) - OutOf(t, p) + OutOf(t, p)'
             /\ OutOf(t, p) <= Outs(p)
             /\ OutOf(t, p) = OutIn(held[t], block[t], stage[t], p)
             /\ OutOf(t, p)' = OutIn(held'[t], block'[t], stage'[t], p)
             /\ NumberOf(held[t], p) \in Nat
  <2>1. p \in Nat
    BY <1>3
  <2>2. Outs(p) \in Nat /\ OutOf(t, p) \in Nat /\ OutOf(t, p) <= Outs(p)
    BY <2>1, OutsAtLeast
  <2>3. OutOf(t, p)' \in Nat /\ OutOf(t, p)' = OutIn(held'[t], block'[t], stage'[t], p)
    BY <2>1, ThreadTypedNext
  <2>4. OutOf(t, p) = OutIn(held[t], block[t], stage[t], p)
    BY ThreadTyped
  <2>5. Outs(p)' = Outs(p) - OutOf(t, p) + OutOf(t, p)'
    BY <1>1, <2>1, SumsMove
  <2>6. NumberOf(held[t], p) \in Nat
    BY <2>1, SumsOfBlocks DEF MemoryTypes
  <2> QED
    BY <2>2, <2>3, <2>4, <2>5, <2>6
<1>6. ASSUME NEW p \in DOMAIN pools, pools'[p] = pools[p], OutOf(t, p)' = OutOf(t, p)
      PROVE  /\ pools'[p].total = pools'[p].available + pools'[p].in_use
             /\ pools'[p].in_use = Outs(p)'
  <2>1. Outs(p)' = Outs(p)
    BY <1>5, <1>6
  <2> QED
    BY <1>4, <1>6, <2>1
<1>7. CASE Quiet(t)
  <2>1. \A p \in DOMAIN pools : OutOf(t, p)' = OutOf(t, p)
    BY <1>3, <1>7, QuietMoves
  <2>2. CASE pools' = pools
    BY <1>2, <1>6, <2>1, <2>2
  <2>3. CASE CollectGarbage(t)
    <3>1. pools' = pools \/ \A p \in DOMAIN pools : pools'[p] = Compacted(pools[p])
      BY <2>3 DEF CollectGarbage
    <3>2. ASSUME NEW p \in DOMAIN pools, pools'[p] = Compacted(pools[p])
          PROVE  /\ pools'[p].total = pools'[p].available + pools'[p].in_use
                 /\ pools'[p].in_use = Outs(p)'
      <4>1. Outs(p)' = Outs(p)
        BY <1>5, <2>1
      <4>2. /\ Compacted(pools[p]).in_use = pools[p].in_use
            /\ Compacted(pools[p]).total = Compacted(pools[p]).available + Compacted(pools[p]).in_use
        BY <1>4, PoolMoves
      <4> QED
        BY <1>4, <3>2, <4>1, <4>2
    <3> QED
      BY <1>2, <2>2, <3>1, <3>2
  <2>4. \/ pools' = pools \/ CollectGarbage(t)
    BY <1>7 DEF Quiet, Allocate, Deallocate, ForceGc, LookAtUsage, BelowPeak, AbovePeak, RaisePeak
  <2> QED
    BY <2>2, <2>3, <2>4
<1>8. CASE CheckPressure(t) \/ CheckAgain(t) \/ CountUsage(t) \/ ReleaseUsage(t)
  <2>1. pools' = pools
    BY <1>8 DEF CheckPressure, CheckAgain, CountUsage, ReleaseUsage
  <2>2. CASE CheckPressure(t) \/ CheckAgain(t)
    <3>1. held'[t] = held[t] /\ block'[t] = block[t] /\ block[t] = None
      BY <2>2 DEF CheckPressure, CheckAgain, Goto, MemoryTypes, WithBlock
    <3>2. \A p \in DOMAIN pools : OutOf(t, p)' = OutOf(t, p)
      BY <1>5, <3>1 DEF OutIn
    <3> QED
      BY <1>2, <1>6, <2>1, <3>2
  <2>3. CASE CountUsage(t)
    <3>1. /\ held'[t] = held[t] /\ block'[t] = block[t]
          /\ stage[t] = "count" /\ stage'[t] = "look"
      BY <2>3 DEF CountUsage, Goto, MemoryTypes
    <3>2. \A p \in DOMAIN pools : OutOf(t, p)' = OutOf(t, p)
      BY <1>5, <3>1 DEF OutIn
    <3> QED
      BY <1>2, <1>6, <2>1, <3>2
  <2>4. CASE ReleaseUsage(t)
    <3>1. held'[t] = held[t] /\ block'[t] = None /\ stage[t] = "release"
      BY <2>4 DEF ReleaseUsage, Goto, MemoryTypes
    <3>2. \A p \in DOMAIN pools : OutOf(t, p)' = OutOf(t, p)
      BY <1>5, <3>1 DEF OutIn
    <3> QED
      BY <1>2, <1>6, <2>1, <3>2
  <2> QED
    BY <1>8, <2>2, <2>3, <2>4
<1>9. CASE TakeBlock(t)
  <2>1. /\ held'[t] = held[t] /\ block[t] = None /\ asked[t] \in Sizes
        /\ stage[t] = "take" /\ stage'[t] = "count"
    BY <1>9 DEF TakeBlock, Goto, MemoryTypes, WithBlock
  <2>2. PICK size \in Sizes : size = asked[t] /\ size \in Nat
    BY <2>1, SizesAssumption
  <2>3. PICK x \in Blocks : x = block'[t] /\ x # None
    <3>1. block'[t] \in Blocks
      BY <2>1 DEF MemoryTypes, WithBlock
    <3> QED
      BY <3>1, BlocksAre
  <2>4. \A p \in DOMAIN pools : OutOf(t, p)' = OutOf(t, p) + (IF x.len = p THEN 1 ELSE 0)
    <3> SUFFICES ASSUME NEW p \in DOMAIN pools
                 PROVE  OutOf(t, p)' = OutOf(t, p) + (IF x.len = p THEN 1 ELSE 0)
      OBVIOUS
    <3>1. PICK n \in Nat : n = NumberOf(held[t], p)
      BY <1>5
    <3>2. OutOf(t, p) = n + 0 /\ OutOf(t, p)' = n + (IF x.len # p THEN 0 ELSE 1)
      BY <1>5, <2>1, <2>3, <3>1 DEF OutIn
    <3> QED
      BY <3>2
  <2>5. CASE Fitting(size) # {}
    <3>1. /\ pools' = [pools EXCEPT ![PoolFor(size)] = Taken(@)]
          /\ block' = [block EXCEPT ![t] = Block(size, PoolFor(size))]
      BY <1>9, <2>2, <2>5 DEF TakeBlock
    <3>2. PICK q \in DOMAIN pools : q = PoolFor(size)
      BY <1>2, <2>5, PoolForFits
    <3>3. x.len = q
      BY <2>3, <3>1, <3>2 DEF Block, MemoryTypes
    <3>4. /\ Taken(pools[q]).in_use = pools[q].in_use + 1
          /\ Taken(pools[q]).total = Taken(pools[q]).available + Taken(pools[q]).in_use
      BY <1>4, PoolMoves
    <3>5. pools'[q] = Taken(pools[q])
      BY <3>1, <3>2
    <3>6. Outs(q)' = Outs(q) + 1
      <4>1. OutOf(t, q)' = OutOf(t, q) + 1
        BY <2>4, <3>3
      <4> QED
        BY <1>5, <4>1
    <3>7. ASSUME NEW p \in DOMAIN pools, p # q
          PROVE  pools'[p] = pools[p] /\ OutOf(t, p)' = OutOf(t, p)
      BY <1>5, <2>4, <3>1, <3>2, <3>3, <3>7
    <3> QED
      BY <1>2, <1>4, <1>6, <3>4, <3>5, <3>6, <3>7
  <2>6. CASE Fitting(size) = {}
    <3>1. pools' = pools /\ block' = [block EXCEPT ![t] = Block(size, size)]
      BY <1>9, <2>2, <2>6 DEF TakeBlock
    <3>2. x.len = size
      BY <2>3, <3>1 DEF Block, MemoryTypes
    <3>3. size \notin DOMAIN pools
      BY <1>2, <2>2, <2>6 DEF Fitting, ToSet
    <3>4. \A p \in DOMAIN pools : OutOf(t, p)' = OutOf(t, p)
      BY <1>5, <2>4, <3>2, <3>3
    <3> QED
      BY <1>2, <1>6, <3>1, <3>4
  <2> QED
    BY <2>5, <2>6
<1>10. CASE ReturnBlock(t)
  <2>1. /\ held'[t] = held[t] /\ block'[t] = block[t]
        /\ stage[t] = "return" /\ stage'[t] = "release"
    BY <1>10 DEF ReturnBlock, Goto, MemoryTypes
  <2>2. PICK x \in Blocks : x = block[t] /\ x # None
    <3>1. block[t] \in Blocks
      BY <2>1 DEF MemoryTypes, WithBlock
    <3> QED
      BY <3>1, BlocksAre
  <2>3. \A p \in DOMAIN pools : /\ OutOf(t, p) = OutOf(t, p)' + (IF x.len = p THEN 1 ELSE 0)
    <3> SUFFICES ASSUME NEW p \in DOMAIN pools
                 PROVE  OutOf(t, p) = OutOf(t, p)' + (IF x.len = p THEN 1 ELSE 0)
      OBVIOUS
    <3>1. PICK n \in Nat : n = NumberOf(held[t], p)
      BY <1>5
    <3>2. OutOf(t, p)' = n + 0 /\ OutOf(t, p) = n + (IF x.len # p THEN 0 ELSE 1)
      BY <1>5, <2>1, <2>2, <3>1 DEF OutIn
    <3> QED
      BY <3>2
  <2>4. CASE x.len \in DOMAIN pools
    <3>1. PICK q \in DOMAIN pools : q = x.len
      BY <2>4
    <3>2. pools' = [pools EXCEPT ![q] = Returned(@)]
      BY <1>10, <2>2, <3>1 DEF ReturnBlock
    <3>3. PICK i \in Nat, j \in Nat, n \in Nat :
            i = OutOf(t, q) /\ j = OutOf(t, q)' /\ n = Outs(q) /\ i <= n /\ Outs(q)' = n - i + j
      BY <1>5
    <3>4. i = j + 1
      BY <2>3, <3>1, <3>3
    <3>5. pools[q].in_use = n /\ n > 0 /\ Outs(q)' = n - 1
      BY <1>4, <3>3, <3>4
    <3>6. /\ Returned(pools[q]).in_use = n - 1
          /\ Returned(pools[q]).total = Returned(pools[q]).available + Returned(pools[q]).in_use
      BY <1>4, <3>5, PoolMoves
    <3>7. pools'[q] = Returned(pools[q])
      BY <3>2
    <3>8. ASSUME NEW p \in DOMAIN pools, p # q
          PROVE  pools'[p] = pools[p] /\ OutOf(t, p)' = OutOf(t, p)
      BY <1>5, <2>3, <3>1, <3>2, <3>8
    <3> QED
      BY <1>2, <1>6, <3>5, <3>6, <3>7, <3>8
  <2>5. CASE x.len \notin DOMAIN pools
    <3>1. pools' = pools
      BY <1>10, <2>2, <2>5 DEF ReturnBlock
    <3>2. \A p \in DOMAIN pools : OutOf(t, p)' = OutOf(t, p)
      BY <1>5, <2>3, <2>5
    <3> QED
      BY <1>2, <1>6, <3>1, <3>2
  <2> QED
    BY <2>4, <2>5
<1> QED
  BY <1>7, <1>8, <1>9, <1>10 DEF MoveOf, Step, Quiet

(* A pool's blocks are in it or out.                                       *)
THEOREM PoolsStayAdded == MemorySpec => []PoolsAddUp
<1>1. MemoryTypes /\ PoolsAddUp /\ [MemoryNext]_memoryVars => (MemoryTypes /\ PoolsAddUp)'
  BY MemoryTypesNext, PoolsNext
<1> QED
  BY MemoryTypesInit, PoolsInit, <1>1, PTL DEF MemorySpec
=============================================================================
