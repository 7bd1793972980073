---------------------- MODULE IncrementalAnalyzer_proofs ----------------------
(***************************************************************************)
(* Proofs that no request is lost and that dependents are the reverse of   *)
(* dependencies, for any number of files, shards and threads.              *)
(*                                                                         *)
(* For the first the inductive invariant is Handed: a thread has a batch   *)
(* only while it takes, analyzes or reports it, and what it still has to   *)
(* take from the queue is of its batch.  That is why removing a task from  *)
(* the queue loses nothing, even when it is not the task that was          *)
(* collected.  For the second it is EntryInv and EdgesInv: the lock of its *)
(* shard keeps an entry for the thread that links it.                      *)
(***************************************************************************)
EXTENDS IncrementalAnalyzer, SumTheorems, SequenceTheorems, TLAPS

Taking == {"take", "begin"}

Analyzing == {"analyzing", "report"}

Points ==
    Taking \cup Analyzing \cup
    {"idle", "insert", "lock", "detach", "attach", "link", "sweep", "compare",
     "mark", "clear"}

HandTypes ==
    /\ queue \in Seq(Tasks)
    /\ pc \in [Threads -> Points]
    /\ hand \in [Threads -> Seq(Tasks)]
    /\ rest \in [Threads -> Seq(Tasks)]

HandOf(t) ==
    /\ pc[t] \notin Taking \cup Analyzing => hand[t] = <<>>
    /\ pc[t] \in Analyzing => hand[t] # <<>>
    /\ pc[t] \in Taking =>
          /\ rest[t] # <<>>
          /\ \A i \in DOMAIN rest[t] : \E j \in DOMAIN hand[t] :
                hand[t][j].file = rest[t][i].file

Handed ==
    /\ HandTypes
    /\ \A t \in Threads : HandOf(t)
    /\ NoRequestLost

-----------------------------------------------------------------------------

(* RemoveAt keeps the elements before and after.                           *)
LEMMA RemoveAtKeeps ==
    ASSUME NEW S, NEW s \in Seq(S), NEW p \in DOMAIN s
    PROVE  /\ RemoveAt(s, p) \in Seq(S)
           /\ \A i \in DOMAIN s : i # p =>
                 \E j \in DOMAIN RemoveAt(s, p) : RemoveAt(s, p)[j] = s[i]
  <1> DEFINE before == SubSeq(s, 1, p - 1)
             after == SubSeq(s, p + 1, Len(s))
  <1>1. p \in 1 .. Len(s) /\ Len(s) \in Nat /\ \A i \in 1 .. Len(s) : s[i] \in S
    OBVIOUS
  <1>2. /\ before \in Seq(S)
        /\ Len(before) = p - 1
        /\ \A i \in 1 .. p - 1 : before[i] = s[i]
    <2>1. \A i \in 1 .. p - 1 : s[i] \in S
      BY <1>1
    <2>2. /\ before \in Seq(S)
          /\ Len(before) = IF 1 <= p - 1 THEN (p - 1) - 1 + 1 ELSE 0
          /\ \A i \in 1 .. (p - 1) - 1 + 1 : before[i] = s[1 + i - 1]
      BY <1>1, <2>1, SubSeqProperties
    <2> QED
      BY <1>1, <2>2
  <1>3. /\ after \in Seq(S)
        /\ Len(after) = Len(s) - p
        /\ \A i \in 1 .. Len(s) - p : after[i] = s[p + i]
    <2>1. \A i \in p + 1 .. Len(s) : s[i] \in S
      BY <1>1
    <2>2. /\ after \in Seq(S)
          /\ Len(after) = IF p + 1 <= Len(s) THEN Len(s) - (p + 1) + 1 ELSE 0
          /\ \A i \in 1 .. Len(s) - (p + 1) + 1 : after[i] = s[(p + 1) + i - 1]
      BY <1>1, <2>1, SubSeqProperties
    <2> QED
      BY <1>1, <2>2
  <1> HIDE DEF before, after
  <1>4. /\ before \o after \in Seq(S)
        /\ Len(before \o after) = Len(s) - 1
        /\ \A j \in 1 .. Len(s) - 1 :
              (before \o after)[j] = IF j <= p - 1 THEN before[j] ELSE after[j - (p - 1)]
    <2>1. /\ before \o after \in Seq(S)
          /\ Len(before \o after) = Len(before) + Len(after)
          /\ \A j \in 1 .. Len(before) + Len(after) :
                (before \o after)[j] = IF j <= Len(before) THEN before[j] ELSE after[j - Len(before)]
      BY <1>2, <1>3, ConcatProperties, Zenon
    <2>2. Len(before) + Len(after) = Len(s) - 1
      BY <1>1, <1>2, <1>3
    <2> QED
      BY <1>2, <2>1, <2>2, Zenon
  <1>5. ASSUME NEW i \in DOMAIN s, i # p
        PROVE  \E j \in 1 .. Len(s) - 1 : (before \o after)[j] = s[i]
    <2>1. CASE i < p
      <3>1. i \in 1 .. p - 1 /\ i \in 1 .. Len(s) - 1 /\ i <= p - 1
        BY <1>1, <2>1
      <3>2. (before \o after)[i] = before[i]
        BY <1>4, <3>1
      <3> QED
        BY <1>2, <3>1, <3>2
    <2>2. CASE i > p
      <3>1. /\ i - 1 \in 1 .. Len(s) - 1 /\ i - p \in 1 .. Len(s) - p
            /\ ~(i - 1 <= p - 1) /\ (i - 1) - (p - 1) = i - p
        BY <1>1, <2>2
      <3>2. (before \o after)[i - 1] = after[i - p]
        BY <1>4, <3>1
      <3>3. after[i - p] = s[p + (i - p)]
        BY <1>3, <3>1, Zenon
      <3>4. p + (i - p) = i
        BY <1>1
      <3> QED
        BY <3>1, <3>2, <3>3, <3>4, Zenon
    <2>3. i < p \/ i > p
      BY <1>1, <1>5
    <2> QED
      BY <2>1, <2>2, <2>3
  <1>6. RemoveAt(s, p) = before \o after
    BY DEF RemoveAt, before, after
  <1>7. DOMAIN (before \o after) = 1 .. Len(s) - 1
    BY <1>4
  <1> QED
    BY <1>4, <1>5, <1>6, <1>7

(* Taking a file's task from the queue leaves those of the others.         *)
LEMMA WithoutKeeps ==
    ASSUME NEW tasks \in Seq(Tasks), NEW f
    PROVE  /\ Without(tasks, f) \in Seq(Tasks)
           /\ \A i \in DOMAIN tasks : tasks[i].file # f =>
                 \E j \in DOMAIN Without(tasks, f) : Without(tasks, f)[j].file = tasks[i].file
  <1>1. CASE \E i \in DOMAIN tasks : tasks[i].file = f
    <2> DEFINE p == CHOOSE i \in DOMAIN tasks : tasks[i].file = f
    <2>1. p \in DOMAIN tasks /\ tasks[p].file = f
      BY <1>1
    <2>2. Without(tasks, f) = RemoveAt(tasks, p)
      BY <1>1 DEF Without
    <2> HIDE DEF p
    <2>3. /\ RemoveAt(tasks, p) \in Seq(Tasks)
          /\ \A i \in DOMAIN tasks : i # p =>
                \E j \in DOMAIN RemoveAt(tasks, p) : RemoveAt(tasks, p)[j] = tasks[i]
      BY <2>1, RemoveAtKeeps
    <2> QED
      BY <2>1, <2>2, <2>3
  <1>2. CASE ~\E i \in DOMAIN tasks : tasks[i].file = f
    BY <1>2 DEF Without
  <1> QED
    BY <1>1, <1>2

(* A new task replaces none of another file.                               *)
LEMMA EnqueueKeeps ==
    ASSUME NEW tasks \in Seq(Tasks), NEW task \in Tasks
    PROVE  /\ Enqueue(tasks, task) \in Seq(Tasks)
           /\ \E j \in DOMAIN Enqueue(tasks, task) : Enqueue(tasks, task)[j].file = task.file
           /\ \A i \in DOMAIN tasks :
                 \E j \in DOMAIN Enqueue(tasks, task) :
                    Enqueue(tasks, task)[j].file = tasks[i].file
  <1> DEFINE others == Without(tasks, task.file)
  <1>1. /\ others \in Seq(Tasks)
        /\ \A i \in DOMAIN tasks : tasks[i].file # task.file =>
              \E j \in DOMAIN others : others[j].file = tasks[i].file
    <2>1. \A f :
             /\ Without(tasks, f) \in Seq(Tasks)
             /\ \A i \in DOMAIN tasks : tasks[i].file # f =>
                   \E j \in DOMAIN Without(tasks, f) :
                      Without(tasks, f)[j].file = tasks[i].file
      BY WithoutKeeps
    <2> QED
      BY <2>1
  <1>2. Enqueue(tasks, task) = Append(others, task)
    BY DEF Enqueue
  <1> HIDE DEF others
  <1>3. /\ Append(others, task) \in Seq(Tasks)
        /\ DOMAIN Append(others, task) = 1 .. Len(others) + 1
        /\ Append(others, task)[Len(others) + 1] = task
        /\ \A j \in DOMAIN others : Append(others, task)[j] = others[j]
        /\ Len(others) \in Nat /\ DOMAIN others = 1 .. Len(others)
    BY <1>1
  <1> QED
    BY <1>1, <1>2, <1>3

-----------------------------------------------------------------------------

Busy == Taking \cup Analyzing

(* Outside of batches only pending requests and the queue matter: a step   *)
(* of a thread that has no batch keeps the rest of the invariant.          *)
LEMMA BatchesUntouched ==
    ASSUME Handed, NEW t \in Threads, NEW to \in Points \ Busy,
           pc[t] \notin Busy, pc' = [pc EXCEPT ![t] = to],
           UNCHANGED <<hand, rest>>
    PROVE  /\ pc' \in [Threads -> Points]
           /\ \A u \in Threads : HandOf(u)'
           /\ \A u \in Threads : u # t => pc'[u] = pc[u]
           /\ hand[t] = <<>>
  <1>1. pc' \in [Threads -> Points]
    BY DEF Handed, HandTypes
  <1>2. \A u \in Threads : pc'[u] = IF u = t THEN to ELSE pc[u]
    BY DEF Handed, HandTypes
  <1>3. hand[t] = <<>>
    BY DEF Handed, HandOf, Busy
  <1>4. ASSUME NEW u \in Threads PROVE HandOf(u)'
    BY <1>2, <1>3 DEF Handed, HandOf, Busy
  <1> QED
    BY <1>1, <1>2, <1>3, <1>4

(* A step of such a thread that leaves queue and requests alone.           *)
LEMMA HandedElsewhere ==
    ASSUME Handed, NEW t \in Threads, NEW to \in Points \ Busy,
           pc[t] \notin Busy, pc' = [pc EXCEPT ![t] = to],
           UNCHANGED <<queue, hand, rest, pending>>
    PROVE  Handed'
  <1>1. /\ pc' \in [Threads -> Points]
        /\ \A u \in Threads : HandOf(u)'
        /\ \A u \in Threads : u # t => pc'[u] = pc[u]
        /\ hand[t] = <<>>
    BY BatchesUntouched
  <1>2. HandTypes'
    BY <1>1 DEF Handed, HandTypes
  <1>3. NoRequestLost'
    BY <1>1 DEF Handed, NoRequestLost
  <1> QED
    BY <1>1, <1>2, <1>3 DEF Handed

(* Steps that touch none of it.                                            *)
LEMMA HandedUnchanged ==
    ASSUME Handed, UNCHANGED <<queue, hand, rest, pending, pc>>
    PROVE  Handed'
  BY DEF Handed, HandTypes, HandOf, NoRequestLost

(* A file is queued: by queue_file_for_analysis, or check_file_changes.    *)
LEMMA HandedQueued ==
    ASSUME Handed, NEW t \in Threads, NEW to \in Points \ Busy,
           pc[t] \notin Busy, pc' = [pc EXCEPT ![t] = to],
           UNCHANGED <<hand, rest>>,
           NEW f \in Files, NEW priority \in Priorities \cup {1},
           queue' = Enqueue(queue, Task(f, priority)),
           pending' = pending \cup {f}
    PROVE  Handed'
  <1>1. /\ pc' \in [Threads -> Points]
        /\ \A u \in Threads : HandOf(u)'
        /\ \A u \in Threads : u # t => pc'[u] = pc[u]
        /\ hand[t] = <<>>
    BY BatchesUntouched
  <1>2. Task(f, priority) \in Tasks /\ Task(f, priority).file = f
    BY DEF Task, Tasks
  <1>3. queue \in Seq(Tasks)
    BY DEF Handed, HandTypes
  <1>4. /\ queue' \in Seq(Tasks)
        /\ \E j \in DOMAIN queue' : queue'[j].file = f
        /\ \A i \in DOMAIN queue : \E j \in DOMAIN queue' : queue'[j].file = queue[i].file
    <2>1. \A task \in Tasks :
             /\ Enqueue(queue, task) \in Seq(Tasks)
             /\ \E j \in DOMAIN Enqueue(queue, task) :
                   Enqueue(queue, task)[j].file = task.file
             /\ \A i \in DOMAIN queue :
                   \E j \in DOMAIN Enqueue(queue, task) :
                      Enqueue(queue, task)[j].file = queue[i].file
      BY <1>3, EnqueueKeeps
    <2> QED
      BY <1>2, <2>1
  <1>5. HandTypes'
    BY <1>1, <1>4 DEF Handed, HandTypes
  <1>6. NoRequestLost'
    BY <1>1, <1>4 DEF Handed, NoRequestLost
  <1> QED
    BY <1>1, <1>5, <1>6 DEF Handed

(* What get_analysis_batch takes are tasks of the queue, if there are any. *)
LEMMA BatchType ==
    ASSUME NEW tasks \in Seq(Tasks), NEW sorted \in ByPriority(tasks)
    PROVE  Batch(sorted) \in Seq(Tasks) /\ (Batch(sorted) = <<>> <=> tasks = <<>>)
  <1> DEFINE ahead == {ij \in (1 .. Len(tasks)) \X (1 .. Len(tasks)) :
                         tasks[ij[1]].priority > tasks[ij[2]].priority}
             n == IF Len(sorted) <= MaxBatchSize THEN Len(sorted) ELSE MaxBatchSize
  <1>1. PICK p \in Arrangements(Len(tasks), ahead) :
           sorted = [k \in 1 .. Len(tasks) |-> tasks[p[k]]]
    BY DEF ByPriority, Sorted
  <1>2. \A k \in 1 .. Len(tasks) : p[k] \in 1 .. Len(tasks)
    BY DEF Arrangements
  <1>3. /\ Len(tasks) \in Nat
        /\ Len(tasks) = 0 <=> tasks = <<>>
        /\ \A k \in 1 .. Len(tasks) : tasks[k] \in Tasks
    BY EmptySeq
  <1>4. sorted \in Seq(Tasks) /\ Len(sorted) = Len(tasks)
    BY <1>1, <1>2, <1>3
  <1>5. n \in 0 .. Len(sorted) /\ (n = 0 <=> Len(sorted) = 0)
    BY <1>3, <1>4, BatchAssumption
  <1>6. Batch(sorted) = SubSeq(sorted, 1, n)
    BY DEF Batch
  <1> HIDE DEF n
  <1>7. SubSeq(sorted, 1, n) \in Seq(Tasks) /\ Len(SubSeq(sorted, 1, n)) = n
    BY <1>4, <1>5, SubSeqProperties
  <1>8. SubSeq(sorted, 1, n) = <<>> <=> Len(SubSeq(sorted, 1, n)) = 0
    BY <1>7, EmptySeq
  <1> QED
    BY <1>3, <1>4, <1>5, <1>6, <1>7, <1>8

-----------------------------------------------------------------------------

(* Where the threads are after one of them has moved.                      *)
LEMMA Moved ==
    ASSUME HandTypes, NEW t \in Threads, NEW to \in Points,
           pc' = [pc EXCEPT ![t] = to]
    PROVE  /\ pc' \in [Threads -> Points]
           /\ \A u \in Threads : pc'[u] = IF u = t THEN to ELSE pc[u]
  BY DEF HandTypes

(* A batch that is collected is of the queue, which keeps its tasks.       *)
LEMMA HandedCollected ==
    ASSUME Handed, NEW t \in Threads, GetBatch(t)
    PROVE  Handed'
  <1> DEFINE to == IF queue = <<>> THEN "idle" ELSE "take"
  <1>1. PICK tasks \in ByPriority(queue) :
           /\ hand' = [hand EXCEPT ![t] = Batch(tasks)]
           /\ rest' = [rest EXCEPT ![t] = Batch(tasks)]
    BY DEF GetBatch
  <1>2. Batch(tasks) \in Seq(Tasks) /\ (Batch(tasks) = <<>> <=> queue = <<>>)
    BY <1>1, BatchType DEF Handed, HandTypes
  <1>3. /\ pc[t] = "idle" /\ to \in Points
        /\ pc' = [pc EXCEPT ![t] = to]
        /\ UNCHANGED <<queue, pending>>
    <2>1. "idle" \in Points /\ "take" \in Points
      BY DEF Points, Taking
    <2>2. to \in Points
      BY <2>1
    <2>3. pc[t] = "idle" /\ pc' = [pc EXCEPT ![t] = to]
      BY DEF GetBatch, Call
    <2>4. UNCHANGED <<queue, pending>>
      BY DEF GetBatch, mapVars, historyVars
    <2> QED
      BY <2>2, <2>3, <2>4
  <1>4. hand[t] = <<>>
    BY <1>3 DEF Handed, HandOf, Taking, Analyzing
  <1>5. /\ pc' \in [Threads -> Points]
        /\ \A u \in Threads : pc'[u] = IF u = t THEN to ELSE pc[u]
    <2> HIDE DEF to
    <2> QED
      BY <1>3, Moved DEF Handed
  <1>6. /\ \A u \in Threads : hand'[u] = IF u = t THEN Batch(tasks) ELSE hand[u]
        /\ \A u \in Threads : rest'[u] = IF u = t THEN Batch(tasks) ELSE rest[u]
    BY <1>1 DEF Handed, HandTypes
  <1>7. HandTypes'
    BY <1>1, <1>2, <1>3, <1>5 DEF Handed, HandTypes
  <1>8. ASSUME NEW u \in Threads PROVE HandOf(u)'
    <2>1. CASE u = t
      BY <1>2, <1>5, <1>6, <2>1 DEF HandOf, Taking, Analyzing
    <2>2. CASE u # t
      BY <1>5, <1>6, <2>2 DEF Handed, HandOf
    <2> QED
      BY <2>1, <2>2
  <1>9. NoRequestLost'
    BY <1>3, <1>4, <1>5, <1>6 DEF Handed, NoRequestLost
  <1> QED
    BY <1>7, <1>8, <1>9 DEF Handed

(* A task taken from the queue is of the batch of the thread that takes it.*)
LEMMA HandedTaken ==
    ASSUME Handed, NEW t \in Threads, TakeTask(t)
    PROVE  Handed'
  <1> DEFINE f == Head(rest[t]).file
  <1>1. /\ pc[t] = "take" /\ pc' = [pc EXCEPT ![t] = "begin"]
        /\ queue' = Without(queue, f)
        /\ UNCHANGED <<hand, rest, pending>>
    BY DEF TakeTask, Goto, threadVars, historyVars
  <1>2. /\ queue' \in Seq(Tasks)
        /\ \A i \in DOMAIN queue : queue[i].file # f =>
              \E j \in DOMAIN queue' : queue'[j].file = queue[i].file
    <2>1. queue \in Seq(Tasks)
      BY DEF Handed, HandTypes
    <2>2. \A g :
             /\ Without(queue, g) \in Seq(Tasks)
             /\ \A i \in DOMAIN queue : queue[i].file # g =>
                   \E j \in DOMAIN Without(queue, g) :
                      Without(queue, g)[j].file = queue[i].file
      BY <2>1, WithoutKeeps
    <2> QED
      BY <1>1, <2>2
  <1>3. \E j \in DOMAIN hand[t] : hand[t][j].file = f
    <2>1. rest[t] \in Seq(Tasks) /\ rest[t] # <<>>
      BY <1>1 DEF Handed, HandTypes, HandOf, Taking
    <2>2. 1 \in DOMAIN rest[t] /\ Head(rest[t]) = rest[t][1]
      BY <2>1
    <2> QED
      BY <1>1, <2>2 DEF Handed, HandOf, Taking
  <1>4. /\ pc' \in [Threads -> Points]
        /\ \A u \in Threads : pc'[u] = IF u = t THEN "begin" ELSE pc[u]
    <2>1. "begin" \in Points
      BY DEF Points, Taking
    <2> DEFINE to == "begin"
    <2>2. pc' = [pc EXCEPT ![t] = to] /\ to \in Points
      BY <1>1, <2>1
    <2> HIDE DEF to
    <2>3. /\ pc' \in [Threads -> Points]
          /\ \A u \in Threads : pc'[u] = IF u = t THEN to ELSE pc[u]
      BY <2>2, Moved DEF Handed
    <2> QED
      BY <2>3 DEF to
  <1> HIDE DEF f
  <1>5. HandTypes'
    BY <1>1, <1>2, <1>4 DEF Handed, HandTypes
  <1>6. ASSUME NEW u \in Threads PROVE HandOf(u)'
    BY <1>1, <1>4 DEF Handed, HandOf, Taking, Analyzing
  <1>7. NoRequestLost'
    <2> SUFFICES ASSUME NEW g \in pending
                 PROVE  \/ \E i \in DOMAIN queue' : queue'[i].file = g
                        \/ \E u \in Threads : \E i \in DOMAIN hand[u] :
                              /\ hand[u][i].file = g
                              /\ pc'[u] = "report" => i > 1
      BY <1>1 DEF NoRequestLost
    <2>1. CASE g = f
      BY <1>3, <1>4, <2>1
    <2>2. CASE g # f /\ \E i \in DOMAIN queue : queue[i].file = g
      BY <1>2, <2>2
    <2>3. CASE \E u \in Threads : \E i \in DOMAIN hand[u] :
                 /\ hand[u][i].file = g
                 /\ pc[u] = "report" => i > 1
      BY <1>4, <2>3
    <2> QED
      BY <2>1, <2>2, <2>3 DEF Handed, NoRequestLost
  <1> QED
    BY <1>5, <1>6, <1>7 DEF Handed

(* What is left to take is still of the batch.                             *)
LEMMA HandedMarked ==
    ASSUME Handed, NEW t \in Threads, MarkInProgress(t)
    PROVE  Handed'
  <1> DEFINE to == IF Tail(rest[t]) = <<>> THEN "analyzing" ELSE "take"
  <1>1. /\ pc[t] = "begin"
        /\ pc' = [pc EXCEPT ![t] = to]
        /\ rest' = [rest EXCEPT ![t] = Tail(rest[t])]
        /\ UNCHANGED <<queue, hand, pending>>
    BY DEF MarkInProgress, Goto, historyVars
  <1>2. to \in Points
    BY DEF Points, Taking, Analyzing
  <1>3. /\ pc' \in [Threads -> Points]
        /\ \A u \in Threads : pc'[u] = IF u = t THEN to ELSE pc[u]
    <2> HIDE DEF to
    <2> QED
      BY <1>1, <1>2, Moved DEF Handed
  <1>4. /\ rest[t] \in Seq(Tasks) /\ rest[t] # <<>>
        /\ \A i \in DOMAIN rest[t] : \E j \in DOMAIN hand[t] :
              hand[t][j].file = rest[t][i].file
    BY <1>1 DEF Handed, HandTypes, HandOf, Taking
  <1>5. /\ Tail(rest[t]) \in Seq(Tasks)
        /\ \A i \in DOMAIN Tail(rest[t]) :
              i + 1 \in DOMAIN rest[t] /\ Tail(rest[t])[i] = rest[t][i + 1]
    BY <1>4
  <1>6. hand[t] # <<>>
    <2>1. 1 \in DOMAIN rest[t]
      BY <1>4
    <2>2. PICK j \in DOMAIN hand[t] : hand[t][j].file = rest[t][1].file
      BY <1>4, <2>1
    <2> QED
      BY <2>2
  <1>7. \A u \in Threads : rest'[u] = IF u = t THEN Tail(rest[t]) ELSE rest[u]
    BY <1>1 DEF Handed, HandTypes
  <1>8. HandTypes'
    BY <1>1, <1>3, <1>5 DEF Handed, HandTypes
  <1>9. ASSUME NEW u \in Threads PROVE HandOf(u)'
    <2>1. CASE u = t
      <3>1. pc'[u] \in Taking => Tail(rest[t]) # <<>>
        BY <1>3, <2>1 DEF Taking
      <3>2. \A i \in DOMAIN Tail(rest[t]) : \E j \in DOMAIN hand[t] :
               hand[t][j].file = Tail(rest[t])[i].file
        BY <1>4, <1>5
      <3>3. pc'[u] \in Taking \cup Analyzing
        BY <1>3, <2>1 DEF Taking, Analyzing
      <3>4. hand'[u] = hand[t] /\ rest'[u] = Tail(rest[t])
        BY <1>1, <1>7, <2>1
      <3>5. pc'[u] \notin Taking \cup Analyzing => hand'[u] = <<>>
        BY <3>3
      <3>6. pc'[u] \in Analyzing => hand'[u] # <<>>
        BY <1>6, <3>4
      <3>7. pc'[u] \in Taking =>
               /\ rest'[u] # <<>>
               /\ \A i \in DOMAIN rest'[u] : \E j \in DOMAIN hand'[u] :
                     hand'[u][j].file = rest'[u][i].file
        BY <3>1, <3>2, <3>4
      <3> QED
        BY <3>5, <3>6, <3>7 DEF HandOf
    <2>2. CASE u # t
      BY <1>1, <1>3, <1>7, <2>2 DEF Handed, HandOf
    <2> QED
      BY <2>1, <2>2
  <1>10. NoRequestLost'
    BY <1>1, <1>3 DEF Handed, NoRequestLost
  <1> QED
    BY <1>8, <1>9, <1>10 DEF Handed

(* An analysis that begins answers the requests made so far.               *)
LEMMA HandedAnalyzed ==
    ASSUME Handed, NEW t \in Threads, Analyze(t)
    PROVE  Handed'
  <1> DEFINE to == "report"
             f == Head(hand[t]).file
  <1>1. /\ pc[t] = "analyzing"
        /\ pc' = [pc EXCEPT ![t] = to]
        /\ pending' = pending \ {f}
        /\ UNCHANGED <<queue, hand, rest>>
    BY DEF Analyze, Goto, mapVars, threadVars
  <1>2. to \in Points
    BY DEF Points, Analyzing
  <1>3. /\ pc' \in [Threads -> Points]
        /\ \A u \in Threads : pc'[u] = IF u = t THEN to ELSE pc[u]
    <2> HIDE DEF to
    <2> QED
      BY <1>1, <1>2, Moved DEF Handed
  <1>4. hand[t] \in Seq(Tasks) /\ hand[t] # <<>>
    BY <1>1 DEF Handed, HandTypes, HandOf, Analyzing
  <1>5. f = hand[t][1].file
    BY <1>4
  <1> HIDE DEF f
  <1>6. HandTypes'
    BY <1>1, <1>3 DEF Handed, HandTypes
  <1>7. ASSUME NEW u \in Threads PROVE HandOf(u)'
    BY <1>1, <1>3 DEF Handed, HandOf, Taking, Analyzing
  <1>8. NoRequestLost'
    <2> SUFFICES ASSUME NEW g \in pending, g # f
                 PROVE  \/ \E i \in DOMAIN queue : queue[i].file = g
                        \/ \E u \in Threads : \E i \in DOMAIN hand[u] :
                              /\ hand[u][i].file = g
                              /\ pc'[u] = "report" => i > 1
      BY <1>1 DEF NoRequestLost
    <2>1. CASE \E i \in DOMAIN queue : queue[i].file = g
      BY <2>1
    <2>2. CASE \E u \in Threads : \E i \in DOMAIN hand[u] :
                 /\ hand[u][i].file = g
                 /\ pc[u] = "report" => i > 1
      <3>0. PICK u \in Threads : \E i \in DOMAIN hand[u] :
               /\ hand[u][i].file = g
               /\ pc[u] = "report" => i > 1
        BY <2>2
      <3>1. PICK i \in DOMAIN hand[u] :
               /\ hand[u][i].file = g
               /\ pc[u] = "report" => i > 1
        BY <3>0
      <3>2. hand[u] \in Seq(Tasks)
        BY DEF Handed, HandTypes
      <3>3. i \in 1 .. Len(hand[u]) /\ Len(hand[u]) \in Nat
        BY <3>1, <3>2
      <3>4. CASE u = t
        <4>1. i # 1
          BY <1>5, <3>1, <3>4
        <4> QED
          BY <3>1, <3>3, <3>4, <4>1
      <3>5. CASE u # t
        BY <1>3, <3>1, <3>5
      <3> QED
        BY <3>4, <3>5
    <2> QED
      BY <2>1, <2>2 DEF Handed, NoRequestLost
  <1> QED
    BY <1>6, <1>7, <1>8 DEF Handed

(* The files of the batch after the one that is reported stay in it.       *)
LEMMA HandedReported ==
    ASSUME Handed, NEW t \in Threads, NEW status, Report(t, status)
    PROVE  Handed'
  <1> DEFINE to == IF Tail(hand[t]) = <<>> THEN "idle" ELSE "analyzing"
  <1>1. /\ pc[t] = "report"
        /\ pc' = [pc EXCEPT ![t] = to]
        /\ hand' = [hand EXCEPT ![t] = Tail(hand[t])]
        /\ UNCHANGED <<queue, rest, pending>>
    BY DEF Report, Goto, historyVars
  <1>2. to \in Points
    BY DEF Points, Analyzing
  <1>3. /\ pc' \in [Threads -> Points]
        /\ \A u \in Threads : pc'[u] = IF u = t THEN to ELSE pc[u]
    <2> HIDE DEF to
    <2> QED
      BY <1>1, <1>2, Moved DEF Handed
  <1>4. hand[t] \in Seq(Tasks) /\ hand[t] # <<>>
    BY <1>1 DEF Handed, HandTypes, HandOf, Analyzing
  <1>5. /\ Tail(hand[t]) \in Seq(Tasks)
        /\ \A i \in DOMAIN hand[t] : i > 1 =>
              i - 1 \in DOMAIN Tail(hand[t]) /\ Tail(hand[t])[i - 1] = hand[t][i]
    BY <1>4
  <1>6. \A u \in Threads : hand'[u] = IF u = t THEN Tail(hand[t]) ELSE hand[u]
    BY <1>1 DEF Handed, HandTypes
  <1>7. HandTypes'
    BY <1>1, <1>3, <1>5 DEF Handed, HandTypes
  <1>8. ASSUME NEW u \in Threads PROVE HandOf(u)'
    <2>1. CASE u = t
      BY <1>3, <1>6, <2>1 DEF HandOf, Taking, Analyzing
    <2>2. CASE u # t
      BY <1>1, <1>3, <1>6, <2>2 DEF Handed, HandOf
    <2> QED
      BY <2>1, <2>2
  <1>9. NoRequestLost'
    <2> SUFFICES ASSUME NEW g \in pending
                 PROVE  \/ \E i \in DOMAIN queue : queue[i].file = g
                        \/ \E u \in Threads : \E i \in DOMAIN hand'[u] :
                              /\ hand'[u][i].file = g
                              /\ pc'[u] = "report" => i > 1
      BY <1>1 DEF NoRequestLost
    <2>1. CASE \E i \in DOMAIN queue : queue[i].file = g
      BY <2>1
    <2>2. CASE \E u \in Threads : \E i \in DOMAIN hand[u] :
                 /\ hand[u][i].file = g
                 /\ pc[u] = "report" => i > 1
      <3>0. PICK u \in Threads : \E i \in DOMAIN hand[u] :
               /\ hand[u][i].file = g
               /\ pc[u] = "report" => i > 1
        BY <2>2
      <3>1. PICK i \in DOMAIN hand[u] :
               /\ hand[u][i].file = g
               /\ pc[u] = "report" => i > 1
        BY <3>0
      <3>2. CASE u = t
        <4>1. i - 1 \in DOMAIN hand'[u] /\ hand'[u][i - 1].file = g
          BY <1>1, <1>5, <1>6, <3>1, <3>2
        <4>2. pc'[u] # "report"
          BY <1>3, <3>2
        <4> QED
          BY <4>1, <4>2
      <3>3. CASE u # t
        BY <1>3, <1>6, <3>1, <3>3
      <3> QED
        BY <3>2, <3>3
    <2> QED
      BY <2>1, <2>2 DEF Handed, NoRequestLost
  <1> QED
    BY <1>7, <1>8, <1>9 DEF Handed

(* clear forgets the requests with the queue.                              *)
LEMMA HandedCleared ==
    ASSUME Handed, NEW t \in Threads, ClearOthers(t)
    PROVE  Handed'
  <1> DEFINE to == "idle"
  <1>1. /\ pc[t] = "clear"
        /\ pc' = [pc EXCEPT ![t] = to]
        /\ queue' = <<>> /\ pending' = {}
        /\ UNCHANGED <<hand, rest>>
    BY DEF ClearOthers, Goto, threadVars
  <1>2. pc[t] \notin Busy /\ to \in Points \ Busy
    BY <1>1 DEF Busy, Points, Taking, Analyzing
  <1> HIDE DEF to
  <1>3. pc' \in [Threads -> Points] /\ \A u \in Threads : HandOf(u)'
    BY <1>1, <1>2, BatchesUntouched
  <1>4. <<>> \in Seq(Tasks)
    OBVIOUS
  <1>5. HandTypes' /\ NoRequestLost'
    BY <1>1, <1>3, <1>4 DEF Handed, HandTypes, NoRequestLost
  <1> QED
    BY <1>3, <1>5 DEF Handed

-----------------------------------------------------------------------------

(* The other steps move one thread between points outside of batches.      *)
LEMMA HandedByOthers ==
    ASSUME Handed, NEW t \in Threads,
           \/ \E f \in Files : Track(t, f)
           \/ Check(t) \/ Clear(t)
           \/ InsertState(t) \/ LockEntry(t) \/ NoEntry(t)
           \/ SetDependencies(t) \/ UnlockEntry(t) \/ Link(t)
           \/ EnterShard(t) \/ NothingChanged(t) \/ MarkQueued(t)
    PROVE  Handed'
  <1>1. UNCHANGED <<queue, hand, rest, pending>>
    BY DEF Track, Check, Clear, InsertState, LockEntry, NoEntry, SetDependencies,
           UnlockEntry, Link, EnterShard, NothingChanged, MarkQueued,
           mapVars, threadVars, historyVars
  <1>2. pc[t] \notin Busy /\ \E to \in Points \ Busy : pc' = [pc EXCEPT ![t] = to]
    BY DEF Track, Check, Clear, InsertState, LockEntry, NoEntry, SetDependencies,
           UnlockEntry, Link, EnterShard, NothingChanged, MarkQueued,
           Call, Goto, Points, Busy, Taking, Analyzing
  <1> QED
    BY <1>1, <1>2, HandedElsewhere

(* These do not even move it.                                              *)
LEMMA HandedInPlace ==
    ASSUME Handed, NEW t \in Threads,
           Detach(t) \/ Attach(t) \/ FindUnchanged(t) \/ NextShard(t) \/ ClearShard(t)
    PROVE  Handed'
  <1>1. UNCHANGED <<queue, hand, rest, pending, pc>>
    BY DEF Detach, Attach, FindUnchanged, NextShard, ClearShard, mapVars, historyVars
  <1> QED
    BY <1>1, HandedUnchanged

(* Both ways a file gets into the queue.                                   *)
LEMMA HandedByQueueing ==
    ASSUME Handed, NEW t \in Threads,
           FindChanged(t) \/ \E f \in Files : Queue(t, f)
    PROVE  Handed'
  <1> DEFINE to == "mark"
  <1>1. /\ pc[t] \in {"compare", "idle"}
        /\ pc' = [pc EXCEPT ![t] = to]
        /\ UNCHANGED <<hand, rest>>
    BY DEF FindChanged, Queue, Call, Goto
  <1>2. pc[t] \notin Busy /\ to \in Points \ Busy
    BY <1>1 DEF Busy, Points, Taking, Analyzing
  <1> HIDE DEF to
  <1>3. PICK f \in Files :
           /\ \E priority \in Priorities \cup {1} :
                 queue' = Enqueue(queue, Task(f, priority))
           /\ pending' = pending \cup {f}
    BY DEF FindChanged, Queue
  <1>4. PICK priority \in Priorities \cup {1} :
           queue' = Enqueue(queue, Task(f, priority))
    BY <1>3
  <1> QED
    BY <1>1, <1>2, <1>3, <1>4, HandedQueued

(* At first nothing is queued and nobody has a batch.                      *)
LEMMA InitHanded == Init => Handed
  <1> SUFFICES ASSUME Init PROVE Handed
    OBVIOUS
  <1>1. "idle" \in Points /\ <<>> \in Seq(Tasks)
    BY DEF Points
  <1>2. HandTypes
    BY <1>1 DEF Init, HandTypes
  <1>3. \A t \in Threads : HandOf(t)
    BY DEF Init, HandOf, Taking, Analyzing
  <1>4. NoRequestLost
    BY DEF Init, NoRequestLost
  <1> QED
    BY <1>2, <1>3, <1>4 DEF Handed

(* Handed holds throughout.                                                *)
THEOREM HandedInvariant == Spec => []Handed
  <1>1. Handed /\ [Next]_vars => Handed'
    <2> SUFFICES ASSUME Handed, [Next]_vars PROVE Handed'
      OBVIOUS
    <2>1. CASE \E f \in Files : Write(f)
      <3>1. UNCHANGED <<queue, hand, rest, pending, pc>>
        BY <2>1 DEF Write, mapVars, threadVars, historyVars
      <3> QED
        BY <3>1, HandedUnchanged
    <2>2. ASSUME NEW t \in Threads, Begin(t) PROVE Handed'
      <3>1. CASE (\E f \in Files : Track(t, f)) \/ Check(t) \/ Clear(t)
        BY <3>1, HandedByOthers
      <3>2. CASE \E f \in Files : Queue(t, f)
        BY <3>2, HandedByQueueing
      <3>3. CASE GetBatch(t)
        BY <3>3, HandedCollected
      <3>4. CASE Analyze(t)
        BY <3>4, HandedAnalyzed
      <3> QED
        BY <2>2, <3>1, <3>2, <3>3, <3>4 DEF Begin
    <2>3. ASSUME NEW t \in Threads, Step(t) PROVE Handed'
      <3>1. CASE \/ InsertState(t) \/ LockEntry(t) \/ NoEntry(t)
                 \/ SetDependencies(t) \/ UnlockEntry(t) \/ Link(t)
                 \/ EnterShard(t) \/ NothingChanged(t) \/ MarkQueued(t)
        BY <3>1, HandedByOthers
      <3>2. CASE Detach(t) \/ Attach(t) \/ FindUnchanged(t) \/ NextShard(t) \/ ClearShard(t)
        BY <3>2, HandedInPlace
      <3>3. CASE FindChanged(t)
        BY <3>3, HandedByQueueing
      <3>4. CASE TakeTask(t)
        BY <3>4, HandedTaken
      <3>5. CASE MarkInProgress(t)
        BY <3>5, HandedMarked
      <3>6. CASE CompleteAnalysis(t)
        BY <3>6, HandedReported DEF CompleteAnalysis
      <3>7. CASE MarkAnalysisFailed(t)
        BY <3>7, HandedReported DEF MarkAnalysisFailed
      <3>8. CASE ClearOthers(t)
        BY <3>8, HandedCleared
      <3> QED
        BY <2>3, <3>1, <3>2, <3>3, <3>4, <3>5, <3>6, <3>7, <3>8 DEF Step
    <2>4. CASE UNCHANGED vars
      <3>1. UNCHANGED <<queue, hand, rest, pending, pc>>
        BY <2>4 DEF vars, mapVars, threadVars, historyVars
      <3> QED
        BY <3>1, HandedUnchanged
    <2> QED
      BY <2>1, <2>2, <2>3, <2>4 DEF Next
  <1> QED
    BY InitHanded, <1>1, PTL DEF Spec

(* However many threads queue files, take batches and clear the maps, a    *)
(* file that was queued is in the queue or in a batch until its analysis   *)
(* begins.                                                                 *)
THEOREM RequestsKept == Spec => []NoRequestLost
  <1>1. Handed => NoRequestLost
    BY DEF Handed
  <1> QED
    BY HandedInvariant, <1>1, PTL
-----------------------------------------------------------------------------
(* DependentsExact.  What it rests on is the lock: a thread that goes      *)
(* through the dependencies of an entry holds the entry's shard, so that   *)
(* nobody else inserts, removes or links the entry meanwhile.              *)

Linking == {"detach", "attach"}

Tracks == {"insert", "lock", "link"} \cup Linking

Texts == [version : Nat, imports : SUBSET Files]

Statuses == {"NotAnalyzed", "Stale", "Queued", "InProgress", "Analyzed", "Failed"}

States == [seen : Nat, dependencies : SUBSET Files, dependents : SUBSET Files,
           status : Statuses]

EntryTypes ==
    /\ shard \in [Files -> Shards]
    /\ disk \in [Files -> Texts]
    /\ DOMAIN states \subseteq Files
    /\ \A f \in DOMAIN states : states[f] \in States
    /\ holder \in [Shards -> Threads \cup {None}]
    /\ pc \in [Threads -> Points]
    /\ file \in [Threads -> Files \cup {None}]
    /\ copy \in [Threads -> Texts \cup {None}]
    /\ todo \in [Threads -> SUBSET Files]
    /\ left \in [Threads -> SUBSET Shards]
    /\ tracked \in Seq(Files)
    /\ \A t \in Threads : pc[t] \in Tracks => file[t] \in Files /\ copy[t] \in Texts
    /\ \A t \in Threads : pc[t] = "mark" => file[t] \in Files

(* Who holds a lock.                                                       *)
Locks ==
    \A t \in Threads :
      /\ pc[t] \in Linking => file[t] \in DOMAIN states /\ holder[shard[file[t]]] = t
      /\ pc[t] = "compare" => left[t] # {} /\ holder[Min(left[t])] = t

EntryInv == EntryTypes /\ Locks

(* The smallest of a set of shards is one of them.                         *)
LEMMA MinShard ==
    ASSUME NEW S \in SUBSET Shards, S # {}
    PROVE  Min(S) \in S
  <1>1. S \in SUBSET Nat
    BY ShardsAssumption
  <1>2. \E m \in S : \A n \in S : m <= n
    BY <1>1, LeastNatural
  <1> QED
    BY <1>2 DEF Min

(* A status is set in an entry, if there is one.                           *)
LEMMA StatusEffect ==
    ASSUME EntryTypes, NEW f, NEW status \in Statuses, SetStatus(f, status)
    PROVE  /\ DOMAIN states' = DOMAIN states
           /\ \A g \in DOMAIN states' :
                /\ states'[g] \in States
                /\ states'[g].dependencies = states[g].dependencies
                /\ states'[g].dependents = states[g].dependents
  BY DEF EntryTypes, SetStatus, States

(* The steps of a thread that change no entry's edges, make none, remove   *)
(* none, and leave threads at work on one where they are.                  *)
Quiet ==
    /\ DOMAIN states' = DOMAIN states
    /\ \A f \in DOMAIN states' :
         /\ states'[f] \in States
         /\ states'[f].dependencies = states[f].dependencies
         /\ states'[f].dependents = states[f].dependents
    /\ tracked' = tracked
    /\ \A t \in Threads :
         /\ pc[t] \in Linking => pc'[t] = pc[t]
         /\ pc'[t] \in {"lock"} \cup Linking =>
              pc'[t] = pc[t] /\ file'[t] = file[t] /\ todo'[t] = todo[t] /\ copy'[t] = copy[t]

QuietStep(t) ==
    \/ \E f \in Files : Track(t, f) \/ Queue(t, f)
    \/ Check(t) \/ GetBatch(t) \/ Clear(t) \/ Analyze(t)
    \/ NoEntry(t) \/ Link(t)
    \/ EnterShard(t) \/ FindUnchanged(t) \/ FindChanged(t) \/ NextShard(t)
    \/ NothingChanged(t) \/ MarkQueued(t)
    \/ TakeTask(t) \/ MarkInProgress(t)
    \/ CompleteAnalysis(t) \/ MarkAnalysisFailed(t)
    \/ ClearOthers(t)

(* Where a quiet step's thread is before and after.                        *)
LEMMA QuietMoves ==
    ASSUME EntryTypes, NEW t \in Threads, QuietStep(t)
    PROVE  /\ \E to \in Points \ ({"lock"} \cup Linking) : pc' = [pc EXCEPT ![t] = to]
           /\ pc[t] \notin Linking
           /\ \A u \in Threads \ {t} :
                file'[u] = file[u] /\ todo'[u] = todo[u] /\ copy'[u] = copy[u]
           /\ tracked' = tracked /\ disk' = disk /\ shard' = shard
  <1> USE DEF EntryTypes, threadVars, historyVars, mapVars, Points, Taking, Analyzing, Linking
  <1>1. CASE \/ \E f \in Files : Track(t, f) \/ Queue(t, f)
             \/ Check(t) \/ Clear(t) \/ Analyze(t)
    BY <1>1 DEF Track, Queue, Check, Clear, Analyze, Call, Goto
  <1>2. CASE GetBatch(t)
    BY <1>2 DEF GetBatch, Call
  <1>3. CASE NoEntry(t) \/ Link(t) \/ EnterShard(t) \/ FindChanged(t)
    BY <1>3 DEF NoEntry, Link, EnterShard, FindChanged, Goto
  <1>4. CASE FindUnchanged(t) \/ NextShard(t)
    <2>1. pc' = [pc EXCEPT ![t] = "compare"] /\ pc[t] = "compare"
      BY <1>4 DEF FindUnchanged, NextShard
    <2> QED
      BY <1>4, <2>1 DEF FindUnchanged, NextShard
  <1>5. CASE NothingChanged(t) \/ MarkQueued(t) \/ TakeTask(t) \/ ClearOthers(t)
    BY <1>5 DEF NothingChanged, MarkQueued, TakeTask, ClearOthers, Goto
  <1>6. CASE MarkInProgress(t)
    BY <1>6 DEF MarkInProgress, Goto
  <1>7. CASE CompleteAnalysis(t) \/ MarkAnalysisFailed(t)
    BY <1>7 DEF CompleteAnalysis, MarkAnalysisFailed, Report, Goto
  <1> QED
    BY <1>1, <1>2, <1>3, <1>4, <1>5, <1>6, <1>7 DEF QuietStep

(* What they do to the entries: at most a status is set.                   *)
LEMMA QuietEntries ==
    ASSUME EntryTypes, NEW t \in Threads, QuietStep(t)
    PROVE  /\ DOMAIN states' = DOMAIN states
           /\ \A f \in DOMAIN states' :
                /\ states'[f] \in States
                /\ states'[f].dependencies = states[f].dependencies
                /\ states'[f].dependents = states[f].dependents
  <1>1. CASE states' = states
    BY <1>1 DEF EntryTypes
  <1>2. CASE FindChanged(t)
    <2>1. PICK f \in Files :
             /\ f \in DOMAIN disk
             /\ states' = [states EXCEPT ![f].seen = disk[f].version, ![f].status = "Stale"]
      BY <1>2 DEF FindChanged, EntryTypes
    <2>2. disk[f].version \in Nat
      BY <2>1 DEF EntryTypes, Texts
    <2> QED
      BY <2>1, <2>2 DEF EntryTypes, States, Statuses
  <1>3. CASE \E f : \E status \in Statuses : SetStatus(f, status)
    BY <1>3, StatusEffect
  <1>4. CASE MarkQueued(t)
    BY <1>4, <1>3 DEF MarkQueued, Statuses
  <1>5. CASE MarkInProgress(t)
    BY <1>5, <1>3 DEF MarkInProgress, Statuses
  <1>6. CASE CompleteAnalysis(t) \/ MarkAnalysisFailed(t)
    BY <1>6, <1>3 DEF CompleteAnalysis, MarkAnalysisFailed, Report, Statuses
  <1>7. QuietStep(t) => \/ states' = states \/ FindChanged(t) \/ MarkQueued(t)
                        \/ MarkInProgress(t) \/ CompleteAnalysis(t) \/ MarkAnalysisFailed(t)
    BY DEF QuietStep, Track, Queue, Check, GetBatch, Clear, Analyze, NoEntry, Link, EnterShard,
           FindUnchanged, NextShard, NothingChanged, TakeTask, ClearOthers, mapVars
  <1> QED
    BY <1>1, <1>2, <1>4, <1>5, <1>6, <1>7

(* So they are quiet.                                                      *)
LEMMA QuietSteps ==
    ASSUME EntryTypes, NEW t \in Threads, QuietStep(t)
    PROVE  Quiet
  <1>1. PICK to \in Points \ ({"lock"} \cup Linking) : pc' = [pc EXCEPT ![t] = to]
    BY QuietMoves
  <1>2. \A u \in Threads : pc'[u] = IF u = t THEN to ELSE pc[u]
    BY <1>1 DEF EntryTypes
  <1> QED
    BY <1>2, QuietMoves, QuietEntries DEF Quiet
-----------------------------------------------------------------------------

(* The types and the locks after a quiet step.                             *)
LEMMA QuietTypes ==
    ASSUME EntryInv, NEW t \in Threads, QuietStep(t)
    PROVE  EntryTypes'
  <1> USE DEF EntryInv, EntryTypes
  <1>1. PICK to \in Points \ ({"lock"} \cup Linking) : pc' = [pc EXCEPT ![t] = to]
    BY QuietMoves
  <1>2. /\ pc' \in [Threads -> Points]
        /\ \A u \in Threads : pc'[u] = IF u = t THEN to ELSE pc[u]
    BY <1>1
  <1>3. /\ DOMAIN states' \subseteq Files
        /\ \A f \in DOMAIN states' : states'[f] \in States
    BY QuietEntries
  <1>4. /\ \A u \in Threads \ {t} :
             file'[u] = file[u] /\ todo'[u] = todo[u] /\ copy'[u] = copy[u]
        /\ UNCHANGED <<tracked, disk, shard>>
    BY QuietMoves
  <1>5. /\ file' \in [Threads -> Files \cup {None}]
        /\ copy' \in [Threads -> Texts \cup {None}]
        /\ to \in Tracks => file'[t] \in Files /\ copy'[t] \in Texts
        /\ to = "mark" => file'[t] \in Files
    <2>1. CASE \E f \in Files : Track(t, f) \/ Queue(t, f)
      <3>1. /\ \E f \in Files : file' = [file EXCEPT ![t] = f]
            /\ copy' = copy \/ \E text \in Texts : copy' = [copy EXCEPT ![t] = text]
            /\ pc'[t] \in Tracks => \E text \in Texts : copy' = [copy EXCEPT ![t] = text]
        <4>1. pc'[t] = "mark" \/ \E f \in Files : Track(t, f)
          BY <1>1, <1>2, <2>1 DEF Queue, Call
        <4>2. "mark" \notin Tracks
          BY DEF Tracks, Linking
        <4> QED
          BY <2>1, <4>1, <4>2 DEF Track, Queue
      <3>2. file' \in [Threads -> Files \cup {None}] /\ file'[t] \in Files
        BY <3>1
      <3>3. copy' \in [Threads -> Texts \cup {None}]
        BY <3>1
      <3>4. pc'[t] \in Tracks => copy'[t] \in Texts
        BY <3>1
      <3> QED
        BY <1>2, <3>2, <3>3, <3>4
    <2>2. CASE NoEntry(t) \/ Link(t)
      <3>1. pc[t] \in Tracks /\ pc'[t] # "mark" /\ (Link(t) => pc'[t] \notin Tracks)
        BY <1>2, <2>2 DEF NoEntry, Link, Goto, Tracks, Linking
      <3>2. \/ file' = file /\ copy' = copy
            \/ /\ Link(t)
               /\ file' = [file EXCEPT ![t] = None]
               /\ copy' = [copy EXCEPT ![t] = None]
        BY <2>2 DEF NoEntry, Link, threadVars
      <3> QED
        BY <1>2, <3>1, <3>2
    <2>3. CASE MarkQueued(t) \/ FindChanged(t)
      <3>1. pc'[t] \notin Tracks /\ copy' = copy /\ (MarkQueued(t) => pc'[t] # "mark")
        BY <1>2, <2>3 DEF MarkQueued, FindChanged, Goto, Tracks, Linking
      <3>2. \/ MarkQueued(t) /\ file' = [file EXCEPT ![t] = None]
            \/ \E f \in Files : file' = [file EXCEPT ![t] = f]
        BY <2>3 DEF MarkQueued, FindChanged
      <3> QED
        BY <1>2, <3>1, <3>2
    <2>4. CASE \/ Check(t) \/ GetBatch(t) \/ Clear(t) \/ Analyze(t)
               \/ EnterShard(t) \/ FindUnchanged(t) \/ NextShard(t)
               \/ NothingChanged(t) \/ TakeTask(t) \/ MarkInProgress(t)
               \/ CompleteAnalysis(t) \/ MarkAnalysisFailed(t) \/ ClearOthers(t)
      <3>1. file' = file /\ copy' = copy
        BY <2>4 DEF Check, GetBatch, Clear, Analyze, EnterShard, FindUnchanged, NextShard,
                    NothingChanged, TakeTask, MarkInProgress, CompleteAnalysis,
                    MarkAnalysisFailed, Report, ClearOthers, threadVars
      <3>2. pc'[t] \notin Tracks \cup {"mark"}
        BY <1>2, <2>4 DEF Check, GetBatch, Clear, Analyze, EnterShard, FindUnchanged, NextShard,
                    NothingChanged, TakeTask, MarkInProgress, CompleteAnalysis,
                    MarkAnalysisFailed, Report, ClearOthers, Call, Goto, Tracks, Linking
      <3> QED
        BY <1>2, <3>1, <3>2
    <2> QED
      BY <2>1, <2>2, <2>3, <2>4 DEF QuietStep
  <1>6. /\ todo' \in [Threads -> SUBSET Files]
        /\ left' \in [Threads -> SUBSET Shards]
        /\ holder' \in [Shards -> Threads \cup {None}]
    <2>1. CASE EnterShard(t) \/ NextShard(t) \/ NothingChanged(t)
      <3>1. /\ todo' = todo \/ \E s : todo' = [todo EXCEPT ![t] = EntriesIn(s)]
            /\ left' = left \/ left' = [left EXCEPT ![t] = Following(t)]
                            \/ left' = [left EXCEPT ![t] = {}]
            /\ \E u, v \in Threads \cup {None}, s \in {Min(left[t]), Min(Following(t))} :
                  \/ holder' = [holder EXCEPT ![s] = u]
                  \/ holder' = [holder EXCEPT ![Min(left[t])] = u, ![s] = v]
        BY <2>1 DEF EnterShard, NextShard, NothingChanged
      <3>2. todo' \in [Threads -> SUBSET Files]
        <4>1. \A s : EntriesIn(s) \in SUBSET Files
          BY DEF EntriesIn
        <4> QED
          BY <3>1, <4>1
      <3>3. left' \in [Threads -> SUBSET Shards]
        BY <3>1 DEF Following
      <3>4. holder' \in [Shards -> Threads \cup {None}]
        BY <3>1
      <3> QED
        BY <3>2, <3>3, <3>4
    <2>2. CASE FindUnchanged(t) \/ Check(t) \/ Clear(t)
      <3>1. /\ todo' = todo \/ \E f \in todo[t] : todo' = [todo EXCEPT ![t] = @ \ {f}]
            /\ left' = left \/ left' = [left EXCEPT ![t] = Shards]
            /\ holder' = holder
        BY <2>2 DEF FindUnchanged, Check, Clear
      <3> QED
        BY <3>1
    <2>3. CASE ~( \/ EnterShard(t) \/ NextShard(t) \/ NothingChanged(t)
                  \/ FindUnchanged(t) \/ Check(t) \/ Clear(t))
      <3>1. UNCHANGED <<todo, left, holder>>
        BY <2>3 DEF QuietStep, Track, Queue, GetBatch, Analyze, NoEntry, Link, FindChanged,
           MarkQueued, TakeTask, MarkInProgress, CompleteAnalysis,
           MarkAnalysisFailed, Report, ClearOthers, threadVars
      <3> QED
        BY <3>1
    <2> QED
      BY <2>1, <2>2, <2>3
  <1> QED
    BY <1>2, <1>3, <1>4, <1>5, <1>6

(* A thread that leaves a shard gives up its own lock, and one that enters *)
(* takes a lock that nobody has.                                           *)
LEMMA QuietLocks ==
    ASSUME EntryInv, NEW t \in Threads, QuietStep(t)
    PROVE  Locks'
  <1> USE NoneAssumption DEF EntryInv, EntryTypes
  <1>1. PICK to \in Points \ ({"lock"} \cup Linking) : pc' = [pc EXCEPT ![t] = to]
    BY QuietMoves
  <1>2. /\ pc[t] \notin Linking
        /\ \A u \in Threads : pc'[u] = IF u = t THEN to ELSE pc[u]
        /\ \A u \in Threads \ {t} : file'[u] = file[u]
        /\ shard' = shard
    BY <1>1, QuietMoves
  <1>3. DOMAIN states' = DOMAIN states
    BY QuietEntries
  <1>4. \A u \in Threads \ {t} : left'[u] = left[u]
    BY DEF QuietStep, Track, Queue, Check, GetBatch, Clear, Analyze, NoEntry, Link, EnterShard,
           FindUnchanged, FindChanged, NextShard, NothingChanged, MarkQueued, TakeTask,
           MarkInProgress, CompleteAnalysis, MarkAnalysisFailed, Report, ClearOthers, threadVars
  <1>5. \A s \in Shards, u \in Threads \ {t} : holder[s] = u => holder'[s] = u
    <2>1. CASE EnterShard(t)
      BY <2>1 DEF EnterShard
    <2>2. CASE NextShard(t) \/ NothingChanged(t)
      BY <2>2 DEF NextShard, NothingChanged, Goto, Locks
    <2>3. CASE ~EnterShard(t) /\ ~NextShard(t) /\ ~NothingChanged(t)
      BY <2>3 DEF QuietStep, Track, Queue, Check, GetBatch, Clear, Analyze, NoEntry, Link,
           FindUnchanged, FindChanged, MarkQueued, TakeTask,
           MarkInProgress, CompleteAnalysis, MarkAnalysisFailed, Report, ClearOthers
    <2> QED
      BY <2>1, <2>2, <2>3
  <1>6. \A u \in Threads : left[u] # {} => Min(left[u]) \in Shards
    BY MinShard
  <1>7. \A u \in Threads \ {t} :
          /\ pc'[u] \in Linking => file'[u] \in DOMAIN states' /\ holder'[shard'[file'[u]]] = u
          /\ pc'[u] = "compare" => left'[u] # {} /\ holder'[Min(left'[u])] = u
    BY <1>2, <1>3, <1>4, <1>5, <1>6 DEF Locks
  <1>8. to = "compare" => left'[t] # {} /\ holder'[Min(left'[t])] = t
    <2>1. CASE EnterShard(t)
      BY <1>6, <2>1 DEF EnterShard
    <2>2. CASE FindUnchanged(t)
      BY <2>2 DEF FindUnchanged, Locks
    <2>3. CASE NextShard(t)
      <3>1. left'[t] = Following(t) /\ Following(t) \in SUBSET Shards /\ Following(t) # {}
        BY <2>3 DEF NextShard, Following
      <3>2. Min(Following(t)) \in Shards
        BY <3>1, MinShard
      <3> QED
        BY <2>3, <3>1, <3>2 DEF NextShard
    <2>4. CASE ~EnterShard(t) /\ ~FindUnchanged(t) /\ ~NextShard(t)
      <3>1. pc'[t] # "compare"
        BY <1>2, <2>4
        DEF QuietStep, Track, Queue, Check, GetBatch, Clear, Analyze, NoEntry, Link,
           FindChanged, NothingChanged, MarkQueued, TakeTask, MarkInProgress,
           CompleteAnalysis, MarkAnalysisFailed, Report, ClearOthers, Call, Goto
      <3> QED
        BY <1>2, <3>1
    <2> QED
      BY <2>1, <2>2, <2>3, <2>4
  <1> QED
    BY <1>2, <1>7, <1>8 DEF Locks

(* track_file at its entry, and clear.                                     *)
EntryStep(t) ==
    \/ InsertState(t) \/ LockEntry(t) \/ Detach(t) \/ SetDependencies(t)
    \/ Attach(t) \/ UnlockEntry(t) \/ ClearShard(t)

(* The steps on one entry keep the types.                                  *)
LEMMA EntryStepTypes ==
    ASSUME EntryInv, NEW t \in Threads, EntryStep(t)
    PROVE  EntryTypes'
  <1> USE DEF EntryInv, EntryTypes
  <1>1. CASE InsertState(t)
    <2>1. file[t] \in Files /\ copy[t] \in Texts
      BY <1>1 DEF InsertState, Goto, Tracks
    <2>2. NewState(copy[t]) \in States
      BY <2>1 DEF NewState, States, Texts, Statuses
    <2>3. /\ DOMAIN states' = DOMAIN states \cup {file[t]}
          /\ \A f \in DOMAIN states' : states'[f] \in States
      <3> DEFINE e == NewState(copy[t])
      <3>1. states' = Put(states, file[t], e)
        BY <1>1 DEF InsertState
      <3>2. e \in States
        BY <2>2
      <3> HIDE DEF e
      <3> QED
        BY <2>1, <3>1, <3>2 DEF Put
    <2>4. tracked' \in Seq(Files)
      BY <1>1, <2>1 DEF InsertState
    <2>5. pc' \in [Threads -> Points]
      BY <1>1 DEF InsertState, Goto, Points, Taking, Analyzing
    <2>6. \A u \in Threads : pc'[u] \in Tracks => pc[u] \in Tracks
      BY <1>1 DEF InsertState, Goto, Tracks
    <2>7. \A u \in Threads : pc'[u] = "mark" => pc[u] = "mark"
      BY <1>1 DEF InsertState, Goto
    <2> QED
      BY <1>1, <2>1, <2>3, <2>4, <2>5, <2>6, <2>7 DEF InsertState, threadVars
  <1>2. CASE LockEntry(t)
    <2>1. file[t] \in Files /\ states[file[t]].dependencies \in SUBSET Files
      BY <1>2 DEF LockEntry, States
    <2>2. pc' \in [Threads -> Points]
      BY <1>2 DEF LockEntry, Goto, Points
    <2>3. \A u \in Threads : pc'[u] \in Tracks => pc[u] \in Tracks
      BY <1>2 DEF LockEntry, Goto, Tracks
    <2>4. \A u \in Threads : pc'[u] = "mark" => pc[u] = "mark"
      BY <1>2 DEF LockEntry, Goto
    <2> QED
      BY <1>2, <2>1, <2>2, <2>3, <2>4 DEF LockEntry, mapVars, historyVars
  <1>3. CASE Detach(t)
    <2>1. PICK d \in todo[t] :
            /\ states' = IF d \in DOMAIN states
                         THEN [states EXCEPT ![d].dependents = @ \ {file[t]}]
                         ELSE states
            /\ todo' = [todo EXCEPT ![t] = @ \ {d}]
      BY <1>3 DEF Detach
    <2>2. DOMAIN states' = DOMAIN states /\ \A f \in DOMAIN states' : states'[f] \in States
      BY <2>1 DEF States
    <2> QED
      BY <1>3, <2>1, <2>2 DEF Detach, historyVars
  <1>4. CASE SetDependencies(t)
    <2>1. file[t] \in DOMAIN states /\ copy[t].imports \in SUBSET Files
      BY <1>4 DEF SetDependencies, Goto, Locks, Linking, Tracks, Texts
    <2>2. DOMAIN states' = DOMAIN states /\ \A f \in DOMAIN states' : states'[f] \in States
      BY <1>4, <2>1, ZenonT(30) DEF SetDependencies, States
    <2>3. pc' \in [Threads -> Points]
      BY <1>4 DEF SetDependencies, Goto, Points
    <2>4. \A u \in Threads : pc'[u] \in Tracks => pc[u] \in Tracks
      BY <1>4 DEF SetDependencies, Goto, Tracks, Linking
    <2>5. \A u \in Threads : pc'[u] = "mark" => pc[u] = "mark"
      BY <1>4 DEF SetDependencies, Goto
    <2> QED
      BY <1>4, <2>1, <2>2, <2>3, <2>4, <2>5 DEF SetDependencies, historyVars
  <1>5. CASE Attach(t)
    <2>1. PICK d \in todo[t] :
            /\ states' = IF d \in DOMAIN states
                         THEN [states EXCEPT ![d].dependents = @ \cup {file[t]}]
                         ELSE states
            /\ todo' = [todo EXCEPT ![t] = @ \ {d}]
      BY <1>5 DEF Attach
    <2>2. file[t] \in Files
      BY <1>5 DEF Attach, Locks, Linking
    <2>3. DOMAIN states' = DOMAIN states /\ \A f \in DOMAIN states' : states'[f] \in States
      BY <2>1, <2>2, ZenonT(30) DEF States
    <2> QED
      BY <1>5, <2>1, <2>3 DEF Attach, historyVars
  <1>6. CASE UnlockEntry(t)
    <2>1. pc' \in [Threads -> Points]
      BY <1>6 DEF UnlockEntry, Goto, Points
    <2>2. \A u \in Threads : pc'[u] \in Tracks => pc[u] \in Tracks
      BY <1>6 DEF UnlockEntry, Goto, Tracks, Linking
    <2>3. \A u \in Threads : pc'[u] = "mark" => pc[u] = "mark"
      BY <1>6 DEF UnlockEntry, Goto
    <2> QED
      BY <1>6, <2>1, <2>2, <2>3 DEF UnlockEntry, mapVars, threadVars, historyVars
  <1>7. CASE ClearShard(t)
    <2>1. /\ DOMAIN states' \subseteq DOMAIN states
          /\ \A f \in DOMAIN states' : states'[f] = states[f]
      BY <1>7 DEF ClearShard, Restrict
    <2>2. left' \in [Threads -> SUBSET Shards]
      BY <1>7 DEF ClearShard
    <2> QED
      BY <1>7, <2>1, <2>2 DEF ClearShard, historyVars
  <1> QED
    BY <1>1, <1>2, <1>3, <1>4, <1>5, <1>6, <1>7 DEF EntryStep

(* The locks after such a step.                                            *)
LEMMA EntryStepLocks ==
    ASSUME EntryInv, NEW t \in Threads, EntryStep(t)
    PROVE  Locks'
  <1> USE NoneAssumption DEF EntryInv, EntryTypes
  <1>0. ASSUME UNCHANGED <<shard, file>>,
               \A u \in Threads \ {t} : left'[u] = left[u],
               \A u \in Threads \ {t} : pc'[u] = pc[u],
               \A u \in Threads \ {t}, s \in Shards : holder[s] = u => holder'[s] = u,
               \A f \in DOMAIN states : f \in DOMAIN states' \/ holder[shard[f]] = None,
               pc'[t] \in Linking => file[t] \in DOMAIN states' /\ holder'[shard[file[t]]] = t,
               pc'[t] # "compare"
        PROVE  Locks'
    <2>1. \A u \in Threads : left[u] # {} => Min(left[u]) \in Shards
      BY MinShard
    <2>2. \A u \in Threads \ {t} :
             /\ pc'[u] \in Linking => file'[u] \in DOMAIN states' /\ holder'[shard'[file'[u]]] = u
             /\ pc'[u] = "compare" => left'[u] # {} /\ holder'[Min(left'[u])] = u
      BY <1>0, <2>1 DEF Locks
    <2> QED
      BY <1>0, <2>2 DEF Locks
  <1>1. CASE InsertState(t)
    <2>1. DOMAIN states' = DOMAIN states \cup {file[t]}
      BY <1>1 DEF InsertState, Put
    <2> QED
      BY <1>0, <1>1, <2>1 DEF InsertState, Goto, threadVars, Linking
  <1>2. CASE LockEntry(t)
    BY <1>0, <1>2 DEF LockEntry, Goto, Free, mapVars
  <1>3. CASE Detach(t)
    <2>1. DOMAIN states' = DOMAIN states
      BY <1>3 DEF Detach
    <2>2. file[t] \in DOMAIN states /\ holder[shard[file[t]]] = t
      BY <1>3 DEF Detach, Locks, Linking
    <2> QED
      BY <1>0, <1>3, <2>1, <2>2 DEF Detach
  <1>4. CASE SetDependencies(t)
    <2>1. file[t] \in DOMAIN states /\ holder[shard[file[t]]] = t
      BY <1>4 DEF SetDependencies, Goto, Locks, Linking
    <2> QED
      BY <1>0, <1>4, <2>1 DEF SetDependencies, Goto
  <1>5. CASE Attach(t)
    <2>1. DOMAIN states' = DOMAIN states
      BY <1>5 DEF Attach
    <2>2. file[t] \in DOMAIN states /\ holder[shard[file[t]]] = t
      BY <1>5 DEF Attach, Locks, Linking
    <2> QED
      BY <1>0, <1>5, <2>1, <2>2 DEF Attach
  <1>6. CASE UnlockEntry(t)
    <2>1. file[t] \in DOMAIN states /\ holder[shard[file[t]]] = t
      BY <1>6 DEF UnlockEntry, Goto, Locks, Linking
    <2> QED
      BY <1>0, <1>6, <2>1 DEF UnlockEntry, Goto, mapVars, threadVars, Linking
  <1>7. CASE ClearShard(t)
    <2>1. \A f \in DOMAIN states : f \in DOMAIN states' \/ holder[shard[f]] = None
      BY <1>7 DEF ClearShard, Restrict
    <2> QED
      BY <1>0, <1>7, <2>1 DEF ClearShard, Linking
  <1> QED
    BY <1>1, <1>2, <1>3, <1>4, <1>5, <1>6, <1>7 DEF EntryStep

(* At first there are no entries and no calls.                             *)
LEMMA EntryInit == Init => EntryInv
  <1> SUFFICES ASSUME Init PROVE EntryInv
    OBVIOUS
  <1>1. disk \in [Files -> Texts]
    BY ImportsAssumption DEF Init, Texts
  <1>2. shard \in [Files -> Shards]
    BY ShardsAssumption DEF Init
  <1>3. DOMAIN states = {}
    BY DEF Init
  <1> QED
    BY <1>1, <1>2, <1>3 DEF Init, EntryInv, EntryTypes, Locks, Points, Tracks, Linking

(* A thread's steps are the quiet ones and those at an entry.              *)
LEMMA StepKinds ==
    ASSUME NEW t \in Threads, Begin(t) \/ Step(t)
    PROVE  QuietStep(t) \/ EntryStep(t)
  BY DEF Begin, Step, QuietStep, EntryStep

(* The entries stay well formed and the locks exclusive.                   *)
LEMMA EntryInvariance == Spec => []EntryInv
  <1>1. EntryInv /\ [Next]_vars => EntryInv'
    <2> SUFFICES ASSUME EntryInv, [Next]_vars PROVE EntryInv'
      OBVIOUS
    <2>1. CASE \E f \in Files : Write(f)
      <3>1. disk' \in [Files -> Texts]
        BY <2>1, ImportsAssumption DEF Write, EntryInv, EntryTypes, Texts
      <3>2. UNCHANGED <<shard, states, holder, pc, file, copy, todo, left, tracked>>
        BY <2>1 DEF Write, mapVars, threadVars, historyVars
      <3> QED
        BY <3>1, <3>2 DEF EntryInv, EntryTypes, Locks
    <2>2. CASE \E t \in Threads : Begin(t) \/ Step(t)
      BY <2>2, StepKinds, QuietTypes, QuietLocks, EntryStepTypes, EntryStepLocks DEF EntryInv
    <2>3. CASE UNCHANGED vars
      BY <2>3 DEF vars, mapVars, threadVars, historyVars, EntryInv, EntryTypes, Locks
    <2> QED
      BY <2>1, <2>2, <2>3 DEF Next
  <1> QED
    BY EntryInit, <1>1, PTL DEF Spec
-----------------------------------------------------------------------------
(* When files were tracked.                                                *)

Places(f) == {i \in DOMAIN tracked : tracked[i] = f}

(* The last time is one of the times a file was tracked.                   *)
LEMMA LastIsPlace ==
    ASSUME tracked \in Seq(Files), NEW f
    PROVE  /\ LastTracked(f) \in 0 .. Len(tracked)
           /\ f \in ToSet(tracked) => LastTracked(f) \in Places(f)
           /\ f \in ToSet(tracked) <=> Places(f) # {}
  <1>1. DOMAIN tracked = 1 .. Len(tracked) /\ Len(tracked) \in Nat
    OBVIOUS
  <1>2. f \in ToSet(tracked) <=> Places(f) # {}
    BY DEF ToSet, Places
  <1>3. CASE f \in ToSet(tracked)
    <2> DEFINE Ends == {Len(tracked) - i : i \in Places(f)}
    <2>1. Ends \in SUBSET Nat /\ Ends # {}
      BY <1>1, <1>2, <1>3 DEF Places
    <2>2. PICK e \in Ends : \A d \in Ends : e <= d
      <3> HIDE DEF Ends
      <3> QED
        BY <2>1, LeastNatural
    <2>3. PICK i \in Places(f) : e = Len(tracked) - i
      BY <2>2
    <2>4. ASSUME NEW j \in Places(f) PROVE i >= j
      <3>1. Len(tracked) - j \in Ends
        OBVIOUS
      <3>2. e <= Len(tracked) - j
        <4> HIDE DEF Ends
        <4> QED
          BY <2>2, <3>1
      <3> QED
        BY <1>1, <2>3, <3>2 DEF Places
    <2>5. Max(Places(f)) \in Places(f)
      BY <2>3, <2>4 DEF Max
    <2>6. LastTracked(f) = Max(Places(f))
      BY <1>3 DEF LastTracked, Places
    <2> QED
      BY <1>1, <1>2, <2>5, <2>6 DEF Places
  <1>4. CASE f \notin ToSet(tracked)
    BY <1>1, <1>2, <1>4 DEF LastTracked
  <1> QED
    BY <1>2, <1>3, <1>4

(* Tracking a file makes it the last one tracked, and changes nothing for  *)
(* the others.                                                             *)
LEMMA TrackedAfter ==
    ASSUME tracked \in Seq(Files), NEW g \in Files, tracked' = Append(tracked, g)
    PROVE  /\ \A f : f # g => /\ LastTracked(f)' = LastTracked(f)
                              /\ TrackedOnce(f)' <=> TrackedOnce(f)
                              /\ f \in ToSet(tracked)' <=> f \in ToSet(tracked)
           /\ \A f : f # g => LastTracked(f)' < LastTracked(g)' /\ LastTracked(f)' \in Nat
           /\ LastTracked(g)' \in Nat
           /\ TrackedOnce(g)' => g \notin ToSet(tracked)
           /\ g \in ToSet(tracked)'
  <1>1. /\ DOMAIN tracked = 1 .. Len(tracked) /\ Len(tracked) \in Nat
        /\ DOMAIN tracked' = 1 .. Len(tracked) + 1
        /\ tracked'[Len(tracked) + 1] = g
        /\ \A i \in 1 .. Len(tracked) : tracked'[i] = tracked[i]
        /\ tracked' \in Seq(Files) /\ Len(tracked') = Len(tracked) + 1
    OBVIOUS
  <1>2. \A f : f # g => Places(f)' = Places(f)
    BY <1>1 DEF Places
  <1>3. Places(g)' = Places(g) \cup {Len(tracked) + 1} /\ Len(tracked) + 1 \notin Places(g)
    BY <1>1 DEF Places
  <1>4. \A f : f \in ToSet(tracked)' <=> Places(f)' # {}
    BY DEF ToSet, Places
  <1>5. \A f : f \in ToSet(tracked) <=> Places(f) # {}
    BY DEF ToSet, Places
  <1>6. ASSUME NEW f, f # g
        PROVE  /\ LastTracked(f)' = LastTracked(f)
               /\ TrackedOnce(f)' <=> TrackedOnce(f)
               /\ f \in ToSet(tracked)' <=> f \in ToSet(tracked)
    <2>1. f \in ToSet(tracked)' <=> f \in ToSet(tracked)
      BY <1>2, <1>4, <1>5, <1>6
    <2>2. LastTracked(f)' = IF f \in ToSet(tracked)' THEN Max(Places(f)') ELSE 0
      BY DEF LastTracked, Places
    <2>3. LastTracked(f) = IF f \in ToSet(tracked) THEN Max(Places(f)) ELSE 0
      BY DEF LastTracked, Places
    <2>4. Places(f)' = Places(f)
      BY <1>2, <1>6
    <2>5. LastTracked(f)' = LastTracked(f)
      BY <2>1, <2>2, <2>3, <2>4
    <2>6. (TrackedOnce(f)' <=> Cardinality(Places(f)') = 1)
          /\ (TrackedOnce(f) <=> Cardinality(Places(f)) = 1)
      BY DEF TrackedOnce, Places
    <2> QED
      BY <2>1, <2>4, <2>5, <2>6
  <1>7. LastTracked(g)' = Len(tracked) + 1
    <2>1. g \in ToSet(tracked)'
      BY <1>3, <1>4
    <2>2. LastTracked(g)' = Max(Places(g)')
      BY <2>1 DEF LastTracked, Places
    <2>3. \A i \in Places(g)' : i \in Int /\ i <= Len(tracked) + 1
      BY <1>1 DEF Places
    <2>4. Len(tracked) + 1 \in Places(g)'
      BY <1>3
    <2> QED
      BY <1>1, <2>2, <2>3, <2>4 DEF Max
  <1>8. ASSUME TrackedOnce(g)' PROVE Places(g) = {}
    <2>1. Cardinality(Places(g)') = 1
      BY <1>8 DEF TrackedOnce, Places
    <2>2. IsFiniteSet(Places(g))
      <3>1. IsFiniteSet(1 .. Len(tracked)) /\ Places(g) \in SUBSET (1 .. Len(tracked))
        BY <1>1, FS_Interval DEF Places
      <3> QED
        BY <3>1, FS_Subset, Zenon
    <2>3. Cardinality(Places(g)') = Cardinality(Places(g)) + 1
      BY <1>3, <2>2, FS_AddElement, Zenon
    <2>4. Cardinality(Places(g)) = 0
      BY <2>1, <2>2, <2>3, FS_CardinalityType
    <2> QED
      BY <2>2, <2>4, FS_EmptySet, Zenon
  <1>9. /\ \A f : f # g => LastTracked(f)' < LastTracked(g)' /\ LastTracked(f)' \in Nat
        /\ LastTracked(g)' \in Nat
    BY <1>1, <1>6, <1>7, LastIsPlace
  <1> QED
    BY <1>3, <1>4, <1>5, <1>6, <1>8, <1>9

-----------------------------------------------------------------------------
(* An edge to a file tracked before is drawn, or about to be drawn by the  *)
(* thread that holds the entry it leads from.                              *)
AboutToDraw(a, b) ==
    \E t \in Threads : /\ file[t] = a
                       /\ \/ pc[t] = "detach"
                          \/ pc[t] = "attach" /\ b \in todo[t]

Drawn ==
    \A a, b \in DOMAIN states :
        b \in states[a].dependencies /\ LastTracked(b) < LastTracked(a) =>
            a \in states[b].dependents \/ AboutToDraw(a, b)

(* A file nobody has tracked is nowhere; one tracked only once has a       *)
(* single thread at work on its entry, and no dependents of others before  *)
(* its dependencies are set.                                               *)
AtWork(t, a) == file[t] = a /\ pc[t] \in {"lock"} \cup Linking

NotDependent(a) == \A b \in DOMAIN states : a \notin states[b].dependents

Untracked ==
    \A a : a \notin ToSet(tracked) =>
        /\ a \notin DOMAIN states /\ NotDependent(a)
        /\ \A t \in Threads : ~AtWork(t, a)

Once ==
    \A a : TrackedOnce(a) =>
        /\ \A t, u \in Threads : AtWork(t, a) /\ AtWork(u, a) => t = u
        /\ \A t \in Threads : AtWork(t, a) /\ pc[t] # "attach" => NotDependent(a)
        /\ a \in DOMAIN states =>
             \A b \in DOMAIN states :
                a \in states[b].dependents => b \in states[a].dependencies

(* What is still to be linked is a dependency.                             *)
LeftToLink ==
    \A t \in Threads : pc[t] = "attach" => todo[t] \subseteq states[file[t]].dependencies

EdgesInv == Drawn /\ Untracked /\ Once /\ LeftToLink

(* Quiet steps keep all of that.                                           *)
LEMMA QuietEdges ==
    ASSUME EntryInv, EdgesInv, Quiet
    PROVE  EdgesInv'
  <1>1. \A f : /\ LastTracked(f)' = LastTracked(f)
               /\ TrackedOnce(f)' = TrackedOnce(f)
               /\ f \in ToSet(tracked)' <=> f \in ToSet(tracked)
    BY DEF Quiet, LastTracked, TrackedOnce
  <1>2. \A a : NotDependent(a)' <=> NotDependent(a)
    BY DEF Quiet, NotDependent
  <1>3. \A t \in Threads : \A a : AtWork(t, a)' => AtWork(t, a) /\ pc'[t] = pc[t]
    BY DEF Quiet, AtWork
  <1>4. \A a, b : AboutToDraw(a, b) => AboutToDraw(a, b)'
    <2> SUFFICES ASSUME NEW t \in Threads, NEW b,
                        pc[t] = "detach" \/ (pc[t] = "attach" /\ b \in todo[t])
                 PROVE  pc'[t] = pc[t] /\ file'[t] = file[t] /\ todo'[t] = todo[t]
      BY DEF AboutToDraw
    <2> QED
      BY DEF Quiet, Linking
  <1>5. Drawn'
    BY <1>1, <1>4 DEF EdgesInv, Drawn, Quiet
  <1>6. Untracked'
    BY <1>1, <1>2, <1>3 DEF EdgesInv, Untracked, Quiet
  <1>7. Once'
    BY <1>1, <1>2, <1>3 DEF EdgesInv, Once, Quiet
  <1>8. LeftToLink'
    <2> SUFFICES ASSUME NEW t \in Threads, pc'[t] = "attach"
                 PROVE  todo'[t] \subseteq states'[file'[t]].dependencies
      BY DEF LeftToLink
    <2>1. pc[t] = "attach" /\ file'[t] = file[t] /\ todo'[t] = todo[t]
      BY DEF Quiet, Linking
    <2>2. file[t] \in DOMAIN states
      BY <2>1 DEF EntryInv, Locks, Linking
    <2> QED
      BY <2>1, <2>2 DEF EdgesInv, LeftToLink, Quiet
  <1> QED
    BY <1>5, <1>6, <1>7, <1>8 DEF EdgesInv

(* A thread at work on an entry holds it: only one does, and while it does *)
(* nobody inserts or removes the entry.                                    *)
LEMMA OneLinks ==
    ASSUME EntryInv, NEW t \in Threads, pc[t] \in Linking
    PROVE  /\ ~Free(file[t]) /\ file[t] \in DOMAIN states
           /\ \A u \in Threads : pc[u] \in Linking /\ file[u] = file[t] => u = t
  BY NoneAssumption DEF EntryInv, Locks, Free

(* Steps that track no file.                                               *)
LEMMA SameTracked ==
    ASSUME tracked' = tracked
    PROVE  \A f : /\ LastTracked(f)' = LastTracked(f)
                  /\ TrackedOnce(f)' <=> TrackedOnce(f)
                  /\ f \in ToSet(tracked)' <=> f \in ToSet(tracked)
  BY DEF LastTracked, TrackedOnce

(* A new entry has no edges, and its file is the last one tracked.         *)
LEMMA EdgesInsert ==
    ASSUME EntryInv, EdgesInv, NEW t \in Threads, InsertState(t)
    PROVE  EdgesInv'
  <1>0. PICK f \in Files : f = file[t]
    BY DEF EntryInv, EntryTypes, Tracks, Linking, InsertState, Goto
  <1>1. /\ f \in Files /\ Free(f)
        /\ pc[t] = "insert"
        /\ \A u \in Threads : pc'[u] = IF u = t THEN "lock" ELSE pc[u]
        /\ file' = file /\ todo' = todo
    BY <1>0 DEF InsertState, Goto, EntryInv, EntryTypes, Tracks, threadVars
  <1>2. /\ \A g : g # f => /\ LastTracked(g)' = LastTracked(g)
                           /\ TrackedOnce(g)' <=> TrackedOnce(g)
                           /\ g \in ToSet(tracked)' <=> g \in ToSet(tracked)
        /\ \A g : g # f => LastTracked(g)' < LastTracked(f)' /\ LastTracked(g)' \in Nat
        /\ LastTracked(f)' \in Nat
        /\ TrackedOnce(f)' => f \notin ToSet(tracked)
        /\ f \in ToSet(tracked)'
    <2>1. tracked \in Seq(Files) /\ tracked' = Append(tracked, f)
      BY <1>0 DEF EntryInv, EntryTypes, InsertState
    <2> QED
      BY <1>0, <2>1, TrackedAfter
  <1>3. /\ DOMAIN states' = DOMAIN states \cup {f}
        /\ states'[f].dependencies = {} /\ states'[f].dependents = {}
        /\ \A g \in DOMAIN states : g # f => states'[g] = states[g]
    <2>1. PICK e : e = NewState(copy[t])
      OBVIOUS
    <2>2. e.dependencies = {} /\ e.dependents = {}
      BY <1>0, <2>1 DEF NewState
    <2>3. states' = Put(states, f, e)
      BY <1>0, <2>1 DEF InsertState
    <2>4. /\ DOMAIN Put(states, f, e) = DOMAIN states \cup {f}
          /\ Put(states, f, e)[f] = e
          /\ \A g \in DOMAIN states : g # f => Put(states, f, e)[g] = states[g]
      BY DEF Put
    <2> QED
      BY <2>2, <2>3, <2>4
  <1>4. \A u \in Threads : \A a : AtWork(u, a)' =>
          (u = t /\ a = f /\ pc'[u] # "attach") \/ (AtWork(u, a) /\ u # t /\ pc'[u] = pc[u])
    BY <1>0, <1>1 DEF AtWork, Linking
  <1>5. \A a : NotDependent(a) => NotDependent(a)'
    BY <1>0, <1>3 DEF NotDependent
  <1>6. Drawn'
    <2> SUFFICES ASSUME NEW a \in DOMAIN states', NEW b \in DOMAIN states',
                        b \in states'[a].dependencies, LastTracked(b)' < LastTracked(a)'
                 PROVE  a \in states'[b].dependents \/ AboutToDraw(a, b)'
      BY <1>0 DEF Drawn
    <2>1. a # f
      BY <1>0, <1>3
    <2>2. b # f
      <3> SUFFICES ASSUME b = f PROVE FALSE
        OBVIOUS
      <3>1. LastTracked(a)' < LastTracked(b)'
        BY <1>0, <1>2, <2>1
      <3> QED
        BY <1>0, <3>1, <1>2, <2>1
    <2>3. a \in states[b].dependents \/ AboutToDraw(a, b)
      BY <1>0, <1>2, <1>3, <2>1, <2>2 DEF EdgesInv, Drawn
    <2>4. AboutToDraw(a, b) => AboutToDraw(a, b)'
      BY <1>0, <1>1 DEF AboutToDraw
    <2> QED
      BY <1>0, <1>3, <2>1, <2>2, <2>3, <2>4
  <1>7. Untracked'
    BY <1>0, <1>2, <1>3, <1>4, <1>5 DEF EdgesInv, Untracked
  <1>8. Once'
    <2> SUFFICES ASSUME NEW a, TrackedOnce(a)'
                 PROVE  /\ \A u, v \in Threads : AtWork(u, a)' /\ AtWork(v, a)' => u = v
                        /\ \A u \in Threads : AtWork(u, a)' /\ pc'[u] # "attach" => NotDependent(a)'
                        /\ a \in DOMAIN states' =>
                             \A b \in DOMAIN states' :
                                a \in states'[b].dependents => b \in states'[a].dependencies
      BY <1>0 DEF Once
    <2>1. CASE a = f
      <3>1. NotDependent(f)' /\ \A u \in Threads : ~AtWork(u, f)
        BY <1>0, <1>2, <1>5, <2>1 DEF EdgesInv, Untracked
      <3> QED
        BY <1>0, <1>4, <2>1, <3>1 DEF NotDependent
    <2>2. CASE a # f
      BY <1>0, <1>2, <1>3, <1>4, <1>5, <2>2 DEF EdgesInv, Once
    <2> QED
      BY <1>0, <2>1, <2>2
  <1>9. LeftToLink'
    <2> SUFFICES ASSUME NEW u \in Threads, pc'[u] = "attach"
                 PROVE  todo'[u] \subseteq states'[file'[u]].dependencies
      BY <1>0 DEF LeftToLink
    <2>1. pc[u] = "attach"
      BY <1>0, <1>1
    <2>2. file[u] \in DOMAIN states /\ file[u] # f
      BY <1>0, <1>1, <2>1, OneLinks DEF Linking
    <2> QED
      BY <1>0, <1>1, <1>3, <2>1, <2>2 DEF EdgesInv, LeftToLink
  <1> QED
    BY <1>0, <1>6, <1>7, <1>8, <1>9 DEF EdgesInv

(* The lock is taken and given back; the map is cleared.  No edge changes. *)
LEMMA EdgesLock ==
    ASSUME EntryInv, EdgesInv, NEW t \in Threads, LockEntry(t)
    PROVE  EdgesInv'
  <1>1. /\ pc[t] = "lock" /\ \A u \in Threads : pc'[u] = IF u = t THEN "detach" ELSE pc[u]
        /\ UNCHANGED <<states, tracked, file>>
        /\ \A u \in Threads \ {t} : todo'[u] = todo[u]
    BY DEF LockEntry, Goto, EntryInv, EntryTypes, mapVars, historyVars
  <1>2. \A a, b : AboutToDraw(a, b) => AboutToDraw(a, b)'
    BY <1>1 DEF AboutToDraw
  <1>3. \A u \in Threads : \A a : AtWork(u, a)' => AtWork(u, a) /\ (pc'[u] # "attach" => pc[u] # "attach")
    BY <1>1 DEF AtWork, Linking
  <1>4. \A a : NotDependent(a)' <=> NotDependent(a)
    BY <1>1 DEF NotDependent
  <1> QED
    BY <1>1, <1>2, <1>3, <1>4, SameTracked
    DEF EdgesInv, Drawn, Untracked, Once, LeftToLink

(* An entry is given up when everything it imports is attached.            *)
LEMMA EdgesUnlock ==
    ASSUME EntryInv, EdgesInv, NEW t \in Threads, UnlockEntry(t)
    PROVE  EdgesInv'
  <1>1. /\ pc[t] = "attach" /\ todo[t] = {}
        /\ \A u \in Threads : pc'[u] = IF u = t THEN "link" ELSE pc[u]
        /\ UNCHANGED <<states, tracked, file, todo>>
    BY DEF UnlockEntry, Goto, EntryInv, EntryTypes, mapVars, threadVars, historyVars
  <1>2. \A a, b : AboutToDraw(a, b) => AboutToDraw(a, b)'
    BY <1>1 DEF AboutToDraw
  <1>3. \A u \in Threads : \A a : AtWork(u, a)' => AtWork(u, a) /\ (pc'[u] # "attach" => pc[u] # "attach")
    BY <1>1 DEF AtWork, Linking
  <1>4. \A a : NotDependent(a)' <=> NotDependent(a)
    BY <1>1 DEF NotDependent
  <1> QED
    BY <1>1, <1>2, <1>3, <1>4, SameTracked
    DEF EdgesInv, Drawn, Untracked, Once, LeftToLink

(* Clearing a shard draws no edge.                                         *)
LEMMA EdgesClear ==
    ASSUME EntryInv, EntryInv', EdgesInv, NEW t \in Threads, ClearShard(t)
    PROVE  EdgesInv'
  <1>1. UNCHANGED <<pc, tracked, file, todo>>
    BY DEF ClearShard, historyVars
  <1>2. /\ DOMAIN states' \subseteq DOMAIN states
        /\ \A f \in DOMAIN states' : states'[f] = states[f]
    BY DEF ClearShard, Restrict
  <1>3. \A a, b : AboutToDraw(a, b) => AboutToDraw(a, b)'
    BY <1>1 DEF AboutToDraw
  <1>4. \A u \in Threads : \A a : AtWork(u, a)' <=> AtWork(u, a)
    BY <1>1 DEF AtWork
  <1>5. \A a : NotDependent(a) => NotDependent(a)'
    BY <1>2 DEF NotDependent
  <1>6. Drawn'
    BY <1>1, <1>2, <1>3, SameTracked DEF EdgesInv, Drawn
  <1>7. Untracked' /\ Once'
    BY <1>1, <1>2, <1>4, <1>5, SameTracked DEF EdgesInv, Untracked, Once
  <1>8. LeftToLink'
    <2>1. \A u \in Threads : pc'[u] = "attach" => file'[u] \in DOMAIN states'
      BY DEF EntryInv, Locks, Linking
    <2> QED
      BY <1>1, <1>2, <2>1 DEF EdgesInv, LeftToLink
  <1> QED
    BY <1>6, <1>7, <1>8 DEF EdgesInv

(* The thread takes its file from the dependents of the old dependencies.  *)
LEMMA EdgesDetach ==
    ASSUME EntryInv, EdgesInv, NEW t \in Threads, Detach(t)
    PROVE  EdgesInv'
  <1>0. PICK f \in Files : f = file[t]
    BY DEF EntryInv, EntryTypes, Tracks, Linking, Detach
  <1>1. pc[t] = "detach" /\ UNCHANGED <<pc, tracked, file>>
    BY <1>0 DEF Detach, historyVars
  <1>2. PICK d \in todo[t] :
          /\ states' = IF d \in DOMAIN states
                       THEN [states EXCEPT ![d].dependents = @ \ {f}]
                       ELSE states
          /\ todo' = [todo EXCEPT ![t] = @ \ {d}]
    BY <1>0 DEF Detach
  <1>3. /\ DOMAIN states' = DOMAIN states
        /\ \A g \in DOMAIN states :
             /\ states'[g].dependencies = states[g].dependencies
             /\ states'[g].dependents \subseteq states[g].dependents
             /\ \A a : a # f /\ a \in states[g].dependents => a \in states'[g].dependents
    BY <1>0, <1>2 DEF EntryInv, EntryTypes, States
  <1>4. \A u \in Threads \ {t} : todo'[u] = todo[u]
    BY <1>0, <1>2
  <1>5. \A a, b : AboutToDraw(a, b) => AboutToDraw(a, b)'
    BY <1>0, <1>1, <1>4 DEF AboutToDraw
  <1>6. \A b : AboutToDraw(f, b)'
    BY <1>0, <1>1 DEF AboutToDraw
  <1>7. \A u \in Threads : \A a : AtWork(u, a)' <=> AtWork(u, a)
    BY <1>0, <1>1 DEF AtWork
  <1>8. \A a : NotDependent(a) => NotDependent(a)'
    BY <1>0, <1>3 DEF NotDependent
  <1>9. Drawn'
    BY <1>0, <1>1, <1>3, <1>5, <1>6, SameTracked DEF EdgesInv, Drawn
  <1>10. Untracked' /\ Once'
    BY <1>0, <1>1, <1>3, <1>7, <1>8, SameTracked DEF EdgesInv, Untracked, Once
  <1>11. LeftToLink'
    <2> SUFFICES ASSUME NEW u \in Threads, pc'[u] = "attach"
                 PROVE  todo'[u] \subseteq states'[file'[u]].dependencies
      BY <1>0 DEF LeftToLink
    <2>1. u # t /\ pc[u] = "attach"
      BY <1>0, <1>1
    <2>2. file[u] \in DOMAIN states
      BY <1>0, <2>1, OneLinks DEF Linking
    <2> QED
      BY <1>0, <1>1, <1>3, <1>4, <2>1, <2>2 DEF EdgesInv, LeftToLink
  <1> QED
    BY <1>0, <1>9, <1>10, <1>11 DEF EdgesInv

(* The new dependencies are set, all of them still to be linked.           *)
LEMMA EdgesSet ==
    ASSUME EntryInv, EdgesInv, NEW t \in Threads, SetDependencies(t)
    PROVE  EdgesInv'
  <1>0. PICK f \in Files : f = file[t]
    BY DEF EntryInv, EntryTypes, Tracks, Linking, SetDependencies, Goto
  <1>1. /\ pc[t] = "detach" /\ \A u \in Threads : pc'[u] = IF u = t THEN "attach" ELSE pc[u]
        /\ UNCHANGED <<tracked, file>>
        /\ \A u \in Threads : todo'[u] = IF u = t THEN copy[t].imports ELSE todo[u]
    BY <1>0 DEF SetDependencies, Goto, EntryInv, EntryTypes, historyVars
  <1>2. f \in DOMAIN states /\ \A u \in Threads : pc[u] \in Linking /\ file[u] = f => u = t
    BY <1>0, <1>1, OneLinks DEF Linking
  <1>3. /\ DOMAIN states' = DOMAIN states
        /\ states'[f].dependencies = copy[t].imports
        /\ \A g \in DOMAIN states :
             /\ states'[g].dependents = states[g].dependents
             /\ g # f => states'[g].dependencies = states[g].dependencies
    BY <1>0, <1>2 DEF EntryInv, EntryTypes, States, SetDependencies
  <1>4. f \in ToSet(tracked)
    BY <1>0, <1>2 DEF EdgesInv, Untracked
  <1>5. AtWork(t, f)
    BY <1>0, <1>1 DEF AtWork, Linking
  <1>6. \A a, b : AboutToDraw(a, b) /\ a # f => AboutToDraw(a, b)'
    BY <1>0, <1>1 DEF AboutToDraw
  <1>7. \A b : b \in copy[t].imports => AboutToDraw(f, b)'
    BY <1>0, <1>1 DEF AboutToDraw
  <1>8. \A u \in Threads : \A a : AtWork(u, a)' => AtWork(u, a) /\ (pc'[u] # "attach" => pc[u] # "attach")
    BY <1>0, <1>1 DEF AtWork, Linking
  <1>9. \A a : NotDependent(a)' <=> NotDependent(a)
    BY <1>0, <1>3 DEF NotDependent
  <1>10. Drawn'
    BY <1>0, <1>1, <1>3, <1>6, <1>7, SameTracked DEF EdgesInv, Drawn
  <1>11. Untracked'
    BY <1>0, <1>1, <1>3, <1>8, <1>9, SameTracked DEF EdgesInv, Untracked
  <1>12. Once'
    <2>1. TrackedOnce(f) => NotDependent(f)
      BY <1>0, <1>1, <1>5 DEF EdgesInv, Once
    <2> QED
      BY <1>0, <1>1, <1>3, <1>8, <1>9, <2>1, SameTracked DEF EdgesInv, Once, NotDependent
  <1>13. LeftToLink'
    <2> SUFFICES ASSUME NEW u \in Threads, pc'[u] = "attach"
                 PROVE  todo'[u] \subseteq states'[file'[u]].dependencies
      BY <1>0 DEF LeftToLink
    <2>1. CASE u = t
      BY <1>0, <1>1, <1>3, <2>1
    <2>2. CASE u # t
      <3>1. file[u] # f /\ file[u] \in DOMAIN states /\ pc[u] = "attach"
        BY <1>0, <1>1, <1>2, <2>2, OneLinks DEF Linking
      <3> QED
        BY <1>0, <1>1, <1>3, <2>2, <3>1 DEF EdgesInv, LeftToLink
    <2> QED
      BY <1>0, <2>1, <2>2
  <1> QED
    BY <1>0, <1>10, <1>11, <1>12, <1>13 DEF EdgesInv

(* One of them is linked, if it has an entry.                              *)
LEMMA EdgesAttach ==
    ASSUME EntryInv, EdgesInv, NEW t \in Threads, Attach(t)
    PROVE  EdgesInv'
  <1>0. PICK f \in Files : f = file[t]
    BY DEF EntryInv, EntryTypes, Tracks, Linking, Attach
  <1>1. pc[t] = "attach" /\ UNCHANGED <<pc, tracked, file>>
    BY <1>0 DEF Attach, historyVars
  <1>2. PICK d \in todo[t] :
          /\ states' = IF d \in DOMAIN states
                       THEN [states EXCEPT ![d].dependents = @ \cup {f}]
                       ELSE states
          /\ todo' = [todo EXCEPT ![t] = @ \ {d}]
    BY <1>0 DEF Attach
  <1>3. f \in DOMAIN states /\ \A u \in Threads : pc[u] \in Linking /\ file[u] = f => u = t
    BY <1>0, <1>1, OneLinks DEF Linking
  <1>4. /\ DOMAIN states' = DOMAIN states
        /\ \A g \in DOMAIN states :
             /\ states'[g].dependencies = states[g].dependencies
             /\ states'[g].dependents =
                  IF g = d THEN states[g].dependents \cup {f} ELSE states[g].dependents
    BY <1>0, <1>2 DEF EntryInv, EntryTypes, States
  <1>5. \A u \in Threads : todo'[u] = IF u = t THEN todo[t] \ {d} ELSE todo[u]
    BY <1>0, <1>2 DEF EntryInv, EntryTypes
  <1>6. f \in ToSet(tracked)
    BY <1>0, <1>3 DEF EdgesInv, Untracked
  <1>7. AtWork(t, f) /\ d \in states[f].dependencies
    BY <1>0, <1>1, <1>2 DEF AtWork, Linking, EdgesInv, LeftToLink
  <1>8. \A a, b : AboutToDraw(a, b) /\ (a # f \/ b # d) => AboutToDraw(a, b)'
    BY <1>0, <1>1, <1>5 DEF AboutToDraw
  <1>9. \A u \in Threads : \A a : AtWork(u, a)' <=> AtWork(u, a)
    BY <1>0, <1>1 DEF AtWork
  <1>10. \A a : a # f => (NotDependent(a)' <=> NotDependent(a))
    BY <1>0, <1>4 DEF NotDependent
  <1>11. Drawn'
    <2> SUFFICES ASSUME NEW a \in DOMAIN states', NEW b \in DOMAIN states',
                        b \in states'[a].dependencies, LastTracked(b)' < LastTracked(a)'
                 PROVE  a \in states'[b].dependents \/ AboutToDraw(a, b)'
      BY DEF Drawn
    <2>1. a \in states[b].dependents \/ AboutToDraw(a, b)
      BY <1>1, <1>4, SameTracked DEF EdgesInv, Drawn
    <2>2. CASE a = f /\ b = d
      BY <1>4, <2>2
    <2>3. CASE a # f \/ b # d
      BY <1>4, <1>8, <2>1, <2>3
    <2> QED
      BY <2>2, <2>3
  <1>12. Untracked'
    BY <1>0, <1>1, <1>4, <1>6, <1>9, <1>10, SameTracked DEF EdgesInv, Untracked
  <1>13. Once'
    <2> SUFFICES ASSUME NEW a, TrackedOnce(a)'
                 PROVE  /\ \A u, v \in Threads : AtWork(u, a)' /\ AtWork(v, a)' => u = v
                        /\ \A u \in Threads : AtWork(u, a)' /\ pc'[u] # "attach" => NotDependent(a)'
                        /\ a \in DOMAIN states' =>
                             \A b \in DOMAIN states' :
                                a \in states'[b].dependents => b \in states'[a].dependencies
      BY DEF Once
    <2>1. /\ \A u, v \in Threads : AtWork(u, a) /\ AtWork(v, a) => u = v
          /\ \A u \in Threads : AtWork(u, a) /\ pc[u] # "attach" => NotDependent(a)
          /\ a \in DOMAIN states =>
               \A b \in DOMAIN states :
                  a \in states[b].dependents => b \in states[a].dependencies
      BY <1>1, SameTracked DEF EdgesInv, Once
    <2>2. \A u \in Threads : AtWork(u, a)' /\ pc'[u] # "attach" => NotDependent(a)'
      BY <1>1, <1>7, <1>9, <1>10, <2>1
    <2>3. a \in DOMAIN states' =>
             \A b \in DOMAIN states' :
                a \in states'[b].dependents => b \in states'[a].dependencies
      BY <1>4, <1>7, <2>1
    <2> QED
      BY <1>9, <2>1, <2>2, <2>3
  <1>14. LeftToLink'
    <2>1. \A u \in Threads : pc[u] = "attach" => file[u] \in DOMAIN states
      BY OneLinks DEF Linking
    <2> QED
      BY <1>0, <1>1, <1>4, <1>5, <2>1 DEF EdgesInv, LeftToLink
  <1> QED
    BY <1>0, <1>11, <1>12, <1>13, <1>14 DEF EdgesInv

(* At first nothing has been tracked.                                      *)
LEMMA EdgesInit == Init => EdgesInv
  <1> SUFFICES ASSUME Init PROVE EdgesInv
    OBVIOUS
  <1>1. DOMAIN states = {} /\ DOMAIN tracked = {} /\ \A t \in Threads : pc[t] = "idle"
    BY DEF Init
  <1>2. \A a : ~TrackedOnce(a)
    <2> SUFFICES ASSUME NEW a PROVE Cardinality({i \in DOMAIN tracked : tracked[i] = a}) # 1
      BY DEF TrackedOnce
    <2>1. {i \in DOMAIN tracked : tracked[i] = a} = {}
      BY <1>1
    <2> QED
      BY <2>1, FS_EmptySet
  <1> QED
    BY <1>1, <1>2 DEF EdgesInv, Drawn, Untracked, Once, LeftToLink, AtWork, NotDependent, Linking

(* Edges hold throughout.                                                  *)
LEMMA EdgesInvariance == Spec => []EdgesInv
  <1>1. EntryInv /\ EntryInv' /\ EdgesInv /\ [Next]_vars => EdgesInv'
    <2> SUFFICES ASSUME EntryInv, EntryInv', EdgesInv, [Next]_vars PROVE EdgesInv'
      OBVIOUS
    <2>1. CASE UNCHANGED vars \/ \E f \in Files : Write(f)
      <3>1. UNCHANGED <<states, tracked, pc, file, todo>>
        BY <2>1 DEF Write, vars, mapVars, threadVars, historyVars
      <3>2. UNCHANGED <<Drawn, Untracked, Once, LeftToLink>>
        BY <3>1 DEF Drawn, Untracked, Once, LeftToLink, AboutToDraw, AtWork, NotDependent,
                    LastTracked, TrackedOnce
      <3> QED
        BY <3>2 DEF EdgesInv
    <2>2. ASSUME NEW t \in Threads, Begin(t) \/ Step(t) PROVE EdgesInv'
      <3>1. CASE QuietStep(t)
        BY <3>1, QuietSteps, QuietEdges DEF EntryInv
      <3>2. CASE EntryStep(t)
        BY <3>2, EdgesInsert, EdgesLock, EdgesUnlock, EdgesClear, EdgesDetach, EdgesSet,
           EdgesAttach DEF EntryStep
      <3> QED
        BY <2>2, <3>1, <3>2, StepKinds
    <2> QED
      BY <2>1, <2>2 DEF Next
  <1> QED
    BY EdgesInit, EntryInvariance, <1>1, PTL DEF Spec

(* However many threads track files, clear the map and change entries at   *)
(* the same time, dependents are the reverse of dependencies: a file is    *)
(* found among the dependents of every import that was tracked before it,  *)
(* and one tracked only once among those of no other file.                 *)
THEOREM DependentsReverse == Spec => []DependentsExact
  <1>1. EntryInv /\ EdgesInv => DependentsExact
    <2> SUFFICES ASSUME EntryInv, EdgesInv,
                        NEW a \in DOMAIN states, NEW b \in DOMAIN states, ~Tracking(a)
                 PROVE  /\ b \in states[a].dependencies /\ LastTracked(b) < LastTracked(a)
                             => a \in states[b].dependents
                        /\ a \in states[b].dependents /\ TrackedOnce(a)
                             => b \in states[a].dependencies
      BY DEF DependentsExact
    <2>1. ~AboutToDraw(a, b)
      BY DEF AboutToDraw, Tracking
    <2> QED
      BY <2>1 DEF EdgesInv, Drawn, Once
  <1> QED
    BY EntryInvariance, EdgesInvariance, <1>1, PTL
=============================================================================
