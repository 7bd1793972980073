------------------------- MODULE IncrementalAnalyzer -------------------------
(***************************************************************************)
(* IncrementalAnalyzer (crates/performance/src/incremental.rs): threads    *)
(* track files, ask which have changed, queue files, take batches of them  *)
(* and report the outcome of their analysis.                               *)
(*                                                                         *)
(* file_states is a DashMap: its entries lie in shards by a hash of their  *)
(* path, each shard behind a lock of its own.  A reference to an entry,    *)
(* and an iterator that stands in a shard, hold that shard's lock; a       *)
(* thread that holds one and asks for another entry may wait for another   *)
(* thread or for itself.  The locks of analysis_queue and dependency_graph *)
(* are never held while another is taken, so their operations are atomic.  *)
(***************************************************************************)
EXTENDS Integers, FiniteSetsExt, SequencesExt, StableSort

CONSTANTS
    Files,
    Threads,
    Shards,       \* of file_states, the first of which is 1
    Placements,   \* what the hash may make of the files
    Imports,      \* sets of files a text may import
    Priorities,   \* a task may be queued with
    MaxBatchSize,
    MaxEdits,     \* how often files are written
    MaxCalls,     \* how many calls are made
    None

ASSUME BatchAssumption == MaxBatchSize \in Nat \ {0}

ASSUME ShardsAssumption ==
    /\ Shards \subseteq Nat \ {0} /\ Shards # {}
    /\ Placements \subseteq [Files -> Shards]

ASSUME ImportsAssumption == Imports \subseteq SUBSET Files

ASSUME NoneAssumption == None \notin Threads

VARIABLES
    shard,   \* where the hash puts a file
    disk,    \* the texts, each with a version and what it imports
    states,  \* file_states
    graph,   \* dependency_graph
    queue,   \* analysis_queue, in the order of created_at
    holder,  \* the thread that holds a shard's lock
    pc,      \* where a thread is: "idle" and "analyzing" are outside of calls
    file,    \* the file its call is about
    copy,    \* the text it has read
    todo,    \* the files it still has to go through
    left,    \* the shards it still has to go through
    hand,    \* the tasks of its batch that are not analyzed
    rest,    \* those of them it still has to take from the queue
    pending, \* history: the files queued and not analyzed since
    tracked, \* history: the files track_file has inserted
    calls

mapVars == <<states, graph, queue>>
threadVars == <<file, copy, todo, left, hand, rest>>
historyVars == <<pending, tracked>>
vars == <<shard, disk, mapVars, holder, pc, threadVars, historyVars, calls>>

-----------------------------------------------------------------------------

(* get_mut, get and insert wait until nobody holds the file's shard.       *)
Free(f) == holder[shard[f]] = None

(* DashMap::insert, of a new entry or in the place of the old one.         *)
Put(map, f, value) ==
    [g \in DOMAIN map \cup {f} |-> IF g = f THEN value ELSE map[g]]

Tasks == [file : Files, priority : Priorities \cup {1}]

Task(f, priority) == [file |-> f, priority |-> priority]

Without(tasks, f) ==
    IF \E i \in DOMAIN tasks : tasks[i].file = f
    THEN RemoveAt(tasks, CHOOSE i \in DOMAIN tasks : tasks[i].file = f)
    ELSE tasks

(* insert replaces the task a file has.                                    *)
Enqueue(tasks, task) == Append(Without(tasks, task.file), task)

(* The tasks sorted by priority, and by creation within one.               *)
ByPriority(tasks) ==
    Sorted(tasks, {ij \in (1 .. Len(tasks)) \X (1 .. Len(tasks)) :
                     tasks[ij[1]].priority > tasks[ij[2]].priority})

Batch(tasks) ==
    SubSeq(tasks, 1, IF Len(tasks) <= MaxBatchSize THEN Len(tasks) ELSE MaxBatchSize)

NewState(text) ==
    [seen |-> text.version, dependencies |-> {}, dependents |-> {},
     status |-> "NotAnalyzed"]

Init ==
    /\ shard \in Placements
    /\ disk \in [Files -> [version : {0}, imports : Imports]]
    /\ states = <<>>
    /\ graph = <<>>
    /\ queue = <<>>
    /\ holder = [s \in Shards |-> None]
    /\ pc = [t \in Threads |-> "idle"]
    /\ file = [t \in Threads |-> None]
    /\ copy = [t \in Threads |-> None]
    /\ todo = [t \in Threads |-> {}]
    /\ left = [t \in Threads |-> {}]
    /\ hand = [t \in Threads |-> <<>>]
    /\ rest = [t \in Threads |-> <<>>]
    /\ pending = {}
    /\ tracked = <<>>
    /\ calls = 0

(* Somebody writes a file.                                                 *)
Write(f) ==
    /\ MapThenSumSet(LAMBDA g : disk[g].version, Files) < MaxEdits
    /\ \E imports \in Imports :
          disk' = [disk EXCEPT ![f] = [version |-> @.version + 1, imports |-> imports]]
    /\ UNCHANGED <<shard, mapVars, holder, pc, threadVars, historyVars, calls>>

Call(t, first) ==
    /\ pc[t] = "idle"
    /\ calls < MaxCalls
    /\ calls' = calls + 1
    /\ pc' = [pc EXCEPT ![t] = first]

Goto(t, from, to) ==
    /\ pc[t] = from
    /\ pc' = [pc EXCEPT ![t] = to]

-----------------------------------------------------------------------------
(* track_file: a new state takes the place of the one the file had, then   *)
(* extract_dependencies holds the file's entry while it goes through the   *)
(* entries of its dependencies.                                            *)

Track(t, f) ==
    /\ Call(t, "insert")
    /\ file' = [file EXCEPT ![t] = f]
    /\ copy' = [copy EXCEPT ![t] = disk[f]]
    /\ UNCHANGED <<shard, disk, mapVars, holder, todo, left, hand, rest, historyVars>>

InsertState(t) ==
    /\ Goto(t, "insert", "lock")
    /\ Free(file[t])
    /\ states' = Put(states, file[t], NewState(copy[t]))
    /\ tracked' = Append(tracked, file[t])
    /\ UNCHANGED <<shard, disk, graph, queue, holder, threadVars, pending, calls>>

LockEntry(t) ==
    /\ Goto(t, "lock", "detach")
    /\ Free(file[t])
    /\ file[t] \in DOMAIN states
    /\ holder' = [holder EXCEPT ![shard[file[t]]] = t]
    /\ todo' = [todo EXCEPT ![t] = states[file[t]].dependencies]
    /\ UNCHANGED <<shard, disk, mapVars, file, copy, left, hand, rest, historyVars, calls>>

(* The map was cleared meanwhile.                                          *)
NoEntry(t) ==
    /\ Goto(t, "lock", "link")
    /\ Free(file[t])
    /\ file[t] \notin DOMAIN states
    /\ UNCHANGED <<shard, disk, mapVars, holder, threadVars, historyVars, calls>>

Detach(t) ==
    /\ pc[t] = "detach"
    /\ \E d \in todo[t] :
          /\ Free(d)
          /\ states' = IF d \in DOMAIN states
                       THEN [states EXCEPT ![d].dependents = @ \ {file[t]}]
                       ELSE states
          /\ todo' = [todo EXCEPT ![t] = @ \ {d}]
    /\ UNCHANGED <<shard, disk, graph, queue, holder, pc, file, copy, left, hand, rest,
                   historyVars, calls>>

SetDependencies(t) ==
    /\ Goto(t, "detach", "attach")
    /\ todo[t] = {}
    /\ states' = [states EXCEPT ![file[t]].dependencies = copy[t].imports]
    /\ todo' = [todo EXCEPT ![t] = copy[t].imports]
    /\ UNCHANGED <<shard, disk, graph, queue, holder, file, copy, left, hand, rest,
                   historyVars, calls>>

(* Mutant: the edge is drawn the other way round.                          *)
AttachReversed(t) ==
    /\ pc[t] = "attach"
    /\ \E d \in todo[t] :
          /\ Free(d)
          /\ states' = IF d \in DOMAIN states
                       THEN [states EXCEPT ![file[t]].dependents = @ \cup {d}]
                       ELSE states
          /\ todo' = [todo EXCEPT ![t] = @ \ {d}]
    /\ UNCHANGED <<shard, disk, graph, queue, holder, pc, file, copy, left, hand, rest,
                   historyVars, calls>>

Attach(t) ==
    /\ pc[t] = "attach"
    /\ \E d \in todo[t] :
          /\ Free(d)
          /\ states' = IF d \in DOMAIN states
                       THEN [states EXCEPT ![d].dependents = @ \cup {file[t]}]
                       ELSE states
          /\ todo' = [todo EXCEPT ![t] = @ \ {d}]
    /\ UNCHANGED <<shard, disk, graph, queue, holder, pc, file, copy, left, hand, rest,
                   historyVars, calls>>

(* Mutant: the entry is let go only when there was something to add.       *)
UnlockIfImports(t) ==
    /\ Goto(t, "attach", "link")
    /\ todo[t] = {}
    /\ holder' = IF copy[t].imports = {} THEN holder
                 ELSE [holder EXCEPT ![shard[file[t]]] = None]
    /\ UNCHANGED <<shard, disk, mapVars, threadVars, historyVars, calls>>

UnlockEntry(t) ==
    /\ Goto(t, "attach", "link")
    /\ todo[t] = {}
    /\ holder' = [holder EXCEPT ![shard[file[t]]] = None]
    /\ UNCHANGED <<shard, disk, mapVars, threadVars, historyVars, calls>>

Link(t) ==
    /\ Goto(t, "link", "idle")
    /\ graph' = Put(graph, file[t], copy[t].imports)
    /\ file' = [file EXCEPT ![t] = None]
    /\ copy' = [copy EXCEPT ![t] = None]
    /\ UNCHANGED <<shard, disk, states, queue, holder, todo, left, hand, rest, historyVars, calls>>

-----------------------------------------------------------------------------
(* check_file_changes holds a shard's lock while it looks at the shard's   *)
(* entries, and lets go of it only once it has the next one.  For a        *)
(* changed file it calls queue_file_for_analysis, which asks for the       *)
(* entry, and so for the lock the thread itself holds: what the function   *)
(* does after that, extract_dependencies and propagate_changes to the      *)
(* dependents of changed files, is never reached.                          *)

Check(t) ==
    /\ Call(t, "sweep")
    /\ left' = [left EXCEPT ![t] = Shards]
    /\ UNCHANGED <<shard, disk, mapVars, holder, file, copy, todo, hand, rest, historyVars>>

EntriesIn(s) == {f \in DOMAIN states : shard[f] = s}

EnterShard(t) ==
    /\ Goto(t, "sweep", "compare")
    /\ left[t] # {}
    /\ holder[Min(left[t])] = None
    /\ holder' = [holder EXCEPT ![Min(left[t])] = t]
    /\ todo' = [todo EXCEPT ![t] = EntriesIn(Min(left[t]))]
    /\ UNCHANGED <<shard, disk, mapVars, file, copy, left, hand, rest, historyVars, calls>>

FindUnchanged(t) ==
    /\ pc[t] = "compare"
    /\ \E f \in todo[t] :
          /\ disk[f].version = states[f].seen
          /\ todo' = [todo EXCEPT ![t] = @ \ {f}]
    /\ UNCHANGED <<shard, disk, mapVars, holder, pc, file, copy, left, hand, rest,
                   historyVars, calls>>

FindChanged(t) ==
    /\ Goto(t, "compare", "mark")
    /\ \E f \in Files :
          /\ f \in todo[t]
          /\ disk[f].version # states[f].seen
          /\ states' = [states EXCEPT ![f].seen = disk[f].version, ![f].status = "Stale"]
          /\ queue' = Enqueue(queue, Task(f, 1))
          /\ pending' = pending \cup {f}
          /\ file' = [file EXCEPT ![t] = f]
    /\ UNCHANGED <<shard, disk, graph, holder, copy, todo, left, hand, rest, tracked, calls>>

Following(t) == left[t] \ {Min(left[t])}

NextShard(t) ==
    /\ pc[t] = "compare"
    /\ todo[t] = {}
    /\ Following(t) # {}
    /\ holder[Min(Following(t))] = None
    /\ holder' = [holder EXCEPT ![Min(left[t])] = None, ![Min(Following(t))] = t]
    /\ todo' = [todo EXCEPT ![t] = EntriesIn(Min(Following(t)))]
    /\ left' = [left EXCEPT ![t] = Following(t)]
    /\ UNCHANGED <<shard, disk, mapVars, pc, file, copy, hand, rest, historyVars, calls>>

NothingChanged(t) ==
    /\ Goto(t, "compare", "idle")
    /\ todo[t] = {}
    /\ Following(t) = {}
    /\ holder' = [holder EXCEPT ![Min(left[t])] = None]
    /\ left' = [left EXCEPT ![t] = {}]
    /\ UNCHANGED <<shard, disk, mapVars, file, copy, todo, hand, rest, historyVars, calls>>

-----------------------------------------------------------------------------
(* queue_file_for_analysis.                                                *)

Queue(t, f) ==
    /\ Call(t, "mark")
    /\ \E priority \in Priorities : queue' = Enqueue(queue, Task(f, priority))
    /\ pending' = pending \cup {f}
    /\ file' = [file EXCEPT ![t] = f]
    /\ UNCHANGED <<shard, disk, states, graph, holder, copy, todo, left, hand, rest, tracked>>

SetStatus(f, status) ==
    /\ Free(f)
    /\ states' = IF f \in DOMAIN states
                 THEN [states EXCEPT ![f].status = status]
                 ELSE states

MarkQueued(t) ==
    /\ Goto(t, "mark", "idle")
    /\ SetStatus(file[t], "Queued")
    /\ file' = [file EXCEPT ![t] = None]
    /\ UNCHANGED <<shard, disk, graph, queue, holder, copy, todo, left, hand, rest,
                   historyVars, calls>>

-----------------------------------------------------------------------------
(* get_analysis_batch collects the tasks, and then removes them one by one *)
(* from the queue, where other tasks may have taken their places.          *)

GetBatch(t) ==
    /\ Call(t, IF queue = <<>> THEN "idle" ELSE "take")
    /\ \E tasks \in ByPriority(queue) :
          /\ hand' = [hand EXCEPT ![t] = Batch(tasks)]
          /\ rest' = [rest EXCEPT ![t] = Batch(tasks)]
    /\ UNCHANGED <<shard, disk, mapVars, holder, file, copy, todo, left, historyVars>>

(* Mutant: the queue is emptied.                                           *)
TakeAll(t) ==
    /\ Goto(t, "take", "begin")
    /\ queue' = <<>>
    /\ UNCHANGED <<shard, disk, states, graph, holder, threadVars, historyVars, calls>>

TakeTask(t) ==
    /\ Goto(t, "take", "begin")
    /\ queue' = Without(queue, Head(rest[t]).file)
    /\ UNCHANGED <<shard, disk, states, graph, holder, threadVars, historyVars, calls>>

MarkInProgress(t) ==
    /\ Goto(t, "begin", IF Tail(rest[t]) = <<>> THEN "analyzing" ELSE "take")
    /\ SetStatus(Head(rest[t]).file, "InProgress")
    /\ rest' = [rest EXCEPT ![t] = Tail(@)]
    /\ UNCHANGED <<shard, disk, graph, queue, holder, file, copy, todo, left, hand,
                   historyVars, calls>>

(* The caller analyzes its files and reports how that went.                *)
Analyze(t) ==
    /\ Goto(t, "analyzing", "report")
    /\ pending' = pending \ {Head(hand[t]).file}
    /\ UNCHANGED <<shard, disk, mapVars, holder, threadVars, tracked, calls>>

Report(t, status) ==
    /\ Goto(t, "report", IF Tail(hand[t]) = <<>> THEN "idle" ELSE "analyzing")
    /\ SetStatus(Head(hand[t]).file, status)
    /\ hand' = [hand EXCEPT ![t] = Tail(@)]
    /\ UNCHANGED <<shard, disk, graph, queue, holder, file, copy, todo, left, rest,
                   historyVars, calls>>

CompleteAnalysis(t) == Report(t, "Analyzed")

MarkAnalysisFailed(t) == Report(t, "Failed")

-----------------------------------------------------------------------------
(* clear empties the maps one after the other, file_states by its shards.  *)

Clear(t) ==
    /\ Call(t, "clear")
    /\ left' = [left EXCEPT ![t] = Shards]
    /\ UNCHANGED <<shard, disk, mapVars, holder, file, copy, todo, hand, rest, historyVars>>

ClearShard(t) ==
    /\ pc[t] = "clear"
    /\ left[t] # {}
    /\ holder[Min(left[t])] = None
    /\ states' = Restrict(states, {f \in DOMAIN states : shard[f] # Min(left[t])})
    /\ left' = [left EXCEPT ![t] = @ \ {Min(@)}]
    /\ UNCHANGED <<shard, disk, graph, queue, holder, pc, file, copy, todo, hand, rest,
                   historyVars, calls>>

ClearOthers(t) ==
    /\ Goto(t, "clear", "idle")
    /\ left[t] = {}
    /\ graph' = <<>>
    /\ queue' = <<>>
    /\ pending' = {}
    /\ UNCHANGED <<shard, disk, states, holder, threadVars, tracked, calls>>

-----------------------------------------------------------------------------

Begin(t) ==
    \/ \E f \in Files : Track(t, f) \/ Queue(t, f)
    \/ Check(t) \/ GetBatch(t) \/ Clear(t)
    \/ Analyze(t)

(* What a thread does within a call.                                       *)
Step(t) ==
    \/ InsertState(t) \/ LockEntry(t) \/ NoEntry(t) \/ Detach(t)
    \/ SetDependencies(t) \/ Attach(t) \/ UnlockEntry(t) \/ Link(t)
    \/ EnterShard(t) \/ FindUnchanged(t) \/ FindChanged(t) \/ NextShard(t)
    \/ NothingChanged(t) \/ MarkQueued(t)
    \/ TakeTask(t) \/ MarkInProgress(t)
    \/ CompleteAnalysis(t) \/ MarkAnalysisFailed(t)
    \/ ClearShard(t) \/ ClearOthers(t)

Next ==
    \/ \E f \in Files : Write(f)
    \/ \E t \in Threads : Begin(t) \/ Step(t)

(* Threads are scheduled fairly; nobody has to make a call.                *)
Spec == Init /\ [][Next]_vars /\ \A t \in Threads : WF_vars(Step(t))

-----------------------------------------------------------------------------

InCall(t) == pc[t] \notin {"idle", "analyzing"}

(* The files a file is said to import, by its text and by older ones.      *)
ImportsOf(f) ==
    disk[f].imports
      \cup UNION {copy[t].imports : t \in {u \in Threads : file[u] = f /\ copy[u] # None}}
      \cup (IF f \in DOMAIN states THEN states[f].dependencies ELSE {})

(* Whether files import only files of shards that rank below their own.    *)
ImportsDescend(rank) ==
    \A f \in Files : \A d \in ImportsOf(f) : rank[shard[f]] > rank[shard[d]]

(* check_file_changes holds a shard and may ask for one further on.        *)
Sweeping == \E t \in Threads : pc[t] = "compare"

(* A thread only ever asks for a shard that ranks below the one it holds.  *)
Layered ==
    \E rank \in [Shards -> 1 .. Cardinality(Shards)] :
        /\ ImportsDescend(rank)
        /\ Sweeping => \A s, u \in Shards : s < u => rank[s] > rank[u]

(* check_file_changes has met a changed file and asks for its entry.       *)
MetChange(t) == pc[t] = "mark" /\ holder[shard[file[t]]] = t

(* Nothing else than what is named here can keep a call from returning:    *)
(* a changed file that check_file_changes meets, an import between files   *)
(* of one shard, imports that lead from shards back to themselves, or one  *)
(* from a shard back to an earlier one while check_file_changes goes from  *)
(* the earlier to the later.                                               *)
EveryCallReturns ==
    [](Layered /\ ~\E t \in Threads : MetChange(t)) =>
        \A t \in Threads : InCall(t) ~> ~InCall(t)

(* A file that was queued is in the queue or in a batch until its analysis *)
(* begins, also when batches are taken and files queued at the same time   *)
(* (queue_file_for_analysis, get_analysis_batch).                          *)
NoRequestLost ==
    \A f \in pending :
        \/ \E i \in DOMAIN queue : queue[i].file = f
        \/ \E t \in Threads : \E i \in DOMAIN hand[t] :
              /\ hand[t][i].file = f
              /\ pc[t] = "report" => i > 1

Tracking(f) ==
    \E t \in Threads :
        file[t] = f /\ pc[t] \in {"insert", "lock", "detach", "attach", "link"}

LastTracked(f) ==
    IF f \in ToSet(tracked) THEN Max({i \in DOMAIN tracked : tracked[i] = f}) ELSE 0

TrackedOnce(f) == Cardinality({i \in DOMAIN tracked : tracked[i] = f}) = 1

(* Dependents are the reverse of dependencies: a file tracked after one it *)
(* imports is among its dependents, and a file tracked only once is not    *)
(* among those of others (track_file, extract_dependencies).  A file       *)
(* tracked before one it imports is not found by it, nor is an old import  *)
(* forgotten when a file is tracked again.                                 *)
DependentsExact ==
    \A a, b \in DOMAIN states :
        a # b /\ ~Tracking(a) =>
          /\ b \in states[a].dependencies /\ LastTracked(b) < LastTracked(a)
               => a \in states[b].dependents
          /\ a \in states[b].dependents /\ TrackedOnce(a)
               => b \in states[a].dependencies
=============================================================================
