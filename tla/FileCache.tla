------------------------------ MODULE FileCache -----------------------------
(***************************************************************************)
(* FileCache (crates/cache/src/file_cache.rs): threads ask for the texts   *)
(* of files, which are kept until the file looks changed or there are too  *)
(* many.                                                                   *)
(*                                                                         *)
(* Times are whole seconds.  The entries are in a DashMap that is gone     *)
(* through shard by shard; here every file has a shard of its own, and     *)
(* their order is that of the files.                                       *)
(***************************************************************************)
EXTENDS Integers, SequencesExt, FiniteSets

CONSTANTS
    Files,        \* numbers, in the order of their shards
    Threads,
    Texts,
    Length,       \* of every text
    Layouts,      \* what the files may hold at first
    Overhead,     \* of an entry, in memory
    max_entries, max_memory_usage,
    MaxTime, MaxWrites, MaxCalls

ASSUME CacheAssumption ==
    /\ Files \subseteq Nat /\ IsFiniteSet(Files)
    /\ Length \in [Texts -> Nat]
    /\ Layouts \subseteq [Files -> Texts]
    /\ Overhead \in Nat
    /\ max_entries \in Nat /\ max_memory_usage \in Nat
    /\ MaxTime \in Nat

Gone == [text |-> "gone"]

VARIABLES
    clock,
    disk,         \* what each file is
    past,         \* history: what it has been, up to now
    cache,
    memory_usage,
    pc, file,
    found,        \* what a thread has read of its file
    size,         \* as the metadata say
    sum,          \* of the entries' sizes, as far as counted
    left,         \* shards it has yet to go through
    then,         \* where it goes on after counting
    oldest,       \* entries to evict, least recently used first
    raced,        \* history: its file was written before it read the metadata
    overlapped,   \* history: two calls have been under way at once
    writes, calls

diskVars == <<clock, disk, past, writes>>
readVars == <<found, size, raced>>
countVars == <<sum, left, then>>
vars == <<diskVars, cache, memory_usage, pc, file, readVars, countVars, oldest, overlapped, calls>>

Init ==
    /\ clock = 0
    /\ \E l \in Layouts : disk = [f \in Files |-> [text |-> l[f], modified |-> 0]]
    /\ past = [f \in Files |-> {disk[f]}]
    /\ cache = [f \in {} |-> {}]
    /\ memory_usage = 0
    /\ pc = [t \in Threads |-> "idle"]
    /\ file = [t \in Threads |-> CHOOSE f \in Files : TRUE]
    /\ found = [t \in Threads |-> Gone]
    /\ size = [t \in Threads |-> 0]
    /\ sum = [t \in Threads |-> 0]
    /\ left = [t \in Threads |-> {}]
    /\ then = [t \in Threads |-> "idle"]
    /\ oldest = [t \in Threads |-> <<>>]
    /\ raced = [t \in Threads |-> FALSE]
    /\ overlapped = FALSE
    /\ writes = 0
    /\ calls = 0

(* Time goes on, and somebody removes a file or puts another in its place, *)
(* which keeps its own time when it was moved there.                       *)
Tick ==
    /\ clock < MaxTime
    /\ clock' = clock + 1
    /\ UNCHANGED <<disk, past, writes, raced>>

Write(f) ==
    /\ writes < MaxWrites
    /\ writes' = writes + 1
    /\ \/ disk' = [disk EXCEPT ![f] = Gone]
       \/ \E x \in Texts, m \in 0 .. clock :
             disk' = [disk EXCEPT ![f] = [text |-> x, modified |-> m]]
    /\ past' = [past EXCEPT ![f] = @ \cup {disk'[f]}]
    /\ raced' = [t \in Threads |-> raced[t] \/ (pc[t] = "metadata" /\ file[t] = f)]
    /\ UNCHANGED clock

World ==
    /\ Tick \/ \E f \in Files : Write(f)
    /\ UNCHANGED <<cache, memory_usage, pc, file, found, size, countVars, oldest, overlapped, calls>>

-----------------------------------------------------------------------------

Begin(t, f) ==
    /\ pc[t] = "idle"
    /\ calls < MaxCalls
    /\ calls' = calls + 1
    /\ file' = [file EXCEPT ![t] = f]
    /\ overlapped' = (overlapped \/ \E u \in Threads : pc[u] # "idle")

Goto(t, from, to) ==
    /\ pc[t] = from
    /\ pc' = [pc EXCEPT ![t] = to]

(* update_memory_usage: the entries are added up, then the sum is stored.  *)
Count(t, next) ==
    /\ sum' = [sum EXCEPT ![t] = 0]
    /\ left' = [left EXCEPT ![t] = Files]
    /\ then' = [then EXCEPT ![t] = next]

Shard(t) == CHOOSE f \in left[t] : \A g \in left[t] : f <= g

Removed(f) == [g \in DOMAIN cache \ {f} |-> cache[g]]

(* Mutant: only the time is compared.                                      *)
IsStaleByTime(f) ==
    ~ /\ disk[f] # Gone
      /\ disk[f].modified <= cache[f].modified

IsStale(f) ==
    ~ /\ disk[f] # Gone
      /\ disk[f].modified <= cache[f].modified
      /\ Length[disk[f].text] = cache[f].size

(* get_file finds the text and hands it over, or finds it stale, or not.   *)
Hit(t, f) ==
    /\ Begin(t, f)
    /\ f \in DOMAIN cache /\ ~IsStale(f)
    /\ cache' = [cache EXCEPT ![f].accessed = clock]
    /\ UNCHANGED <<diskVars, memory_usage, pc, readVars, countVars, oldest>>

FindStale(t, f) ==
    /\ Begin(t, f)
    /\ f \in DOMAIN cache /\ IsStale(f)
    /\ pc' = [pc EXCEPT ![t] = "remove"]
    /\ then' = [then EXCEPT ![t] = "read"]
    /\ UNCHANGED <<diskVars, cache, memory_usage, readVars, sum, left, oldest>>

Miss(t, f) ==
    /\ Begin(t, f)
    /\ f \notin DOMAIN cache
    /\ pc' = [pc EXCEPT ![t] = "read"]
    /\ UNCHANGED <<diskVars, cache, memory_usage, readVars, countVars, oldest>>

Invalidate(t, f) ==
    /\ Begin(t, f)
    /\ pc' = [pc EXCEPT ![t] = "remove"]
    /\ then' = [then EXCEPT ![t] = "idle"]
    /\ UNCHANGED <<diskVars, cache, memory_usage, readVars, sum, left, oldest>>

(* Mutant: the sum is not brought up to date.                              *)
ForgetUncounted(t) ==
    /\ Goto(t, "remove", then[t])
    /\ cache' = Removed(file[t])
    /\ UNCHANGED <<diskVars, memory_usage, file, readVars, countVars, oldest, overlapped, calls>>

Forget(t) ==
    /\ Goto(t, "remove", "count")
    /\ cache' = Removed(file[t])
    /\ Count(t, then[t])
    /\ UNCHANGED <<diskVars, memory_usage, file, readVars, oldest, overlapped, calls>>

CountShard(t) ==
    /\ pc[t] = "count" /\ left[t] # {}
    /\ left' = [left EXCEPT ![t] = @ \ {Shard(t)}]
    /\ sum' = [sum EXCEPT ![t] =
                  IF Shard(t) \in DOMAIN cache THEN @ + Length[cache[Shard(t)].text] + Overhead
                  ELSE @]
    /\ UNCHANGED <<diskVars, cache, memory_usage, pc, file, readVars, then, oldest, overlapped, calls>>

StoreUsage(t) ==
    /\ Goto(t, "count", then[t])
    /\ left[t] = {}
    /\ memory_usage' = sum[t]
    /\ UNCHANGED <<diskVars, cache, file, readVars, countVars, oldest, overlapped, calls>>

(* The text is read before the metadata.                                   *)
Read(t) ==
    /\ Goto(t, "read", "metadata")
    /\ disk[file[t]] # Gone
    /\ found' = [found EXCEPT ![t] = disk[file[t]]]
    /\ raced' = [raced EXCEPT ![t] = FALSE]
    /\ UNCHANGED <<diskVars, cache, memory_usage, file, size, countVars, oldest, overlapped, calls>>

ReadMetadata(t) ==
    /\ Goto(t, "metadata", "insert")
    /\ disk[file[t]] # Gone
    /\ found' = [found EXCEPT ![t].modified = disk[file[t]].modified]
    /\ size' = [size EXCEPT ![t] = Length[disk[file[t]].text]]
    /\ UNCHANGED <<diskVars, cache, memory_usage, file, raced, countVars, oldest, overlapped, calls>>

Fail(t) ==
    /\ Goto(t, "read", "idle") \/ Goto(t, "metadata", "idle")
    /\ disk[file[t]] = Gone
    /\ UNCHANGED <<diskVars, cache, memory_usage, file, readVars, countVars, oldest, overlapped, calls>>

Entry(t) ==
    [text |-> found[t].text, modified |-> found[t].modified, size |-> size[t],
     accessed |-> clock, raced |-> raced[t]]

Insert(t) ==
    /\ Goto(t, "insert", "count")
    /\ cache' = [f \in DOMAIN cache \cup {file[t]} |-> IF f = file[t] THEN Entry(t) ELSE cache[f]]
    /\ Count(t, "evict if needed")
    /\ UNCHANGED <<diskVars, memory_usage, file, readVars, oldest, overlapped, calls>>

-----------------------------------------------------------------------------
(* evict_if_needed and evict_lru_entries.                                  *)

LooksAtUsage(t) ==
    /\ Goto(t, "evict if needed",
            IF memory_usage > max_memory_usage THEN "collect" ELSE "look at count")
    /\ left' = [left EXCEPT ![t] = Files]
    /\ oldest' = [oldest EXCEPT ![t] = <<>>]
    /\ UNCHANGED <<diskVars, cache, memory_usage, file, readVars, sum, then, overlapped, calls>>

LooksAtCount(t) ==
    /\ Goto(t, "look at count",
            IF Cardinality(DOMAIN cache) > max_entries THEN "collect" ELSE "idle")
    /\ UNCHANGED <<diskVars, cache, memory_usage, file, readVars, countVars, oldest, overlapped, calls>>

(* Those used in the same second stay in the order of their shards.        *)
CollectShard(t) ==
    /\ pc[t] = "collect" /\ left[t] # {}
    /\ left' = [left EXCEPT ![t] = @ \ {Shard(t)}]
    /\ oldest' =
          [oldest EXCEPT ![t] =
              IF Shard(t) \in DOMAIN cache
              THEN LET accessed == cache[Shard(t)].accessed
                       before == {i \in DOMAIN @ : @[i][2] <= accessed}
                   IN InsertAt(@, Cardinality(before) + 1, <<Shard(t), accessed>>)
              ELSE @]
    /\ UNCHANGED <<diskVars, cache, memory_usage, pc, file, readVars, sum, then, overlapped, calls>>

StartEviction(t) ==
    /\ Goto(t, "collect", "evict")
    /\ left[t] = {}
    /\ then' = [then EXCEPT ![t] = "nothing evicted"]
    /\ UNCHANGED <<diskVars, cache, memory_usage, file, readVars, sum, left, oldest, overlapped, calls>>

UnderTargets ==
    /\ Cardinality(DOMAIN cache) <= (max_entries * 80) \div 100
    /\ memory_usage <= (max_memory_usage * 80) \div 100

(* memory_usage is not brought up to date in between.                      *)
Evict(t) ==
    /\ pc[t] = "evict" /\ oldest[t] # <<>> /\ ~UnderTargets
    /\ pc' = [pc EXCEPT ![t] = "evict one"]
    /\ UNCHANGED <<diskVars, cache, memory_usage, file, readVars, countVars, oldest, overlapped, calls>>

EvictOne(t) ==
    /\ Goto(t, "evict one", "evict")
    /\ cache' = Removed(Head(oldest[t])[1])
    /\ oldest' = [oldest EXCEPT ![t] = Tail(@)]
    /\ then' = [then EXCEPT ![t] = "idle"]
    /\ UNCHANGED <<diskVars, memory_usage, file, readVars, sum, left, overlapped, calls>>

Evicted(t) ==
    /\ pc[t] = "evict" /\ (oldest[t] = <<>> \/ UnderTargets)
    /\ IF then[t] = "nothing evicted"
       THEN Goto(t, "evict", "idle") /\ UNCHANGED countVars
       ELSE Goto(t, "evict", "count") /\ Count(t, "idle")
    /\ UNCHANGED <<diskVars, cache, memory_usage, file, readVars, oldest, overlapped, calls>>

-----------------------------------------------------------------------------
(* clear.                                                                  *)

Clear(t) ==
    /\ \E f \in Files : Begin(t, f)
    /\ pc' = [pc EXCEPT ![t] = "clear"]
    /\ left' = [left EXCEPT ![t] = Files]
    /\ UNCHANGED <<diskVars, cache, memory_usage, readVars, sum, then, oldest>>

ClearShard(t) ==
    /\ pc[t] = "clear" /\ left[t] # {}
    /\ cache' = Removed(Shard(t))
    /\ left' = [left EXCEPT ![t] = @ \ {Shard(t)}]
    /\ UNCHANGED <<diskVars, memory_usage, pc, file, readVars, sum, then, oldest, overlapped, calls>>

ResetUsage(t) ==
    /\ Goto(t, "clear", "idle")
    /\ left[t] = {}
    /\ memory_usage' = 0
    /\ UNCHANGED <<diskVars, cache, file, readVars, countVars, oldest, overlapped, calls>>

-----------------------------------------------------------------------------

Step(t) ==
    \/ Forget(t) \/ CountShard(t) \/ StoreUsage(t)
    \/ Read(t) \/ ReadMetadata(t) \/ Fail(t) \/ Insert(t)
    \/ LooksAtUsage(t) \/ LooksAtCount(t)
    \/ CollectShard(t) \/ StartEviction(t) \/ Evict(t) \/ EvictOne(t) \/ Evicted(t)
    \/ ClearShard(t) \/ ResetUsage(t)

Next ==
    \/ World
    \/ \E t \in Threads :
          \/ \E f \in Files : Hit(t, f) \/ FindStale(t, f) \/ Miss(t, f) \/ Invalidate(t, f)
          \/ Clear(t)
          \/ Step(t)

Spec == Init /\ [][Next]_vars

-----------------------------------------------------------------------------

(* The file was once what the cache has, and looks no newer now: it has    *)
(* the same length and, in whole seconds, no later time.                   *)
LooksUnchanged(f) ==
    \E v \in past[f] \ {Gone} :
        /\ v.text = cache[f].text
        /\ Length[v.text] = Length[disk[f].text]
        /\ v.modified >= disk[f].modified

(* A text that is kept is that of the file, or the next call will find out *)
(* that it is not, unless the file looks unchanged or was written between  *)
(* the reading of its text and of its metadata (get_file, is_stale).       *)
StaleIsNoticed ==
    \A f \in DOMAIN cache :
        \/ IsStale(f)
        \/ cache[f].text = disk[f].text
        \/ LooksUnchanged(f)
        \/ cache[f].raced

Used(f) == Length[cache[f].text] + Overhead

AllIdle == \A t \in Threads : pc[t] = "idle"

(* Whenever all calls are over, however they overlapped, there are no more *)
(* entries than allowed.  If none did, the usage is what they use, and     *)
(* within its limit, too (evict_if_needed, update_memory_usage).           *)
CacheSettles ==
    AllIdle =>
        /\ Cardinality(DOMAIN cache) <= max_entries
        /\ ~overlapped =>
              /\ memory_usage = SumFunction([f \in DOMAIN cache |-> Used(f)])
              /\ memory_usage <= max_memory_usage
=============================================================================
