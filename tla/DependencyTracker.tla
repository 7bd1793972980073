------------------------- MODULE DependencyTracker --------------------------
(***************************************************************************)
(* DependencyTracker (crates/performance/src/dependency.rs): threads       *)
(* record which files import which, look for circles among them, and ask   *)
(* which files a change concerns.                                          *)
(*                                                                         *)
(* Both graphs are DashMaps.  A reference to an entry and an iterator over *)
(* the entries hold the read lock of a shard, and a thread that looks for  *)
(* circles has references to all files on its path.  Readers do not wait   *)
(* for writers that wait.  Both graphs are over paths: an import is kept   *)
(* as its file's directory joined with what the import says, in which an   *)
(* interior ".." stays, so one file can go by several paths.  Inheritance  *)
(* and interfaces are never resolved to files, and nobody reads the        *)
(* metadata.                                                               *)
(***************************************************************************)
EXTENDS Integers, SequencesExt, FiniteSets

CONSTANTS
    Files,      \* on the disk
    Paths,      \* by which they are named, in however many spellings
    FileAt,     \* the file a path leads to
    Threads,
    Configs,    \* of two switches: cache and detect
    Lists,      \* of paths a thread may ask to analyze
    Texts,      \* what may be imported at first, by the paths kept for it
    Placements, \* which shard of the map `dependencies` a path may lie in
    Shards,     \* how many there are
    MaxCalls, MaxWrites

ASSUME DependencyAssumption ==
    /\ IsFiniteSet(Paths)
    /\ FileAt \in [Paths -> Files]
    /\ Lists \subseteq Seq(Paths)
    /\ Texts \subseteq [Paths -> SUBSET Paths]
    /\ Shards \in Nat \ {0}
    /\ Placements \subseteq [Paths -> 1 .. Shards]

VARIABLES
    config, placement,
    text,         \* what the file at each path imports
    present,      \* the files there are
    dependencies, \* what a file imports, if it was analyzed
    dependents,   \* who imports it
    resolved,     \* dependency_cache: imports that were resolved to paths
    pc,
    todo,         \* files a thread still has to analyze
    imports,      \* what it has read that the file imports
    targets,      \* files whose dependents it has yet to change
    shard,        \* the shard the search for circles takes its roots from
    visited, recStack, path,
    rest,         \* what each file on the path imports, less what was looked at
    circles,      \* that were found
    quiet,        \* history: no imports changed since the search began
    disturbed,    \* history: a clear and an update have overlapped
    calls, writes

graphVars == <<dependencies, dependents, resolved>>
updateVars == <<todo, imports, targets>>
searchVars == <<shard, visited, recStack, path, rest, circles>>
boundVars == <<text, present, calls, writes>>
vars == <<config, placement, boundVars, graphVars, pc, updateVars, searchVars, quiet, disturbed>>

-----------------------------------------------------------------------------

Init ==
    /\ config \in Configs
    /\ placement \in Placements
    /\ text \in Texts
    /\ present = Files
    /\ dependencies = [f \in {} |-> {}]
    /\ dependents = [f \in Paths |-> {}]
    /\ resolved = {}
    /\ pc = [t \in Threads |-> "idle"]
    /\ todo = [t \in Threads |-> <<>>]
    /\ imports = [t \in Threads |-> {}]
    /\ targets = [t \in Threads |-> {}]
    /\ shard = [t \in Threads |-> 0]
    /\ visited = [t \in Threads |-> {}]
    /\ recStack = [t \in Threads |-> {}]
    /\ path = [t \in Threads |-> <<>>]
    /\ rest = [t \in Threads |-> <<>>]
    /\ circles = [t \in Threads |-> {}]
    /\ quiet = [t \in Threads |-> FALSE]
    /\ disturbed = FALSE
    /\ calls = 0
    /\ writes = 0

(* Somebody edits, removes or adds a file.                                 *)
Write(f) ==
    /\ writes < MaxWrites
    /\ writes' = writes + 1
    /\ \/ /\ present' = present \ {f}
          /\ UNCHANGED text
       \/ /\ present' = present \cup {f}
          /\ \E other \in Texts :
                text' = [p \in Paths |-> IF FileAt[p] = f THEN other[p] ELSE text[p]]
    /\ UNCHANGED <<config, placement, calls, graphVars, pc, updateVars, searchVars, quiet, disturbed>>

Updating == {"read", "extract", "insert", "note"}
Clearing == {"clear", "clear dependents"}

Call(t, first) ==
    /\ pc[t] = "idle"
    /\ calls < MaxCalls
    /\ calls' = calls + 1
    /\ pc' = [pc EXCEPT ![t] = first]
    /\ disturbed' =
          (disturbed \/ \E u \in Threads :
              \/ first \in Updating /\ pc[u] \in Clearing
              \/ first \in Clearing /\ pc[u] \in Updating \cup Clearing)

Goto(t, from, to) ==
    /\ pc[t] = from
    /\ pc' = [pc EXCEPT ![t] = to]

-----------------------------------------------------------------------------
(* analyze_dependencies.                                                   *)

Analyze(t, list) ==
    /\ Call(t, "read")
    /\ todo' = [todo EXCEPT ![t] = list]
    /\ UNCHANGED <<config, placement, text, present, writes, graphVars, imports, targets, searchVars, quiet>>

File(t) == Head(todo[t])

IsThere(p) == FileAt[p] \in present

ReadFile(t) ==
    /\ Goto(t, "read", "extract")
    /\ todo[t] # <<>>
    /\ IsThere(File(t))
    /\ imports' = [imports EXCEPT ![t] = text[File(t)]]
    /\ UNCHANGED <<config, placement, boundVars, graphVars, todo, targets, searchVars, quiet, disturbed>>

SkipFile(t) ==
    /\ Goto(t, "read", "read")
    /\ todo[t] # <<>>
    /\ ~IsThere(File(t))
    /\ todo' = [todo EXCEPT ![t] = Tail(@)]
    /\ UNCHANGED <<config, placement, boundVars, graphVars, imports, targets, searchVars, quiet, disturbed>>

(* extract_file_metadata fails and ends the call.                          *)
FileIsGone(t) ==
    /\ Goto(t, "extract", "idle")
    /\ ~IsThere(File(t))
    /\ UNCHANGED <<config, placement, boundVars, graphVars, updateVars, searchVars, quiet, disturbed>>

(* extract_imports and resolve_import_path: what was resolved once is not  *)
(* looked for again, and what is resolved is kept as it was spelled.       *)
Extract(t) ==
    /\ Goto(t, "extract", "insert")
    /\ IsThere(File(t))
    /\ LET found == {d \in imports[t] : <<File(t), d>> \in resolved \/ IsThere(d)}
       IN /\ imports' = [imports EXCEPT ![t] = found]
          /\ resolved' = IF config.cache THEN resolved \cup ({File(t)} \X found) ELSE resolved
    /\ UNCHANGED <<config, placement, boundVars, dependencies, dependents, todo, targets, searchVars, quiet, disturbed>>

(* Mutant: the search copies what a file imports and lets go of the entry. *)
ReadingRoots(t) == IF pc[t] = "search" THEN {shard[t]} ELSE {}

(* The shards of which a thread holds the read lock.                       *)
Reading(t) ==
    IF pc[t] = "search"
    THEN {shard[t]} \cup {placement[f] : f \in ToSet(path[t]) \cap DOMAIN dependencies}
    ELSE {}

Writable(s) == \A t \in Threads : s \notin Reading(t)

(* update_dependency_graph.                                                *)
InsertDependencies(t) ==
    /\ Goto(t, "insert", "note")
    /\ Writable(placement[File(t)])
    /\ dependencies' =
          [f \in DOMAIN dependencies \cup {File(t)} |->
              IF f = File(t) THEN imports[t] ELSE dependencies[f]]
    /\ targets' = [targets EXCEPT ![t] = imports[t]]
    /\ quiet' = [u \in Threads |-> FALSE]
    /\ UNCHANGED <<config, placement, boundVars, dependents, resolved, todo, imports, searchVars, disturbed>>

(* Mutant: the newest dependent takes the place of the others.             *)
NoteDependentOnly(t) ==
    /\ pc[t] = "note"
    /\ \E d \in targets[t] :
          /\ dependents' = [dependents EXCEPT ![d] = {File(t)}]
          /\ targets' = [targets EXCEPT ![t] = @ \ {d}]
    /\ UNCHANGED <<config, placement, boundVars, dependencies, resolved, pc, todo, imports, searchVars, quiet, disturbed>>

(* Dependents are only ever added.                                         *)
NoteDependent(t) ==
    /\ pc[t] = "note"
    /\ \E d \in targets[t] :
          /\ dependents' = [dependents EXCEPT ![d] = @ \cup {File(t)}]
          /\ targets' = [targets EXCEPT ![t] = @ \ {d}]
    /\ UNCHANGED <<config, placement, boundVars, dependencies, resolved, pc, todo, imports, searchVars, quiet, disturbed>>

NextFile(t) ==
    /\ Goto(t, "note", "read")
    /\ targets[t] = {}
    /\ todo' = [todo EXCEPT ![t] = Tail(@)]
    /\ UNCHANGED <<config, placement, boundVars, graphVars, imports, targets, searchVars, quiet, disturbed>>

-----------------------------------------------------------------------------
(* detect_circular_dependencies.                                           *)

StartSearch(t) ==
    /\ shard' = [shard EXCEPT ![t] = 0]
    /\ visited' = [visited EXCEPT ![t] = {}]
    /\ recStack' = [recStack EXCEPT ![t] = {}]
    /\ circles' = [circles EXCEPT ![t] = {}]
    /\ quiet' = [quiet EXCEPT ![t] = TRUE]
    /\ UNCHANGED <<path, rest>>

AllAnalyzed(t) ==
    /\ todo[t] = <<>>
    /\ IF config.detect
       THEN Goto(t, "read", "search") /\ StartSearch(t)
       ELSE Goto(t, "read", "idle") /\ UNCHANGED <<searchVars, quiet>>
    /\ UNCHANGED <<config, placement, boundVars, graphVars, updateVars, disturbed>>

(* get_statistics counts the circles.                                      *)
GetStatistics(t) ==
    /\ Call(t, "search")
    /\ StartSearch(t)
    /\ UNCHANGED <<config, placement, text, present, writes, graphVars, updateVars>>

Searching(t) ==
    /\ pc[t] = "search"
    /\ UNCHANGED <<config, placement, boundVars, graphVars, updateVars, quiet, disturbed>>

RootsLeft(t) ==
    {f \in DOMAIN dependencies \ visited[t] : placement[f] = shard[t]}

NextShard(t) ==
    /\ Searching(t)
    /\ path[t] = <<>> /\ RootsLeft(t) = {}
    /\ shard[t] < Shards
    /\ shard' = [shard EXCEPT ![t] = @ + 1]
    /\ UNCHANGED <<pc, visited, recStack, path, rest, circles>>

SearchEnds(t) ==
    /\ Searching(t)
    /\ path[t] = <<>> /\ RootsLeft(t) = {}
    /\ shard[t] = Shards
    /\ pc' = [pc EXCEPT ![t] = "idle"]
    /\ visited' = [visited EXCEPT ![t] = {}]
    /\ UNCHANGED <<shard, recStack, path, rest, circles>>

ImportsOf(f) == IF f \in DOMAIN dependencies THEN dependencies[f] ELSE {}

(* dfs_cycle_detection is called for a file, after what is left to look at *)
(* further up is known.                                                    *)
Visit(t, f, left) ==
    /\ visited' = [visited EXCEPT ![t] = @ \cup {f}]
    /\ recStack' = [recStack EXCEPT ![t] = @ \cup {f}]
    /\ path' = [path EXCEPT ![t] = Append(@, f)]
    /\ rest' = [rest EXCEPT ![t] = Append(left, ImportsOf(f))]
    /\ UNCHANGED <<pc, shard, circles>>

Root(t) ==
    /\ Searching(t)
    /\ path[t] = <<>>
    /\ \E f \in RootsLeft(t) : Visit(t, f, <<>>)

Without(t, d) == [rest[t] EXCEPT ![Len(rest[t])] = @ \ {d}]

Descend(t) ==
    /\ Searching(t)
    /\ path[t] # <<>>
    /\ \E d \in Last(rest[t]) \ visited[t] : Visit(t, d, Without(t, d))

Pass(t) ==
    /\ Searching(t)
    /\ path[t] # <<>>
    /\ \E d \in Last(rest[t]) \cap (visited[t] \ recStack[t]) :
          rest' = [rest EXCEPT ![t] = Without(t, d)]
    /\ UNCHANGED <<pc, shard, visited, recStack, path, circles>>

(* All calls return at once, and the files on the path stay in recStack.   *)
FindCircle(t) ==
    /\ Searching(t)
    /\ \E i \in DOMAIN path[t] :
          /\ path[t][i] \in Last(rest[t])
          /\ circles' = [circles EXCEPT ![t] = @ \cup {SubSeq(path[t], i, Len(path[t]))}]
    /\ path' = [path EXCEPT ![t] = <<>>]
    /\ rest' = [rest EXCEPT ![t] = <<>>]
    /\ UNCHANGED <<pc, shard, visited, recStack>>

(* The file is in recStack and not on the path: there is no position to    *)
(* unwrap.                                                                 *)
Panic(t) ==
    /\ Searching(t)
    /\ path[t] # <<>>
    /\ Last(rest[t]) \cap (recStack[t] \ ToSet(path[t])) # {}
    /\ pc' = [pc EXCEPT ![t] = "panicked"]
    /\ UNCHANGED searchVars

Leave(t) ==
    /\ Searching(t)
    /\ path[t] # <<>> /\ Last(rest[t]) = {}
    /\ recStack' = [recStack EXCEPT ![t] = @ \ {Last(path[t])}]
    /\ path' = [path EXCEPT ![t] = Front(@)]
    /\ rest' = [rest EXCEPT ![t] = Front(@)]
    /\ UNCHANGED <<pc, shard, visited, circles>>

Search(t) ==
    \/ NextShard(t) \/ SearchEnds(t) \/ Root(t) \/ Descend(t) \/ Pass(t)
    \/ FindCircle(t) \/ Panic(t) \/ Leave(t)

-----------------------------------------------------------------------------
(* clear: one shard after the other, then the files' dependents one by     *)
(* one, then the cache.                                                    *)

Clear(t) ==
    /\ Call(t, "clear")
    /\ shard' = [shard EXCEPT ![t] = 1]
    /\ UNCHANGED <<config, placement, text, present, writes, graphVars, updateVars,
                   visited, recStack, path, rest, circles, quiet>>

ClearShard(t) ==
    /\ Goto(t, "clear", IF shard[t] = Shards THEN "clear dependents" ELSE "clear")
    /\ Writable(shard[t])
    /\ dependencies' =
          [f \in {g \in DOMAIN dependencies : placement[g] # shard[t]} |-> dependencies[f]]
    /\ shard' = [shard EXCEPT ![t] = @ + 1]
    /\ targets' = [targets EXCEPT ![t] = Paths]
    /\ quiet' = [u \in Threads |-> FALSE]
    /\ UNCHANGED <<config, placement, boundVars, dependents, resolved, todo, imports,
                   visited, recStack, path, rest, circles, disturbed>>

ClearDependents(t) ==
    /\ pc[t] = "clear dependents"
    /\ \E f \in targets[t] :
          /\ dependents' = [dependents EXCEPT ![f] = {}]
          /\ targets' = [targets EXCEPT ![t] = @ \ {f}]
    /\ UNCHANGED <<config, placement, boundVars, dependencies, resolved, pc, todo, imports, searchVars, quiet, disturbed>>

ClearCache(t) ==
    /\ Goto(t, "clear dependents", "idle")
    /\ targets[t] = {}
    /\ resolved' = {}
    /\ UNCHANGED <<config, placement, boundVars, dependencies, dependents, updateVars, searchVars, quiet, disturbed>>

-----------------------------------------------------------------------------

Step(t) ==
    \/ ReadFile(t) \/ SkipFile(t) \/ FileIsGone(t) \/ Extract(t)
    \/ InsertDependencies(t) \/ NoteDependent(t) \/ NextFile(t) \/ AllAnalyzed(t)
    \/ Search(t)
    \/ ClearShard(t) \/ ClearDependents(t) \/ ClearCache(t)

Next ==
    \/ \E f \in Files : Write(f)
    \/ \E t \in Threads :
          \/ \E list \in Lists : Analyze(t, list)
          \/ GetStatistics(t) \/ Clear(t)
          \/ Step(t)

Spec == Init /\ [][Next]_vars

-----------------------------------------------------------------------------

(* get_all_dependents: whatever can be reached over dependents.            *)
AllDependents(f) ==
    LET reached[n \in 0 .. Cardinality(Paths)] ==
            IF n = 0 THEN {f}
            ELSE reached[n - 1] \cup UNION {dependents[g] : g \in reached[n - 1]}
    IN reached[Cardinality(Paths)]

(* get_invalidation_targets; the smart strategy is the direct one.         *)
InvalidationTargets(f, strategy) ==
    CASE strategy = "file" -> {f}
      [] strategy = "direct" -> {f} \cup dependents[f]
      [] strategy = "tree" -> AllDependents(f)

(* The paths from which f can be reached over recorded imports.            *)
Importers(f) ==
    {g \in DOMAIN dependencies :
        \E n \in 1 .. Cardinality(Paths) : \E way \in [1 .. n -> Paths] :
            /\ way[1] = g
            /\ f \in ImportsOf(way[n])
            /\ \A i \in 1 .. n - 1 : way[i + 1] \in ImportsOf(way[i])}

Updated == \A t \in Threads : pc[t] \notin Updating \cup Clearing

(* Who imports a file directly is invalidated with it.                     *)
ImportNoted(g, f) == g \in InvalidationTargets(f, "direct")

(* Once nobody updates the graphs, a change at a path invalidates every    *)
(* file that imports it by that path, and with the whole tree all that do  *)
(* so over others, unless a clear has overlapped an analysis: the two      *)
(* graphs are written one after the other (update_dependency_graph,        *)
(* get_invalidation_targets, clear).  Who imports the same file by another *)
(* path is not found, since paths are compared as they are spelled.        *)
ImportersInvalidated ==
    Updated /\ ~disturbed =>
        /\ \A g \in DOMAIN dependencies : \A f \in dependencies[g] : ImportNoted(g, f)
        /\ \A f \in Paths : Importers(f) \subseteq InvalidationTargets(f, "tree")

IsCircle(c) ==
    /\ c # <<>>
    /\ \A i \in DOMAIN c :
          (IF i = Len(c) THEN c[1] ELSE c[i + 1]) \in ImportsOf(c[i])

(* What is reported is a circle at that moment.                            *)
CircleIsReal(t) == \A c \in circles'[t] \ circles[t] : IsCircle(c)

(* Only a search that has found a circle stumbles over its own recStack.   *)
PanicAfterCircle(t) ==
    pc[t] = "search" /\ pc'[t] = "panicked" => circles[t] # {}

Circular == \E f \in Paths : f \in Importers(f)

(* If the imports stood still, one was found if there is one.              *)
VerdictHolds(t) ==
    pc[t] = "search" /\ pc'[t] = "idle" /\ quiet[t] => (circles[t] # {} <=> Circular)

(* A circle is one when it is reported, whatever is analyzed or cleared    *)
(* meanwhile, since the files on it are locked; a search stumbles over its *)
(* own recStack only after it has found one; and it finds one if the       *)
(* imports stand still and there is one (detect_circular_dependencies).    *)
CirclesFound ==
    [][\A t \in Threads : CircleIsReal(t) /\ PanicAfterCircle(t) /\ VerdictHolds(t)]_vars
=============================================================================
