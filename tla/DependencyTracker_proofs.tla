---------------------- MODULE DependencyTracker_proofs ----------------------
(***************************************************************************)
(* Circles that are reported are real, one is found if there is one, and   *)
(* an import is noted on both sides.  The first needs that a path is one   *)
(* in the graph as it is at every moment, which the locks on its files     *)
(* keep up; the second that a file which is left imports finished files    *)
(* only, so that there is no way back to it; the third that a clear which  *)
(* overlaps nothing empties the imports before it empties the dependents.  *)
(* Who imports a file over others is then found by following the           *)
(* dependents as many times as there are files.                            *)
(***************************************************************************)
EXTENDS DependencyTracker, SumTheorems, SequenceTheorems, FiniteSetTheorems, TLAPS

Places == {"idle", "read", "extract", "insert", "note", "search", "panicked",
           "clear", "clear dependents"}

(* What holds of a thread's variables alone.                               *)
UpdateTypes ==
    /\ text \in [Paths -> SUBSET Paths]
    /\ placement \in [Paths -> 1 .. Shards]
    /\ DOMAIN dependencies \subseteq Paths
    /\ \A f \in DOMAIN dependencies : dependencies[f] \subseteq Paths
    /\ pc \in [Threads -> Places]
    /\ todo \in [Threads -> Seq(Paths)]
    /\ \A t \in Threads : pc[t] \in {"extract", "insert", "note"} => todo[t] # <<>>
    /\ imports \in [Threads -> SUBSET Paths]

SearchTypes ==
    /\ shard \in [Threads -> Nat]
    /\ visited \in [Threads -> SUBSET Paths]
    /\ recStack \in [Threads -> SUBSET Paths]
    /\ path \in [Threads -> Seq(Paths)]
    /\ rest \in [Threads -> Seq(SUBSET Paths)]
    /\ \A t \in Threads : Len(rest[t]) = Len(path[t])
    /\ circles \in [Threads -> SUBSET Seq(Paths)]

Types == UpdateTypes /\ SearchTypes

(* Every file on the path imports the next, and what is left to look at is *)
(* imported by the file it was read from.                                  *)
PathHolds(t) ==
    /\ \A i \in 1 .. Len(path[t]) : rest[t][i] \subseteq ImportsOf(path[t][i])
    /\ \A i \in 1 .. Len(path[t]) - 1 : path[t][i + 1] \in ImportsOf(path[t][i])

PathFact(t) ==
    /\ pc[t] \notin {"search", "panicked"} => path[t] = <<>>
    /\ pc[t] = "search" =>
          /\ PathHolds(t)
          /\ circles[t] = {} => recStack[t] \subseteq ToSet(path[t])

OnPaths == \A t \in Threads : PathFact(t)

-----------------------------------------------------------------------------

(* No action disturbs the types of what analyses and clears work on.       *)
LEMMA UpdateTypesOfStep ==
    ASSUME UpdateTypes, SearchTypes, [Next]_vars
    PROVE  UpdateTypes'
  <1>1. CASE \E f \in Files : Write(f)
    <2>1. PICK f \in Files : Write(f)  BY <1>1
    <2>2. text' \in [Paths -> SUBSET Paths]
      <3>1. CASE text' = text  BY <3>1 DEF UpdateTypes
      <3>2. CASE \E other \in Texts :
                    text' = [p \in Paths |-> IF FileAt[p] = f THEN other[p] ELSE text[p]]
        <4>1. PICK other \in Texts :
                  text' = [p \in Paths |-> IF FileAt[p] = f THEN other[p] ELSE text[p]]
          BY <3>2
        <4>2. other \in [Paths -> SUBSET Paths]  BY DependencyAssumption DEF DependencyAssumption
        <4> QED BY <4>1, <4>2 DEF UpdateTypes
      <3> QED BY <2>1, <3>1, <3>2 DEF Write
    <2> QED BY <2>1, <2>2 DEF UpdateTypes, Write, graphVars, updateVars
  <1>2. ASSUME NEW t \in Threads, NEW list \in Lists, Analyze(t, list)
        PROVE  UpdateTypes'
    <2>1. list \in Seq(Paths)  BY DependencyAssumption DEF DependencyAssumption
    <2>2. /\ pc' = [pc EXCEPT ![t] = "read"] /\ todo' = [todo EXCEPT ![t] = list]
          /\ UNCHANGED <<text, placement, dependencies, imports>>
      BY <1>2 DEF Analyze, Call, graphVars
    <2> QED BY <2>1, <2>2 DEF UpdateTypes, Places
  <1>3. ASSUME NEW t \in Threads, GetStatistics(t) \/ Clear(t)
        PROVE  UpdateTypes'
    <2>1. /\ pc' = [pc EXCEPT ![t] = "search"] \/ pc' = [pc EXCEPT ![t] = "clear"]
          /\ UNCHANGED <<text, placement, dependencies, todo, imports>>
      BY <1>3 DEF GetStatistics, Clear, Call, graphVars, updateVars
    <2> QED BY <2>1 DEF UpdateTypes, Places
  <1>4. ASSUME NEW t \in Threads, ReadFile(t)
        PROVE  UpdateTypes'
    <2>1. /\ pc' = [pc EXCEPT ![t] = "extract"] /\ todo[t] # <<>>
          /\ imports' = [imports EXCEPT ![t] = text[Head(todo[t])]]
          /\ UNCHANGED <<text, placement, dependencies, todo>>
      BY <1>4 DEF ReadFile, Goto, graphVars, boundVars, File
    <2>2. Head(todo[t]) \in Paths  BY <2>1 DEF UpdateTypes
    <2>3. text[Head(todo[t])] \in SUBSET Paths  BY <2>2 DEF UpdateTypes
    <2> QED BY <2>1, <2>3 DEF UpdateTypes, Places
  <1>5. ASSUME NEW t \in Threads, SkipFile(t) \/ NextFile(t)
        PROVE  UpdateTypes'
    <2>1. /\ pc' = [pc EXCEPT ![t] = "read"] /\ todo[t] # <<>>
          /\ todo' = [todo EXCEPT ![t] = Tail(todo[t])]
          /\ UNCHANGED <<text, placement, dependencies, imports>>
      BY <1>5 DEF SkipFile, NextFile, Goto, graphVars, boundVars, UpdateTypes
    <2>2. Tail(todo[t]) \in Seq(Paths)  BY <2>1 DEF UpdateTypes
    <2> QED BY <2>1, <2>2 DEF UpdateTypes, Places
  <1>6. ASSUME NEW t \in Threads, Extract(t)
        PROVE  UpdateTypes'
    <2> DEFINE found == {d \in imports[t] : <<File(t), d>> \in resolved \/ IsThere(d)}
    <2>1. /\ pc' = [pc EXCEPT ![t] = "insert"] /\ todo[t] # <<>>
          /\ imports' = [imports EXCEPT ![t] = found]
          /\ UNCHANGED <<text, placement, dependencies, todo>>
      BY <1>6 DEF Extract, Goto, boundVars, UpdateTypes
    <2>2. found \in SUBSET Paths  BY DEF UpdateTypes
    <2> QED BY <2>1, <2>2 DEF UpdateTypes, Places
  <1>7. ASSUME NEW t \in Threads, InsertDependencies(t)
        PROVE  UpdateTypes'
    <2>1. /\ pc[t] = "insert" /\ pc' = [pc EXCEPT ![t] = "note"]
          /\ dependencies' = [f \in DOMAIN dependencies \cup {File(t)} |->
                                 IF f = File(t) THEN imports[t] ELSE dependencies[f]]
          /\ UNCHANGED <<text, placement, todo, imports>>
      BY <1>7 DEF InsertDependencies, Goto, boundVars
    <2>2. todo[t] # <<>>  BY <2>1 DEF UpdateTypes
    <2>3. File(t) \in Paths  BY <2>2 DEF UpdateTypes, File
    <2>4. imports[t] \subseteq Paths  BY DEF UpdateTypes
    <2> QED BY <2>1, <2>2, <2>3, <2>4 DEF UpdateTypes, Places
  <1>8. ASSUME NEW t \in Threads, NoteDependent(t) \/ ClearDependents(t)
        PROVE  UpdateTypes'
    <2>1. UNCHANGED <<text, placement, dependencies, pc, todo, imports>>
      BY <1>8 DEF NoteDependent, ClearDependents, boundVars
    <2> QED BY <2>1 DEF UpdateTypes
  <1>9. ASSUME NEW t \in Threads, FileIsGone(t) \/ AllAnalyzed(t) \/ ClearCache(t) \/ Search(t)
        PROVE  UpdateTypes'
    <2>1. /\ UNCHANGED <<text, placement, dependencies, todo, imports>>
          /\ \/ pc' = pc \/ pc' = [pc EXCEPT ![t] = "idle"]
             \/ pc' = [pc EXCEPT ![t] = "search"] \/ pc' = [pc EXCEPT ![t] = "panicked"]
      <3>1. CASE FileIsGone(t) \/ AllAnalyzed(t) \/ ClearCache(t)
        BY <3>1 DEF FileIsGone, AllAnalyzed, ClearCache, Goto, graphVars, updateVars, boundVars
      <3>2. CASE Search(t)
        BY <3>2 DEF Search, NextShard, SearchEnds, Root, Descend, Pass, FindCircle, Panic, Leave,
                    Visit, Searching, graphVars, updateVars, boundVars
      <3> QED BY <1>9, <3>1, <3>2
    <2> QED BY <2>1 DEF UpdateTypes, Places
  <1>10. ASSUME NEW t \in Threads, ClearShard(t)
         PROVE  UpdateTypes'
    <2>1. /\ \/ pc' = [pc EXCEPT ![t] = "clear"]
             \/ pc' = [pc EXCEPT ![t] = "clear dependents"]
          /\ dependencies' = [f \in {g \in DOMAIN dependencies : placement[g] # shard[t]} |->
                                 dependencies[f]]
          /\ UNCHANGED <<text, placement, todo, imports>>
      BY <1>10 DEF ClearShard, Goto, boundVars
    <2> QED BY <2>1 DEF UpdateTypes, Places
  <1>11. CASE UNCHANGED vars
    BY <1>11 DEF UpdateTypes, vars, boundVars, graphVars, updateVars
  <1> QED
    BY <1>1, <1>2, <1>3, <1>4, <1>5, <1>6, <1>7, <1>8, <1>9, <1>10, <1>11 DEF Next, Step

-----------------------------------------------------------------------------

(* The front of a sequence and its last element.                           *)
LEMMA FrontAndLast ==
    ASSUME NEW S, NEW q \in Seq(S), q # <<>>
    PROVE  /\ Front(q) \in Seq(S) /\ Len(Front(q)) = Len(q) - 1
           /\ \A i \in 1 .. Len(q) - 1 : Front(q)[i] = q[i]
           /\ Last(q) \in S /\ Last(q) = q[Len(q)] /\ Len(q) \in Nat \ {0}
  <1>1. Len(q) \in Nat \ {0}  BY EmptySeq
  <1>2. \A i \in 1 .. Len(q) : q[i] \in S  BY ElementOfSeq
  <1>3. Last(q) \in S /\ Last(q) = q[Len(q)]  BY <1>1, <1>2 DEF Last
  <1>4. \A i \in 1 .. Len(q) - 1 : q[i] \in S  BY <1>1, <1>2
  <1>5. /\ Front(q) \in Seq(S) /\ Len(Front(q)) = Len(q) - 1
        /\ \A i \in 1 .. Len(q) - 1 : Front(q)[i] = q[i]
    <2>1. Len(q) - 1 \in Int /\ 1 \in Int  BY <1>1
    <2>2. /\ Front(q) \in Seq(S)
          /\ Len(Front(q)) = IF 1 <= Len(q) - 1 THEN (Len(q) - 1) - 1 + 1 ELSE 0
          /\ \A i \in 1 .. (Len(q) - 1) - 1 + 1 : Front(q)[i] = q[1 + i - 1]
      <3>1. Front(q) = SubSeq(q, 1, Len(q) - 1)  BY DEF Front
      <3> QED BY <2>1, <1>4, <3>1, SubSeqProperties
    <2>3. \A i \in 1 .. Len(q) - 1 : i \in 1 .. (Len(q) - 1) - 1 + 1 /\ 1 + i - 1 = i  BY <1>1
    <2>4. ASSUME NEW i \in 1 .. Len(q) - 1
          PROVE  Front(q)[i] = q[i]
      BY <2>2, <2>3, Zenon
    <2>5. Len(Front(q)) = Len(q) - 1
      <3>1. \A n \in Nat \ {0} : (IF 1 <= n - 1 THEN (n - 1) - 1 + 1 ELSE 0) = n - 1
        OBVIOUS
      <3> QED BY <2>2, <3>1, <1>1, Zenon
    <2> QED BY <2>2, <2>4, <2>5, Zenon
  <1> QED BY <1>1, <1>3, <1>5

(* Looking at an import leaves the others.                                 *)
LEMMA WithoutOne ==
    ASSUME SearchTypes, NEW t \in Threads, path[t] # <<>>, NEW d
    PROVE  /\ rest[t] # <<>>
           /\ Without(t, d) \in Seq(SUBSET Paths)
           /\ Len(Without(t, d)) = Len(path[t])
           /\ \A i \in 1 .. Len(path[t]) : Without(t, d)[i] \subseteq rest[t][i]
           /\ \A i \in 1 .. Len(path[t]) :
                 rest[t][i] \subseteq Without(t, d)[i] \cup (IF i = Len(path[t]) THEN {d} ELSE {})
           /\ Last(rest[t]) = rest[t][Len(path[t])]
           /\ Last(rest[t]) \subseteq Paths
  <1>1. /\ path[t] \in Seq(Paths) /\ rest[t] \in Seq(SUBSET Paths)
        /\ Len(rest[t]) = Len(path[t])
    BY DEF SearchTypes
  <1>2. rest[t] # <<>> /\ Len(path[t]) \in Nat \ {0}  BY <1>1, EmptySeq
  <1>3. Last(rest[t]) = rest[t][Len(path[t])] /\ Last(rest[t]) \subseteq Paths
    <2>1. Last(rest[t]) \in SUBSET Paths /\ Last(rest[t]) = rest[t][Len(rest[t])]
      BY <1>1, <1>2, FrontAndLast, Zenon
    <2> QED BY <1>1, <2>1
  <1>4. Len(path[t]) \in 1 .. Len(rest[t]) /\ rest[t][Len(path[t])] \ {d} \in SUBSET Paths
    BY <1>1, <1>2, <1>3
  <1>5. Without(t, d) = [rest[t] EXCEPT ![Len(path[t])] = rest[t][Len(path[t])] \ {d}]
    BY <1>1 DEF Without
  <1>6. /\ Without(t, d) \in Seq(SUBSET Paths)
        /\ Len(Without(t, d)) = Len(path[t])
        /\ \A i \in 1 .. Len(path[t]) :
              Without(t, d)[i] = IF i = Len(path[t]) THEN rest[t][Len(path[t])] \ {d} ELSE rest[t][i]
    BY <1>1, <1>4, <1>5, ExceptSeq
  <1> QED BY <1>2, <1>3, <1>6

(* A file a search visits is one of the files.                             *)
LEMMA VisitedIsFile ==
    ASSUME UpdateTypes, SearchTypes, NEW t \in Threads, NEW f \in Paths,
           NEW left \in Seq(SUBSET Paths), Len(left) = Len(path[t]), Visit(t, f, left)
    PROVE  SearchTypes'
  <1>1. ImportsOf(f) \in SUBSET Paths  BY DEF ImportsOf, UpdateTypes
  <1>2. /\ Append(path[t], f) \in Seq(Paths)
        /\ Append(left, ImportsOf(f)) \in Seq(SUBSET Paths)
        /\ Len(Append(left, ImportsOf(f))) = Len(Append(path[t], f))
    BY <1>1, AppendProperties DEF SearchTypes
  <1> QED BY <1>2 DEF SearchTypes, Visit

(* No action disturbs the types of what a search works on.                 *)
LEMMA SearchTypesOfStep ==
    ASSUME UpdateTypes, SearchTypes, [Next]_vars
    PROVE  SearchTypes'
  <1>1. CASE UNCHANGED searchVars
    BY <1>1 DEF SearchTypes, searchVars
  <1>2. ASSUME NEW t \in Threads, StartSearch(t)
        PROVE  SearchTypes'
    BY <1>2 DEF SearchTypes, StartSearch
  <1>3. ASSUME NEW t \in Threads, NextShard(t) \/ SearchEnds(t) \/ Clear(t) \/ ClearShard(t)
        PROVE  SearchTypes'
    <2>1. /\ shard' = shard \/ shard' = [shard EXCEPT ![t] = @ + 1] \/ shard' = [shard EXCEPT ![t] = 1]
          /\ visited' = visited \/ visited' = [visited EXCEPT ![t] = {}]
          /\ UNCHANGED <<recStack, path, rest, circles>>
      <3>1. CASE NextShard(t)  BY <3>1 DEF NextShard
      <3>2. CASE SearchEnds(t)  BY <3>2 DEF SearchEnds
      <3>3. CASE Clear(t)  BY <3>3 DEF Clear
      <3>4. CASE ClearShard(t)  BY <3>4 DEF ClearShard
      <3> QED BY <1>3, <3>1, <3>2, <3>3, <3>4
    <2>2. shard' \in [Threads -> Nat] /\ visited' \in [Threads -> SUBSET Paths]
      <3>1. shard \in [Threads -> Nat] /\ visited \in [Threads -> SUBSET Paths]
        BY DEF SearchTypes
      <3>2. shard[t] + 1 \in Nat /\ 1 \in Nat  BY <3>1
      <3>3. shard' \in [Threads -> Nat]
        <4>1. CASE shard' = shard  BY <4>1, <3>1
        <4>2. CASE shard' = [shard EXCEPT ![t] = @ + 1]  BY <4>2, <3>1, <3>2
        <4>3. CASE shard' = [shard EXCEPT ![t] = 1]  BY <4>3, <3>1
        <4> QED BY <2>1, <4>1, <4>2, <4>3
      <3> QED BY <2>1, <3>1, <3>3
    <2> QED BY <2>1, <2>2 DEF SearchTypes
  <1>4. ASSUME NEW t \in Threads, Root(t)
        PROVE  SearchTypes'
    <2>1. PICK f \in RootsLeft(t) : Visit(t, f, <<>>)  BY <1>4 DEF Root
    <2>2. f \in Paths  BY <2>1 DEF RootsLeft, UpdateTypes
    <2>3. <<>> \in Seq(SUBSET Paths) /\ Len(<<>>) = Len(path[t])
      BY <1>4, EmptySeq DEF Root
    <2> QED BY <2>1, <2>2, <2>3, VisitedIsFile
  <1>5. ASSUME NEW t \in Threads, Descend(t)
        PROVE  SearchTypes'
    <2>1. PICK d \in Last(rest[t]) \ visited[t] : Visit(t, d, Without(t, d))  BY <1>5 DEF Descend
    <2>2. /\ d \in Paths
          /\ Without(t, d) \in Seq(SUBSET Paths) /\ Len(Without(t, d)) = Len(path[t])
      BY <1>5, <2>1, WithoutOne DEF Descend
    <2> QED BY <2>1, <2>2, VisitedIsFile
  <1>6. ASSUME NEW t \in Threads, Pass(t)
        PROVE  SearchTypes'
    <2>1. PICK d : rest' = [rest EXCEPT ![t] = Without(t, d)]  BY <1>6 DEF Pass
    <2>2. Without(t, d) \in Seq(SUBSET Paths) /\ Len(Without(t, d)) = Len(path[t])
      BY <1>6, WithoutOne DEF Pass
    <2> QED BY <1>6, <2>1, <2>2 DEF SearchTypes, Pass
  <1>7. ASSUME NEW t \in Threads, FindCircle(t)
        PROVE  SearchTypes'
    <2>1. PICK i \in DOMAIN path[t] :
             circles' = [circles EXCEPT ![t] = @ \cup {SubSeq(path[t], i, Len(path[t]))}]
      BY <1>7 DEF FindCircle
    <2>2. SubSeq(path[t], i, Len(path[t])) \in Seq(Paths)
      <3>1. path[t] \in Seq(Paths) /\ i \in 1 .. Len(path[t]) /\ Len(path[t]) \in Nat
        BY <2>1, LenProperties DEF SearchTypes
      <3>2. \A j \in i .. Len(path[t]) : path[t][j] \in Paths  BY <3>1, ElementOfSeq
      <3> QED BY <3>1, <3>2, SubSeqProperties
    <2>3. /\ path' = [path EXCEPT ![t] = <<>>] /\ rest' = [rest EXCEPT ![t] = <<>>]
          /\ UNCHANGED <<shard, visited, recStack>>
      BY <1>7 DEF FindCircle
    <2>4. <<>> \in Seq(Paths) /\ <<>> \in Seq(SUBSET Paths)  BY EmptySeq
    <2>5. circles' \in [Threads -> SUBSET Seq(Paths)]
      BY <2>1, <2>2 DEF SearchTypes
    <2>6. /\ path' \in [Threads -> Seq(Paths)] /\ rest' \in [Threads -> Seq(SUBSET Paths)]
          /\ \A u \in Threads : Len(rest'[u]) = Len(path'[u])
      BY <2>3, <2>4 DEF SearchTypes
    <2> QED BY <2>3, <2>5, <2>6 DEF SearchTypes
  <1>8. ASSUME NEW t \in Threads, Leave(t)
        PROVE  SearchTypes'
    <2>1. rest[t] # <<>>  BY <1>8, WithoutOne DEF Leave
    <2>2. /\ Front(path[t]) \in Seq(Paths) /\ Front(rest[t]) \in Seq(SUBSET Paths)
          /\ Len(Front(rest[t])) = Len(Front(path[t]))
      <3>1. path[t] # <<>> /\ path[t] \in Seq(Paths) /\ rest[t] \in Seq(SUBSET Paths)
            /\ Len(rest[t]) = Len(path[t])
        BY <1>8 DEF Leave, SearchTypes
      <3>2. Front(path[t]) \in Seq(Paths) /\ Len(Front(path[t])) = Len(path[t]) - 1
        BY <3>1, FrontAndLast, Zenon
      <3>3. Front(rest[t]) \in Seq(SUBSET Paths) /\ Len(Front(rest[t])) = Len(rest[t]) - 1
        BY <2>1, <3>1, FrontAndLast, Zenon
      <3> QED BY <3>1, <3>2, <3>3
    <2> QED BY <1>8, <2>2 DEF SearchTypes, Leave
  <1> DEFINE Searched ==
        \E t \in Threads :
            \/ StartSearch(t) \/ NextShard(t) \/ SearchEnds(t) \/ Clear(t) \/ ClearShard(t)
            \/ Root(t) \/ Descend(t) \/ Pass(t) \/ FindCircle(t) \/ Leave(t)
  <1>9. ASSUME ~UNCHANGED searchVars
        PROVE  Searched
    <2>1. CASE \E f \in Files : Write(f)  BY <1>9, <2>1 DEF Write
    <2>2. CASE \E t \in Threads : \E list \in Lists : Analyze(t, list)  BY <1>9, <2>2 DEF Analyze
    <2>3. CASE \E t \in Threads : GetStatistics(t) \/ Clear(t)
      BY <1>9, <2>3 DEF GetStatistics
    <2>4. ASSUME NEW t \in Threads, Step(t)
          PROVE  Searched
      <3>1. CASE ReadFile(t) \/ SkipFile(t) \/ FileIsGone(t) \/ Extract(t)
        BY <1>9, <3>1 DEF ReadFile, SkipFile, FileIsGone, Extract
      <3>2. CASE InsertDependencies(t) \/ NoteDependent(t) \/ NextFile(t) \/ ClearDependents(t) \/ ClearCache(t)
        BY <1>9, <3>2 DEF InsertDependencies, NoteDependent, NextFile, ClearDependents, ClearCache
      <3>3. CASE AllAnalyzed(t)  BY <1>9, <3>3 DEF AllAnalyzed
      <3>4. CASE Search(t) \/ ClearShard(t)  BY <1>9, <3>4 DEF Search, Panic
      <3> QED BY <2>4, <3>1, <3>2, <3>3, <3>4 DEF Step
    <2>5. CASE UNCHANGED vars  BY <1>9, <2>5 DEF vars
    <2> QED BY <2>1, <2>2, <2>3, <2>4, <2>5 DEF Next
  <1> QED BY <1>1, <1>2, <1>3, <1>4, <1>5, <1>6, <1>7, <1>8, <1>9

-----------------------------------------------------------------------------

(* While a search is on a path nobody takes away what its files import.    *)
LEMMA Locked ==
    ASSUME UpdateTypes, SearchTypes, NEW t \in Threads,
           InsertDependencies(t) \/ ClearShard(t),
           NEW u \in Threads, pc[u] = "search",
           NEW f \in ToSet(path[u])
    PROVE  ImportsOf(f) \subseteq ImportsOf(f)'
  <1>1. CASE f \notin DOMAIN dependencies
    BY <1>1 DEF ImportsOf
  <1>2. CASE f \in DOMAIN dependencies
    <2>1. placement[f] \in Reading(u)  BY <1>2 DEF Reading
    <2>2. CASE InsertDependencies(t)
      <3>1. File(t) # f  BY <2>1, <2>2 DEF InsertDependencies, Writable
      <3>2. dependencies' = [g \in DOMAIN dependencies \cup {File(t)} |->
                                IF g = File(t) THEN imports[t] ELSE dependencies[g]]
        BY <2>2 DEF InsertDependencies
      <3> QED BY <1>2, <3>1, <3>2 DEF ImportsOf
    <2>3. CASE ClearShard(t)
      <3>1. placement[f] # shard[t]  BY <2>1, <2>3 DEF ClearShard, Writable
      <3>2. dependencies' = [g \in {h \in DOMAIN dependencies : placement[h] # shard[t]} |->
                                dependencies[g]]
        BY <2>3 DEF ClearShard
      <3> QED BY <1>2, <3>1, <3>2 DEF ImportsOf
    <2> QED BY <2>2, <2>3
  <1> QED BY <1>1, <1>2

(* A thread that does nothing stays on its path.                           *)
LEMMA PathStays ==
    ASSUME SearchTypes, NEW u \in Threads, PathFact(u),
           pc'[u] = pc[u] \/ {pc[u], pc'[u]} \cap {"search", "panicked"} = {},
           path'[u] = path[u], rest'[u] = rest[u],
           recStack'[u] = recStack[u], circles'[u] = circles[u],
           pc[u] = "search" => \A f \in ToSet(path[u]) : ImportsOf(f) \subseteq ImportsOf(f)'
    PROVE  PathFact(u)'
  <1>1. pc'[u] = "search" => pc[u] = "search"  OBVIOUS
  <1>2. ASSUME pc'[u] = "search"
        PROVE  PathHolds(u)' /\ (circles'[u] = {} => recStack'[u] \subseteq ToSet(path'[u]))
    <2>1. pc[u] = "search" /\ PathHolds(u)  BY <1>1, <1>2 DEF PathFact
    <2>2. DOMAIN path[u] = 1 .. Len(path[u]) /\ Len(path[u]) \in Nat
      BY LenProperties DEF SearchTypes
    <2>3. \A i \in 1 .. Len(path[u]) : \A f : f = path[u][i] => ImportsOf(f) \subseteq ImportsOf(f)'
      BY <2>1, <2>2 DEF ToSet
    <2>4. (\A i \in 1 .. Len(path[u]) : rest[u][i] \subseteq ImportsOf(path[u][i]))'
      BY <2>1, <2>3 DEF PathHolds, ImportsOf
    <2>5. (\A i \in 1 .. Len(path[u]) - 1 : path[u][i + 1] \in ImportsOf(path[u][i]))'
      <3>1. \A n \in Nat : \A i \in 1 .. n - 1 : i \in 1 .. n  OBVIOUS
      <3>2. \A i \in 1 .. Len(path[u]) - 1 : i \in 1 .. Len(path[u])  BY <2>2, <3>1
      <3>3. \A i \in 1 .. Len(path[u]) - 1 : \A f : f = path[u][i] =>
               ImportsOf(f) \subseteq ImportsOf(f)' /\ path[u][i + 1] \in ImportsOf(f)
        BY <2>1, <2>3, <3>2 DEF PathHolds
      <3> QED BY <3>3, Zenon DEF ImportsOf
    <2>6. PathHolds(u)'  BY <2>4, <2>5 DEF PathHolds
    <2>7. circles'[u] = {} => recStack'[u] \subseteq ToSet(path'[u])
      BY <2>1 DEF PathFact, ToSet
    <2> QED BY <2>6, <2>7
  <1>3. pc'[u] \notin {"search", "panicked"} => path'[u] = <<>>  BY DEF PathFact
  <1> QED BY <1>2, <1>3 DEF PathFact

(* A path is made longer by a file that its last one imports.              *)
LEMMA VisitExtends ==
    ASSUME UpdateTypes, SearchTypes, NEW t \in Threads, PathFact(t),
           pc[t] = "search", dependencies' = dependencies,
           NEW f \in Paths, NEW left \in Seq(SUBSET Paths), Len(left) = Len(path[t]),
           \A i \in 1 .. Len(path[t]) : left[i] \subseteq rest[t][i],
           path[t] # <<>> => f \in ImportsOf(path[t][Len(path[t])]),
           Visit(t, f, left)
    PROVE  PathFact(t)'
  <1> DEFINE n == Len(path[t])
  <1>1. path[t] \in Seq(Paths) /\ ImportsOf(f) \in SUBSET Paths
    BY DEF SearchTypes, ImportsOf, UpdateTypes
  <1>2. /\ path'[t] = Append(path[t], f) /\ rest'[t] = Append(left, ImportsOf(f))
        /\ recStack'[t] = recStack[t] \cup {f}
        /\ pc'[t] = pc[t] /\ circles'[t] = circles[t]
    BY DEF Visit, SearchTypes
  <1>3. /\ n \in Nat /\ Len(path'[t]) = n + 1 /\ path'[t] \in Seq(Paths)
        /\ \A i \in 1 .. n : path'[t][i] = path[t][i]
        /\ path'[t][n + 1] = f
    BY <1>1, <1>2, AppendProperties, LenProperties
  <1>4. /\ \A i \in 1 .. n : rest'[t][i] = left[i]
        /\ rest'[t][n + 1] = ImportsOf(f)
    BY <1>1, <1>2, AppendProperties
  <1>5. \A i \in 1 .. n + 1 : i \in 1 .. n \/ i = n + 1  BY <1>3
  <1>6. \A i \in 1 .. n + 1 : \A g : g = path'[t][i] => rest'[t][i] \subseteq ImportsOf(g)
    BY <1>3, <1>4, <1>5 DEF PathFact, PathHolds
  <1>7. ASSUME NEW i \in 1 .. n
        PROVE  \A g : g = path'[t][i] => path'[t][i + 1] \in ImportsOf(g)
    <2>1. CASE i = n
      <3>1. path[t] # <<>>  BY <1>1, <2>1, EmptySeq
      <3> QED BY <1>3, <2>1, <3>1
    <2>2. CASE i # n
      <3>1. i \in 1 .. n - 1 /\ i + 1 \in 1 .. n  BY <1>3, <2>2
      <3> QED BY <1>3, <3>1 DEF PathFact, PathHolds
    <2> QED BY <2>1, <2>2
  <1>8. PathHolds(t)'
    <2>1. Len(path'[t]) = n + 1 /\ Len(path'[t]) - 1 = n  BY <1>3
    <2>2. (\A i \in 1 .. Len(path[t]) : rest[t][i] \subseteq ImportsOf(path[t][i]))'
      BY <1>6, <2>1, Zenon DEF ImportsOf
    <2>3. (\A i \in 1 .. Len(path[t]) - 1 : path[t][i + 1] \in ImportsOf(path[t][i]))'
      BY <1>7, <2>1, Zenon DEF ImportsOf
    <2> QED BY <2>2, <2>3 DEF PathHolds
  <1>9. circles'[t] = {} => recStack'[t] \subseteq ToSet(path'[t])
    <2>1. DOMAIN path[t] = 1 .. n /\ DOMAIN path'[t] = 1 .. n + 1
      BY <1>1, <1>3, LenProperties
    <2>2. ToSet(path[t]) \cup {f} \subseteq ToSet(path'[t])
      <3>1. 1 .. n \subseteq 1 .. n + 1 /\ n + 1 \in 1 .. n + 1  BY <1>3
      <3> QED BY <1>3, <2>1, <3>1 DEF ToSet
    <2> QED BY <1>2, <2>2 DEF PathFact
  <1> QED BY <1>2, <1>8, <1>9 DEF PathFact

(* Looking at one more import, or leaving the last file, keeps the path.   *)
LEMMA PathShrinks ==
    ASSUME SearchTypes, NEW t \in Threads, PathFact(t), dependencies' = dependencies,
           Pass(t) \/ Leave(t)
    PROVE  PathFact(t)'
  <1>0. /\ path[t] \in Seq(Paths) /\ Len(path[t]) \in Nat /\ DOMAIN path[t] = 1 .. Len(path[t])
        /\ rest[t] \in Seq(SUBSET Paths) /\ Len(rest[t]) = Len(path[t])
        /\ path[t] # <<>> /\ rest[t] # <<>> /\ pc[t] = "search" /\ pc'[t] = "search"
    <2>1. path[t] # <<>> /\ pc[t] = "search" /\ pc' = pc  BY DEF Pass, Leave, Searching
    <2>2. rest[t] # <<>>  BY <2>1, WithoutOne
    <2> QED BY <2>1, <2>2, LenProperties DEF SearchTypes
  <1>1. CASE Pass(t)
    <2>1. PICK d : rest' = [rest EXCEPT ![t] = Without(t, d)]  BY <1>1 DEF Pass
    <2>2. rest'[t] = Without(t, d) /\ UNCHANGED <<path, recStack, circles>>
      BY <1>1, <2>1 DEF SearchTypes, Pass
    <2>3. \A i \in 1 .. Len(path[t]) : rest'[t][i] \subseteq rest[t][i]
      BY <1>0, <2>2, WithoutOne
    <2>4. (\A i \in 1 .. Len(path[t]) : rest[t][i] \subseteq ImportsOf(path[t][i]))'
      BY <1>0, <2>2, <2>3 DEF PathFact, PathHolds, ImportsOf
    <2>5. (\A i \in 1 .. Len(path[t]) - 1 : path[t][i + 1] \in ImportsOf(path[t][i]))'
      BY <1>0, <2>2 DEF PathFact, PathHolds, ImportsOf
    <2> QED BY <1>0, <2>2, <2>4, <2>5 DEF PathFact, PathHolds, ToSet
  <1>2. CASE Leave(t)
    <2>1. /\ path'[t] = Front(path[t]) /\ rest'[t] = Front(rest[t])
          /\ recStack'[t] = recStack[t] \ {Last(path[t])}
          /\ circles'[t] = circles[t]
      BY <1>2 DEF Leave, SearchTypes
    <2>2. /\ path'[t] \in Seq(Paths) /\ Len(path'[t]) = Len(path[t]) - 1
          /\ \A i \in 1 .. Len(path[t]) - 1 : path'[t][i] = path[t][i]
          /\ Last(path[t]) = path[t][Len(path[t])]
      <3>1. \A q \in Seq(Paths) : q # <<>> =>
               /\ Front(q) \in Seq(Paths) /\ Len(Front(q)) = Len(q) - 1
               /\ \A i \in 1 .. Len(q) - 1 : Front(q)[i] = q[i]
               /\ Last(q) = q[Len(q)]
        BY FrontAndLast, Zenon
      <3> QED BY <1>0, <2>1, <3>1, Zenon
    <2>3. \A i \in 1 .. Len(path[t]) - 1 : rest'[t][i] = rest[t][i]
      <3>1. \A q \in Seq(SUBSET Paths) : q # <<>> =>
               \A i \in 1 .. Len(q) - 1 : Front(q)[i] = q[i]
        BY FrontAndLast, Zenon
      <3> QED BY <1>0, <2>1, <3>1, Zenon
    <2>4. /\ \A i \in 1 .. Len(path[t]) - 1 : i \in 1 .. Len(path[t])
          /\ \A i \in 1 .. Len(path'[t]) - 1 : i \in 1 .. Len(path[t]) - 1
          /\ \A i \in 1 .. Len(path'[t]) - 1 : i + 1 \in 1 .. Len(path[t]) - 1
          /\ \A i \in 1 .. Len(path[t]) : i \in 1 .. Len(path[t]) - 1 \/ i = Len(path[t])
      BY <1>0, <2>2
    <2>5. (\A i \in 1 .. Len(path[t]) : rest[t][i] \subseteq ImportsOf(path[t][i]))'
      <3>1. \A i \in 1 .. Len(path[t]) - 1 : \A g : g = path'[t][i] => rest'[t][i] \subseteq ImportsOf(g)
        BY <1>0, <2>2, <2>3, <2>4 DEF PathFact, PathHolds
      <3> QED BY <2>2, <3>1, Zenon DEF ImportsOf
    <2>6. (\A i \in 1 .. Len(path[t]) - 1 : path[t][i + 1] \in ImportsOf(path[t][i]))'
      <3>1. \A i \in 1 .. Len(path'[t]) - 1 : \A g : g = path'[t][i] => path'[t][i + 1] \in ImportsOf(g)
        <4>1. \A i \in 1 .. Len(path'[t]) - 1 :
                 path'[t][i] = path[t][i] /\ path'[t][i + 1] = path[t][i + 1]
          BY <2>2, <2>4, Zenon
        <4> QED BY <1>0, <2>4, <4>1 DEF PathFact, PathHolds
      <3> QED BY <3>1, Zenon DEF ImportsOf
    <2>7. circles'[t] = {} => recStack'[t] \subseteq ToSet(path'[t])
      <3>1. DOMAIN path'[t] = 1 .. Len(path[t]) - 1  BY <2>2, LenProperties
      <3>2. ToSet(path[t]) \ {Last(path[t])} \subseteq ToSet(path'[t])
        BY <1>0, <2>2, <2>4, <3>1 DEF ToSet
      <3> QED BY <1>0, <2>1, <3>2 DEF PathFact
    <2> QED BY <1>0, <2>5, <2>6, <2>7 DEF PathFact, PathHolds
  <1> QED BY <1>1, <1>2

(* Every step of every thread keeps every thread's path.                   *)
LEMMA PathsOfStep ==
    ASSUME UpdateTypes, SearchTypes, OnPaths, [Next]_vars
    PROVE  OnPaths'
  <1> DEFINE Stays(u) ==
        /\ pc'[u] = pc[u] \/ {pc[u], pc'[u]} \cap {"search", "panicked"} = {}
        /\ path'[u] = path[u] /\ rest'[u] = rest[u]
        /\ recStack'[u] = recStack[u] /\ circles'[u] = circles[u]
  <1>1. ASSUME NEW u \in Threads, Stays(u), dependencies' = dependencies
        PROVE  PathFact(u)'
    <2>1. \A f : ImportsOf(f) \subseteq ImportsOf(f)'  BY <1>1 DEF ImportsOf
    <2>2. PathFact(u)  BY DEF OnPaths
    <2> QED BY <1>1, <2>1, <2>2, PathStays
  <1>2. ASSUME NEW t \in Threads, PathFact(t)', dependencies' = dependencies,
               \A u \in Threads : u # t => Stays(u)
        PROVE  OnPaths'
    <2>1. ASSUME NEW u \in Threads  PROVE PathFact(u)'
      <3>1. CASE u = t  BY <1>2, <3>1
      <3>2. CASE u # t
        <4>1. Stays(u)  BY <1>2, <3>2
        <4> QED BY <1>1, <1>2, <4>1
      <3> QED BY <3>1, <3>2
    <2> QED BY <2>1 DEF OnPaths
  <1>3. ASSUME \A u \in Threads : Stays(u), dependencies' = dependencies
        PROVE  OnPaths'
    BY <1>1, <1>3 DEF OnPaths
  <1>4. CASE (\E f \in Files : Write(f)) \/ UNCHANGED vars
    <2>1. UNCHANGED <<dependencies, pc, path, rest, recStack, circles>>
      BY <1>4 DEF Write, vars, graphVars, searchVars
    <2> QED BY <1>3, <2>1
  <1>5. ASSUME NEW t \in Threads,
               \/ \E list \in Lists : Analyze(t, list)
               \/ Clear(t) \/ ReadFile(t) \/ SkipFile(t) \/ FileIsGone(t) \/ Extract(t)
               \/ NoteDependent(t) \/ NextFile(t) \/ ClearDependents(t) \/ ClearCache(t)
        PROVE  OnPaths'
    <2>1. /\ UNCHANGED <<dependencies, path, rest, recStack, circles>>
          /\ \/ pc' = pc
             \/ /\ pc[t] \notin {"search", "panicked"}
                /\ \E to \in Places \ {"search", "panicked"} : pc' = [pc EXCEPT ![t] = to]
      <3>1. CASE \E list \in Lists : Analyze(t, list)
        BY <3>1 DEF Analyze, Call, Places, graphVars, searchVars
      <3>2. CASE Clear(t)  BY <3>2 DEF Clear, Call, Places, graphVars
      <3>3. CASE ReadFile(t) \/ SkipFile(t) \/ FileIsGone(t)
        BY <3>3 DEF ReadFile, SkipFile, FileIsGone, Goto, Places, graphVars, searchVars
      <3>4. CASE Extract(t)
        BY <3>4 DEF Extract, Goto, Places, searchVars
      <3>5. CASE NextFile(t) \/ ClearCache(t)
        BY <3>5 DEF NextFile, ClearCache, Goto, Places, graphVars, searchVars
      <3>6. CASE NoteDependent(t) \/ ClearDependents(t)
        BY <3>6 DEF NoteDependent, ClearDependents, searchVars
      <3> QED BY <1>5, <3>1, <3>2, <3>3, <3>4, <3>5, <3>6
    <2>2. \A u \in Threads : Stays(u)
      BY <2>1 DEF UpdateTypes, Places
    <2> QED BY <1>3, <2>1, <2>2
  <1>6. ASSUME NEW t \in Threads, AllAnalyzed(t) \/ GetStatistics(t)
        PROVE  OnPaths'
    <2>1. /\ pc[t] \notin {"search", "panicked"}
          /\ dependencies' = dependencies
      BY <1>6 DEF AllAnalyzed, GetStatistics, Call, Goto, graphVars
    <2>2. path[t] = <<>>  BY <2>1 DEF OnPaths, PathFact
    <2>3. CASE StartSearch(t)
      <3>1. /\ UNCHANGED <<path, rest>> /\ recStack' = [recStack EXCEPT ![t] = {}]
            /\ circles' = [circles EXCEPT ![t] = {}]
        BY <2>3 DEF StartSearch
      <3>2. pc' = [pc EXCEPT ![t] = "search"] \/ pc' = [pc EXCEPT ![t] = "idle"]
        BY <1>6 DEF AllAnalyzed, GetStatistics, Call, Goto
      <3>3. PathFact(t)'
        <4>1. path'[t] = <<>> /\ recStack'[t] = {}  BY <2>2, <3>1 DEF SearchTypes
        <4>2. PathHolds(t)'
          <5>1. Len(path'[t]) = 0  BY <4>1, EmptySeq
          <5> QED BY <5>1 DEF PathHolds
        <4> QED BY <4>1, <4>2 DEF PathFact
      <3>4. \A u \in Threads : u # t => Stays(u)
        BY <3>1, <3>2 DEF UpdateTypes, SearchTypes
      <3> QED BY <1>2, <2>1, <3>3, <3>4
    <2>4. CASE UNCHANGED searchVars /\ pc' = [pc EXCEPT ![t] = "idle"]
      <3>1. \A u \in Threads : Stays(u)
        BY <2>1, <2>4 DEF UpdateTypes, searchVars
      <3> QED BY <1>3, <2>1, <3>1
    <2> QED BY <1>6, <2>3, <2>4 DEF AllAnalyzed, GetStatistics, Goto
  <1>7. ASSUME NEW t \in Threads, InsertDependencies(t) \/ ClearShard(t)
        PROVE  OnPaths'
    <2>1. /\ UNCHANGED <<path, rest, recStack, circles>>
          /\ pc[t] \notin {"search", "panicked"}
          /\ \E to \in Places \ {"search", "panicked"} : pc' = [pc EXCEPT ![t] = to]
      <3>1. CASE InsertDependencies(t)
        BY <3>1 DEF InsertDependencies, Goto, Places, searchVars
      <3>2. CASE ClearShard(t)
        BY <3>2 DEF ClearShard, Goto, Places
      <3> QED BY <1>7, <3>1, <3>2
    <2>2. \A u \in Threads : Stays(u)
      BY <2>1 DEF UpdateTypes, Places
    <2>3. ASSUME NEW u \in Threads  PROVE PathFact(u)'
      <3>1. PathFact(u)  BY DEF OnPaths
      <3>2. pc[u] = "search" => \A f \in ToSet(path[u]) : ImportsOf(f) \subseteq ImportsOf(f)'
        BY <1>7, Locked
      <3>3. Stays(u)  BY <2>2
      <3> QED BY <3>1, <3>2, <3>3, PathStays
    <2> QED BY <2>3 DEF OnPaths
  <1>8. ASSUME NEW t \in Threads, Search(t)
        PROVE  OnPaths'
    <2>1. pc[t] = "search" /\ dependencies' = dependencies /\ PathFact(t)
      BY <1>8 DEF Search, NextShard, SearchEnds, Root, Descend, Pass, FindCircle, Panic, Leave,
                  Searching, graphVars, OnPaths
    <2>2. /\ path[t] \in Seq(Paths) /\ Len(path[t]) \in Nat
          /\ rest[t] \in Seq(SUBSET Paths) /\ Len(rest[t]) = Len(path[t])
      BY LenProperties DEF SearchTypes
    <2>3. \A u \in Threads : u # t => Stays(u)
      <3>1. CASE NextShard(t) \/ SearchEnds(t) \/ Panic(t)
        BY <3>1 DEF NextShard, SearchEnds, Panic, UpdateTypes, searchVars
      <3>2. CASE Root(t) \/ Descend(t)
        BY <3>2 DEF Root, Descend, Visit, SearchTypes
      <3>3. CASE Pass(t) \/ FindCircle(t) \/ Leave(t)
        BY <3>3 DEF Pass, FindCircle, Leave, SearchTypes
      <3> QED BY <1>8, <3>1, <3>2, <3>3 DEF Search
    <2>4. PathFact(t)'
      <3>1. CASE NextShard(t)
        <4>1. Stays(t)  BY <3>1 DEF NextShard
        <4> QED BY <1>1, <2>1, <4>1
      <3>2. CASE SearchEnds(t) \/ Panic(t)
        <4>1. /\ UNCHANGED path
              /\ \/ pc'[t] = "panicked"
                 \/ pc'[t] = "idle" /\ path[t] = <<>>
          BY <3>2 DEF SearchEnds, Panic, UpdateTypes, searchVars
        <4> QED BY <4>1 DEF PathFact
      <3>3. CASE Root(t)
        <4>1. PICK f \in RootsLeft(t) : Visit(t, f, <<>>)  BY <3>3 DEF Root
        <4>2. f \in Paths /\ path[t] = <<>>  BY <3>3, <4>1 DEF Root, RootsLeft, UpdateTypes
        <4>3. <<>> \in Seq(SUBSET Paths) /\ Len(path[t]) = 0 /\ Len(<<>>) = 0
          BY <4>2, EmptySeq
        <4>4. /\ Len(<<>>) = Len(path[t])
              /\ \A i \in 1 .. Len(path[t]) : <<>>[i] \subseteq rest[t][i]
          BY <4>3
        <4> QED BY <2>1, <4>1, <4>2, <4>3, <4>4, VisitExtends
      <3>4. CASE Descend(t)
        <4>1. PICK d \in Last(rest[t]) \ visited[t] : Visit(t, d, Without(t, d))
          BY <3>4 DEF Descend
        <4>2. path[t] # <<>>  BY <3>4 DEF Descend
        <4>3. /\ Without(t, d) \in Seq(SUBSET Paths)
              /\ Len(Without(t, d)) = Len(path[t])
              /\ \A i \in 1 .. Len(path[t]) : Without(t, d)[i] \subseteq rest[t][i]
              /\ Last(rest[t]) = rest[t][Len(path[t])]
              /\ Last(rest[t]) \subseteq Paths
          BY <4>2, WithoutOne
        <4>4. Len(path[t]) \in 1 .. Len(path[t])  BY <2>2, <4>2, EmptySeq
        <4>5. d \in ImportsOf(path[t][Len(path[t])])
          BY <2>1, <4>1, <4>3, <4>4 DEF PathFact, PathHolds
        <4> QED BY <2>1, <4>1, <4>3, <4>5, VisitExtends
      <3>5. CASE Pass(t) \/ Leave(t)
        BY <2>1, <3>5, PathShrinks
      <3>6. CASE FindCircle(t)
        <4>1. path'[t] = <<>> /\ pc'[t] = pc[t] /\ circles'[t] # {}
          BY <3>6 DEF FindCircle, SearchTypes
        <4>2. PathHolds(t)'
          <5>1. Len(path'[t]) = 0  BY <4>1, EmptySeq
          <5> QED BY <5>1 DEF PathHolds
        <4> QED BY <4>1, <4>2 DEF PathFact
      <3> QED BY <1>8, <3>1, <3>2, <3>3, <3>4, <3>5, <3>6 DEF Search
    <2> QED BY <1>2, <2>1, <2>3, <2>4
  <1> QED
    BY <1>4, <1>5, <1>6, <1>7, <1>8 DEF Next, Step

(* While threads analyze, search and clear, what a search is on is a path  *)
(* in the graph, and only files of that path are in its recStack until it  *)
(* has found a circle (dfs_cycle_detection).                               *)
THEOREM SearchInvariant ==
    Spec => [](Types /\ OnPaths)
  <1>1. Init => Types /\ OnPaths
    <2> SUFFICES ASSUME Init PROVE Types /\ OnPaths
      OBVIOUS
    <2>1. UpdateTypes
      <3>1. text \in [Paths -> SUBSET Paths] /\ placement \in [Paths -> 1 .. Shards]
        BY DependencyAssumption DEF Init, DependencyAssumption
      <3>2. <<>> \in Seq(Paths)  BY EmptySeq
      <3> QED BY <3>1, <3>2 DEF Init, UpdateTypes, Places
    <2>2. SearchTypes
      <3>1. <<>> \in Seq(Paths) /\ <<>> \in Seq(SUBSET Paths)  BY EmptySeq
      <3> QED BY <3>1 DEF Init, SearchTypes
    <2>3. OnPaths
      BY DEF Init, OnPaths, PathFact
    <2> QED BY <2>1, <2>2, <2>3 DEF Types
  <1>2. Types /\ OnPaths /\ [Next]_vars => (Types /\ OnPaths)'
    BY UpdateTypesOfStep, SearchTypesOfStep, PathsOfStep DEF Types
  <1> QED
    BY <1>1, <1>2, PTL DEF Spec

-----------------------------------------------------------------------------

(* What a path ends in closes a circle with the file that is imported.     *)
LEMMA CircleClosed ==
    ASSUME SearchTypes, NEW t \in Threads, PathHolds(t),
           NEW i \in DOMAIN path[t], path[t][i] \in Last(rest[t])
    PROVE  IsCircle(SubSeq(path[t], i, Len(path[t])))
  <1> DEFINE n == Len(path[t])
             c == SubSeq(path[t], i, n)
  <1>1. /\ path[t] \in Seq(Paths) /\ n \in Nat /\ i \in 1 .. n
        /\ rest[t] \in Seq(SUBSET Paths) /\ Len(rest[t]) = n
    BY LenProperties DEF SearchTypes
  <1>2. path[t] # <<>>  BY <1>1, EmptySeq
  <1>3. path[t][i] \in ImportsOf(path[t][n])
    <2>1. Last(rest[t]) = rest[t][n]  BY <1>2, WithoutOne
    <2>2. n \in 1 .. n  BY <1>1
    <2> QED BY <2>1, <2>2 DEF PathHolds
  <1>4. /\ c \in Seq(Paths)
        /\ Len(c) = IF i <= n THEN n - i + 1 ELSE 0
        /\ \A j \in 1 .. n - i + 1 : c[j] = path[t][i + j - 1]
    <2>1. \A j \in i .. n : path[t][j] \in Paths  BY <1>1, ElementOfSeq
    <2>2. n \in Int /\ i \in Int  BY <1>1
    <2> HIDE DEF n
    <2> QED BY <1>1, <2>1, <2>2, SubSeqProperties
  <1>5. /\ Len(c) = n - i + 1 /\ Len(c) \in Nat /\ 1 \in 1 .. Len(c)
        /\ DOMAIN c = 1 .. Len(c) /\ c # <<>>
    <2>1. Len(c) = n - i + 1  BY <1>1, <1>4
    <2>2. n - i + 1 \in Nat \ {0}  BY <1>1, SMTT(30)
    <2>3. DOMAIN c = 1 .. Len(c)  BY <1>4, LenProperties
    <2>4. c # <<>>  BY <2>1, <2>2, EmptySeq
    <2> QED BY <2>1, <2>2, <2>3, <2>4
  <1> HIDE DEF c
  <1>6. ASSUME NEW j \in 1 .. Len(c)
        PROVE  (IF j = Len(c) THEN c[1] ELSE c[j + 1]) \in ImportsOf(c[j])
    <2>1. c[j] = path[t][i + j - 1]  BY <1>4, <1>5
    <2>2. CASE j = Len(c)
      <3>1. i + j - 1 = n /\ i + 1 - 1 = i  BY <1>1, <1>5, <2>2
      <3>2. c[1] = path[t][i] /\ c[j] = path[t][n]  BY <1>4, <1>5, <2>1, <3>1
      <3> QED BY <1>3, <2>2, <3>2
    <2>3. CASE j # Len(c)
      <3>1. /\ j + 1 \in 1 .. n - i + 1 /\ i + (j + 1) - 1 = (i + j - 1) + 1
            /\ i + j - 1 \in 1 .. n - 1
        <4>1. \A m, k, l \in Int :
                 /\ 1 <= k /\ k <= m /\ 1 <= l /\ l <= m - k + 1 /\ l # m - k + 1
                 => /\ l + 1 \in 1 .. m - k + 1 /\ k + (l + 1) - 1 = (k + l - 1) + 1
                    /\ k + l - 1 \in 1 .. m - 1
          OBVIOUS
        <4>2. /\ n \in Int /\ i \in Int /\ j \in Int
              /\ 1 <= i /\ i <= n /\ 1 <= j /\ j <= n - i + 1 /\ j # n - i + 1
          BY <1>1, <1>5, <2>3
        <4> QED BY <4>1, <4>2, Zenon
      <3>2. c[j + 1] = path[t][(i + j - 1) + 1]
        <4>1. c[j + 1] = path[t][i + (j + 1) - 1]  BY <1>4, <3>1, Zenon
        <4> QED BY <3>1, <4>1, Zenon
      <3>3. path[t][(i + j - 1) + 1] \in ImportsOf(path[t][i + j - 1])
        BY <3>1 DEF PathHolds
      <3> QED BY <2>1, <2>3, <3>2, <3>3
    <2> QED BY <2>2, <2>3
  <1> QED BY <1>5, <1>6 DEF IsCircle, c

(* No other step reports a circle, and none but Panic ends in a panic.     *)
LEMMA CirclesOfStep ==
    ASSUME UpdateTypes, SearchTypes, OnPaths, [Next]_vars, NEW u \in Threads
    PROVE  CircleIsReal(u) /\ PanicAfterCircle(u)
  <1>1. ASSUME circles'[u] \subseteq circles[u], pc'[u] # "panicked" \/ pc'[u] = pc[u]
        PROVE  CircleIsReal(u) /\ PanicAfterCircle(u)
    BY <1>1 DEF CircleIsReal, PanicAfterCircle
  <1>2. CASE (\E f \in Files : Write(f)) \/ UNCHANGED vars
    BY <1>1, <1>2 DEF Write, vars, searchVars
  <1>3. ASSUME NEW t \in Threads,
               \/ \E list \in Lists : Analyze(t, list)
               \/ GetStatistics(t) \/ Clear(t)
        PROVE  CircleIsReal(u) /\ PanicAfterCircle(u)
    <2>1. circles'[u] \subseteq circles[u] /\ (pc'[u] # "panicked" \/ pc'[u] = pc[u])
      <3>1. CASE \E list \in Lists : Analyze(t, list)
        BY <3>1 DEF Analyze, Call, searchVars, UpdateTypes
      <3>2. CASE GetStatistics(t)
        BY <3>2 DEF GetStatistics, StartSearch, Call, UpdateTypes, SearchTypes
      <3>3. CASE Clear(t)  BY <3>3 DEF Clear, Call, UpdateTypes
      <3> QED BY <1>3, <3>1, <3>2, <3>3
    <2> QED BY <1>1, <2>1
  <1>4. ASSUME NEW t \in Threads,
               \/ ReadFile(t) \/ SkipFile(t) \/ FileIsGone(t) \/ Extract(t)
               \/ InsertDependencies(t) \/ NoteDependent(t) \/ NextFile(t)
               \/ AllAnalyzed(t)
               \/ ClearShard(t) \/ ClearDependents(t) \/ ClearCache(t)
        PROVE  CircleIsReal(u) /\ PanicAfterCircle(u)
    <2>1. circles'[u] \subseteq circles[u] /\ (pc'[u] # "panicked" \/ pc'[u] = pc[u])
      <3>1. CASE ReadFile(t) \/ SkipFile(t) \/ FileIsGone(t) \/ Extract(t)
        BY <3>1 DEF ReadFile, SkipFile, FileIsGone, Extract, Goto, searchVars, UpdateTypes
      <3>2. CASE InsertDependencies(t) \/ NoteDependent(t) \/ NextFile(t)
        BY <3>2 DEF InsertDependencies, NoteDependent, NextFile, Goto, searchVars, UpdateTypes
      <3>3. CASE AllAnalyzed(t)
        BY <3>3 DEF AllAnalyzed, StartSearch, Goto, searchVars, UpdateTypes, SearchTypes
      <3>4. CASE ClearShard(t) \/ ClearDependents(t) \/ ClearCache(t)
        BY <3>4 DEF ClearShard, ClearDependents, ClearCache, Goto, searchVars, UpdateTypes
      <3> QED BY <1>4, <3>1, <3>2, <3>3, <3>4
    <2> QED BY <1>1, <2>1
  <1>5. ASSUME NEW t \in Threads, Search(t)
        PROVE  CircleIsReal(u) /\ PanicAfterCircle(u)
    <2>1. pc[t] = "search" /\ PathFact(t)
      BY <1>5 DEF Search, NextShard, SearchEnds, Root, Descend, Pass, FindCircle, Panic, Leave,
                  Searching, OnPaths
    <2>2. CASE NextShard(t) \/ SearchEnds(t) \/ Root(t) \/ Descend(t) \/ Pass(t) \/ Leave(t)
      <3>1. circles' = circles /\ (pc' = pc \/ pc' = [pc EXCEPT ![t] = "idle"])
        BY <2>2 DEF NextShard, SearchEnds, Root, Descend, Pass, Leave, Visit
      <3> QED BY <1>1, <3>1 DEF UpdateTypes
    <2>3. CASE FindCircle(t)
      <3>1. PICK i \in DOMAIN path[t] :
               /\ path[t][i] \in Last(rest[t])
               /\ circles' = [circles EXCEPT ![t] = @ \cup {SubSeq(path[t], i, Len(path[t]))}]
        BY <2>3 DEF FindCircle
      <3>2. IsCircle(SubSeq(path[t], i, Len(path[t])))
        BY <2>1, <3>1, CircleClosed DEF PathFact
      <3>3. \A c \in circles'[u] \ circles[u] : c = SubSeq(path[t], i, Len(path[t]))
        BY <3>1 DEF SearchTypes
      <3>4. pc' = pc  BY <2>3 DEF FindCircle
      <3> QED BY <3>2, <3>3, <3>4 DEF CircleIsReal, PanicAfterCircle
    <2>4. CASE Panic(t)
      <3>1. circles' = circles  BY <2>4 DEF Panic, searchVars
      <3>2. circles[t] # {}  BY <2>1, <2>4 DEF Panic, PathFact
      <3>3. pc' = [pc EXCEPT ![t] = "panicked"]  BY <2>4 DEF Panic
      <3>4. u # t => pc'[u] = pc[u]  BY <3>3 DEF UpdateTypes
      <3> QED BY <3>1, <3>2, <3>4 DEF CircleIsReal, PanicAfterCircle
    <2> QED BY <1>5, <2>2, <2>3, <2>4 DEF Search
  <1> QED BY <1>2, <1>3, <1>4, <1>5 DEF Next, Step

-----------------------------------------------------------------------------

Finished(t) == visited[t] \ recStack[t]

(* No file is on a path twice.                                             *)
PathDistinct(t) ==
    /\ ToSet(path[t]) \subseteq visited[t]
    /\ \A i, j \in 1 .. Len(path[t]) : path[t][i] = path[t][j] => i = j

(* The circles that were found are there.                                  *)
CirclesStand(t) == \A c \in circles[t] : IsCircle(c) /\ Len(c) <= Cardinality(Paths)

(* Whatever a finished file imports is finished, and it is on no circle;   *)
(* what was looked at of a file on the path is finished or the next one on *)
(* the path; and the roots of the shards before were visited.              *)
Explored(t) ==
    /\ ToSet(path[t]) \subseteq recStack[t]
    /\ \A f \in Finished(t) : ImportsOf(f) \subseteq Finished(t) /\ f \notin Importers(f)
    /\ \A i \in 1 .. Len(path[t]) : \A d \in ImportsOf(path[t][i]) \ rest[t][i] :
          d \in Finished(t) \/ (i < Len(path[t]) /\ d = path[t][i + 1])
    /\ \A f \in DOMAIN dependencies : placement[f] < shard[t] => f \in visited[t]

SearchFact(t) ==
    pc[t] = "search" =>
        /\ PathDistinct(t)
        /\ quiet[t] => CirclesStand(t) /\ (circles[t] = {} => Explored(t))

Searches == quiet \in [Threads -> BOOLEAN] /\ \A t \in Threads : SearchFact(t)

(* What a search knows stays true while it does nothing, for as long as    *)
(* the imports stand still.                                                *)
LEMMA FactStays ==
    ASSUME NEW u \in Threads, SearchFact(u),
           pc'[u] = "search" => pc[u] = "search",
           pc'[u] = "search" =>
              /\ shard'[u] = shard[u] /\ visited'[u] = visited[u] /\ recStack'[u] = recStack[u]
              /\ path'[u] = path[u] /\ rest'[u] = rest[u] /\ circles'[u] = circles[u],
           pc'[u] = "search" /\ quiet'[u] => quiet[u] /\ UNCHANGED <<dependencies, placement>>
    PROVE  SearchFact(u)'
  <1> SUFFICES ASSUME pc'[u] = "search"
               PROVE  /\ PathDistinct(u)'
                      /\ quiet'[u] => CirclesStand(u)' /\ (circles'[u] = {} => Explored(u)')
    BY DEF SearchFact
  <1>1. PathDistinct(u)'  BY DEF SearchFact, PathDistinct
  <1>2. ASSUME quiet'[u]
        PROVE  CirclesStand(u)' /\ (circles'[u] = {} => Explored(u)')
    <2>1. CirclesStand(u) /\ (circles[u] = {} => Explored(u)) /\ dependencies' = dependencies
          /\ placement' = placement
      BY <1>2 DEF SearchFact
    <2>2. CirclesStand(u)'  BY <2>1 DEF CirclesStand, IsCircle, ImportsOf
    <2>3. ASSUME circles[u] = {}
          PROVE  Explored(u)'
      BY <2>1, <2>3 DEF Explored, Finished, ImportsOf, Importers
    <2> QED BY <2>2, <2>3
  <1> QED BY <1>1, <1>2

(* A file is on no circle if a set without it has all it imports and all   *)
(* that the files in it import.                                            *)
LEMMA NoWayBack ==
    ASSUME NEW F, NEW f, f \notin F, ImportsOf(f) \subseteq F,
           \A g \in F : ImportsOf(g) \subseteq F
    PROVE  f \notin Importers(f)
  <1> SUFFICES ASSUME f \in Importers(f)  PROVE FALSE
    OBVIOUS
  <1>1. PICK n \in 1 .. Cardinality(Paths) : \E way \in [1 .. n -> Paths] :
          /\ way[1] = f
          /\ f \in ImportsOf(way[n])
          /\ \A i \in 1 .. n - 1 : way[i + 1] \in ImportsOf(way[i])
    BY DEF Importers
  <1>2. PICK way \in [1 .. n -> Paths] :
          /\ way[1] = f
          /\ f \in ImportsOf(way[n])
          /\ \A i \in 1 .. n - 1 : way[i + 1] \in ImportsOf(way[i])
    BY <1>1
  <1> DEFINE Within == {k \in Nat : k + 1 <= n => ImportsOf(way[k + 1]) \subseteq F}
  <1>3. 0 \in Within
    <2>1. way[0 + 1] = f  BY <1>2
    <2> QED BY <2>1
  <1>4. ASSUME NEW k \in Nat, k \in Within  PROVE k + 1 \in Within
    <2> SUFFICES ASSUME (k + 1) + 1 <= n  PROVE ImportsOf(way[(k + 1) + 1]) \subseteq F
      OBVIOUS
    <2>1. k + 1 \in 1 .. n - 1 /\ k + 1 <= n  OBVIOUS
    <2>2. way[(k + 1) + 1] \in ImportsOf(way[k + 1])  BY <1>2, <2>1
    <2>3. way[(k + 1) + 1] \in F  BY <1>4, <2>1, <2>2
    <2> QED BY <2>3
  <1>5. n - 1 \in Within
    <2>1. \A k \in Nat : k \in Within => k + 1 \in Within  BY <1>4
    <2>2. n - 1 \in Nat  OBVIOUS
    <2> HIDE DEF Within
    <2>3. \A k \in Nat : k \in Within  BY <1>3, <2>1, NaturalsIn
    <2> QED BY <2>2, <2>3
  <1>6. (n - 1) + 1 = n /\ n <= n  OBVIOUS
  <1> QED BY <1>2, <1>5, <1>6

(* A file that is visited was neither finished nor on the path, and is     *)
(* what was looked at last.                                                *)
LEMMA VisitExplores ==
    ASSUME UpdateTypes, SearchTypes, NEW t \in Threads, PathDistinct(t),
           UNCHANGED <<dependencies, placement>>,
           NEW f \in Paths, f \notin visited[t],
           NEW left \in Seq(SUBSET Paths), Len(left) = Len(path[t]),
           \A i \in 1 .. Len(path[t]) :
               rest[t][i] \subseteq left[i] \cup (IF i = Len(path[t]) THEN {f} ELSE {}),
           Visit(t, f, left)
    PROVE  PathDistinct(t)' /\ (Explored(t) => Explored(t)')
  <1> DEFINE n == Len(path[t])
  <1>1. path[t] \in Seq(Paths) /\ ImportsOf(f) \in SUBSET Paths
    BY DEF SearchTypes, ImportsOf, UpdateTypes
  <1>2. /\ path'[t] = Append(path[t], f) /\ rest'[t] = Append(left, ImportsOf(f))
        /\ recStack'[t] = recStack[t] \cup {f} /\ visited'[t] = visited[t] \cup {f}
        /\ shard'[t] = shard[t]
    BY DEF Visit, SearchTypes
  <1>3. /\ n \in Nat /\ Len(path'[t]) = n + 1 /\ path'[t] \in Seq(Paths)
        /\ \A i \in 1 .. n : path'[t][i] = path[t][i]
        /\ path'[t][n + 1] = f
    BY <1>1, <1>2, AppendProperties, LenProperties
  <1>4. /\ \A i \in 1 .. n : rest'[t][i] = left[i]
        /\ rest'[t][n + 1] = ImportsOf(f)
    BY <1>1, <1>2, AppendProperties
  <1>5. /\ \A i \in 1 .. n + 1 : i \in 1 .. n \/ i = n + 1
        /\ DOMAIN path[t] = 1 .. n /\ DOMAIN path'[t] = 1 .. n + 1
    BY <1>1, <1>3, LenProperties
  <1>6. ToSet(path'[t]) = ToSet(path[t]) \cup {f}
    <2>1. 1 .. n \subseteq 1 .. n + 1 /\ n + 1 \in 1 .. n + 1  BY <1>3
    <2> QED BY <1>3, <1>5, <2>1 DEF ToSet
  <1>7. \A i \in 1 .. n : path[t][i] \in visited[t]  BY <1>5 DEF PathDistinct, ToSet
  <1>8. PathDistinct(t)'
    <2>1. \A i, j \in 1 .. n + 1 : path'[t][i] = path'[t][j] => i = j
      BY <1>3, <1>5, <1>7 DEF PathDistinct
    <2> QED BY <1>2, <1>3, <1>6, <2>1 DEF PathDistinct
  <1>9. ASSUME Explored(t)
        PROVE  Explored(t)'
    <2>1. Finished(t)' = Finished(t)  BY <1>2 DEF Finished
    <2>2. ToSet(path'[t]) \subseteq recStack'[t]  BY <1>2, <1>6, <1>9 DEF Explored
    <2>3. (\A g \in Finished(t) : ImportsOf(g) \subseteq Finished(t) /\ g \notin Importers(g))'
      BY <2>1, <1>9 DEF Explored, ImportsOf, Importers
    <2>4. ASSUME NEW i \in 1 .. n + 1, NEW g, g = path'[t][i], NEW d \in ImportsOf(g) \ rest'[t][i]
          PROVE  d \in Finished(t) \/ (i < n + 1 /\ d = path'[t][i + 1])
      <3>1. i \in 1 .. n
        <4>1. CASE i = n + 1  BY <1>3, <1>4, <2>4, <4>1
        <4> QED BY <1>5, <4>1
      <3>2. g = path[t][i] /\ d \notin left[i]  BY <1>3, <1>4, <2>4, <3>1
      <3>3. CASE d \in rest[t][i]
        <4>1. i = n /\ d = f  BY <3>1, <3>2, <3>3
        <4> QED BY <1>3, <4>1
      <3>4. CASE d \notin rest[t][i]
        <4>1. d \in Finished(t) \/ (i < n /\ d = path[t][i + 1])
          BY <1>9, <2>4, <3>1, <3>2, <3>4 DEF Explored
        <4>2. i < n => i + 1 \in 1 .. n /\ i < n + 1  BY <1>3, <3>1
        <4> QED BY <1>3, <4>1, <4>2
      <3> QED BY <3>3, <3>4
    <2>5. (\A i \in 1 .. Len(path[t]) : \A d \in ImportsOf(path[t][i]) \ rest[t][i] :
              d \in Finished(t) \/ (i < Len(path[t]) /\ d = path[t][i + 1]))'
      BY <1>3, <2>1, <2>4 DEF ImportsOf
    <2>6. \A g \in DOMAIN dependencies' : placement'[g] < shard'[t] => g \in visited'[t]
      BY <1>2, <1>9 DEF Explored
    <2> QED BY <2>2, <2>3, <2>5, <2>6 DEF Explored
  <1> QED BY <1>8, <1>9

(* A finished file may be passed.                                          *)
LEMMA PassExplores ==
    ASSUME UpdateTypes, SearchTypes, NEW t \in Threads, PathDistinct(t),
           UNCHANGED <<dependencies, placement>>, Pass(t)
    PROVE  PathDistinct(t)' /\ (Explored(t) => Explored(t)')
  <1>1. PICK d \in Last(rest[t]) \cap (visited[t] \ recStack[t]) :
           rest' = [rest EXCEPT ![t] = Without(t, d)]
    BY DEF Pass
  <1>2. path[t] # <<>> /\ UNCHANGED <<shard, visited, recStack, path>>  BY DEF Pass
  <1>3. rest'[t] = Without(t, d)  BY <1>1 DEF SearchTypes
  <1>4. \A i \in 1 .. Len(path[t]) : rest[t][i] \subseteq rest'[t][i] \cup {d}
    BY <1>2, <1>3, WithoutOne
  <1>5. PathDistinct(t)'  BY <1>2 DEF PathDistinct
  <1>6. ASSUME Explored(t)
        PROVE  Explored(t)'
    <2>1. Finished(t)' = Finished(t) /\ d \in Finished(t)  BY <1>1, <1>2 DEF Finished
    <2>2. (\A g \in Finished(t) : ImportsOf(g) \subseteq Finished(t) /\ g \notin Importers(g))'
      BY <2>1, <1>6 DEF Explored, ImportsOf, Importers
    <2>3. ASSUME NEW i \in 1 .. Len(path[t]), NEW e \in ImportsOf(path[t][i]) \ rest'[t][i]
          PROVE  e \in Finished(t) \/ (i < Len(path[t]) /\ e = path[t][i + 1])
      BY <1>4, <1>6, <2>1, <2>3 DEF Explored
    <2>4. (\A i \in 1 .. Len(path[t]) : \A e \in ImportsOf(path[t][i]) \ rest[t][i] :
              e \in Finished(t) \/ (i < Len(path[t]) /\ e = path[t][i + 1]))'
      BY <1>2, <2>1, <2>3 DEF ImportsOf
    <2> QED BY <1>2, <1>6, <2>2, <2>4 DEF Explored
  <1> QED BY <1>5, <1>6

(* A file is left when all it imports is finished, and then it is finished *)
(* itself: there is no way back to it.                                     *)
LEMMA LeaveExplores ==
    ASSUME UpdateTypes, SearchTypes, NEW t \in Threads, PathDistinct(t),
           UNCHANGED <<dependencies, placement>>, Leave(t)
    PROVE  PathDistinct(t)' /\ (Explored(t) => Explored(t)')
  <1> DEFINE n == Len(path[t])
  <1>1. /\ path[t] # <<>> /\ Last(rest[t]) = {}
        /\ path'[t] = Front(path[t]) /\ rest'[t] = Front(rest[t])
        /\ recStack'[t] = recStack[t] \ {Last(path[t])}
        /\ UNCHANGED <<shard, visited>>
    BY DEF Leave, SearchTypes
  <1>2. /\ path[t] \in Seq(Paths) /\ rest[t] \in Seq(SUBSET Paths) /\ Len(rest[t]) = n
        /\ rest[t] # <<>> /\ rest[t][n] = {}
    BY <1>1, WithoutOne DEF SearchTypes
  <1>3. /\ n \in Nat \ {0} /\ Last(path[t]) = path[t][n] /\ Last(path[t]) \in Paths
        /\ path'[t] \in Seq(Paths) /\ Len(path'[t]) = n - 1
        /\ \A i \in 1 .. n - 1 : path'[t][i] = path[t][i]
    <2>1. \A q \in Seq(Paths) : q # <<>> =>
             /\ Front(q) \in Seq(Paths) /\ Len(Front(q)) = Len(q) - 1
             /\ \A i \in 1 .. Len(q) - 1 : Front(q)[i] = q[i]
             /\ Last(q) = q[Len(q)] /\ Last(q) \in Paths /\ Len(q) \in Nat \ {0}
      BY FrontAndLast, Zenon
    <2> QED BY <1>1, <1>2, <2>1, Zenon
  <1>4. \A i \in 1 .. n - 1 : rest'[t][i] = rest[t][i]
    <2>1. \A q \in Seq(SUBSET Paths) : q # <<>> =>
             \A i \in 1 .. Len(q) - 1 : Front(q)[i] = q[i]
      BY FrontAndLast, Zenon
    <2> QED BY <1>1, <1>2, <2>1, Zenon
  <1>5. PICK f : f = path[t][n]  OBVIOUS
  <1>6. /\ \A i \in 1 .. n - 1 : i \in 1 .. n /\ i + 1 \in 1 .. n /\ i # n /\ i < n
        /\ n \in 1 .. n
        /\ DOMAIN path[t] = 1 .. n /\ DOMAIN path'[t] = 1 .. n - 1
    BY <1>2, <1>3, LenProperties
  <1>7. \A i \in 1 .. n - 1 : path[t][i] # f  BY <1>5, <1>6 DEF PathDistinct
  <1>8. ToSet(path'[t]) \subseteq ToSet(path[t]) \ {f}
    BY <1>3, <1>6, <1>7 DEF ToSet
  <1>9. PathDistinct(t)'
    <2>1. \A i, j \in 1 .. n - 1 : path'[t][i] = path'[t][j] => i = j
      BY <1>3, <1>6 DEF PathDistinct
    <2> QED BY <1>1, <1>3, <1>8, <2>1 DEF PathDistinct
  <1>10. ASSUME Explored(t)
         PROVE  Explored(t)'
    <2>1. f \in ToSet(path[t])  BY <1>5, <1>6 DEF ToSet
    <2>2. f \in visited[t] /\ f \in recStack[t] /\ f \notin Finished(t)
      BY <2>1, <1>10 DEF PathDistinct, Explored, Finished
    <2>3. Finished(t)' = Finished(t) \cup {f}
      BY <1>1, <1>3, <1>5, <2>2 DEF Finished
    <2>4. ImportsOf(f) \subseteq Finished(t)
      <3>1. \A d \in ImportsOf(path[t][n]) \ rest[t][n] :
               d \in Finished(t) \/ (n < n /\ d = path[t][n + 1])
        BY <1>6, <1>10 DEF Explored
      <3>2. ~(n < n)  BY <1>3
      <3> QED BY <1>2, <1>5, <3>1, <3>2
    <2>5. \A g \in Finished(t) : ImportsOf(g) \subseteq Finished(t) /\ g \notin Importers(g)
      BY <1>10 DEF Explored
    <2>6. f \notin Importers(f)  BY <2>2, <2>4, <2>5, NoWayBack
    <2>7. ToSet(path'[t]) \subseteq recStack'[t]
      BY <1>1, <1>3, <1>5, <1>8, <1>10 DEF Explored
    <2>8. \A g \in Finished(t) \cup {f} :
             ImportsOf(g) \subseteq Finished(t) \cup {f} /\ g \notin Importers(g)
      BY <2>4, <2>5, <2>6
    <2>9. (\A g \in Finished(t) : ImportsOf(g) \subseteq Finished(t) /\ g \notin Importers(g))'
      BY <2>3, <2>8, SMTT(30) DEF ImportsOf, Importers
    <2>10. ASSUME NEW i \in 1 .. n - 1, NEW d \in ImportsOf(path[t][i]) \ rest[t][i]
           PROVE  d \in Finished(t) \cup {f} \/ (i < n - 1 /\ d = path'[t][i + 1])
      <3>1. d \in Finished(t) \/ d = path[t][i + 1]  BY <1>6, <1>10 DEF Explored
      <3>2. CASE i = n - 1
        <4>1. i + 1 = n  BY <1>3, <3>2
        <4> QED BY <1>5, <3>1, <4>1
      <3>3. CASE i # n - 1
        <4>1. i < n - 1 /\ i + 1 \in 1 .. n - 1  BY <1>3, <3>3
        <4> QED BY <1>3, <3>1, <4>1
      <3> QED BY <3>2, <3>3
    <2>11. ASSUME NEW i \in 1 .. n - 1, NEW g, g = path'[t][i], NEW d \in ImportsOf(g) \ rest'[t][i]
           PROVE  d \in Finished(t) \cup {f} \/ (i < n - 1 /\ d = path'[t][i + 1])
      BY <1>3, <1>4, <2>10, <2>11
    <2>12. (\A i \in 1 .. Len(path[t]) : \A d \in ImportsOf(path[t][i]) \ rest[t][i] :
               d \in Finished(t) \/ (i < Len(path[t]) /\ d = path[t][i + 1]))'
      BY <1>3, <2>3, <2>11 DEF ImportsOf
    <2> QED BY <1>1, <1>10, <2>7, <2>9, <2>12 DEF Explored
  <1> QED BY <1>9, <1>10

(* A circle is at most as long as there are files, since its files differ. *)
LEMMA CircleStands ==
    ASSUME SearchTypes, NEW t \in Threads, PathHolds(t), PathDistinct(t),
           NEW i \in DOMAIN path[t], path[t][i] \in Last(rest[t])
    PROVE  /\ IsCircle(SubSeq(path[t], i, Len(path[t])))
           /\ Len(SubSeq(path[t], i, Len(path[t]))) <= Cardinality(Paths)
  <1> DEFINE n == Len(path[t])
             c == SubSeq(path[t], i, n)
  <1>1. /\ path[t] \in Seq(Paths) /\ n \in Nat /\ i \in 1 .. n
        /\ DOMAIN path[t] = 1 .. n /\ path[t] \in [1 .. n -> Paths]
    BY LenProperties DEF SearchTypes
  <1>2. n <= Cardinality(Paths)
    <2>1. path[t] \in Injection(1 .. n, Paths)
      BY <1>1 DEF PathDistinct, Injection, IsInjective
    <2>2. Cardinality(1 .. n) <= Cardinality(Paths)
      BY <2>1, FS_Injection, DependencyAssumption DEF DependencyAssumption
    <2>3. Cardinality(1 .. n) = n
      <3>1. 1 \in Int /\ n \in Int  BY <1>1
      <3>2. Cardinality(1 .. n) = IF 1 > n THEN 0 ELSE n - 1 + 1  BY <3>1, FS_Interval
      <3>3. \A k \in Nat : (IF 1 > k THEN 0 ELSE k - 1 + 1) = k  OBVIOUS
      <3> HIDE DEF n
      <3> QED BY <1>1, <3>2, <3>3, Zenon
    <2> QED BY <2>2, <2>3
  <1>3. Len(c) <= n
    <2>1. Len(c) = IF i <= n THEN n - i + 1 ELSE 0
      <3>1. \A j \in i .. n : path[t][j] \in Paths  BY <1>1
      <3>2. n \in Int /\ i \in Int  BY <1>1
      <3> HIDE DEF n
      <3> QED BY <1>1, <3>1, <3>2, SubSeqProperties
    <2> HIDE DEF c
    <2> QED BY <1>1, <2>1
  <1>4. IsCircle(c)  BY CircleClosed
  <1>5. Len(c) \in Nat /\ Cardinality(Paths) \in Nat
    <2>1. c \in Seq(Paths)
      <3>1. \A j \in i .. n : path[t][j] \in Paths  BY <1>1
      <3>2. n \in Int /\ i \in Int  BY <1>1
      <3> HIDE DEF n
      <3> QED BY <1>1, <3>1, <3>2, SubSeqProperties
    <2>2. Len(c) \in Nat  BY <2>1, LenProperties
    <2>3. Cardinality(Paths) \in Nat
      BY DependencyAssumption, FS_CardinalityType DEF DependencyAssumption
    <2> QED BY <2>2, <2>3
  <1> HIDE DEF c, n
  <1>6. Len(c) <= Cardinality(Paths)  BY <1>1, <1>2, <1>3, <1>5
  <1> QED BY <1>4, <1>6 DEF c, n

(* Of a circle every file imports itself over the others.                  *)
LEMMA CircleCircular ==
    ASSUME NEW c \in Seq(Paths), IsCircle(c), Len(c) <= Cardinality(Paths)
    PROVE  Circular
  <1> DEFINE n == Len(c)
  <1>1. n \in Nat \ {0} /\ DOMAIN c = 1 .. n /\ c \in [1 .. n -> Paths]
    BY EmptySeq, LenProperties DEF IsCircle
  <1>2. \A j \in 1 .. n : (IF j = n THEN c[1] ELSE c[j + 1]) \in ImportsOf(c[j])
    BY <1>1 DEF IsCircle
  <1>3. c[1] \in ImportsOf(c[n]) /\ \A j \in 1 .. n - 1 : c[j + 1] \in ImportsOf(c[j])
    <2>1. \A m \in Nat \ {0} : m \in 1 .. m /\ \A j \in 1 .. m - 1 : j \in 1 .. m /\ j # m
      OBVIOUS
    <2>2. n \in 1 .. n /\ \A j \in 1 .. n - 1 : j \in 1 .. n /\ j # n  BY <1>1, <2>1, Zenon
    <2> QED BY <1>2, <2>2
  <1>4. c[1] \in DOMAIN dependencies /\ c[1] \in Paths
    <2>1. 1 \in 1 .. n  BY <1>1
    <2> QED BY <1>1, <1>2, <2>1 DEF ImportsOf
  <1>5. n \in 1 .. Cardinality(Paths)
    <2>1. Cardinality(Paths) \in Nat
      BY DependencyAssumption, FS_CardinalityType DEF DependencyAssumption
    <2> QED BY <1>1, <2>1
  <1>6. PICK f : f = c[1]  OBVIOUS
  <1>7. f \in Importers(f)
    BY <1>1, <1>3, <1>4, <1>5, <1>6 DEF Importers
  <1> QED BY <1>4, <1>6, <1>7 DEF Circular

(* When a search of imports that stood still ends, what it has found is    *)
(* there, and if it has found nothing every file is finished.              *)
LEMMA VerdictOfEnd ==
    ASSUME UpdateTypes, SearchTypes, NEW t \in Threads, PathFact(t), SearchFact(t),
           SearchEnds(t), quiet[t]
    PROVE  circles[t] # {} <=> Circular
  <1>1. /\ pc[t] = "search" /\ path[t] = <<>> /\ RootsLeft(t) = {} /\ shard[t] = Shards
    BY DEF SearchEnds, Searching
  <1>2. CirclesStand(t) /\ (circles[t] = {} => Explored(t))  BY <1>1 DEF SearchFact
  <1>3. ASSUME circles[t] # {}
        PROVE  Circular
    <2>1. PICK c \in circles[t] : TRUE  BY <1>3
    <2>2. c \in Seq(Paths) /\ IsCircle(c) /\ Len(c) <= Cardinality(Paths)
      BY <1>2, <2>1 DEF CirclesStand, SearchTypes
    <2> QED BY <2>2, CircleCircular
  <1>4. ASSUME circles[t] = {}
        PROVE  ~Circular
    <2>1. Explored(t) /\ recStack[t] \subseteq ToSet(path[t])
      BY <1>1, <1>2, <1>4 DEF PathFact
    <2>2. recStack[t] = {}
      <3>1. DOMAIN path[t] = {}
        <4>1. DOMAIN path[t] = 1 .. 0  BY <1>1, EmptySeq
        <4> QED BY <4>1
      <3> QED BY <2>1, <3>1 DEF ToSet
    <2>3. ASSUME NEW f \in DOMAIN dependencies
          PROVE  f \notin Importers(f)
      <3>1. placement[f] \in 1 .. Shards /\ Shards \in Nat
        BY DependencyAssumption DEF UpdateTypes, DependencyAssumption
      <3>2. placement[f] < shard[t] \/ placement[f] = shard[t]  BY <1>1, <3>1
      <3>3. f \in visited[t]
        BY <1>1, <2>1, <3>2 DEF RootsLeft, Explored
      <3>4. f \in Finished(t)  BY <2>2, <3>3 DEF Finished
      <3> QED BY <2>1, <3>4 DEF Explored
    <2>4. \A f : f \in Importers(f) => f \in DOMAIN dependencies  BY DEF Importers
    <2> QED BY <2>3, <2>4 DEF Circular
  <1> QED BY <1>3, <1>4

(* A step of a search keeps what it knows.                                 *)
LEMMA FactOfSearch ==
    ASSUME UpdateTypes, SearchTypes, NEW t \in Threads, PathFact(t), SearchFact(t), Search(t)
    PROVE  SearchFact(t)'
  <1>1. /\ pc[t] = "search" /\ PathDistinct(t) /\ PathHolds(t)
        /\ UNCHANGED <<dependencies, placement, quiet>>
        /\ quiet[t] => CirclesStand(t) /\ (circles[t] = {} => Explored(t))
    BY DEF Search, NextShard, SearchEnds, Root, Descend, Pass, FindCircle, Panic, Leave,
           Searching, graphVars, PathFact, SearchFact
  <1>2. ASSUME circles'[t] = circles[t], PathDistinct(t)', Explored(t) => Explored(t)'
        PROVE  SearchFact(t)'
    <2>1. CirclesStand(t) => CirclesStand(t)'
      BY <1>1, <1>2 DEF CirclesStand, IsCircle, ImportsOf
    <2> QED BY <1>1, <1>2, <2>1 DEF SearchFact
  <1>3. CASE NextShard(t)
    <2>1. /\ RootsLeft(t) = {} /\ shard' = [shard EXCEPT ![t] = @ + 1]
          /\ UNCHANGED <<visited, recStack, path, rest, circles>>
      BY <1>3 DEF NextShard
    <2>2. shard'[t] = shard[t] + 1 /\ shard[t] \in Nat  BY <2>1 DEF SearchTypes
    <2>3. PathDistinct(t)'  BY <1>1, <2>1 DEF PathDistinct
    <2>4. ASSUME Explored(t)
          PROVE  Explored(t)'
      <3>1. ASSUME NEW f \in DOMAIN dependencies, placement[f] < shard[t] + 1
            PROVE  f \in visited[t]
        <4>1. placement[f] \in Nat  BY DependencyAssumption DEF UpdateTypes, DependencyAssumption
        <4>2. placement[f] < shard[t] \/ placement[f] = shard[t]  BY <2>2, <3>1, <4>1
        <4> QED BY <2>1, <2>4, <4>2 DEF Explored, RootsLeft
      <3>2. \A f \in DOMAIN dependencies' : placement'[f] < shard'[t] => f \in visited'[t]
        BY <1>1, <2>1, <2>2, <3>1
      <3>3. (\A f \in Finished(t) : ImportsOf(f) \subseteq Finished(t) /\ f \notin Importers(f))'
        BY <1>1, <2>1, <2>4 DEF Explored, Finished, ImportsOf, Importers
      <3>4. (\A i \in 1 .. Len(path[t]) : \A d \in ImportsOf(path[t][i]) \ rest[t][i] :
                d \in Finished(t) \/ (i < Len(path[t]) /\ d = path[t][i + 1]))'
        BY <1>1, <2>1, <2>4 DEF Explored, Finished, ImportsOf
      <3> QED BY <2>1, <2>4, <3>2, <3>3, <3>4 DEF Explored
    <2> QED BY <1>2, <2>1, <2>3, <2>4
  <1>4. CASE SearchEnds(t) \/ Panic(t)
    <2>1. pc'[t] # "search"  BY <1>4 DEF SearchEnds, Panic, UpdateTypes
    <2> QED BY <2>1 DEF SearchFact
  <1>5. CASE Root(t)
    <2>1. PICK f \in RootsLeft(t) : Visit(t, f, <<>>)  BY <1>5 DEF Root
    <2>2. f \in Paths /\ f \notin visited[t] /\ path[t] = <<>> /\ circles' = circles
      BY <1>5, <2>1 DEF Root, RootsLeft, UpdateTypes, Visit
    <2>3. <<>> \in Seq(SUBSET Paths) /\ Len(path[t]) = 0 /\ Len(<<>>) = 0
      BY <2>2, EmptySeq
    <2>4. /\ Len(<<>>) = Len(path[t])
          /\ \A i \in 1 .. Len(path[t]) :
                rest[t][i] \subseteq <<>>[i] \cup (IF i = Len(path[t]) THEN {f} ELSE {})
      BY <2>3
    <2>5. PathDistinct(t)' /\ (Explored(t) => Explored(t)')
      BY <1>1, <2>1, <2>2, <2>3, <2>4, VisitExplores
    <2> QED BY <1>2, <2>2, <2>5
  <1>6. CASE Descend(t)
    <2>1. PICK d \in Last(rest[t]) \ visited[t] : Visit(t, d, Without(t, d))  BY <1>6 DEF Descend
    <2>2. path[t] # <<>> /\ circles' = circles  BY <1>6, <2>1 DEF Descend, Visit
    <2>3. /\ Without(t, d) \in Seq(SUBSET Paths) /\ Len(Without(t, d)) = Len(path[t])
          /\ \A i \in 1 .. Len(path[t]) :
                rest[t][i] \subseteq Without(t, d)[i] \cup (IF i = Len(path[t]) THEN {d} ELSE {})
          /\ Last(rest[t]) \subseteq Paths
      BY <2>2, WithoutOne
    <2>4. PathDistinct(t)' /\ (Explored(t) => Explored(t)')
      BY <1>1, <2>1, <2>3, VisitExplores
    <2> QED BY <1>2, <2>2, <2>4
  <1>7. CASE Pass(t)
    BY <1>1, <1>2, <1>7, PassExplores DEF Pass
  <1>8. CASE Leave(t)
    BY <1>1, <1>2, <1>8, LeaveExplores DEF Leave
  <1>9. CASE FindCircle(t)
    <2>1. PICK i \in DOMAIN path[t] :
             /\ path[t][i] \in Last(rest[t])
             /\ circles' = [circles EXCEPT ![t] = @ \cup {SubSeq(path[t], i, Len(path[t]))}]
      BY <1>9 DEF FindCircle
    <2>2. path'[t] = <<>> /\ circles'[t] = circles[t] \cup {SubSeq(path[t], i, Len(path[t]))}
      BY <1>9, <2>1 DEF FindCircle, SearchTypes
    <2>3. PathDistinct(t)'
      <3>1. Len(path'[t]) = 0 /\ DOMAIN path'[t] = 1 .. 0  BY <2>2, EmptySeq
      <3>2. 1 .. 0 = {}  OBVIOUS
      <3>3. ToSet(path'[t]) = {}  BY <3>1, <3>2 DEF ToSet
      <3>4. \A j, k \in 1 .. Len(path'[t]) : path'[t][j] = path'[t][k] => j = k
        BY <3>1, <3>2
      <3> QED BY <3>3, <3>4 DEF PathDistinct
    <2>4. /\ IsCircle(SubSeq(path[t], i, Len(path[t])))
          /\ Len(SubSeq(path[t], i, Len(path[t]))) <= Cardinality(Paths)
      BY <1>1, <2>1, CircleStands
    <2>5. CirclesStand(t) =>
             \A c \in circles'[t] : IsCircle(c) /\ Len(c) <= Cardinality(Paths)
      BY <2>2, <2>4 DEF CirclesStand
    <2>6. CirclesStand(t) => CirclesStand(t)'
      BY <1>1, <2>5 DEF CirclesStand, IsCircle, ImportsOf
    <2>7. circles'[t] # {}  BY <2>2
    <2> QED BY <1>1, <2>3, <2>6, <2>7 DEF SearchFact
  <1> QED BY <1>3, <1>4, <1>5, <1>6, <1>7, <1>8, <1>9 DEF Search

(* Every step of every thread keeps what every search knows.               *)
LEMMA SearchesOfStep ==
    ASSUME UpdateTypes, SearchTypes, OnPaths, Searches, [Next]_vars
    PROVE  Searches'
  <1> DEFINE Stays(u) ==
        pc'[u] = "search" =>
            /\ pc[u] = "search"
            /\ shard'[u] = shard[u] /\ visited'[u] = visited[u] /\ recStack'[u] = recStack[u]
            /\ path'[u] = path[u] /\ rest'[u] = rest[u] /\ circles'[u] = circles[u]
            /\ quiet'[u] => quiet[u] /\ UNCHANGED <<dependencies, placement>>
  <1>1. ASSUME NEW u \in Threads, Stays(u)
        PROVE  SearchFact(u)'
    <2>1. SearchFact(u)  BY DEF Searches
    <2> QED BY <1>1, <2>1, FactStays
  <1>2. CASE (\E f \in Files : Write(f)) \/ UNCHANGED vars
    <2>1. UNCHANGED <<pc, shard, visited, recStack, path, rest, circles, quiet, dependencies, placement>>
      BY <1>2 DEF Write, vars, graphVars, searchVars
    <2>2. \A u \in Threads : Stays(u)  BY <2>1
    <2> QED BY <1>1, <2>1, <2>2 DEF Searches
  <1>3. ASSUME NEW t \in Threads,
               \/ \E list \in Lists : Analyze(t, list)
               \/ Clear(t) \/ ReadFile(t) \/ SkipFile(t) \/ FileIsGone(t) \/ Extract(t)
               \/ NoteDependent(t) \/ NextFile(t) \/ ClearDependents(t) \/ ClearCache(t)
        PROVE  Searches'
    <2>1. /\ UNCHANGED <<visited, recStack, path, rest, circles, quiet, dependencies, placement>>
          /\ pc' = pc \/ \E to \in Places \ {"search"} : pc' = [pc EXCEPT ![t] = to]
          /\ shard' = shard \/ (shard' = [shard EXCEPT ![t] = 1] /\ pc' = [pc EXCEPT ![t] = "clear"])
      <3>1. CASE \E list \in Lists : Analyze(t, list)
        BY <3>1 DEF Analyze, Call, Places, graphVars, searchVars
      <3>2. CASE Clear(t)  BY <3>2 DEF Clear, Call, Places, graphVars
      <3>3. CASE ReadFile(t) \/ SkipFile(t) \/ FileIsGone(t)
        BY <3>3 DEF ReadFile, SkipFile, FileIsGone, Goto, Places, graphVars, searchVars
      <3>4. CASE Extract(t)
        BY <3>4 DEF Extract, Goto, Places, searchVars
      <3>5. CASE NextFile(t) \/ ClearCache(t)
        BY <3>5 DEF NextFile, ClearCache, Goto, Places, graphVars, searchVars
      <3>6. CASE NoteDependent(t) \/ ClearDependents(t)
        BY <3>6 DEF NoteDependent, ClearDependents, searchVars
      <3> QED BY <1>3, <3>1, <3>2, <3>3, <3>4, <3>5, <3>6
    <2>2. \A u \in Threads : Stays(u)
      <3>1. \A u \in Threads : pc'[u] = "search" => pc[u] = "search" /\ shard'[u] = shard[u]
        BY <2>1 DEF UpdateTypes, SearchTypes
      <3> QED BY <2>1, <3>1
    <2> QED BY <1>1, <2>1, <2>2 DEF Searches
  <1>4. ASSUME NEW t \in Threads, AllAnalyzed(t) \/ GetStatistics(t)
        PROVE  Searches'
    <2>1. /\ pc[t] \notin {"search", "panicked"}
          /\ UNCHANGED <<dependencies, placement>>
          /\ pc' = [pc EXCEPT ![t] = "search"] \/ pc' = [pc EXCEPT ![t] = "idle"]
      BY <1>4 DEF AllAnalyzed, GetStatistics, Call, Goto, graphVars
    <2>2. CASE StartSearch(t)
      <3>1. /\ UNCHANGED <<path, rest>>
            /\ shard' = [shard EXCEPT ![t] = 0] /\ visited' = [visited EXCEPT ![t] = {}]
            /\ recStack' = [recStack EXCEPT ![t] = {}] /\ circles' = [circles EXCEPT ![t] = {}]
            /\ quiet' = [quiet EXCEPT ![t] = TRUE]
        BY <2>2 DEF StartSearch
      <3>2. /\ shard'[t] = 0 /\ visited'[t] = {} /\ recStack'[t] = {} /\ circles'[t] = {}
            /\ path'[t] = <<>>
        <4>1. path[t] = <<>>  BY <2>1 DEF OnPaths, PathFact
        <4> QED BY <3>1, <4>1 DEF SearchTypes
      <3>3. SearchFact(t)'
        <4>1. Len(path'[t]) = 0 /\ DOMAIN path'[t] = 1 .. 0  BY <3>2, EmptySeq
        <4>2. 1 .. 0 = {}  OBVIOUS
        <4>3. ToSet(path'[t]) = {}  BY <4>1, <4>2 DEF ToSet
        <4>4. PathDistinct(t)'
          <5>1. \A i, j \in 1 .. Len(path'[t]) : path'[t][i] = path'[t][j] => i = j
            BY <4>1, <4>2
          <5> QED BY <4>3, <5>1 DEF PathDistinct
        <4>5. CirclesStand(t)'  BY <3>2 DEF CirclesStand
        <4>6. Explored(t)'
          <5>1. Finished(t)' = {}  BY <3>2 DEF Finished
          <5>2. \A f \in DOMAIN dependencies' : ~(placement'[f] < shard'[t])
            <6>1. \A f \in DOMAIN dependencies : placement[f] \in Nat
              BY DependencyAssumption DEF UpdateTypes, DependencyAssumption
            <6>2. \A k \in Nat : ~(k < 0)  OBVIOUS
            <6> QED BY <2>1, <3>2, <6>1, <6>2
          <5>3. (\A i \in 1 .. Len(path[t]) : \A d \in ImportsOf(path[t][i]) \ rest[t][i] :
                    d \in Finished(t) \/ (i < Len(path[t]) /\ d = path[t][i + 1]))'
            BY <4>1, <4>2
          <5>4. (\A f \in Finished(t) : ImportsOf(f) \subseteq Finished(t) /\ f \notin Importers(f))'
            BY <5>1
          <5> QED BY <4>3, <5>2, <5>3, <5>4 DEF Explored
        <4> QED BY <4>4, <4>5, <4>6 DEF SearchFact
      <3>4. \A u \in Threads : u # t => Stays(u)
        BY <2>1, <3>1 DEF UpdateTypes, SearchTypes, Searches
      <3>5. \A u \in Threads : SearchFact(u)'
        <4>1. ASSUME NEW u \in Threads  PROVE SearchFact(u)'
          <5>1. CASE u = t  BY <3>3, <5>1
          <5>2. CASE u # t
            <6>1. Stays(u)  BY <3>4, <5>2
            <6> QED BY <1>1, <6>1
          <5> QED BY <5>1, <5>2
        <4> QED BY <4>1
      <3>6. quiet' \in [Threads -> BOOLEAN]  BY <3>1 DEF Searches
      <3> QED BY <3>5, <3>6 DEF Searches
    <2>3. CASE UNCHANGED <<searchVars, quiet>> /\ pc' = [pc EXCEPT ![t] = "idle"]
      <3>1. \A u \in Threads : Stays(u)
        BY <2>1, <2>3 DEF UpdateTypes, searchVars
      <3> QED BY <1>1, <2>3, <3>1 DEF Searches
    <2> QED BY <1>4, <2>2, <2>3 DEF AllAnalyzed, GetStatistics, Goto
  <1>5. ASSUME NEW t \in Threads, InsertDependencies(t) \/ ClearShard(t)
        PROVE  Searches'
    <2>1. /\ UNCHANGED <<visited, recStack, path, rest, circles>>
          /\ pc[t] \notin {"search", "panicked"}
          /\ \E to \in Places \ {"search", "panicked"} : pc' = [pc EXCEPT ![t] = to]
          /\ shard' = shard \/ shard' = [shard EXCEPT ![t] = @ + 1]
          /\ quiet' = [u \in Threads |-> FALSE]
      <3>1. CASE InsertDependencies(t)
        BY <3>1 DEF InsertDependencies, Goto, Places, searchVars
      <3>2. CASE ClearShard(t)
        BY <3>2 DEF ClearShard, Goto, Places
      <3> QED BY <1>5, <3>1, <3>2
    <2>2. \A u \in Threads : Stays(u)
      <3>1. \A u \in Threads : pc'[u] = "search" => pc[u] = "search" /\ shard'[u] = shard[u]
        BY <2>1 DEF UpdateTypes, SearchTypes
      <3> QED BY <2>1, <3>1
    <2>3. quiet' \in [Threads -> BOOLEAN]  BY <2>1
    <2> QED BY <1>1, <2>2, <2>3 DEF Searches
  <1>6. ASSUME NEW t \in Threads, Search(t)
        PROVE  Searches'
    <2>1. SearchFact(t)'
      <3>1. PathFact(t) /\ SearchFact(t)  BY DEF OnPaths, Searches
      <3> QED BY <1>6, <3>1, FactOfSearch
    <2>2. UNCHANGED <<dependencies, placement, quiet>>
      BY <1>6 DEF Search, NextShard, SearchEnds, Root, Descend, Pass, FindCircle, Panic, Leave,
                  Searching, graphVars
    <2>3. \A u \in Threads : u # t => Stays(u)
      <3>1. CASE NextShard(t) \/ SearchEnds(t) \/ Panic(t)
        BY <2>2, <3>1 DEF NextShard, SearchEnds, Panic, UpdateTypes, SearchTypes, searchVars
      <3>2. CASE Root(t) \/ Descend(t)
        BY <2>2, <3>2 DEF Root, Descend, Visit, SearchTypes
      <3>3. CASE Pass(t) \/ FindCircle(t) \/ Leave(t)
        BY <2>2, <3>3 DEF Pass, FindCircle, Leave, SearchTypes
      <3> QED BY <1>6, <3>1, <3>2, <3>3 DEF Search
    <2>4. \A u \in Threads : SearchFact(u)'
      <3>1. ASSUME NEW u \in Threads  PROVE SearchFact(u)'
        <4>1. CASE u = t  BY <2>1, <4>1
        <4>2. CASE u # t
          <5>1. Stays(u)  BY <2>3, <4>2
          <5> QED BY <1>1, <5>1
        <4> QED BY <4>1, <4>2
      <3> QED BY <3>1
    <2> QED BY <2>2, <2>4 DEF Searches
  <1> QED BY <1>2, <1>3, <1>4, <1>5, <1>6 DEF Next, Step

(* Only SearchEnds ends a search, and then its verdict is right.           *)
LEMMA VerdictOfStep ==
    ASSUME UpdateTypes, SearchTypes, OnPaths, Searches, [Next]_vars, NEW t \in Threads
    PROVE  VerdictHolds(t)
  <1> SUFFICES ASSUME pc[t] = "search", pc'[t] = "idle", quiet[t]
               PROVE  circles[t] # {} <=> Circular
    BY DEF VerdictHolds
  <1>1. SearchEnds(t)
    <2>1. CASE (\E f \in Files : Write(f)) \/ UNCHANGED vars
      BY <2>1 DEF Write, vars
    <2>2. ASSUME NEW u \in Threads,
                 (\E list \in Lists : Analyze(u, list)) \/ GetStatistics(u) \/ Clear(u)
          PROVE  SearchEnds(t)
      BY <2>2 DEF Analyze, GetStatistics, Clear, Call, UpdateTypes
    <2>3. ASSUME NEW u \in Threads,
                 \/ ReadFile(u) \/ SkipFile(u) \/ FileIsGone(u) \/ Extract(u)
                 \/ InsertDependencies(u) \/ NoteDependent(u) \/ NextFile(u) \/ AllAnalyzed(u)
                 \/ ClearShard(u) \/ ClearDependents(u) \/ ClearCache(u)
          PROVE  SearchEnds(t)
      BY <2>3 DEF ReadFile, SkipFile, FileIsGone, Extract, InsertDependencies, NoteDependent,
                  NextFile, AllAnalyzed, ClearShard, ClearDependents, ClearCache, Goto, UpdateTypes
    <2>4. ASSUME NEW u \in Threads, Search(u)
          PROVE  SearchEnds(t)
      <3>1. CASE NextShard(u) \/ Root(u) \/ Descend(u) \/ Pass(u) \/ FindCircle(u) \/ Leave(u)
        BY <3>1 DEF NextShard, Root, Descend, Pass, FindCircle, Leave, Visit
      <3>2. CASE Panic(u)  BY <3>2 DEF Panic, UpdateTypes
      <3>3. CASE SearchEnds(u)
        <4>1. u = t  BY <3>3 DEF SearchEnds, UpdateTypes
        <4> QED BY <3>3, <4>1
      <3> QED BY <2>4, <3>1, <3>2, <3>3 DEF Search
    <2> QED BY <2>1, <2>2, <2>3, <2>4 DEF Next, Step
  <1>2. PathFact(t) /\ SearchFact(t)  BY DEF OnPaths, Searches
  <1> QED BY <1>1, <1>2, VerdictOfEnd

(* A circle is one when it is reported, whatever is analyzed or cleared    *)
(* meanwhile; a search stumbles over its own recStack only after it has    *)
(* found one; and it finds one if the imports stand still and there is one *)
(* (detect_circular_dependencies).                                         *)
THEOREM CirclesAreFound == Spec => CirclesFound
  <1>1. Init => Searches
    BY DEF Init, Searches, SearchFact
  <1>2. Types /\ OnPaths /\ Searches /\ [Next]_vars => Searches'
    BY SearchesOfStep DEF Types
  <1>3. Types /\ OnPaths /\ Searches /\ [Next]_vars =>
           [\A t \in Threads : CircleIsReal(t) /\ PanicAfterCircle(t) /\ VerdictHolds(t)]_vars
    BY CirclesOfStep, VerdictOfStep DEF Types
  <1> QED
    BY <1>1, <1>2, <1>3, SearchInvariant, PTL DEF Spec, CirclesFound

-----------------------------------------------------------------------------

NoteTypes ==
    /\ dependents \in [Paths -> SUBSET Paths]
    /\ targets \in [Threads -> SUBSET Paths]
    /\ disturbed \in BOOLEAN

(* A clear has the graphs to itself.                                       *)
Alone ==
    \A t, u \in Threads :
        pc[t] \in Clearing => pc[u] \notin Updating /\ (u # t => pc[u] \notin Clearing)

(* Whoever imports a file is among its dependents, or will be.             *)
Noted ==
    \A g \in DOMAIN dependencies : \A f \in dependencies[g] :
        g \in dependents[f] \/ \E t \in Threads : pc[t] = "note" /\ File(t) = g /\ f \in targets[t]

(* A clear leaves no imports behind it.                                    *)
Emptied ==
    \A t \in Threads :
        /\ pc[t] = "clear" =>
              /\ shard[t] \in 1 .. Shards
              /\ \A f \in DOMAIN dependencies : shard[t] <= placement[f]
        /\ pc[t] = "clear dependents" => DOMAIN dependencies = {}

Notes == disturbed \/ (Alone /\ Noted /\ Emptied)

(* No action disturbs the types of the dependents and of what they are     *)
(* changed for.                                                            *)
LEMMA NoteTypesOfStep ==
    ASSUME UpdateTypes, NoteTypes, [Next]_vars
    PROVE  NoteTypes'
  <1>1. CASE (\E f \in Files : Write(f)) \/ UNCHANGED vars
    BY <1>1 DEF Write, vars, graphVars, updateVars, NoteTypes
  <1>2. ASSUME NEW t \in Threads,
               (\E list \in Lists : Analyze(t, list)) \/ GetStatistics(t) \/ Clear(t)
        PROVE  NoteTypes'
    BY <1>2 DEF Analyze, GetStatistics, Clear, Call, graphVars, updateVars, NoteTypes
  <1>3. ASSUME NEW t \in Threads, InsertDependencies(t)
        PROVE  NoteTypes'
    BY <1>3 DEF InsertDependencies, NoteTypes, UpdateTypes
  <1>4. ASSUME NEW t \in Threads, NoteDependent(t)
        PROVE  NoteTypes'
    <2>1. PICK d \in targets[t] :
             /\ dependents' = [dependents EXCEPT ![d] = @ \cup {File(t)}]
             /\ targets' = [targets EXCEPT ![t] = @ \ {d}]
      BY <1>4 DEF NoteDependent
    <2>2. File(t) \in Paths
      <3>1. todo[t] # <<>> /\ todo[t] \in Seq(Paths)
        BY <1>4 DEF NoteDependent, UpdateTypes
      <3> QED BY <3>1 DEF File
    <2> QED BY <1>4, <2>1, <2>2 DEF NoteDependent, NoteTypes
  <1>5. ASSUME NEW t \in Threads, ClearDependents(t)
        PROVE  NoteTypes'
    BY <1>5, ZenonT(30) DEF ClearDependents, NoteTypes
  <1>6. ASSUME NEW t \in Threads, ClearShard(t)
        PROVE  NoteTypes'
    BY <1>6 DEF ClearShard, NoteTypes
  <1>7. ASSUME NEW t \in Threads,
               \/ ReadFile(t) \/ SkipFile(t) \/ FileIsGone(t) \/ Extract(t)
               \/ NextFile(t) \/ AllAnalyzed(t) \/ ClearCache(t)
        PROVE  NoteTypes'
    BY <1>7 DEF ReadFile, SkipFile, FileIsGone, Extract, NextFile, AllAnalyzed, ClearCache,
                graphVars, updateVars, NoteTypes
  <1>8. ASSUME NEW t \in Threads, Search(t)
        PROVE  NoteTypes'
    BY <1>8 DEF Search, NextShard, SearchEnds, Root, Descend, Pass, FindCircle, Panic, Leave,
                Searching, graphVars, updateVars, NoteTypes
  <1> QED BY <1>1, <1>2, <1>3, <1>4, <1>5, <1>6, <1>7, <1>8 DEF Next, Step

(* Imports stay noted while the graphs do, nobody begins or goes on with a *)
(* clear, and those at note do nothing.                                    *)
LEMMA NotesKept ==
    ASSUME Noted, Emptied, UNCHANGED <<dependencies, dependents, placement>>,
           \A u \in Threads :
              /\ pc[u] = "note" => pc'[u] = "note" /\ todo'[u] = todo[u] /\ targets'[u] = targets[u]
              /\ pc'[u] = "clear" => pc[u] = "clear" /\ shard'[u] = shard[u]
              /\ pc'[u] = "clear dependents" => pc[u] = "clear dependents"
    PROVE  Noted' /\ Emptied'
  <1>1. ASSUME NEW g \in DOMAIN dependencies', NEW f \in dependencies'[g]
        PROVE  (g \in dependents[f] \/ \E t \in Threads : pc[t] = "note" /\ File(t) = g /\ f \in targets[t])'
    <2>1. CASE g \in dependents[f]  BY <2>1
    <2>2. CASE \E t \in Threads : pc[t] = "note" /\ File(t) = g /\ f \in targets[t]
      <3>1. PICK t \in Threads : pc[t] = "note" /\ File(t) = g /\ f \in targets[t]  BY <2>2
      <3>2. pc'[t] = "note" /\ Head(todo'[t]) = g /\ f \in targets'[t]  BY <3>1 DEF File
      <3> QED BY <3>2 DEF File
    <2> QED BY <2>1, <2>2 DEF Noted
  <1>2. Noted'  BY <1>1 DEF Noted
  <1>3. Emptied'
    <2>1. ASSUME NEW u \in Threads, pc'[u] = "clear"
          PROVE  shard'[u] \in 1 .. Shards /\ \A f \in DOMAIN dependencies' : shard'[u] <= placement'[f]
      BY <2>1 DEF Emptied
    <2>2. ASSUME NEW u \in Threads, pc'[u] = "clear dependents"
          PROVE  DOMAIN dependencies' = {}
      BY <2>2 DEF Emptied
    <2> QED BY <2>1, <2>2 DEF Emptied
  <1> QED BY <1>2, <1>3

(* As long as no clear and update overlap, every step keeps imports noted. *)
LEMMA NotesOfStep ==
    ASSUME UpdateTypes, SearchTypes, NoteTypes, Notes, [Next]_vars
    PROVE  Notes'
  <1> SUFFICES ASSUME ~disturbed', ~disturbed, Alone, Noted, Emptied
               PROVE  Alone' /\ Noted' /\ Emptied'
    <2>1. disturbed => disturbed'
      <3>1. CASE disturbed' = disturbed  BY <3>1
      <3>2. CASE \E t \in Threads, first \in Places : Call(t, first)  BY <3>2 DEF Call
      <3>3. disturbed' = disturbed \/ \E t \in Threads, first \in Places : Call(t, first)
        <4>1. CASE \E f \in Files : Write(f)  BY <4>1 DEF Write
        <4>2. CASE \E t \in Threads : (\E list \in Lists : Analyze(t, list)) \/ GetStatistics(t) \/ Clear(t)
          BY <4>2 DEF Analyze, GetStatistics, Clear, Places
        <4>3. CASE \E t \in Threads : Search(t)
          BY <4>3 DEF Search, NextShard, SearchEnds, Root, Descend, Pass, FindCircle, Panic, Leave, Searching
        <4>4. ASSUME NEW t \in Threads, Step(t), ~Search(t)
              PROVE  disturbed' = disturbed
          BY <4>4 DEF Step, ReadFile, SkipFile, FileIsGone, Extract, InsertDependencies, NoteDependent,
                      NextFile, AllAnalyzed, ClearShard, ClearDependents, ClearCache
        <4>5. CASE UNCHANGED vars  BY <4>5 DEF vars
        <4> QED BY <4>1, <4>2, <4>3, <4>4, <4>5 DEF Next
      <3> QED BY <3>1, <3>2, <3>3
    <2> QED BY <2>1 DEF Notes
  <1> DEFINE Calm ==
        \A u \in Threads :
            /\ pc'[u] \in Clearing => pc[u] \in Clearing
            /\ pc'[u] \in Updating => pc[u] \in Updating
  <1>1. ASSUME Calm  PROVE Alone'
    BY <1>1 DEF Alone
  <1>2. CASE (\E f \in Files : Write(f)) \/ UNCHANGED vars
    <2>1. UNCHANGED <<dependencies, dependents, placement, pc, todo, targets, shard>>
      BY <1>2 DEF Write, vars, graphVars, updateVars, searchVars
    <2> QED BY <1>1, <2>1, NotesKept
  <1>3. ASSUME NEW t \in Threads, NEW first \in {"read", "search", "clear"}, Call(t, first),
               UNCHANGED <<dependencies, dependents, placement, targets>>,
               \A u \in Threads : u # t => todo'[u] = todo[u] /\ shard'[u] = shard[u],
               first = "clear" => shard'[t] = 1
        PROVE  Alone' /\ Noted' /\ Emptied'
    <2>1. pc[t] = "idle" /\ pc' = [pc EXCEPT ![t] = first]  BY <1>3 DEF Call
    <2>2. \A u \in Threads :
             /\ first \in Updating => pc[u] \notin Clearing
             /\ first \in Clearing => pc[u] \notin Updating \cup Clearing
      BY <1>3 DEF Call
    <2>3. Alone'
      BY <2>1, <2>2 DEF Alone, UpdateTypes, Updating, Clearing
    <2>4. Noted'
      <3>1. \A u \in Threads : pc[u] = "note" => u # t  BY <2>1
      <3>2. \A u \in Threads : pc[u] = "note" =>
               pc'[u] = "note" /\ todo'[u] = todo[u] /\ targets'[u] = targets[u]
        BY <1>3, <2>1, <3>1 DEF UpdateTypes
      <3>3. ASSUME NEW g \in DOMAIN dependencies', NEW f \in dependencies'[g]
            PROVE  (g \in dependents[f] \/ \E u \in Threads : pc[u] = "note" /\ File(u) = g /\ f \in targets[u])'
        <4>1. CASE g \in dependents[f]  BY <1>3, <4>1
        <4>2. CASE \E u \in Threads : pc[u] = "note" /\ File(u) = g /\ f \in targets[u]
          <5>1. PICK u \in Threads : pc[u] = "note" /\ File(u) = g /\ f \in targets[u]  BY <4>2
          <5>2. pc'[u] = "note" /\ Head(todo'[u]) = g /\ f \in targets'[u]  BY <3>2, <5>1 DEF File
          <5> QED BY <5>2 DEF File
        <4> QED BY <1>3, <4>1, <4>2 DEF Noted
      <3> QED BY <3>3 DEF Noted
    <2>5. Emptied'
      <3>1. \A f \in DOMAIN dependencies : 1 <= placement[f]  BY DEF UpdateTypes
      <3>2. 1 \in 1 .. Shards  BY DependencyAssumption DEF DependencyAssumption
      <3>3. \A u \in Threads : u # t => pc'[u] = pc[u]  BY <2>1 DEF UpdateTypes
      <3>4. pc'[t] = first  BY <2>1 DEF UpdateTypes
      <3> QED BY <1>3, <3>1, <3>2, <3>3, <3>4 DEF Emptied
    <2> QED BY <2>3, <2>4, <2>5
  <1>4. ASSUME NEW t \in Threads,
               (\E list \in Lists : Analyze(t, list)) \/ GetStatistics(t) \/ Clear(t)
        PROVE  Alone' /\ Noted' /\ Emptied'
    <2>1. CASE \E list \in Lists : Analyze(t, list)
      BY <1>3, <2>1 DEF Analyze, graphVars, searchVars, UpdateTypes
    <2>2. CASE GetStatistics(t)
      BY <1>3, <2>2 DEF GetStatistics, StartSearch, graphVars, updateVars, SearchTypes
    <2>3. CASE Clear(t)
      BY <1>3, <2>3 DEF Clear, graphVars, updateVars, SearchTypes
    <2> QED BY <1>4, <2>1, <2>2, <2>3
  <1>5. ASSUME NEW t \in Threads,
               \/ ReadFile(t) \/ SkipFile(t) \/ FileIsGone(t) \/ Extract(t)
               \/ AllAnalyzed(t) \/ ClearCache(t) \/ Search(t)
        PROVE  Alone' /\ Noted' /\ Emptied'
    <2>1. /\ UNCHANGED <<dependencies, dependents, placement, targets>>
          /\ \/ todo' = todo
             \/ pc[t] = "read" /\ todo' = [todo EXCEPT ![t] = Tail(@)]
          /\ \A u \in Threads : u # t => shard'[u] = shard[u]
          /\ \/ /\ pc[t] \in {"read", "extract"}
                /\ \E to \in {"read", "extract", "insert", "search", "idle"} : pc' = [pc EXCEPT ![t] = to]
             \/ /\ pc[t] \in {"search", "clear dependents"}
                /\ pc' = pc \/ \E to \in {"idle", "panicked"} : pc' = [pc EXCEPT ![t] = to]
      <3>1. CASE ReadFile(t) \/ SkipFile(t) \/ FileIsGone(t) \/ Extract(t)
        BY <3>1 DEF ReadFile, SkipFile, FileIsGone, Extract, Goto, graphVars, updateVars, searchVars
      <3>2. CASE AllAnalyzed(t)
        BY <3>2 DEF AllAnalyzed, StartSearch, Goto, graphVars, updateVars, searchVars, SearchTypes
      <3>3. CASE ClearCache(t)
        BY <3>3 DEF ClearCache, Goto, updateVars, searchVars
      <3>4. CASE Search(t)
        BY <3>4 DEF Search, NextShard, SearchEnds, Root, Descend, Pass, FindCircle, Panic, Leave,
                    Visit, Searching, graphVars, updateVars, searchVars, SearchTypes
      <3> QED BY <1>5, <3>1, <3>2, <3>3, <3>4
    <2>2. Calm
      BY <2>1 DEF UpdateTypes, Clearing, Updating
    <2>3. \A u \in Threads :
              /\ pc[u] = "note" => pc'[u] = "note" /\ todo'[u] = todo[u] /\ targets'[u] = targets[u]
              /\ pc'[u] = "clear" => pc[u] = "clear" /\ shard'[u] = shard[u]
              /\ pc'[u] = "clear dependents" => pc[u] = "clear dependents"
      BY <2>1 DEF UpdateTypes
    <2> QED BY <1>1, <2>1, <2>2, <2>3, NotesKept
  <1>6. ASSUME NEW t \in Threads, InsertDependencies(t)
        PROVE  Alone' /\ Noted' /\ Emptied'
    <2>1. /\ pc[t] = "insert" /\ pc' = [pc EXCEPT ![t] = "note"]
          /\ dependencies' = [f \in DOMAIN dependencies \cup {File(t)} |->
                                 IF f = File(t) THEN imports[t] ELSE dependencies[f]]
          /\ targets' = [targets EXCEPT ![t] = imports[t]]
          /\ UNCHANGED <<dependents, todo>>
      BY <1>6 DEF InsertDependencies, Goto
    <2>2. Calm  BY <2>1 DEF UpdateTypes, Clearing, Updating
    <2>3. Noted'
      <3>1. pc'[t] = "note" /\ targets'[t] = imports[t] /\ todo'[t] = todo[t]
        BY <2>1 DEF UpdateTypes, NoteTypes
      <3>2. \A u \in Threads : pc[u] = "note" => pc'[u] = "note" /\ targets'[u] = targets[u]
        BY <2>1 DEF UpdateTypes, NoteTypes
      <3> QED BY <2>1, <3>1, <3>2 DEF Noted, File
    <2>4. Emptied'
      <3>1. \A u \in Threads : pc[u] \notin Clearing
        BY <2>1 DEF Alone, Updating
      <3> QED BY <2>2, <3>1 DEF Emptied, Clearing
    <2> QED BY <1>1, <2>2, <2>3, <2>4
  <1>7. ASSUME NEW t \in Threads, NoteDependent(t)
        PROVE  Alone' /\ Noted' /\ Emptied'
    <2>1. PICK d \in targets[t] :
             /\ dependents' = [dependents EXCEPT ![d] = @ \cup {File(t)}]
             /\ targets' = [targets EXCEPT ![t] = @ \ {d}]
      BY <1>7 DEF NoteDependent
    <2>2. UNCHANGED <<dependencies, placement, pc, todo, shard>>
      BY <1>7 DEF NoteDependent, searchVars
    <2>3. Noted'
      <3>1. d \in Paths /\ File(t) \in dependents'[d]
        BY <2>1 DEF NoteTypes
      <3>2. \A f \in Paths : dependents[f] \subseteq dependents'[f]
        BY <2>1 DEF NoteTypes
      <3>3. \A u \in Threads : \A f \in targets[u] : f \in targets'[u] \/ (u = t /\ f = d)
        BY <2>1 DEF NoteTypes
      <3>4. \A g \in DOMAIN dependencies : dependencies[g] \subseteq Paths
        BY DEF UpdateTypes
      <3> QED BY <2>2, <3>1, <3>2, <3>3, <3>4 DEF Noted, File
    <2>4. Emptied'  BY <2>2 DEF Emptied
    <2> QED BY <1>1, <2>2, <2>3, <2>4
  <1>8. ASSUME NEW t \in Threads, NextFile(t)
        PROVE  Alone' /\ Noted' /\ Emptied'
    <2>1. /\ pc[t] = "note" /\ pc' = [pc EXCEPT ![t] = "read"] /\ targets[t] = {}
          /\ todo' = [todo EXCEPT ![t] = Tail(@)]
          /\ UNCHANGED <<dependencies, dependents, placement, targets, shard>>
      BY <1>8 DEF NextFile, Goto, graphVars, searchVars
    <2>2. Calm  BY <2>1 DEF UpdateTypes, Clearing, Updating
    <2>3. \A u \in Threads : u # t => pc'[u] = pc[u] /\ todo'[u] = todo[u]
      BY <2>1 DEF UpdateTypes
    <2>4. Noted'  BY <2>1, <2>3 DEF Noted, File
    <2>5. Emptied'  BY <2>1 DEF Emptied, UpdateTypes
    <2> QED BY <1>1, <2>2, <2>4, <2>5
  <1>9. ASSUME NEW t \in Threads, ClearShard(t)
        PROVE  Alone' /\ Noted' /\ Emptied'
    <2>1. /\ pc[t] = "clear"
          /\ pc' = [pc EXCEPT ![t] = IF shard[t] = Shards THEN "clear dependents" ELSE "clear"]
          /\ dependencies' = [f \in {g \in DOMAIN dependencies : placement[g] # shard[t]} |->
                                 dependencies[f]]
          /\ shard' = [shard EXCEPT ![t] = @ + 1]
          /\ UNCHANGED <<placement, dependents>>
      BY <1>9 DEF ClearShard, Goto
    <2>2. Calm  BY <2>1 DEF UpdateTypes, Clearing, Updating
    <2>3. \A u \in Threads : pc[u] \notin Updating /\ (u # t => pc[u] \notin Clearing)
      BY <2>1 DEF Alone, Clearing
    <2>4. Noted'
      <3>1. \A u \in Threads : pc[u] # "note"  BY <2>3 DEF Updating
      <3> QED BY <2>1, <3>1, ZenonT(30) DEF Noted
    <2>5. Emptied'
      <3>1. /\ shard[t] \in 1 .. Shards
            /\ \A f \in DOMAIN dependencies' : shard[t] + 1 <= placement[f] /\ placement[f] <= Shards
        <4>1. shard[t] \in 1 .. Shards /\ \A f \in DOMAIN dependencies : shard[t] <= placement[f]
          BY <2>1 DEF Emptied
        <4>2. \A f \in DOMAIN dependencies : placement[f] \in 1 .. Shards
          BY DEF UpdateTypes
        <4>3. \A f \in DOMAIN dependencies' : f \in DOMAIN dependencies /\ placement[f] # shard[t]
          BY <2>1
        <4>4. Shards \in Nat  BY DependencyAssumption DEF DependencyAssumption
        <4> QED BY <4>1, <4>2, <4>3, <4>4
      <3>2. shard'[t] = shard[t] + 1  BY <2>1 DEF SearchTypes
      <3>3. pc'[t] = IF shard[t] = Shards THEN "clear dependents" ELSE "clear"
        BY <2>1 DEF UpdateTypes
      <3>4. Shards \in Nat  BY DependencyAssumption DEF DependencyAssumption
      <3>5. pc'[t] = "clear" =>
               /\ shard'[t] \in 1 .. Shards
               /\ \A f \in DOMAIN dependencies' : shard'[t] <= placement'[f]
        <4>1. shard[t] # Shards => shard[t] + 1 \in 1 .. Shards  BY <3>1, <3>4
        <4>2. placement' = placement  BY <2>1
        <4>3. pc'[t] = "clear" => shard[t] # Shards  BY <3>3
        <4> QED BY <3>1, <3>2, <4>1, <4>2, <4>3, Zenon
      <3>6. pc'[t] = "clear dependents" => DOMAIN dependencies' = {}
        <4>1. ASSUME shard[t] = Shards, NEW f \in DOMAIN dependencies'  PROVE FALSE
          <5>1. Shards + 1 <= placement[f] /\ placement[f] <= Shards  BY <3>1, <4>1
          <5>2. placement[f] \in 1 .. Shards  BY <2>1 DEF UpdateTypes
          <5> QED BY <3>4, <5>1, <5>2
        <4> QED BY <3>3, <4>1
      <3>7. \A u \in Threads : u # t => pc'[u] \notin Clearing
        BY <2>1, <2>3 DEF UpdateTypes
      <3> QED BY <3>5, <3>6, <3>7 DEF Emptied, Clearing
    <2> QED BY <1>1, <2>2, <2>4, <2>5
  <1>10. ASSUME NEW t \in Threads, ClearDependents(t)
         PROVE  Alone' /\ Noted' /\ Emptied'
    <2>1. /\ pc[t] = "clear dependents"
          /\ UNCHANGED <<dependencies, placement, pc, shard>>
      BY <1>10 DEF ClearDependents, searchVars
    <2>2. DOMAIN dependencies = {}  BY <2>1 DEF Emptied
    <2>3. Noted'  BY <2>1, <2>2 DEF Noted
    <2>4. Emptied'  BY <2>1 DEF Emptied
    <2> QED BY <1>1, <2>1, <2>3, <2>4
  <1> QED
    BY <1>2, <1>4, <1>5, <1>6, <1>7, <1>8, <1>9, <1>10 DEF Next, Step

(* What is reached in n steps, for every n up to a limit.                  *)
Reaches(r, back, f, limit) ==
    r = [n \in 0 .. limit |-> IF n = 0 THEN {f} ELSE r[n - 1] \cup UNION {back[g] : g \in r[n - 1]}]

(* There is such a function: one for a limit is continued to the next.     *)
LEMMA ReachesExists ==
    ASSUME NEW back, NEW f
    PROVE  \A limit \in Nat : \E r : Reaches(r, back, f, limit)
  <1> DEFINE S == {limit \in Nat : \E r : Reaches(r, back, f, limit)}
             Further(r, n) == r[n] \cup UNION {back[g] : g \in r[n]}
  <1>1. 0 \in S
    <2> DEFINE r == [n \in 0 .. 0 |-> {f}]
    <2>1. Reaches(r, back, f, 0)
      BY DEF Reaches
    <2> QED
      BY <2>1
  <1>2. ASSUME NEW k \in Nat, k \in S PROVE k + 1 \in S
    <2>1. PICK r : Reaches(r, back, f, k)
      BY <1>2
    <2> DEFINE q == [n \in 0 .. k + 1 |-> IF n = k + 1 THEN Further(r, k) ELSE r[n]]
    <2>2. \A n \in 0 .. k : r[n] = IF n = 0 THEN {f} ELSE Further(r, n - 1)
      BY <2>1 DEF Reaches
    <2>3. \A n \in 0 .. k : q[n] = r[n]
      OBVIOUS
    <2>4. q[k + 1] = Further(r, k)
      OBVIOUS
    <2>5. ASSUME NEW n \in 0 .. k + 1
          PROVE  q[n] = IF n = 0 THEN {f} ELSE Further(q, n - 1)
      <3> HIDE DEF q
      <3>1. CASE n = 0
        <4>1. 0 \in 0 .. k
          OBVIOUS
        <4>2. q[0] = {f}
          BY <2>2, <2>3, <4>1
        <4> QED
          BY <3>1, <4>2
      <3>2. CASE n # 0
        <4>1. n - 1 \in 0 .. k /\ (n # k + 1 => n \in 0 .. k)
          BY <3>2
        <4>2. Further(q, n - 1) = Further(r, n - 1)
          BY <2>3, <4>1
        <4>3. q[n] = Further(r, n - 1)
          <5>1. CASE n = k + 1
            BY <2>4, <5>1
          <5>2. CASE n # k + 1
            BY <2>2, <2>3, <3>2, <4>1, <5>2
          <5> QED
            BY <5>1, <5>2
        <4> QED
          BY <3>2, <4>2, <4>3
      <3> QED
        BY <3>1, <3>2
    <2>6. q = [n \in 0 .. k + 1 |-> q[n]]
      OBVIOUS
    <2> HIDE DEF q
    <2>7. Reaches(q, back, f, k + 1)
      BY <2>5, <2>6 DEF Reaches
    <2> QED
      BY <2>7
  <1>3. \A n \in Nat : n \in S => n + 1 \in S
    BY <1>2
  <1> HIDE DEF S
  <1>4. \A n \in Nat : n \in S
    BY <1>1, <1>3, NaturalsIn
  <1> QED
    BY <1>4 DEF S

(* Who imports the file over others is reached: the last file on the way   *)
(* is a dependent of the file, the one before of that one, and so on.      *)
LEMMA WayReached ==
    ASSUME NEW back, NEW f, NEW r, NEW limit \in Nat, Reaches(r, back, f, limit),
           NEW n \in 1 .. limit, NEW way, way[n] \in back[f],
           \A i \in 1 .. n - 1 : way[i] \in back[way[i + 1]]
    PROVE  way[1] \in r[limit]
  <1>1. r[0] = {f} /\ \A m \in 0 .. limit - 1 : r[m + 1] = r[m] \cup UNION {back[g] : g \in r[m]}
    <2>1. \A m \in 0 .. limit :
             r[m] = IF m = 0 THEN {f} ELSE r[m - 1] \cup UNION {back[g] : g \in r[m - 1]}
      BY DEF Reaches
    <2>2. \A m \in 0 .. limit - 1 : m + 1 \in 0 .. limit /\ m + 1 # 0 /\ (m + 1) - 1 = m
      OBVIOUS
    <2>3. 0 \in 0 .. limit
      OBVIOUS
    <2> QED
      BY <2>1, <2>2, <2>3
  <1> DEFINE Back == {k \in Nat : k < n => way[n - k] \in r[k + 1]}
             Later == {k \in Nat : n + k <= limit => way[1] \in r[n + k]}
  <1>2. 0 \in Back
    <2>1. f \in r[0] /\ 0 \in 0 .. limit - 1
      BY <1>1
    <2>2. way[n] \in r[0 + 1]
      BY <1>1, <2>1
    <2> QED
      BY <2>2
  <1>3. ASSUME NEW k \in Nat, k \in Back PROVE k + 1 \in Back
    <2> SUFFICES ASSUME k + 1 < n PROVE way[n - (k + 1)] \in r[(k + 1) + 1]
      OBVIOUS
    <2>1. /\ n - (k + 1) \in 1 .. n - 1 /\ (n - (k + 1)) + 1 = n - k
          /\ k + 1 \in 0 .. limit - 1
      OBVIOUS
    <2>2. way[n - k] \in r[k + 1]
      BY <1>3
    <2>3. way[n - (k + 1)] \in back[way[n - k]]
      BY <2>1
    <2>4. r[(k + 1) + 1] = r[k + 1] \cup UNION {back[g] : g \in r[k + 1]}
      BY <1>1, <2>1
    <2> QED
      BY <2>2, <2>3, <2>4
  <1>4. n - 1 \in Back
    <2>1. \A k \in Nat : k \in Back => k + 1 \in Back
      BY <1>3
    <2> HIDE DEF Back
    <2>2. \A k \in Nat : k \in Back
      BY <1>2, <2>1, NaturalsIn
    <2> QED
      BY <2>2
  <1>5. 0 \in Later
    <2>1. n - (n - 1) = 1 /\ (n - 1) + 1 = n + 0 /\ n - 1 < n
      OBVIOUS
    <2> QED
      BY <1>4, <2>1
  <1>6. ASSUME NEW k \in Nat, k \in Later PROVE k + 1 \in Later
    <2> SUFFICES ASSUME n + (k + 1) <= limit PROVE way[1] \in r[n + (k + 1)]
      OBVIOUS
    <2>1. n + k \in 0 .. limit - 1 /\ n + k <= limit /\ n + (k + 1) = (n + k) + 1
      OBVIOUS
    <2>2. way[1] \in r[n + k]
      BY <1>6, <2>1
    <2>3. r[(n + k) + 1] = r[n + k] \cup UNION {back[g] : g \in r[n + k]}
      BY <1>1, <2>1
    <2> QED
      BY <2>1, <2>2, <2>3
  <1>7. limit - n \in Later
    <2>1. \A k \in Nat : k \in Later => k + 1 \in Later
      BY <1>6
    <2> HIDE DEF Later
    <2>2. \A k \in Nat : k \in Later
      BY <1>5, <2>1, NaturalsIn
    <2> QED
      BY <2>2
  <1>8. n + (limit - n) = limit /\ limit <= limit
    OBVIOUS
  <1> QED
    BY <1>7, <1>8

(* Where every import is noted, the whole tree has all importers.          *)
LEMMA TreeComplete ==
    ASSUME NEW f \in Paths, dependents \in [Paths -> SUBSET Paths],
           DOMAIN dependencies \subseteq Paths,
           \A g \in DOMAIN dependencies : \A d \in dependencies[g] : g \in dependents[d]
    PROVE  Importers(f) \subseteq AllDependents(f)
  <1> DEFINE N == Cardinality(Paths)
  <1>1. N \in Nat
    BY DependencyAssumption, FS_CardinalityType DEF DependencyAssumption
  <1>2. PICK r : r = (CHOOSE q : Reaches(q, dependents, f, N)) /\ Reaches(r, dependents, f, N)
    BY <1>1, ReachesExists, Zenon
  <1>3. AllDependents(f) = r[N]
    BY <1>2, Zenon DEF AllDependents, Reaches
  <1> SUFFICES ASSUME NEW g \in Importers(f) PROVE g \in r[N]
    BY <1>3
  <1>4. PICK n \in 1 .. N : \E way \in [1 .. n -> Paths] :
          /\ way[1] = g
          /\ f \in ImportsOf(way[n])
          /\ \A i \in 1 .. n - 1 : way[i + 1] \in ImportsOf(way[i])
    BY DEF Importers
  <1>5. PICK way \in [1 .. n -> Paths] :
          /\ way[1] = g
          /\ f \in ImportsOf(way[n])
          /\ \A i \in 1 .. n - 1 : way[i + 1] \in ImportsOf(way[i])
    BY <1>4
  <1>6. \A h : \A d \in ImportsOf(h) : h \in dependents[d]
    BY DEF ImportsOf
  <1>7. way[n] \in dependents[f] /\ \A i \in 1 .. n - 1 : way[i] \in dependents[way[i + 1]]
    BY <1>5, <1>6
  <1> HIDE DEF N
  <1>8. way[1] \in r[N]
    BY <1>1, <1>2, <1>7, WayReached
  <1> QED
    BY <1>5, <1>8

(* Once nobody updates the graphs, a change invalidates every file that    *)
(* imports the changed one, and with the whole tree all that do so over    *)
(* others, unless a clear has overlapped an analysis                       *)
(* (update_dependency_graph, get_invalidation_targets, clear).             *)
THEOREM ImportsNoted == Spec => []ImportersInvalidated
  <1>1. Init => NoteTypes /\ Notes
    BY DEF Init, NoteTypes, Notes, Alone, Noted, Emptied, Clearing, Updating
  <1>2. Types /\ NoteTypes /\ Notes /\ [Next]_vars => (NoteTypes /\ Notes)'
    BY NoteTypesOfStep, NotesOfStep DEF Types
  <1>3. Types /\ NoteTypes /\ Notes => ImportersInvalidated
    <2> SUFFICES ASSUME Types, NoteTypes, Notes, Updated, ~disturbed
                 PROVE  /\ \A g \in DOMAIN dependencies : \A f \in dependencies[g] : ImportNoted(g, f)
                        /\ \A f \in Paths : Importers(f) \subseteq InvalidationTargets(f, "tree")
      BY DEF ImportersInvalidated
    <2>1. \A g \in DOMAIN dependencies : \A f \in dependencies[g] : g \in dependents[f]
      BY DEF Notes, Noted, Updated, Updating
    <2>2. \A g \in DOMAIN dependencies : \A f \in dependencies[g] : ImportNoted(g, f)
      BY <2>1 DEF ImportNoted, InvalidationTargets
    <2>3. ASSUME NEW f \in Paths PROVE Importers(f) \subseteq InvalidationTargets(f, "tree")
      <3>1. dependents \in [Paths -> SUBSET Paths] /\ DOMAIN dependencies \subseteq Paths
        BY DEF Types, UpdateTypes, NoteTypes
      <3>2. Importers(f) \subseteq AllDependents(f)
        BY <2>1, <3>1, TreeComplete
      <3> QED
        BY <3>2 DEF InvalidationTargets
    <2> QED
      BY <2>2, <2>3
  <1> QED
    BY <1>1, <1>2, <1>3, SearchInvariant, PTL DEF Spec
=============================================================================
