------------------------------- MODULE ProjectRun -------------------------------
(***************************************************************************)
(* The analysis of a Foundry or Hardhat project: analyze_project           *)
(* (crates/cli/src/app.rs) over the import graph of crates/resolver.       *)
(*                                                                         *)
(* The files listed for analysis are put into a graph with whatever they   *)
(* import; without import cycle they are analysed dependencies first, else *)
(* as listed.  Cross-contract analysis, the two sections of the report and *)
(* the exit code follow.  A path is <<file, form>>: canonical, or as       *)
(* listed, which is the same when the project directory was given by its   *)
(* canonical path.  What analyze_file finds in a file (see AnalysisRun) is *)
(* the constant Findings; each file is analysed once, so no cache appears. *)
(***************************************************************************)
EXTENDS ExitCode, Sequences, FiniteSets, SequencesExt

CONSTANTS
  Files,          \* files of the project directory
  SourceFiles,    \* project.solidity_files, as a sequence
  LibraryFiles,   \* what a walk of the library directories lists
  ImportGraphs,   \* imports to choose from: the files each file imports
  UnreadableSets, \* sets of files that cannot be read to choose from
  UnparsableSets, \* and of files that can be read and do not parse
  Findings,       \* severities of the findings in each file
  ContractNames   \* names of the contracts in each file

FileOf(path) == path[1]
Canonical(path) == <<FileOf(path), "canonical">>
GraphPaths == Files \X {"canonical", "listed"}

Finding == [path : GraphPaths \cup {None}, line : Nat, severity : Severities]

ASSUME ProjectAssumption ==
  /\ IsFiniteSet(Files)
  /\ SourceFiles \in Seq(Files) /\ LibraryFiles \in Seq(Files)
  /\ ImportGraphs \subseteq [Files -> SUBSET Files]
  /\ UnreadableSets \cup UnparsableSets \subseteq SUBSET Files
  /\ Findings \in [Files -> Seq(Severities)]
  /\ \A o \in OptionSets : /\ {o.includeDeps, o.depsOnly, o.crossContract} \subseteq BOOLEAN
                          /\ o.exitConfig \in ExitConfigs

VARIABLES
  project,    \* imports, what cannot be read or parsed, is the root canonical
  phase,      \* where analyze_project is
  unscanned,  \* listed files whose imports are not in the graph yet
  nodes, edges,        \* DependencyGraph: paths, <<importer, imported>>
  order,      \* analysis_order
  analyzed,   \* how many of them are analysed
  sourceFound, depFound, allFound    \* findings, as they are collected

graph == <<nodes, edges>>
collected == <<sourceFound, depFound, allFound>>
projectVars == <<project, options, phase, unscanned, graph, order, analyzed, summary,
          collected, exit>>

-----------------------------------------------------------------------------
Listed(f) == <<f, IF project.canonicalRoot THEN "canonical" ELSE "listed">>
ListedPaths(fs) == [i \in DOMAIN fs |-> Listed(fs[i])]

SourcePaths == IF options.depsOnly THEN << >> ELSE ListedPaths(SourceFiles)
DepPaths == IF options.includeDeps \/ options.depsOnly THEN ListedPaths(LibraryFiles) ELSE << >>
AllFiles == SourcePaths \o DepPaths

(* Mutant: paths are not canonicalised, as they are written they differ.   *)
NodeOfVerbatim(path) == path
(* add_node: one node for a file, whatever path it is reached by.          *)
NodeOf(path) == Canonical(path)

ProjectInit ==
  /\ project \in [imports : ImportGraphs, unreadable : UnreadableSets,
                  unparsable : UnparsableSets, canonicalRoot : BOOLEAN]
  /\ options \in OptionSets
  /\ phase = "collect"
  /\ unscanned = << >>
  /\ nodes = {} /\ edges = {}
  /\ order = << >>
  /\ analyzed = 0
  /\ summary = EmptySummary
  /\ sourceFound = << >> /\ depFound = << >> /\ allFound = << >>
  /\ exit = None

(* The listed files; an empty list is an error.                            *)
Collect ==
  /\ phase = "collect"
  /\ phase' = IF AllFiles = << >> THEN "error" ELSE "graph"
  /\ unscanned' = AllFiles
  /\ nodes' = {NodeOf(p) : p \in ToSet(AllFiles)}
  /\ UNCHANGED <<project, options, edges, order, analyzed, summary, collected, exit>>

(* Imported files join the graph, whether or not they are listed.          *)
WithImported(resolved) == nodes \cup {NodeOf(p) : p \in resolved}

(* process_file_imports.  Imports resolve to canonical paths; those that   *)
(* do not resolve are skipped, and the imports of an imported file that is *)
(* not listed itself are never looked at.  They are found in the text: it  *)
(* need not parse.                                                         *)
ScanImports ==
  /\ phase = "graph"
  /\ unscanned # << >>
  /\ FileOf(Head(unscanned)) \notin project.unreadable
  /\ LET from == Head(unscanned)
         resolved == {<<g, "canonical">> : g \in project.imports[FileOf(from)]}
     IN /\ nodes' = WithImported(resolved)
        /\ edges' = edges \cup {<<NodeOf(from), NodeOf(p)>> : p \in resolved}
  /\ unscanned' = Tail(unscanned)
  /\ UNCHANGED <<project, options, phase, order, analyzed, summary, collected, exit>>

(* A file that cannot be read ends the construction of the graph.          *)
ScanFails ==
  /\ phase = "graph"
  /\ unscanned # << >>
  /\ FileOf(Head(unscanned)) \in project.unreadable
  /\ order' = AllFiles
  /\ phase' = "analyze"
  /\ UNCHANGED <<project, options, unscanned, graph, analyzed, summary, collected, exit>>

(* toposort fails exactly on graphs with a cycle, self-imports included.   *)
Positions(s, x) == CHOOSE i \in DOMAIN s : s[i] = x
TopologicalOrders(ns, es) ==
  {s \in SetToSeqs(ns) : \A e \in es : Positions(s, e[1]) < Positions(s, e[2])}
HasCycles == TopologicalOrders(nodes, edges) = {}

(* Mutant: the graph is sorted as it is, importers first.                  *)
OrderUnreversed(ns, es) == TopologicalOrders(ns, es)
(* topological_order reverses the edges: dependencies first.               *)
OrderOf(ns, es) == TopologicalOrders(ns, {<<e[2], e[1]>> : e \in es})

ChooseOrder ==
  /\ phase = "graph"
  /\ unscanned = << >>
  /\ IF HasCycles THEN order' = AllFiles ELSE order' \in OrderOf(nodes, edges)
  /\ phase' = "analyze"
  /\ UNCHANGED <<project, options, unscanned, graph, analyzed, summary, collected, exit>>

(* Every finding of a file is written down with the path it was analysed   *)
(* by; is_dep compares that path with the listed ones.                     *)
FindingsAt(path) ==
  LET fs == Findings[FileOf(path)]
  IN [i \in DOMAIN fs |-> [path |-> path, line |-> i, severity |-> fs[i]]]

(* Mutant: the listed paths are made canonical, the path asked about not.  *)
IsDepCanonical(path) == path \in {Canonical(p) : p \in ToSet(DepPaths)}
IsDep(path) == path \in ToSet(DepPaths)

(* analyze_file fails on them.                                             *)
Failing == project.unreadable \cup project.unparsable

AnalyzeNext ==
  /\ phase = "analyze"
  /\ analyzed < Len(order)
  /\ LET path == order[analyzed + 1]
         fs == FindingsAt(path)
     IN IF FileOf(path) \in Failing
        THEN /\ summary' = [summary EXCEPT !.failed = @ + 1]
             /\ UNCHANGED collected
        ELSE /\ summary' = [summary EXCEPT
                              !.successful = @ + 1,
                              !.total = @ + Len(fs),
                              !.bySeverity = [s \in Severities |->
                                 @[s] + Cardinality({i \in DOMAIN fs : fs[i].severity = s})]]
             /\ sourceFound' = IF IsDep(path) THEN sourceFound ELSE sourceFound \o fs
             /\ depFound' = IF IsDep(path) THEN depFound \o fs ELSE depFound
             /\ allFound' = allFound \o fs
  /\ analyzed' = analyzed + 1
  /\ UNCHANGED <<project, options, phase, unscanned, graph, order, exit>>

(* The contracts of the analysed files, by name; with two or more of them  *)
(* CrossContractAnalyzer may find something, reported at the contract.     *)
ContractsInOrder ==
  UNION {ContractNames[FileOf(p)] : p \in {q \in ToSet(order) : FileOf(q) \notin Failing}}

CrossContract ==
  /\ phase = "analyze"
  /\ analyzed = Len(order)
  /\ phase' = "report"
  /\ IF options.crossContract /\ Cardinality(ContractsInOrder) >= 2
     THEN \/ UNCHANGED allFound
          \/ \E s \in Severities :
               allFound' = Append(allFound, [path |-> None, line |-> 1, severity |-> s])
     ELSE UNCHANGED allFound
  /\ UNCHANGED <<project, options, unscanned, graph, order, analyzed, summary,
                 sourceFound, depFound, exit>>

(* Each list is deduplicated by place; the exit code comes from the        *)
(* summary, which counted the findings of the files as they came.          *)
Places(fs) == [i \in DOMAIN fs |-> <<fs[i].path, fs[i].line>>]

FinishProject ==
  /\ phase = "report"
  /\ phase' = "done"
  /\ sourceFound' = Deduplicated(sourceFound, Places(sourceFound))
  /\ depFound' = Deduplicated(depFound, Places(depFound))
  /\ allFound' = Deduplicated(allFound, Places(allFound))
  /\ exit' = DetermineExitCode(summary, options.exitConfig)
  /\ UNCHANGED <<project, options, unscanned, graph, order, analyzed, summary>>

ProjectNext ==
  \/ Collect \/ ScanImports \/ ScanFails \/ ChooseOrder
  \/ AnalyzeNext \/ CrossContract \/ FinishProject

ProjectSpec == ProjectInit /\ [][ProjectNext]_projectVars
-----------------------------------------------------------------------------
(* Properties.                                                             *)

(* Cycles and files that cannot be read cost the order, never a file: each *)
(* listed file is analysed, and no file is analysed twice, however it is   *)
(* reached -- unless the order fell back to a list that names it twice, as *)
(* it does when one library directory lies in another.                     *)
AnalyzedFiles == {FileOf(order[i]) : i \in 1 .. analyzed}
ListedOnce == IsInjective(SourceFiles \o LibraryFiles)
EveryFileOnce ==
  /\ order # AllFiles \/ ListedOnce =>
       \A i, j \in DOMAIN order : FileOf(order[i]) = FileOf(order[j]) => i = j
  /\ phase \in {"report", "done"} => {FileOf(p) : p \in ToSet(AllFiles)} \subseteq AnalyzedFiles

(* Unless the listed files import each other in a circle or one of them    *)
(* cannot be read, a listed file is analysed after all that it imports.    *)
ListedFiles == {FileOf(p) : p \in ToSet(AllFiles)}
Circular ==
  \E S \in SUBSET ListedFiles :
    S # {} /\ \A f \in S : \E g \in S : f \in project.imports[g]
DependenciesFirst ==
  ~Circular /\ ListedFiles \cap project.unreadable = {} =>
    \A i \in 1 .. analyzed :
      LET f == FileOf(order[i])
      IN f \in ListedFiles => project.imports[f] \subseteq {FileOf(order[j]) : j \in 1 .. i - 1}

(* Success is never wrong about the files analysed: none failed, and none  *)
(* of their findings is as severe as the flags ask about.  Findings that   *)
(* only the cross-contract detectors make are reported and do not count.   *)
ProjectExitFaithful ==
  exit = "success" =>
    /\ options.exitConfig.errorOnAnalysisFailure => AnalyzedFiles \cap Failing = {}
    /\ \A f \in AnalyzedFiles \ Failing :
         \A i \in DOMAIN Findings[f] : Findings[f][i] < Threshold(options.exitConfig)

(* docs/USAGE.md on --include-deps: "output is categorized".  The findings *)
(* of library files are those of the dependency section, and only they     *)
(* are -- provided the order has the paths as they were listed: the        *)
(* project was given by its canonical path, or the order fell back to the  *)
(* list.  Otherwise no dependency is recognised.                           *)
PathsAsListed == project.canonicalRoot \/ order = AllFiles
DependenciesCategorized ==
  phase = "done" /\ PathsAsListed =>
    /\ \A i \in DOMAIN sourceFound : FileOf(sourceFound[i].path) \in ToSet(LibraryFiles) =>
         DepPaths = << >>
    /\ \A i \in DOMAIN depFound : FileOf(depFound[i].path) \in ToSet(LibraryFiles)
=============================================================================
