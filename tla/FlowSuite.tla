----------------------------- MODULE FlowSuite ------------------------------
(***************************************************************************)
(* The data flow analyses a function's graph goes through, one after the   *)
(* other, and the chains read off their results.                           *)
(*                                                                         *)
(* A suite of the engine is the framework's analyses                       *)
(* (crates/dataflow/src/framework.rs, as called by                         *)
(* crates/analysis/src/engine.rs).  The second suite is the data flow      *)
(* crate's own full analyses, which a caller of the crate runs itself over *)
(* the graph of a lowered function or over one it has made with add_block; *)
(* the engine does not use them.                                           *)
(***************************************************************************)
EXTENDS FlowResults

VARIABLES
    suite, \* "engine" or "full"
    graph, \* the control flow graph of the function at work
    due,   \* what is done next for it: "solve" and "solving" are done here
    saved  \* the results of the data flow analyses it has been through

suiteVars == <<suite, graph, due, saved>>

(* The analyses of a suite in order: def_use_chains() runs the framework's *)
(* two analyses a second time.                                             *)
Analyses(s) ==
    IF s = "engine" THEN <<"reaching", "live", "reaching", "live">>
    ELSE <<"sites", "liveness">>

IsExit(code) == code # <<>> /\ Last(code).op \in {"return", "revert"}

ExitBlocks(g) == {b \in g.blocks : IsExit(g.code[b])}

(* What the solver is given for the suite's i-th analysis.                 *)
SuiteProblem(i) == FlowProblem(graph, Analyses(suite)[i], ExitBlocks(graph))

SuiteInit ==
    /\ suite \in {"engine", "full"}
    /\ due \notin {"solve", "solving"}
    /\ saved = <<>>
    /\ FlowInit

(* A new graph: nothing is known of it.                                    *)
TakeGraph(g) ==
    /\ due # "solving"
    /\ due' # "solving"
    /\ graph' = g
    /\ saved' = <<>>
    /\ UNCHANGED <<suite, flowVars>>

(* What is done beside the analyses leaves the graph and its results.      *)
Beside ==
    /\ due # "solving"
    /\ due' # "solving"
    /\ UNCHANGED <<suite, graph, saved, flowVars>>

(* The next analysis of the suite is handed to the solver.                 *)
Solve ==
    /\ due = "solve"
    /\ Len(saved) < Len(Analyses(suite))
    /\ FlowStart(SuiteProblem(Len(saved) + 1))
    /\ due' = "solving"
    /\ UNCHANGED <<suite, graph, saved>>

Solving ==
    /\ due = "solving"
    /\ FlowStep \/ FlowFinish
    /\ UNCHANGED suiteVars

(* The solver has returned: its states are kept, with whether it converged *)
Solved ==
    /\ due = "solving"
    /\ stage # "running"
    /\ saved' = Append(saved, [before |-> before, after |-> after,
                               converged |-> stage = "converged"])
    /\ due' = "solve"
    /\ UNCHANGED <<suite, graph, flowVars>>

Analyse == Solve \/ Solving \/ Solved

(* What the solver is handed is one of its problems.                       *)
SuiteNext ==
    \/ \E g : TakeGraph(g)
    \/ Beside
    \/ Analyse /\ problem' \in Problems

SuiteSpec == SuiteInit /\ [][SuiteNext]_<<suiteVars, flowVars>>

-----------------------------------------------------------------------------

(* The chains say who defines what whom reads, as far as the analyses they *)
(* are read off converged.  def_use_chains() solves the engine's analyses  *)
(* again and gets the states of the first run, although the hash order may *)
(* differ, and links every value to each block it reaches.  The links of   *)
(* the data flow crate (build_chains_with_reaching_definitions) are exact  *)
(* for the uses that read what their block was entered with, and a use it  *)
(* flags as uninitialised has no definition in another block: both among   *)
(* the definitions and uses analysis.rs knows, assignments not counted.    *)
ChainsExact ==
    /\ suite = "engine" /\ due = "solve" /\ Len(saved) = 4 =>
          /\ saved[1].converged /\ saved[3].converged => saved[3] = saved[1]
          /\ saved[2].converged /\ saved[4].converged => saved[4] = saved[2]
          /\ saved[3].converged =>
                FrameworkChains(saved[3].before) =
                    UNION {DefinedBefore(graph, b) \X {b} : b \in graph.blocks}
    /\ suite = "full" /\ due = "solve" /\ saved # <<>> /\ saved[1].converged =>
          LET read == AsRead(graph, "sites")
              links == DefUseLinks(read, saved[1].before)
              missing == UninitializedUses(read, saved[1].before)
          IN \A u \in UseSites(read) :
               LET fed == {d \in DefinitionSites(read) : Feeds(read, d, u)}
               IN /\ IsExposed(read, u) =>
                        {d \in DefinitionSites(read) : <<d, u>> \in links} = fed
                  /\ <<u.block, u.value>> \in missing =>
                        \A d \in fed : d.block = u.block /\ d.index < u.index
=============================================================================
