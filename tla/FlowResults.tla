---------------------------- MODULE FlowResults -----------------------------
(***************************************************************************)
(* What the four analyses of FlowAnalyses have found when the solver of    *)
(* DataFlow says it converged, compared to the paths through the graph:    *)
(* the definitions and uses of a path are those the analysis reads there,  *)
(* which for the full analyses leaves assignments out (AsRead).            *)
(***************************************************************************)
EXTENDS DataFlow, FlowAnalyses

(* The solver is run with the analyses of FlowAnalyses, over finite graphs *)
(* whose blocks are lists of instructions.                                 *)
ASSUME AnalysesAssumption ==
    \A p \in Problems :
        /\ p.analysis \in {"reaching", "live", "sites", "liveness"}
        /\ p.forward = IsForward(p.analysis)
        /\ p.start = {}
        /\ IsFiniteSet(p.blocks)
        /\ \A b \in p.blocks : p.code[b] \in Seq(ToSet(p.code[b]))
        /\ Facts(p) = FlowFacts(p)
        /\ \A b \in p.blocks :
              /\ Generated(p, b) = FlowGenerated(p, b)
              /\ \A f \in Facts(p) : Kept(p, b, f) = FlowKept(p, b, f)

Converged(analysis) == stage = "converged" /\ problem.analysis = analysis

(* Going through a block with a whole state gives what the solver's        *)
(* Transfer gives, fact by fact.                                           *)
SolvedByInstructions ==
    \A b \in problem.blocks : after[b] = FlowTransfer(problem, b, before[b])

(* Reaching definitions are what they say (transfer_block of framework.rs  *)
(* and reaching_definitions.rs): the engine's are the values some way to   *)
(* the block defines, the full ones the sites from which a way leads to    *)
(* the block that does not define the value again, among the definitions   *)
(* the analysis knows (get_instruction_definition of its own).             *)
DefinitionsExact ==
    /\ Converged("reaching") =>
          /\ SolvedByInstructions
          /\ \A b \in problem.blocks : before[b] = DefinedBefore(problem, b)
    /\ Converged("sites") =>
          /\ SolvedByInstructions
          /\ \A b \in problem.blocks : before[b] = SitesReaching(problem, b)

(* The full live variables are those some way from the block's entry reads *)
(* before it defines them, and a definition is called dead exactly when it *)
(* feeds no use known to analysis.rs (live_variables.rs, transfer_block,   *)
(* find_dead_variables).  Counting what an assignment reads, it would not  *)
(* hold: the sum of X = X + constant is called dead.                       *)
(* The engine's go through a block in the wrong direction (framework.rs,   *)
(* LiveVariablesAnalysis): no live value is missed in a function none of   *)
(* whose blocks reads a value and then defines it again.                   *)
LivenessExact ==
    /\ Converged("liveness") =>
          /\ SolvedByInstructions
          /\ \A b \in problem.blocks : after[b] = LiveAtEntry(problem, b)
          /\ DeadDefinitions(problem, before) =
                {d \in DefinitionSites(problem) :
                    \A u \in UseSites(problem) : ~Feeds(problem, d, u)}
    /\ Converged("live") =>
          /\ SolvedByInstructions
          /\ RedefinesWhatItRead(problem)
                \/ \A b \in problem.blocks :
                      LiveAtEntry(problem, b) \subseteq after[b]
=============================================================================
