--------------------------- MODULE AnalysisEngine ---------------------------
(***************************************************************************)
(* The analysis engine (crates/analysis/src/engine.rs): every function of  *)
(* a file goes through lowering, graph construction, dominators, loops and *)
(* the data flow analyses, and the first error drops the whole file.       *)
(***************************************************************************)
EXTENDS Lowering, ControlFlow, Dominance, FlowSuite

CONSTANTS
    Files, \* source files, each a sequence of function bodies
    Graphs \* graphs a caller makes itself and hands to the full analyses

VARIABLES
    file,    \* the file being analysed
    current, \* the function at work, an index of file
    ir,      \* its lowered blocks
    outcome  \* "running", "done" or "dropped"

engineVars == <<file, current, ir, outcome>>

vars == <<engineVars, suiteVars, domVars, flowVars>>

NoGraph == BuildGraph(EntryBlock :> <<>>, EntryBlock)

EngineInit ==
    /\ \/ file \in Files /\ due = "lower"
       \/ file = <<>> /\ due = "given" /\ suite = "full"
    /\ current = 1
    /\ ir = (EntryBlock :> <<>>)
    /\ graph = NoGraph
    /\ outcome = "running"
    /\ idom = (EntryBlock :> NoBlock)
    /\ unsettled = FALSE
    /\ problem = FlowProblem(NoGraph, "reaching", {})
    /\ SuiteInit

Drop ==
    /\ outcome' = "dropped"
    /\ due' = due
    /\ Beside
    /\ UNCHANGED <<file, current, domVars>>

Lower ==
    /\ outcome = "running"
    /\ due = "lower"
    /\ LET lowered == LowerFunction(file[current])
       IN /\ ir' = lowered.ir
          /\ \/ /\ ~lowered.ok
                /\ Drop
             \/ /\ lowered.ok
                /\ due' = "build"
                /\ Beside
                /\ UNCHANGED <<file, current, outcome, domVars>>

Build ==
    /\ outcome = "running"
    /\ due = "build"
    /\ LET built == BuildGraph(ir, EntryBlock)
       IN \/ /\ ~IsValidGraph(built)
             /\ ir' = ir
             /\ Drop
          \/ /\ IsValidGraph(built)
             /\ due' = IF suite = "engine" THEN "dominators" ELSE "solve"
             /\ TakeGraph(built)
             /\ IF suite = "engine" THEN DomStart(built)
                ELSE UNCHANGED domVars
             /\ UNCHANGED engineVars

(* A caller of the data flow crate has made the graph itself.              *)
Given ==
    /\ outcome = "running"
    /\ due = "given"
    /\ due' = "solve"
    /\ \E g \in Graphs : TakeGraph(g)
    /\ UNCHANGED <<engineVars, domVars>>

Dominators ==
    /\ outcome = "running"
    /\ due = "dominators"
    /\ DomStep(graph)
    /\ due' = due
    /\ Beside
    /\ UNCHANGED engineVars

DominatorsDone ==
    /\ outcome = "running"
    /\ due = "dominators"
    /\ ~unsettled
    /\ due' = "solve"
    /\ Beside
    /\ UNCHANGED <<engineVars, domVars>>

(* The analyses of FlowSuite, one after the other.                         *)
DataFlows ==
    /\ outcome = "running"
    /\ Analyse
    /\ UNCHANGED <<engineVars, domVars>>

(* Every analysis of the function is there: on to the next function.       *)
NextFunction ==
    /\ outcome = "running"
    /\ due = "solve"
    /\ Len(saved) = Len(Analyses(suite))
    /\ current' = current + 1
    /\ due' = "lower"
    /\ Beside
    /\ outcome' = IF current >= Len(file) THEN "done" ELSE "running"
    /\ UNCHANGED <<file, ir, domVars>>

Next ==
    \/ Lower
    \/ Build
    \/ Given
    \/ Dominators
    \/ DominatorsDone
    \/ DataFlows
    \/ NextFunction

(* One thread runs the pipeline and waits for nothing: as long as the file *)
(* is not finished it takes another step.  This is WF_vars(Next) with      *)
(* ENABLED Next written out.                                               *)
Fairness == []<>(outcome # "running") \/ []<><<Next>>_vars

Spec == EngineInit /\ [][Next]_vars /\ Fairness

-----------------------------------------------------------------------------
(* What a function does, read off its source: the places it can execute    *)
(* when conditions are left open, whether its end can be reached, and how  *)
(* deep its loops are nested.                                              *)

RECURSIVE Executed(_), Completes(_), Places(_), Nesting(_)

Together(ss, Of(_)) == UNION {Of(ss[i]) : i \in DOMAIN ss}

(* The statements of a list up to the first that never completes.          *)
Executable(ss) ==
    {i \in DOMAIN ss : \A j \in 1 .. i - 1 : Completes(ss[j])}

Completes(s) ==
    CASE s.kind \in {"return", "revert", "sum"} -> FALSE
      [] s.kind = "block" -> \A i \in DOMAIN s.body : Completes(s.body[i])
      [] s.kind = "if" ->
           s.else = <<>> \/ Completes(s.then) \/ Completes(s.else[1])
      [] s.kind = "for" -> s.test
      [] OTHER -> TRUE

Executed(s) ==
    CASE s.kind = "block" ->
           UNION {Executed(s.body[i]) : i \in Executable(s.body)}
      [] s.kind = "if" -> Executed(s.then) \cup Together(s.else, Executed)
      [] s.kind = "while" -> Executed(s.body)
      [] s.kind = "for" ->
           Executed(s.init) \cup Executed(s.body)
             \cup (IF Completes(s.body) THEN Executed(s.update) ELSE {})
      [] s.kind \in {"skip", "bad"} -> {}
      [] OTHER -> {s.at}

Places(s) ==
    CASE s.kind = "block" -> Together(s.body, Places)
      [] s.kind = "if" -> Places(s.then) \cup Together(s.else, Places)
      [] s.kind = "while" -> Places(s.body)
      [] s.kind = "for" -> UNION {Places(s.init), Places(s.body), Places(s.update)}
      [] s.kind \in {"skip", "bad"} -> {}
      [] OTHER -> {s.at}

Nesting(s) ==
    CASE s.kind = "block" -> Max({0} \cup {Nesting(s.body[i]) : i \in DOMAIN s.body})
      [] s.kind = "if" ->
           Max({Nesting(s.then)} \cup {Nesting(s.else[i]) : i \in DOMAIN s.else})
      [] s.kind \in {"while", "for"} -> 1 + Nesting(s.body)
      [] OTHER -> 0

Block(ss) == [kind |-> "block", body |-> ss]

PlacesInGraph(g) ==
    UNION {{g.code[b][k].at : k \in DOMAIN g.code[b]} : b \in g.blocks}

RECURSIVE HasBad(_)

HasBad(s) ==
    CASE s.kind = "block" -> \E i \in DOMAIN s.body : HasBad(s.body[i])
      [] s.kind = "if" -> HasBad(s.then) \/ \E i \in DOMAIN s.else : HasBad(s.else[i])
      [] s.kind = "while" -> HasBad(s.body)
      [] s.kind = "for" -> HasBad(s.init) \/ HasBad(s.body) \/ HasBad(s.update)
      [] OTHER -> s.kind = "bad"

IsControl(s) == s.kind \in {"if", "while", "for"}

(* The position of the first branch or loop, past the end if there is none *)
FirstControl(body) ==
    Min({Len(body) + 1} \cup {i \in DOMAIN body : IsControl(body[i])})

-----------------------------------------------------------------------------

(* A function whose first branch or loop is a loop, or that has neither,   *)
(* loses at most the statements before it (LoweringContext::create_block): *)
(* everything it can execute from that loop on is in its graph.            *)
LaterStatementsKept ==
    due = "solve" /\ file # <<>> =>
        LET body == file[current]
            first == FirstControl(body)
            isLoop == first \in DOMAIN body /\ body[first].kind # "if"
            lost ==
                IF first \notin DOMAIN body THEN {}
                ELSE Places(Block(SubSeq(body, 1, first - 1))) \cup
                     (IF body[first].kind = "for" THEN Places(body[first].init)
                      ELSE {})
        IN isLoop \/ first \notin DOMAIN body =>
             Executed(Block(body)) \ lost \subseteq PlacesInGraph(graph)

(* The dominator passes have ended with the immediate dominator of every   *)
(* block, although they number blocks by id instead of in postorder and    *)
(* take predecessors in hash order (DominatorTree::compute_dominators).    *)
DominatorsImmediate ==
    due = "dominators" /\ ~unsettled =>
        /\ idom[graph.entry] = NoBlock
        /\ \A b \in graph.blocks \ {graph.entry} :
              IsImmediateDominator(graph, idom[b], b)

(* LoopAnalysis takes every back edge for a natural loop without asking    *)
(* the dominator tree.  On lowered functions it is right: the header       *)
(* dominates all its loop's blocks, and no more nesting is reported than   *)
(* the source has.                                                         *)
LoopsAreEnteredAtHeaders ==
    due = "dominators" /\ ~unsettled =>
        /\ \A l \in NaturalLoops(graph), b \in graph.blocks :
              b \in l.blocks => TreeDominates(idom, l.header, b)
        /\ MaxNestingDepth(graph) <= Nesting(Block(file[current]))

(* Every file is analysed to the end, or dropped for a statement that      *)
(* cannot be lowered (analyze_source_file): no pass of the dominator       *)
(* computation and no worklist goes on for ever, and the `?` after         *)
(* CfgBuilder::build never fires, since the graph of a function that was   *)
(* lowered always validates.                                               *)
EveryFileEnds ==
    <>(outcome = IF \A f \in DOMAIN file : ~HasBad(Block(file[f]))
                 THEN "done" ELSE "dropped")
=============================================================================
