---------------------------- MODULE ControlFlow -----------------------------
(***************************************************************************)
(* The control flow graph of a lowered function                            *)
(* (crates/cfg/src/builder.rs, CfgBuilder::build and LoopAnalysis, over    *)
(* crates/cfg/src/graph.rs) and the structural measures computed from it   *)
(* (crates/cfg/src/analysis.rs), with the builder's default options.       *)
(***************************************************************************)
EXTENDS FlowGraph, Integers, Sequences, SequencesExt, FiniteSetsExt

(* Only the last instruction of a block decides where control goes.        *)
Targets(code) == IF code = <<>> THEN <<>> ELSE Last(code).to

HasTerminator(code) ==
    code # <<>> /\ Last(code).op \in {"branch", "cond", "return", "revert"}

(* All blocks of the function with the edges their last instructions give. *)
RawGraph(ir, entry) ==
    [blocks |-> DOMAIN ir,
     edges |-> UNION {{b} \X ToSet(Targets(ir[b])) : b \in DOMAIN ir},
     code |-> ir, entry |-> entry]

(* eliminate_unreachable_blocks forgets a block's name and leaves its node *)
(* and edges in the graph; successors and predecessors filter by name.     *)
KeepBlocks(g, kept) ==
    [g EXCEPT !.blocks = kept, !.edges = @ \cap (kept \X kept),
              !.code = [b \in kept |-> g.code[b]]]

BuildGraph(ir, entry) ==
    LET raw == RawGraph(ir, entry)
    IN KeepBlocks(raw, Reachable(raw, entry))

(* ControlFlowGraph::validate.                                             *)
IsValidGraph(g) ==
    /\ g.entry \in g.blocks
    /\ \A b \in g.blocks \ {g.entry} : Predecessors(g, b) # {}
    /\ \A b \in g.blocks :
         /\ Successors(g, b) = {} => HasTerminator(g.code[b])
         /\ HasTerminator(g.code[b]) =>
              Cardinality(Successors(g, b)) = Len(Targets(g.code[b]))

-----------------------------------------------------------------------------
(* Loops.                                                                  *)

(* The search of dfs_back_edges: found is the blocks visited and the edges *)
(* seen to lead back to a block of the current path.  The graph library    *)
(* lists the edges of a block latest first.                                *)
RECURSIVE VisitBlock(_, _, _, _)

VisitBlock(g, b, path, found) ==
    LET onPath == path \cup {b}
        Follow(f, t) ==
            IF t \notin f.visited THEN VisitBlock(g, t, onPath, f)
            ELSE IF t \in onPath THEN [f EXCEPT !.back = @ \cup {<<b, t>>}]
            ELSE f
    IN FoldLeft(Follow, [found EXCEPT !.visited = @ \cup {b}],
                Reverse(Targets(g.code[b])))

(* Mutant: an edge leads back when it leads to no larger id.               *)
BackEdgesById(g) == {e \in g.edges : e[2] <= e[1]}

BackEdges(g) ==
    VisitBlock(g, g.entry, {}, [visited |-> {}, back |-> {}]).back

(* Backwards from the latch; the header is in the set from the start, so   *)
(* its own predecessors are not followed unless it is the latch.           *)
LoopBlocks(g, latch, header) ==
    LET grown[n \in 0 .. Cardinality(g.blocks)] ==
            IF n = 0 THEN {header, latch}
            ELSE LET S == grown[n - 1]
                 IN S \cup UNION {Predecessors(g, b) :
                                     b \in (S \ {header}) \cup {latch}}
    IN grown[Cardinality(g.blocks)]

NaturalLoops(g) ==
    {[header |-> e[2], latch |-> e[1], blocks |-> LoopBlocks(g, e[1], e[2])] :
        e \in BackEdges(g)}

-----------------------------------------------------------------------------
(* Measures.                                                               *)

NestingDepth(l, all) ==
    1 + Cardinality({m \in all : m.header # l.header /\ l.header \in m.blocks})

MaxNestingDepth(g) ==
    LET all == NaturalLoops(g)
    IN Max({0} \cup {NestingDepth(l, all) : l \in all})
=============================================================================
