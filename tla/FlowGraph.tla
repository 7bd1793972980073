----------------------------- MODULE FlowGraph ------------------------------
(***************************************************************************)
(* What ControlFlowGraph (crates/cfg/src/graph.rs) offers the analyses: a  *)
(* graph g has a set of blocks and a set of edges between them.            *)
(***************************************************************************)
EXTENDS Naturals, FiniteSets

Predecessors(g, b) == {a \in g.blocks : <<a, b>> \in g.edges}

Successors(g, b) == {a \in g.blocks : <<b, a>> \in g.edges}

(* Blocks listed by their ids, upwards and downwards.                      *)
Ascending(S) ==
    [i \in 1 .. Cardinality(S) |->
        CHOOSE b \in S : Cardinality({a \in S : a < b}) = i - 1]

Descending(S) ==
    [i \in 1 .. Cardinality(S) |->
        CHOOSE b \in S : Cardinality({a \in S : a > b}) = i - 1]

(* The blocks reachable from block b over edges that avoid the blocks of   *)
(* cut: one more step is taken for every block of the graph.               *)
ReachableAvoiding(g, b, cut) ==
    LET grown[n \in 0 .. Cardinality(g.blocks)] ==
            IF n = 0 THEN {b} \ cut
            ELSE LET S == grown[n - 1]
                 IN S \cup ((UNION {Successors(g, a) : a \in S}) \ cut)
    IN grown[Cardinality(g.blocks)]

Reachable(g, b) == ReachableAvoiding(g, b, {})
=============================================================================
