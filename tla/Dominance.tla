----------------------------- MODULE Dominance ------------------------------
(***************************************************************************)
(* The dominator tree, DominatorTree::compute_dominators                   *)
(* (crates/cfg/src/dominance.rs): passes over the blocks by ascending id   *)
(* until one changes nothing.  The ids stand in for the reverse postorder  *)
(* numbers the textbook algorithm compares.                                *)
(***************************************************************************)
EXTENDS FlowGraph, Integers, Sequences, SequencesExt

VARIABLES
    idom,     \* for every block, its immediate dominator, or NoBlock
    unsettled \* `changed`: another pass is due

domVars == <<idom, unsettled>>

NoBlock == -1

(* The dominators of a block as the tree has them, itself first.           *)
RECURSIVE TreeDominators(_, _)

TreeDominators(tree, b) ==
    IF tree[b] = NoBlock THEN {b} ELSE {b} \cup TreeDominators(tree, tree[b])

TreeDominates(tree, a, b) == a \in TreeDominators(tree, b)

(* intersect: the block with the larger id climbs until both are the same  *)
(* or it has nowhere to climb.                                             *)
RECURSIVE Intersect(_, _, _)

(* Mutant: the block with the smaller id climbs.                           *)
IntersectUpwards(tree, a, b) ==
    IF a = b THEN a
    ELSE IF a < b
         THEN IF tree[a] = NoBlock THEN a ELSE Intersect(tree, tree[a], b)
         ELSE IF tree[b] = NoBlock THEN b ELSE Intersect(tree, a, tree[b])

Intersect(tree, a, b) ==
    IF a = b THEN a
    ELSE IF a > b
         THEN IF tree[a] = NoBlock THEN a ELSE Intersect(tree, tree[a], b)
         ELSE IF tree[b] = NoBlock THEN a ELSE Intersect(tree, a, tree[b])

(* Predecessors come in the order of a hash map; a caller asks for one of  *)
(* the two directions of their ids.                                        *)
Listed(up, S) == IF up THEN Ascending(S) ELSE Descending(S)

(* Mutant: the first predecessor listed is taken for the dominator.        *)
FromFirstPredecessor(g, tree, b, up) ==
    LET listed == Listed(up, {p \in Predecessors(g, b) :
                                tree[p] # NoBlock \/ p = g.entry})
    IN IF listed = <<>> THEN tree[b] ELSE Head(listed)

(* The immediate dominator block b gets from its predecessors, those that  *)
(* have one already.                                                       *)
FromPredecessors(g, tree, b, up) ==
    LET listed == Listed(up, {p \in Predecessors(g, b) :
                                tree[p] # NoBlock \/ p = g.entry})
        Merge(a, p) == Intersect(tree, a, p)
    IN IF listed = <<>> THEN tree[b]
       ELSE FoldLeft(Merge, Head(listed), Tail(listed))

DomPass(g, tree, up) ==
    LET Visit(t, b) == [t EXCEPT ![b] = FromPredecessors(g, t, b, up)]
    IN FoldLeft(Visit, tree, Ascending(g.blocks \ {g.entry}))

-----------------------------------------------------------------------------

DomStart(g) ==
    /\ idom' = [b \in g.blocks |-> NoBlock]
    /\ unsettled' = TRUE

(* One turn of the loop over all blocks, with the predecessors taken in    *)
(* either direction of their ids.                                          *)
DomStep(g) ==
    /\ unsettled
    /\ \/ idom' = DomPass(g, idom, TRUE)
       \/ idom' = DomPass(g, idom, FALSE)
    /\ unsettled' = (idom' # idom)

-----------------------------------------------------------------------------

(* A block's dominators by definition: those without which the entry does  *)
(* not reach it.                                                           *)
StrictDominators(g, b) ==
    {a \in g.blocks \ {b} : b \notin ReachableAvoiding(g, g.entry, {a})}

(* The immediate one is dominated by all the others.                       *)
IsImmediateDominator(g, a, b) ==
    /\ a \in StrictDominators(g, b)
    /\ StrictDominators(g, b) \ {a} \subseteq StrictDominators(g, a)
=============================================================================
