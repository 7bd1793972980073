---------------------------- MODULE FlowAnalyses ----------------------------
(***************************************************************************)
(* The analyses the solver of DataFlow is run with, and what is read off   *)
(* their results.  Two belong to the framework the analysis engine uses    *)
(* (crates/dataflow/src/framework.rs):                                     *)
(*    reaching   the values defined on some way to a block; definitions    *)
(*               all carry block 0, so a value stands for its definitions  *)
(*    live       the values live at a block                                *)
(* and two are the crate's full analyses (reaching_definitions.rs,         *)
(* live_variables.rs), which track the place of every definition:          *)
(*    sites      definition sites reaching a block                         *)
(*    liveness   the values live at a block                                *)
(***************************************************************************)
EXTENDS FlowGraph, Sequences, SequencesExt

(* The two families read instructions with functions of their own.         *)
(* framework.rs knows assignments.  analysis.rs, which the full analyses   *)
(* ask, knows additions (which stand for subtractions, multiplications,    *)
(* divisions, loads and phis), stores, conditional branches and returns,   *)
(* and takes any other for one that neither defines nor uses a value.      *)
FullyKnown == {"add", "store", "cond", "return"}

ReadFully(i) ==
    IF i.op \in FullyKnown THEN i ELSE [i EXCEPT !.def = {}, !.uses = {}]

(* A graph as an analysis reads its instructions.                          *)
AsRead(g, analysis) ==
    IF analysis \in {"reaching", "live"} THEN g
    ELSE [blocks |-> g.blocks, edges |-> g.edges, entry |-> g.entry,
          code |-> [b \in g.blocks |->
                       [k \in DOMAIN g.code[b] |-> ReadFully(g.code[b][k])]]]

(* framework.rs's ReachingDefinitionsAnalysis: a definition replaces the   *)
(* value's earlier ones.                                                   *)
TransferReaching(code, s) ==
    LET Instruction(t, i) == (t \ i.def) \cup i.def
    IN FoldLeft(Instruction, s, code)

(* framework.rs's LiveVariablesAnalysis has no transfer_block of its own,  *)
(* so it goes through the instructions first to last, backward analysis or *)
(* not.                                                                    *)
LiveThrough(t, i) == (t \ i.def) \cup i.uses

TransferLive(code, s) == FoldLeft(LiveThrough, s, code)

(* Mutant: they are taken first to last.                                   *)
TransferLivenessInOrder(code, s) == FoldLeft(LiveThrough, s, code)

(* live_variables.rs goes through them last to first.                      *)
TransferLiveness(code, s) == FoldLeft(LiveThrough, s, Reverse(code))

(* reaching_definitions.rs: a definition kills every site of its value and *)
(* adds its own.                                                           *)
Site(b, k, v) == [block |-> b, index |-> k, value |-> v]

(* Mutant: the earlier sites of the value stay.                            *)
TransferSitesAdded(b, code, s) ==
    LET Instruction(t, k) == t \cup {Site(b, k, v) : v \in code[k].def}
    IN FoldLeft(Instruction, s, [k \in 1 .. Len(code) |-> k])

TransferSites(b, code, s) ==
    LET Instruction(t, k) ==
            {d \in t : d.value \notin code[k].def}
                \cup {Site(b, k, v) : v \in code[k].def}
    IN FoldLeft(Instruction, s, [k \in 1 .. Len(code) |-> k])

FlowTransfer(p, b, s) ==
    CASE p.analysis = "reaching" -> TransferReaching(p.code[b], s)
      [] p.analysis = "live" -> TransferLive(p.code[b], s)
      [] p.analysis = "sites" -> TransferSites(b, p.code[b], s)
      [] p.analysis = "liveness" -> TransferLiveness(p.code[b], s)

(* What a block makes of the empty state, and of each fact by itself.      *)
FlowGenerated(p, b) == FlowTransfer(p, b, {})

FlowKept(p, b, f) == FlowTransfer(p, b, {f})

-----------------------------------------------------------------------------

(* The places of a graph where a value is defined, or used, as far as the  *)
(* instructions of g say.                                                  *)
DefinitionSites(g) ==
    UNION {UNION {{Site(b, k, v) : v \in g.code[b][k].def} :
                    k \in DOMAIN g.code[b]} : b \in g.blocks}

UseSites(g) ==
    UNION {UNION {{Site(b, k, v) : v \in g.code[b][k].uses} :
                    k \in DOMAIN g.code[b]} : b \in g.blocks}

Values(sites) == {d.value : d \in sites}

IsForward(analysis) == analysis \in {"reaching", "sites"}

(* The problem of running an analysis over graph g, all of them with empty *)
(* initial and boundary states; exits are the graph's exit blocks.  Its    *)
(* code is what the analysis reads there.                                  *)
FlowProblem(g, analysis, exits) ==
    [analysis |-> analysis,
     forward |-> IsForward(analysis),
     blocks |-> g.blocks, edges |-> g.edges,
     code |-> AsRead(g, analysis).code,
     boundary |-> IF IsForward(analysis) THEN {g.entry} ELSE exits,
     start |-> {}]

FlowFacts(p) ==
    CASE p.analysis = "reaching" -> Values(DefinitionSites(p))
      [] p.analysis = "sites" -> DefinitionSites(p)
      [] OTHER -> Values(UseSites(p))

-----------------------------------------------------------------------------
(* What is read off the results.                                           *)

(* DefUseChainBuilder::build (framework.rs): every block a definition of a *)
(* value reaches counts as a use of it.                                    *)
FrameworkChains(reaching) ==
    UNION {{<<v, b>> : v \in reaching[b]} : b \in DOMAIN reaching}

(* Mutant: whatever reaches the block is linked.                           *)
LinkedToBlock(sites, u) == sites[u.block]

(* build_chains_with_reaching_definitions (def_use.rs): a use is linked to *)
(* the sites of its value that reach the entry of its block.               *)
LinkedDefinitions(sites, u) == {d \in sites[u.block] : d.value = u.value}

DefUseLinks(g, sites) ==
    UNION {{<<d, u>> : d \in LinkedDefinitions(sites, u)} : u \in UseSites(g)}

(* find_uninitialized_uses (reaching_definitions.rs).                      *)
UninitializedUses(g, sites) ==
    {<<u.block, u.value>> : u \in
        {w \in UseSites(g) : LinkedDefinitions(sites, w) = {}}}

(* find_dead_variables (live_variables.rs): a definition whose value is    *)
(* not live after the rest of its block has been undone from the block's   *)
(* exit.                                                                   *)
DeadDefinitions(g, exitLive) ==
    {d \in DefinitionSites(g) :
        d.value \notin TransferLiveness(
            SubSeq(g.code[d.block], d.index + 1, Len(g.code[d.block])),
            exitLive[d.block])}

-----------------------------------------------------------------------------
(* The same notions by paths through the graph.                            *)

DefiningBlocks(g, v) == {d.block : d \in {e \in DefinitionSites(g) : e.value = v}}

(* Some way of at least one edge leads from block a to block b without     *)
(* passing a definition of v in between.                                   *)
ClearPath(g, a, b, v) ==
    \E s \in Successors(g, a) :
        b \in ReachableAvoiding(g, s, DefiningBlocks(g, v) \ {b})

DefinedBefore(g, b) ==
    {d.value : d \in {e \in DefinitionSites(g) :
        \E s \in Successors(g, e.block) : b \in Reachable(g, s)}}

(* d is the last definition of its value in its block.                     *)
IsLastInBlock(g, d) ==
    \A k \in d.index + 1 .. Len(g.code[d.block]) :
        d.value \notin g.code[d.block][k].def

SitesReaching(g, b) ==
    {d \in DefinitionSites(g) :
        IsLastInBlock(g, d) /\ ClearPath(g, d.block, b, d.value)}

(* u reads what its block was entered with.                                *)
IsExposed(g, u) ==
    \A k \in 1 .. u.index - 1 : u.value \notin g.code[u.block][k].def

LiveAtEntry(g, b) ==
    {u.value : u \in {w \in UseSites(g) :
        /\ IsExposed(g, w)
        /\ w.block \in ReachableAvoiding(g, b,
                          DefiningBlocks(g, w.value) \ {w.block})}}

(* Some block reads a value and defines it anew further down.              *)
RedefinesWhatItRead(g) ==
    \E u \in UseSites(g), d \in DefinitionSites(g) :
        u.block = d.block /\ u.value = d.value /\ u.index < d.index

(* A use that a definition reaches: further down its block, or along a way *)
(* to a block that reads it before defining it.                            *)
Feeds(g, d, u) ==
    /\ u.value = d.value
    /\ \/ /\ u.block = d.block /\ d.index < u.index
          /\ \A k \in d.index + 1 .. u.index - 1 :
                d.value \notin g.code[d.block][k].def
       \/ /\ IsLastInBlock(g, d)
          /\ IsExposed(g, u)
          /\ ClearPath(g, d.block, u.block, d.value)
=============================================================================
