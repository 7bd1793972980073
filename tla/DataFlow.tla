------------------------------ MODULE DataFlow ------------------------------
(***************************************************************************)
(* The generic worklist solver of the data flow crate,                     *)
(* DataFlowEngine::analyze (crates/dataflow/src/analysis.rs).              *)
(*                                                                         *)
(* A problem is a graph of blocks and a direction, and its states are sets *)
(* of Facts(p).  A block treats the facts of a state one by one: it        *)
(* generates some and makes something of each it is given.  The solver is  *)
(* direction-blind: a block reads the states of its sources (predecessors  *)
(* of a forward analysis, successors of a backward one) and, when its own  *)
(* outcome changes, queues its sinks.                                      *)
(* `before` is the state a block is computed from and `after` the one it   *)
(* produces: the entry and exit states of a forward analysis, the exit and *)
(* entry states of a backward one.  Every analysis of the crate meets by   *)
(* union and starts from the empty state.                                  *)
(*                                                                         *)
(* The worklist is a vector: it is filled in the order a hash map lists    *)
(* the blocks in, and taken from at its end.                               *)
(***************************************************************************)
EXTENDS FlowGraph, Sequences

CONSTANTS
    Problems,          \* the problems a caller may hand to the solver
    Facts(_),          \* the facts the states of a problem are sets of
    Generated(_, _),   \* the facts a block generates
    Kept(_, _, _),     \* the facts it makes of one it is given
    HashOrders(_),     \* the orders a set of blocks may be listed in
    MaxIterations      \* max_iterations(), 1000 by default

VARIABLES
    problem,    \* the problem being solved
    before,     \* for every block, the state it is computed from
    after,      \* for every block, the state it produces
    worklist,   \* the vector of blocks still to be computed
    iterations, \* how many blocks have been taken from the worklist
    stage       \* "idle", "running", "converged" or "gave_up"

flowVars == <<problem, before, after, worklist, iterations, stage>>

IsProblem(p) ==
    /\ p.forward \in BOOLEAN
    /\ p.edges \subseteq p.blocks \X p.blocks
    /\ p.boundary \subseteq p.blocks
    /\ p.start \subseteq Facts(p)

ASSUME ProblemsAssumption ==
    \A p \in Problems :
        /\ IsProblem(p)
        /\ \A b \in p.blocks :
              /\ Generated(p, b) \subseteq Facts(p)
              /\ \A f \in Facts(p) : Kept(p, b, f) \subseteq Facts(p)

(* transfer_block of the analysis.                                         *)
Transfer(p, b, s) == Generated(p, b) \cup UNION {Kept(p, b, f) : f \in s}

Elements(q) == {q[i] : i \in 1 .. Len(q)}

(* An order lists every block once.                                        *)
ASSUME OrdersAssumption ==
    \A B \in {p.blocks : p \in Problems} : \A S \in SUBSET B :
        \A q \in HashOrders(S) : q \in Seq(S) /\ Elements(q) = S

ASSUME IterationsAssumption == MaxIterations \in Nat \ {0}

Sources(p, b) == IF p.forward THEN Predecessors(p, b) ELSE Successors(p, b)

(* Mutant: the sinks of a backward analysis are those of a forward one.    *)
SinksForward(p, b) == Successors(p, b)

Sinks(p, b) == IF p.forward THEN Successors(p, b) ELSE Predecessors(p, b)

(* boundary_state() for the entry block or the exit blocks, and            *)
(* initial_state() for all others.                                         *)
Initial(p, b) == IF b \in p.boundary THEN p.start ELSE {}

-----------------------------------------------------------------------------

FlowInit ==
    /\ problem \in Problems
    /\ before = [b \in problem.blocks |-> {}]
    /\ after = [b \in problem.blocks |-> {}]
    /\ worklist = <<>>
    /\ iterations = 0
    /\ stage = "idle"

FlowStart(p) ==
    /\ stage # "running"
    /\ problem' = p
    /\ before' = [b \in p.blocks |-> Initial(p, b)]
    /\ after' = [b \in p.blocks |-> {}]
    /\ worklist' \in HashOrders(p.blocks)
    /\ iterations' = 0
    /\ stage' = "running"

(* What block b is computed from: the union over its sources, or what it   *)
(* had when it has none.                                                   *)
Meet(b) ==
    IF Sources(problem, b) = {} THEN before[b]
    ELSE UNION {after[a] : a \in Sources(problem, b)}

(* The last block is popped and computed; if its outcome changed, those of *)
(* its sinks that are not queued are pushed.                               *)
FlowStep ==
    /\ stage = "running"
    /\ worklist # <<>>
    /\ iterations < MaxIterations
    /\ iterations' = iterations + 1
    /\ LET b == worklist[Len(worklist)]
           rest == SubSeq(worklist, 1, Len(worklist) - 1)
           result == Transfer(problem, b, Meet(b))
           pushed == IF result # after[b]
                     THEN Sinks(problem, b) \ Elements(rest) ELSE {}
       IN /\ before' = [before EXCEPT ![b] = Meet(b)]
          /\ after' = [after EXCEPT ![b] = result]
          /\ \E new \in HashOrders(pushed) : worklist' = rest \o new
    /\ UNCHANGED <<problem, stage>>

(* The loop ends on an empty worklist or at the cap, and `converged` is    *)
(* decided by the count alone.                                             *)
FlowFinish ==
    /\ stage = "running"
    /\ worklist = <<>> \/ iterations >= MaxIterations
    /\ stage' = IF iterations < MaxIterations THEN "converged" ELSE "gave_up"
    /\ UNCHANGED <<problem, before, after, worklist, iterations>>

FlowNext ==
    \/ \E p \in Problems : FlowStart(p)
    \/ FlowStep
    \/ FlowFinish

FlowSpec == FlowInit /\ [][FlowNext]_flowVars

-----------------------------------------------------------------------------

(* The states of a solver are states of the problem it was given, and its  *)
(* worklist holds blocks of that problem.                                  *)
FlowTypeOK ==
    /\ problem \in Problems
    /\ before \in [problem.blocks -> SUBSET Facts(problem)]
    /\ after \in [problem.blocks -> SUBSET Facts(problem)]
    /\ worklist \in Seq(problem.blocks)
    /\ iterations \in Nat
    /\ stage \in {"idle", "running", "converged", "gave_up"}

(* What block b would be computed from, given the results out of all       *)
(* blocks.                                                                 *)
Incoming(p, b, out) ==
    IF Sources(p, b) = {} THEN Initial(p, b)
    ELSE UNION {out[a] : a \in Sources(p, b)}

(* The equations of the analysis: every block's state is the meet of its   *)
(* sources, and its result the transfer of that state.                     *)
IsSolution(p, in, out) ==
    \A b \in p.blocks :
        /\ in[b] = Incoming(p, b, out)
        /\ out[b] = Transfer(p, b, in[b])

(* A solver that reports convergence has solved its equations: no block    *)
(* was computed from a state of a source that changed afterwards.          *)
ConvergedIsSolved ==
    stage = "converged" => IsSolution(problem, before, after)

(* While the solver runs, a block that is not queued satisfies its         *)
(* equations: the worklist forgets no block whose sources have changed.    *)
WorklistCovers ==
    stage = "running" =>
        \A b \in problem.blocks \ Elements(worklist) :
            /\ before[b] = Incoming(problem, b, after)
            /\ after[b] = Transfer(problem, b, before[b])
=============================================================================
