-------------------------- MODULE Algorithms_proofs -------------------------
(***************************************************************************)
(* Proofs about three algorithms that run on their own: the worklist       *)
(* solver of the data flow framework with the suites of analyses it is run *)
(* for, the choice between suggested fixes and their application, and the  *)
(* chunks of the streaming analyzer.                                       *)
(***************************************************************************)
EXTENDS FlowSuite, FixEngine, StreamingAnalyzer, SumTheorems, SequenceTheorems, TLAPS

-----------------------------------------------------------------------------
(***************************************************************************)
(* Proofs about the worklist solver, for every problem with a monotone     *)
(* transfer function and every order in which blocks are taken: a          *)
(* converged result solves the equations of the analysis and is the least  *)
(* of their solutions.                                                     *)
(*                                                                         *)
(* The inductive invariant is FlowInv: the states are sets of facts of the *)
(* problem, a block without sources keeps its boundary state, every block  *)
(* outside the worklist satisfies its equations, and no block's outcome    *)
(* exceeds its outcome in any solution.                                    *)
(***************************************************************************)

(* A block with no sources still has the state it started from, which is   *)
(* what the solver's Meet returns for it.                                  *)
BoundaryKept ==
    stage # "idle" =>
        \A b \in problem.blocks :
            Sources(problem, b) = {} => before[b] = Initial(problem, b)

(* No block's outcome exceeds the outcome the same block has in any        *)
(* solution of the equations.                                              *)
BelowEverySolution ==
    \A in, out \in [problem.blocks -> SUBSET Facts(problem)] :
        IsSolution(problem, in, out) =>
            \A b \in problem.blocks : after[b] \subseteq out[b]

(* What a converged solver returns is below every solution of the          *)
(* equations: it reports nothing the analysis does not require.            *)
LeastSolution ==
    stage = "converged" =>
        \A in, out \in [problem.blocks -> SUBSET Facts(problem)] :
            IsSolution(problem, in, out) =>
                \A b \in problem.blocks :
                    before[b] \subseteq in[b] /\ after[b] \subseteq out[b]

FlowInv ==
    /\ FlowTypeOK
    /\ BoundaryKept
    /\ WorklistCovers
    /\ ConvergedIsSolved
    /\ BelowEverySolution

-----------------------------------------------------------------------------

(* Sources and sinks are two readings of the same edges.                   *)
LEMMA SourceIsSink ==
    ASSUME NEW p \in Problems, NEW b \in p.blocks, NEW c \in p.blocks
    PROVE  /\ b \in Sources(p, c) <=> c \in Sinks(p, b)
           /\ Sources(p, b) \subseteq p.blocks
           /\ Sinks(p, b) \subseteq p.blocks
  BY DEF Sources, Sinks, Predecessors, Successors

(* A problem's boundary states and transfers stay within its facts, and a  *)
(* transfer is monotone.                                                   *)
LEMMA TransferFacts ==
    ASSUME NEW p \in Problems, NEW b \in p.blocks,
           NEW t \in SUBSET Facts(p), NEW s \in SUBSET t
    PROVE  /\ Initial(p, b) \in SUBSET Facts(p)
           /\ Transfer(p, b, t) \in SUBSET Facts(p)
           /\ Transfer(p, b, s) \subseteq Transfer(p, b, t)
  <1>1. Initial(p, b) \in SUBSET Facts(p)
    BY ProblemsAssumption DEF IsProblem, Initial
  <1>2. /\ Generated(p, b) \subseteq Facts(p)
        /\ \A f \in Facts(p) : Kept(p, b, f) \subseteq Facts(p)
    BY ProblemsAssumption
  <1>3. UNION {Kept(p, b, f) : f \in t} \subseteq Facts(p)
    BY <1>2
  <1>4. UNION {Kept(p, b, f) : f \in s} \subseteq UNION {Kept(p, b, f) : f \in t}
    OBVIOUS
  <1>. QED
    BY <1>1, <1>2, <1>3, <1>4 DEF Transfer

(* The meet of states of the problem is a state of the problem.            *)
LEMMA MeetType ==
    ASSUME FlowTypeOK, NEW b \in problem.blocks
    PROVE  /\ Meet(b) \in SUBSET Facts(problem)
           /\ Transfer(problem, b, Meet(b)) \in SUBSET Facts(problem)
  <1>1. Sources(problem, b) \subseteq problem.blocks
    BY SourceIsSink DEF FlowTypeOK
  <1>2. before[b] \in SUBSET Facts(problem)
    BY DEF FlowTypeOK
  <1>3. \A a \in Sources(problem, b) : after[a] \in SUBSET Facts(problem)
    BY <1>1 DEF FlowTypeOK
  <1>4. Meet(b) \in SUBSET Facts(problem)
    BY <1>2, <1>3 DEF Meet
  <1>. QED
    BY <1>4, TransferFacts DEF FlowTypeOK

(* While boundary states are kept, the solver's Meet is the meet of the    *)
(* equations.                                                              *)
LEMMA MeetIsIncoming ==
    ASSUME BoundaryKept, stage = "running", NEW b \in problem.blocks
    PROVE  Meet(b) = Incoming(problem, b, after)
  BY DEF BoundaryKept, Meet, Incoming

(* The meet of the equations depends on the sources' outcomes alone.       *)
LEMMA IncomingLocal ==
    ASSUME NEW p \in Problems, NEW b \in p.blocks, NEW out, NEW new,
           \A a \in Sources(p, b) : out[a] = new[a]
    PROVE  Incoming(p, b, out) = Incoming(p, b, new)
  <1>1. {out[a] : a \in Sources(p, b)} = {new[a] : a \in Sources(p, b)}
    OBVIOUS
  <1>. QED
    BY <1>1 DEF Incoming

(* The meet of smaller outcomes is smaller.                                *)
LEMMA IncomingMonotone ==
    ASSUME NEW p \in Problems, NEW b \in p.blocks, NEW out, NEW new,
           \A a \in p.blocks : out[a] \subseteq new[a]
    PROVE  Incoming(p, b, out) \subseteq Incoming(p, b, new)
  <1>1. Sources(p, b) \subseteq p.blocks
    BY SourceIsSink
  <1>2. ASSUME NEW f \in UNION {out[a] : a \in Sources(p, b)}
        PROVE  f \in UNION {new[a] : a \in Sources(p, b)}
    <2>1. PICK a \in Sources(p, b) : f \in out[a]
      BY <1>2
    <2>2. f \in new[a]
      BY <1>1, <2>1
    <2>. QED
      BY <2>2
  <1>. QED
    BY <1>2 DEF Incoming

-----------------------------------------------------------------------------

(* A fresh call of the solver establishes the invariant.                   *)
LEMMA StartKeeps ==
    ASSUME NEW p \in Problems, FlowStart(p)
    PROVE  FlowInv'
  <1>0. worklist' \in Seq(p.blocks) /\ Elements(worklist') = p.blocks
    BY OrdersAssumption DEF FlowStart
  <1>1. FlowTypeOK'
    <2>1. before' \in [p.blocks -> SUBSET Facts(p)]
      <3>1. \A b \in p.blocks : Initial(p, b) \in SUBSET Facts(p)
        BY ProblemsAssumption DEF IsProblem, Initial
      <3>. QED
        BY <3>1 DEF FlowStart
    <2>2. after' \in [p.blocks -> SUBSET Facts(p)]
      BY DEF FlowStart
    <2>. QED
      BY <1>0, <2>1, <2>2 DEF FlowStart, FlowTypeOK
  <1>2. BoundaryKept'
    BY DEF FlowStart, BoundaryKept
  <1>3. WorklistCovers'
    BY <1>0 DEF FlowStart, WorklistCovers
  <1>4. ConvergedIsSolved'
    BY DEF FlowStart, ConvergedIsSolved
  <1>5. BelowEverySolution'
    BY DEF FlowStart, BelowEverySolution
  <1>. QED
    BY <1>1, <1>2, <1>3, <1>4, <1>5 DEF FlowInv

(* Without its last element a sequence lists all but that element.         *)
LEMMA PopLast ==
    ASSUME NEW S, NEW w \in Seq(S), w # <<>>,
           NEW rest, rest = SubSeq(w, 1, Len(w) - 1)
    PROVE  /\ rest \in Seq(S)
           /\ Elements(w) \ {w[Len(w)]} \subseteq Elements(rest)
  <1>1. Len(w) \in Nat /\ Len(w) > 0
    BY EmptySeq
  <1>2. /\ rest \in Seq(S)
        /\ Len(rest) = Len(w) - 1
        /\ \A i \in 1 .. Len(w) - 1 : rest[i] = w[i]
    <2>. DEFINE n == Len(w) - 1
    <2>1. n \in Int /\ 0 <= n /\ \A i \in 1 .. n : w[i] \in S
      BY <1>1, LenProperties
    <2>. HIDE DEF n
    <2>2. /\ SubSeq(w, 1, n) \in Seq(S)
          /\ Len(SubSeq(w, 1, n)) = IF 1 <= n THEN n - 1 + 1 ELSE 0
          /\ \A i \in 1 .. n - 1 + 1 : SubSeq(w, 1, n)[i] = w[1 + i - 1]
      BY <2>1, SubSeqProperties
    <2>3. /\ Len(SubSeq(w, 1, n)) = n
          /\ \A i \in 1 .. n : SubSeq(w, 1, n)[i] = w[i]
      BY <2>1, <2>2
    <2>. QED
      BY <2>2, <2>3 DEF n
  <1>3. ASSUME NEW i \in 1 .. Len(w), w[i] # w[Len(w)]
        PROVE  w[i] \in Elements(rest)
    <2>1. i \in 1 .. Len(rest) /\ rest[i] = w[i]
      BY <1>1, <1>2, <1>3
    <2>. QED
      BY <2>1 DEF Elements
  <1>. QED
    BY <1>2, <1>3 DEF Elements

(* Appending keeps the elements of both sequences.                         *)
LEMMA AppendKeeps ==
    ASSUME NEW S, NEW q \in Seq(S), NEW new \in Seq(S)
    PROVE  /\ q \o new \in Seq(S)
           /\ Elements(q) \cup Elements(new) \subseteq Elements(q \o new)
  <1>1. /\ q \o new \in Seq(S)
        /\ Len(q \o new) = Len(q) + Len(new)
        /\ \A i \in 1 .. Len(q) + Len(new) :
              (q \o new)[i] = IF i <= Len(q) THEN q[i] ELSE new[i - Len(q)]
    BY ConcatProperties
  <1>2. Len(q) \in Nat /\ Len(new) \in Nat
    BY LenProperties
  <1>3. ASSUME NEW i \in 1 .. Len(q)
        PROVE  q[i] \in Elements(q \o new)
    <2>1. i \in 1 .. Len(q \o new) /\ (q \o new)[i] = q[i]
      BY <1>1, <1>2
    <2>. QED
      BY <2>1 DEF Elements
  <1>4. ASSUME NEW i \in 1 .. Len(new)
        PROVE  new[i] \in Elements(q \o new)
    <2>1. Len(q) + i \in 1 .. Len(q) + Len(new) /\ ~(Len(q) + i <= Len(q))
      BY <1>2
    <2>2. (q \o new)[Len(q) + i] = new[(Len(q) + i) - Len(q)]
      BY <1>1, <2>1
    <2>3. (Len(q) + i) - Len(q) = i
      BY <1>2
    <2>. QED
      BY <1>1, <2>1, <2>2, <2>3 DEF Elements
  <1>. QED
    BY <1>1, <1>3, <1>4 DEF Elements

(* Popping the last block and pushing new ones keeps the others queued and *)
(* queues all of those that were to be pushed.                             *)
LEMMA PopAndPush ==
    ASSUME NEW p \in Problems, NEW w \in Seq(p.blocks), w # <<>>,
           NEW rest, rest = SubSeq(w, 1, Len(w) - 1),
           NEW wanted \in SUBSET p.blocks,
           NEW new \in HashOrders(wanted \ Elements(rest))
    PROVE  /\ rest \o new \in Seq(p.blocks)
           /\ Elements(w) \ {w[Len(w)]} \subseteq Elements(rest \o new)
           /\ wanted \subseteq Elements(rest \o new)
  <1>1. /\ new \in Seq(wanted \ Elements(rest))
        /\ Elements(new) = wanted \ Elements(rest)
    BY OrdersAssumption
  <1>2. new \in Seq(p.blocks)
    BY <1>1
  <1>3. /\ rest \in Seq(p.blocks)
        /\ Elements(w) \ {w[Len(w)]} \subseteq Elements(rest)
    BY PopLast
  <1>4. /\ rest \o new \in Seq(p.blocks)
        /\ Elements(rest) \cup Elements(new) \subseteq Elements(rest \o new)
    BY <1>2, <1>3, AppendKeeps
  <1>. QED
    BY <1>1, <1>3, <1>4

(* Computing one block keeps the invariant.                                *)
LEMMA StepKeeps ==
    ASSUME FlowInv, FlowStep
    PROVE  FlowInv'
  <1>. DEFINE b == worklist[Len(worklist)]
              in == Meet(b)
              res == Transfer(problem, b, in)
  <1>0. worklist \in Seq(problem.blocks) /\ worklist # <<>>
    BY DEF FlowInv, FlowTypeOK, FlowStep
  <1>1. /\ problem \in Problems
        /\ b \in problem.blocks
        /\ stage = "running"
    BY <1>0 DEF FlowInv, FlowTypeOK, FlowStep
  <1>2. /\ problem' = problem
        /\ stage' = stage
        /\ before' = [before EXCEPT ![b] = in]
        /\ after' = [after EXCEPT ![b] = res]
    BY DEF FlowStep
  <1>w. /\ worklist' \in Seq(problem.blocks)
        /\ Elements(worklist) \ {b} \subseteq Elements(worklist')
        /\ res # after[b] => Sinks(problem, b) \subseteq Elements(worklist')
    <2>. DEFINE rest == SubSeq(worklist, 1, Len(worklist) - 1)
                wanted == IF res # after[b] THEN Sinks(problem, b) ELSE {}
    <2>1. PICK new \in HashOrders(IF res # after[b]
                                  THEN Sinks(problem, b) \ Elements(rest)
                                  ELSE {}) : worklist' = rest \o new
      BY DEF FlowStep
    <2>2. new \in HashOrders(wanted \ Elements(rest))
      <3>1. wanted \ Elements(rest)
              = IF res # after[b] THEN Sinks(problem, b) \ Elements(rest) ELSE {}
        OBVIOUS
      <3>. QED
        BY <2>1, <3>1
    <2>3. wanted \in SUBSET problem.blocks
      BY <1>1, SourceIsSink
    <2>. HIDE DEF rest, b, res
    <2>4. /\ rest \o new \in Seq(problem.blocks)
          /\ Elements(worklist) \ {worklist[Len(worklist)]}
               \subseteq Elements(rest \o new)
          /\ wanted \subseteq Elements(rest \o new)
      BY <1>0, <1>1, <2>2, <2>3, PopAndPush DEF rest
    <2>. QED
      BY <2>1, <2>4 DEF b
  <1>3. in \in SUBSET Facts(problem) /\ res \in SUBSET Facts(problem)
    BY <1>1, MeetType DEF FlowInv
  <1>4. in = Incoming(problem, b, after)
    BY <1>1, MeetIsIncoming DEF FlowInv
  <1>. HIDE DEF b, in, res
  <1>5. FlowTypeOK'
    <2>2. iterations' \in Nat
      BY DEF FlowInv, FlowTypeOK, FlowStep
    <2>. QED
      BY <1>1, <1>2, <1>3, <1>w, <2>2 DEF FlowInv, FlowTypeOK
  <1>6. BoundaryKept'
    <2>. SUFFICES ASSUME NEW c \in problem.blocks, Sources(problem, c) = {}
                  PROVE  before'[c] = Initial(problem, c)
      BY <1>2 DEF BoundaryKept
    <2>1. before[c] = Initial(problem, c)
      BY <1>1 DEF FlowInv, BoundaryKept
    <2>2. CASE c = b
      <3>1. in = Initial(problem, b)
        BY <1>4, <2>2 DEF Incoming
      <3>. QED
        BY <1>1, <1>2, <2>2, <3>1 DEF FlowInv, FlowTypeOK
    <2>3. CASE c # b
      BY <1>2, <2>1, <2>3 DEF FlowInv, FlowTypeOK
    <2>. QED
      BY <2>2, <2>3
  <1>7. WorklistCovers'
    <2>. SUFFICES ASSUME NEW c \in problem.blocks, c \notin Elements(worklist')
                  PROVE  /\ before'[c] = Incoming(problem, c, after')
                         /\ after'[c] = Transfer(problem, c, before'[c])
      BY <1>2 DEF WorklistCovers
    <2>1. Incoming(problem, c, after') = Incoming(problem, c, after)
      <3>1. \A a \in Sources(problem, c) : after'[a] = after[a]
        <4>. SUFFICES ASSUME NEW a \in Sources(problem, c)
                      PROVE  after'[a] = after[a]
          OBVIOUS
        <4>1. a \in problem.blocks
          BY <1>1, SourceIsSink
        <4>2. CASE a = b
          <5>1. c \in Sinks(problem, b)
            BY <1>1, <4>2, SourceIsSink
          <5>2. res = after[b]
            BY <1>w, <5>1
          <5>. QED
            BY <1>1, <1>2, <4>2, <5>2 DEF FlowInv, FlowTypeOK
        <4>3. CASE a # b
          BY <1>2, <4>1, <4>3 DEF FlowInv, FlowTypeOK
        <4>. QED
          BY <4>2, <4>3
      <3>. QED
        BY <1>1, <3>1, IncomingLocal
    <2>2. CASE c = b
      <3>1. before'[b] = in /\ after'[b] = res
        BY <1>1, <1>2 DEF FlowInv, FlowTypeOK
      <3>. QED
        BY <1>4, <2>1, <2>2, <3>1 DEF res
    <2>3. CASE c # b
      <3>1. c \notin Elements(worklist)
        BY <1>w, <2>3
      <3>2. /\ before[c] = Incoming(problem, c, after)
            /\ after[c] = Transfer(problem, c, before[c])
        BY <1>1, <3>1 DEF FlowInv, WorklistCovers
      <3>3. before'[c] = before[c] /\ after'[c] = after[c]
        BY <1>2, <2>3 DEF FlowInv, FlowTypeOK
      <3>. QED
        BY <2>1, <3>2, <3>3
    <2>. QED
      BY <2>2, <2>3
  <1>8. ConvergedIsSolved'
    BY <1>1, <1>2 DEF ConvergedIsSolved
  <1>9. BelowEverySolution'
    <2>. SUFFICES ASSUME NEW x \in [problem.blocks -> SUBSET Facts(problem)],
                         NEW y \in [problem.blocks -> SUBSET Facts(problem)],
                         IsSolution(problem, x, y),
                         NEW c \in problem.blocks
                  PROVE  after'[c] \subseteq y[c]
      BY <1>2 DEF BelowEverySolution
    <2>1. \A a \in problem.blocks : after[a] \subseteq y[a]
      BY DEF FlowInv, BelowEverySolution
    <2>2. CASE c = b
      <3>1. in \subseteq x[b]
        <4>1. Incoming(problem, b, after) \subseteq Incoming(problem, b, y)
          BY <1>1, <2>1, IncomingMonotone
        <4>. QED
          BY <1>1, <1>4, <4>1 DEF IsSolution
      <3>2. x[b] \in SUBSET Facts(problem)
        BY <1>1
      <3>3. res \subseteq Transfer(problem, b, x[b])
        BY <1>1, <3>1, <3>2, TransferFacts DEF res
      <3>4. Transfer(problem, b, x[b]) = y[b]
        BY <1>1 DEF IsSolution
      <3>. QED
        BY <1>1, <1>2, <2>2, <3>3, <3>4 DEF FlowInv, FlowTypeOK
    <2>3. CASE c # b
      BY <1>2, <2>1, <2>3 DEF FlowInv, FlowTypeOK
    <2>. QED
      BY <2>2, <2>3
  <1>. QED
    BY <1>5, <1>6, <1>7, <1>8, <1>9 DEF FlowInv

(* Leaving the loop keeps the invariant: below the cap it leaves on an     *)
(* empty worklist, when every block satisfies its equations.               *)
LEMMA FinishKeeps ==
    ASSUME FlowInv, FlowFinish
    PROVE  FlowInv'
  <1>1. UNCHANGED <<problem, before, after, worklist, iterations>>
    BY DEF FlowFinish
  <1>2. stage = "running" /\ stage' \in {"converged", "gave_up"}
    BY DEF FlowFinish
  <1>3. FlowTypeOK' /\ BoundaryKept' /\ BelowEverySolution'
    BY <1>1, <1>2
       DEF FlowInv, FlowTypeOK, BoundaryKept, BelowEverySolution
  <1>4. WorklistCovers'
    BY <1>2 DEF WorklistCovers
  <1>5. ConvergedIsSolved'
    <2>. SUFFICES ASSUME stage' = "converged"
                  PROVE  IsSolution(problem, before, after)
      BY <1>1 DEF ConvergedIsSolved
    <2>1. iterations < MaxIterations
      BY DEF FlowFinish
    <2>2. iterations \in Nat /\ MaxIterations \in Nat
      BY IterationsAssumption DEF FlowInv, FlowTypeOK
    <2>3. Elements(worklist) = {}
      BY <2>1, <2>2 DEF FlowFinish, Elements
    <2>. QED
      BY <1>2, <2>3 DEF FlowInv, WorklistCovers, IsSolution
  <1>. QED
    BY <1>3, <1>4, <1>5 DEF FlowInv

(* An idle solver satisfies the invariant.                                 *)
LEMMA InitInv == FlowInit => FlowInv
  <1>. SUFFICES ASSUME FlowInit PROVE FlowInv
    OBVIOUS
  <1>1. FlowTypeOK
    BY DEF FlowInit, FlowTypeOK
  <1>2. BoundaryKept /\ WorklistCovers /\ ConvergedIsSolved
    BY DEF FlowInit, BoundaryKept, WorklistCovers, ConvergedIsSolved
  <1>3. BelowEverySolution
    BY DEF FlowInit, BelowEverySolution
  <1>. QED
    BY <1>1, <1>2, <1>3 DEF FlowInv

(* The invariant holds in every state of the solver.                       *)
THEOREM FlowInvariant == FlowSpec => []FlowInv
  <1>1. FlowInit => FlowInv
    BY InitInv
  <1>2. FlowInv /\ [FlowNext]_flowVars => FlowInv'
    <2>. SUFFICES ASSUME FlowInv, [FlowNext]_flowVars PROVE FlowInv'
      OBVIOUS
    <2>1. ASSUME NEW p \in Problems, FlowStart(p) PROVE FlowInv'
      BY <2>1, StartKeeps
    <2>2. CASE FlowStep
      BY <2>2, StepKeeps
    <2>3. CASE FlowFinish
      BY <2>3, FinishKeeps
    <2>4. CASE UNCHANGED flowVars
      BY <2>4 DEF flowVars, FlowInv, FlowTypeOK, BoundaryKept, WorklistCovers,
                  ConvergedIsSolved, BelowEverySolution
    <2>. QED
      BY <2>1, <2>2, <2>3, <2>4 DEF FlowNext
  <1>. QED
    BY <1>1, <1>2, PTL DEF FlowSpec

(* The solver's states stay states of its problem, for any problem and any *)
(* order of blocks.                                                        *)
THEOREM FlowTypeCorrect == FlowSpec => []FlowTypeOK
  <1>1. FlowInv => FlowTypeOK
    BY DEF FlowInv
  <1>. QED
    BY <1>1, FlowInvariant, PTL

(* A result the solver calls converged satisfies the equations of its      *)
(* analysis, whatever the order in which it took the blocks.               *)
THEOREM Convergence == FlowSpec => []ConvergedIsSolved
  <1>1. FlowInv => ConvergedIsSolved
    BY DEF FlowInv
  <1>. QED
    BY <1>1, FlowInvariant, PTL

(* Solving the equations and lying below every solution is being the       *)
(* least.                                                                  *)
LEMMA LeastWhenConverged == FlowInv => LeastSolution
  <1>. SUFFICES ASSUME FlowInv, stage = "converged",
                       NEW x \in [problem.blocks -> SUBSET Facts(problem)],
                       NEW y \in [problem.blocks -> SUBSET Facts(problem)],
                       IsSolution(problem, x, y),
                       NEW b \in problem.blocks
                PROVE  before[b] \subseteq x[b] /\ after[b] \subseteq y[b]
    BY DEF LeastSolution
  <1>1. problem \in Problems
    BY DEF FlowInv, FlowTypeOK
  <1>2. \A a \in problem.blocks : after[a] \subseteq y[a]
    BY DEF FlowInv, BelowEverySolution
  <1>3. before[b] = Incoming(problem, b, after)
    BY DEF FlowInv, ConvergedIsSolved, IsSolution
  <1>4. Incoming(problem, b, after) \subseteq Incoming(problem, b, y)
    BY <1>1, <1>2, IncomingMonotone
  <1>5. x[b] = Incoming(problem, b, y)
    BY DEF IsSolution
  <1>. QED
    BY <1>2, <1>3, <1>4, <1>5

(* ... and is the least solution, so two runs over the same graph in       *)
(* different hash orders report the same states.                           *)
THEOREM Precision == FlowSpec => []LeastSolution
  BY FlowInvariant, LeastWhenConverged, PTL

-----------------------------------------------------------------------------
(***************************************************************************)
(* Proofs that the least solutions of the four analyses are what           *)
(* FlowAnalyses defines by paths, for every graph and every block of code. *)
(*                                                                         *)
(* The argument has three parts.  ReachableAvoiding, a bounded number of   *)
(* steps, is the least set closed under edges (ReachableIs).  The folds    *)
(* over a block's instructions make some facts and let the others pass     *)
(* unless the block defines their value (FlowTransferIs).  The ways from   *)
(* the blocks that make a fact, around those that end it, satisfy the      *)
(* equations of the analysis and lie within every solution, so they are    *)
(* the least (ForwardExact, BackwardExact).                                *)
(***************************************************************************)

(* One more step from the blocks of S, and sets from which none leads out. *)
Further(g, S, cut) == S \cup ((UNION {Successors(g, a) : a \in S}) \ cut)
ClosedIn(g, S, cut) == \A x \in S : \A y \in Successors(g, x) \ cut : y \in S

(* What is reached within n steps.                                         *)
Grows(grown, g, b, cut, N) ==
    grown = [n \in 0 .. N |-> IF n = 0 THEN {b} \ cut ELSE Further(g, grown[n - 1], cut)]

(* The definition by steps is one.                                         *)
LEMMA GrowthExists ==
  ASSUME NEW g, NEW b, NEW cut
  PROVE  \A N \in Nat : \E grown : Grows(grown, g, b, cut, N)
<1> DEFINE Good == {N \in Nat : \E grown : Grows(grown, g, b, cut, N)}
<1>1. 0 \in Good
  <2>1. Grows([n \in 0 .. 0 |-> {b} \ cut], g, b, cut, 0)
    BY DEF Grows
  <2> QED
    BY <2>1
<1>2. ASSUME NEW N \in Nat, N \in Good PROVE N + 1 \in Good
  <2>1. PICK grown : Grows(grown, g, b, cut, N)
    BY <1>2
  <2> DEFINE more == [n \in 0 .. N + 1 |-> IF n = N + 1 THEN Further(g, grown[N], cut) ELSE grown[n]]
  <2>2. ASSUME NEW n \in 0 .. N + 1
        PROVE  more[n] = IF n = 0 THEN {b} \ cut ELSE Further(g, more[n - 1], cut)
    <3>1. CASE n = 0
      BY <2>1, <3>1 DEF Grows
    <3>2. CASE n = N + 1
      <4>1. N \in 0 .. N + 1 /\ N # N + 1 /\ n - 1 = N /\ n # 0
        BY <3>2
      <4>2. more[N] = grown[N] /\ more[n] = Further(g, grown[N], cut)
        BY <3>2, <4>1
      <4> HIDE DEF more
      <4> QED
        BY <4>1, <4>2
    <3>3. CASE n # 0 /\ n # N + 1
      <4>1. n \in 0 .. N /\ n - 1 \in 0 .. N /\ n - 1 \in 0 .. N + 1 /\ n - 1 # N + 1
        BY <3>3
      <4>2. more[n] = grown[n] /\ more[n - 1] = grown[n - 1]
        BY <3>3, <4>1
      <4>3. grown[n] = Further(g, grown[n - 1], cut)
        BY <2>1, <3>3, <4>1 DEF Grows
      <4> HIDE DEF more
      <4> QED
        BY <3>3, <4>2, <4>3
    <3> QED
      BY <3>1, <3>2, <3>3
  <2>3. DOMAIN more = 0 .. N + 1 /\ more = [n \in 0 .. N + 1 |-> more[n]]
    OBVIOUS
  <2> HIDE DEF more
  <2>4. Grows(more, g, b, cut, N + 1)
    BY <2>2, <2>3 DEF Grows
  <2> QED
    BY <2>4
<1> HIDE DEF Good
<1>3. \A N \in Nat : N \in Good
  BY <1>1, <1>2, NaturalsIn
<1> QED
  BY <1>3 DEF Good

(* So what is reachable is what such steps have grown.                     *)
LEMMA ReachableIsGrown ==
  ASSUME NEW g, IsFiniteSet(g.blocks), NEW b, NEW cut
  PROVE  \E grown : /\ Grows(grown, g, b, cut, Cardinality(g.blocks))
                    /\ ReachableAvoiding(g, b, cut) = grown[Cardinality(g.blocks)]
<1>1. PICK N \in Nat : N = Cardinality(g.blocks)
  BY FS_CardinalityType
<1>2. \E grown : Grows(grown, g, b, cut, N)
  BY GrowthExists
<1> DEFINE chosen == CHOOSE grown : Grows(grown, g, b, cut, N)
<1>3. Grows(chosen, g, b, cut, N)
  BY <1>2
<1>4. ReachableAvoiding(g, b, cut) = chosen[N]
  BY <1>1, Zenon DEF ReachableAvoiding, Grows, Further
<1> QED
  BY <1>1, <1>3, <1>4

(* What is reachable is the least closed set with the block it starts at.  *)
LEMMA ReachableIs ==
  ASSUME NEW g, IsFiniteSet(g.blocks), NEW b \in g.blocks, NEW cut
  PROVE  /\ ReachableAvoiding(g, b, cut) \subseteq g.blocks \ cut
         /\ b \notin cut => b \in ReachableAvoiding(g, b, cut)
         /\ ClosedIn(g, ReachableAvoiding(g, b, cut), cut)
         /\ \A W : (b \notin cut => b \in W) /\ ClosedIn(g, W, cut)
                     => ReachableAvoiding(g, b, cut) \subseteq W
<1>1. PICK grown : /\ Grows(grown, g, b, cut, Cardinality(g.blocks))
                   /\ ReachableAvoiding(g, b, cut) = grown[Cardinality(g.blocks)]
  BY ReachableIsGrown
<1>2. PICK N \in Nat : N = Cardinality(g.blocks)
  BY FS_CardinalityType
<1>3. /\ grown[0] = {b} \ cut
      /\ \A n \in Nat : n + 1 <= N => grown[n + 1] = Further(g, grown[n], cut)
  <2>1. grown[0] = {b} \ cut
    BY <1>1, <1>2 DEF Grows
  <2>2. ASSUME NEW n \in Nat, n + 1 <= N PROVE grown[n + 1] = Further(g, grown[n], cut)
    <3>1. n + 1 \in 0 .. N /\ n + 1 # 0 /\ (n + 1) - 1 = n
      BY <2>2
    <3> QED
      BY <1>1, <1>2, <3>1 DEF Grows
  <2> QED
    BY <2>1, <2>2
<1> DEFINE Bounded == {n \in Nat : n <= N => grown[n] \subseteq g.blocks \ cut}
<1>4. \A n \in Nat : n \in Bounded
  <2>1. 0 \in Bounded
    BY <1>3
  <2>2. ASSUME NEW n \in Nat, n \in Bounded PROVE n + 1 \in Bounded
    <3> SUFFICES ASSUME n + 1 <= N PROVE grown[n + 1] \subseteq g.blocks \ cut
      OBVIOUS
    <3>1. grown[n + 1] = Further(g, grown[n], cut)
      BY <1>3
    <3>2. grown[n] \subseteq g.blocks \ cut
      BY <2>2
    <3>3. \A a : Successors(g, a) \subseteq g.blocks
      BY DEF Successors
    <3> QED
      BY <3>1, <3>2, <3>3 DEF Further
  <2> HIDE DEF Bounded
  <2> QED
    BY <2>1, <2>2, NaturalsIn
<1> DEFINE Large == {n \in Nat : n <= N => \/ ClosedIn(g, grown[n], cut)
                                         \/ Cardinality(grown[n]) >= n + 1}
<1>5. \A n \in Nat : n \in Large
  <2>1. 0 \in Large
    <3>1. CASE b \in cut
      BY <1>3, <3>1 DEF ClosedIn
    <3>2. CASE b \notin cut
      <4>1. grown[0] = {b}
        BY <1>3, <3>2
      <4> QED
        BY <4>1, FS_Singleton
    <3> QED
      BY <3>1, <3>2
  <2>2. ASSUME NEW n \in Nat, n \in Large PROVE n + 1 \in Large
    <3> SUFFICES ASSUME n + 1 <= N, ~ClosedIn(g, grown[n + 1], cut)
                 PROVE  Cardinality(grown[n + 1]) >= n + 2
      OBVIOUS
    <3>1. grown[n + 1] = Further(g, grown[n], cut)
      BY <1>3
    <3>2. ~ClosedIn(g, grown[n], cut)
      <4> SUFFICES ASSUME ClosedIn(g, grown[n], cut) PROVE FALSE
        OBVIOUS
      <4>1. grown[n + 1] = grown[n]
        BY <3>1 DEF ClosedIn, Further
      <4> QED
        BY <4>1
    <3>3. Cardinality(grown[n]) >= n + 1
      BY <2>2, <3>2
    <3>4. PICK x : x \in grown[n + 1] /\ x \notin grown[n]
      BY <3>1, <3>2 DEF ClosedIn, Further
    <3>5. IsFiniteSet(grown[n + 1])
      <4>1. grown[n + 1] \subseteq g.blocks
        BY <1>4
      <4> QED
        BY <4>1, FS_Subset
    <3>6. grown[n] \subseteq grown[n + 1] \ {x}
      BY <3>1, <3>4 DEF Further
    <3>7. /\ IsFiniteSet(grown[n + 1] \ {x})
          /\ Cardinality(grown[n + 1] \ {x}) = Cardinality(grown[n + 1]) - 1
          /\ Cardinality(grown[n + 1]) \in Nat
      BY <3>4, <3>5, FS_RemoveElement, FS_CardinalityType
    <3>8. /\ Cardinality(grown[n]) <= Cardinality(grown[n + 1] \ {x})
          /\ Cardinality(grown[n]) \in Nat
      BY <3>6, <3>7, FS_Subset, FS_CardinalityType
    <3> QED
      BY <3>3, <3>7, <3>8
  <2> HIDE DEF Large
  <2> QED
    BY <2>1, <2>2, NaturalsIn
<1>6. ClosedIn(g, grown[N], cut)
  <2>1. grown[N] \subseteq g.blocks
    BY <1>4
  <2>2. Cardinality(grown[N]) <= N /\ Cardinality(grown[N]) \in Nat
    BY <1>2, <2>1, FS_Subset, FS_CardinalityType
  <2>3. ~ (Cardinality(grown[N]) >= N + 1)
    BY <2>2
  <2> QED
    BY <1>5, <2>3
<1>7. ASSUME NEW W, b \notin cut => b \in W, ClosedIn(g, W, cut)
      PROVE  grown[N] \subseteq W
  <2> DEFINE Inside == {n \in Nat : n <= N => grown[n] \subseteq W}
  <2>1. 0 \in Inside
    BY <1>3, <1>7
  <2>2. ASSUME NEW n \in Nat, n \in Inside PROVE n + 1 \in Inside
    BY <1>3, <1>7, <2>2 DEF Further, ClosedIn
  <2>3. \A n \in Nat : n \in Inside
    <3> HIDE DEF Inside
    <3> QED
      BY <2>1, <2>2, NaturalsIn
  <2> QED
    BY <2>3
<1>8. b \notin cut => b \in grown[N]
  <2> DEFINE From == {n \in Nat : n <= N => (b \notin cut => b \in grown[n])}
  <2>1. 0 \in From
    BY <1>3
  <2>2. ASSUME NEW n \in Nat, n \in From PROVE n + 1 \in From
    BY <1>3, <2>2 DEF Further
  <2>3. \A n \in Nat : n \in From
    <3> HIDE DEF From
    <3> QED
      BY <2>1, <2>2, NaturalsIn
  <2> QED
    BY <2>3
<1>9. grown[N] \subseteq g.blocks \ cut
  BY <1>4
<1>10. ReachableAvoiding(g, b, cut) = grown[N]
  BY <1>1, <1>2
<1> QED
  BY <1>6, <1>7, <1>8, <1>9, <1>10

(* What a fact is about: a site of a definition about its value, a value   *)
(* about itself.                                                           *)
ValueOf(sited, f) == IF sited THEN f.value ELSE f

(* The facts that survive an instruction that defines the values of kill.  *)
Surviving(sited, t, kill) == {f \in t : ValueOf(sited, f) \notin kill}

(* A fold over n instructions the way the community modules write it: the  *)
(* instructions of S are undone from the last.                             *)
IsFold(iter, sited, kill, gen, base, n) ==
    iter = [S \in SUBSET (1 .. n) |->
               IF S = {} THEN base
               ELSE Surviving(sited, iter[S \ {Max(S)}], kill[Max(S)]) \cup gen[Max(S)]]

(* The largest number of a set that reaches up to n, and its absence.      *)
LEMMA LargestIs ==
  ASSUME NEW n \in Nat, NEW S \in SUBSET (1 .. n)
  PROVE  /\ n \in S => Max(S) = n
         /\ S # {} => Max(S) \in S /\ \A y \in S : Max(S) >= y
<1>1. ASSUME n \in S PROVE Max(S) = n
  <2>1. n \in S /\ \A y \in S : n >= y
    BY <1>1
  <2>2. \A x \in S : (\A y \in S : x >= y) => x = n
    BY <1>1
  <2> QED
    BY <2>1, <2>2, Zenon DEF Max
<1>2. ASSUME S # {} PROVE Max(S) \in S /\ \A y \in S : Max(S) >= y
  <2> DEFINE Holds == {k \in Nat : k <= n /\ \E y \in S : y = n - k}
  <2>1. PICK y \in S : y \in 1 .. n
    BY <1>2
  <2>2. n - y \in Holds
    BY <2>1
  <2>3. PICK k \in Holds : \A j \in Holds : k <= j
    <3>1. Holds \subseteq Nat /\ Holds # {}
      BY <2>2
    <3> HIDE DEF Holds
    <3> QED
      BY <3>1, LeastNatural
  <2>4. n - k \in S
    BY <2>3
  <2>5. ASSUME NEW z \in S PROVE n - k >= z
    <3>1. z \in 1 .. n /\ n - z \in Holds
      OBVIOUS
    <3>2. k <= n - z
      BY <2>3, <3>1
    <3>3. k \in Nat
      BY <2>3
    <3> QED
      BY <3>1, <3>2, <3>3
  <2> HIDE DEF Holds
  <2> QED
    BY <2>4, <2>5, Zenon DEF Max
<1> QED
  BY <1>1, <1>2

(* Such a fold there is, over instructions that generate facts of U.       *)
LEMMA FoldExists ==
  ASSUME NEW sited, NEW kill, NEW gen, NEW base
  PROVE  \A n \in Nat : \E iter : IsFold(iter, sited, kill, gen, base, n)
<1> DEFINE Good == {n \in Nat : \E iter : IsFold(iter, sited, kill, gen, base, n)}
<1>1. 0 \in Good
  <2> DEFINE none == [S \in SUBSET (1 .. 0) |-> base]
  <2>1. \A S \in SUBSET (1 .. 0) : S = {}
    OBVIOUS
  <2>2. IsFold(none, sited, kill, gen, base, 0)
    BY <2>1 DEF IsFold
  <2> QED
    BY <2>2
<1>2. ASSUME NEW n \in Nat, n \in Good PROVE n + 1 \in Good
  <2>1. PICK iter : IsFold(iter, sited, kill, gen, base, n)
    BY <1>2
  <2> DEFINE m == n + 1
             more == [S \in SUBSET (1 .. m) |->
                        IF m \in S THEN Surviving(sited, iter[S \ {m}], kill[m]) \cup gen[m]
                        ELSE iter[S]]
  <2>2. ASSUME NEW S \in SUBSET (1 .. m)
        PROVE  more[S] = IF S = {} THEN base
                         ELSE Surviving(sited, more[S \ {Max(S)}], kill[Max(S)]) \cup gen[Max(S)]
    <3>1. CASE m \in S
      <4>1. Max(S) = m
        BY <3>1, LargestIs
      <4>2. S \ {m} \in SUBSET (1 .. m) /\ m \notin S \ {m}
        OBVIOUS
      <4>3. more[S \ {m}] = iter[S \ {m}]
        BY <4>2
      <4>4. more[S] = Surviving(sited, iter[S \ {m}], kill[m]) \cup gen[m]
        BY <3>1
      <4> HIDE DEF more, m
      <4> QED
        BY <3>1, <4>1, <4>3, <4>4
    <3>2. CASE m \notin S
      <4>1. S \in SUBSET (1 .. n)
        BY <3>2
      <4>2. more[S] = iter[S]
        BY <3>2
      <4>3. iter[S] = IF S = {} THEN base
                      ELSE Surviving(sited, iter[S \ {Max(S)}], kill[Max(S)]) \cup gen[Max(S)]
        BY <2>1, <4>1 DEF IsFold
      <4>4. CASE S = {}
        BY <4>2, <4>3, <4>4
      <4>5. CASE S # {}
        <5>1. S \ {Max(S)} \in SUBSET (1 .. m) /\ m \notin S \ {Max(S)}
          BY <3>2
        <5>2. more[S \ {Max(S)}] = iter[S \ {Max(S)}]
          BY <5>1
        <5> HIDE DEF more, m
        <5> QED
          BY <4>2, <4>3, <4>5, <5>2
      <4> QED
        BY <4>4, <4>5
    <3> QED
      BY <3>1, <3>2
  <2>3. more = [S \in SUBSET (1 .. m) |-> more[S]]
    OBVIOUS
  <2> HIDE DEF more
  <2>4. IsFold(more, sited, kill, gen, base, n + 1)
    BY <2>2, <2>3 DEF IsFold
  <2> QED
    BY <2>4
<1> HIDE DEF Good
<1>3. \A n \in Nat : n \in Good
  BY <1>1, <1>2, NaturalsIn
<1> QED
  BY <1>3 DEF Good

(* What survives a list of n instructions, or is made by one of them.      *)
Outcome(sited, kill, gen, base, n, f) ==
    \/ f \in base /\ \A k \in 1 .. n : ValueOf(sited, f) \notin kill[k]
    \/ \E k \in 1 .. n : /\ f \in gen[k]
                         /\ \A j \in k + 1 .. n : ValueOf(sited, f) \notin kill[j]

(* What such a fold returns: the facts an instruction generates and no     *)
(* later one kills, and those it started with that none kills.             *)
LEMMA FoldIs ==
  ASSUME NEW n \in Nat, NEW sited, NEW kill, NEW gen, NEW base, NEW iter,
         IsFold(iter, sited, kill, gen, base, n), NEW f
  PROVE  f \in iter[1 .. n] <=> Outcome(sited, kill, gen, base, n, f)
<1> DEFINE Up(m) == \/ f \in base /\ \A k \in 1 .. m : ValueOf(sited, f) \notin kill[k]
                    \/ \E k \in 1 .. m : /\ f \in gen[k]
                                         /\ \A j \in k + 1 .. m : ValueOf(sited, f) \notin kill[j]
           Good == {m \in Nat : m <= n => (f \in iter[1 .. m] <=> Up(m))}
<1>1. 0 \in Good
  <2>1. 1 .. 0 = {} /\ 1 .. 0 \in SUBSET (1 .. n)
    OBVIOUS
  <2>2. iter[1 .. 0] = base
    BY <2>1 DEF IsFold
  <2>3. Up(0) <=> f \in base
    BY <2>1
  <2> QED
    BY <2>2, <2>3
<1>2. ASSUME NEW m \in Nat, m \in Good PROVE m + 1 \in Good
  <2> SUFFICES ASSUME m + 1 <= n PROVE f \in iter[1 .. m + 1] <=> Up(m + 1)
    OBVIOUS
  <2> DEFINE v == ValueOf(sited, f)
  <2>1. /\ 1 .. m + 1 \in SUBSET (1 .. n)
        /\ 1 .. m + 1 \in SUBSET (1 .. m + 1)
        /\ m + 1 \in 1 .. m + 1
        /\ 1 .. m + 1 # {}
        /\ (1 .. m + 1) \ {m + 1} = 1 .. m
    <3>1. \A k : k \in 1 .. m + 1 => k \in 1 .. n
      OBVIOUS
    <3>2. \A k : k \in (1 .. m + 1) \ {m + 1} <=> k \in 1 .. m
      OBVIOUS
    <3>3. m + 1 \in 1 .. m + 1
      OBVIOUS
    <3> QED
      BY <3>1, <3>2, <3>3
  <2>2. Max(1 .. m + 1) = m + 1
    BY <2>1, LargestIs
  <2>3. iter[1 .. m + 1] = Surviving(sited, iter[1 .. m], kill[m + 1]) \cup gen[m + 1]
    BY <2>1, <2>2 DEF IsFold
  <2>4. f \in iter[1 .. m + 1] <=> \/ f \in iter[1 .. m] /\ v \notin kill[m + 1]
                                   \/ f \in gen[m + 1]
    BY <2>3 DEF Surviving
  <2>5. f \in iter[1 .. m] <=> Up(m)
    BY <1>2
  <2> HIDE DEF v
  <2>6. (\A k \in 1 .. m + 1 : v \notin kill[k]) <=> /\ \A k \in 1 .. m : v \notin kill[k]
                                                     /\ v \notin kill[m + 1]
    BY <2>1
  <2>7. ASSUME NEW k \in 1 .. m
        PROVE  (\A j \in k + 1 .. m + 1 : v \notin kill[j])
                  <=> (\A j \in k + 1 .. m : v \notin kill[j]) /\ v \notin kill[m + 1]
    <3>1. \A j : j \in k + 1 .. m + 1 <=> j \in k + 1 .. m \/ j = m + 1
      OBVIOUS
    <3> QED
      BY <3>1
  <2>8. \A j \in (m + 1) + 1 .. m + 1 : FALSE
    OBVIOUS
  <2>9. \A k : k \in 1 .. m + 1 <=> k \in 1 .. m \/ k = m + 1
    OBVIOUS
  <2>10. Up(m + 1) <=> \/ Up(m) /\ v \notin kill[m + 1]
                       \/ f \in gen[m + 1]
    <3> DEFINE G(k, u) == f \in gen[k] /\ \A j \in k + 1 .. u : v \notin kill[j]
    <3>1. (\E k \in 1 .. m + 1 : G(k, m + 1)) <=> \/ \E k \in 1 .. m : G(k, m + 1)
                                                  \/ G(m + 1, m + 1)
      BY <2>9
    <3>2. G(m + 1, m + 1) <=> f \in gen[m + 1]
      BY <2>8
    <3>3. \A k \in 1 .. m : G(k, m + 1) <=> G(k, m) /\ v \notin kill[m + 1]
      BY <2>7
    <3>4. Up(m + 1) <=> \/ f \in base /\ \A k \in 1 .. m + 1 : v \notin kill[k]
                        \/ \E k \in 1 .. m + 1 : G(k, m + 1)
      BY DEF v
    <3>5. Up(m) <=> \/ f \in base /\ \A k \in 1 .. m : v \notin kill[k]
                    \/ \E k \in 1 .. m : G(k, m)
      BY DEF v
    <3> HIDE DEF G, Up
    <3> QED
      BY <2>6, <3>1, <3>2, <3>3, <3>4, <3>5
  <2> HIDE DEF Up
  <2> QED
    BY <2>4, <2>5, <2>10
<1>3. \A m \in Nat : m \in Good
  <2> HIDE DEF Good
  <2> QED
    BY <1>1, <1>2, NaturalsIn
<1> QED
  BY <1>3 DEF Outcome

(* Going through a block for the framework's reaching definitions.         *)
LEMMA TransferReachingIs ==
  ASSUME NEW code, NEW n \in Nat, DOMAIN code = 1 .. n, NEW s, NEW f
  PROVE  f \in TransferReaching(code, s) <=>
            \/ f \in s /\ \A k \in 1 .. n : f \notin code[k].def
            \/ \E k \in 1 .. n : f \in code[k].def /\ \A j \in k + 1 .. n : f \notin code[j].def
<1> DEFINE defs == [k \in 1 .. n |-> code[k].def]
           Written(g) == g = [S \in SUBSET (1 .. n) |->
                                IF S = {} THEN s
                                ELSE (g[S \ {Max(S)}] \ code[Max(S)].def) \cup code[Max(S)].def]
           chosen == CHOOSE g : Written(g)
<1>1. TransferReaching(code, s) = chosen[1 .. n]
  BY Zenon DEF TransferReaching, FoldLeft, MapThenFoldSet
<1>2. ASSUME NEW g PROVE Written(g) <=> IsFold(g, FALSE, defs, defs, s, n)
  <2>1. ASSUME NEW S \in SUBSET (1 .. n), S # {}
        PROVE  (g[S \ {Max(S)}] \ code[Max(S)].def) \cup code[Max(S)].def
                 = Surviving(FALSE, g[S \ {Max(S)}], defs[Max(S)]) \cup defs[Max(S)]
    <3>1. Max(S) \in 1 .. n
      BY <2>1, LargestIs
    <3>2. defs[Max(S)] = code[Max(S)].def
      BY <3>1
    <3> HIDE DEF defs
    <3> QED
      BY <3>2 DEF Surviving, ValueOf
  <2> HIDE DEF defs
  <2> QED
    BY <2>1 DEF IsFold
<1>3. IsFold(chosen, FALSE, defs, defs, s, n)
  <2> HIDE DEF defs, Written
  <2>1. \E g : Written(g)
    BY <1>2, FoldExists
  <2> QED
    BY <1>2, <2>1, Zenon
<1>4. f \in chosen[1 .. n] <=> Outcome(FALSE, defs, defs, s, n, f)
  <2> HIDE DEF defs, chosen
  <2> QED
    BY <1>3, FoldIs
<1> HIDE DEF chosen
<1> QED
  <2>1. /\ \A k \in 1 .. n : defs[k] = code[k].def
        /\ ValueOf(FALSE, f) = f
    BY DEF ValueOf
  <2>2. \A k \in 1 .. n : \A j \in k + 1 .. n : defs[j] = code[j].def
    OBVIOUS
  <2> HIDE DEF defs
  <2> QED
    BY <1>1, <1>4, <2>1, <2>2 DEF Outcome

(* ... for its live variables.                                             *)
LEMMA TransferLiveIs ==
  ASSUME NEW code, NEW n \in Nat, DOMAIN code = 1 .. n, NEW s, NEW f
  PROVE  f \in TransferLive(code, s) <=>
            \/ f \in s /\ \A k \in 1 .. n : f \notin code[k].def
            \/ \E k \in 1 .. n : f \in code[k].uses /\ \A j \in k + 1 .. n : f \notin code[j].def
<1> DEFINE defs == [k \in 1 .. n |-> code[k].def]
           uses == [k \in 1 .. n |-> code[k].uses]
           Written(g) == g = [S \in SUBSET (1 .. n) |->
                                IF S = {} THEN s
                                ELSE (g[S \ {Max(S)}] \ code[Max(S)].def) \cup code[Max(S)].uses]
           chosen == CHOOSE g : Written(g)
<1>1. TransferLive(code, s) = chosen[1 .. n]
  BY Zenon DEF TransferLive, LiveThrough, FoldLeft, MapThenFoldSet
<1>2. ASSUME NEW g PROVE Written(g) <=> IsFold(g, FALSE, defs, uses, s, n)
  <2>1. ASSUME NEW S \in SUBSET (1 .. n), S # {}
        PROVE  (g[S \ {Max(S)}] \ code[Max(S)].def) \cup code[Max(S)].uses
                 = Surviving(FALSE, g[S \ {Max(S)}], defs[Max(S)]) \cup uses[Max(S)]
    <3>1. Max(S) \in 1 .. n
      BY <2>1, LargestIs
    <3>2. defs[Max(S)] = code[Max(S)].def /\ uses[Max(S)] = code[Max(S)].uses
      BY <3>1
    <3> HIDE DEF defs, uses
    <3> QED
      BY <3>2 DEF Surviving, ValueOf
  <2> HIDE DEF defs, uses
  <2> QED
    BY <2>1 DEF IsFold
<1>3. IsFold(chosen, FALSE, defs, uses, s, n)
  <2> HIDE DEF defs, uses, Written
  <2>1. \E g : Written(g)
    BY <1>2, FoldExists
  <2> QED
    BY <1>2, <2>1, Zenon
<1>4. f \in chosen[1 .. n] <=> Outcome(FALSE, defs, uses, s, n, f)
  <2> HIDE DEF defs, uses, chosen
  <2> QED
    BY <1>3, FoldIs
<1> HIDE DEF chosen
<1> QED
  <2>1. /\ \A k \in 1 .. n : defs[k] = code[k].def /\ uses[k] = code[k].uses
        /\ ValueOf(FALSE, f) = f
    BY DEF ValueOf
  <2>2. \A k \in 1 .. n : \A j \in k + 1 .. n : defs[j] = code[j].def
    OBVIOUS
  <2> HIDE DEF defs, uses
  <2> QED
    BY <1>1, <1>4, <2>1, <2>2 DEF Outcome

(* ... for the sites of definitions.                                       *)
LEMMA TransferSitesIs ==
  ASSUME NEW code, NEW n \in Nat, DOMAIN code = 1 .. n, Len(code) = n, NEW b, NEW s, NEW f
  PROVE  f \in TransferSites(b, code, s) <=>
            \/ f \in s /\ \A k \in 1 .. n : f.value \notin code[k].def
            \/ \E k \in 1 .. n : /\ f \in {Site(b, k, v) : v \in code[k].def}
                                 /\ \A j \in k + 1 .. n : f.value \notin code[j].def
<1> DEFINE defs == [k \in 1 .. n |-> code[k].def]
           places == [k \in 1 .. n |-> {Site(b, k, v) : v \in code[k].def}]
           order == [k \in 1 .. Len(code) |-> k]
           Written(g) == g = [S \in SUBSET DOMAIN order |->
                                IF S = {} THEN s
                                ELSE {d \in g[S \ {Max(S)}] : d.value \notin code[order[Max(S)]].def}
                                        \cup {Site(b, order[Max(S)], v) : v \in code[order[Max(S)]].def}]
           chosen == CHOOSE g : Written(g)
<1>1. TransferSites(b, code, s) = chosen[DOMAIN order]
  BY Zenon DEF TransferSites, FoldLeft, MapThenFoldSet
<1>2. ASSUME NEW g PROVE Written(g) <=> IsFold(g, TRUE, defs, places, s, n)
  <2>1. ASSUME NEW S \in SUBSET (1 .. n), S # {}
        PROVE  {d \in g[S \ {Max(S)}] : d.value \notin code[order[Max(S)]].def}
                                        \cup {Site(b, order[Max(S)], v) : v \in code[order[Max(S)]].def}
                 = Surviving(TRUE, g[S \ {Max(S)}], defs[Max(S)]) \cup places[Max(S)]
    <3>1. Max(S) \in 1 .. n
      BY <2>1, LargestIs
    <3>2. /\ defs[Max(S)] = code[Max(S)].def
          /\ places[Max(S)] = {Site(b, Max(S), v) : v \in code[Max(S)].def}
          /\ order[Max(S)] = Max(S)
      BY <3>1
    <3>3. Surviving(TRUE, g[S \ {Max(S)}], defs[Max(S)])
             = {d \in g[S \ {Max(S)}] : d.value \notin defs[Max(S)]}
      BY DEF Surviving, ValueOf
    <3> HIDE DEF defs, places, order
    <3> QED
      BY <3>2, <3>3
  <2>2. DOMAIN order = 1 .. n
    OBVIOUS
  <2> HIDE DEF defs, places, order
  <2> QED
    BY <2>1, <2>2 DEF IsFold
<1>3. IsFold(chosen, TRUE, defs, places, s, n)
  <2> HIDE DEF defs, places, order, Written
  <2>1. \E g : Written(g)
    BY <1>2, FoldExists
  <2> QED
    BY <1>2, <2>1, Zenon
<1>4. f \in chosen[1 .. n] <=> Outcome(TRUE, defs, places, s, n, f)
  <2> HIDE DEF defs, places, chosen
  <2> QED
    BY <1>3, FoldIs
<1>5. DOMAIN order = 1 .. n
  OBVIOUS
<1> HIDE DEF chosen, order
<1> QED
  <2>1. /\ \A k \in 1 .. n : /\ defs[k] = code[k].def
                             /\ places[k] = {Site(b, k, v) : v \in code[k].def}
        /\ ValueOf(TRUE, f) = f.value
    BY DEF ValueOf
  <2>2. \A k \in 1 .. n : \A j \in k + 1 .. n : defs[j] = code[j].def
    OBVIOUS
  <2>3. (\A k \in 1 .. n : ValueOf(TRUE, f) \notin defs[k])
           <=> \A k \in 1 .. n : f.value \notin code[k].def
    BY <2>1
  <2>4. ASSUME NEW k \in 1 .. n
        PROVE  /\ f \in places[k] <=> f \in {Site(b, k, v) : v \in code[k].def}
               /\ (\A j \in k + 1 .. n : ValueOf(TRUE, f) \notin defs[j])
                     <=> \A j \in k + 1 .. n : f.value \notin code[j].def
    BY <2>1, <2>2
  <2>5. f \in TransferSites(b, code, s) <=> Outcome(TRUE, defs, places, s, n, f)
    BY <1>1, <1>4, <1>5
  <2> HIDE DEF defs, places
  <2> QED
    BY <2>3, <2>4, <2>5, Zenon DEF Outcome

(* ... and for the crate's full live variables, last instruction first.    *)
LEMMA TransferLivenessIs ==
  ASSUME NEW code, NEW n \in Nat, DOMAIN code = 1 .. n, Len(code) = n, NEW s, NEW f
  PROVE  f \in TransferLiveness(code, s) <=>
            \/ f \in s /\ \A k \in 1 .. n : f \notin code[k].def
            \/ \E k \in 1 .. n : f \in code[k].uses /\ \A j \in 1 .. k - 1 : f \notin code[j].def
<1> DEFINE back == Reverse(code)
<1>1. back = [i \in 1 .. n |-> code[(n - i) + 1]]
  BY DEF Reverse
<1>2. TransferLiveness(code, s) = TransferLive(back, s)
  BY DEF TransferLiveness, TransferLive
<1> HIDE DEF back
<1>3. DOMAIN back = 1 .. n
  BY <1>1
<1>4. f \in TransferLive(back, s) <=>
            \/ f \in s /\ \A k \in 1 .. n : f \notin back[k].def
            \/ \E k \in 1 .. n : f \in back[k].uses /\ \A j \in k + 1 .. n : f \notin back[j].def
  BY <1>3, TransferLiveIs
<1>5. \A k \in 1 .. n : (n - k) + 1 \in 1 .. n /\ back[k] = code[(n - k) + 1] /\ back[(n - k) + 1] = code[k]
  BY <1>1
<1>6. (\A k \in 1 .. n : f \notin back[k].def) <=> (\A k \in 1 .. n : f \notin code[k].def)
  BY <1>5
<1>7. ASSUME NEW k \in 1 .. n
      PROVE  (\A j \in ((n - k) + 1) + 1 .. n : f \notin back[j].def) <=> (\A j \in 1 .. k - 1 : f \notin code[j].def)
  <2>1. \A j \in ((n - k) + 1) + 1 .. n : j \in 1 .. n /\ (n - j) + 1 \in 1 .. k - 1
    OBVIOUS
  <2>2. \A j \in 1 .. k - 1 : j \in 1 .. n /\ (n - j) + 1 \in ((n - k) + 1) + 1 .. n
    OBVIOUS
  <2> QED
    BY <1>5, <2>1, <2>2
<1>8. (\E k \in 1 .. n : f \in back[k].uses /\ \A j \in k + 1 .. n : f \notin back[j].def)
         <=> (\E k \in 1 .. n : f \in code[k].uses /\ \A j \in 1 .. k - 1 : f \notin code[j].def)
  <2>1. ASSUME NEW k \in 1 .. n, f \in back[k].uses, \A j \in k + 1 .. n : f \notin back[j].def
        PROVE  \E i \in 1 .. n : f \in code[i].uses /\ \A j \in 1 .. i - 1 : f \notin code[j].def
    <3> DEFINE i == (n - k) + 1
    <3>1. i \in 1 .. n /\ (n - i) + 1 = k /\ f \in code[i].uses
      BY <1>5, <2>1
    <3> HIDE DEF i
    <3>2. \A j \in 1 .. i - 1 : f \notin code[j].def
      BY <1>7, <2>1, <3>1
    <3> QED
      BY <3>1, <3>2
  <2>2. ASSUME NEW k \in 1 .. n, f \in code[k].uses, \A j \in 1 .. k - 1 : f \notin code[j].def
        PROVE  \E i \in 1 .. n : f \in back[i].uses /\ \A j \in i + 1 .. n : f \notin back[j].def
    <3>1. (n - k) + 1 \in 1 .. n /\ f \in back[(n - k) + 1].uses
      BY <1>5, <2>2
    <3>2. \A j \in ((n - k) + 1) + 1 .. n : f \notin back[j].def
      BY <1>7, <2>2
    <3> QED
      BY <3>1, <3>2
  <2> QED
    BY <2>1, <2>2
<1> QED
  BY <1>2, <1>4, <1>6, <1>8

(* The sites of definitions are those of the values instructions define.   *)
LEMMA DefinitionSiteIs ==
  ASSUME NEW g, NEW d
  PROVE  d \in DefinitionSites(g) <=>
            \E b \in g.blocks : \E k \in DOMAIN g.code[b] : \E v \in g.code[b][k].def : d = Site(b, k, v)
  BY DEF DefinitionSites

(* The sites of uses are those of the values instructions use.             *)
LEMMA UseSiteIs ==
  ASSUME NEW g, NEW d
  PROVE  d \in UseSites(g) <=>
            \E b \in g.blocks : \E k \in DOMAIN g.code[b] : \E v \in g.code[b][k].uses : d = Site(b, k, v)
  BY DEF UseSites

(* A site says its block, its index and its value.                         *)
LEMMA SiteHas ==
  ASSUME NEW b, NEW k, NEW v
  PROVE  Site(b, k, v).block = b /\ Site(b, k, v).index = k /\ Site(b, k, v).value = v
  BY DEF Site

(* A site is known by what it says.                                        *)
LEMMA SiteRead ==
  ASSUME NEW g, NEW d
  PROVE  /\ d \in DefinitionSites(g) =>
              /\ d = Site(d.block, d.index, d.value)
              /\ d.block \in g.blocks
              /\ d.index \in DOMAIN g.code[d.block]
              /\ d.value \in g.code[d.block][d.index].def
         /\ d \in UseSites(g) =>
              /\ d = Site(d.block, d.index, d.value)
              /\ d.block \in g.blocks
              /\ d.index \in DOMAIN g.code[d.block]
              /\ d.value \in g.code[d.block][d.index].uses
<1>1. ASSUME d \in DefinitionSites(g)
      PROVE  /\ d = Site(d.block, d.index, d.value)
             /\ d.block \in g.blocks
             /\ d.index \in DOMAIN g.code[d.block]
             /\ d.value \in g.code[d.block][d.index].def
  <2>1. PICK b \in g.blocks : \E k \in DOMAIN g.code[b] : \E v \in g.code[b][k].def : d = Site(b, k, v)
    BY <1>1, DefinitionSiteIs
  <2>2. PICK k \in DOMAIN g.code[b] : \E v \in g.code[b][k].def : d = Site(b, k, v)
    BY <2>1
  <2>3. PICK v \in g.code[b][k].def : d = Site(b, k, v)
    BY <2>2
  <2>4. d.block = b /\ d.index = k /\ d.value = v
    BY <2>3, SiteHas
  <2> QED
    BY <2>1, <2>2, <2>3, <2>4
<1>2. ASSUME d \in UseSites(g)
      PROVE  /\ d = Site(d.block, d.index, d.value)
             /\ d.block \in g.blocks
             /\ d.index \in DOMAIN g.code[d.block]
             /\ d.value \in g.code[d.block][d.index].uses
  <2>1. PICK b \in g.blocks : \E k \in DOMAIN g.code[b] : \E v \in g.code[b][k].uses : d = Site(b, k, v)
    BY <1>2, UseSiteIs
  <2>2. PICK k \in DOMAIN g.code[b] : \E v \in g.code[b][k].uses : d = Site(b, k, v)
    BY <2>1
  <2>3. PICK v \in g.code[b][k].uses : d = Site(b, k, v)
    BY <2>2
  <2>4. d.block = b /\ d.index = k /\ d.value = v
    BY <2>3, SiteHas
  <2> QED
    BY <2>1, <2>2, <2>3, <2>4
<1> QED
  BY <1>1, <1>2

(* The blocks that define a value are those with an instruction that does. *)
LEMMA DefiningBlockIs ==
  ASSUME NEW g, NEW b, NEW v
  PROVE  b \in DefiningBlocks(g, v) <=>
            b \in g.blocks /\ \E k \in DOMAIN g.code[b] : v \in g.code[b][k].def
<1>1. ASSUME b \in DefiningBlocks(g, v)
      PROVE  b \in g.blocks /\ \E k \in DOMAIN g.code[b] : v \in g.code[b][k].def
  <2>1. PICK d \in DefinitionSites(g) : d.value = v /\ d.block = b
    BY <1>1 DEF DefiningBlocks
  <2> QED
    BY <2>1, SiteRead
<1>2. ASSUME b \in g.blocks, NEW k \in DOMAIN g.code[b], v \in g.code[b][k].def
      PROVE  b \in DefiningBlocks(g, v)
  <2>1. Site(b, k, v) \in DefinitionSites(g)
    BY <1>2, DefinitionSiteIs
  <2>2. Site(b, k, v).value = v /\ Site(b, k, v).block = b
    BY SiteHas
  <2> QED
    BY <2>1, <2>2 DEF DefiningBlocks
<1> QED
  BY <1>1, <1>2

(* The problems of AnalysesAssumption, as far as their code goes.          *)
IsAnalysis(p) ==
    /\ p.analysis \in {"reaching", "live", "sites", "liveness"}
    /\ IsFiniteSet(p.blocks)
    /\ \A b \in p.blocks : p.code[b] \in Seq(ToSet(p.code[b]))

(* The code of a block is a list.                                          *)
LEMMA CodeIs ==
  ASSUME NEW p, IsAnalysis(p), NEW b \in p.blocks
  PROVE  Len(p.code[b]) \in Nat /\ DOMAIN p.code[b] = 1 .. Len(p.code[b])
  BY DEF IsAnalysis

(* The blocks that bring a fact about, and those that end it.              *)
Makes(p, b, f) ==
    \/ /\ p.analysis = "reaching"
       /\ \E k \in DOMAIN p.code[b] : f \in p.code[b][k].def
    \/ /\ p.analysis = "live"
       /\ \E k \in DOMAIN p.code[b] :
             /\ f \in p.code[b][k].uses
             /\ \A j \in k + 1 .. Len(p.code[b]) : f \notin p.code[b][j].def
    \/ /\ p.analysis = "sites"
       /\ f \in DefinitionSites(p) /\ f.block = b /\ IsLastInBlock(p, f)
    \/ /\ p.analysis = "liveness"
       /\ \E k \in DOMAIN p.code[b] :
             /\ f \in p.code[b][k].uses
             /\ \A j \in 1 .. k - 1 : f \notin p.code[b][j].def

Cut(p, f) ==
    IF p.analysis = "reaching" THEN {}
    ELSE DefiningBlocks(p, ValueOf(p.analysis = "sites", f))

(* A block keeps the facts it does not cut and adds those it makes.        *)
LEMMA FlowTransferIs ==
  ASSUME NEW p, IsAnalysis(p), NEW b \in p.blocks, NEW s, NEW f
  PROVE  f \in FlowTransfer(p, b, s) <=> Makes(p, b, f) \/ (f \in s /\ b \notin Cut(p, f))
<1> DEFINE code == p.code[b]
<1>1. PICK n : n \in Nat /\ n = Len(code) /\ DOMAIN code = 1 .. n
  BY CodeIs
<1>2. \A v : b \in DefiningBlocks(p, v) <=> \E k \in 1 .. n : v \in code[k].def
  BY <1>1, DefiningBlockIs
<1>3. CASE p.analysis = "reaching"
  <2>1. FlowTransfer(p, b, s) = TransferReaching(code, s)
    BY <1>3 DEF FlowTransfer
  <2>2. f \in TransferReaching(code, s) <=>
            \/ f \in s /\ \A k \in 1 .. n : f \notin code[k].def
            \/ \E k \in 1 .. n : f \in code[k].def /\ \A j \in k + 1 .. n : f \notin code[j].def
    BY <1>1, TransferReachingIs
  <2>3. (\E k \in 1 .. n : f \in code[k].def)
           => \E k \in 1 .. n : f \in code[k].def /\ \A j \in k + 1 .. n : f \notin code[j].def
    <3> DEFINE Those == {k \in 1 .. n : f \in code[k].def}
    <3>1. ASSUME Those # {} PROVE Max(Those) \in Those /\ \A y \in Those : Max(Those) >= y
      <4>1. Those \in SUBSET (1 .. n)
        OBVIOUS
      <4> HIDE DEF Those
      <4> QED
        BY <1>1, <3>1, <4>1, LargestIs
    <3>2. ASSUME NEW k \in Those, \A y \in Those : k >= y
          PROVE  k \in 1 .. n /\ f \in code[k].def /\ \A j \in k + 1 .. n : f \notin code[j].def
      <4>1. \A j \in k + 1 .. n : j \in 1 .. n /\ ~ (k >= j)
        BY <1>1
      <4> QED
        BY <3>2, <4>1
    <3> QED
      BY <3>1, <3>2
  <2>4. Cut(p, f) = {}
    BY <1>3 DEF Cut
  <2>5. Makes(p, b, f) <=> \E k \in 1 .. n : f \in code[k].def
    BY <1>1, <1>3 DEF Makes
  <2> QED
    BY <2>1, <2>2, <2>3, <2>4, <2>5
<1>4. CASE p.analysis = "live"
  <2>1. FlowTransfer(p, b, s) = TransferLive(code, s)
    BY <1>4 DEF FlowTransfer
  <2>2. f \in TransferLive(code, s) <=>
            \/ f \in s /\ \A k \in 1 .. n : f \notin code[k].def
            \/ \E k \in 1 .. n : f \in code[k].uses /\ \A j \in k + 1 .. n : f \notin code[j].def
    BY <1>1, TransferLiveIs
  <2>3. Cut(p, f) = DefiningBlocks(p, f)
    BY <1>4 DEF Cut, ValueOf
  <2>4. Makes(p, b, f) <=>
          \E k \in 1 .. n : f \in code[k].uses /\ \A j \in k + 1 .. n : f \notin code[j].def
    BY <1>1, <1>4 DEF Makes
  <2> QED
    BY <1>2, <2>1, <2>2, <2>3, <2>4
<1>5. CASE p.analysis = "liveness"
  <2>1. FlowTransfer(p, b, s) = TransferLiveness(code, s)
    BY <1>5 DEF FlowTransfer
  <2>2. f \in TransferLiveness(code, s) <=>
            \/ f \in s /\ \A k \in 1 .. n : f \notin code[k].def
            \/ \E k \in 1 .. n : f \in code[k].uses /\ \A j \in 1 .. k - 1 : f \notin code[j].def
    BY <1>1, TransferLivenessIs
  <2>3. Cut(p, f) = DefiningBlocks(p, f)
    BY <1>5 DEF Cut, ValueOf
  <2>4. Makes(p, b, f) <=>
          \E k \in 1 .. n : f \in code[k].uses /\ \A j \in 1 .. k - 1 : f \notin code[j].def
    BY <1>1, <1>5 DEF Makes
  <2> QED
    BY <1>2, <2>1, <2>2, <2>3, <2>4
<1>6. CASE p.analysis = "sites"
  <2>1. FlowTransfer(p, b, s) = TransferSites(b, code, s)
    BY <1>6 DEF FlowTransfer
  <2>2. f \in TransferSites(b, code, s) <=>
            \/ f \in s /\ \A k \in 1 .. n : f.value \notin code[k].def
            \/ \E k \in 1 .. n : /\ f \in {Site(b, k, v) : v \in code[k].def}
                                 /\ \A j \in k + 1 .. n : f.value \notin code[j].def
    BY <1>1, TransferSitesIs
  <2>3. Cut(p, f) = DefiningBlocks(p, f.value)
    BY <1>6 DEF Cut, ValueOf
  <2>4. Makes(p, b, f) <=> f \in DefinitionSites(p) /\ f.block = b /\ IsLastInBlock(p, f)
    BY <1>6 DEF Makes
  <2>5. ASSUME NEW k \in 1 .. n, f \in {Site(b, k, v) : v \in code[k].def},
               \A j \in k + 1 .. n : f.value \notin code[j].def
        PROVE  f \in DefinitionSites(p) /\ f.block = b /\ IsLastInBlock(p, f)
    <3>1. PICK v \in code[k].def : f = Site(b, k, v)
      BY <2>5
    <3>2. f.block = b /\ f.index = k
      BY <3>1, SiteHas
    <3>3. f \in DefinitionSites(p)
      BY <1>1, <3>1, DefinitionSiteIs
    <3>4. IsLastInBlock(p, f)
      BY <1>1, <2>5, <3>2 DEF IsLastInBlock
    <3> QED
      BY <3>2, <3>3, <3>4
  <2>6. ASSUME f \in DefinitionSites(p), f.block = b, IsLastInBlock(p, f)
        PROVE  \E k \in 1 .. n : /\ f \in {Site(b, k, v) : v \in code[k].def}
                                 /\ \A j \in k + 1 .. n : f.value \notin code[j].def
    <3>1. f = Site(b, f.index, f.value) /\ f.index \in 1 .. n /\ f.value \in code[f.index].def
      BY <1>1, <2>6, SiteRead
    <3>2. \A j \in f.index + 1 .. n : f.value \notin code[j].def
      BY <1>1, <2>6 DEF IsLastInBlock
    <3> QED
      BY <3>1, <3>2
  <2> QED
    BY <1>2, <2>1, <2>2, <2>3, <2>4, <2>5, <2>6
<1> QED
  BY <1>3, <1>4, <1>5, <1>6 DEF IsAnalysis

(* A way around the cut that ends at x reaches x for the first time after  *)
(* a last step from a block outside the cut.                               *)
LEMMA ArrivesAt ==
  ASSUME NEW g, IsFiniteSet(g.blocks), NEW C, NEW s \in g.blocks, NEW x \in g.blocks
  PROVE  x \in ReachableAvoiding(g, s, C \ {x})
            <=> x = s \/ \E a \in ReachableAvoiding(g, s, C) : x \in Successors(g, a)
<1> DEFINE R == ReachableAvoiding(g, s, C)
           Rx == ReachableAvoiding(g, s, C \ {x})
<1>1. /\ R \subseteq g.blocks \ C
      /\ s \notin C => s \in R
      /\ ClosedIn(g, R, C)
      /\ \A W : (s \notin C => s \in W) /\ ClosedIn(g, W, C) => R \subseteq W
  BY ReachableIs
<1>2. /\ s \notin C \ {x} => s \in Rx
      /\ ClosedIn(g, Rx, C \ {x})
      /\ \A W : (s \notin C \ {x} => s \in W) /\ ClosedIn(g, W, C \ {x}) => Rx \subseteq W
  BY ReachableIs
<1> HIDE DEF R, Rx
<1>3. R \subseteq Rx
  <2>1. ClosedIn(g, Rx, C)
    BY <1>2 DEF ClosedIn
  <2> QED
    BY <1>1, <1>2, <2>1
<1>4. ASSUME x = s \/ \E a \in R : x \in Successors(g, a)
      PROVE  x \in Rx
  <2>1. CASE x = s
    BY <1>2, <2>1
  <2>2. CASE \E a \in R : x \in Successors(g, a)
    <3>1. PICK a \in Rx : x \in Successors(g, a)
      BY <1>3, <2>2
    <3> QED
      BY <1>2, <3>1 DEF ClosedIn
  <2> QED
    BY <1>4, <2>1, <2>2
<1>5. ASSUME x # s, \A a \in R : x \notin Successors(g, a)
      PROVE  x \notin Rx
  <2> DEFINE W == R \ {x}
  <2>1. s \notin C \ {x} => s \in W
    BY <1>1, <1>5
  <2>2. ClosedIn(g, W, C \ {x})
    BY <1>1, <1>5 DEF ClosedIn
  <2> QED
    BY <1>2, <2>1, <2>2
<1> QED
  BY <1>4, <1>5 DEF R, Rx

(* A way out of a block outside the cut starts with one of its successors. *)
LEMMA FirstStep ==
  ASSUME NEW g, IsFiniteSet(g.blocks), NEW K, NEW b \in g.blocks, b \notin K, NEW m
  PROVE  m \in ReachableAvoiding(g, b, K)
            <=> m = b \/ \E s \in Successors(g, b) : m \in ReachableAvoiding(g, s, K)
<1>1. \A c \in g.blocks :
        /\ c \notin K => c \in ReachableAvoiding(g, c, K)
        /\ ClosedIn(g, ReachableAvoiding(g, c, K), K)
        /\ \A W : (c \notin K => c \in W) /\ ClosedIn(g, W, K)
                     => ReachableAvoiding(g, c, K) \subseteq W
  BY ReachableIs
<1>2. Successors(g, b) \subseteq g.blocks
  BY DEF Successors
<1>3. ASSUME NEW s \in Successors(g, b)
      PROVE  ReachableAvoiding(g, s, K) \subseteq ReachableAvoiding(g, b, K)
  <2>1. s \notin K => s \in ReachableAvoiding(g, b, K)
    BY <1>1 DEF ClosedIn
  <2> QED
    BY <1>1, <1>2, <2>1
<1> DEFINE W == {b} \cup UNION {ReachableAvoiding(g, s, K) : s \in Successors(g, b)}
<1>4. ClosedIn(g, W, K)
  <2> SUFFICES ASSUME NEW y \in W, NEW z \in Successors(g, y) \ K PROVE z \in W
    BY DEF ClosedIn
  <2>1. CASE y = b
    BY <1>1, <1>2, <2>1
  <2>2. CASE \E s \in Successors(g, b) : y \in ReachableAvoiding(g, s, K)
    <3>1. PICK s \in Successors(g, b) : y \in ReachableAvoiding(g, s, K)
      BY <2>2
    <3>2. z \in ReachableAvoiding(g, s, K)
      BY <1>1, <1>2, <3>1 DEF ClosedIn
    <3> QED
      BY <3>2
  <2> QED
    BY <2>1, <2>2
<1>5. ReachableAvoiding(g, b, K) \subseteq W
  BY <1>1, <1>4
<1>6. b \in ReachableAvoiding(g, b, K)
  BY <1>1
<1> QED
  BY <1>3, <1>5, <1>6

(* The equations of an analysis whose blocks make facts and let the others *)
(* pass where they are not cut.                                            *)
Balanced(p, F, in, out) ==
    \A b \in p.blocks : \A f \in F :
        /\ f \in in[b] <=> \E a \in Sources(p, b) : f \in out[a]
        /\ f \in out[b] <=> Makes(p, b, f) \/ (f \in in[b] /\ b \notin Cut(p, f))

(* The ways along which facts come: for a forward analysis to the block    *)
(* from one that makes the fact, for a backward one from the block to one. *)
ComesTo(p, b, f) ==
    \E m \in p.blocks :
        /\ Makes(p, m, f)
        /\ \E s \in Successors(p, m) : b \in ReachableAvoiding(p, s, Cut(p, f) \ {b})

ComesFrom(p, b, f) ==
    \E m \in p.blocks :
        Makes(p, m, f) /\ m \in ReachableAvoiding(p, b, Cut(p, f) \ {m})

(* Where a fact is known at a block's exit, by these ways.                 *)
Carries(p, b, f) ==
    \/ Makes(p, b, f)
    \/ \E m \in p.blocks :
          /\ Makes(p, m, f)
          /\ \E s \in Successors(p, m) : b \in ReachableAvoiding(p, s, Cut(p, f))

(* Going forward, the ways satisfy the equations ...                       *)
LEMMA WaysForward ==
  ASSUME NEW p, IsFiniteSet(p.blocks), NEW b \in p.blocks, NEW f
  PROVE  /\ ComesTo(p, b, f) <=> \E a \in Predecessors(p, b) : Carries(p, a, f)
         /\ Carries(p, b, f) <=> Makes(p, b, f) \/ (ComesTo(p, b, f) /\ b \notin Cut(p, f))
<1> DEFINE C == Cut(p, f)
<1>1. \A c \in p.blocks : Successors(p, c) \subseteq p.blocks
  BY DEF Successors
<1>2. \A a \in p.blocks : a \in Predecessors(p, b) <=> b \in Successors(p, a)
  BY DEF Predecessors, Successors
<1>3. Predecessors(p, b) \subseteq p.blocks
  BY DEF Predecessors
<1>4. \A s \in p.blocks : \A x \in p.blocks :
         x \in ReachableAvoiding(p, s, C \ {x})
            <=> x = s \/ \E a \in ReachableAvoiding(p, s, C) : x \in Successors(p, a)
  BY ArrivesAt
<1>5. \A s \in p.blocks : ReachableAvoiding(p, s, C) \subseteq p.blocks \ C
  BY ReachableIs
<1> HIDE DEF C
<1>6. ASSUME ComesTo(p, b, f) PROVE \E a \in Predecessors(p, b) : Carries(p, a, f)
  <2>1. PICK m \in p.blocks : /\ Makes(p, m, f)
                              /\ \E s \in Successors(p, m) : b \in ReachableAvoiding(p, s, C \ {b})
    BY <1>6 DEF ComesTo, C
  <2>2. PICK s \in Successors(p, m) : b \in ReachableAvoiding(p, s, C \ {b})
    BY <2>1
  <2>3. CASE b = s
    <3>1. m \in Predecessors(p, b)
      BY <1>2, <2>2, <2>3
    <3> QED
      BY <2>1, <3>1 DEF Carries
  <2>4. CASE \E a \in ReachableAvoiding(p, s, C) : b \in Successors(p, a)
    <3>1. PICK a \in ReachableAvoiding(p, s, C) : b \in Successors(p, a)
      BY <2>4
    <3>2. a \in Predecessors(p, b)
      BY <1>1, <1>2, <1>5, <2>2, <3>1
    <3>3. Carries(p, a, f)
      BY <2>1, <2>2, <3>1 DEF Carries, C
    <3> QED
      BY <3>2, <3>3
  <2> QED
    BY <1>1, <1>4, <2>2, <2>3, <2>4
<1>7. ASSUME NEW a \in Predecessors(p, b), Carries(p, a, f) PROVE ComesTo(p, b, f)
  <2>1. a \in p.blocks /\ b \in Successors(p, a)
    BY <1>2, <1>3
  <2>2. CASE Makes(p, a, f)
    <3>1. b \in ReachableAvoiding(p, b, C \ {b})
      BY <1>4
    <3> QED
      BY <2>1, <2>2, <3>1 DEF ComesTo, C
  <2>3. CASE ~Makes(p, a, f)
    <3>1. PICK m \in p.blocks : /\ Makes(p, m, f)
                                /\ \E s \in Successors(p, m) : a \in ReachableAvoiding(p, s, C)
      BY <1>7, <2>3 DEF Carries, C
    <3>2. PICK s \in Successors(p, m) : a \in ReachableAvoiding(p, s, C)
      BY <3>1
    <3>3. b \in ReachableAvoiding(p, s, C \ {b})
      BY <1>1, <1>4, <2>1, <3>2
    <3> QED
      BY <3>1, <3>2, <3>3 DEF ComesTo, C
  <2> QED
    BY <2>2, <2>3
<1>8. ASSUME b \notin C
      PROVE  ComesTo(p, b, f) <=>
               \E m \in p.blocks :
                  /\ Makes(p, m, f)
                  /\ \E s \in Successors(p, m) : b \in ReachableAvoiding(p, s, C)
  <2>1. C \ {b} = C
    BY <1>8
  <2> QED
    BY <2>1 DEF ComesTo, C
<1>9. ASSUME b \in C
      PROVE  \A m \in p.blocks : \A s \in Successors(p, m) : b \notin ReachableAvoiding(p, s, C)
  BY <1>1, <1>5, <1>9
<1>10. Carries(p, b, f) <=>
         \/ Makes(p, b, f)
         \/ \E m \in p.blocks :
              /\ Makes(p, m, f)
              /\ \E s \in Successors(p, m) : b \in ReachableAvoiding(p, s, C)
  BY DEF Carries, C
<1>11. Carries(p, b, f) <=> Makes(p, b, f) \/ (ComesTo(p, b, f) /\ b \notin C)
  BY <1>8, <1>9, <1>10
<1> QED
  BY <1>6, <1>7, <1>11 DEF C

(* ... and no solution is below them.                                      *)
LEMMA ForwardLeast ==
  ASSUME NEW p, IsFiniteSet(p.blocks), NEW F, NEW in, NEW out, Balanced(p, F, in, out),
         p.forward, NEW b \in p.blocks, NEW f \in F, Carries(p, b, f)
  PROVE  f \in out[b]
<1>1. \A c \in p.blocks : Makes(p, c, f) => f \in out[c]
  BY DEF Balanced
<1>2. ASSUME NEW c \in p.blocks, NEW z \in Successors(p, c), f \in out[c], z \notin Cut(p, f)
      PROVE  z \in p.blocks /\ f \in out[z]
  <2>1. z \in p.blocks /\ c \in Sources(p, z)
    BY DEF Sources, Successors, Predecessors
  <2> QED
    BY <1>2, <2>1 DEF Balanced
<1>3. SUFFICES ASSUME NEW m \in p.blocks, Makes(p, m, f), NEW s \in Successors(p, m),
                      b \in ReachableAvoiding(p, s, Cut(p, f))
               PROVE  f \in out[b]
  BY <1>1 DEF Carries
<1> DEFINE W == {c \in p.blocks : f \in out[c]}
<1>4. s \in p.blocks
  BY DEF Successors
<1>5. s \notin Cut(p, f) => s \in W
  BY <1>1, <1>2, <1>3
<1>6. ClosedIn(p, W, Cut(p, f))
  BY <1>2 DEF ClosedIn
<1>7. ReachableAvoiding(p, s, Cut(p, f)) \subseteq W
  <2> HIDE DEF W
  <2> QED
    BY <1>4, <1>5, <1>6, ReachableIs
<1> QED
  BY <1>3, <1>7

(* Going backward, the same.                                               *)
LEMMA WaysBackward ==
  ASSUME NEW p, IsFiniteSet(p.blocks), NEW b \in p.blocks, NEW f
  PROVE  ComesFrom(p, b, f) <=>
            \/ Makes(p, b, f)
            \/ b \notin Cut(p, f) /\ \E s \in Successors(p, b) : ComesFrom(p, s, f)
<1> DEFINE C == Cut(p, f)
<1>1. Successors(p, b) \subseteq p.blocks
  BY DEF Successors
<1>2. \A c \in p.blocks : \A K : ReachableAvoiding(p, c, K) \subseteq p.blocks \ K
  BY ReachableIs
<1>3. \A K : b \notin K => \A m :
         m \in ReachableAvoiding(p, b, K)
            <=> m = b \/ \E s \in Successors(p, b) : m \in ReachableAvoiding(p, s, K)
  BY FirstStep
<1>4. \A K : ReachableAvoiding(p, b, K) # {} => b \notin K
  <2> SUFFICES ASSUME NEW K, b \in K PROVE ReachableAvoiding(p, b, K) = {}
    OBVIOUS
  <2>1. ClosedIn(p, {}, K)
    BY DEF ClosedIn
  <2>2. ReachableAvoiding(p, b, K) \subseteq {}
    BY <2>1, ReachableIs
  <2> QED
    BY <2>2
<1> HIDE DEF C
<1>5. ASSUME NEW m \in p.blocks, Makes(p, m, f), m \in ReachableAvoiding(p, b, C \ {m}), m # b
      PROVE  b \notin C /\ \E s \in Successors(p, b) : ComesFrom(p, s, f)
  <2>1. b \notin C \ {m}
    BY <1>4, <1>5
  <2>2. PICK s \in Successors(p, b) : m \in ReachableAvoiding(p, s, C \ {m})
    BY <1>3, <1>5, <2>1
  <2>3. ComesFrom(p, s, f)
    BY <1>5, <2>2 DEF ComesFrom, C
  <2> QED
    BY <1>5, <2>1, <2>3
<1>6. ASSUME b \notin C, NEW s \in Successors(p, b), ComesFrom(p, s, f)
      PROVE  ComesFrom(p, b, f)
  <2>1. PICK m \in p.blocks : Makes(p, m, f) /\ m \in ReachableAvoiding(p, s, C \ {m})
    BY <1>6 DEF ComesFrom, C
  <2>2. m \in ReachableAvoiding(p, b, C \ {m})
    BY <1>3, <1>6, <2>1
  <2> QED
    BY <2>1, <2>2 DEF ComesFrom, C
<1>7. ASSUME Makes(p, b, f) PROVE ComesFrom(p, b, f)
  <2>1. b \in ReachableAvoiding(p, b, C \ {b})
    BY <1>3
  <2> QED
    BY <1>7, <2>1 DEF ComesFrom, C
<1>8. ASSUME ComesFrom(p, b, f)
      PROVE  \/ Makes(p, b, f)
             \/ b \notin C /\ \E s \in Successors(p, b) : ComesFrom(p, s, f)
  <2>1. PICK m \in p.blocks : Makes(p, m, f) /\ m \in ReachableAvoiding(p, b, C \ {m})
    BY <1>8 DEF ComesFrom, C
  <2> QED
    BY <1>5, <2>1
<1> QED
  BY <1>6, <1>7, <1>8 DEF C

(* Going backward, no solution is below the ways either.                   *)
LEMMA BackwardLeast ==
  ASSUME NEW p, IsFiniteSet(p.blocks), NEW F, NEW in, NEW out, Balanced(p, F, in, out),
         ~p.forward, NEW b \in p.blocks, NEW f \in F, ComesFrom(p, b, f)
  PROVE  f \in out[b]
<1>1. PICK m \in p.blocks : Makes(p, m, f) /\ m \in ReachableAvoiding(p, b, Cut(p, f) \ {m})
  BY DEF ComesFrom
<1> DEFINE K == Cut(p, f) \ {m}
           R == ReachableAvoiding(p, b, K)
           W == {c \in R : f \notin out[c]}
<1>2. /\ R \subseteq p.blocks \ K
      /\ b \notin K => b \in R
      /\ ClosedIn(p, R, K)
      /\ \A V : (b \notin K => b \in V) /\ ClosedIn(p, V, K) => R \subseteq V
  <2> HIDE DEF K
  <2> QED
    BY ReachableIs
<1>3. SUFFICES ASSUME f \notin out[b] PROVE FALSE
  OBVIOUS
<1>4. f \in out[m]
  BY <1>1 DEF Balanced
<1>5. ASSUME NEW c \in p.blocks, c \notin Cut(p, f), NEW z \in Successors(p, c), f \in out[z]
      PROVE  f \in out[c]
  <2>1. z \in Sources(p, c)
    BY DEF Sources
  <2> QED
    BY <1>5, <2>1 DEF Balanced
<1>6. ClosedIn(p, W, K)
  <2> SUFFICES ASSUME NEW y \in W, NEW z \in Successors(p, y) \ K PROVE z \in W
    BY DEF ClosedIn
  <2>1. y \in p.blocks /\ y \notin K /\ f \notin out[y]
    BY <1>2
  <2>2. y # m
    BY <1>4, <2>1
  <2>3. y \notin Cut(p, f)
    BY <2>1, <2>2
  <2>4. z \in R
    BY <1>2 DEF ClosedIn
  <2>5. f \notin out[z]
    BY <1>5, <2>1, <2>3
  <2> QED
    BY <2>4, <2>5
<1>7. R \subseteq W
  <2>1. b \notin K => b \in W
    BY <1>2, <1>3
  <2> HIDE DEF W, R, K
  <2> QED
    BY <1>2, <1>6, <2>1
<1>8. m \in R
  BY <1>1
<1> QED
  BY <1>4, <1>7, <1>8

(* A block as the solver treats it, fact by fact, and as a whole.          *)
LEMMA TransferIs ==
  ASSUME NEW p \in Problems, NEW b \in p.blocks, NEW s \in SUBSET Facts(p)
  PROVE  /\ Transfer(p, b, s) = FlowTransfer(p, b, s)
         /\ \A f : f \in Transfer(p, b, s)
                      <=> Makes(p, b, f) \/ (f \in s /\ b \notin Cut(p, f))
         /\ \A f : Makes(p, b, f) => f \in Facts(p)
<1>1. IsAnalysis(p)
  BY AnalysesAssumption DEF IsAnalysis
<1>2. /\ Generated(p, b) = FlowTransfer(p, b, {})
      /\ \A f \in Facts(p) : Kept(p, b, f) = FlowTransfer(p, b, {f})
  BY AnalysesAssumption DEF FlowGenerated, FlowKept
<1>3. Generated(p, b) \subseteq Facts(p)
  BY ProblemsAssumption
<1>4. \A t, f : f \in FlowTransfer(p, b, t) <=> Makes(p, b, f) \/ (f \in t /\ b \notin Cut(p, f))
  BY <1>1, FlowTransferIs
<1>5. ASSUME NEW f
      PROVE  f \in Transfer(p, b, s) <=> Makes(p, b, f) \/ (f \in s /\ b \notin Cut(p, f))
  <2>1. f \in Generated(p, b) <=> Makes(p, b, f)
    BY <1>2, <1>4
  <2>2. ASSUME NEW e \in s
        PROVE  f \in Kept(p, b, e) <=> Makes(p, b, f) \/ (f = e /\ b \notin Cut(p, f))
    <3>1. Kept(p, b, e) = FlowTransfer(p, b, {e})
      BY <1>2
    <3>2. f \in {e} <=> f = e
      OBVIOUS
    <3> QED
      BY <1>4, <3>1, <3>2
  <2>3. f \in Transfer(p, b, s) <=> f \in Generated(p, b) \/ \E e \in s : f \in Kept(p, b, e)
    BY DEF Transfer
  <2> QED
    BY <2>1, <2>2, <2>3
<1>6. Transfer(p, b, s) = FlowTransfer(p, b, s)
  <2>1. \A f : f \in Transfer(p, b, s) <=> f \in FlowTransfer(p, b, s)
    BY <1>4, <1>5
  <2>2. FlowTransfer(p, b, s) = Generated(p, b) \cup (FlowTransfer(p, b, s))
    BY <1>2, <1>4
  <2> QED
    BY <2>1, <2>2 DEF Transfer
<1>7. \A f : Makes(p, b, f) => f \in Facts(p)
  BY <1>2, <1>3, <1>4
<1> QED
  BY <1>5, <1>6, <1>7

(* The equations of the solver are those of Balanced.                      *)
LEMMA BalancedSolves ==
  ASSUME NEW p \in Problems, NEW in \in [p.blocks -> SUBSET Facts(p)],
         NEW out \in [p.blocks -> SUBSET Facts(p)]
  PROVE  IsSolution(p, in, out) <=> Balanced(p, Facts(p), in, out)
<1>1. ASSUME NEW b \in p.blocks
      PROVE  /\ Incoming(p, b, out) \subseteq Facts(p)
             /\ \A f : f \in Incoming(p, b, out) <=> \E a \in Sources(p, b) : f \in out[a]
  <2>1. Initial(p, b) = {}
    BY AnalysesAssumption DEF Initial
  <2>2. Sources(p, b) \subseteq p.blocks
    BY DEF Sources, Predecessors, Successors
  <2>3. \A f : f \in Incoming(p, b, out) <=> \E a \in Sources(p, b) : f \in out[a]
    BY <2>1 DEF Incoming
  <2>4. \A a \in p.blocks : out[a] \subseteq Facts(p)
    OBVIOUS
  <2>5. Incoming(p, b, out) \subseteq Facts(p)
    BY <2>2, <2>3, <2>4
  <2> QED
    BY <2>3, <2>5
<1>2. ASSUME NEW b \in p.blocks
      PROVE  /\ in[b] \in SUBSET Facts(p) /\ out[b] \in SUBSET Facts(p)
             /\ Transfer(p, b, in[b]) \subseteq Facts(p)
             /\ \A f : f \in Transfer(p, b, in[b])
                         <=> Makes(p, b, f) \/ (f \in in[b] /\ b \notin Cut(p, f))
  <2>1. in[b] \in SUBSET Facts(p) /\ out[b] \in SUBSET Facts(p)
    OBVIOUS
  <2>2. \A f : f \in Transfer(p, b, in[b])
                 <=> Makes(p, b, f) \/ (f \in in[b] /\ b \notin Cut(p, f))
    BY <2>1, TransferIs
  <2>3. \A f : Makes(p, b, f) => f \in Facts(p)
    BY <2>1, TransferIs
  <2> QED
    BY <2>1, <2>2, <2>3
<1>3. ASSUME NEW b \in p.blocks
      PROVE  (in[b] = Incoming(p, b, out) /\ out[b] = Transfer(p, b, in[b]))
               <=> \A f \in Facts(p) :
                     /\ f \in in[b] <=> \E a \in Sources(p, b) : f \in out[a]
                     /\ f \in out[b] <=> Makes(p, b, f) \/ (f \in in[b] /\ b \notin Cut(p, f))
  <2>1. in[b] = Incoming(p, b, out)
           <=> \A f \in Facts(p) : f \in in[b] <=> f \in Incoming(p, b, out)
    BY <1>1, <1>2
  <2>2. out[b] = Transfer(p, b, in[b])
           <=> \A f \in Facts(p) : f \in out[b] <=> f \in Transfer(p, b, in[b])
    BY <1>2
  <2> QED
    BY <1>1, <1>2, <2>1, <2>2
<1> QED
  BY <1>3 DEF IsSolution, Balanced

(* The least solution of a forward analysis is what comes along its ways.  *)
LEMMA ForwardExact ==
  ASSUME NEW p \in Problems, p.forward,
         NEW in \in [p.blocks -> SUBSET Facts(p)], NEW out \in [p.blocks -> SUBSET Facts(p)],
         IsSolution(p, in, out),
         \A x, y \in [p.blocks -> SUBSET Facts(p)] :
             IsSolution(p, x, y) => \A b \in p.blocks : in[b] \subseteq x[b] /\ out[b] \subseteq y[b]
  PROVE  \A b \in p.blocks : in[b] = {f \in Facts(p) : ComesTo(p, b, f)}
<1> DEFINE x == [b \in p.blocks |-> {f \in Facts(p) : ComesTo(p, b, f)}]
           y == [b \in p.blocks |-> {f \in Facts(p) : Carries(p, b, f)}]
<1>1. IsFiniteSet(p.blocks)
  BY AnalysesAssumption
<1>2. x \in [p.blocks -> SUBSET Facts(p)] /\ y \in [p.blocks -> SUBSET Facts(p)]
  OBVIOUS
<1>3. Balanced(p, Facts(p), x, y)
  <2> SUFFICES ASSUME NEW b \in p.blocks, NEW f \in Facts(p)
               PROVE  /\ f \in x[b] <=> \E a \in Sources(p, b) : f \in y[a]
                      /\ f \in y[b] <=> Makes(p, b, f) \/ (f \in x[b] /\ b \notin Cut(p, f))
    BY DEF Balanced
  <2>1. /\ f \in x[b] <=> ComesTo(p, b, f)
        /\ \A a \in p.blocks : f \in y[a] <=> Carries(p, a, f)
    OBVIOUS
  <2>2. Sources(p, b) = Predecessors(p, b) /\ Predecessors(p, b) \subseteq p.blocks
    BY DEF Sources, Predecessors
  <2> HIDE DEF x, y
  <2> QED
    BY <1>1, <2>1, <2>2, WaysForward
<1>4. IsSolution(p, x, y)
  <2> HIDE DEF x, y
  <2> QED
    BY <1>2, <1>3, BalancedSolves
<1>5. ASSUME NEW b \in p.blocks PROVE in[b] \subseteq x[b]
  <2> HIDE DEF x, y
  <2> QED
    BY <1>2, <1>4
<1>6. ASSUME NEW b \in p.blocks, NEW f \in Facts(p), ComesTo(p, b, f) PROVE f \in in[b]
  <2>1. Balanced(p, Facts(p), in, out)
    BY BalancedSolves
  <2>2. PICK a \in Predecessors(p, b) : Carries(p, a, f)
    BY <1>1, <1>6, WaysForward
  <2>3. a \in p.blocks /\ a \in Sources(p, b)
    BY <2>2 DEF Sources, Predecessors
  <2>4. f \in out[a]
    BY <1>1, <2>1, <2>2, <2>3, ForwardLeast
  <2> QED
    BY <2>1, <2>3, <2>4 DEF Balanced
<1> QED
  BY <1>5, <1>6

(* ... and of a backward one.                                              *)
LEMMA BackwardExact ==
  ASSUME NEW p \in Problems, ~p.forward,
         NEW in \in [p.blocks -> SUBSET Facts(p)], NEW out \in [p.blocks -> SUBSET Facts(p)],
         IsSolution(p, in, out),
         \A x, y \in [p.blocks -> SUBSET Facts(p)] :
             IsSolution(p, x, y) => \A b \in p.blocks : in[b] \subseteq x[b] /\ out[b] \subseteq y[b]
  PROVE  \A b \in p.blocks : out[b] = {f \in Facts(p) : ComesFrom(p, b, f)}
<1> DEFINE x == [b \in p.blocks |-> {f \in Facts(p) : \E s \in Successors(p, b) : ComesFrom(p, s, f)}]
           y == [b \in p.blocks |-> {f \in Facts(p) : ComesFrom(p, b, f)}]
<1>1. IsFiniteSet(p.blocks)
  BY AnalysesAssumption
<1>2. x \in [p.blocks -> SUBSET Facts(p)] /\ y \in [p.blocks -> SUBSET Facts(p)]
  OBVIOUS
<1>3. Balanced(p, Facts(p), x, y)
  <2> SUFFICES ASSUME NEW b \in p.blocks, NEW f \in Facts(p)
               PROVE  /\ f \in x[b] <=> \E a \in Sources(p, b) : f \in y[a]
                      /\ f \in y[b] <=> Makes(p, b, f) \/ (f \in x[b] /\ b \notin Cut(p, f))
    BY DEF Balanced
  <2>1. /\ f \in x[b] <=> \E s \in Successors(p, b) : ComesFrom(p, s, f)
        /\ \A a \in p.blocks : f \in y[a] <=> ComesFrom(p, a, f)
    OBVIOUS
  <2>2. Sources(p, b) = Successors(p, b) /\ Successors(p, b) \subseteq p.blocks
    BY DEF Sources, Successors
  <2> HIDE DEF x, y
  <2> QED
    BY <1>1, <2>1, <2>2, WaysBackward
<1>4. IsSolution(p, x, y)
  <2> HIDE DEF x, y
  <2> QED
    BY <1>2, <1>3, BalancedSolves
<1>5. ASSUME NEW b \in p.blocks PROVE out[b] \subseteq y[b]
  <2> HIDE DEF x, y
  <2> QED
    BY <1>2, <1>4
<1>6. ASSUME NEW b \in p.blocks, NEW f \in Facts(p), ComesFrom(p, b, f) PROVE f \in out[b]
  <2>1. Balanced(p, Facts(p), in, out)
    BY BalancedSolves
  <2> QED
    BY <1>1, <1>6, <2>1, BackwardLeast
<1> QED
  BY <1>5, <1>6

(* What comes to a block is, for the four analyses, what FlowAnalyses says *)
(* by paths.                                                               *)
LEMMA DefinedBeforeIs ==
  ASSUME NEW p \in Problems, p.analysis = "reaching", NEW b \in p.blocks
  PROVE  {f \in Facts(p) : ComesTo(p, b, f)} = DefinedBefore(p, b)
<1>1. IsAnalysis(p) /\ Facts(p) = Values(DefinitionSites(p))
  BY AnalysesAssumption DEF IsAnalysis, FlowFacts
<1>2. ASSUME NEW f, ComesTo(p, b, f) PROVE f \in DefinedBefore(p, b)
  <2>1. PICK m \in p.blocks :
          /\ Makes(p, m, f)
          /\ \E s \in Successors(p, m) : b \in ReachableAvoiding(p, s, Cut(p, f) \ {b})
    BY <1>2 DEF ComesTo
  <2>2. PICK k \in DOMAIN p.code[m] : f \in p.code[m][k].def
    BY <2>1 DEF Makes
  <2>3. Site(m, k, f) \in DefinitionSites(p)
    BY <2>2, DefinitionSiteIs
  <2>4. Site(m, k, f).block = m /\ Site(m, k, f).value = f
    BY SiteHas
  <2>5. Cut(p, f) \ {b} = {}
    BY DEF Cut
  <2>6. \E s \in Successors(p, m) : b \in Reachable(p, s)
    BY <2>1, <2>5 DEF Reachable
  <2> QED
    BY <2>3, <2>4, <2>6 DEF DefinedBefore
<1>3. ASSUME NEW f \in DefinedBefore(p, b) PROVE f \in Facts(p) /\ ComesTo(p, b, f)
  <2>1. PICK d \in DefinitionSites(p) :
          f = d.value /\ \E s \in Successors(p, d.block) : b \in Reachable(p, s)
    BY DEF DefinedBefore
  <2>2. d.block \in p.blocks /\ d.index \in DOMAIN p.code[d.block]
           /\ f \in p.code[d.block][d.index].def
    BY <2>1, SiteRead
  <2>3. Makes(p, d.block, f)
    BY <2>2 DEF Makes
  <2>4. Cut(p, f) \ {b} = {}
    BY DEF Cut
  <2>5. ComesTo(p, b, f)
    BY <2>1, <2>2, <2>3, <2>4 DEF ComesTo, Reachable
  <2>6. f \in Values(DefinitionSites(p))
    BY <2>1 DEF Values
  <2> QED
    BY <1>1, <2>5, <2>6
<1> QED
  BY <1>2, <1>3

(* ... the full reaching definitions,                                      *)
LEMMA SitesReachingIs ==
  ASSUME NEW p \in Problems, p.analysis = "sites", NEW b \in p.blocks
  PROVE  {f \in Facts(p) : ComesTo(p, b, f)} = SitesReaching(p, b)
<1>1. Facts(p) = DefinitionSites(p)
  BY AnalysesAssumption DEF FlowFacts
<1>2. \A f : Cut(p, f) = DefiningBlocks(p, f.value)
  BY DEF Cut, ValueOf
<1>3. \A m, f : Makes(p, m, f) <=> f \in DefinitionSites(p) /\ f.block = m /\ IsLastInBlock(p, f)
  BY DEF Makes
<1>4. \A f \in DefinitionSites(p) : f.block \in p.blocks
  BY SiteRead
<1>5. ASSUME NEW f \in DefinitionSites(p)
      PROVE  ComesTo(p, b, f) <=> IsLastInBlock(p, f) /\ ClearPath(p, f.block, b, f.value)
  BY <1>2, <1>3, <1>4 DEF ComesTo, ClearPath
<1> QED
  BY <1>1, <1>5 DEF SitesReaching

(* ... and the full live variables.                                        *)
LEMMA LiveAtEntryIs ==
  ASSUME NEW p \in Problems, p.analysis = "liveness", NEW b \in p.blocks
  PROVE  {f \in Facts(p) : ComesFrom(p, b, f)} = LiveAtEntry(p, b)
<1>1. IsAnalysis(p) /\ Facts(p) = Values(UseSites(p))
  BY AnalysesAssumption DEF IsAnalysis, FlowFacts
<1>2. \A f : Cut(p, f) = DefiningBlocks(p, f)
  BY DEF Cut, ValueOf
<1>3. ASSUME NEW f, ComesFrom(p, b, f) PROVE f \in LiveAtEntry(p, b)
  <2>1. PICK m \in p.blocks : Makes(p, m, f) /\ m \in ReachableAvoiding(p, b, Cut(p, f) \ {m})
    BY <1>3 DEF ComesFrom
  <2>2. PICK k \in DOMAIN p.code[m] : /\ f \in p.code[m][k].uses
                                      /\ \A j \in 1 .. k - 1 : f \notin p.code[m][j].def
    BY <2>1 DEF Makes
  <2> DEFINE w == Site(m, k, f)
  <2>3. w \in UseSites(p)
    BY <2>2, UseSiteIs
  <2>4. w.block = m /\ w.index = k /\ w.value = f
    BY SiteHas
  <2> HIDE DEF w
  <2>5. IsExposed(p, w)
    BY <2>2, <2>4 DEF IsExposed
  <2> QED
    BY <1>2, <2>1, <2>3, <2>4, <2>5 DEF LiveAtEntry
<1>4. ASSUME NEW f \in LiveAtEntry(p, b) PROVE f \in Facts(p) /\ ComesFrom(p, b, f)
  <2>1. PICK w \in UseSites(p) :
          /\ f = w.value
          /\ IsExposed(p, w)
          /\ w.block \in ReachableAvoiding(p, b, DefiningBlocks(p, w.value) \ {w.block})
    BY DEF LiveAtEntry
  <2>2. w.block \in p.blocks /\ w.index \in DOMAIN p.code[w.block]
           /\ f \in p.code[w.block][w.index].uses
    BY <2>1, SiteRead
  <2>3. Makes(p, w.block, f)
    BY <2>1, <2>2 DEF Makes, IsExposed
  <2>4. ComesFrom(p, b, f)
    BY <1>2, <2>1, <2>2, <2>3 DEF ComesFrom
  <2>5. f \in Values(UseSites(p))
    BY <2>1 DEF Values
  <2> QED
    BY <1>1, <2>4, <2>5
<1> QED
  BY <1>3, <1>4

(* The framework's live variables hold what is live at a block's entry as  *)
(* long as no block reads a value and defines it anew.                     *)
LEMMA LiveMissesNothing ==
  ASSUME NEW p \in Problems, p.analysis = "live", ~RedefinesWhatItRead(p), NEW b \in p.blocks
  PROVE  LiveAtEntry(p, b) \subseteq {f \in Facts(p) : ComesFrom(p, b, f)}
<1>1. IsAnalysis(p) /\ Facts(p) = Values(UseSites(p))
  BY AnalysesAssumption DEF IsAnalysis, FlowFacts
<1>2. \A f : Cut(p, f) = DefiningBlocks(p, f)
  BY DEF Cut, ValueOf
<1> SUFFICES ASSUME NEW f \in LiveAtEntry(p, b) PROVE f \in Facts(p) /\ ComesFrom(p, b, f)
  OBVIOUS
<1>3. PICK w \in UseSites(p) :
        /\ f = w.value
        /\ IsExposed(p, w)
        /\ w.block \in ReachableAvoiding(p, b, DefiningBlocks(p, w.value) \ {w.block})
  BY DEF LiveAtEntry
<1>4. w.block \in p.blocks /\ w.index \in DOMAIN p.code[w.block]
         /\ f \in p.code[w.block][w.index].uses
  BY <1>3, SiteRead
<1>5. ASSUME NEW j \in w.index + 1 .. Len(p.code[w.block])
      PROVE  f \notin p.code[w.block][j].def
  <2> SUFFICES ASSUME f \in p.code[w.block][j].def PROVE FALSE
    OBVIOUS
  <2>1. Len(p.code[w.block]) \in Nat /\ DOMAIN p.code[w.block] = 1 .. Len(p.code[w.block])
    BY <1>1, <1>4, CodeIs
  <2>2. w.index \in Nat /\ w.index >= 1 /\ j \in Nat /\ w.index < j /\ j \in DOMAIN p.code[w.block]
    BY <1>4, <2>1
  <2> DEFINE d == Site(w.block, j, f)
  <2>3. d \in DefinitionSites(p)
    BY <1>4, <2>2, DefinitionSiteIs
  <2>4. d.block = w.block /\ d.index = j /\ d.value = f
    BY SiteHas
  <2> HIDE DEF d
  <2> QED
    BY <1>3, <2>2, <2>3, <2>4 DEF RedefinesWhatItRead
<1>6. Makes(p, w.block, f)
  BY <1>4, <1>5 DEF Makes
<1>7. ComesFrom(p, b, f)
  BY <1>2, <1>3, <1>4, <1>6 DEF ComesFrom
<1>8. f \in Values(UseSites(p))
  BY <1>3 DEF Values
<1> QED
  BY <1>1, <1>7, <1>8

(* A definition is called dead exactly when no use reads it.               *)
LEMMA DeadIs ==
  ASSUME NEW p \in Problems, p.analysis = "liveness", NEW exitLive,
         \A b \in p.blocks : \A v : v \in exitLive[b] <=>
             \E s \in Successors(p, b) : v \in LiveAtEntry(p, s)
  PROVE  DeadDefinitions(p, exitLive) =
            {d \in DefinitionSites(p) : \A u \in UseSites(p) : ~Feeds(p, d, u)}
<1> SUFFICES ASSUME NEW d \in DefinitionSites(p)
             PROVE  d.value \in TransferLiveness(
                        SubSeq(p.code[d.block], d.index + 1, Len(p.code[d.block])),
                        exitLive[d.block])
                      <=> \E u \in UseSites(p) : Feeds(p, d, u)
  BY DEF DeadDefinitions
<1> DEFINE b == d.block
           i == d.index
           v == d.value
           code == p.code[b]
           n == Len(code)
           rest == SubSeq(code, i + 1, n)
<1>1. b \in p.blocks /\ i \in DOMAIN code
  BY SiteRead
<1>2. n \in Nat /\ DOMAIN code = 1 .. n /\ i \in 1 .. n /\ code \in Seq(ToSet(code))
  BY <1>1, AnalysesAssumption, CodeIs DEF IsAnalysis
<1>3. PICK m : m \in Nat /\ m = n - i /\ Len(rest) = m /\ DOMAIN rest = 1 .. m
               /\ \A k \in 1 .. m : rest[k] = code[i + k]
  <2>1. /\ i + 1 \in Int /\ n \in Int
        /\ i + 1 <= n => (n - (i + 1)) + 1 = n - i
        /\ ~(i + 1 <= n) => n - i = 0
        /\ (n - (i + 1)) + 1 = n - i /\ n - i \in Nat
    BY <1>2
  <2>2. \A k \in i + 1 .. n : code[k] \in ToSet(code)
    <3>1. \A k \in i + 1 .. n : k \in 1 .. n
      BY <1>2
    <3> QED
      BY <1>2, <3>1
  <2>3. \A k \in 1 .. n - i : ((i + 1) + k) - 1 = i + k
    BY <1>2
  <2> HIDE DEF i, code, n
  <2>4. /\ SubSeq(code, i + 1, n) \in Seq(ToSet(code))
        /\ Len(SubSeq(code, i + 1, n)) = IF i + 1 <= n THEN (n - (i + 1)) + 1 ELSE 0
        /\ \A k \in 1 .. (n - (i + 1)) + 1 : SubSeq(code, i + 1, n)[k] = code[((i + 1) + k) - 1]
    BY <2>1, <2>2, SubSeqProperties
  <2>5. /\ rest \in Seq(ToSet(code))
        /\ Len(rest) = n - i
        /\ \A k \in 1 .. n - i : rest[k] = code[i + k]
    BY <2>1, <2>3, <2>4
  <2> HIDE DEF rest
  <2> QED
    BY <2>1, <2>5
<1>4. v \in TransferLiveness(rest, exitLive[b]) <=>
        \/ v \in exitLive[b] /\ \A k \in 1 .. m : v \notin rest[k].def
        \/ \E k \in 1 .. m : v \in rest[k].uses /\ \A j \in 1 .. k - 1 : v \notin rest[j].def
  <2> HIDE DEF rest, v
  <2> QED
    BY <1>3, TransferLivenessIs
<1>5. (\A k \in 1 .. m : v \notin rest[k].def) <=> IsLastInBlock(p, d)
  <2>1. \A k \in 1 .. m : i + k \in i + 1 .. n
    BY <1>2, <1>3, SMTT(30)
  <2>2. \A k \in i + 1 .. n : k - i \in 1 .. m /\ i + (k - i) = k
    <3>1. i \in Nat /\ n \in Nat /\ m = n - i
      BY <1>2, <1>3
    <3> HIDE DEF i, n
    <3> QED
      BY ONLY <3>1
  <2>3. IsLastInBlock(p, d) <=> \A k \in i + 1 .. n : v \notin code[k].def
    BY DEF IsLastInBlock
  <2>4. \A k \in 1 .. m : rest[k] = code[i + k]
    BY <1>3
  <2> HIDE DEF i, v, code, n, rest
  <2>5. (\A k \in 1 .. m : v \notin rest[k].def) <=> \A k \in i + 1 .. n : v \notin code[k].def
    BY ONLY <2>1, <2>2, <2>4
  <2> QED
    BY ONLY <2>3, <2>5
<1>6. (\E k \in 1 .. m : v \in rest[k].uses /\ \A j \in 1 .. k - 1 : v \notin rest[j].def)
        <=> \E u \in UseSites(p) : /\ u.value = v /\ u.block = b /\ i < u.index
                                   /\ \A k \in i + 1 .. u.index - 1 : v \notin code[k].def
  <2> HIDE DEF i, v, n, rest, b
  <2>1. ASSUME NEW k \in 1 .. m, v \in rest[k].uses, \A j \in 1 .. k - 1 : v \notin rest[j].def
        PROVE  \E u \in UseSites(p) : /\ u.value = v /\ u.block = b /\ i < u.index
                                      /\ \A j \in i + 1 .. u.index - 1 : v \notin code[j].def
    <3>1. i + k \in DOMAIN code /\ i < i + k /\ rest[k] = code[i + k]
      BY <1>2, <1>3
    <3> DEFINE u == Site(b, i + k, v)
    <3>2. u \in UseSites(p)
      BY <1>1, <2>1, <3>1, UseSiteIs
    <3>3. u.block = b /\ u.index = i + k /\ u.value = v
      BY SiteHas
    <3>4. \A j \in i + 1 .. (i + k) - 1 : j - i \in 1 .. k - 1 /\ j - i \in 1 .. m /\ i + (j - i) = j
      BY <1>2, <1>3
    <3>5. \A j \in i + 1 .. (i + k) - 1 : v \notin code[j].def
      BY <1>3, <2>1, <3>4
    <3> HIDE DEF u
    <3> QED
      BY <3>1, <3>2, <3>3, <3>5
  <2>2. ASSUME NEW u \in UseSites(p), u.value = v, u.block = b, i < u.index,
               \A k \in i + 1 .. u.index - 1 : v \notin code[k].def
        PROVE  \E k \in 1 .. m : v \in rest[k].uses /\ \A j \in 1 .. k - 1 : v \notin rest[j].def
    <3>1. u.index \in 1 .. n /\ v \in code[u.index].uses
      BY <1>2, <2>2, SiteRead
    <3>2. PICK k : k \in 1 .. m /\ i + k = u.index
      <4>1. u.index - i \in 1 .. m /\ i + (u.index - i) = u.index
        BY <1>2, <1>3, <2>2, <3>1
      <4> QED
        BY <4>1
    <3>3. \A j \in 1 .. k - 1 : j \in 1 .. m /\ i + j \in i + 1 .. u.index - 1
      BY <1>2, <1>3, <3>1, <3>2
    <3>4. \A j \in 1 .. k - 1 : v \notin rest[j].def
      BY <1>3, <2>2, <3>3
    <3>5. v \in rest[k].uses
      BY <1>3, <3>1, <3>2
    <3> QED
      BY <3>2, <3>4, <3>5
  <2> QED
    BY <2>1, <2>2
<1>7. v \in exitLive[b] <=>
        \E u \in UseSites(p) : u.value = v /\ IsExposed(p, u) /\ ClearPath(p, b, u.block, v)
  <2>1. v \in exitLive[b] <=> \E s \in Successors(p, b) : v \in LiveAtEntry(p, s)
    BY <1>1
  <2>2. \A s : v \in LiveAtEntry(p, s) <=>
          \E u \in UseSites(p) : /\ v = u.value
                                 /\ IsExposed(p, u)
                                 /\ u.block \in ReachableAvoiding(p, s, DefiningBlocks(p, u.value) \ {u.block})
    BY DEF LiveAtEntry
  <2> HIDE DEF v, b
  <2> QED
    BY <2>1, <2>2 DEF ClearPath
<1>8. ASSUME NEW u \in UseSites(p)
      PROVE  Feeds(p, d, u) <=>
               \/ /\ u.value = v /\ u.block = b /\ i < u.index
                  /\ \A k \in i + 1 .. u.index - 1 : v \notin code[k].def
               \/ /\ IsLastInBlock(p, d)
                  /\ u.value = v /\ IsExposed(p, u) /\ ClearPath(p, b, u.block, v)
  BY DEF Feeds
<1> HIDE DEF b, i, v, code, n, rest
<1>9. v \in TransferLiveness(rest, exitLive[b]) <=> \E u \in UseSites(p) : Feeds(p, d, u)
  BY <1>4, <1>5, <1>6, <1>7, <1>8
<1> QED
  BY <1>9 DEF b, i, v, code, n, rest

(* The least solution of each of the four analyses is what FlowResults     *)
(* says of it.                                                             *)
LEMMA LeastIsExact ==
  ASSUME NEW p \in Problems,
         NEW in \in [p.blocks -> SUBSET Facts(p)], NEW out \in [p.blocks -> SUBSET Facts(p)],
         IsSolution(p, in, out),
         \A x, y \in [p.blocks -> SUBSET Facts(p)] :
             IsSolution(p, x, y) => \A b \in p.blocks : in[b] \subseteq x[b] /\ out[b] \subseteq y[b]
  PROVE  /\ \A b \in p.blocks : out[b] = FlowTransfer(p, b, in[b])
         /\ p.analysis = "reaching" => \A b \in p.blocks : in[b] = DefinedBefore(p, b)
         /\ p.analysis = "sites" => \A b \in p.blocks : in[b] = SitesReaching(p, b)
         /\ p.analysis = "liveness" =>
               /\ \A b \in p.blocks : out[b] = LiveAtEntry(p, b)
               /\ DeadDefinitions(p, in) =
                     {d \in DefinitionSites(p) : \A u \in UseSites(p) : ~Feeds(p, d, u)}
         /\ p.analysis = "live" /\ ~RedefinesWhatItRead(p) =>
               \A b \in p.blocks : LiveAtEntry(p, b) \subseteq out[b]
<1>1. \A b \in p.blocks : out[b] = FlowTransfer(p, b, in[b])
  <2> SUFFICES ASSUME NEW b \in p.blocks PROVE out[b] = FlowTransfer(p, b, in[b])
    OBVIOUS
  <2>1. in[b] \in SUBSET Facts(p)
    OBVIOUS
  <2> QED
    BY <2>1, TransferIs DEF IsSolution
<1>2. /\ p.forward = IsForward(p.analysis)
      /\ p.analysis \in {"reaching", "sites"} => p.forward
      /\ p.analysis \in {"live", "liveness"} => ~p.forward
  BY AnalysesAssumption DEF IsForward
<1>3. ASSUME p.forward PROVE \A b \in p.blocks : in[b] = {f \in Facts(p) : ComesTo(p, b, f)}
  BY <1>3, ForwardExact
<1>4. ASSUME ~p.forward PROVE \A b \in p.blocks : out[b] = {f \in Facts(p) : ComesFrom(p, b, f)}
  BY <1>4, BackwardExact
<1>5. ASSUME p.analysis = "reaching" PROVE \A b \in p.blocks : in[b] = DefinedBefore(p, b)
  BY <1>2, <1>3, <1>5, DefinedBeforeIs
<1>6. ASSUME p.analysis = "sites" PROVE \A b \in p.blocks : in[b] = SitesReaching(p, b)
  BY <1>2, <1>3, <1>6, SitesReachingIs
<1>7. ASSUME p.analysis = "liveness"
      PROVE  /\ \A b \in p.blocks : out[b] = LiveAtEntry(p, b)
             /\ DeadDefinitions(p, in) =
                   {d \in DefinitionSites(p) : \A u \in UseSites(p) : ~Feeds(p, d, u)}
  <2>1. \A b \in p.blocks : out[b] = LiveAtEntry(p, b)
    BY <1>2, <1>4, <1>7, LiveAtEntryIs
  <2>2. Balanced(p, Facts(p), in, out)
    BY BalancedSolves
  <2>3. ASSUME NEW b \in p.blocks, NEW v
        PROVE  v \in in[b] <=> \E s \in Successors(p, b) : v \in LiveAtEntry(p, s)
    <3>1. Successors(p, b) \subseteq p.blocks /\ Sources(p, b) = Successors(p, b)
      BY <1>2, <1>7 DEF Sources, Successors
    <3>2. in[b] \subseteq Facts(p) /\ \A s \in p.blocks : out[s] \subseteq Facts(p)
      OBVIOUS
    <3>3. v \in Facts(p) => (v \in in[b] <=> \E s \in Successors(p, b) : v \in out[s])
      BY <2>2, <3>1 DEF Balanced
    <3> QED
      BY <2>1, <3>1, <3>2, <3>3
  <2> QED
    BY <1>7, <2>1, <2>3, DeadIs
<1>8. ASSUME p.analysis = "live", ~RedefinesWhatItRead(p)
      PROVE  \A b \in p.blocks : LiveAtEntry(p, b) \subseteq out[b]
  BY <1>2, <1>4, <1>8, LiveMissesNothing
<1> QED
  BY <1>1, <1>5, <1>6, <1>7, <1>8

(* What converged reaching definitions say is what the paths say.          *)
THEOREM DefinitionsFound == FlowSpec => []DefinitionsExact
  <1>1. FlowInv /\ LeastSolution => DefinitionsExact
    <2>. SUFFICES ASSUME FlowInv, LeastSolution, stage = "converged"
                  PROVE  DefinitionsExact
      BY DEF DefinitionsExact, Converged
    <2>1. /\ problem \in Problems
          /\ before \in [problem.blocks -> SUBSET Facts(problem)]
          /\ after \in [problem.blocks -> SUBSET Facts(problem)]
          /\ IsSolution(problem, before, after)
      BY DEF FlowInv, FlowTypeOK, ConvergedIsSolved
    <2>2. \A x, y \in [problem.blocks -> SUBSET Facts(problem)] :
             IsSolution(problem, x, y) =>
                 \A b \in problem.blocks : before[b] \subseteq x[b] /\ after[b] \subseteq y[b]
      BY DEF LeastSolution
    <2>3. /\ \A b \in problem.blocks : after[b] = FlowTransfer(problem, b, before[b])
          /\ problem.analysis = "reaching" =>
                \A b \in problem.blocks : before[b] = DefinedBefore(problem, b)
          /\ problem.analysis = "sites" =>
                \A b \in problem.blocks : before[b] = SitesReaching(problem, b)
      BY <2>1, <2>2, LeastIsExact
    <2>. QED
      BY <2>3 DEF DefinitionsExact, Converged, SolvedByInstructions
  <1>. QED
    BY <1>1, FlowInvariant, Precision, PTL

(* ... and so is what converged live variables and the search for dead     *)
(* definitions say.                                                        *)
THEOREM LivenessFound == FlowSpec => []LivenessExact
  <1>1. FlowInv /\ LeastSolution => LivenessExact
    <2>. SUFFICES ASSUME FlowInv, LeastSolution, stage = "converged"
                  PROVE  LivenessExact
      BY DEF LivenessExact, Converged
    <2>1. /\ problem \in Problems
          /\ before \in [problem.blocks -> SUBSET Facts(problem)]
          /\ after \in [problem.blocks -> SUBSET Facts(problem)]
          /\ IsSolution(problem, before, after)
      BY DEF FlowInv, FlowTypeOK, ConvergedIsSolved
    <2>2. \A x, y \in [problem.blocks -> SUBSET Facts(problem)] :
             IsSolution(problem, x, y) =>
                 \A b \in problem.blocks : before[b] \subseteq x[b] /\ after[b] \subseteq y[b]
      BY DEF LeastSolution
    <2>3. /\ \A b \in problem.blocks : after[b] = FlowTransfer(problem, b, before[b])
          /\ problem.analysis = "liveness" =>
                /\ \A b \in problem.blocks : after[b] = LiveAtEntry(problem, b)
                /\ DeadDefinitions(problem, before) =
                      {d \in DefinitionSites(problem) :
                          \A u \in UseSites(problem) : ~Feeds(problem, d, u)}
          /\ problem.analysis = "live" /\ ~RedefinesWhatItRead(problem) =>
                \A b \in problem.blocks : LiveAtEntry(problem, b) \subseteq after[b]
      BY <2>1, <2>2, LeastIsExact
    <2>. QED
      BY <2>3 DEF LivenessExact, Converged, SolvedByInstructions
  <1>. QED
    BY <1>1, FlowInvariant, Precision, PTL

-----------------------------------------------------------------------------
(***************************************************************************)
(* Proofs about the suites of analyses a graph goes through, for every     *)
(* graph and every hash order.                                             *)
(*                                                                         *)
(* The inductive invariant is SuiteInv: every result is one of the         *)
(* suite's problem over the graph at work, and is its least solution if    *)
(* the solver converged.  A problem says the same of definitions, uses and *)
(* paths as the graph its analysis reads (SameNotions); least solutions    *)
(* are unique (LeastIsUnique) and exact (LeastIsExact).                    *)
(***************************************************************************)

(* in and out are the least states that solve the equations of p.          *)
IsLeast(p, in, out) ==
    /\ IsSolution(p, in, out)
    /\ \A x, y \in [p.blocks -> SUBSET Facts(p)] :
          IsSolution(p, x, y) =>
              \A b \in p.blocks : in[b] \subseteq x[b] /\ out[b] \subseteq y[b]

(* What the solver may return for p, converged or not.                     *)
Results(p) ==
    [before : [p.blocks -> SUBSET Facts(p)],
     after : [p.blocks -> SUBSET Facts(p)],
     converged : BOOLEAN]

(* r is what the solver says of p.                                         *)
Answers(p, r) ==
    /\ p \in Problems
    /\ r \in Results(p)
    /\ r.converged => IsLeast(p, r.before, r.after)

AllResults == UNION {Results(p) : p \in Problems}

SuiteInv ==
    /\ FlowInv
    /\ suite \in {"engine", "full"}
    /\ saved \in Seq(AllResults)
    /\ Len(saved) <= Len(Analyses(suite))
    /\ \A i \in 1 .. Len(saved) : Answers(SuiteProblem(i), saved[i])
    /\ due = "solving" =>
          /\ Len(saved) < Len(Analyses(suite))
          /\ problem = SuiteProblem(Len(saved) + 1)
          /\ stage # "idle"

(* Appending a result.                                                     *)
LEMMA AppendResult ==
  ASSUME NEW S, NEW s \in Seq(S), NEW r \in S
  PROVE  /\ Append(s, r) \in Seq(S)
         /\ Len(Append(s, r)) = Len(s) + 1
         /\ \A i \in 1 .. Len(s) : Append(s, r)[i] = s[i]
         /\ Append(s, r)[Len(s) + 1] = r
  OBVIOUS

(* The solver's steps keep what is known of its problem.                   *)
LEMMA SolverKeeps ==
  ASSUME FlowInv, FlowStep \/ FlowFinish
  PROVE  FlowInv' /\ problem' = problem /\ stage' # "idle"
<1>1. FlowInv'
  BY StepKeeps, FinishKeeps
<1>2. problem' = problem /\ stage' # "idle"
  BY DEF FlowStep, FlowFinish
<1> QED
  BY <1>1, <1>2

(* A solver that stands still keeps its invariant.                         *)
LEMMA SolverStands ==
  ASSUME FlowInv, UNCHANGED flowVars
  PROVE  FlowInv'
  BY DEF flowVars, FlowInv, FlowTypeOK, BoundaryKept, WorklistCovers,
         ConvergedIsSolved, BelowEverySolution

(* A suite has analyses.                                                   *)
LEMMA AnalysesLength ==
  ASSUME NEW s
  PROVE  Len(Analyses(s)) \in Nat
<1>1. Len(<<"reaching", "live", "reaching", "live">>) = 4 /\ Len(<<"sites", "liveness">>) = 2
  OBVIOUS
<1> QED
  BY <1>1 DEF Analyses

(* A suite that has not begun has no results.                             *)
LEMMA InitSuite == SuiteInit => SuiteInv
<1> SUFFICES ASSUME SuiteInit PROVE SuiteInv
  OBVIOUS
<1>1. FlowInv
  BY InitInv DEF SuiteInit
<1>2. Len(<< >>) = 0 /\ << >> \in Seq(AllResults) /\ 1 .. 0 = {}
  OBVIOUS
<1> QED
  BY <1>1, <1>2, AnalysesLength DEF SuiteInit, SuiteInv

(* Every step of a suite keeps the invariant.                              *)
LEMMA SuiteKeeps == SuiteInv /\ [SuiteNext]_<<suiteVars, flowVars>> => SuiteInv'
<1> SUFFICES ASSUME SuiteInv, [SuiteNext]_<<suiteVars, flowVars>> PROVE SuiteInv'
  OBVIOUS
<1>0. Len(saved) \in Nat /\ Len(Analyses(suite)) \in Nat
  BY AnalysesLength DEF SuiteInv
<1>1. ASSUME NEW g, TakeGraph(g) PROVE SuiteInv'
  <2>1. FlowInv'
    BY <1>1, SolverStands DEF SuiteInv, TakeGraph
  <2>2. Len(<< >>) = 0 /\ << >> \in Seq(AllResults) /\ 1 .. 0 = {}
    OBVIOUS
  <2>3. suite' = suite /\ saved' = << >> /\ due' # "solving"
    BY <1>1 DEF TakeGraph
  <2> QED
    BY <1>0, <2>1, <2>2, <2>3 DEF SuiteInv
<1>2. CASE Beside \/ UNCHANGED <<suiteVars, flowVars>>
  <2>1. FlowInv'
    BY <1>2, SolverStands DEF SuiteInv, Beside
  <2>2. suite' = suite /\ graph' = graph /\ saved' = saved
    BY <1>2 DEF Beside, suiteVars
  <2>3. due' = "solving" => due = "solving" /\ problem' = problem /\ stage' = stage
    BY <1>2 DEF Beside, suiteVars, flowVars
  <2> QED
    BY <2>1, <2>2, <2>3 DEF SuiteInv, SuiteProblem
<1>3. CASE Solve /\ problem' \in Problems
  <2> DEFINE p == SuiteProblem(Len(saved) + 1)
  <2>1. problem' = p /\ stage' = "running" /\ FlowStart(p)
    BY <1>3 DEF Solve, FlowStart
  <2>2. FlowInv'
    <3>1. p \in Problems
      BY <1>3, <2>1
    <3> HIDE DEF p
    <3> QED
      BY <2>1, <3>1, StartKeeps DEF SuiteInv
  <2>3. suite' = suite /\ graph' = graph /\ saved' = saved /\ Len(saved) < Len(Analyses(suite))
    BY <1>3 DEF Solve
  <2> QED
    BY <2>1, <2>2, <2>3 DEF SuiteInv, SuiteProblem
<1>4. CASE Solving
  <2>1. FlowInv' /\ problem' = problem /\ stage' # "idle"
    BY <1>4, SolverKeeps DEF Solving, SuiteInv
  <2>2. suite' = suite /\ graph' = graph /\ saved' = saved /\ due' = due
    BY <1>4 DEF Solving, suiteVars
  <2> QED
    BY <2>1, <2>2 DEF SuiteInv, SuiteProblem
<1>5. CASE Solved
  <2> DEFINE r == [before |-> before, after |-> after, converged |-> stage = "converged"]
  <2>1. FlowInv'
    BY <1>5, SolverStands DEF SuiteInv, Solved
  <2>2. /\ suite' = suite /\ graph' = graph /\ due' = "solve"
        /\ saved' = Append(saved, r)
        /\ Len(saved) < Len(Analyses(suite))
        /\ problem = SuiteProblem(Len(saved) + 1)
    BY <1>5 DEF Solved, SuiteInv
  <2>3. problem \in Problems /\ r \in Results(problem)
    BY DEF SuiteInv, FlowInv, FlowTypeOK, Results
  <2>4. r.converged => IsLeast(problem, r.before, r.after)
    <3> SUFFICES ASSUME stage = "converged" PROVE IsLeast(problem, before, after)
      OBVIOUS
    <3>1. IsSolution(problem, before, after)
      BY DEF SuiteInv, FlowInv, ConvergedIsSolved
    <3>2. LeastSolution
      BY LeastWhenConverged DEF SuiteInv
    <3> QED
      BY <3>1, <3>2 DEF IsLeast, LeastSolution
  <2>5. Answers(problem, r)
    BY <2>3, <2>4 DEF Answers
  <2>6. r \in AllResults /\ saved \in Seq(AllResults)
    BY <2>3 DEF AllResults, SuiteInv
  <2> HIDE DEF r
  <2>7. /\ saved' \in Seq(AllResults)
        /\ Len(saved') = Len(saved) + 1
        /\ \A i \in 1 .. Len(saved) : saved'[i] = saved[i]
        /\ saved'[Len(saved) + 1] = r
    BY <2>2, <2>6, AppendResult
  <2>8. \A i \in 1 .. Len(saved) + 1 : i \in 1 .. Len(saved) \/ i = Len(saved) + 1
    BY <1>0
  <2>9. \A i \in 1 .. Len(saved') : Answers(SuiteProblem(i)', saved'[i])
    <3> SUFFICES ASSUME NEW i \in 1 .. Len(saved') PROVE Answers(SuiteProblem(i)', saved'[i])
      OBVIOUS
    <3>1. SuiteProblem(i)' = SuiteProblem(i)
      BY <2>2 DEF SuiteProblem
    <3>2. CASE i \in 1 .. Len(saved)
      BY <2>7, <3>1, <3>2 DEF SuiteInv
    <3>3. CASE i = Len(saved) + 1
      BY <2>2, <2>5, <2>7, <3>1, <3>3
    <3> QED
      BY <2>7, <2>8, <3>2, <3>3
  <2>10. Len(saved') <= Len(Analyses(suite'))
    BY <1>0, <2>2, <2>7
  <2> QED
    BY <2>1, <2>2, <2>7, <2>9, <2>10 DEF SuiteInv
<1> QED
  BY <1>1, <1>2, <1>3, <1>4, <1>5 DEF SuiteNext, Analyse

(* Every result saved is one of the suite's problem over the graph at      *)
(* work, and the least solution if the solver converged.                   *)
THEOREM SuiteInvariant == SuiteSpec => []SuiteInv
<1>1. SuiteInit => SuiteInv
  BY InitSuite
<1>2. SuiteInv /\ [SuiteNext]_<<suiteVars, flowVars>> => SuiteInv'
  BY SuiteKeeps
<1> QED
  BY <1>1, <1>2, PTL DEF SuiteSpec

(* Two least solutions are the same.                                       *)
LEMMA LeastIsUnique ==
  ASSUME NEW p, NEW r, NEW q, Answers(p, r), Answers(p, q), r.converged, q.converged
  PROVE  r = q
<1> DEFINE F == [p.blocks -> SUBSET Facts(p)]
<1>1. /\ r = [before |-> r.before, after |-> r.after, converged |-> r.converged]
      /\ q = [before |-> q.before, after |-> q.after, converged |-> q.converged]
      /\ r.before \in F /\ r.after \in F /\ q.before \in F /\ q.after \in F
      /\ r.converged \in BOOLEAN /\ q.converged \in BOOLEAN
  BY DEF Answers, Results
<1>2. IsLeast(p, r.before, r.after) /\ IsLeast(p, q.before, q.after)
  BY DEF Answers
<1>3. \A b \in p.blocks : r.before[b] = q.before[b] /\ r.after[b] = q.after[b]
  <2> SUFFICES ASSUME NEW b \in p.blocks PROVE r.before[b] = q.before[b] /\ r.after[b] = q.after[b]
    OBVIOUS
  <2>1. r.before[b] \subseteq q.before[b] /\ r.after[b] \subseteq q.after[b]
    BY <1>1, <1>2 DEF IsLeast
  <2>2. q.before[b] \subseteq r.before[b] /\ q.after[b] \subseteq r.after[b]
    BY <1>1, <1>2 DEF IsLeast
  <2> QED
    BY <2>1, <2>2
<1>4. r.before = q.before /\ r.after = q.after
  BY <1>1, <1>3
<1>5. r.converged = q.converged
  BY <1>1
<1> QED
  BY <1>1, <1>4, <1>5

(* Two graphs with the same blocks and edges have the same ways.           *)
LEMMA ReachableSame ==
  ASSUME NEW p, NEW g, p.blocks = g.blocks, p.edges = g.edges, IsFiniteSet(p.blocks),
         NEW b \in p.blocks, NEW cut
  PROVE  ReachableAvoiding(p, b, cut) = ReachableAvoiding(g, b, cut)
<1> DEFINE R == ReachableAvoiding(p, b, cut)
           T == ReachableAvoiding(g, b, cut)
<1>1. \A W : ClosedIn(p, W, cut) <=> ClosedIn(g, W, cut)
  BY DEF ClosedIn, Successors
<1>2. /\ b \notin cut => b \in R
      /\ ClosedIn(p, R, cut)
      /\ \A W : (b \notin cut => b \in W) /\ ClosedIn(p, W, cut) => R \subseteq W
  BY ReachableIs
<1>3. /\ b \notin cut => b \in T
      /\ ClosedIn(g, T, cut)
      /\ \A W : (b \notin cut => b \in W) /\ ClosedIn(g, W, cut) => T \subseteq W
  <2>1. b \in g.blocks /\ IsFiniteSet(g.blocks)
    OBVIOUS
  <2> QED
    BY ONLY <2>1, ReachableIs
<1> HIDE DEF R, T
<1>4. R \subseteq T /\ T \subseteq R
  BY <1>1, <1>2, <1>3
<1> QED
  BY <1>4 DEF R, T

(* An analysis reads the blocks and edges a graph has, and the framework's *)
(* read its instructions as they are written.                              *)
LEMMA AsReadIs ==
  ASSUME NEW g, NEW a
  PROVE  /\ AsRead(g, a).blocks = g.blocks /\ AsRead(g, a).edges = g.edges
         /\ a \in {"reaching", "live"} => AsRead(g, a) = g
<1>1. CASE a \in {"reaching", "live"}
  BY <1>1 DEF AsRead
<1>2. CASE a \notin {"reaching", "live"}
  BY <1>2 DEF AsRead
<1> QED
  BY <1>1, <1>2

(* A problem says of definitions, uses and ways what the graph it was made *)
(* from does, as the analysis reads that graph.                            *)
LEMMA SameNotions ==
  ASSUME NEW f, NEW a, NEW exits, FlowProblem(f, a, exits) \in Problems
  PROVE  LET p == FlowProblem(f, a, exits)
             g == AsRead(f, a)
         IN /\ p.blocks = g.blocks /\ p.code = g.code /\ p.analysis = a
            /\ DefinitionSites(p) = DefinitionSites(g)
            /\ UseSites(p) = UseSites(g)
            /\ \A d : IsLastInBlock(p, d) <=> IsLastInBlock(g, d)
            /\ \A u : IsExposed(p, u) <=> IsExposed(g, u)
            /\ \A x \in g.blocks : \A b, v : ClearPath(p, x, b, v) <=> ClearPath(g, x, b, v)
            /\ \A b : DefinedBefore(p, b) = DefinedBefore(g, b)
<1> DEFINE p == FlowProblem(f, a, exits)
           g == AsRead(f, a)
<1>1. p.blocks = g.blocks /\ p.edges = g.edges /\ p.code = g.code /\ p.analysis = a
  BY AsReadIs DEF FlowProblem
<1>2. IsFiniteSet(p.blocks)
  BY AnalysesAssumption
<1> HIDE DEF p, g
<1>3. DefinitionSites(p) = DefinitionSites(g)
  BY <1>1 DEF DefinitionSites
<1>4. UseSites(p) = UseSites(g)
  BY <1>1 DEF UseSites
<1>5. \A d : IsLastInBlock(p, d) <=> IsLastInBlock(g, d)
  BY <1>1 DEF IsLastInBlock
<1>6. \A u : IsExposed(p, u) <=> IsExposed(g, u)
  BY <1>1 DEF IsExposed
<1>7. \A v : DefiningBlocks(p, v) = DefiningBlocks(g, v)
  BY <1>3 DEF DefiningBlocks
<1>8. \A b : Successors(p, b) = Successors(g, b) /\ Successors(p, b) \subseteq p.blocks
  BY <1>1 DEF Successors
<1>9. \A s \in p.blocks : \A cut : ReachableAvoiding(p, s, cut) = ReachableAvoiding(g, s, cut)
  BY <1>1, <1>2, ReachableSame
<1>10. \A x \in g.blocks : \A b, v : ClearPath(p, x, b, v) <=> ClearPath(g, x, b, v)
  <2> SUFFICES ASSUME NEW x \in g.blocks, NEW b, NEW v
               PROVE  ClearPath(p, x, b, v) <=> ClearPath(g, x, b, v)
    OBVIOUS
  <2> DEFINE cut == DefiningBlocks(p, v) \ {b}
  <2>1. cut = DefiningBlocks(g, v) \ {b}
    BY <1>7
  <2> HIDE DEF cut
  <2>2. \A s \in Successors(p, x) : ReachableAvoiding(p, s, cut) = ReachableAvoiding(g, s, cut)
    BY <1>8, <1>9
  <2>3. ClearPath(p, x, b, v) <=> \E s \in Successors(p, x) : b \in ReachableAvoiding(p, s, cut)
    BY DEF ClearPath, cut
  <2>4. ClearPath(g, x, b, v) <=> \E s \in Successors(p, x) : b \in ReachableAvoiding(g, s, cut)
    BY <1>8, <2>1 DEF ClearPath
  <2> QED
    BY <2>2, <2>3, <2>4
<1>11. \A b : DefinedBefore(p, b) = DefinedBefore(g, b)
  <2> SUFFICES ASSUME NEW b PROVE DefinedBefore(p, b) = DefinedBefore(g, b)
    OBVIOUS
  <2>1. \A e : (\E s \in Successors(p, e) : b \in Reachable(p, s))
                 <=> (\E s \in Successors(g, e) : b \in Reachable(g, s))
    BY <1>8, <1>9 DEF Reachable
  <2> DEFINE D == {e \in DefinitionSites(p) : \E s \in Successors(p, e.block) : b \in Reachable(p, s)}
             E == {e \in DefinitionSites(g) : \E s \in Successors(g, e.block) : b \in Reachable(g, s)}
  <2>2. D = E
    BY <1>3, <2>1
  <2>3. DefinedBefore(p, b) = {d.value : d \in D} /\ DefinedBefore(g, b) = {d.value : d \in E}
    BY DEF DefinedBefore
  <2> QED
    BY <2>2, <2>3
<1> QED
  BY <1>1, <1>3, <1>4, <1>5, <1>6, <1>10, <1>11 DEF p, g

(* The links of the uses, when the sites known at a block are those that   *)
(* reach it.                                                               *)
LEMMA LinksAre ==
  ASSUME NEW g, NEW sites,
         \A b \in g.blocks : \A d : d \in sites[b] <=>
             /\ d \in DefinitionSites(g)
             /\ IsLastInBlock(g, d)
             /\ ClearPath(g, d.block, b, d.value),
         \A b \in g.blocks : g.code[b] \in Seq(ToSet(g.code[b])),
         NEW u \in UseSites(g)
  PROVE  LET fed == {d \in DefinitionSites(g) : Feeds(g, d, u)}
         IN /\ IsExposed(g, u) =>
                  {d \in DefinitionSites(g) : <<d, u>> \in DefUseLinks(g, sites)} = fed
            /\ <<u.block, u.value>> \in UninitializedUses(g, sites) =>
                  \A d \in fed : d.block = u.block /\ d.index < u.index
<1>1. u.block \in g.blocks /\ u.index \in DOMAIN g.code[u.block]
  BY SiteRead
<1>2. \A d : d \in LinkedDefinitions(sites, u) <=>
                /\ d \in DefinitionSites(g)
                /\ d.value = u.value
                /\ IsLastInBlock(g, d)
                /\ ClearPath(g, d.block, u.block, d.value)
  BY <1>1 DEF LinkedDefinitions
<1>3. \A d : <<d, u>> \in DefUseLinks(g, sites) <=> d \in LinkedDefinitions(sites, u)
  <2> SUFFICES ASSUME NEW d
               PROVE  <<d, u>> \in DefUseLinks(g, sites) <=> d \in LinkedDefinitions(sites, u)
    OBVIOUS
  <2>1. <<d, u>> \in DefUseLinks(g, sites) <=>
          \E w \in UseSites(g) : \E e \in LinkedDefinitions(sites, w) : <<d, u>> = <<e, w>>
    BY DEF DefUseLinks
  <2>2. \A e, w : <<d, u>> = <<e, w>> <=> d = e /\ u = w
    OBVIOUS
  <2> QED
    BY <2>1, <2>2
<1>4. ASSUME IsExposed(g, u), NEW d \in DefinitionSites(g)
      PROVE  d \in LinkedDefinitions(sites, u) <=> Feeds(g, d, u)
  <2>1. ASSUME u.value = d.value, u.block = d.block, d.index < u.index PROVE FALSE
    <3>1. d.index \in DOMAIN g.code[u.block] /\ d.value \in g.code[u.block][d.index].def
      BY <2>1, SiteRead
    <3>2. DOMAIN g.code[u.block] = 1 .. Len(g.code[u.block]) /\ Len(g.code[u.block]) \in Nat
      BY <1>1
    <3>3. d.index \in 1 .. u.index - 1
      BY <1>1, <2>1, <3>1, <3>2
    <3> QED
      BY <1>4, <2>1, <3>1, <3>3 DEF IsExposed
  <2> QED
    BY <1>2, <1>4, <2>1 DEF Feeds
<1>5. ASSUME IsExposed(g, u)
      PROVE  {d \in DefinitionSites(g) : <<d, u>> \in DefUseLinks(g, sites)}
               = {d \in DefinitionSites(g) : Feeds(g, d, u)}
  BY <1>3, <1>4, <1>5
<1>6. ASSUME <<u.block, u.value>> \in UninitializedUses(g, sites),
             NEW d \in DefinitionSites(g), Feeds(g, d, u)
      PROVE  d.block = u.block /\ d.index < u.index
  <2>1. PICK w \in UseSites(g) : /\ LinkedDefinitions(sites, w) = {}
                                 /\ <<u.block, u.value>> = <<w.block, w.value>>
    BY <1>6 DEF UninitializedUses
  <2>2. w.block = u.block /\ w.value = u.value
    BY <2>1
  <2>3. LinkedDefinitions(sites, u) = {}
    BY <2>1, <2>2 DEF LinkedDefinitions
  <2>4. d \notin LinkedDefinitions(sites, u)
    BY <2>3
  <2> QED
    BY <1>2, <1>6, <2>4 DEF Feeds
<1> QED
  BY <1>5, <1>6

(* What a converged result says of the graph its problem was made from.    *)
LEMMA AnswerIsExact ==
  ASSUME NEW f, NEW a, NEW exits, NEW r, Answers(FlowProblem(f, a, exits), r), r.converged
  PROVE  LET g == AsRead(f, a)
         IN /\ DOMAIN r.before = g.blocks
            /\ a = "reaching" => \A b \in g.blocks : r.before[b] = DefinedBefore(g, b)
            /\ a = "sites" => \A b \in g.blocks : \A d : d \in r.before[b] <=>
                  /\ d \in DefinitionSites(g)
                  /\ IsLastInBlock(g, d)
                  /\ ClearPath(g, d.block, b, d.value)
            /\ \A b \in g.blocks : g.code[b] \in Seq(ToSet(g.code[b]))
<1> DEFINE p == FlowProblem(f, a, exits)
           g == AsRead(f, a)
<1>1. /\ p \in Problems
      /\ r.before \in [p.blocks -> SUBSET Facts(p)]
      /\ r.after \in [p.blocks -> SUBSET Facts(p)]
      /\ IsLeast(p, r.before, r.after)
  BY DEF Answers, Results
<1>2. /\ p.blocks = g.blocks /\ p.code = g.code /\ p.analysis = a
      /\ DefinitionSites(p) = DefinitionSites(g)
      /\ \A d : IsLastInBlock(p, d) <=> IsLastInBlock(g, d)
      /\ \A x \in g.blocks : \A b, v : ClearPath(p, x, b, v) <=> ClearPath(g, x, b, v)
      /\ \A b : DefinedBefore(p, b) = DefinedBefore(g, b)
  BY <1>1, SameNotions
<1> HIDE DEF p, g
<1>3. /\ p.analysis = "reaching" => \A b \in p.blocks : r.before[b] = DefinedBefore(p, b)
      /\ p.analysis = "sites" => \A b \in p.blocks : r.before[b] = SitesReaching(p, b)
  <2> DEFINE in == r.before
             out == r.after
  <2>1. /\ in \in [p.blocks -> SUBSET Facts(p)] /\ out \in [p.blocks -> SUBSET Facts(p)]
        /\ IsSolution(p, in, out)
        /\ \A x, y \in [p.blocks -> SUBSET Facts(p)] :
              IsSolution(p, x, y) => \A b \in p.blocks : in[b] \subseteq x[b] /\ out[b] \subseteq y[b]
    BY <1>1 DEF IsLeast
  <2> HIDE DEF in, out
  <2>2. /\ p.analysis = "reaching" => \A b \in p.blocks : in[b] = DefinedBefore(p, b)
        /\ p.analysis = "sites" => \A b \in p.blocks : in[b] = SitesReaching(p, b)
    BY <1>1, <2>1, LeastIsExact
  <2> QED
    BY <2>2 DEF in
<1>4. ASSUME a = "sites", NEW b \in g.blocks, NEW d
      PROVE  d \in r.before[b] <=>
               /\ d \in DefinitionSites(g)
               /\ IsLastInBlock(g, d)
               /\ ClearPath(g, d.block, b, d.value)
  <2>1. r.before[b] = SitesReaching(p, b)
    BY <1>2, <1>3, <1>4
  <2>2. d \in DefinitionSites(g) => d.block \in g.blocks
    BY SiteRead
  <2> QED
    BY <1>2, <2>1, <2>2 DEF SitesReaching
<1>5. \A b \in g.blocks : g.code[b] \in Seq(ToSet(g.code[b]))
  BY <1>1, <1>2, AnalysesAssumption
<1> QED
  BY <1>1, <1>2, <1>3, <1>4, <1>5 DEF g

(* The chains of the framework, when a block's entry state holds the       *)
(* values defined before it.                                               *)
LEMMA FrameworkChainsAre ==
  ASSUME NEW g, NEW reaching, DOMAIN reaching = g.blocks,
         \A b \in g.blocks : reaching[b] = DefinedBefore(g, b)
  PROVE  FrameworkChains(reaching) = UNION {DefinedBefore(g, b) \X {b} : b \in g.blocks}
<1>1. \A b \in g.blocks : {<<v, b>> : v \in reaching[b]} = DefinedBefore(g, b) \X {b}
  OBVIOUS
<1> QED
  BY <1>1 DEF FrameworkChains

(* Chains are read off least solutions.                                    *)
LEMMA ChainsAreExact == SuiteInv => ChainsExact
<1> SUFFICES ASSUME SuiteInv PROVE ChainsExact
  OBVIOUS
<1>0. \A i \in 1 .. Len(saved) : Answers(SuiteProblem(i), saved[i])
  BY DEF SuiteInv
<1>1. ASSUME suite = "engine", Len(saved) = 4
      PROVE  /\ saved[1].converged /\ saved[3].converged => saved[3] = saved[1]
             /\ saved[2].converged /\ saved[4].converged => saved[4] = saved[2]
             /\ saved[3].converged =>
                   FrameworkChains(saved[3].before) =
                      UNION {DefinedBefore(graph, b) \X {b} : b \in graph.blocks}
  <2>1. /\ Answers(SuiteProblem(1), saved[1]) /\ Answers(SuiteProblem(2), saved[2])
        /\ Answers(SuiteProblem(3), saved[3]) /\ Answers(SuiteProblem(4), saved[4])
    BY <1>0, <1>1
  <2>2. /\ Analyses(suite)[1] = "reaching" /\ Analyses(suite)[3] = "reaching"
        /\ Analyses(suite)[2] = "live" /\ Analyses(suite)[4] = "live"
    BY <1>1 DEF Analyses
  <2>3. /\ SuiteProblem(1) = SuiteProblem(3) /\ SuiteProblem(2) = SuiteProblem(4)
        /\ SuiteProblem(3) = FlowProblem(graph, "reaching", ExitBlocks(graph))
    BY <2>2 DEF SuiteProblem
  <2>4. saved[1].converged /\ saved[3].converged => saved[3] = saved[1]
    BY <2>1, <2>3, LeastIsUnique
  <2>5. saved[2].converged /\ saved[4].converged => saved[4] = saved[2]
    BY <2>1, <2>3, LeastIsUnique
  <2>6. ASSUME saved[3].converged
        PROVE  FrameworkChains(saved[3].before) =
                  UNION {DefinedBefore(graph, b) \X {b} : b \in graph.blocks}
    <3>1. /\ DOMAIN saved[3].before = graph.blocks
          /\ \A b \in graph.blocks : saved[3].before[b] = DefinedBefore(graph, b)
      BY <2>1, <2>3, <2>6, AnswerIsExact, AsReadIs
    <3> QED
      BY <3>1, FrameworkChainsAre
  <2> QED
    BY <2>4, <2>5, <2>6
<1>2. ASSUME suite = "full", saved # << >>, saved[1].converged, NEW u \in UseSites(AsRead(graph, "sites"))
      PROVE  LET read == AsRead(graph, "sites")
                 fed == {d \in DefinitionSites(read) : Feeds(read, d, u)}
             IN /\ IsExposed(read, u) =>
                     {d \in DefinitionSites(read) :
                         <<d, u>> \in DefUseLinks(read, saved[1].before)} = fed
                /\ <<u.block, u.value>> \in UninitializedUses(read, saved[1].before) =>
                     \A d \in fed : d.block = u.block /\ d.index < u.index
  <2>1. 1 \in 1 .. Len(saved)
    BY <1>2 DEF SuiteInv
  <2>2. SuiteProblem(1) = FlowProblem(graph, "sites", ExitBlocks(graph))
    BY <1>2 DEF SuiteProblem, Analyses
  <2>3. Answers(FlowProblem(graph, "sites", ExitBlocks(graph)), saved[1])
    BY <1>0, <2>1, <2>2
  <2> DEFINE read == AsRead(graph, "sites")
  <2>4. /\ \A b \in read.blocks : \A d : d \in saved[1].before[b] <=>
               /\ d \in DefinitionSites(read)
               /\ IsLastInBlock(read, d)
               /\ ClearPath(read, d.block, b, d.value)
        /\ \A b \in read.blocks : read.code[b] \in Seq(ToSet(read.code[b]))
    BY <1>2, <2>3, AnswerIsExact
  <2> HIDE DEF read
  <2>5. u \in UseSites(read)
    BY <1>2 DEF read
  <2> QED
    BY <2>4, <2>5, LinksAre DEF read
<1> QED
  BY <1>1, <1>2 DEF ChainsExact

(* Chains read off converged results are exact, for every graph a suite is *)
(* given and every hash order its analyses take the blocks in.             *)
THEOREM ChainsFound == SuiteSpec => []ChainsExact
  BY SuiteInvariant, ChainsAreExact, PTL

(* A suite's solver is the solver of DataFlow: each of its steps is one of *)
(* that solver or leaves it alone, so what is proved of FlowSpec above     *)
(* holds in every suite.                                                   *)
THEOREM SuiteSolves == SuiteSpec => FlowSpec
<1>1. SuiteInit => FlowInit
  BY DEF SuiteInit
<1>2. [SuiteNext]_<<suiteVars, flowVars>> => [FlowNext]_flowVars
  <2> SUFFICES ASSUME [SuiteNext]_<<suiteVars, flowVars>> PROVE [FlowNext]_flowVars
    OBVIOUS
  <2>1. CASE Solve /\ problem' \in Problems
    <3>1. FlowStart(SuiteProblem(Len(saved) + 1))
      BY <2>1 DEF Solve
    <3>2. SuiteProblem(Len(saved) + 1) \in Problems
      BY <2>1, <3>1 DEF FlowStart
    <3> QED
      BY <3>1, <3>2 DEF FlowNext
  <2>2. CASE Solving
    BY <2>2 DEF Solving, FlowNext
  <2>3. CASE Solved \/ Beside \/ (\E g : TakeGraph(g)) \/ UNCHANGED <<suiteVars, flowVars>>
    BY <2>3 DEF Solved, Beside, TakeGraph
  <2> QED
    BY <2>1, <2>2, <2>3 DEF SuiteNext, Analyse
<1> QED
  BY <1>1, <1>2, PTL DEF SuiteSpec, FlowSpec

-----------------------------------------------------------------------------
(***************************************************************************)
(* Proofs about the resolution of conflicts, for whatever the generators   *)
(* suggest.                                                                *)
(*                                                                         *)
(* The inductive invariant is Resolution: besides the two properties it    *)
(* says how far the candidates have been looked at and in what order they  *)
(* stand, which is what makes the one that is kept the better one.         *)
(***************************************************************************)

(* Candidate k is not after candidate i in what they are chosen by.        *)
AsGood(k, i) ==
    /\ candidates[k].confidence >= candidates[i].confidence
    /\ way = "edits" =>
          ~Before(candidates[k].replacements[1].start,
                  candidates[i].replacements[1].start)

Ordered ==
    \A k, i \in DOMAIN candidates :
        k \in Nat /\ i \in Nat /\ k < i => AsGood(k, i)

Looked ==
    /\ looked \in Nat
    /\ 1 .. looked \subseteq DOMAIN candidates
    /\ kept \subseteq 1 .. looked

Resolution ==
    /\ phase = "resolving" => Ordered
    /\ Looked
    /\ KeptApart
    /\ DroppedForBetter

-----------------------------------------------------------------------------

(* Neither overlapping nor conflicting depends on which one is asked.      *)
LEMMA OverlapSymmetric ==
    ASSUME NEW r, NEW s
    PROVE  Overlap(r, s) <=> Overlap(s, r)
  BY DEF Overlap

(* Fixes in the order of their confidence (MostConfidentFirst).            *)
LEMMA ConfidenceOrder ==
    ASSUME NEW fixes \in Advice, candidates \in MostConfidentFirst(fixes),
           way = "fixes"
    PROVE  Ordered
  <1> DEFINE ahead == {ij \in (1 .. Len(fixes)) \X (1 .. Len(fixes)) :
                         fixes[ij[1]].confidence > fixes[ij[2]].confidence}
  <1>1. PICK p \in Arrangements(Len(fixes), ahead) :
           candidates = [k \in 1 .. Len(fixes) |-> fixes[p[k]]]
    BY DEF MostConfidentFirst, Sorted
  <1>2. fixes \in Seq(Fix)
    BY AdviceAssumption
  <1>3. Len(fixes) \in Nat
    BY <1>2
  <1>4. ASSUME NEW k \in 1 .. Len(fixes), NEW i \in 1 .. Len(fixes), k < i
        PROVE  fixes[p[k]].confidence >= fixes[p[i]].confidence
    <2>1. p[k] \in 1 .. Len(fixes) /\ p[i] \in 1 .. Len(fixes)
      BY <1>3 DEF Arrangements
    <2>2. <<p[i], p[k]>> \notin ahead
      BY <1>4 DEF Arrangements
    <2>3. ~(fixes[p[i]].confidence > fixes[p[k]].confidence)
      BY <2>1, <2>2
    <2>4. fixes[p[i]] \in Fix /\ fixes[p[k]] \in Fix
      BY <1>2, <2>1
    <2>5. fixes[p[i]].confidence \in Nat /\ fixes[p[k]].confidence \in Nat
      BY <2>4 DEF Fix
    <2> QED
      BY <2>3, <2>5
  <1> QED
    BY <1>1, <1>3, <1>4 DEF Ordered, AsGood

(* Single replacements in the order LatestFirst gives them.                *)
LEMMA PositionOrder ==
    ASSUME NEW fixes, NEW rs \in LatestFirst(All(fixes)),
           candidates = OneByOne(rs)
    PROVE  Ordered
  <1> DEFINE s == All(fixes)
             n == Len(s)
             ahead == {ij \in (1 .. n) \X (1 .. n) :
                         Before(s[ij[2]].start, s[ij[1]].start)}
  <1>1. PICK p \in Arrangements(n, ahead) : rs = [k \in 1 .. n |-> s[p[k]]]
    BY DEF LatestFirst, Sorted
  <1>2. DOMAIN candidates = 1 .. n
    BY <1>1 DEF OneByOne
  <1>3. ASSUME NEW k \in 1 .. n, NEW i \in 1 .. n, k < i
        PROVE  ~Before(s[p[k]].start, s[p[i]].start)
    <2>1. p[k] \in 1 .. n /\ p[i] \in 1 .. n
      BY DEF Arrangements
    <2>2. <<p[i], p[k]>> \notin ahead
      BY <1>3 DEF Arrangements
    <2> QED
      BY <2>1, <2>2
  <1>4. \A k \in 1 .. n :
           /\ candidates[k].confidence = 0
           /\ candidates[k].replacements[1].start = s[p[k]].start
    BY <1>1 DEF OneByOne
  <1> QED
    BY <1>2, <1>3, <1>4 DEF Ordered, AsGood

-----------------------------------------------------------------------------

(* Before anything has been looked at the candidates stand in order.       *)
LEMMA InitResolution == FixInit => Resolution
  <1> SUFFICES ASSUME FixInit PROVE Resolution
    OBVIOUS
  <1>1. phase = "resolving" => Ordered
    <2> SUFFICES ASSUME phase = "resolving" PROVE Ordered
      OBVIOUS
    <2>1. CASE \E fixes \in Advice :
                 way = "fixes" /\ candidates \in MostConfidentFirst(fixes)
      BY <2>1, ConfidenceOrder
    <2>2. CASE \E fixes \in Advice : \E rs \in LatestFirst(All(fixes)) :
                 candidates = OneByOne(rs)
      <3>1. PICK fixes \in Advice :
              \E rs \in LatestFirst(All(fixes)) : candidates = OneByOne(rs)
        BY <2>2
      <3> QED
        BY <3>1, PositionOrder
    <2> QED
      BY <2>1, <2>2 DEF FixInit
  <1>2. looked = 0 /\ kept = {}
    BY DEF FixInit
  <1>3. 1 .. looked = {}
    BY <1>2
  <1> QED
    BY <1>1, <1>2, <1>3 DEF Resolution, Looked, KeptApart, DroppedForBetter

(* A candidate is kept when it conflicts with none that is kept.           *)
LEMMA KeepResolution ==
    ASSUME Resolution, Keep
    PROVE  Resolution'
  <1>1. looked \in Nat /\ looked' = looked + 1 /\ looked + 1 \in DOMAIN candidates
    BY DEF Resolution, Looked, Keep
  <1>2. kept' = kept \cup {looked + 1} /\ kept \subseteq 1 .. looked
    BY DEF Resolution, Looked, Keep
  <1>3. candidates' = candidates /\ way' = way /\ phase' = phase
    BY DEF Keep
  <1>4. (1 .. looked') = (1 .. looked) \cup {looked + 1}
    BY <1>1
  <1>5. (phase = "resolving" => Ordered)'
    BY <1>3 DEF Resolution, Ordered, AsGood
  <1>6. Looked'
    BY <1>1, <1>2, <1>3, <1>4 DEF Resolution, Looked
  <1>7. KeptApart'
    <2> SUFFICES ASSUME NEW i \in kept', NEW j \in kept', i # j,
                        NEW m \in DOMAIN candidates[i].replacements,
                        NEW n \in DOMAIN candidates[j].replacements
                 PROVE  ~Overlap(candidates[i].replacements[m],
                                 candidates[j].replacements[n])
      BY <1>3 DEF KeptApart
    <2>1. CASE i \in kept /\ j \in kept
      BY <2>1 DEF Resolution, KeptApart
    <2>2. CASE i = looked + 1 /\ j \in kept
      BY <2>2 DEF Keep, Conflicts
    <2>3. CASE j = looked + 1 /\ i \in kept
      <3>1. ~Overlap(candidates[j].replacements[n], candidates[i].replacements[m])
        BY <2>3 DEF Keep, Conflicts
      <3> QED
        BY <3>1, OverlapSymmetric
    <2> QED
      BY <1>2, <2>1, <2>2, <2>3
  <1>8. DroppedForBetter'
    <2> SUFFICES ASSUME NEW i \in (1 .. looked') \ kept'
                 PROVE  \E k \in kept' :
                          /\ Conflicts(candidates[i], candidates[k])
                          /\ candidates[k].confidence >= candidates[i].confidence
                          /\ way = "edits" =>
                               ~Before(candidates[k].replacements[1].start,
                                       candidates[i].replacements[1].start)
      BY <1>3 DEF DroppedForBetter, Conflicts
    <2>1. i \in (1 .. looked) \ kept
      BY <1>2, <1>4
    <2> QED
      BY <2>1, <1>2 DEF Resolution, DroppedForBetter
  <1> QED
    BY <1>5, <1>6, <1>7, <1>8 DEF Resolution

(* What a candidate is dropped for was looked at before it.                *)
LEMMA DiscardResolution ==
    ASSUME Resolution, Discard
    PROVE  Resolution'
  <1>1. looked \in Nat /\ looked' = looked + 1 /\ looked + 1 \in DOMAIN candidates
    BY DEF Resolution, Looked, Discard
  <1>2. kept' = kept /\ kept \subseteq 1 .. looked
    BY DEF Resolution, Looked, Discard
  <1>3. candidates' = candidates /\ way' = way /\ phase' = phase
    BY DEF Discard
  <1>4. (1 .. looked') = (1 .. looked) \cup {looked + 1}
    BY <1>1
  <1>5. (phase = "resolving" => Ordered)'
    BY <1>3 DEF Resolution, Ordered, AsGood
  <1>6. Looked'
    BY <1>1, <1>2, <1>3, <1>4 DEF Resolution, Looked
  <1>7. KeptApart'
    BY <1>2, <1>3 DEF Resolution, KeptApart
  <1>8. DroppedForBetter'
    <2> SUFFICES ASSUME NEW i \in (1 .. looked') \ kept
                 PROVE  \E k \in kept :
                          /\ Conflicts(candidates[i], candidates[k])
                          /\ candidates[k].confidence >= candidates[i].confidence
                          /\ way = "edits" =>
                               ~Before(candidates[k].replacements[1].start,
                                       candidates[i].replacements[1].start)
      BY <1>2, <1>3 DEF DroppedForBetter, Conflicts
    <2>1. CASE i \in 1 .. looked
      BY <2>1 DEF Resolution, DroppedForBetter
    <2>2. CASE i = looked + 1
      <3>1. PICK k \in kept : Conflicts(candidates[looked + 1], candidates[k])
        BY DEF Discard
      <3>2. k \in DOMAIN candidates /\ k \in Nat /\ k < looked + 1
        BY <1>1, <1>2 DEF Resolution, Looked
      <3>3. AsGood(k, looked + 1)
        BY <1>1, <3>2 DEF Resolution, Ordered, Discard
      <3> QED
        BY <2>2, <3>1, <3>3 DEF AsGood
    <2> QED
      BY <1>4, <2>1, <2>2
  <1> QED
    BY <1>5, <1>6, <1>7, <1>8 DEF Resolution

(* Applying what is planned touches nothing that was resolved.             *)
LEMMA ResolutionDone ==
    ASSUME Resolution, UNCHANGED <<way, candidates, looked, kept>>,
           phase' = "resolving" => phase = "resolving"
    PROVE  Resolution'
  BY DEF Resolution, Ordered, AsGood, Looked, KeptApart, DroppedForBetter,
         Conflicts

(* Resolution holds throughout.                                            *)
THEOREM ResolutionInvariant == FixSpec => []Resolution
  <1>1. Resolution /\ [FixNext]_fixVars => Resolution'
    <2> SUFFICES ASSUME Resolution, [FixNext]_fixVars PROVE Resolution'
      OBVIOUS
    <2>1. CASE Keep
      BY <2>1, KeepResolution
    <2>2. CASE Discard
      BY <2>2, DiscardResolution
    <2>3. CASE Resolved
      BY <2>3, ResolutionDone DEF Resolved
    <2>4. CASE ApplyOne
      BY <2>4, ResolutionDone DEF ApplyOne
    <2>5. CASE Applied
      BY <2>5, ResolutionDone DEF Applied
    <2>6. CASE UNCHANGED fixVars
      BY <2>6, ResolutionDone DEF fixVars
    <2> QED
      BY <2>1, <2>2, <2>3, <2>4, <2>5, <2>6 DEF FixNext
  <1> QED
    BY InitResolution, <1>1, PTL DEF FixSpec

(* Whatever is suggested, what is kept can be applied together             *)
(* (resolve_conflicts, resolve_replacement_conflicts).                     *)
THEOREM KeptFixesApart == FixSpec => []KeptApart
  <1>1. Resolution => KeptApart
    BY DEF Resolution
  <1> QED
    BY ResolutionInvariant, <1>1, PTL

(* Whatever is suggested, a fix is dropped only for one at least as        *)
(* confident, a replacement only for one that begins no earlier.           *)
THEOREM DroppedOnlyForBetter == FixSpec => []DroppedForBetter
  <1>1. Resolution => DroppedForBetter
    BY DEF Resolution
  <1> QED
    BY ResolutionInvariant, <1>1, PTL

-----------------------------------------------------------------------------
(***************************************************************************)
(* Proofs that applying replacements one after the other does what         *)
(* applying them at once would, for every text, number of replacements and *)
(* length of lines.                                                        *)
(*                                                                         *)
(* The inductive invariant is InPlace.  A position's offset is the number  *)
(* of symbols before it when the text is read as one sequence, and a       *)
(* replacement puts its text between the offsets of where its range begins *)
(* and ends (ReplacedIs).  The text is as the source up to where the       *)
(* replacement applied last begins (AsSourceBefore), so that one that ends *)
(* before it has the offsets it had in the source (Agreement); and what    *)
(* the replacements applied so far make of the source begins with the      *)
(* symbols up to there, so that one more leaves the rest as it is          *)
(* (AtOnceMore).  Sequences come first, then texts, their pieces and       *)
(* breaks, one replacement, replacing at once, and the steps.              *)
(***************************************************************************)

(* FlattenSeq is the last of the concatenations.                           *)
LEMMA FlattenIs ==
  ASSUME NEW S, NEW ss \in Seq(Seq(S))
  PROVE  /\ Len(ss) = 0 => FlattenSeq(ss) = << >>
         /\ \E r : /\ Flattens(r, ss)
                   /\ Len(ss) # 0 => FlattenSeq(ss) = r[Len(ss)]
<1>1. Len(ss) = 0 => FlattenSeq(ss) = << >>
  <2>1. Len(ss) = 0 => ss = << >>
    OBVIOUS
  <2> QED
    BY <2>1 DEF FlattenSeq
<1> DEFINE r == CHOOSE q : Flattens(q, ss)
<1>2. Flattens(r, ss)
  BY FlattensExists, Zenon
<1>3. Len(ss) # 0 => FlattenSeq(ss) = r[Len(ss)]
  BY Zenon DEF FlattenSeq, Flattens
<1> HIDE DEF r
<1> QED
  BY <1>1, <1>2, <1>3

(* One sequence more.                                                      *)
LEMMA FlattenAppended ==
  ASSUME NEW S, NEW ss \in Seq(Seq(S)), NEW s \in Seq(S)
  PROVE  FlattenSeq(Append(ss, s)) = FlattenSeq(ss) \o s
<1> DEFINE n == Len(ss)
           ts == Append(ss, s)
<1>1. /\ n \in Nat
      /\ ts \in Seq(Seq(S)) /\ Len(ts) = n + 1 /\ Len(ts) \in Nat
      /\ ts[n + 1] = s
      /\ \A i \in 1 .. n : ts[i] = ss[i]
  OBVIOUS
<1> HIDE DEF ts
<1>2. PICK r : Flattens(r, ts) /\ FlattenSeq(ts) = r[n + 1]
  BY <1>1, FlattenIs
<1>3. r[n + 1] = IF n + 1 = 1 THEN s ELSE r[n] \o s
  <2>1. n + 1 \in 1 .. Len(ts) /\ n + 1 - 1 = n
    BY <1>1
  <2>2. \A i \in 1 .. Len(ts) : r[i] = IF i = 1 THEN ts[i] ELSE r[i - 1] \o ts[i]
    BY <1>2 DEF Flattens
  <2>3. PICK i \in 1 .. Len(ts) : i = n + 1
    BY <2>1
  <2>4. i - 1 = n
    BY <1>1, <2>3
  <2>5. r[i] = IF i = 1 THEN ts[i] ELSE r[i - 1] \o ts[i]
    BY <2>2
  <2> QED
    BY <1>1, <2>3, <2>4, <2>5
<1>4. CASE n = 0
  <2>1. FlattenSeq(ss) = << >>
    BY <1>4, FlattenIs
  <2>2. FlattenSeq(ts) = s
    <3>1. n + 1 = 1
      BY <1>4
    <3> QED
      BY <1>2, <1>3, <3>1
  <2>3. << >> \o s = s
    OBVIOUS
  <2> QED
    BY <2>1, <2>2, <2>3 DEF ts
<1>5. CASE n # 0
  <2>1. PICK q : Flattens(q, ss) /\ FlattenSeq(ss) = q[n]
    BY <1>5, FlattenIs
  <2>2. \A i \in 1 .. n : r[i] = q[i]
    <3>1. n \in Nat /\ Len(ss) \in Nat /\ Len(ts) \in Nat /\ n <= Len(ss) /\ n <= Len(ts)
      BY <1>1
    <3>2. BeginAlike(ts, ss, n)
      BY <1>1 DEF BeginAlike
    <3>3. Flattens(r, ts) /\ Flattens(q, ss)
      BY <1>2, <2>1
    <3> HIDE DEF n
    <3>4. BeginAlike(r, q, n)
      BY ONLY <3>1, <3>2, <3>3, FlattensAgree
    <3> QED
      BY <3>4 DEF BeginAlike
  <2>3. n \in 1 .. n /\ n + 1 # 1
    BY <1>1, <1>5
  <2> QED
    BY <1>2, <1>3, <2>1, <2>2, <2>3 DEF ts
<1> QED
  BY <1>4, <1>5

(* The first k + 1 elements are the first k and one more.                  *)
LEMMA OneMore ==
  ASSUME NEW S, NEW s \in Seq(S), NEW k \in Nat, k + 1 <= Len(s)
  PROVE  /\ SubSeq(s, 1, k) \in Seq(S)
         /\ s[k + 1] \in S
         /\ SubSeq(s, 1, k + 1) = Append(SubSeq(s, 1, k), s[k + 1])
  OBVIOUS

(* A concatenation is a sequence of what the sequences are of.             *)
LEMMA FlattenType ==
  ASSUME NEW S, NEW ss \in Seq(Seq(S))
  PROVE  FlattenSeq(ss) \in Seq(S)
<1> DEFINE Done == {k \in Nat : k <= Len(ss) => FlattenSeq(SubSeq(ss, 1, k)) \in Seq(S)}
<1>1. 0 \in Done
  <2>1. SubSeq(ss, 1, 0) = << >> /\ << >> \in Seq(Seq(S)) /\ Len(<< >>) = 0 /\ << >> \in Seq(S)
    OBVIOUS
  <2> QED
    BY <2>1, FlattenIs
<1>2. ASSUME NEW k \in Nat, k \in Done PROVE k + 1 \in Done
  <2> SUFFICES ASSUME k + 1 <= Len(ss) PROVE FlattenSeq(SubSeq(ss, 1, k + 1)) \in Seq(S)
    OBVIOUS
  <2>1. FlattenSeq(SubSeq(ss, 1, k)) \in Seq(S)
    BY <1>2
  <2>2. /\ SubSeq(ss, 1, k) \in Seq(Seq(S)) /\ ss[k + 1] \in Seq(S)
        /\ SubSeq(ss, 1, k + 1) = Append(SubSeq(ss, 1, k), ss[k + 1])
    BY OneMore
  <2>3. FlattenSeq(SubSeq(ss, 1, k + 1)) = FlattenSeq(SubSeq(ss, 1, k)) \o ss[k + 1]
    BY <2>2, FlattenAppended
  <2> QED
    BY <2>1, <2>2, <2>3, ConcatProperties
<1> HIDE DEF Done
<1>3. \A k \in Nat : k \in Done
  BY <1>1, <1>2, NaturalsIn
<1>4. Len(ss) \in Nat /\ Len(ss) <= Len(ss) /\ SubSeq(ss, 1, Len(ss)) = ss
  OBVIOUS
<1>5. Len(ss) \in Done
  BY <1>3, <1>4
<1> QED
  BY <1>4, <1>5 DEF Done

(* Appending to the second of two sequences.                               *)
LEMMA AppendConcat ==
  ASSUME NEW S, NEW s \in Seq(S), NEW t \in Seq(S), NEW e \in S
  PROVE  s \o t \in Seq(S) /\ s \o Append(t, e) = Append(s \o t, e)
<1>1. Append(t, e) = t \o <<e>> /\ <<e>> \in Seq(S) /\ s \o t \in Seq(S)
  BY AppendIsConcat
<1> QED
  BY <1>1, AppendIsConcat, ConcatAssociative

(* Concatenating two lists of sequences.                                   *)
LEMMA FlattenConcat ==
  ASSUME NEW S, NEW ss \in Seq(Seq(S)), NEW ts \in Seq(Seq(S))
  PROVE  FlattenSeq(ss \o ts) = FlattenSeq(ss) \o FlattenSeq(ts)
<1> DEFINE Same(k) == FlattenSeq(ss \o SubSeq(ts, 1, k)) = FlattenSeq(ss) \o FlattenSeq(SubSeq(ts, 1, k))
           Done == {k \in Nat : k <= Len(ts) => Same(k)}
<1>0. FlattenSeq(ss) \in Seq(S)
  BY FlattenType
<1>1. 0 \in Done
  <2>1. SubSeq(ts, 1, 0) = << >> /\ << >> \in Seq(Seq(S)) /\ Len(<< >>) = 0 /\ ss \o << >> = ss
    OBVIOUS
  <2>2. FlattenSeq(<< >>) = << >>
    BY <2>1, FlattenIs
  <2> QED
    BY <1>0, <2>1, <2>2, ConcatEmptySeq
<1>2. ASSUME NEW k \in Nat, k \in Done PROVE k + 1 \in Done
  <2> SUFFICES ASSUME k + 1 <= Len(ts) PROVE Same(k + 1)
    OBVIOUS
  <2>1. Same(k)
    BY <1>2
  <2> DEFINE us == SubSeq(ts, 1, k)
  <2>2. /\ us \in Seq(Seq(S)) /\ ts[k + 1] \in Seq(S)
        /\ SubSeq(ts, 1, k + 1) = Append(us, ts[k + 1])
    BY OneMore
  <2> HIDE DEF us
  <2>3. ss \o us \in Seq(Seq(S)) /\ ss \o Append(us, ts[k + 1]) = Append(ss \o us, ts[k + 1])
    <3>1. PICK X : X = Seq(S)
      OBVIOUS
    <3>2. PICK z : z = ts[k + 1]
      OBVIOUS
    <3>3. ss \in Seq(X) /\ us \in Seq(X) /\ z \in X
      BY <2>2, <3>1, <3>2
    <3>4. ss \o us \in Seq(X) /\ ss \o Append(us, z) = Append(ss \o us, z)
      BY ONLY <3>3, AppendConcat
    <3> QED
      BY ONLY <3>1, <3>2, <3>4
  <2>4. FlattenSeq(ss \o SubSeq(ts, 1, k + 1)) = FlattenSeq(ss \o us) \o ts[k + 1]
    BY <2>2, <2>3, FlattenAppended
  <2>5. FlattenSeq(SubSeq(ts, 1, k + 1)) = FlattenSeq(us) \o ts[k + 1]
    BY <2>2, FlattenAppended
  <2>6. FlattenSeq(us) \in Seq(S)
    BY <2>2, FlattenType
  <2> QED
    <3>1. FlattenSeq(ss \o us) = FlattenSeq(ss) \o FlattenSeq(us)
      BY <2>1 DEF us
    <3>2. (FlattenSeq(ss) \o FlattenSeq(us)) \o ts[k + 1] = FlattenSeq(ss) \o (FlattenSeq(us) \o ts[k + 1])
      <4> DEFINE x == FlattenSeq(ss)
                 y == FlattenSeq(us)
                 z == ts[k + 1]
      <4>1. x \in Seq(S) /\ y \in Seq(S) /\ z \in Seq(S)
        BY <1>0, <2>2, <2>6
      <4> HIDE DEF x, y, z
      <4>2. (x \o y) \o z = x \o (y \o z)
        BY ONLY <4>1, ConcatAssociative, SMTT(30)
      <4> QED
        BY <4>2 DEF x, y, z
    <3> QED
      BY <2>4, <2>5, <3>1, <3>2
<1> HIDE DEF Done
<1>3. \A k \in Nat : k \in Done
  BY <1>1, <1>2, NaturalsIn
<1>4. Len(ts) \in Nat /\ Len(ts) <= Len(ts) /\ SubSeq(ts, 1, Len(ts)) = ts
  OBVIOUS
<1>5. Len(ts) \in Done
  BY <1>3, <1>4
<1> QED
  BY <1>4, <1>5 DEF Done

(* A single sequence.                                                      *)
LEMMA FlattenOne ==
  ASSUME NEW S, NEW s \in Seq(S)
  PROVE  FlattenSeq(<<s>>) = s
<1>1. << >> \in Seq(Seq(S)) /\ Len(<< >>) = 0 /\ Append(<< >>, s) = <<s>>
  OBVIOUS
<1>2. FlattenSeq(<< >>) = << >>
  BY <1>1, FlattenIs
<1>3. FlattenSeq(<<s>>) = << >> \o s
  BY <1>1, <1>2, FlattenAppended
<1> QED
  BY <1>3, ConcatEmptySeq

Line == Seq(Symbols)

(* The lines of a text, each with a break.                                 *)
Terminated(t) == [l \in 1 .. Len(t) |-> Append(t[l], Break)]

(* Lines concatenated are a line.                                          *)
LEMMA LineConcat ==
  ASSUME NEW x \in Line, NEW y \in Line
  PROVE  x \o y \in Line
  BY DEF Line

(* Which lines are concatenated first does not matter.                     *)
Regroups(x, y, z) == (x \o y) \o z = x \o (y \o z)

(* ... for any three.                                                      *)
LEMMA LineRegroup ==
  ASSUME NEW x \in Line, NEW y \in Line, NEW z \in Line
  PROVE  Regroups(x, y, z)
  BY ConcatAssociative DEF Line, Regroups

(* Ending a concatenation is ending its second line.                       *)
LEMMA LineAppend ==
  ASSUME NEW x \in Line, NEW y \in Line, NEW e \in Symbols
  PROVE  x \o Append(y, e) = Append(x \o y, e)
  BY AppendConcat DEF Line

(* A line has a length.                                                    *)
LEMMA LineLength ==
  ASSUME NEW x \in Line
  PROVE  Len(x) \in Nat
  BY DEF Line

(* A text as one sequence is the concatenation of its lines with their     *)
(* breaks.                                                                 *)
LEMMA TerminatedIs ==
  ASSUME NEW t \in Seq(Line)
  PROVE  /\ Terminated(t) \in Seq(Line)
         /\ Len(Terminated(t)) = Len(t)
         /\ \A l \in 1 .. Len(t) : Terminated(t)[l] = Append(t[l], Break)
         /\ Broken(t) = FlattenSeq(Terminated(t))
<1>1. \A l \in 1 .. Len(t) : t[l] \in Line
  OBVIOUS
<1>2. \A x \in Line : Append(x, Break) \in Line
  BY TextsAssumption DEF Line
<1> HIDE DEF Line
<1>3. \A l \in 1 .. Len(t) : Append(t[l], Break) \in Line
  BY <1>1, <1>2
<1> QED
  BY <1>3 DEF Terminated, Broken

(* It is a sequence of symbols.                                            *)
LEMMA BrokenType ==
  ASSUME NEW t \in Seq(Line)
  PROVE  Broken(t) \in Line /\ Len(Broken(t)) \in Nat
<1>1. Broken(t) \in Line
  BY TerminatedIs, FlattenType DEF Line
<1> QED
  BY <1>1 DEF Line

(* One text after another.                                                 *)
LEMMA BrokenConcat ==
  ASSUME NEW s \in Seq(Line), NEW t \in Seq(Line)
  PROVE  s \o t \in Seq(Line) /\ Broken(s \o t) = Broken(s) \o Broken(t)
<1>1. s \o t \in Seq(Line)
  OBVIOUS
<1> DEFINE a == Terminated(s)
           b == Terminated(t)
           c == Terminated(s \o t)
<1>2. /\ a \in Seq(Line) /\ Len(a) = Len(s) /\ \A l \in 1 .. Len(s) : a[l] = Append(s[l], Break)
      /\ b \in Seq(Line) /\ Len(b) = Len(t) /\ \A l \in 1 .. Len(t) : b[l] = Append(t[l], Break)
      /\ c \in Seq(Line) /\ Len(c) = Len(s \o t)
      /\ \A l \in 1 .. Len(s \o t) : c[l] = Append((s \o t)[l], Break)
  BY <1>1, TerminatedIs
<1> HIDE DEF a, b, c
<1>3. c = a \o b
  <2>1. a \o b \in Seq(Line) /\ Len(a \o b) = Len(s) + Len(t)
    <3>1. a \in Seq(Line) /\ b \in Seq(Line) /\ Len(a) = Len(s) /\ Len(b) = Len(t)
      BY <1>2
    <3> QED
      BY ONLY <3>1
  <2>2. Len(s \o t) = Len(s) + Len(t) /\ Len(s) \in Nat /\ Len(t) \in Nat
    OBVIOUS
  <2>3. ASSUME NEW l \in 1 .. Len(s) + Len(t) PROVE c[l] = (a \o b)[l]
    <3>1. CASE l <= Len(s)
      <4>1. l \in 1 .. Len(s) /\ l \in 1 .. Len(s \o t)
        BY <2>2, <3>1
      <4>2. (s \o t)[l] = s[l]
        BY <4>1
      <4>3. (a \o b)[l] = a[l]
        BY <1>2, <4>1
      <4> QED
        BY <1>2, <4>1, <4>2, <4>3
    <3>2. CASE l > Len(s)
      <4>1. l - Len(s) \in 1 .. Len(t) /\ l \in 1 .. Len(s \o t)
        BY <2>2, <3>2
      <4>2. (s \o t)[l] = t[l - Len(s)]
        BY <2>2, <3>2
      <4>3. (a \o b)[l] = b[l - Len(s)]
        BY <1>2, <2>2, <3>2
      <4>4. c[l] = Append((s \o t)[l], Break)
        BY <1>2, <4>1
      <4>5. b[l - Len(s)] = Append(t[l - Len(s)], Break)
        BY <1>2, <4>1
      <4> QED
        BY <4>2, <4>3, <4>4, <4>5
    <3>3. l <= Len(s) \/ l > Len(s)
      BY <2>2
    <3> QED
      BY ONLY <3>1, <3>2, <3>3
  <2> QED
    BY <1>2, <2>1, <2>2, <2>3, SeqEqual
<1>4. FlattenSeq(a \o b) = FlattenSeq(a) \o FlattenSeq(b)
  BY <1>2, FlattenConcat DEF Line
<1>5. Broken(s) = FlattenSeq(a) /\ Broken(t) = FlattenSeq(b) /\ Broken(s \o t) = FlattenSeq(c)
  BY <1>1, TerminatedIs DEF a, b, c
<1> QED
  BY <1>1, <1>3, <1>4, <1>5

(* A text of no line, and of one.                                          *)
LEMMA BrokenOne ==
  /\ Broken(<< >>) = << >>
  /\ \A x \in Line : Broken(<<x>>) = Append(x, Break)
<1>1. << >> \in Seq(Line) /\ Len(<< >>) = 0
  OBVIOUS
<1>2. Broken(<< >>) = << >>
  <2>1. Terminated(<< >>) \in Seq(Line) /\ Len(Terminated(<< >>)) = 0 /\ Broken(<< >>) = FlattenSeq(Terminated(<< >>))
    BY <1>1, TerminatedIs
  <2> QED
    BY <2>1, FlattenIs DEF Line
<1>3. ASSUME NEW x \in Line PROVE Broken(<<x>>) = Append(x, Break)
  <2>1. <<x>> \in Seq(Line) /\ Len(<<x>>) = 1 /\ <<x>>[1] = x
    OBVIOUS
  <2> DEFINE u == Terminated(<<x>>)
  <2>2. u \in Seq(Line) /\ Len(u) = 1 /\ u[1] = Append(x, Break) /\ Broken(<<x>>) = FlattenSeq(u)
    <3>1. 1 \in 1 .. Len(<<x>>)
      BY <2>1
    <3> QED
      BY <2>1, <3>1, TerminatedIs
  <2> HIDE DEF u
  <2>3. u = <<u[1]>>
    BY <2>2
  <2>4. Append(x, Break) \in Line
    BY TextsAssumption DEF Line
  <2> QED
    BY <2>2, <2>3, <2>4, FlattenOne DEF Line
<1> QED
  BY <1>2, <1>3

(* A text and one line more.                                               *)
LEMMA BrokenMore ==
  ASSUME NEW t \in Seq(Line), NEW x \in Line
  PROVE  Append(t, x) \in Seq(Line) /\ Broken(Append(t, x)) = Broken(t) \o Append(x, Break)
<1>1. Append(t, x) = t \o <<x>> /\ <<x>> \in Seq(Line)
  BY AppendIsConcat
<1> QED
  BY <1>1, BrokenConcat, BrokenOne

(* Only the last break is not in the joined text.                          *)
LEMMA JoinedIs ==
  ASSUME NEW t \in Seq(Line)
  PROVE  /\ Joined(t) \in Line
         /\ t # << >> => Broken(t) = Append(Joined(t), Break)
         /\ t = << >> => Joined(t) = << >>
<1>1. Broken(t) \in Line
  BY BrokenType
<1>2. Joined(t) \in Line
  BY <1>1 DEF Joined, Line
<1>3. CASE t # << >>
  <2>1. PICK s \in Seq(Line), x \in Line : t = Append(s, x)
    BY <1>3, SequenceEmptyOrAppend
  <2> DEFINE b == Broken(s)
  <2>2. b \in Line /\ Broken(t) = b \o Append(x, Break)
    BY <2>1, BrokenMore, BrokenType
  <2> HIDE DEF b
  <2>3. b \o Append(x, Break) = Append(b \o x, Break) /\ b \o x \in Line
    BY <2>2, TextsAssumption, AppendConcat DEF Line
  <2> DEFINE c == b \o x
  <2>4. Broken(t) = Append(c, Break) /\ c \in Line
    BY <2>2, <2>3
  <2> HIDE DEF c
  <2>5. Joined(t) = c
    <3>1. /\ Len(Append(c, Break)) = Len(c) + 1
          /\ Len(c) \in Nat
          /\ SubSeq(Append(c, Break), 1, Len(c)) = c
      BY <2>4 DEF Line
    <3>2. Len(c) + 1 - 1 = Len(c)
      BY <3>1
    <3> QED
      BY <2>4, <3>1, <3>2 DEF Joined
  <2> QED
    BY <1>2, <1>3, <2>4, <2>5
<1>4. CASE t = << >>
  <2>1. Broken(t) = << >>
    BY <1>4, BrokenOne
  <2>2. Len(<< >>) - 1 < 1 /\ Len(<< >>) - 1 \in Int /\ 1 \in Int
    OBVIOUS
  <2> QED
    BY <1>2, <1>4, <2>1, <2>2, SubSeqEmpty DEF Joined
<1> QED
  BY <1>3, <1>4

-----------------------------------------------------------------------------

(* r goes from base by the steps 1 to n.                                   *)
Follows(r, base, step, n) ==
    r[0] = base /\ \A i \in 1 .. n : r[i] = step[i][r[i - 1]]

(* A recursion over 1 .. n with values in X.                               *)
LEMMA RecursionExists ==
  ASSUME NEW n \in Nat, NEW X, NEW base \in X, NEW step \in [1 .. n -> [X -> X]]
  PROVE  \E r \in [0 .. n -> X] : Follows(r, base, step, n)
<1> DEFINE Part(r, m) == r[0] = base /\ \A i \in 1 .. m : r[i] = step[i][r[i - 1]]
           Done == {m \in Nat : m <= n => \E r \in [0 .. m -> X] : Part(r, m)}
<1>1. 0 \in Done
  <2> DEFINE r == [i \in 0 .. 0 |-> base]
  <2>1. r \in [0 .. 0 -> X] /\ Part(r, 0)
    OBVIOUS
  <2> QED
    BY <2>1
<1>2. ASSUME NEW m \in Nat, m \in Done PROVE m + 1 \in Done
  <2> SUFFICES ASSUME m + 1 <= n PROVE \E r \in [0 .. m + 1 -> X] : Part(r, m + 1)
    OBVIOUS
  <2>1. PICK r \in [0 .. m -> X] : Part(r, m)
    BY <1>2
  <2> DEFINE q == [i \in 0 .. m + 1 |-> IF i = m + 1 THEN step[m + 1][r[m]] ELSE r[i]]
  <2>2. m + 1 \in 1 .. n /\ m \in 0 .. m /\ step[m + 1] \in [X -> X] /\ r[m] \in X
    BY <2>1
  <2>3. step[m + 1][r[m]] \in X
    BY <2>2
  <2>4. q \in [0 .. m + 1 -> X]
    BY <2>1, <2>3
  <2>5. q[m + 1] = step[m + 1][r[m]] /\ \A i \in 0 .. m : q[i] = r[i]
    OBVIOUS
  <2> HIDE DEF q
  <2>6. q[0] = base
    BY <2>1, <2>5
  <2>7. ASSUME NEW i \in 1 .. m + 1 PROVE q[i] = step[i][q[i - 1]]
    <3>1. CASE i = m + 1
      <4>1. i - 1 = m /\ m \in 0 .. m
        BY <3>1
      <4> QED
        BY <2>5, <3>1, <4>1
    <3>2. CASE i # m + 1
      <4>1. i \in 1 .. m /\ i \in 0 .. m /\ i - 1 \in 0 .. m
        BY <3>2
      <4>2. r[i] = step[i][r[i - 1]]
        BY <2>1, <4>1
      <4> QED
        BY <2>5, <4>1, <4>2
    <3> QED
      BY <3>1, <3>2
  <2> QED
    BY <2>4, <2>6, <2>7
<1>3. \A m \in Nat : m \in Done
  <2> HIDE DEF Done
  <2> QED
    BY <1>1, <1>2, NaturalsIn
<1>4. PICK r \in [0 .. n -> X] : Part(r, n)
  <2>1. n \in Done /\ n <= n
    BY <1>3
  <2> QED
    BY <2>1
<1> QED
  BY <1>4 DEF Follows

(* A line without a break.                                                 *)
Whole == Seq(Symbols \ {Break})

(* A symbol more leaves no break in a piece.                               *)
LEMMA AddSymbolType ==
  ASSUME NEW line \in Line, NEW n \in 1 .. Len(line), NEW ps \in Seq(Whole)
  PROVE  AddSymbol(line, ps, n) \in Seq(Whole)
<1> DEFINE symbol == IF line[n] = Break THEN <<>> ELSE <<line[n]>>
<1>1. symbol \in Whole
  <2>1. line[n] \in Symbols
    BY DEF Line
  <2>2. CASE line[n] = Break
    BY <2>2 DEF Whole
  <2>3. CASE line[n] # Break
    <3> DEFINE x == line[n]
    <3>1. x \in Symbols \ {Break}
      BY <2>1, <2>3
    <3> HIDE DEF x
    <3>2. <<x>> \in Whole
      BY <3>1 DEF Whole
    <3> QED
      BY <2>3, <3>2 DEF x
  <2> QED
    BY <2>2, <2>3
<1>2. AddSymbol(line, ps, n) = IF n = 1 \/ line[n - 1] = Break THEN Append(ps, symbol)
                               ELSE [ps EXCEPT ![Len(ps)] = @ \o symbol]
  BY DEF AddSymbol
<1> HIDE DEF symbol
<1>3. Append(ps, symbol) \in Seq(Whole)
  BY <1>1
<1>4. [ps EXCEPT ![Len(ps)] = @ \o symbol] \in Seq(Whole)
  <2>1. CASE ps = << >>
    <3>1. [ps EXCEPT ![Len(ps)] = @ \o symbol] = << >>
      BY <2>1
    <3>2. << >> \in Seq(Whole)
      OBVIOUS
    <3> QED
      BY ONLY <3>1, <3>2, Zenon
  <2>2. CASE ps # << >>
    <3>1. Len(ps) \in 1 .. Len(ps) /\ ps[Len(ps)] \in Whole
      BY <2>2
    <3>2. ps[Len(ps)] \o symbol \in Whole
      BY <1>1, <3>1 DEF Whole
    <3> DEFINE x == ps[Len(ps)] \o symbol
    <3>3. [ps EXCEPT ![Len(ps)] = @ \o symbol] = [ps EXCEPT ![Len(ps)] = x]
      BY <3>1
    <3>4. x \in Whole
      BY <3>2
    <3> HIDE DEF x, Whole
    <3>5. [ps EXCEPT ![Len(ps)] = x] \in Seq(Whole)
      BY ONLY <3>1, <3>4, ps \in Seq(Whole)
    <3> QED
      BY <3>3, <3>5
  <2> QED
    BY <2>1, <2>2
<1> QED
  BY <1>2, <1>3, <1>4

(* The pieces of the first symbols, symbol by symbol.                      *)
LEMMA SplitUnfolds ==
  ASSUME NEW line \in Line
  PROVE  \E r \in [0 .. Len(line) -> Seq(Whole)] :
            /\ SplitLines(line) = r[Len(line)]
            /\ r[0] = << >>
            /\ \A n \in 1 .. Len(line) : r[n] = AddSymbol(line, r[n - 1], n)
<1> DEFINE m == Len(line)
           X == Seq(Whole)
           step == [n \in 1 .. m |-> [ps \in X |-> AddSymbol(line, ps, n)]]
           Is(r) == r = [n \in 0 .. m |-> IF n = 0 THEN <<>> ELSE AddSymbol(line, r[n - 1], n)]
<1>1. m \in Nat /\ << >> \in X
  BY DEF Line
<1>2. step \in [1 .. m -> [X -> X]]
  <2>1. \A n \in 1 .. m, ps \in X : AddSymbol(line, ps, n) \in X
    BY AddSymbolType
  <2> HIDE DEF X, m
  <2> QED
    BY <2>1
<1>3. \A n \in 1 .. m, ps \in X : step[n][ps] = AddSymbol(line, ps, n)
  <2> HIDE DEF X, m
  <2> QED
    OBVIOUS
<1> HIDE DEF step, m, X
<1>4. PICK q \in [0 .. m -> X] : q[0] = << >> /\ \A i \in 1 .. m : q[i] = step[i][q[i - 1]]
  <2>1. \E q \in [0 .. m -> X] : Follows(q, << >>, step, m)
    BY ONLY <1>1, <1>2, RecursionExists
  <2> QED
    BY <2>1 DEF Follows
<1>5. \A i \in 1 .. m : q[i] = AddSymbol(line, q[i - 1], i)
  <2> TAKE i \in 1 .. m
  <2>1. i - 1 \in 0 .. m
    BY <1>1
  <2> QED
    BY <1>3, <1>4, <2>1
<1>6. Is(q)
  <2>1. \A n \in 0 .. m : q[n] = IF n = 0 THEN << >> ELSE AddSymbol(line, q[n - 1], n)
    BY <1>1, <1>4, <1>5
  <2> QED
    BY <2>1
<1> DEFINE r == CHOOSE p : Is(p)
<1>7. Is(r)
  <2> HIDE DEF Is
  <2> QED
    BY <1>6
<1>8. SplitLines(line) = r[m]
  BY Zenon DEF SplitLines, m
<1> HIDE DEF r
<1>9. \A n \in 0 .. m : r[n] = IF n = 0 THEN << >> ELSE AddSymbol(line, r[n - 1], n)
  BY <1>7
<1> HIDE DEF Is
<1>10. \A n \in 0 .. m : r[n] \in X
  <2> DEFINE Done == {n \in Nat : n <= m => r[n] \in X}
  <2>1. 0 \in Done
    BY <1>1, <1>9
  <2>2. ASSUME NEW n \in Nat, n \in Done PROVE n + 1 \in Done
    <3> SUFFICES ASSUME n + 1 <= m PROVE r[n + 1] \in X
      OBVIOUS
    <3>1. n + 1 \in 0 .. m /\ n + 1 \in 1 .. m /\ n + 1 # 0 /\ n + 1 - 1 = n /\ r[n] \in X
      BY <1>1, <2>2
    <3>2. r[n + 1] = AddSymbol(line, r[n], n + 1)
      BY <1>9, <3>1
    <3> QED
      BY <3>1, <3>2, AddSymbolType DEF X, m
  <2> HIDE DEF Done
  <2>3. \A n \in Nat : n \in Done
    BY <2>1, <2>2, NaturalsIn
  <2> QED
    BY <1>1, <2>3 DEF Done
<1>11. DOMAIN r = 0 .. m
  BY <1>7 DEF Is
<1>12. r \in [0 .. m -> X] /\ r[0] = << >> /\ \A n \in 1 .. m : r[n] = AddSymbol(line, r[n - 1], n)
  <2>1. r = [n \in 0 .. m |-> r[n]]
    BY <1>7 DEF Is
  <2>2. r \in [0 .. m -> X]
    BY ONLY <1>10, <2>1
  <2>3. r[0] = << >>
    BY <1>1, <1>9
  <2>4. ASSUME NEW n \in 1 .. m PROVE r[n] = AddSymbol(line, r[n - 1], n)
    <3>1. n \in 0 .. m /\ n # 0
      BY <1>1
    <3> QED
      BY <1>9, <3>1
  <2> QED
    BY <2>2, <2>3, <2>4
<1> QED
  BY <1>8, <1>12 DEF m, X

(* A line without a break is a line.                                       *)
LEMMA WholeIsLine ==
  /\ Whole \subseteq Line /\ Seq(Whole) \subseteq Seq(Line)
<1>1. Whole \subseteq Line
  BY DEF Whole, Line
<1>2. ASSUME NEW t \in Seq(Whole) PROVE t \in Seq(Line)
  <2> HIDE DEF Whole, Line
  <2> QED
    BY <1>1
<1> QED
  BY <1>1, <1>2

(* What a line is with its symbols added to pieces: its end has a break.   *)
Ending(line, n) ==
    IF line[n] = Break THEN SubSeq(line, 1, n) ELSE Append(SubSeq(line, 1, n), Break)

(* The last piece with a symbol more.                                      *)
LEMMA LastPiece ==
  ASSUME NEW S, NEW s \in Seq(S), NEW x \in S, NEW y \in S
  PROVE  [Append(s, x) EXCEPT ![Len(Append(s, x))] = y] = Append(s, y)
<1> DEFINE t == Append(s, x)
           u == [t EXCEPT ![Len(t)] = y]
           v == Append(s, y)
<1>1. t \in Seq(S) /\ Len(t) = Len(s) + 1 /\ Len(s) \in Nat /\ \A i \in 1 .. Len(s) : t[i] = s[i]
  OBVIOUS
<1>2. v \in Seq(S) /\ Len(v) = Len(s) + 1 /\ v[Len(s) + 1] = y /\ \A i \in 1 .. Len(s) : v[i] = s[i]
  OBVIOUS
<1> HIDE DEF t, v
<1>3. /\ u \in Seq(S) /\ Len(u) = Len(s) + 1
      /\ \A i \in 1 .. Len(s) + 1 : u[i] = IF i = Len(s) + 1 THEN y ELSE t[i]
  BY <1>1, ExceptSeq
<1> HIDE DEF u
<1>4. \A i \in 1 .. Len(s) + 1 : u[i] = v[i]
  <2> TAKE i \in 1 .. Len(s) + 1
  <2>1. i = Len(s) + 1 \/ i \in 1 .. Len(s)
    BY <1>1
  <2> QED
    BY <1>1, <1>2, <1>3, <2>1
<1>5. u = v
  BY <1>1, <1>2, <1>3, <1>4, SeqEqual
<1> QED
  BY <1>5 DEF t, u, v

(* A symbol more, whether it ends a piece or not.                          *)
LEMMA AddedSymbol ==
  ASSUME NEW line \in Line, NEW n \in 1 .. Len(line), NEW ps \in Seq(Whole),
         n = 1 => ps = << >>,
         n > 1 => ps # << >> /\ Broken(ps) = Ending(line, n - 1)
  PROVE  /\ AddSymbol(line, ps, n) # << >>
         /\ Broken(AddSymbol(line, ps, n)) = Ending(line, n)
<1> DEFINE x == line[n]
           symbol == IF x = Break THEN <<>> ELSE <<x>>
           b == SubSeq(line, 1, n - 1)
<1>1. /\ n \in Nat /\ x \in Symbols /\ Break \in Symbols /\ b \in Line
      /\ SubSeq(line, 1, n) = Append(b, x)
      /\ n = 1 => b = << >>
  <2>1. /\ n - 1 \in Nat /\ n - 1 + 1 = n /\ n - 1 + 1 <= Len(line) /\ line \in Seq(Symbols)
    BY DEF Line
  <2>2. b \in Seq(Symbols) /\ x \in Symbols /\ SubSeq(line, 1, n) = Append(b, x)
    <3>1. PICK k \in Nat : k = n - 1
      BY <2>1
    <3>2. /\ SubSeq(line, 1, k) \in Seq(Symbols) /\ line[k + 1] \in Symbols
          /\ SubSeq(line, 1, k + 1) = Append(SubSeq(line, 1, k), line[k + 1])
      BY <2>1, <3>1, OneMore
    <3> QED
      BY <2>1, <3>1, <3>2
  <2>3. n = 1 => b = << >>
    BY <2>1
  <2> QED
    BY <2>1, <2>2, <2>3, TextsAssumption DEF Line
<1>2. AddSymbol(line, ps, n) = IF n = 1 \/ line[n - 1] = Break THEN Append(ps, symbol)
                               ELSE [ps EXCEPT ![Len(ps)] = @ \o symbol]
  BY DEF AddSymbol
<1>3. Ending(line, n) = IF x = Break THEN Append(b, x) ELSE Append(Append(b, x), Break)
  BY <1>1 DEF Ending
<1>4. n > 1 => Ending(line, n - 1) = IF line[n - 1] = Break THEN b ELSE Append(b, Break)
  BY DEF Ending
<1>5. ps \in Seq(Line) /\ Broken(ps) \in Line
  BY WholeIsLine, BrokenType
<1> HIDE DEF b
<1>6. CASE n = 1 \/ line[n - 1] = Break
  <2>1. Broken(ps) = b
    <3>1. CASE n = 1
      BY <1>1, <3>1, BrokenOne
    <3>2. CASE n # 1
      <4>1. n > 1
        BY <3>2
      <4> QED
        BY <1>4, <1>6, <3>2, <4>1
    <3> QED
      BY <3>1, <3>2
  <2>2. symbol \in Line
    <3> HIDE DEF x
    <3> QED
      BY <1>1 DEF Line
  <2>3. Append(ps, symbol) # << >> /\ Broken(Append(ps, symbol)) = b \o Append(symbol, Break)
    <3>1. Append(ps, symbol) # << >>
      <4> HIDE DEF symbol
      <4> QED
        BY <1>5
    <3> QED
      BY <1>5, <2>1, <2>2, <3>1, BrokenMore
  <2>4. b \o Append(symbol, Break) = Append(b \o symbol, Break)
    BY <1>1, <2>2, AppendConcat DEF Line
  <2>5. b \o << >> = b /\ b \o <<x>> = Append(b, x)
    <3>1. b \in Seq(Symbols) /\ x \in Symbols
      BY <1>1 DEF Line
    <3> HIDE DEF x
    <3> QED
      BY ONLY <3>1
  <2> QED
    BY <1>2, <1>3, <1>6, <2>3, <2>4, <2>5
<1>7. CASE ~(n = 1 \/ line[n - 1] = Break)
  <2>1. ps # << >> /\ Broken(ps) = Append(b, Break)
    <3>1. n > 1
      BY <1>1, <1>7
    <3> QED
      BY <1>4, <1>7, <3>1
  <2>2. PICK s \in Seq(Whole), y \in Whole : ps = Append(s, y)
    BY <2>1, SequenceEmptyOrAppend
  <2>3. s \in Seq(Line) /\ y \in Line
    BY WholeIsLine
  <2> DEFINE c == Broken(s)
  <2>4. c \in Line /\ Broken(ps) = c \o Append(y, Break)
    BY <2>2, <2>3, BrokenMore, BrokenType
  <2>5. c \o Append(y, Break) = Append(c \o y, Break) /\ c \o y \in Line
    BY <1>1, <2>3, <2>4, AppendConcat DEF Line
  <2>6. c \o y = b
    <3> DEFINE d == c \o y
    <3>1. d \in Seq(Symbols) /\ b \in Seq(Symbols) /\ Append(d, Break) = Append(b, Break)
      BY <1>1, <2>1, <2>4, <2>5 DEF Line
    <3> HIDE DEF d
    <3>2. d = b
      BY <1>1, <3>1, AppendInjective
    <3> QED
      BY <3>2 DEF d
  <2>8. symbol \in Line
    <3> HIDE DEF x
    <3> QED
      BY <1>1 DEF Line
  <2> DEFINE z == y \o symbol
  <2>9. z \in Line
    <3> HIDE DEF symbol
    <3> QED
      BY <2>3, <2>8 DEF Line
  <2>7. AddSymbol(line, ps, n) = Append(s, y \o symbol)
    <3>1. ps[Len(ps)] = y
      BY <2>2
    <3>2. [ps EXCEPT ![Len(ps)] = @ \o symbol] = [ps EXCEPT ![Len(ps)] = ps[Len(ps)] \o symbol]
      <4> HIDE DEF symbol
      <4> QED
        OBVIOUS
    <3>3. [ps EXCEPT ![Len(ps)] = @ \o symbol] = [ps EXCEPT ![Len(ps)] = z]
      BY <3>1, <3>2
    <3>5. z \in Line
      BY <2>9
    <3> HIDE DEF z
    <3>4. [ps EXCEPT ![Len(ps)] = z] = Append(s, z)
      BY <2>2, <2>3, <3>5, LastPiece
    <3> QED
      BY <1>2, <1>7, <3>3, <3>4 DEF z
  <2>10. c \o z = b \o symbol /\ b \o symbol \in Line
    <3>1. (c \o y) \o symbol = c \o (y \o symbol)
      <4> HIDE DEF c, symbol
      <4>1. c \in Line /\ y \in Line /\ symbol \in Line
        BY <2>3, <2>4, <2>8 DEF Line
      <4>2. Regroups(c, y, symbol)
        BY ONLY <4>1, LineRegroup
      <4> QED
        BY ONLY <4>2 DEF Regroups
    <3>2. b \o symbol \in Line
      <4> HIDE DEF symbol
      <4> QED
        BY <1>1, <2>8 DEF Line
    <3> QED
      BY <2>6, <3>1, <3>2
  <2> HIDE DEF z
  <2>11. Append(s, z) # << >> /\ Broken(Append(s, z)) = c \o Append(z, Break)
    <3>1. Append(s, z) # << >>
      BY <2>3, <2>9, AppendProperties
    <3> QED
      BY <2>3, <2>9, <3>1, BrokenMore
  <2>12. c \o Append(z, Break) = Append(c \o z, Break)
    BY TextsAssumption, <2>4, <2>9, LineAppend
  <2>13. b \o << >> = b /\ b \o <<x>> = Append(b, x)
    <3>1. b \in Seq(Symbols) /\ x \in Symbols
      BY <1>1 DEF Line
    <3> HIDE DEF x
    <3> QED
      BY ONLY <3>1
  <2> QED
    <3>1. AddSymbol(line, ps, n) = Append(s, z)
      BY <2>7 DEF z
    <3>2. Broken(AddSymbol(line, ps, n)) = Append(b \o symbol, Break)
      BY <2>10, <2>11, <2>12, <3>1
    <3>3. CASE x = Break
      BY <1>3, <2>11, <2>13, <3>1, <3>2, <3>3
    <3>4. CASE x # Break
      BY <1>3, <2>11, <2>13, <3>1, <3>2, <3>4
    <3> QED
      BY <3>3, <3>4
<1> QED
  BY <1>6, <1>7

(* The pieces between breaks, each with a break, are the line again, but   *)
(* for a break its end may lack; they begin with what has none.            *)
LEMMA SplitIs ==
  ASSUME NEW line \in Line
  PROVE  /\ SplitLines(line) \in Seq(Whole)
         /\ line = << >> => SplitLines(line) = << >>
         /\ line # << >> => /\ SplitLines(line) # << >>
                           /\ Broken(SplitLines(line)) = Ending(line, Len(line))
         /\ \A p \in 1 .. Len(line) :
               (\A i \in 1 .. p : line[i] # Break)
                 => /\ Len(SplitLines(line)[1]) >= p
                    /\ SubSeq(SplitLines(line)[1], 1, p) = SubSeq(line, 1, p)
<1> DEFINE m == Len(line)
<1>0. m \in Nat
  BY DEF Line
<1>1. PICK r \in [0 .. m -> Seq(Whole)] :
         /\ SplitLines(line) = r[m]
         /\ r[0] = << >>
         /\ \A n \in 1 .. m : r[n] = AddSymbol(line, r[n - 1], n)
  BY SplitUnfolds
<1> DEFINE Good(n) == n > 0 => r[n] # << >> /\ Broken(r[n]) = Ending(line, n)
           Done == {n \in Nat : n <= m => Good(n)}
<1>2. 0 \in Done
  OBVIOUS
<1>3. ASSUME NEW n \in Nat, n \in Done PROVE n + 1 \in Done
  <2> SUFFICES ASSUME n + 1 <= m PROVE Good(n + 1)
    OBVIOUS
  <2>1. PICK k \in 1 .. m : k = n + 1
    BY <1>0
  <2>2. r[k] = AddSymbol(line, r[k - 1], k) /\ k - 1 = n /\ n \in 0 .. m
    BY <1>0, <1>1, <2>1
  <2>3. r[n] \in Seq(Whole) /\ Good(n)
    BY <1>1, <1>3, <2>2
  <2>4. k = 1 => r[n] = << >>
    BY <1>1, <2>2
  <2>5. k > 1 => r[n] # << >> /\ Broken(r[n]) = Ending(line, k - 1)
    BY <2>1, <2>2, <2>3
  <2>6. AddSymbol(line, r[n], k) # << >> /\ Broken(AddSymbol(line, r[n], k)) = Ending(line, k)
    BY <2>3, <2>4, <2>5, AddedSymbol
  <2> QED
    BY <2>1, <2>2, <2>6
<1>4. m \in Done
  <2> HIDE DEF Done, m
  <2>1. \A n \in Nat : n \in Done
    BY <1>2, <1>3, NaturalsIn
  <2> QED
    BY <1>0, <2>1
<1>5. ASSUME NEW p \in 1 .. m, \A i \in 1 .. p : line[i] # Break
      PROVE  Len(r[m][1]) >= p /\ SubSeq(r[m][1], 1, p) = SubSeq(line, 1, p)
  <2> DEFINE Begins(n) == /\ n \in 1 .. p => r[n] = <<SubSeq(line, 1, n)>>
                          /\ n >= p => /\ r[n] # << >>
                                       /\ Len(r[n][1]) >= p
                                       /\ SubSeq(r[n][1], 1, p) = SubSeq(line, 1, p)
             Before1 == {n \in Nat : n <= m => Begins(n)}
  <2>0. p \in Nat /\ 1 <= p /\ p <= m
    BY <1>0
  <2>1. 0 \in Before1
    BY <2>0
  <2>2. ASSUME NEW n \in Nat, n \in Before1 PROVE n + 1 \in Before1
    <3> SUFFICES ASSUME n + 1 <= m PROVE Begins(n + 1)
      OBVIOUS
    <3>1. PICK k \in 1 .. m : k = n + 1
      BY <1>0
    <3>2. r[k] = AddSymbol(line, r[n], k) /\ k - 1 = n /\ n \in 0 .. m
      <4>1. r[k] = AddSymbol(line, r[k - 1], k) /\ k - 1 = n
        BY <1>1, <3>1
      <4> QED
        BY <1>0, <3>1, <4>1
    <3>3. r[n] \in Seq(Whole) /\ Begins(n)
      <4> HIDE DEF Begins
      <4>1. Begins(n)
        BY <2>2, <3>2
      <4>2. r[n] \in Seq(Whole)
        BY <1>1, <3>2
      <4> QED
        BY <4>1, <4>2
    <3>4. line \in Seq(Symbols) /\ k \in Nat /\ k <= Len(line) /\ line[k] \in Symbols
      BY <1>0 DEF Line
    <3>5. CASE k <= p
      <4>1. line[k] # Break
        BY <1>5, <3>4, <3>5
      <4>2. r[k] = <<SubSeq(line, 1, k)>>
        <5>1. CASE n = 0
          <6>1. r[k] = Append(<< >>, <<line[k]>>)
            <7>1. k = 1 /\ r[n] = << >> /\ r[k] = AddSymbol(line, r[n], k)
              BY <1>1, <3>1, <3>2, <5>1
            <7>2. AddSymbol(line, r[n], k) = Append(r[n], <<line[k]>>)
              BY ONLY <4>1, <7>1, Zenon DEF AddSymbol
            <7> QED
              BY <7>1, <7>2
          <6>2. k = 1 /\ SubSeq(line, 1, 1) = <<line[1]>>
            <7>1. k = 1
              BY <3>1, <5>1
            <7>2. 1 <= Len(line) /\ Len(line) \in Nat
              BY <3>4, <7>1
            <7>3. SubSeq(line, 1, 1) = <<line[1]>>
              <8>1. SubSeq(line, 1, 0 + 1) = Append(SubSeq(line, 1, 0), line[0 + 1])
                BY ONLY <3>4, <7>2, OneMore
              <8>2. SubSeq(line, 1, 0) = << >>
                BY ONLY <3>4, SubSeqEmpty
              <8>3. \A e : Append(<< >>, e) = <<e>>
                OBVIOUS
              <8>4. SubSeq(line, 1, 1) = Append(<< >>, line[1])
                <9>1. 0 + 1 = 1
                  OBVIOUS
                <9> QED
                  BY ONLY <8>1, <8>2, <9>1, Zenon
              <8> QED
                BY ONLY <8>3, <8>4
            <7> QED
              BY <7>1, <7>3
          <6> QED
            BY <6>1, <6>2
        <5>2. CASE n # 0
          <6>1. r[n] = <<SubSeq(line, 1, n)>> /\ line[k - 1] # Break /\ k # 1
            BY <1>5, <2>0, <3>1, <3>2, <3>3, <3>5, <5>2
          <6>2. r[k] = [r[n] EXCEPT ![Len(r[n])] = r[n][Len(r[n])] \o <<line[k]>>]
            BY <3>2, <4>1, <6>1 DEF AddSymbol
          <6> DEFINE y == SubSeq(line, 1, n)
                     z == y \o <<line[k]>>
          <6>3. r[k] = [<<y>> EXCEPT ![1] = z]
            BY <6>1, <6>2
          <6>4. z = SubSeq(line, 1, k)
            <7>1. SubSeq(line, 1, n + 1) = Append(y, line[n + 1]) /\ y \in Seq(Symbols)
              BY <3>1, <3>4, OneMore
            <7>2. Append(y, line[k]) = y \o <<line[k]>>
              BY <3>4, <7>1, AppendIsConcat
            <7> QED
              BY <3>1, <7>1, <7>2
          <6> HIDE DEF y, z
          <6>5. [<<y>> EXCEPT ![1] = z] = <<z>>
            OBVIOUS
          <6> QED
            BY <6>3, <6>4, <6>5
        <5> QED
          BY <5>1, <5>2
      <4>3. k >= p => /\ r[k] # << >> /\ Len(r[k][1]) >= p
                      /\ SubSeq(r[k][1], 1, p) = SubSeq(line, 1, p)
        <5> SUFFICES ASSUME k >= p
                     PROVE  /\ r[k] # << >> /\ Len(r[k][1]) >= p
                            /\ SubSeq(r[k][1], 1, p) = SubSeq(line, 1, p)
          OBVIOUS
        <5>1. k = p
          BY <2>0, <3>4, <3>5
        <5> DEFINE y == SubSeq(line, 1, p)
        <5>2. y \in Seq(Symbols) /\ Len(y) = p /\ SubSeq(y, 1, p) = y
          BY <2>0, <3>4, <5>1
        <5>3. r[k] = <<y>>
          BY <4>2, <5>1
        <5> HIDE DEF y
        <5>4. r[k] # << >> /\ r[k][1] = y
          BY <5>3
        <5> QED
          BY <2>0, <5>2, <5>4 DEF y
      <4> QED
        BY <3>1, <4>2, <4>3
    <3>6. CASE k > p
      <4>1. n >= p /\ n \in Nat /\ k # 1
        BY <2>0, <3>1, <3>4, <3>6
      <4>2. r[n] # << >> /\ Len(r[n][1]) >= p /\ SubSeq(r[n][1], 1, p) = SubSeq(line, 1, p)
        BY <3>3, <4>1
      <4> DEFINE ps == r[n]
                 symbol == IF line[k] = Break THEN <<>> ELSE <<line[k]>>
      <4>3. ps \in Seq(Whole) /\ ps # << >> /\ ps[1] \in Whole
        BY <3>3, <4>2
      <4>4. symbol \in Seq(Symbols)
        <5> DEFINE x == line[k]
        <5>1. x \in Symbols
          BY <3>4
        <5> HIDE DEF x
        <5>2. <<x>> \in Seq(Symbols) /\ << >> \in Seq(Symbols)
          BY <5>1
        <5> QED
          BY <5>2 DEF x
      <4>5. r[k] = IF line[k - 1] = Break THEN Append(ps, symbol)
                   ELSE [ps EXCEPT ![Len(ps)] = ps[Len(ps)] \o symbol]
        BY <3>2, <4>1 DEF AddSymbol
      <4> HIDE DEF symbol, ps
      <4>6. Append(ps, symbol)[1] = ps[1]
        BY <4>3
      <4>7. [ps EXCEPT ![Len(ps)] = ps[Len(ps)] \o symbol][1] \in {ps[1], ps[1] \o symbol}
        <5> DEFINE e == ps[Len(ps)] \o symbol
        <5>1. 1 \in DOMAIN ps /\ Len(ps) \in Nat
          BY <4>3
        <5>2. Len(ps) = 1 => e = ps[1] \o symbol
          OBVIOUS
        <5> HIDE DEF e
        <5>3. [ps EXCEPT ![Len(ps)] = e][1] = IF Len(ps) = 1 THEN e ELSE ps[1]
          BY <5>1, Zenon
        <5>4. [ps EXCEPT ![Len(ps)] = e][1] \in {ps[1], ps[1] \o symbol}
          BY <5>2, <5>3
        <5> QED
          BY <5>4 DEF e
      <4>8. r[k][1] \in {ps[1], ps[1] \o symbol}
        BY <4>5, <4>6, <4>7
      <4>9. /\ Len(ps[1] \o symbol) >= p
            /\ SubSeq(ps[1] \o symbol, 1, p) = SubSeq(ps[1], 1, p)
        <5> DEFINE y == ps[1]
        <5>1. y \in Seq(Symbols) /\ Len(y) >= p
          BY <4>2, <4>3 DEF ps, Whole
        <5> HIDE DEF y
        <5>2. Len(y \o symbol) >= p /\ SubSeq(y \o symbol, 1, p) = SubSeq(y, 1, p)
          BY ONLY <2>0, <4>4, <5>1, SMTT(30)
        <5> QED
          BY <5>2 DEF y
      <4>10. r[k] # << >>
        <5>1. AddSymbol(line, r[n], k) \in Seq(Whole)
          BY <3>3, AddSymbolType
        <5>2. Append(ps, symbol) # << >>
          BY <4>3
        <5>3. [ps EXCEPT ![Len(ps)] = ps[Len(ps)] \o symbol] # << >>
          BY <4>3
        <5> QED
          BY <4>5, <5>2, <5>3
      <4>11. Len(r[k][1]) >= p /\ SubSeq(r[k][1], 1, p) = SubSeq(line, 1, p)
        <5>1. Len(ps[1]) >= p /\ SubSeq(ps[1], 1, p) = SubSeq(line, 1, p)
          BY <4>2 DEF ps
        <5> QED
          BY <4>8, <4>9, <5>1
      <4>12. ~(k \in 1 .. p)
        BY <2>0, <3>4, <3>6
      <4> QED
        BY <3>1, <4>10, <4>11, <4>12
    <3> QED
      BY <2>0, <3>4, <3>5, <3>6
  <2>3. m \in Before1
    <3> HIDE DEF Before1, m
    <3>1. \A n \in Nat : n \in Before1
      BY <2>1, <2>2, NaturalsIn
    <3> QED
      BY <1>0, <3>1
  <2> QED
    BY <2>0, <2>3
<1>6. r[m] \in Seq(Whole)
  BY <1>0, <1>1
<1>7. CASE line = << >>
  <2>1. m = 0
    BY <1>7
  <2> QED
    BY <1>1, <1>6, <1>7, <2>1
<1>8. CASE line # << >>
  <2>1. m > 0
    BY <1>0, <1>8 DEF Line
  <2>2. r[m] # << >> /\ Broken(r[m]) = Ending(line, m)
    BY <1>0, <1>4, <2>1
  <2>3. /\ SplitLines(line) \in Seq(Whole) /\ SplitLines(line) # << >>
        /\ Broken(SplitLines(line)) = Ending(line, Len(line))
    BY <1>1, <1>6, <2>2
  <2> QED
    BY <1>1, <1>5, <1>8, <2>3
<1> QED
  BY <1>7, <1>8

-----------------------------------------------------------------------------

(* The symbols of a sequence, those that are breaks left out.              *)
LessBreaks(x) == [i \in 1 .. Len(x) |-> IF x[i] = Break THEN <<>> ELSE <<x[i]>>]

(* What WithoutBreaks concatenates.                                        *)
LEMMA LessBreaksIs ==
  ASSUME NEW x \in Line
  PROVE  /\ LessBreaks(x) \in Seq(Line)
         /\ Len(LessBreaks(x)) = Len(x)
         /\ \A i \in 1 .. Len(x) :
               LessBreaks(x)[i] = IF x[i] = Break THEN <<>> ELSE <<x[i]>>
         /\ WithoutBreaks(x) = FlattenSeq(LessBreaks(x))
         /\ WithoutBreaks(x) \in Line
<1>1. \A i \in 1 .. Len(x) : x[i] \in Symbols
  BY DEF Line
<1>2. \A e \in Symbols : (IF e = Break THEN <<>> ELSE <<e>>) \in Line
  <2> TAKE e \in Symbols
  <2>1. <<e>> \in Line /\ << >> \in Line
    BY DEF Line
  <2> QED
    BY <2>1
<1>3. \A i \in 1 .. Len(x) : (IF x[i] = Break THEN <<>> ELSE <<x[i]>>) \in Line
  <2> HIDE DEF Line
  <2> QED
    BY <1>1, <1>2
<1>4. /\ LessBreaks(x) \in Seq(Line)
      /\ Len(LessBreaks(x)) = Len(x)
      /\ \A i \in 1 .. Len(x) :
            LessBreaks(x)[i] = IF x[i] = Break THEN <<>> ELSE <<x[i]>>
  <2>1. Len(x) \in Nat
    BY DEF Line
  <2> HIDE DEF Line
  <2> QED
    BY <1>3, <2>1 DEF LessBreaks
<1>5. WithoutBreaks(x) = FlattenSeq(LessBreaks(x))
  BY DEF WithoutBreaks, LessBreaks
<1> QED
  BY <1>4, <1>5, FlattenType DEF Line

(* Breaks are left out on both sides of where sequences are joined.        *)
LEMMA WithoutBreaksConcat ==
  ASSUME NEW x \in Line, NEW y \in Line
  PROVE  x \o y \in Line /\ WithoutBreaks(x \o y) = WithoutBreaks(x) \o WithoutBreaks(y)
<1>1. x \o y \in Line
  BY DEF Line
<1> DEFINE a == LessBreaks(x)
           b == LessBreaks(y)
           c == LessBreaks(x \o y)
           Of(e) == IF e = Break THEN <<>> ELSE <<e>>
<1>2. /\ a \in Seq(Line) /\ Len(a) = Len(x) /\ \A i \in 1 .. Len(x) : a[i] = Of(x[i])
      /\ b \in Seq(Line) /\ Len(b) = Len(y) /\ \A i \in 1 .. Len(y) : b[i] = Of(y[i])
      /\ c \in Seq(Line) /\ Len(c) = Len(x \o y)
      /\ \A i \in 1 .. Len(x \o y) : c[i] = Of((x \o y)[i])
      /\ WithoutBreaks(x) = FlattenSeq(a) /\ WithoutBreaks(y) = FlattenSeq(b)
      /\ WithoutBreaks(x \o y) = FlattenSeq(c)
  BY <1>1, LessBreaksIs
<1> HIDE DEF a, b, c, Of
<1>3. c = a \o b
  <2>1. a \o b \in Seq(Line) /\ Len(a \o b) = Len(x) + Len(y)
    <3>1. a \in Seq(Line) /\ b \in Seq(Line) /\ Len(a) = Len(x) /\ Len(b) = Len(y)
      BY <1>2
    <3> QED
      BY ONLY <3>1
  <2>2. Len(x \o y) = Len(x) + Len(y) /\ Len(x) \in Nat /\ Len(y) \in Nat
    BY DEF Line
  <2>3. ASSUME NEW i \in 1 .. Len(x) + Len(y) PROVE c[i] = (a \o b)[i]
    <3>1. CASE i <= Len(x)
      <4>1. i \in 1 .. Len(x) /\ i \in 1 .. Len(x \o y)
        BY <2>2, <3>1
      <4>2. (x \o y)[i] = x[i]
        BY <4>1 DEF Line
      <4>3. (a \o b)[i] = a[i]
        BY <1>2, <4>1
      <4> QED
        BY <1>2, <4>1, <4>2, <4>3
    <3>2. CASE i > Len(x)
      <4>1. i - Len(x) \in 1 .. Len(y) /\ i \in 1 .. Len(x \o y)
        BY <2>2, <3>2
      <4>2. (x \o y)[i] = y[i - Len(x)]
        BY <2>2, <3>2 DEF Line
      <4>3. (a \o b)[i] = b[i - Len(x)]
        BY <1>2, <2>2, <3>2
      <4>4. c[i] = Of((x \o y)[i])
        BY <1>2, <4>1
      <4>5. b[i - Len(x)] = Of(y[i - Len(x)])
        BY <1>2, <4>1
      <4> QED
        BY <4>2, <4>3, <4>4, <4>5
    <3>3. i <= Len(x) \/ i > Len(x)
      BY <2>2
    <3> QED
      BY ONLY <3>1, <3>2, <3>3
  <2> QED
    BY <1>2, <2>1, <2>2, <2>3, SeqEqual
<1>4. FlattenSeq(a \o b) = FlattenSeq(a) \o FlattenSeq(b)
  BY <1>2, FlattenConcat DEF Line
<1> QED
  BY <1>1, <1>2, <1>3, <1>4

(* A break alone leaves nothing, at the end of a line as well.             *)
LEMMA WithoutBreaksOne ==
  /\ WithoutBreaks(<< >>) = << >>
  /\ WithoutBreaks(<<Break>>) = << >>
  /\ \A x \in Line : WithoutBreaks(Append(x, Break)) = WithoutBreaks(x)
<1>1. << >> \in Line /\ <<Break>> \in Line
  BY TextsAssumption DEF Line
<1>2. WithoutBreaks(<< >>) = << >>
  <2>1. LessBreaks(<< >>) \in Seq(Line) /\ Len(LessBreaks(<< >>)) = Len(<< >>)
        /\ WithoutBreaks(<< >>) = FlattenSeq(LessBreaks(<< >>))
    BY <1>1, LessBreaksIs
  <2>2. Len(LessBreaks(<< >>)) = 0
    BY <2>1
  <2> QED
    BY <2>1, <2>2, FlattenIs DEF Line
<1>3. WithoutBreaks(<<Break>>) = << >>
  <2> DEFINE u == LessBreaks(<<Break>>)
  <2>1. /\ u \in Seq(Line) /\ Len(u) = Len(<<Break>>)
        /\ \A i \in 1 .. Len(<<Break>>) :
              u[i] = IF <<Break>>[i] = Break THEN <<>> ELSE <<(<<Break>>[i])>>
        /\ WithoutBreaks(<<Break>>) = FlattenSeq(u)
    BY <1>1, LessBreaksIs
  <2>2. Len(<<Break>>) = 1 /\ <<Break>>[1] = Break
    OBVIOUS
  <2> HIDE DEF u
  <2>3. Len(u) = 1 /\ u[1] = << >>
    BY <2>1, <2>2
  <2>4. u = << << >> >>
    BY <2>1, <2>3
  <2> QED
    BY <1>1, <2>1, <2>4, FlattenOne DEF Line
<1>4. ASSUME NEW x \in Line PROVE WithoutBreaks(Append(x, Break)) = WithoutBreaks(x)
  <2>1. Append(x, Break) = x \o <<Break>>
    BY TextsAssumption, AppendIsConcat DEF Line
  <2>2. WithoutBreaks(x \o <<Break>>) = WithoutBreaks(x) \o << >>
    BY <1>1, <1>3, WithoutBreaksConcat
  <2>3. WithoutBreaks(x) \in Seq(Symbols)
    BY LessBreaksIs DEF Line
  <2> QED
    BY <2>1, <2>2, <2>3, ConcatEmptySeq
<1> QED
  BY <1>2, <1>3, <1>4

(* Equal, but for breaks where some may be lost.                           *)
Alike(x, y) == IF MayLoseBreak THEN WithoutBreaks(x) = WithoutBreaks(y) ELSE x = y

(* What is put before two sequences decides nothing about them.            *)
LEMMA AlikeConcat ==
  ASSUME NEW u \in Line, NEW x \in Line, NEW y \in Line
  PROVE  /\ Alike(u \o x, u \o y) <=> Alike(x, y)
         /\ Alike(x, y) => Alike(x \o u, y \o u)
<1>1. WithoutBreaks(u \o x) = WithoutBreaks(u) \o WithoutBreaks(x)
      /\ WithoutBreaks(u \o y) = WithoutBreaks(u) \o WithoutBreaks(y)
      /\ WithoutBreaks(x \o u) = WithoutBreaks(x) \o WithoutBreaks(u)
      /\ WithoutBreaks(y \o u) = WithoutBreaks(y) \o WithoutBreaks(u)
  BY WithoutBreaksConcat
<1>2. WithoutBreaks(u) \in Line /\ WithoutBreaks(x) \in Line /\ WithoutBreaks(y) \in Line
  BY LessBreaksIs
<1>3. \A a, b, c \in Line : a \o b = a \o c => b = c
  BY ConcatSimplifications, Zenon DEF Line
<1>4. CASE MayLoseBreak
  <2>1. Alike(u \o x, u \o y) <=> WithoutBreaks(u \o x) = WithoutBreaks(u \o y)
    BY <1>4 DEF Alike
  <2>2. Alike(x, y) <=> WithoutBreaks(x) = WithoutBreaks(y)
    BY <1>4 DEF Alike
  <2>3. Alike(x \o u, y \o u) <=> WithoutBreaks(x \o u) = WithoutBreaks(y \o u)
    BY <1>4 DEF Alike
  <2> QED
    BY <1>1, <1>2, <1>3, <2>1, <2>2, <2>3, Zenon
<1>5. CASE ~MayLoseBreak
  <2>1. /\ Alike(u \o x, u \o y) <=> u \o x = u \o y
        /\ Alike(x, y) <=> x = y
        /\ Alike(x \o u, y \o u) <=> x \o u = y \o u
    BY <1>5 DEF Alike
  <2> QED
    BY <1>3, <2>1, Zenon
<1> QED
  BY <1>4, <1>5

(* Alike is transitive and symmetric.                                      *)
LEMMA AlikeTransitive ==
  ASSUME NEW x, NEW y, NEW z, Alike(x, y), Alike(y, z)
  PROVE  Alike(x, z) /\ Alike(y, x)
<1>1. CASE MayLoseBreak
  BY <1>1 DEF Alike
<1>2. CASE ~MayLoseBreak
  BY <1>2 DEF Alike
<1> QED
  BY <1>1, <1>2

(* No more symbols than a line has stand before a column, and no fewer     *)
(* before a later one.                                                     *)
LEMMA PrecedingIs ==
  ASSUME NEW line \in Line, NEW c \in Nat \ {0}
  PROVE  /\ Preceding(line, c) \in 0 .. Len(line)
         /\ \A d \in Nat \ {0} : c <= d => Preceding(line, c) <= Preceding(line, d)
<1>1. Len(line) \in Nat
  BY DEF Line
<1> QED
  BY <1>1 DEF Preceding

(* What stands before a position of a text, and what after it.             *)
LineTo(t, p) == SubSeq(t[p[1]], 1, Preceding(t[p[1]], p[2]))

LineFrom(t, p) == SubSeq(t[p[1]], Preceding(t[p[1]], p[2]) + 1, Len(t[p[1]]))

LinesTo(t, p) == SubSeq(t, 1, p[1] - 1)

LinesFrom(t, p) == SubSeq(t, p[1] + 1, Len(t))

HeadTo(t, p) == Broken(LinesTo(t, p)) \o LineTo(t, p)

RestFrom(t, p) == Append(LineFrom(t, p), Break) \o Broken(LinesFrom(t, p))

(* The parts of a text before and after a position.                        *)
LEMMA PartsType ==
  ASSUME NEW t \in Seq(Line), NEW p \in Position, p[1] <= Len(t)
  PROVE  /\ t[p[1]] \in Line /\ p[1] \in 1 .. Len(t)
         /\ LineTo(t, p) \in Line /\ LineFrom(t, p) \in Line
         /\ LinesTo(t, p) \in Seq(Line) /\ LinesFrom(t, p) \in Seq(Line)
         /\ Broken(LinesTo(t, p)) \in Line /\ Broken(LinesFrom(t, p)) \in Line
         /\ Append(LineFrom(t, p), Break) \in Line
         /\ HeadTo(t, p) \in Line /\ RestFrom(t, p) \in Line
         /\ Len(LineTo(t, p)) = Preceding(t[p[1]], p[2])
<1>1. p[1] \in 1 .. Len(t) /\ p[1] \in Nat /\ p[2] \in Nat \ {0}
  BY DEF Position
<1>2. t[p[1]] \in Line
  BY <1>1
<1>3. Preceding(t[p[1]], p[2]) \in 0 .. Len(t[p[1]])
  BY <1>1, <1>2, PrecedingIs
<1>4. LineTo(t, p) \in Line /\ LineFrom(t, p) \in Line /\ Len(LineTo(t, p)) = Preceding(t[p[1]], p[2])
  <2> DEFINE x == t[p[1]]
             k == Preceding(x, p[2])
  <2>1. x \in Seq(Symbols) /\ k \in 0 .. Len(x)
    BY <1>2, <1>3 DEF Line
  <2> HIDE DEF x, k
  <2>2. SubSeq(x, 1, k) \in Seq(Symbols) /\ SubSeq(x, k + 1, Len(x)) \in Seq(Symbols) /\ Len(SubSeq(x, 1, k)) = k
    BY <2>1
  <2> QED
    BY <2>2 DEF LineTo, LineFrom, Line, x, k
<1>5. LinesTo(t, p) \in Seq(Line) /\ LinesFrom(t, p) \in Seq(Line)
  <2> HIDE DEF Line
  <2> QED
    BY <1>1 DEF LinesTo, LinesFrom
<1>6. Broken(LinesTo(t, p)) \in Line /\ Broken(LinesFrom(t, p)) \in Line
  BY <1>5, BrokenType
<1>7. \A x \in Line : Append(x, Break) \in Line
  BY TextsAssumption DEF Line
<1>8. \A x, y \in Line : x \o y \in Line
  BY DEF Line
<1> QED
  BY <1>1, <1>2, <1>4, <1>5, <1>6, <1>7, <1>8 DEF HeadTo, RestFrom

(* A text is what stands before a position and what stands after it.       *)
LEMMA CutAt ==
  ASSUME NEW t \in Seq(Line), NEW p \in Position, p[1] <= Len(t)
  PROVE  Broken(t) = HeadTo(t, p) \o RestFrom(t, p)
<1> DEFINE a == Broken(LinesTo(t, p))
           x == LineTo(t, p)
           y == LineFrom(t, p)
           b == Broken(LinesFrom(t, p))
<1>1. a \in Line /\ b \in Line /\ x \in Line /\ y \in Line /\ Append(y, Break) \in Line /\ p[1] \in 1 .. Len(t) /\ t[p[1]] \in Line
  BY PartsType
<1>2. t[p[1]] = x \o y
  <2> DEFINE z == t[p[1]]
             k == Preceding(z, p[2])
  <2>1. z \in Seq(Symbols) /\ k \in 0 .. Len(z)
    BY <1>1, PrecedingIs DEF Line, Position
  <2>2. x = SubSeq(z, 1, k) /\ y = SubSeq(z, k + 1, Len(z))
    BY DEF LineTo, LineFrom
  <2> HIDE DEF z, k, x, y
  <2>3. SubSeq(z, 1, k) \o SubSeq(z, k + 1, Len(z)) = SubSeq(z, 1, Len(z))
    <3>1. Len(z) \in Nat /\ 1 \in 1 .. Len(z) + 1 /\ k \in 1 - 1 .. Len(z) /\ Len(z) \in k .. Len(z)
      BY <2>1
    <3> QED
      BY ONLY <2>1, <3>1, ConcatAdjacentSubSeq
  <2>4. SubSeq(z, 1, Len(z)) = z
    BY <2>1
  <2> QED
    BY <2>2, <2>3, <2>4 DEF z
<1>3. Broken(t) = (a \o Append(t[p[1]], Break)) \o b
  <2> DEFINE l == p[1]
             u == SubSeq(t, 1, l - 1)
             v == SubSeq(t, l + 1, Len(t))
             z == t[l]
  <2>1. l \in 1 .. Len(t) /\ z \in Line /\ u \in Seq(Line) /\ v \in Seq(Line)
    BY <1>1, PartsType DEF LinesTo, LinesFrom
  <2>2. t = Append(u, z) \o v
    <3> HIDE DEF Line, l
    <3>1. SubSeq(t, 1, l) = Append(u, t[l])
      <4>1. PICK k \in Nat : k = l - 1
        BY <2>1
      <4>2. k + 1 <= Len(t) /\ k + 1 = l
        BY <2>1, <4>1
      <4>3. SubSeq(t, 1, k + 1) = Append(SubSeq(t, 1, k), t[k + 1])
        BY <4>2, OneMore
      <4> QED
        BY <4>1, <4>2, <4>3
    <3>2. SubSeq(t, 1, l) \o SubSeq(t, l + 1, Len(t)) = SubSeq(t, 1, Len(t))
      BY <2>1, ConcatAdjacentSubSeq
    <3>3. SubSeq(t, 1, Len(t)) = t
      OBVIOUS
    <3> QED
      BY <3>1, <3>2, <3>3
  <2> HIDE DEF u, v, z
  <2>3. Append(u, z) \in Seq(Line) /\ Broken(Append(u, z)) = Broken(u) \o Append(z, Break)
    BY <2>1, BrokenMore
  <2>4. Broken(t) = (Broken(u) \o Append(z, Break)) \o Broken(v)
    BY <2>1, <2>2, <2>3, BrokenConcat
  <2> QED
    BY <2>4 DEF u, v, z, LinesTo, LinesFrom
<1> HIDE DEF a, b, x, y
<1>4. x \o Append(y, Break) = Append(x \o y, Break)
  BY <1>1, TextsAssumption, LineAppend
<1>5. (a \o (x \o Append(y, Break))) \o b = (a \o x) \o (Append(y, Break) \o b)
  <2> DEFINE z == Append(y, Break)
  <2>1. a \in Line /\ b \in Line /\ x \in Line /\ z \in Line
    BY <1>1 DEF Line
  <2> HIDE DEF z
  <2>2. a \o (x \o z) = (a \o x) \o z /\ a \o x \in Line
    <3>1. Regroups(a, x, z)
      BY ONLY <2>1, LineRegroup
    <3>2. a \o x \in Line
      BY ONLY <2>1, LineConcat
    <3> QED
      BY ONLY <3>1, <3>2 DEF Regroups
  <2>3. ((a \o x) \o z) \o b = (a \o x) \o (z \o b)
    <3> DEFINE w == a \o x
    <3>1. w \in Line
      BY <2>2
    <3> HIDE DEF w
    <3>2. Regroups(w, z, b)
      BY ONLY <2>1, <3>1, LineRegroup
    <3>3. (w \o z) \o b = w \o (z \o b)
      BY ONLY <3>2 DEF Regroups
    <3> QED
      BY <3>3 DEF w
  <2> QED
    BY <2>2, <2>3 DEF z
<1> QED
  BY <1>2, <1>3, <1>4, <1>5 DEF HeadTo, RestFrom, a, b, x, y

(* What a replacement consists of.                                         *)
LEMMA ReplacementType ==
  ASSUME NEW r \in Replacement
  PROVE  /\ r.start \in Position /\ r.end \in Position /\ r.text \in Line
         /\ r.start[1] \in Nat \ {0} /\ r.start[2] \in Nat \ {0}
         /\ r.end[1] \in Nat \ {0} /\ r.end[2] \in Nat \ {0}
  BY DEF Replacement, Position, Line

(* The new line is what stands before the range on its line, the text, and *)
(* what stands after it.                                                   *)
LEMMA MergedType ==
  ASSUME NEW t \in Seq(Line), NEW r \in Replacement, HasLines(t, r)
  PROVE  /\ Merged(t, r) = (LineTo(t, r.start) \o r.text) \o LineFrom(t, r.end)
         /\ Merged(t, r) \in Line
<1>1. LineTo(t, r.start) \in Line /\ LineFrom(t, r.end) \in Line /\ r.text \in Line
  BY ReplacementType, PartsType DEF HasLines
<1>2. Merged(t, r) = (LineTo(t, r.start) \o r.text) \o LineFrom(t, r.end)
  BY DEF Merged, LineTo, LineFrom
<1>3. \A x, y \in Line : x \o y \in Line
  BY DEF Line
<1> QED
  BY <1>1, <1>2, <1>3

(* A text with lines put in place of those of a range.                     *)
LEMMA SplicedIs ==
  ASSUME NEW t \in Seq(Line), NEW r \in Replacement, HasLines(t, r), NEW new \in Seq(Line)
  PROVE  /\ Spliced(t, r, new) \in Seq(Line)
         /\ Broken(Spliced(t, r, new))
              = (Broken(LinesTo(t, r.start)) \o Broken(new)) \o Broken(LinesFrom(t, r.end))
<1>1. LinesTo(t, r.start) \in Seq(Line) /\ LinesFrom(t, r.end) \in Seq(Line)
  BY ReplacementType, PartsType DEF HasLines
<1> DEFINE u == LinesTo(t, r.start)
           v == LinesFrom(t, r.end)
<1>2. Spliced(t, r, new) = (u \o new) \o v
  BY DEF Spliced, LinesTo, LinesFrom
<1> HIDE DEF u, v
<1>3. u \in Seq(Line) /\ v \in Seq(Line)
  BY <1>1 DEF u, v
<1>4. u \o new \in Seq(Line) /\ Broken(u \o new) = Broken(u) \o Broken(new)
  BY <1>3, BrokenConcat
<1>5. (u \o new) \o v \in Seq(Line) /\ Broken((u \o new) \o v) = Broken(u \o new) \o Broken(v)
  BY <1>3, <1>4, BrokenConcat
<1> QED
  BY <1>2, <1>4, <1>5 DEF u, v

(* The lines of such a text.                                               *)
LEMMA SplicedLines ==
  ASSUME NEW t \in Seq(Line), NEW r \in Replacement, HasLines(t, r), NEW new \in Seq(Line)
  PROVE  /\ \A l \in 1 .. r.start[1] - 1 :
               l \in 1 .. Len(Spliced(t, r, new)) /\ Spliced(t, r, new)[l] = t[l]
         /\ new # << >> => /\ r.start[1] \in 1 .. Len(Spliced(t, r, new))
                           /\ Spliced(t, r, new)[r.start[1]] = new[1]
         /\ \A l \in 1 .. Len(Spliced(t, r, new)) :
               \/ \E k \in 1 .. Len(t) : Spliced(t, r, new)[l] = t[k]
               \/ \E k \in 1 .. Len(new) : Spliced(t, r, new)[l] = new[k]
<1>1. r.start[1] \in 1 .. Len(t) /\ r.end[1] \in 1 .. Len(t) /\ Len(t) \in Nat
  BY ReplacementType DEF HasLines
<1> DEFINE a == r.start[1]
           b == r.end[1]
           u == SubSeq(t, 1, a - 1)
           v == SubSeq(t, b + 1, Len(t))
           s == (u \o new) \o v
<1>2. Spliced(t, r, new) = s
  BY DEF Spliced
<1>3. a \in 1 .. Len(t) /\ b \in 1 .. Len(t)
  BY <1>1
<1> HIDE DEF a, b, Line
<1>4. /\ u \in Seq(Line) /\ Len(u) = a - 1 /\ \A l \in 1 .. a - 1 : u[l] = t[l]
      /\ v \in Seq(Line) /\ Len(v) = Len(t) - b /\ \A l \in 1 .. Len(t) - b : v[l] = t[l + b]
  BY <1>1, <1>3
<1>5. Len(new) \in Nat /\ \A k \in 1 .. Len(new) : new[k] \in Line
  OBVIOUS
<1> HIDE DEF u, v
<1>6. /\ s \in Seq(Line) /\ Len(s) = (a - 1) + Len(new) + (Len(t) - b)
      /\ \A l \in 1 .. (a - 1) + Len(new) + (Len(t) - b) :
            s[l] = IF l <= a - 1 THEN u[l]
                   ELSE IF l <= (a - 1) + Len(new) THEN new[l - (a - 1)]
                   ELSE v[l - ((a - 1) + Len(new))]
  <2> DEFINE x == u \o new
  <2>1. /\ x \in Seq(Line) /\ Len(x) = (a - 1) + Len(new)
        /\ \A l \in 1 .. (a - 1) + Len(new) : x[l] = IF l <= a - 1 THEN u[l] ELSE new[l - (a - 1)]
    <3>1. /\ x \in Seq(Line) /\ Len(x) = Len(u) + Len(new)
          /\ \A l \in 1 .. Len(u) + Len(new) : x[l] = IF l <= Len(u) THEN u[l] ELSE new[l - Len(u)]
      BY ONLY <1>4, new \in Seq(Line), ConcatProperties
    <3> HIDE DEF x
    <3> QED
      BY <1>4, <3>1
  <2> HIDE DEF x
  <2>2. /\ x \o v \in Seq(Line) /\ Len(x \o v) = Len(x) + Len(v)
        /\ \A l \in 1 .. Len(x) + Len(v) : (x \o v)[l] = IF l <= Len(x) THEN x[l] ELSE v[l - Len(x)]
    BY <1>4, <2>1, ConcatProperties
  <2>3. s = x \o v
    BY DEF x
  <2> HIDE DEF s
  <2>4. Len(s) = (a - 1) + Len(new) + (Len(t) - b)
    BY <1>4, <2>1, <2>2, <2>3
  <2>5. ASSUME NEW l \in 1 .. (a - 1) + Len(new) + (Len(t) - b)
        PROVE  s[l] = IF l <= a - 1 THEN u[l]
                      ELSE IF l <= (a - 1) + Len(new) THEN new[l - (a - 1)]
                      ELSE v[l - ((a - 1) + Len(new))]
    <3>1. l \in 1 .. Len(x) + Len(v)
      BY <1>4, <2>1
    <3>2. s[l] = IF l <= Len(x) THEN x[l] ELSE v[l - Len(x)]
      BY <2>2, <2>3, <3>1
    <3>3. CASE l <= (a - 1) + Len(new)
      <4>1. l \in 1 .. (a - 1) + Len(new)
        BY <1>3, <1>5, <3>3
      <4> QED
        BY <1>3, <1>1, <1>5, <2>1, <3>2, <3>3, <4>1
    <3>4. CASE ~(l <= (a - 1) + Len(new))
      <4>1. ~(l <= a - 1)
        BY <1>1, <1>3, <1>5, <3>4
      <4> QED
        BY <2>1, <3>2, <3>4, <4>1
    <3> QED
      BY <3>3, <3>4
  <2> QED
    BY <2>2, <2>3, <2>4, <2>5
<1> HIDE DEF s
<1>7. ASSUME NEW l \in 1 .. a - 1 PROVE l \in 1 .. Len(s) /\ s[l] = t[l]
  <2>1. l \in 1 .. (a - 1) + Len(new) + (Len(t) - b) /\ l <= a - 1
    BY <1>1, <1>3, <1>5
  <2> QED
    BY <1>4, <1>6, <2>1
<1>8. ASSUME new # << >> PROVE a \in 1 .. Len(s) /\ s[a] = new[1]
  <2>1. Len(new) > 0
    BY <1>8
  <2>2. /\ a \in 1 .. (a - 1) + Len(new) + (Len(t) - b) /\ ~(a <= a - 1)
        /\ a <= (a - 1) + Len(new) /\ a - (a - 1) = 1
    BY <1>1, <1>3, <1>5, <2>1
  <2> QED
    BY <1>6, <2>2
<1>9. ASSUME NEW l \in 1 .. Len(s)
      PROVE  \/ \E k \in 1 .. Len(t) : s[l] = t[k]
             \/ \E k \in 1 .. Len(new) : s[l] = new[k]
  <2>0. l \in 1 .. (a - 1) + Len(new) + (Len(t) - b)
    BY <1>6
  <2>1. CASE l <= a - 1
    <3>1. l \in 1 .. Len(t) /\ l \in 1 .. a - 1
      BY <1>1, <1>3, <2>0, <2>1
    <3>2. s[l] = t[l]
      BY <1>7, <3>1
    <3> QED
      BY <3>1, <3>2
  <2>2. CASE ~(l <= a - 1) /\ l <= (a - 1) + Len(new)
    <3>1. l - (a - 1) \in 1 .. Len(new)
      BY <1>1, <1>3, <1>5, <2>0, <2>2
    <3>2. s[l] = new[l - (a - 1)]
      BY <1>6, <2>0, <2>2
    <3> QED
      BY <3>1, <3>2
  <2>3. CASE ~(l <= a - 1) /\ ~(l <= (a - 1) + Len(new))
    <3> DEFINE k == l - ((a - 1) + Len(new))
    <3>1. k \in 1 .. Len(t) - b /\ k + b \in 1 .. Len(t)
      BY <1>1, <1>3, <1>5, <2>0, <2>3
    <3>2. s[l] = v[k]
      BY <1>6, <2>0, <2>3
    <3>3. v[k] = t[k + b]
      BY <1>4, <3>1
    <3> QED
      BY <3>1, <3>2, <3>3
  <2> QED
    BY <2>1, <2>2, <2>3
<1> QED
  BY <1>2, <1>7, <1>8, <1>9 DEF a

(* What a replacement makes of a text.                                     *)
Replaced(t, r) == HeadTo(t, r.start) \o (r.text \o RestFrom(t, r.end))

(* Both engines make of a text what stands before the range, the           *)
(* replacement's text and what stands after it; ReplacementEngine all but  *)
(* its breaks, and these too when the new line does not end in one.        *)
LEMMA ReplacedIs ==
  ASSUME NEW t \in Seq(Line), NEW r \in Replacement, HasLines(t, r)
  PROVE  /\ Replaced(t, r) \in Line
         /\ Broken(Spliced(t, r, <<Merged(t, r)>>)) = Replaced(t, r)
         /\ WithoutBreaks(Broken(Spliced(t, r, SplitLines(Merged(t, r)))))
              = WithoutBreaks(Replaced(t, r))
         /\ Merged(t, r) # << >> /\ Last(Merged(t, r)) # Break
              => Broken(Spliced(t, r, SplitLines(Merged(t, r)))) = Replaced(t, r)
<1> DEFINE m == Merged(t, r)
           a == Broken(LinesTo(t, r.start))
           x == LineTo(t, r.start)
           y == r.text
           z == LineFrom(t, r.end)
           b == Broken(LinesFrom(t, r.end))
           e == Append(z, Break)
           split == SplitLines(m)
<1>1. m \in Line /\ a \in Line /\ x \in Line /\ y \in Line /\ z \in Line /\ b \in Line /\ e \in Line
  BY ReplacementType, PartsType, MergedType DEF HasLines
<1>2. m = (x \o y) \o z
  BY MergedType
<1>3. Replaced(t, r) = (a \o x) \o (y \o (e \o b))
  BY DEF Replaced, HeadTo, RestFrom
<1>4. split \in Seq(Line)
  BY <1>1, SplitIs, WholeIsLine
<1>5. /\ (m = << >> => split = << >>)
      /\ (m # << >> => Broken(split) = Ending(m, Len(m)))
  BY <1>1, SplitIs
<1>6. <<m>> \in Seq(Line) /\ Broken(<<m>>) = Append(m, Break)
  BY <1>1, BrokenOne
<1>7. /\ Broken(Spliced(t, r, <<m>>)) = (a \o Broken(<<m>>)) \o b
      /\ Broken(Spliced(t, r, split)) = (a \o Broken(split)) \o b
  BY <1>4, <1>6, SplicedIs
<1> HIDE DEF a, b, x, y, z, m, split
<1>8. \A u, v \in Line : u \o v \in Line
  BY DEF Line
<1>9. Replaced(t, r) \in Line
  BY <1>1, <1>3, <1>8
<1>10. Append(m, Break) \in Line /\ Append(m, Break) = (x \o y) \o e
  <2>1. x \o y \in Seq(Symbols) /\ z \in Seq(Symbols)
    BY <1>1, <1>8 DEF Line
  <2> DEFINE w == x \o y
  <2>2. w \in Seq(Symbols) /\ m = w \o z
    BY <1>2, <2>1
  <2> HIDE DEF w
  <2>3. w \o Append(z, Break) = Append(w \o z, Break)
    BY <2>1, <2>2, TextsAssumption, AppendConcat
  <2>4. w \o e \in Line
    BY <1>1, <1>8, <2>2 DEF Line
  <2> QED
    BY <2>2, <2>3, <2>4 DEF w
<1>11. (a \o Append(m, Break)) \o b = Replaced(t, r)
  <2> HIDE DEF e
  <2>1. PICK c : c = a \o x
    OBVIOUS
  <2>2. PICK w : w = y \o e
    OBVIOUS
  <2>3. a \in Line /\ x \in Line /\ y \in Line /\ e \in Line /\ b \in Line
    BY <1>1
  <2>4. c \in Line /\ w \in Line
    BY ONLY <2>1, <2>2, <2>3, LineConcat
  <2>5. Regroups(x, y, e) /\ Regroups(a, x, w) /\ Regroups(c, w, b) /\ Regroups(y, e, b)
    BY ONLY <2>3, <2>4, LineRegroup
  <2>10. (x \o y) \o e = x \o w
    BY ONLY <2>2, <2>5 DEF Regroups
  <2>11. a \o (x \o w) = c \o w
    BY ONLY <2>1, <2>5 DEF Regroups
  <2>12. (c \o w) \o b = c \o (w \o b)
    BY ONLY <2>5 DEF Regroups
  <2>13. w \o b = y \o (e \o b)
    BY ONLY <2>2, <2>5 DEF Regroups
  <2> QED
    BY ONLY <1>3, <1>10, <2>1, <2>10, <2>11, <2>12, <2>13
<1>12. WithoutBreaks(Broken(split)) = WithoutBreaks(Append(m, Break))
  <2>1. WithoutBreaks(Append(m, Break)) = WithoutBreaks(m)
    BY <1>1, WithoutBreaksOne
  <2>2. CASE m = << >>
    BY <1>5, <2>1, <2>2, BrokenOne
  <2>3. CASE m # << >>
    <3>1. SubSeq(m, 1, Len(m)) = m
      BY <1>1 DEF Line
    <3> QED
      BY <1>5, <2>1, <2>3, <3>1 DEF Ending
  <2> QED
    BY <2>2, <2>3
<1>13. WithoutBreaks(Broken(Spliced(t, r, split))) = WithoutBreaks(Replaced(t, r))
  <2> DEFINE s == Broken(split)
             n == Append(m, Break)
  <2>1. s \in Line /\ n \in Line /\ WithoutBreaks(s) = WithoutBreaks(n)
    BY <1>4, <1>10, <1>12, BrokenType
  <2>2. Broken(Spliced(t, r, split)) = (a \o s) \o b /\ Replaced(t, r) = (a \o n) \o b
    BY <1>7, <1>11
  <2> HIDE DEF s, n
  <2>3. a \o s \in Line /\ a \o n \in Line
    BY <1>1, <1>8, <2>1
  <2>4. WithoutBreaks(a \o s) = WithoutBreaks(a) \o WithoutBreaks(s)
        /\ WithoutBreaks(a \o n) = WithoutBreaks(a) \o WithoutBreaks(n)
    BY <1>1, <2>1, WithoutBreaksConcat
  <2>5. WithoutBreaks((a \o s) \o b) = WithoutBreaks(a \o s) \o WithoutBreaks(b)
        /\ WithoutBreaks((a \o n) \o b) = WithoutBreaks(a \o n) \o WithoutBreaks(b)
    BY <1>1, <2>3, WithoutBreaksConcat
  <2> QED
    BY <2>1, <2>2, <2>4, <2>5
<1>14. ASSUME m # << >>, Last(m) # Break
       PROVE  Broken(Spliced(t, r, split)) = Replaced(t, r)
  <2>1. SubSeq(m, 1, Len(m)) = m /\ m[Len(m)] # Break
    BY <1>1, <1>14 DEF Line, Last
  <2>2. Broken(split) = Append(m, Break)
    BY <1>5, <1>14, <2>1 DEF Ending
  <2> QED
    BY <1>7, <1>11, <2>2
<1> QED
  BY <1>6, <1>7, <1>9, <1>11, <1>13, <1>14 DEF m, split

(* What stands before a position of the source is its first symbols.       *)
LEMMA OffsetIs ==
  ASSUME source \in Seq(Line), NEW p \in Position, p[1] <= Len(source)
  PROVE  /\ Offset(p) \in 0 .. Len(Joined(source))
         /\ HeadTo(source, p) = SubSeq(Joined(source), 1, Offset(p))
<1> DEFINE h == HeadTo(source, p)
           e == RestFrom(source, p)
           j == Joined(source)
           a == Broken(LinesTo(source, p))
           x == LineTo(source, p)
           y == Append(LineFrom(source, p), Break)
           b == Broken(LinesFrom(source, p))
<1>1. /\ h \in Line /\ e \in Line /\ a \in Line /\ x \in Line /\ y \in Line /\ b \in Line
      /\ LineFrom(source, p) \in Line
      /\ p[1] \in 1 .. Len(source)
      /\ Len(x) = Preceding(source[p[1]], p[2])
  BY PartsType
<1>2. Broken(source) = h \o e
  BY CutAt
<1>3. j \in Line /\ Broken(source) = Append(j, Break)
  <2>1. source # << >>
    BY <1>1
  <2> QED
    BY <2>1, JoinedIs
<1>4. h = a \o x /\ e = y \o b
  BY DEF HeadTo, RestFrom
<1>5. Offset(p) = Len(a) + Len(x)
  BY <1>1 DEF Offset, LinesTo
<1>6. Len(y) > 0
  <2> DEFINE z == LineFrom(source, p)
  <2>1. z \in Seq(Symbols)
    BY <1>1 DEF Line
  <2> HIDE DEF z
  <2>2. Len(Append(z, Break)) = Len(z) + 1 /\ Len(z) \in Nat
    BY <2>1
  <2> QED
    BY <2>2 DEF z
<1> HIDE DEF h, e, j, a, x, y, b
<1>7. h \in Seq(Symbols) /\ e \in Seq(Symbols) /\ j \in Seq(Symbols) /\ a \in Seq(Symbols)
      /\ x \in Seq(Symbols) /\ y \in Seq(Symbols) /\ b \in Seq(Symbols)
  BY <1>1, <1>3 DEF Line
<1>8. Len(h) = Len(a) + Len(x) /\ Len(a) \in Nat /\ Len(x) \in Nat
  BY ONLY <1>4, <1>7
<1>9. Len(e) = Len(y) + Len(b) /\ Len(y) \in Nat /\ Len(b) \in Nat
  BY ONLY <1>4, <1>7
<1>10. Len(h \o e) = Len(h) + Len(e)
  BY ONLY <1>7
<1>11. Len(Append(j, Break)) = Len(j) + 1 /\ Len(j) \in Nat
  BY ONLY <1>7
<1>12. Len(h) \in 0 .. Len(j)
  BY <1>2, <1>3, <1>6, <1>8, <1>9, <1>10, <1>11
<1>13. SubSeq(h \o e, 1, Len(h)) = h
  BY ONLY <1>7
<1>14. SubSeq(Append(j, Break), 1, Len(h)) = SubSeq(j, 1, Len(h))
  BY ONLY <1>7, <1>12, <1>11
<1> QED
  BY <1>2, <1>3, <1>5, <1>8, <1>12, <1>13, <1>14 DEF h, j

(* Offsets are in the order of the positions.                              *)
LEMMA OffsetOrder ==
  ASSUME source \in Seq(Line), NEW p \in Position, NEW q \in Position,
         p[1] <= Len(source), q[1] <= Len(source), ~Before(q, p)
  PROVE  Offset(p) <= Offset(q)
<1>1. /\ p[1] \in 1 .. Len(source) /\ q[1] \in 1 .. Len(source)
      /\ p[2] \in Nat \ {0} /\ q[2] \in Nat \ {0}
      /\ source[p[1]] \in Line /\ source[q[1]] \in Line
  BY PartsType DEF Position
<1>2. p[1] < q[1] \/ (p[1] = q[1] /\ p[2] <= q[2])
  BY <1>1 DEF Before
<1>3. CASE p[1] = q[1] /\ p[2] <= q[2]
  <2>1. Preceding(source[p[1]], p[2]) <= Preceding(source[p[1]], q[2])
    BY <1>1, <1>3, PrecedingIs
  <2>2. Preceding(source[p[1]], p[2]) \in Nat /\ Preceding(source[p[1]], q[2]) \in Nat
    <3>1. Len(source[p[1]]) \in Nat
      BY <1>1 DEF Line
    <3> QED
      BY <1>1, <3>1, SMTT(30) DEF Preceding
  <2>3. Len(Broken(SubSeq(source, 1, p[1] - 1))) \in Nat
    BY PartsType DEF LinesTo, Line
  <2> QED
    BY <1>3, <2>1, <2>2, <2>3 DEF Offset
<1>4. CASE p[1] < q[1]
  <2> DEFINE a == LinesTo(source, p)
             z == source[p[1]]
             c == SubSeq(source, p[1] + 1, q[1] - 1)
             d == LinesTo(source, q)
  <2>1. a \in Seq(Line) /\ z \in Line /\ d \in Seq(Line)
    BY PartsType
  <2>2. c \in Seq(Line)
    <3> HIDE DEF Line
    <3>1. \A k \in p[1] + 1 .. q[1] - 1 : k \in 1 .. Len(source)
      BY <1>1
    <3> QED
      BY <1>1, <3>1
  <2>3. d = Append(a, z) \o c
    <3> HIDE DEF Line
    <3>1. PICK l \in 1 .. Len(source) : l = p[1]
      BY <1>1
    <3>2. SubSeq(source, 1, l) = Append(SubSeq(source, 1, l - 1), source[l])
      <4>1. PICK k \in Nat : k = l - 1
        BY <3>1
      <4>2. k + 1 <= Len(source) /\ k + 1 = l
        BY <3>1, <4>1
      <4>3. SubSeq(source, 1, k + 1) = Append(SubSeq(source, 1, k), source[k + 1])
        BY <4>2, OneMore
      <4> QED
        BY <4>1, <4>2, <4>3
    <3>3. PICK n \in l .. Len(source) : n = q[1] - 1
      BY <1>1, <1>4, <3>1
    <3>4. SubSeq(source, 1, l) \o SubSeq(source, l + 1, n) = SubSeq(source, 1, n)
      <4>1. 1 \in 1 .. Len(source) + 1 /\ l \in 1 - 1 .. Len(source)
        BY <3>1
      <4> QED
        BY <3>3, <4>1, ConcatAdjacentSubSeq
    <3> QED
      BY <3>1, <3>2, <3>3, <3>4 DEF LinesTo
  <2> HIDE DEF a, z, c, d
  <2>4. /\ Append(a, z) \in Seq(Line) /\ Broken(Append(a, z)) = Broken(a) \o Append(z, Break)
        /\ Broken(a) \in Line /\ Broken(c) \in Line /\ Broken(Append(a, z)) \in Line
    BY <2>1, <2>2, BrokenMore, BrokenType
  <2>5. Broken(d) = Broken(Append(a, z)) \o Broken(c)
    BY <2>2, <2>3, <2>4, BrokenConcat
  <2>6. Len(Broken(d)) = Len(Broken(Append(a, z))) + Len(Broken(c)) /\ Len(Broken(c)) \in Nat
        /\ Len(Broken(Append(a, z))) \in Nat
    <3>1. Broken(Append(a, z)) \in Seq(Symbols) /\ Broken(c) \in Seq(Symbols)
      BY <2>4 DEF Line
    <3> QED
      BY <2>5, <3>1, ConcatProperties
  <2>7. Len(Broken(Append(a, z))) = Len(Broken(a)) + Len(z) + 1 /\ Len(z) \in Nat /\ Len(Broken(a)) \in Nat
    <3>1. Broken(a) \in Seq(Symbols) /\ z \in Seq(Symbols) /\ Append(z, Break) \in Seq(Symbols)
          /\ Len(Append(z, Break)) = Len(z) + 1
      BY <2>1, <2>4, TextsAssumption DEF Line
    <3>2. Len(Broken(a) \o Append(z, Break)) = Len(Broken(a)) + Len(Append(z, Break))
      BY ONLY <3>1, ConcatProperties
    <3> QED
      BY <2>4, <3>1, <3>2
  <2>8. /\ Offset(p) = Len(Broken(a)) + Preceding(z, p[2])
        /\ Offset(q) = Len(Broken(d)) + Preceding(source[q[1]], q[2])
    BY DEF Offset, a, z, d, LinesTo
  <2>9. Preceding(z, p[2]) \in 0 .. Len(z) /\ Preceding(source[q[1]], q[2]) \in Nat
    <3>1. Len(source[q[1]]) \in Nat
      BY <1>1 DEF Line
    <3>2. Preceding(source[q[1]], q[2]) \in 0 .. Len(source[q[1]])
      BY <1>1, PrecedingIs
    <3>3. Preceding(z, p[2]) \in 0 .. Len(z)
      BY <1>1, <2>1, PrecedingIs
    <3> QED
      BY <3>1, <3>2, <3>3
  <2> QED
    BY <2>6, <2>7, <2>8, <2>9
<1> QED
  BY <1>2, <1>3, <1>4

-----------------------------------------------------------------------------

(* What AtOnce puts for the n-th symbol of the source.                     *)
Piece(S, n) ==
    LET symbols == Joined(source)
        Begin(k) == {i \in S : Offset(plan[i].start) = k}
        Put(k) == IF Begin(k) = {} THEN <<>> ELSE plan[CHOOSE i \in Begin(k) : TRUE].text
        Covered(k) ==
            \E i \in S : Offset(plan[i].start) < k /\ k <= Offset(plan[i].end)
    IN Put(n - 1) \o
         (IF n <= Len(symbols) /\ ~Covered(n) THEN <<symbols[n]>> ELSE <<>>)

(* What it is: a symbol, nothing, or the text of the one replacement that  *)
(* begins there.                                                           *)
LEMMA PieceIs ==
  ASSUME NEW S, NEW n
  PROVE  /\ (\A i \in S : Offset(plan[i].start) # n - 1)
              /\ ~(\E i \in S : Offset(plan[i].start) < n /\ n <= Offset(plan[i].end))
              /\ n <= Len(Joined(source))
            => Piece(S, n) = << >> \o <<Joined(source)[n]>>
         /\ (\A i \in S : Offset(plan[i].start) # n - 1)
              /\ (\E i \in S : Offset(plan[i].start) < n /\ n <= Offset(plan[i].end))
            => Piece(S, n) = << >> \o << >>
         /\ \A i \in S :
              /\ Offset(plan[i].start) = n - 1
              /\ \A j \in S \ {i} : Offset(plan[j].start) # n - 1
              => Piece(S, n) = plan[i].text \o
                   (IF n <= Len(Joined(source))
                       /\ ~\E j \in S : Offset(plan[j].start) < n /\ n <= Offset(plan[j].end)
                    THEN <<Joined(source)[n]>> ELSE << >>)
<1> USE DEF Piece
<1>1. ASSUME ~\E i \in S : Offset(plan[i].start) < n /\ n <= Offset(plan[i].end),
             n <= Len(Joined(source)),
             \A i \in S : Offset(plan[i].start) # n - 1
      PROVE  Piece(S, n) = << >> \o <<Joined(source)[n]>>
  <2>1. {i \in S : Offset(plan[i].start) = n - 1} = {}
    BY <1>1
  <2> QED
    BY <1>1, <2>1, Zenon
<1>2. ASSUME \E i \in S : Offset(plan[i].start) < n /\ n <= Offset(plan[i].end),
             \A j \in S : Offset(plan[j].start) # n - 1
      PROVE  Piece(S, n) = << >> \o << >>
  <2>1. {j \in S : Offset(plan[j].start) = n - 1} = {}
    BY <1>2
  <2> QED
    BY <1>2, <2>1, Zenon
<1>3. ASSUME NEW i \in S, Offset(plan[i].start) = n - 1,
             \A j \in S \ {i} : Offset(plan[j].start) # n - 1
      PROVE  Piece(S, n) = plan[i].text \o
               (IF n <= Len(Joined(source))
                   /\ ~\E j \in S : Offset(plan[j].start) < n /\ n <= Offset(plan[j].end)
                THEN <<Joined(source)[n]>> ELSE << >>)
  <2> DEFINE B == {j \in S : Offset(plan[j].start) = n - 1}
  <2>1. B = {i}
    BY <1>3
  <2>2. (CHOOSE j \in B : TRUE) = i /\ B # {}
    BY <2>1
  <2> HIDE DEF B
  <2>3. Piece(S, n) = (IF B = {} THEN <<>> ELSE plan[CHOOSE j \in B : TRUE].text) \o
               (IF n <= Len(Joined(source))
                   /\ ~\E j \in S : Offset(plan[j].start) < n /\ n <= Offset(plan[j].end)
                THEN <<Joined(source)[n]>> ELSE << >>)
    BY Zenon DEF B
  <2> QED
    BY <2>2, <2>3, Zenon
<1> QED
  BY <1>1, <1>2, <1>3

(* It is a sequence of symbols.                                            *)
LEMMA PieceType ==
  ASSUME source \in Seq(Line), NEW S, \A i \in S : plan[i].text \in Line,
         NEW n \in Nat, n >= 1
  PROVE  Piece(S, n) \in Line
<1> DEFINE B == {j \in S : Offset(plan[j].start) = n - 1}
           put == IF B = {} THEN <<>> ELSE plan[CHOOSE j \in B : TRUE].text
           own == IF n <= Len(Joined(source))
                     /\ ~\E j \in S : Offset(plan[j].start) < n /\ n <= Offset(plan[j].end)
                  THEN <<Joined(source)[n]>> ELSE << >>
<1>1. Piece(S, n) = put \o own
  BY Zenon DEF Piece
<1>2. << >> \in Line
  BY DEF Line
<1>3. put \in Line
  <2>1. CASE B = {}
    BY <1>2, <2>1
  <2>2. CASE B # {}
    <3>1. (CHOOSE j \in B : TRUE) \in S
      BY <2>2
    <3> HIDE DEF B
    <3> QED
      BY <2>2, <3>1
  <2> QED
    BY <2>1, <2>2
<1>4. own \in Line
  <2> DEFINE J == Joined(source)
  <2>1. J \in Seq(Symbols)
    BY JoinedIs DEF Line
  <2> HIDE DEF J
  <2>2. n <= Len(J) => <<J[n]>> \in Seq(Symbols)
    <3> SUFFICES ASSUME n <= Len(J) PROVE <<J[n]>> \in Seq(Symbols)
      OBVIOUS
    <3> DEFINE e == J[n]
    <3>1. e \in Symbols
      BY <2>1
    <3> HIDE DEF e
    <3>2. <<e>> \in Seq(Symbols)
      BY <3>1
    <3> QED
      BY <3>2 DEF e
  <2>3. n <= Len(J) => <<J[n]>> \in Line
    BY <2>2 DEF Line
  <2> QED
    BY <1>2, <2>3 DEF J
<1> HIDE DEF put, own
<1>5. \A x, y \in Line : x \o y \in Line
  BY DEF Line
<1> QED
  BY <1>1, <1>3, <1>4, <1>5

(* AtOnce puts one piece after the other.                                  *)
LEMMA AtOnceParts ==
  ASSUME source \in Seq(Line), NEW S, \A i \in S : plan[i].text \in Line
  PROVE  \E f : /\ f[0] = << >>
                /\ \A n \in 0 .. Len(Joined(source)) :
                      f[n] \in Line /\ f[n + 1] = f[n] \o Piece(S, n + 1)
                /\ AtOnce(S) = f[Len(Joined(source)) + 1]
<1> DEFINE m == Len(Joined(source)) + 1
           ps == [n \in 1 .. m |-> Piece(S, n)]
           f == [n \in 0 .. m |-> FlattenSeq(SubSeq(ps, 1, n))]
<1>1. m \in Nat /\ m >= 1
  BY JoinedIs DEF Line
<1>2. AtOnce(S) = FlattenSeq(ps)
  BY Zenon DEF AtOnce, Piece
<1>3. ps \in Seq(Line) /\ Len(ps) = m /\ \A n \in 1 .. m : ps[n] = Piece(S, n)
  <2>1. \A n \in 1 .. m : Piece(S, n) \in Line
    <3> TAKE n \in 1 .. m
    <3>1. n \in Nat /\ n >= 1
      BY <1>1
    <3> QED
      BY <3>1, PieceType
  <2> HIDE DEF m, Line
  <2> QED
    BY <1>1, <2>1
<1> HIDE DEF ps, m
<1>4. ps \in Seq(Seq(Symbols))
  BY <1>3 DEF Line
<1>5. f[0] = << >>
  <2>1. SubSeq(ps, 1, 0) = << >>
    OBVIOUS
  <2>2. << >> \in Seq(Seq(Symbols)) /\ Len(<< >>) = 0
    OBVIOUS
  <2>3. FlattenSeq(<< >>) = << >>
    BY <2>2, FlattenIs
  <2>4. f[0] = FlattenSeq(SubSeq(ps, 1, 0))
    BY <1>1
  <2> HIDE DEF f
  <2> QED
    BY ONLY <2>1, <2>3, <2>4
<1>6. ASSUME NEW n \in 0 .. m - 1 PROVE f[n] \in Line /\ f[n + 1] = f[n] \o Piece(S, n + 1)
  <2>1. n \in Nat /\ n + 1 <= Len(ps) /\ n + 1 \in 1 .. m /\ n \in 0 .. m /\ n + 1 \in 0 .. m
    BY <1>1, <1>3
  <2>2. /\ SubSeq(ps, 1, n) \in Seq(Seq(Symbols)) /\ ps[n + 1] \in Seq(Symbols)
        /\ SubSeq(ps, 1, n + 1) = Append(SubSeq(ps, 1, n), ps[n + 1])
    BY <1>4, <2>1, OneMore
  <2>3. FlattenSeq(SubSeq(ps, 1, n + 1)) = FlattenSeq(SubSeq(ps, 1, n)) \o ps[n + 1]
    BY <2>2, FlattenAppended
  <2>4. FlattenSeq(SubSeq(ps, 1, n)) \in Line
    BY <2>2, FlattenType DEF Line
  <2> QED
    BY <1>3, <2>1, <2>3, <2>4
<1>7. AtOnce(S) = f[m]
  <2>1. SubSeq(ps, 1, m) = ps
    BY <1>3
  <2>2. f[m] = FlattenSeq(SubSeq(ps, 1, m))
    BY <1>1
  <2> HIDE DEF f
  <2> QED
    BY ONLY <1>2, <2>1, <2>2
<1> HIDE DEF f
<1>8. Len(Joined(source)) = m - 1 /\ Len(Joined(source)) + 1 = m
  BY <1>1, JoinedIs DEF m, Line
<1> QED
  BY <1>5, <1>6, <1>7, <1>8

(* A replacement i from a to b stands before all of S.                     *)
StandsBefore(i, a, b, S) ==
    /\ \A j \in S : plan[j].text \in Line
    /\ i \notin S
    /\ plan[i].text \in Line
    /\ a = Offset(plan[i].start) /\ b = Offset(plan[i].end)
    /\ a <= b /\ b <= Len(Joined(source))
    /\ \A j \in S : /\ Offset(plan[j].start) \in Nat
                    /\ b <= Offset(plan[j].start) /\ a < Offset(plan[j].start)

(* Then what all of S make of what follows it is left as it is.            *)
LeavesRest(i, a, b, S) ==
    \E R \in Line :
        /\ AtOnce(S) = SubSeq(Joined(source), 1, b) \o R
        /\ AtOnce(S \cup {i}) = (SubSeq(Joined(source), 1, a) \o plan[i].text) \o R

(* Putting a text earlier in the source than all others leaves the rest.   *)
LEMMA AtOnceMore ==
  ASSUME source \in Seq(Line), NEW S, NEW i, NEW a \in Nat, NEW b \in Nat,
         StandsBefore(i, a, b, S)
  PROVE  LeavesRest(i, a, b, S)
<1> SUFFICES ASSUME \A j \in S : plan[j].text \in Line,
                    i \notin S, plan[i].text \in Line,
                    a = Offset(plan[i].start), b = Offset(plan[i].end),
                    a <= b, b <= Len(Joined(source)),
                    \A j \in S : /\ Offset(plan[j].start) \in Nat
                                 /\ b <= Offset(plan[j].start) /\ a < Offset(plan[j].start)
             PROVE  \E R \in Line :
                       /\ AtOnce(S) = SubSeq(Joined(source), 1, b) \o R
                       /\ AtOnce(S \cup {i}) = (SubSeq(Joined(source), 1, a) \o plan[i].text) \o R
  BY Zenon DEF StandsBefore, LeavesRest
<1> DEFINE J == Joined(source)
           T == S \cup {i}
           x == plan[i].text
           N == Len(J)
<1>1. J \in Line /\ N \in Nat
  BY JoinedIs DEF Line
<1>2. PICK f : /\ f[0] = << >>
               /\ \A n \in 0 .. N : f[n] \in Line /\ f[n + 1] = f[n] \o Piece(S, n + 1)
               /\ AtOnce(S) = f[N + 1]
  BY AtOnceParts
<1>3. PICK g : /\ g[0] = << >>
               /\ \A n \in 0 .. N : g[n] \in Line /\ g[n + 1] = g[n] \o Piece(T, n + 1)
               /\ AtOnce(T) = g[N + 1]
  <2>1. \A j \in T : plan[j].text \in Line
    OBVIOUS
  <2> QED
    BY <2>1, AtOnceParts
<1>4. ASSUME NEW n \in 1 .. b PROVE Piece(S, n) = << >> \o <<J[n]>>
  <2>1. n \in Nat /\ n <= N /\ n <= b /\ n >= 1
    BY <1>1
  <2>2. \A j \in S : Offset(plan[j].start) # n - 1
    BY <2>1
  <2>3. ~\E j \in S : Offset(plan[j].start) < n /\ n <= Offset(plan[j].end)
    BY <2>1
  <2> QED
    BY <2>1, <2>2, <2>3, PieceIs
<1>5. ASSUME NEW n \in 1 .. a PROVE Piece(T, n) = << >> \o <<J[n]>>
  <2>1. n \in Nat /\ n <= N /\ n <= b /\ n <= a /\ n >= 1
    BY <1>1
  <2>2. \A j \in T : Offset(plan[j].start) # n - 1
    BY <2>1
  <2>3. ~\E j \in T : Offset(plan[j].start) < n /\ n <= Offset(plan[j].end)
    BY <2>1
  <2> QED
    BY <2>1, <2>2, <2>3, PieceIs
<1>6. Piece(T, a + 1) = x \o (IF a + 1 <= N /\ a = b THEN <<J[a + 1]>> ELSE << >>)
  <2>1. i \in T /\ Offset(plan[i].start) = (a + 1) - 1
    OBVIOUS
  <2>2. \A j \in T \ {i} : Offset(plan[j].start) # (a + 1) - 1
    OBVIOUS
  <2>3. (\E j \in T : Offset(plan[j].start) < a + 1 /\ a + 1 <= Offset(plan[j].end)) <=> a # b
    <3>1. \A j \in S : ~(Offset(plan[j].start) < a + 1)
      OBVIOUS
    <3>2. (Offset(plan[i].start) < a + 1 /\ a + 1 <= Offset(plan[i].end)) <=> a # b
      OBVIOUS
    <3> QED
      BY <3>1, <3>2
  <2>4. Piece(T, a + 1) = x \o
          (IF a + 1 <= Len(Joined(source))
              /\ ~\E j \in T : Offset(plan[j].start) < a + 1 /\ a + 1 <= Offset(plan[j].end)
           THEN <<Joined(source)[a + 1]>> ELSE << >>)
    <3> HIDE DEF T
    <3>1. PICK n : n = a + 1
      OBVIOUS
    <3>2. i \in T /\ Offset(plan[i].start) = n - 1 /\ \A j \in T \ {i} : Offset(plan[j].start) # n - 1
      BY ONLY <2>1, <2>2, <3>1
    <3>3. Piece(T, n) = plan[i].text \o
          (IF n <= Len(Joined(source))
              /\ ~\E j \in T : Offset(plan[j].start) < n /\ n <= Offset(plan[j].end)
           THEN <<Joined(source)[n]>> ELSE << >>)
      BY ONLY <3>2, PieceIs
    <3> QED
      BY ONLY <3>1, <3>3
  <2> HIDE DEF T, x
  <2> QED
    BY <2>3, <2>4
<1>7. ASSUME NEW n \in a + 2 .. b PROVE Piece(T, n) = << >> \o << >>
  <2>1. n \in Nat /\ n >= a + 2 /\ n <= b
    OBVIOUS
  <2>2. \A j \in T : Offset(plan[j].start) # n - 1
    BY <2>1
  <2>3. i \in T /\ Offset(plan[i].start) < n /\ n <= Offset(plan[i].end)
    BY <2>1
  <2> HIDE DEF T
  <2> QED
    BY <2>2, <2>3, PieceIs
<1>8. ASSUME NEW n \in Nat, n >= a + 2, n > b PROVE Piece(T, n) = Piece(S, n)
  <2>1. {j \in T : Offset(plan[j].start) = n - 1} = {j \in S : Offset(plan[j].start) = n - 1}
    BY <1>8
  <2>2. (\E j \in T : Offset(plan[j].start) < n /\ n <= Offset(plan[j].end))
          <=> (\E j \in S : Offset(plan[j].start) < n /\ n <= Offset(plan[j].end))
    BY <1>8
  <2> DEFINE B(U) == {j \in U : Offset(plan[j].start) = n - 1}
             C(U) == \E j \in U : Offset(plan[j].start) < n /\ n <= Offset(plan[j].end)
             Of(D, c) == (IF D = {} THEN <<>> ELSE plan[CHOOSE j \in D : TRUE].text) \o
                         (IF n <= Len(Joined(source)) /\ ~c THEN <<Joined(source)[n]>> ELSE <<>>)
  <2> HIDE DEF T
  <2>3. Piece(T, n) = Of(B(T), C(T)) /\ Piece(S, n) = Of(B(S), C(S))
    BY Zenon DEF Piece
  <2>4. B(T) = B(S) /\ C(T) = C(S)
    BY <2>1, <2>2
  <2> HIDE DEF B, C, Of
  <2> QED
    BY <2>3, <2>4
<1>9. ASSUME a = b, a + 1 <= N PROVE Piece(S, a + 1) = << >> \o <<J[a + 1]>>
  <2>1. \A j \in S : Offset(plan[j].start) # (a + 1) - 1
    OBVIOUS
  <2>2. ~\E j \in S : Offset(plan[j].start) < a + 1 /\ a + 1 <= Offset(plan[j].end)
    OBVIOUS
  <2> QED
    BY <1>9, <2>1, <2>2, PieceIs
<1>10. ASSUME a = b, a + 1 > N PROVE Piece(S, a + 1) = << >> \o << >>
  <2>1. {j \in S : Offset(plan[j].start) = (a + 1) - 1} = {}
    OBVIOUS
  <2>2. ~(a + 1 <= Len(Joined(source)))
    BY <1>1, <1>10
  <2> QED
    BY <2>1, <2>2, Zenon DEF Piece
<1> DEFINE low(n) == SubSeq(J, 1, n)
<1>11. /\ \A n \in 0 .. N : low(n) \in Line
       /\ \A n \in 0 .. N - 1 : low(n) \o (<< >> \o <<J[n + 1]>>) = low(n + 1)
       /\ low(0) = << >>
  <2>1. J \in Seq(Symbols)
    BY <1>1 DEF Line
  <2> HIDE DEF J
  <2>2. ASSUME NEW n \in 0 .. N PROVE low(n) \in Line
    <3>1. low(n) \in Seq(Symbols)
      BY <2>1
    <3> QED
      BY <3>1 DEF Line
  <2>3. ASSUME NEW n \in 0 .. N - 1 PROVE low(n) \o (<< >> \o <<J[n + 1]>>) = low(n + 1)
    <3>1. n \in Nat /\ n + 1 <= Len(J)
      BY <1>1
    <3>2. low(n) \in Seq(Symbols) /\ J[n + 1] \in Symbols /\ low(n + 1) = Append(low(n), J[n + 1])
      BY <2>1, <3>1, OneMore
    <3> DEFINE e == J[n + 1]
               u == low(n)
    <3>3. u \in Seq(Symbols) /\ e \in Symbols /\ low(n + 1) = Append(u, e)
      BY <3>2
    <3> HIDE DEF e, u
    <3>4. << >> \o <<e>> = <<e>> /\ u \o <<e>> = Append(u, e)
      BY ONLY <3>3
    <3>5. u \o (<< >> \o <<e>>) = Append(u, e)
      BY ONLY <3>4
    <3> QED
      BY <3>3, <3>5 DEF u, e
  <2>4. low(0) = << >>
    OBVIOUS
  <2> QED
    BY <2>2, <2>3, <2>4
<1> HIDE DEF J, T, x, low
<1>12. \A n \in 0 .. b : f[n] = low(n)
  <2> DEFINE Done == {n \in Nat : n <= b => f[n] = low(n)}
  <2>1. 0 \in Done
    BY <1>2, <1>11
  <2>2. ASSUME NEW n \in Nat, n \in Done PROVE n + 1 \in Done
    <3> SUFFICES ASSUME n + 1 <= b PROVE f[n + 1] = low(n + 1)
      OBVIOUS
    <3>1. n \in 0 .. N /\ n \in 0 .. N - 1 /\ n <= b /\ n + 1 \in 1 .. b
      BY <1>1 DEF J
    <3>2. f[n + 1] = f[n] \o Piece(S, n + 1) /\ f[n] = low(n)
      BY <1>2, <2>2, <3>1
    <3>3. Piece(S, n + 1) = << >> \o <<J[n + 1]>>
      BY <1>4, <3>1
    <3> QED
      BY <1>11, <3>1, <3>2, <3>3
  <2> HIDE DEF Done
  <2>3. \A n \in Nat : n \in Done
    BY <2>1, <2>2, NaturalsIn
  <2> QED
    BY <2>3 DEF Done
<1>13. \A n \in 0 .. a : g[n] = low(n)
  <2> DEFINE Done == {n \in Nat : n <= a => g[n] = low(n)}
  <2>1. 0 \in Done
    BY <1>3, <1>11
  <2>2. ASSUME NEW n \in Nat, n \in Done PROVE n + 1 \in Done
    <3> SUFFICES ASSUME n + 1 <= a PROVE g[n + 1] = low(n + 1)
      OBVIOUS
    <3>1. n \in 0 .. N /\ n \in 0 .. N - 1 /\ n <= a /\ n + 1 \in 1 .. a
      BY <1>1 DEF J
    <3>2. g[n + 1] = g[n] \o Piece(T, n + 1) /\ g[n] = low(n)
      BY <1>3, <2>2, <3>1
    <3>3. Piece(T, n + 1) = << >> \o <<J[n + 1]>>
      BY <1>5, <3>1
    <3> QED
      BY <1>11, <3>1, <3>2, <3>3
  <2> HIDE DEF Done
  <2>3. \A n \in Nat : n \in Done
    BY <2>1, <2>2, NaturalsIn
  <2> QED
    BY <2>3 DEF Done
<1> DEFINE head == low(a) \o x
<1>14. a \in 0 .. N /\ b \in 0 .. N /\ a + 1 \in 1 .. N + 1 /\ low(a) \in Line /\ low(b) \in Line /\ x \in Line
  <2>1. a \in 0 .. N /\ b \in 0 .. N
    BY <1>1 DEF J
  <2> QED
    BY <1>1, <1>11, <2>1 DEF x
<1>15. head \in Line
  BY <1>14 DEF Line
<1>16. \A u \in Line : u \o << >> = u
  BY DEF Line
(* Where the parts first agree after the range.                            *)
<1> DEFINE c == IF a = b THEN a + 1 ELSE b
<1>17. c \in 1 .. N + 1 /\ c >= b /\ c >= a + 1
  BY <1>14, <1>1
<1>18. \E R \in Line : f[c] = low(b) \o R /\ g[c] = head \o R
  <2>0. /\ f[a + 1] = f[a] \o Piece(S, a + 1) /\ g[a + 1] = g[a] \o Piece(T, a + 1)
        /\ f[a] = low(a) /\ g[a] = low(a)
    <3>1. a \in 0 .. N /\ a \in 0 .. a /\ a \in 0 .. b
      BY <1>14
    <3> QED
      BY <1>2, <1>3, <1>12, <1>13, <3>1
  <2>1. CASE a = b
    <3> DEFINE own == IF a + 1 <= N THEN <<J[a + 1]>> ELSE << >>
    <3>1. own \in Line /\ << >> \o own = own
      <4>1. J \in Seq(Symbols)
        BY <1>1 DEF Line
      <4>2. << >> \in Line
        BY DEF Line
      <4>3. a + 1 <= N => <<J[a + 1]>> \in Line
        <5> SUFFICES ASSUME a + 1 <= N PROVE <<J[a + 1]>> \in Line
          OBVIOUS
        <5> DEFINE e == J[a + 1]
        <5>1. e \in Symbols
          BY <4>1, <1>14
        <5> HIDE DEF e
        <5>2. <<e>> \in Line
          BY <5>1 DEF Line
        <5> QED
          BY <5>2 DEF e
      <4>4. own \in Line
        BY <4>2, <4>3
      <4> HIDE DEF own
      <4> QED
        BY <4>4 DEF Line
    <3>2. Piece(S, a + 1) = own
      <4>1. Piece(S, a + 1) = << >> \o own
        <5>1. CASE a + 1 <= N
          BY <1>9, <2>1, <5>1
        <5>2. CASE ~(a + 1 <= N)
          <6>1. a + 1 > N
            BY <1>1, <5>2
          <6> QED
            BY <1>10, <2>1, <5>2, <6>1
        <5> QED
          BY <5>1, <5>2
      <4> QED
        BY <3>1, <4>1
    <3>3. Piece(T, a + 1) = x \o own
      BY <1>6, <2>1
    <3> HIDE DEF own
    <3>4. low(a) \o (x \o own) = head \o own
      <4> DEFINE u == low(a)
      <4>1. u \in Seq(Symbols)
        BY <1>14 DEF Line
      <4>2. x \in Seq(Symbols)
        BY <1>14 DEF Line
      <4>3. own \in Seq(Symbols)
        BY <3>1 DEF Line
      <4> HIDE DEF u
      <4>4. (u \o x) \o own = u \o (x \o own)
        BY ONLY <4>1, <4>2, <4>3, ConcatAssociative
      <4> QED
        BY <4>4 DEF u
    <3>5. f[c] = low(b) \o own /\ g[c] = head \o own
      BY <2>0, <2>1, <3>2, <3>3, <3>4
    <3> QED
      BY <3>1, <3>5
  <2>2. CASE a # b
    <3>1. f[c] = low(b) \o << >> /\ << >> \in Line
      <4>1. b \in 0 .. b
        OBVIOUS
      <4>2. f[b] = low(b)
        BY <1>12, <4>1
      <4>3. << >> \in Line
        BY DEF Line
      <4> QED
        BY <1>14, <1>16, <2>2, <4>2, <4>3
    <3>2. g[a + 1] = head
      <4>1. Piece(T, a + 1) = x \o << >>
        BY <1>6, <2>2
      <4>2. x \o << >> = x
        BY <1>14, <1>16
      <4> QED
        BY <2>0, <4>1, <4>2
    <3>3. g[b] = head
      <4> DEFINE Done == {k \in Nat : a + 1 + k <= b => g[a + 1 + k] = head}
      <4>1. 0 \in Done
        BY <3>2
      <4>2. ASSUME NEW k \in Nat, k \in Done PROVE k + 1 \in Done
        <5> SUFFICES ASSUME a + 1 + (k + 1) <= b PROVE g[a + 1 + (k + 1)] = head
          OBVIOUS
        <5>1. PICK n \in Nat : n = a + 1 + k
          OBVIOUS
        <5>2. n \in 0 .. N /\ n + 1 \in a + 2 .. b /\ g[n] = head /\ n + 1 = a + 1 + (k + 1)
          <6>1. n + 1 <= b /\ a + 1 + k <= b /\ n + 1 \in a + 2 .. b /\ n + 1 = a + 1 + (k + 1)
            BY <5>1
          <6>2. n \in 0 .. N
            BY <1>1, <1>14, <6>1
          <6>3. g[n] = head
            BY <4>2, <5>1, <6>1
          <6> QED
            BY <6>1, <6>2, <6>3
        <5>3. g[n + 1] = g[n] \o Piece(T, n + 1)
          BY <1>3, <5>2
        <5>4. Piece(T, n + 1) = << >> \o << >>
          BY <1>7, <5>2
        <5>5. << >> \o << >> = << >>
          OBVIOUS
        <5> HIDE DEF head
        <5>6. head \o << >> = head
          BY <1>15, <1>16
        <5> QED
          BY <5>2, <5>3, <5>4, <5>5, <5>6
      <4> HIDE DEF Done
      <4>3. \A k \in Nat : k \in Done
        BY <4>1, <4>2, NaturalsIn
      <4>4. PICK k \in Nat : a + 1 + k = b
        <5>1. b - (a + 1) \in Nat /\ a + 1 + (b - (a + 1)) = b
          BY <2>2
        <5> QED
          BY <5>1
      <4>5. k \in Done
        BY <4>3
      <4>6. a + 1 + k <= b
        BY <4>4
      <4>7. g[a + 1 + k] = head
        BY <4>5, <4>6, Zenon DEF Done
      <4> QED
        BY <4>4, <4>7, Zenon
    <3> HIDE DEF head
    <3>4. head \o << >> = head
      BY <1>15, <1>16
    <3> QED
      BY <2>2, <3>1, <3>3, <3>4
  <2> QED
    BY <2>1, <2>2
<1> HIDE DEF head
<1>19. ASSUME NEW n \in Nat, n >= c, n <= N,
              \E R \in Line : f[n] = low(b) \o R /\ g[n] = head \o R
       PROVE  \E R \in Line : f[n + 1] = low(b) \o R /\ g[n + 1] = head \o R
  <2>1. PICK R \in Line : f[n] = low(b) \o R /\ g[n] = head \o R
    BY <1>19
  <2>2. f[n + 1] = f[n] \o Piece(S, n + 1) /\ g[n + 1] = g[n] \o Piece(T, n + 1)
    <3>1. n \in 0 .. N
      BY <1>1, <1>19
    <3> QED
      BY <1>2, <1>3, <3>1
  <2> DEFINE p == Piece(S, n + 1)
             u == low(b)
  <2>3. Piece(T, n + 1) = p
    <3>1. n + 1 \in Nat /\ n + 1 >= a + 2 /\ n + 1 > b
      BY <1>17, <1>19
    <3> QED
      BY <1>8, <3>1
  <2>4. p \in Seq(Symbols)
    <3>1. n + 1 \in Nat /\ n + 1 >= 1
      OBVIOUS
    <3> QED
      BY <3>1, PieceType DEF Line
  <2>5. u \in Seq(Symbols)
    BY <1>14 DEF Line
  <2>6. head \in Seq(Symbols)
    BY <1>15 DEF Line
  <2>7. R \in Seq(Symbols)
    BY DEF Line
  <2> HIDE DEF p, u
  <2>8. (u \o R) \o p = u \o (R \o p)
    BY ONLY <2>4, <2>5, <2>7, ConcatAssociative
  <2>9. (head \o R) \o p = head \o (R \o p)
    BY ONLY <2>4, <2>6, <2>7, ConcatAssociative
  <2>10. R \o p \in Line
    BY <2>4, <2>7 DEF Line
  <2>11. f[n + 1] = low(b) \o (R \o p) /\ g[n + 1] = head \o (R \o p)
    BY <2>1, <2>2, <2>3, <2>8, <2>9 DEF p, u
  <2> QED
    BY <2>10, <2>11
<1> DEFINE Good(n) == \E R \in Line : f[n] = low(b) \o R /\ g[n] = head \o R
<1>20. Good(N + 1)
  <2> DEFINE Done == {k \in Nat : c + k <= N + 1 => Good(c + k)}
  <2>0. c \in Nat /\ N \in Nat
    BY <1>1, <1>17
  <2>1. Good(c)
    BY <1>18
  <2>2. \A n \in Nat : n >= c /\ n <= N /\ Good(n) => Good(n + 1)
    BY <1>19
  <2> HIDE DEF c, Good
  <2>3. 0 \in Done
    BY <2>0, <2>1
  <2>4. ASSUME NEW k \in Nat, k \in Done PROVE k + 1 \in Done
    <3> SUFFICES ASSUME c + (k + 1) <= N + 1 PROVE Good(c + (k + 1))
      OBVIOUS
    <3>1. PICK n \in Nat : n = c + k
      BY <2>0
    <3>2. n >= c /\ n <= N /\ c + k <= N + 1 /\ n + 1 = c + (k + 1)
      BY <2>0, <3>1
    <3>3. Good(n)
      BY <2>4, <3>1, <3>2
    <3>4. Good(n + 1)
      BY <2>2, <3>2, <3>3
    <3> QED
      BY <3>2, <3>4
  <2>5. PICK k \in Nat : c + k = N + 1
    <3>1. (N + 1) - c \in Nat /\ c + ((N + 1) - c) = N + 1
      BY <1>17, <2>0
    <3> QED
      BY <3>1
  <2> HIDE DEF Done
  <2>6. k \in Done
    BY <2>3, <2>4, NaturalsIn
  <2>7. c + k <= N + 1
    BY <2>0, <2>5
  <2> QED
    BY <2>5, <2>6, <2>7 DEF Done
<1>21. \E R \in Line : f[N + 1] = low(b) \o R /\ g[N + 1] = head \o R
  BY <1>20
<1> QED
  BY <1>2, <1>3, <1>21 DEF low, head, J, T, x

(* Without replacements the source is left.                                *)
LEMMA AtOnceNone ==
  ASSUME source \in Seq(Line)
  PROVE  AtOnce({}) = Joined(source)
<1> DEFINE J == Joined(source)
           N == Len(J)
           low(n) == SubSeq(J, 1, n)
<1>1. J \in Seq(Symbols) /\ N \in Nat
  BY JoinedIs DEF Line
<1>2. PICK f : /\ f[0] = << >>
               /\ \A n \in 0 .. N : f[n] \in Line /\ f[n + 1] = f[n] \o Piece({}, n + 1)
               /\ AtOnce({}) = f[N + 1]
  BY AtOnceParts
<1>3. ASSUME NEW n \in 1 .. N PROVE Piece({}, n) = << >> \o <<J[n]>>
  <2>1. n <= Len(Joined(source))
    BY <1>1
  <2> QED
    BY <2>1, PieceIs
<1>4. Piece({}, N + 1) = << >> \o << >>
  <2>1. ~(N + 1 <= Len(Joined(source)))
    BY <1>1
  <2>2. {j \in {} : Offset(plan[j].start) = (N + 1) - 1} = {}
    OBVIOUS
  <2> QED
    BY <2>1, <2>2, Zenon DEF Piece
<1> HIDE DEF J
<1>5. \A n \in 0 .. N : f[n] = low(n)
  <2> DEFINE Done == {n \in Nat : n <= N => f[n] = low(n)}
  <2>1. 0 \in Done
    <3>1. low(0) = << >>
      OBVIOUS
    <3> HIDE DEF low
    <3> QED
      BY <1>2, <3>1
  <2>2. ASSUME NEW n \in Nat, n \in Done PROVE n + 1 \in Done
    <3> SUFFICES ASSUME n + 1 <= N PROVE f[n + 1] = low(n + 1)
      OBVIOUS
    <3>1. n \in 0 .. N /\ n <= N /\ n + 1 \in 1 .. N
      BY <1>1
    <3>2. f[n + 1] = low(n) \o (<< >> \o <<J[n + 1]>>)
      BY <1>2, <1>3, <2>2, <3>1
    <3> DEFINE e == J[n + 1]
               u == low(n)
    <3>3. u \in Seq(Symbols) /\ e \in Symbols /\ low(n + 1) = Append(u, e)
      BY <1>1, OneMore
    <3>4. f[n + 1] = u \o (<< >> \o <<e>>)
      BY <3>2
    <3> HIDE DEF e, u
    <3>5. << >> \o <<e>> = <<e>> /\ u \o <<e>> = Append(u, e)
      BY ONLY <3>3
    <3> QED
      BY <3>3, <3>4, <3>5
  <2> HIDE DEF Done
  <2>3. \A n \in Nat : n \in Done
    BY <2>1, <2>2, NaturalsIn
  <2> QED
    BY <1>1, <2>3 DEF Done
<1>6. low(N) = J
  BY <1>1
<1>7. f[N + 1] = J \o (<< >> \o << >>)
  <2>1. N \in 0 .. N
    BY <1>1
  <2> QED
    BY <1>2, <1>4, <1>5, <1>6, <2>1
<1>8. J \o (<< >> \o << >>) = J
  BY ONLY <1>1
<1> QED
  BY <1>2, <1>7, <1>8 DEF J

(* What is applied is in order, the last of the text first.                *)
PlanSorted ==
    \A i, j \in DOMAIN plan : i < j => ~Before(plan[i].start, plan[j].start)

-----------------------------------------------------------------------------

(* Where AppliedAtOnce promises something, as the replacements see it.     *)
Setting ==
    /\ way \in {"fixes", "fix", "edits", "edit"}
    /\ source \in Seq(Whole)
    /\ plan \in Seq(Replacement)
    /\ PlanSorted
    /\ Separate
    /\ ~EndMoves

(* What is known of the source and of the replacements.                    *)
LEMMA SettingTypes ==
  ASSUME Setting
  PROVE  /\ source \in Seq(Line)
         /\ Len(source) \in Nat
         /\ Len(plan) \in Nat /\ DOMAIN plan = 1 .. Len(plan)
         /\ \A i \in DOMAIN plan :
               /\ plan[i] \in Replacement
               /\ plan[i].start \in Position /\ plan[i].end \in Position
               /\ plan[i].text \in Line
               /\ plan[i].start[1] \in Nat \ {0} /\ plan[i].start[2] \in Nat \ {0}
               /\ plan[i].end[1] \in Nat \ {0} /\ plan[i].end[2] \in Nat \ {0}
               /\ plan[i].start[1] <= plan[i].end[1]
               /\ plan[i].start[1] = plan[i].end[1] => plan[i].start[2] <= plan[i].end[2]
<1>1. source \in Seq(Line) /\ plan \in Seq(Replacement)
  BY WholeIsLine DEF Setting
<1>2. ASSUME NEW i \in DOMAIN plan
      PROVE  /\ plan[i].start[1] <= plan[i].end[1]
             /\ plan[i].start[1] = plan[i].end[1] => plan[i].start[2] <= plan[i].end[2]
  <2>1. plan[i] \in Replacement
    BY <1>1
  <2>2. ~Before(plan[i].end, plan[i].start)
    BY DEF Setting, Separate
  <2> QED
    BY <2>1, <2>2, ReplacementType DEF Before
<1>3. \A i \in DOMAIN plan : plan[i] \in Replacement
  BY <1>1
<1>4. Len(source) \in Nat /\ Len(plan) \in Nat /\ DOMAIN plan = 1 .. Len(plan)
  BY <1>1
<1> QED
  BY <1>1, <1>2, <1>3, <1>4, ReplacementType

(* What is applied later begins and ends no later in the source.           *)
LEMMA PlanOrder ==
  ASSUME Setting, NEW q \in DOMAIN plan, NEW i \in DOMAIN plan, q < i
  PROVE  /\ ~Before(plan[q].start, plan[i].end)
         /\ Before(plan[i].start, plan[q].start)
<1>1. ~Before(plan[q].start, plan[i].start) /\ plan[q].start # plan[i].start
  BY SettingTypes DEF Setting, PlanSorted, Separate
<1>2. Before(plan[i].start, plan[q].start)
  <2> DEFINE s == plan[q].start
             u == plan[i].start
  <2>1. s \in Position /\ u \in Position
    BY SettingTypes
  <2>2. s = <<s[1], s[2]>> /\ u = <<u[1], u[2]>>
    <3> HIDE DEF s, u
    <3> QED
      BY <2>1 DEF Position
  <2>3. s[1] # u[1] \/ s[2] # u[2]
    <3>1. s # u
      BY <1>1
    <3> HIDE DEF s, u
    <3> QED
      BY <2>2, <3>1
  <2>4. s[1] \in Nat /\ s[2] \in Nat /\ u[1] \in Nat /\ u[2] \in Nat
    BY SettingTypes
  <2> QED
    BY <1>1, <2>3, <2>4 DEF Before
<1>3. ~Overlap(plan[q], plan[i])
  BY SettingTypes DEF Setting, Separate
<1>4. Before(plan[i].start, plan[q].end)
  <2>1. ~Before(plan[q].end, plan[q].start)
    BY DEF Setting, Separate
  <2> QED
    BY <1>2, <2>1, SettingTypes DEF Before
<1> QED
  BY <1>2, <1>3, <1>4 DEF Overlap

(* How many symbols of its line stand before where a replacement begins.   *)
BeginsAfter(q) == Preceding(source[plan[q].start[1]], plan[q].start[2])

(* ReplacementEngine makes no line of the lines of a range.                *)
Gone(q) ==
    /\ way \in {"edits", "edit"}
    /\ plan[q].start[1] < plan[q].end[1]
    /\ plan[q].text = <<>>
    /\ BeginsAfter(q) = 0

-----------------------------------------------------------------------------

(* Up to where a replacement begins a text is as the source.               *)
AsSourceBefore(t, q) ==
    LET l == plan[q].start[1]
    IN /\ \A k \in 1 .. l - 1 : k \in 1 .. Len(t) /\ t[k] = source[k]
       /\ l \in 1 .. Len(t) =>
             /\ BeginsAfter(q) <= Len(t[l])
             /\ SubSeq(t[l], 1, BeginsAfter(q)) = SubSeq(source[l], 1, BeginsAfter(q))
       /\ l \in 1 .. Len(t) \/ Gone(q)

(* A position of the source is at the same place of a text.                *)
Agrees(t, p) ==
    /\ p[1] \in 1 .. Len(t)
    /\ Preceding(t[p[1]], p[2]) = Preceding(source[p[1]], p[2])
    /\ LineTo(t, p) = LineTo(source, p)
    /\ LinesTo(t, p) = LinesTo(source, p)

(* Texts with the same first lines.                                        *)
LEMMA LinesToSame ==
  ASSUME NEW t \in Seq(Line), NEW s \in Seq(Line), NEW l \in Nat, l <= Len(t), l <= Len(s),
         \A k \in 1 .. l : t[k] = s[k]
  PROVE  SubSeq(t, 1, l) = SubSeq(s, 1, l)
<1> HIDE DEF Line
<1>1. SubSeq(t, 1, l) \in Seq(Line) /\ Len(SubSeq(t, 1, l)) = l
  BY ONLY t \in Seq(Line), l \in Nat, l <= Len(t), SMTT(30)
<1>2. SubSeq(s, 1, l) \in Seq(Line) /\ Len(SubSeq(s, 1, l)) = l
  BY ONLY s \in Seq(Line), l \in Nat, l <= Len(s), SMTT(30)
<1>3. \A k \in 1 .. l : SubSeq(t, 1, l)[k] = t[k]
  BY ONLY t \in Seq(Line), l \in Nat, l <= Len(t), SMTT(30)
<1>4. \A k \in 1 .. l : SubSeq(s, 1, l)[k] = s[k]
  BY ONLY s \in Seq(Line), l \in Nat, l <= Len(s), SMTT(30)
<1>5. \A k \in 1 .. l : SubSeq(t, 1, l)[k] = SubSeq(s, 1, l)[k]
  BY <1>3, <1>4
<1> QED
  BY <1>1, <1>2, <1>5, SeqEqual

(* Positions before where the text is as the source.                       *)
LEMMA AgreesOnEarlierLines ==
  ASSUME Setting, NEW t \in Seq(Line), NEW q \in DOMAIN plan, AsSourceBefore(t, q),
         plan[q].start[1] <= Len(source),
         NEW p \in Position, p[1] < plan[q].start[1]
  PROVE  Agrees(t, p) /\ t[p[1]] = source[p[1]]
<1>1. /\ p[1] \in Nat \ {0} /\ plan[q].start[1] \in Nat
      /\ source \in Seq(Line) /\ Len(source) \in Nat /\ Len(t) \in Nat
  BY SettingTypes DEF Position
<1>2. p[1] \in 1 .. plan[q].start[1] - 1
  BY <1>1
<1>3. \A k \in 1 .. plan[q].start[1] - 1 : k \in 1 .. Len(t) /\ t[k] = source[k]
  BY DEF AsSourceBefore
<1>4. p[1] \in 1 .. Len(t) /\ t[p[1]] = source[p[1]]
  BY <1>2, <1>3
<1>5. LinesTo(t, p) = LinesTo(source, p)
  <2>1. PICK l \in Nat : l = p[1] - 1
    BY <1>1
  <2>2. l <= Len(t) /\ l <= Len(source) /\ \A k \in 1 .. l : t[k] = source[k]
    BY <1>1, <1>3, <1>4, <2>1
  <2>3. SubSeq(t, 1, l) = SubSeq(source, 1, l)
    BY <1>1, <2>2, LinesToSame
  <2> QED
    BY <2>1, <2>3 DEF LinesTo
<1> QED
  BY <1>4, <1>5 DEF Agrees, LineTo

(* Positions on the line where a replacement begins, as far as it is as in *)
(* the source.                                                             *)
LEMMA AgreesOnItsLine ==
  ASSUME Setting, NEW t \in Seq(Line), NEW q \in DOMAIN plan, AsSourceBefore(t, q),
         plan[q].start[1] <= Len(source),
         plan[q].start[1] \in 1 .. Len(t),
         NEW p \in Position, p[1] = plan[q].start[1], p[2] <= plan[q].start[2],
         p[2] - 1 <= Len(source[p[1]])
  PROVE  Agrees(t, p)
<1> DEFINE x == source[p[1]]
           y == t[p[1]]
           c == p[2]
           n == BeginsAfter(q)
<1>1. /\ p[1] \in Nat \ {0} /\ c \in Nat \ {0} /\ plan[q].start[2] \in Nat
      /\ source \in Seq(Line) /\ Len(source) \in Nat /\ Len(t) \in Nat
      /\ p[1] \in 1 .. Len(t) /\ p[1] \in 1 .. Len(source)
  BY SettingTypes DEF Position
<1>2. x \in Seq(Symbols) /\ y \in Seq(Symbols)
  BY <1>1 DEF Line
<1>3. n \in 0 .. Len(x) /\ c - 1 <= n /\ c - 1 <= Len(x)
  <2>1. PICK d : d = plan[q].start[2]
    OBVIOUS
  <2>2. n = Preceding(x, d)
    BY <2>1 DEF BeginsAfter
  <2>3. PICK l \in Nat : l = Len(x)
    BY <1>2
  <2>4. c \in Nat \ {0} /\ d \in Nat /\ c <= d /\ c - 1 <= l
    BY <1>1, <2>1, <2>3
  <2> HIDE DEF n, x, c
  <2> QED
    BY ONLY <2>2, <2>3, <2>4 DEF Preceding
<1>4. n <= Len(y) /\ SubSeq(y, 1, n) = SubSeq(x, 1, n)
  BY DEF AsSourceBefore
<1>5. Preceding(x, c) = c - 1 /\ Preceding(y, c) = c - 1
  BY <1>1, <1>2, <1>3, <1>4 DEF Preceding
<1>6. SubSeq(y, 1, c - 1) = SubSeq(x, 1, c - 1)
  <2> HIDE DEF x, y, n, c
  <2>1. PICK m \in 0 .. n : m = c - 1
    BY <1>1, <1>3
  <2>2. SubSeq(SubSeq(y, 1, n), 1, m) = SubSeq(y, 1, m)
    BY <1>2, <1>3, <1>4, <2>1
  <2>3. SubSeq(SubSeq(x, 1, n), 1, m) = SubSeq(x, 1, m)
    BY <1>2, <1>3, <2>1
  <2> QED
    BY <1>4, <2>1, <2>2, <2>3
<1>7. LinesTo(t, p) = LinesTo(source, p)
  <2>1. PICK l \in Nat : l = p[1] - 1
    BY <1>1
  <2>2. l <= Len(t) /\ l <= Len(source) /\ \A k \in 1 .. l : t[k] = source[k]
    <3>1. l <= Len(t) /\ l <= Len(source)
      BY <1>1, <2>1
    <3>2. \A k \in 1 .. l : k \in 1 .. plan[q].start[1] - 1
      BY <2>1
    <3> QED
      BY <3>1, <3>2 DEF AsSourceBefore
  <2>3. SubSeq(t, 1, l) = SubSeq(source, 1, l)
    BY <1>1, <2>2, LinesToSame
  <2> QED
    BY <2>1, <2>3 DEF LinesTo
<1> QED
  BY <1>1, <1>5, <1>6, <1>7 DEF Agrees, LineTo

(* Positions before anything has been replaced.                            *)
LEMMA AgreesWithItself ==
  ASSUME NEW p, p[1] \in 1 .. Len(source)
  PROVE  Agrees(source, p)
  BY DEF Agrees

(* What is not skipped is within the source.                               *)
LEMMA TakenIs ==
  ASSUME NEW i \in Taken
  PROVE  /\ i \in DOMAIN plan
         /\ plan[i].start[1] <= Len(source) /\ plan[i].end[1] <= Len(source)
         /\ way \in {"fixes", "fix"} =>
               /\ plan[i].start[2] - 1 <= Len(source[plan[i].start[1]])
               /\ plan[i].end[2] - 1 <= Len(source[plan[i].end[1]])
  BY DEF Taken, HasLines, HasColumns

(* What is taken after another stands where it stood in the source.        *)
LEMMA Agreement ==
  ASSUME Setting, NEW t \in Seq(Line), NEW q \in Taken, NEW i \in Taken, q < i,
         AsSourceBefore(t, q)
  PROVE  Agrees(t, plan[i].start) /\ Agrees(t, plan[i].end)
<1> DEFINE s == plan[i].start
           e == plan[i].end
           l == plan[q].start[1]
           c == plan[q].start[2]
<1>1. /\ q \in DOMAIN plan /\ i \in DOMAIN plan
      /\ l <= Len(source) /\ s[1] <= Len(source) /\ e[1] <= Len(source)
  BY TakenIs
<1>2. /\ s \in Position /\ e \in Position
      /\ l \in Nat \ {0} /\ c \in Nat \ {0} /\ s[1] \in Nat \ {0} /\ s[2] \in Nat \ {0}
      /\ e[1] \in Nat \ {0} /\ e[2] \in Nat \ {0}
      /\ s[1] <= e[1] /\ (s[1] = e[1] => s[2] <= e[2])
      /\ plan[q].start \in Position
      /\ source \in Seq(Line) /\ Len(source) \in Nat /\ Len(t) \in Nat
  BY <1>1, SettingTypes
<1>3. e[1] < l \/ (e[1] = l /\ e[2] <= c)
  BY <1>1, <1>2, PlanOrder DEF Before
<1>4. CASE e[1] < l
  <2>1. s[1] < l
    BY <1>2, <1>4
  <2> QED
    BY <1>1, <1>2, <1>4, <2>1, AgreesOnEarlierLines
<1>5. CASE e[1] = l /\ e[2] <= c
  <2> DEFINE x == source[l]
  <2>1. x \in Line /\ Len(x) \in Nat
    <3>1. l \in 1 .. Len(source)
      BY <1>1, <1>2
    <3>2. x \in Line
      BY <1>2, <3>1
    <3> QED
      BY <3>2 DEF Line
  <2>2. Preceding(x, e[2]) <= Preceding(x, c) /\ Preceding(x, e[2]) \in Nat /\ Preceding(x, c) \in Nat
    <3>1. Preceding(x, e[2]) <= Preceding(x, c)
      BY <1>2, <1>5, <2>1, PrecedingIs
    <3>2. Preceding(x, e[2]) \in 0 .. Len(x) /\ Preceding(x, c) \in 0 .. Len(x)
      BY <1>2, <2>1, PrecedingIs
    <3> QED
      BY <2>1, <3>1, <3>2
  <2>3. Preceding(x, e[2]) = Preceding(x, c) => Offset(e) = Offset(plan[q].start)
    BY <1>5 DEF Offset
  <2>4. ASSUME Offset(e) = Offset(plan[q].start)
        PROVE  e[2] - 1 <= Len(x) /\ ~Gone(q)
    <3>1. q # i
      BY <1>1, <1>2, SettingTypes
    <3>2. ~EndMoves
      BY DEF Setting
    <3>3. ~(\/ e[2] - 1 > Len(source[e[1]])
            \/ /\ way \in {"edits", "edit"}
               /\ plan[q].start[1] < plan[q].end[1]
               /\ plan[q].text = <<>>
               /\ Preceding(source[plan[q].start[1]], plan[q].start[2]) = 0)
      BY <2>4, <3>1, <3>2, Zenon DEF EndMoves
    <3>4. e[2] - 1 <= Len(x)
      <4>1. ~(e[2] - 1 > Len(x))
        BY <1>5, <3>3
      <4> HIDE DEF e, x
      <4> QED
        BY <1>2, <2>1, <4>1
    <3>5. ~Gone(q)
      BY <3>3, Zenon DEF Gone, BeginsAfter
    <3> QED
      BY <3>4, <3>5
  <2>5. e[2] - 1 <= Len(x)
    <3>1. CASE e[2] - 1 > Len(x)
      <4>1. Preceding(x, e[2]) = Preceding(x, c)
        <5> HIDE DEF x, e, c, s, l
        <5> QED
          BY <1>2, <1>5, <2>1, <3>1 DEF Preceding
      <4> QED
        BY <2>3, <2>4, <4>1
    <3> HIDE DEF x, e
    <3> QED
      BY <1>2, <2>1, <3>1
  <2>6. l \in 1 .. Len(t)
    <3>1. CASE Gone(q)
      <4>1. Preceding(x, c) = 0
        BY <3>1 DEF Gone, BeginsAfter
      <4>2. Preceding(x, e[2]) = Preceding(x, c)
        BY <2>2, <4>1
      <4> QED
        BY <2>3, <2>4, <3>1, <4>2
    <3> QED
      BY <3>1 DEF AsSourceBefore
  <2>7. Agrees(t, e)
    BY <1>1, <1>2, <1>5, <2>5, <2>6, AgreesOnItsLine
  <2>8. Agrees(t, s)
    <3>1. CASE s[1] < l
      BY <1>1, <1>2, <3>1, AgreesOnEarlierLines
    <3>2. CASE s[1] = l
      <4>1. s[2] <= c /\ s[2] - 1 <= Len(source[s[1]])
        <5>1. source[s[1]] = x
          BY <3>2
        <5> HIDE DEF x, e, c, s, l
        <5> QED
          BY <1>2, <1>5, <2>1, <2>5, <3>2, <5>1
      <4> QED
        BY <1>1, <1>2, <2>6, <3>2, <4>1, AgreesOnItsLine
    <3> QED
      BY <1>2, <1>5, <3>1, <3>2
  <2> QED
    BY <2>7, <2>8
<1> QED
  BY <1>3, <1>4, <1>5

(* What is skipped in the source is skipped in what has become of it.      *)
LEMMA SkippedStays ==
  ASSUME Setting, NEW t \in Seq(Line), NEW q \in Taken, NEW i \in DOMAIN plan, q < i,
         i \notin Taken, AsSourceBefore(t, q)
  PROVE  Replace(t, plan[i]) = t
<1> DEFINE s == plan[i].start
           e == plan[i].end
           l == plan[q].start[1]
           c == plan[q].start[2]
<1>1. q \in DOMAIN plan /\ l <= Len(source)
  BY TakenIs
<1>2. /\ s \in Position /\ e \in Position
      /\ l \in Nat \ {0} /\ c \in Nat \ {0} /\ s[1] \in Nat \ {0} /\ s[2] \in Nat \ {0}
      /\ e[1] \in Nat \ {0} /\ e[2] \in Nat \ {0}
      /\ s[1] <= e[1] /\ (s[1] = e[1] => s[2] <= e[2])
      /\ source \in Seq(Line) /\ Len(source) \in Nat /\ Len(t) \in Nat
  BY <1>1, SettingTypes
<1>3. e[1] < l \/ (e[1] = l /\ e[2] <= c)
  BY <1>1, <1>2, PlanOrder DEF Before
<1>4. HasLines(source, plan[i])
  <2>1. s[1] <= Len(source) /\ e[1] <= Len(source)
    BY <1>1, <1>2, <1>3
  <2> QED
    BY <2>1 DEF HasLines
<1>5. way \in {"fixes", "fix"} /\ ~HasColumns(source, plan[i])
  BY <1>4 DEF Taken
<1>6. c - 1 <= Len(source[l])
  BY <1>5, TakenIs
<1>7. ASSUME HasColumns(t, plan[i]), HasLines(t, plan[i]) PROVE HasColumns(source, plan[i])
  <2>1. s[2] - 1 <= Len(t[s[1]]) /\ e[2] - 1 <= Len(t[e[1]])
    BY <1>7 DEF HasColumns
  <2>2. ASSUME NEW p \in Position, p[1] < l, p[2] - 1 <= Len(t[p[1]])
        PROVE  p[2] - 1 <= Len(source[p[1]])
    BY <1>1, <2>2, AgreesOnEarlierLines
  <2>3. Len(source[l]) \in Nat
    <3>1. l \in 1 .. Len(source)
      BY <1>1, <1>2
    <3> QED
      BY <1>2, <3>1, SMTT(30) DEF Line
  <2>4. e[2] - 1 <= Len(source[e[1]])
    <3>1. CASE e[1] < l
      BY <1>2, <2>1, <2>2, <3>1
    <3>2. CASE e[1] = l /\ e[2] <= c
      <4> DEFINE n == Len(source[l])
      <4>1. n \in Nat /\ c - 1 <= n /\ Len(source[e[1]]) = n
        BY <1>6, <2>3, <3>2
      <4> HIDE DEF e, c, n
      <4> QED
        BY <1>2, <3>2, <4>1
    <3> QED
      BY <1>3, <3>1, <3>2
  <2>5. s[2] - 1 <= Len(source[s[1]])
    <3>1. CASE s[1] < l
      BY <1>2, <2>1, <2>2, <3>1
    <3>2. CASE ~(s[1] < l)
      <4>1. s[1] = l /\ e[1] = l
        <5> HIDE DEF s, e, l, c
        <5> QED
          BY <1>2, <1>3, <3>2
      <4> DEFINE n == Len(source[l])
      <4>2. n \in Nat /\ e[2] - 1 <= n /\ Len(source[s[1]]) = n
        BY <2>3, <2>4, <4>1
      <4> HIDE DEF s, e, l, n
      <4> QED
        BY <1>2, <4>1, <4>2
    <3> QED
      BY <3>1, <3>2
  <2> QED
    BY <1>2, <2>4, <2>5 DEF HasColumns
<1> QED
  BY <1>5, <1>7 DEF Replace, FixEngineReplace

(* What is not taken is skipped in the source.                             *)
LEMMA SkippedInSource ==
  ASSUME Setting, NEW i \in DOMAIN plan, i \notin Taken
  PROVE  Replace(source, plan[i]) = source
<1>1. way \in {"fixes", "fix"} \/ (way \notin {"fixes", "fix"} /\ ~HasLines(source, plan[i]))
  BY DEF Taken
<1>2. way \in {"fixes", "fix"} => ~(HasLines(source, plan[i]) /\ HasColumns(source, plan[i]))
  BY DEF Taken
<1> QED
  BY <1>1, <1>2 DEF Replace, FixEngineReplace, ReplacementEngineReplace

(* What takes the place of the lines of a range.                           *)
Put(t, r) ==
    IF way \in {"edits", "edit"} /\ r.start[1] < r.end[1] THEN SplitLines(Merged(t, r))
    ELSE <<Merged(t, r)>>

(* What is taken is not skipped in a text that agrees with the source      *)
(* where it begins and ends.                                               *)
LEMMA TakenReplaces ==
  ASSUME Setting, NEW t \in Seq(Line), NEW i \in Taken,
         Agrees(t, plan[i].start), Agrees(t, plan[i].end)
  PROVE  /\ HasLines(t, plan[i])
         /\ Replace(t, plan[i]) = Spliced(t, plan[i], Put(t, plan[i]))
<1> DEFINE r == plan[i]
           s == r.start
           e == r.end
<1>1. i \in DOMAIN plan /\ s[1] <= Len(source) /\ e[1] <= Len(source)
  BY TakenIs
<1>2. /\ r \in Replacement
      /\ s \in Position /\ e \in Position
      /\ s[1] \in Nat \ {0} /\ s[2] \in Nat \ {0}
      /\ e[1] \in Nat \ {0} /\ e[2] \in Nat \ {0}
      /\ s[1] <= e[1] /\ (s[1] = e[1] => s[2] <= e[2])
      /\ source \in Seq(Line) /\ Len(source) \in Nat /\ Len(t) \in Nat
  BY <1>1, SettingTypes
<1>3. /\ s[1] \in 1 .. Len(t) /\ e[1] \in 1 .. Len(t)
      /\ Preceding(t[s[1]], s[2]) = Preceding(source[s[1]], s[2])
      /\ Preceding(t[e[1]], e[2]) = Preceding(source[e[1]], e[2])
  BY DEF Agrees
<1>4. HasLines(t, r)
  BY <1>3 DEF HasLines
<1>5. Len(t[s[1]]) \in Nat /\ Len(t[e[1]]) \in Nat /\ t[s[1]] \in Line /\ t[e[1]] \in Line
  <2>1. t[s[1]] \in Line /\ t[e[1]] \in Line
    BY <1>3
  <2> QED
    BY <2>1, LineLength
<1>6. CASE way \in {"fixes", "fix"}
  <2>1. s[2] - 1 <= Len(source[s[1]]) /\ e[2] - 1 <= Len(source[e[1]])
    BY <1>6, TakenIs
  <2>2. \A m, n, k : m \in Nat /\ k \in Nat \ {0} /\ k - 1 <= n
                       /\ (IF k - 1 <= m THEN k - 1 ELSE m) = (IF k - 1 <= n THEN k - 1 ELSE n)
                     => k - 1 <= m
    OBVIOUS
  <2>3. s[2] - 1 <= Len(t[s[1]]) /\ e[2] - 1 <= Len(t[e[1]])
    <3> HIDE DEF s, e
    <3> QED
      BY <1>2, <1>3, <1>5, <2>1, <2>2 DEF Preceding
  <2>4. HasColumns(t, r)
    BY <1>2, <2>3 DEF HasColumns
  <2> QED
    BY <1>4, <1>6, <2>4 DEF Replace, FixEngineReplace, Put
<1>7. CASE way \in {"edits", "edit"}
  <2>1. InOrder(t, r)
    <3> SUFFICES ASSUME s[1] = e[1] PROVE Preceding(t[s[1]], s[2]) <= Preceding(t[e[1]], e[2])
      BY DEF InOrder
    <3> HIDE DEF s, e
    <3> QED
      BY <1>2, <1>5, PrecedingIs
  <2>2. s[1] < e[1] <=> s[1] # e[1]
    BY <1>2
  <2>3. Replace(t, r) = ReplacementEngineReplace(t, r)
    BY <1>7 DEF Replace
  <2>4. Put(t, r) = IF s[1] # e[1] THEN SplitLines(Merged(t, r)) ELSE <<Merged(t, r)>>
    BY <1>7, <2>2 DEF Put
  <2>5. ReplacementEngineReplace(t, r) = Spliced(t, r, IF s[1] = e[1] THEN <<Merged(t, r)>>
                                                      ELSE SplitLines(Merged(t, r)))
    BY <1>4, <2>1, Zenon DEF ReplacementEngineReplace
  <2> QED
    BY <1>4, <2>3, <2>4, <2>5
<1> QED
  BY <1>4, <1>6, <1>7 DEF Setting

(* Where every text ends in a symbol, no line ends in a break.             *)
EndsWhole(t) ==
    (\A i \in Taken : plan[i].text # <<>> /\ Last(plan[i].text) # Break)
      => \A l \in 1 .. Len(t) : t[l] # <<>> => Last(t[l]) # Break

(* The last of two sequences one after the other.                          *)
LEMMA LastOfConcat ==
  ASSUME NEW S, NEW x \in Seq(S), NEW y \in Seq(S), y # << >>
  PROVE  x \o y # << >> /\ Last(x \o y) = Last(y)
<1>1. Len(y) > 0 /\ Len(y) \in Nat /\ Len(x) \in Nat
  OBVIOUS
<1>2. Len(x \o y) = Len(x) + Len(y) /\ (x \o y)[Len(x) + Len(y)] = y[Len(y)]
  BY <1>1
<1>3. x \o y # << >>
  BY <1>1, <1>2
<1> QED
  BY <1>2, <1>3 DEF Last

(* A new line ends in a symbol if the text put there does, and the line it *)
(* ends with.                                                              *)
LEMMA MergedEnds ==
  ASSUME NEW t \in Seq(Line), NEW r \in Replacement, HasLines(t, r),
         r.text # << >>, Last(r.text) # Break,
         t[r.end[1]] # << >> => Last(t[r.end[1]]) # Break
  PROVE  Merged(t, r) # << >> /\ Last(Merged(t, r)) # Break
<1> DEFINE x == LineTo(t, r.start)
           y == r.text
           z == LineFrom(t, r.end)
           w == t[r.end[1]]
           k == Preceding(w, r.end[2])
<1>1. x \in Seq(Symbols) /\ y \in Seq(Symbols) /\ z \in Seq(Symbols) /\ w \in Seq(Symbols)
  BY ReplacementType, PartsType DEF HasLines, Line
<1>2. Merged(t, r) = (x \o y) \o z
  BY MergedType
<1>3. k \in 0 .. Len(w)
  BY <1>1, ReplacementType, PrecedingIs DEF Line
<1>4. z = SubSeq(w, k + 1, Len(w))
  BY DEF LineFrom
<1>5. y # << >> /\ Last(y) # Break /\ (w # << >> => Last(w) # Break)
  OBVIOUS
<1> HIDE DEF x, y, z, w, k
<1>6. x \o y \in Seq(Symbols) /\ x \o y # << >> /\ Last(x \o y) = Last(y)
  BY <1>1, <1>5, LastOfConcat
<1>7. CASE z = << >>
  <2> DEFINE u == x \o y
  <2>1. u \in Seq(Symbols)
    BY <1>6
  <2>2. Merged(t, r) = u \o << >>
    BY <1>2, <1>7
  <2>3. u # << >> /\ Last(u) # Break
    BY <1>5, <1>6
  <2> HIDE DEF u
  <2>4. u \o << >> = u
    BY ONLY <2>1
  <2> QED
    BY <2>2, <2>3, <2>4
<1>8. CASE z # << >>
  <2>1. Len(w) \in Nat /\ k + 1 <= Len(w) /\ w # << >>
    <3>1. Len(w) \in Nat
      BY <1>1
    <3>2. CASE k = Len(w)
      <4>1. z = << >>
        BY <1>4, <3>1, <3>2
      <4> QED
        BY <1>8, <4>1
    <3>3. CASE k # Len(w)
      <4>1. k + 1 <= Len(w)
        BY <1>3, <3>1, <3>3
      <4>2. w # << >>
        BY <1>3, <4>1
      <4> QED
        BY <3>1, <4>1, <4>2
    <3> QED
      BY <3>2, <3>3
  <2>2. Last(z) = Last(w)
    <3>1. Len(z) = Len(w) - k /\ z[Len(w) - k] = w[Len(w)]
      BY <1>1, <1>3, <1>4, <2>1
    <3> QED
      BY <3>1 DEF Last
  <2> DEFINE u == x \o y
  <2>3. u \in Seq(Symbols) /\ Merged(t, r) = u \o z
    BY <1>2, <1>6
  <2> HIDE DEF u
  <2>4. u \o z # << >> /\ Last(u \o z) = Last(z)
    BY <1>1, <1>8, <2>3, LastOfConcat
  <2> QED
    BY <1>5, <2>1, <2>2, <2>3, <2>4
<1> QED
  BY <1>7, <1>8

(* A line without breaks does not end in one.                              *)
LEMMA EndOfWhole ==
  ASSUME NEW x \in Whole, x # << >>
  PROVE  Last(x) # Break
<1>1. Len(x) \in 1 .. Len(x)
  BY DEF Whole
<1>2. x[Len(x)] \in Symbols \ {Break}
  BY <1>1 DEF Whole
<1> QED
  BY <1>2 DEF Last

(* A replacement puts its text in place of its range.                      *)
LEMMA PutIs ==
  ASSUME Setting, NEW t \in Seq(Line), NEW i \in Taken, HasLines(t, plan[i]), EndsWhole(t)
  PROVE  /\ Put(t, plan[i]) \in Seq(Line)
         /\ Alike(Broken(Spliced(t, plan[i], Put(t, plan[i]))), Replaced(t, plan[i]))
         /\ EndsWhole(Spliced(t, plan[i], Put(t, plan[i])))
<1> DEFINE r == plan[i]
           m == Merged(t, r)
           split == SplitLines(m)
           AllEnd == \A j \in Taken : plan[j].text # <<>> /\ Last(plan[j].text) # Break
<1>1. i \in DOMAIN plan /\ r \in Replacement
  BY TakenIs, SettingTypes
<1>2. m \in Line
  BY <1>1, MergedType
<1>3. split \in Seq(Whole) /\ split \in Seq(Line) /\ <<m>> \in Seq(Line)
  BY <1>2, SplitIs, WholeIsLine
<1>4. Put(t, r) = IF way \in {"edits", "edit"} /\ r.start[1] < r.end[1] THEN split ELSE <<m>>
  BY DEF Put
<1>5. Put(t, r) \in Seq(Line)
  BY <1>3, <1>4
<1>6. AllEnd => m # << >> /\ Last(m) # Break
  <2> SUFFICES ASSUME AllEnd PROVE m # << >> /\ Last(m) # Break
    OBVIOUS
  <2>1. r.text # << >> /\ Last(r.text) # Break
    OBVIOUS
  <2>2. r.end[1] \in 1 .. Len(t)
    BY <1>1, ReplacementType DEF HasLines
  <2>3. t[r.end[1]] # << >> => Last(t[r.end[1]]) # Break
    BY <2>2 DEF EndsWhole
  <2> QED
    BY <1>1, <2>1, <2>3, MergedEnds
<1>7. EndsWhole(Spliced(t, r, Put(t, r)))
  <2> DEFINE s == Spliced(t, r, Put(t, r))
  <2> SUFFICES ASSUME AllEnd, NEW l \in 1 .. Len(s), s[l] # << >>
               PROVE  Last(s[l]) # Break
    BY DEF EndsWhole
  <2>1. \/ \E k \in 1 .. Len(t) : s[l] = t[k]
        \/ \E k \in 1 .. Len(Put(t, r)) : s[l] = Put(t, r)[k]
    BY <1>1, <1>5, SplicedLines
  <2>2. CASE \E k \in 1 .. Len(t) : s[l] = t[k]
    BY <2>2 DEF EndsWhole
  <2>3. CASE \E k \in 1 .. Len(Put(t, r)) : s[l] = Put(t, r)[k]
    <3>1. PICK k \in 1 .. Len(Put(t, r)) : s[l] = Put(t, r)[k]
      BY <2>3
    <3>2. CASE Put(t, r) = split
      <4>1. s[l] \in Whole
        <5> HIDE DEF split, s
        <5> QED
          BY <1>3, <3>1, <3>2
      <4> QED
        BY <4>1, EndOfWhole
    <3>3. CASE Put(t, r) = <<m>>
      <4>1. s[l] = m
        <5> HIDE DEF m, s
        <5> QED
          BY <3>1, <3>3
      <4> QED
        BY <1>6, <4>1
    <3> QED
      BY <1>4, <3>2, <3>3
  <2> QED
    BY <2>1, <2>2, <2>3
<1>8. Alike(Broken(Spliced(t, r, Put(t, r))), Replaced(t, r))
  <2>1. CASE ~(way \in {"edits", "edit"} /\ r.start[1] < r.end[1])
    <3>1. Broken(Spliced(t, r, Put(t, r))) = Replaced(t, r)
      BY <1>1, <1>4, <2>1, ReplacedIs
    <3> QED
      BY <3>1 DEF Alike
  <2>2. CASE way \in {"edits", "edit"} /\ r.start[1] < r.end[1]
    <3>1. Put(t, r) = split
      BY <1>4, <2>2
    <3>2. CASE MayLoseBreak
      <4>1. WithoutBreaks(Broken(Spliced(t, r, split))) = WithoutBreaks(Replaced(t, r))
        BY <1>1, ReplacedIs
      <4> QED
        BY <3>1, <3>2, <4>1 DEF Alike
    <3>3. CASE ~MayLoseBreak
      <4>1. AllEnd
        BY <2>2, <3>3 DEF MayLoseBreak
      <4>2. Broken(Spliced(t, r, split)) = Replaced(t, r)
        BY <1>1, <1>6, <4>1, ReplacedIs
      <4> QED
        BY <3>1, <3>3, <4>2 DEF Alike
    <3> QED
      BY <3>2, <3>3
  <2> QED
    BY <2>1, <2>2
<1> QED
  BY <1>5, <1>7, <1>8

(* Up to where it begins a replacement leaves the source.                  *)
LEMMA PutLeaves ==
  ASSUME Setting, NEW t \in Seq(Line), NEW i \in Taken, HasLines(t, plan[i]),
         Agrees(t, plan[i].start)
  PROVE  AsSourceBefore(Spliced(t, plan[i], Put(t, plan[i])), i)
<1> DEFINE r == plan[i]
           a == r.start[1]
           m == Merged(t, r)
           new == Put(t, r)
           s == Spliced(t, r, new)
           p == BeginsAfter(i)
<1>1. /\ i \in DOMAIN plan /\ r \in Replacement
      /\ a \in Nat \ {0} /\ r.start \in Position /\ a <= Len(source)
      /\ source \in Seq(Line) /\ Len(source) \in Nat
  BY TakenIs, SettingTypes
<1>2. m \in Line /\ m = (LineTo(t, r.start) \o r.text) \o LineFrom(t, r.end)
  BY <1>1, MergedType
<1>3. new \in Seq(Line)
  <2>1. SplitLines(m) \in Seq(Line) /\ <<m>> \in Seq(Line)
    BY <1>2, SplitIs, WholeIsLine
  <2> QED
    BY <2>1 DEF Put
<1>4. /\ \A l \in 1 .. a - 1 : l \in 1 .. Len(s) /\ s[l] = t[l]
      /\ new # << >> => a \in 1 .. Len(s) /\ s[a] = new[1]
  <2>1. r \in Replacement /\ HasLines(t, r) /\ t \in Seq(Line) /\ new \in Seq(Line)
    BY <1>1, <1>3
  <2> HIDE DEF r, new
  <2> QED
    BY ONLY <2>1, SplicedLines, SMTT(30)
<1>5. \A l \in 1 .. a - 1 : l \in 1 .. Len(s) /\ s[l] = source[l]
  <2> TAKE l \in 1 .. a - 1
  <2>1. LinesTo(t, r.start) = LinesTo(source, r.start) /\ a \in 1 .. Len(t)
    BY DEF Agrees
  <2>2. LinesTo(t, r.start)[l] = t[l] /\ LinesTo(source, r.start)[l] = source[l]
    <3> HIDE DEF Line
    <3> QED
      BY <1>1, <2>1 DEF LinesTo
  <2> QED
    BY <1>4, <2>1, <2>2
<1>6. LineTo(t, r.start) = SubSeq(source[a], 1, p) /\ p = Preceding(source[a], r.start[2])
  BY DEF Agrees, LineTo, BeginsAfter
<1>7. source[a] \in Whole /\ p \in 0 .. Len(source[a]) /\ source[a] \in Seq(Symbols)
  <2>1. a \in 1 .. Len(source)
    BY <1>1
  <2>2. source[a] \in Whole
    BY <2>1 DEF Setting
  <2>3. source[a] \in Line
    BY <2>2, WholeIsLine
  <2> QED
    BY <1>1, <1>6, <2>2, <2>3, PrecedingIs, SettingTypes DEF Line
<1> DEFINE x == SubSeq(source[a], 1, p)
           y == r.text
           z == LineFrom(t, r.end)
<1>8. /\ x \in Seq(Symbols) /\ y \in Seq(Symbols) /\ z \in Seq(Symbols)
      /\ Len(x) = p /\ SubSeq(x, 1, p) = x /\ m = (x \o y) \o z
      /\ \A k \in 1 .. p : x[k] # Break
  <2>1. y \in Seq(Symbols) /\ z \in Seq(Symbols)
    BY <1>1, ReplacementType, PartsType DEF HasLines, Line
  <2>2. m = (x \o y) \o z
    BY <1>2, <1>6
  <2> DEFINE w == source[a]
  <2>3. w \in Seq(Symbols) /\ w \in Seq(Symbols \ {Break})
    BY <1>7 DEF Whole
  <2> HIDE DEF w, p
  <2>4. /\ SubSeq(w, 1, p) \in Seq(Symbols) /\ Len(SubSeq(w, 1, p)) = p
        /\ SubSeq(SubSeq(w, 1, p), 1, p) = SubSeq(w, 1, p)
        /\ \A k \in 1 .. p : SubSeq(w, 1, p)[k] = w[k] /\ k \in 1 .. Len(w)
    BY <1>7, <2>3 DEF w
  <2>5. \A k \in 1 .. Len(w) : w[k] # Break
    BY <2>3
  <2> QED
    BY <2>1, <2>2, <2>4, <2>5 DEF w
<1> HIDE DEF x, y, z, p, m
<1>9. /\ Len(m) >= p /\ SubSeq(m, 1, p) = x /\ Len(m) \in Nat
      /\ \A k \in 1 .. p : m[k] # Break
  <2>1. PICK u : u = y \o z
    OBVIOUS
  <2>2. u \in Seq(Symbols)
    BY ONLY <1>8, <2>1, ConcatProperties
  <2>3. m = x \o u
    <3>1. x \in Seq(Symbols)
      BY <1>8
    <3>2. y \in Seq(Symbols)
      BY <1>8
    <3>3. z \in Seq(Symbols)
      BY <1>8
    <3>4. (x \o y) \o z = x \o (y \o z)
      BY ONLY <3>1, <3>2, <3>3, ConcatAssociative
    <3> QED
      BY <1>8, <2>1, <3>4
  <2>4. x \in Seq(Symbols) /\ Len(x) = p /\ p \in Nat /\ \A k \in 1 .. p : x[k] # Break
    BY <1>7, <1>8
  <2>5. Len(x \o u) = Len(x) + Len(u) /\ Len(u) \in Nat
    BY ONLY <2>2, <2>4
  <2>6. \A k \in 1 .. p : (x \o u)[k] = x[k]
    BY ONLY <2>2, <2>4
  <2>7. SubSeq(x \o u, 1, p) = x
    BY ONLY <2>2, <2>4, SMTT(30)
  <2> QED
    BY <2>3, <2>4, <2>5, <2>6, <2>7
<1>10. \/ new = <<m>>
       \/ /\ new = SplitLines(m)
          /\ way \in {"edits", "edit"} /\ r.start[1] < r.end[1]
  BY DEF Put, m
<1>11. new = << >> => /\ p = 0 /\ y = << >>
                      /\ way \in {"edits", "edit"} /\ r.start[1] < r.end[1]
  <2> SUFFICES ASSUME new = << >>
               PROVE  /\ p = 0 /\ y = << >>
                      /\ way \in {"edits", "edit"} /\ r.start[1] < r.end[1]
    OBVIOUS
  <2>1. new = SplitLines(m) /\ way \in {"edits", "edit"} /\ r.start[1] < r.end[1]
    BY <1>10
  <2>2. m = << >>
    BY <1>2, <2>1, SplitIs
  <2>3. p = 0
    BY <1>7, <1>9, <2>2
  <2>4. y = << >>
    <3>1. x \o y \in Seq(Symbols) /\ (x \o y) \o z = << >>
      BY <1>8, <2>2
    <3> DEFINE u == x \o y
    <3>2. u \in Seq(Symbols) /\ u \o z = << >>
      BY <3>1
    <3> HIDE DEF u
    <3>3. u = << >>
      BY <1>8, <3>2, ConcatEqualIffEmpty
    <3> QED
      BY <1>8, <3>3, ConcatEqualIffEmpty DEF u
  <2> QED
    BY <2>1, <2>3, <2>4
<1>12. ASSUME a \in 1 .. Len(s)
       PROVE  p <= Len(s[a]) /\ SubSeq(s[a], 1, p) = SubSeq(source[a], 1, p)
  <2>1. s[a] \in Line
    <3>1. s \in Seq(Line)
      BY <1>1, <1>3, SplicedIs
    <3> HIDE DEF s
    <3> QED
      BY <1>12, <3>1
  <2>2. CASE p = 0
    <3>1. Len(s[a]) \in Nat
      BY <2>1 DEF Line
    <3>2. \A u : SubSeq(u, 1, 0) = << >>
      OBVIOUS
    <3> QED
      BY <2>2, <3>1, <3>2
  <2>3. CASE p # 0
    <3>1. new # << >>
      BY <1>11, <2>3
    <3>2. s[a] = new[1]
      BY <1>4, <3>1
    <3>3. CASE new = <<m>>
      <4>1. s[a] = m
        BY <3>2, <3>3
      <4> QED
        BY <1>9, <4>1 DEF x
    <3>4. CASE new = SplitLines(m)
      <4>1. p \in 1 .. Len(m)
        BY <1>7, <1>9, <2>3
      <4>2. Len(SplitLines(m)[1]) >= p /\ SubSeq(SplitLines(m)[1], 1, p) = SubSeq(m, 1, p)
        BY <1>2, <1>9, <4>1, SplitIs
      <4>3. s[a] = SplitLines(m)[1]
        BY <3>2, <3>4
      <4>4. Len(s[a]) \in Nat
        BY <2>1 DEF Line
      <4> HIDE DEF s, a
      <4>5. p <= Len(s[a])
        BY <1>7, <4>2, <4>3, <4>4
      <4> QED
        BY <1>9, <4>2, <4>3, <4>5 DEF x
    <3> QED
      BY <1>10, <3>3, <3>4
  <2> QED
    BY <2>2, <2>3
<1>13. a \in 1 .. Len(s) \/ Gone(i)
  <2>1. CASE new = << >>
    BY <1>11, <2>1 DEF Gone, p, y
  <2>2. CASE new # << >>
    BY <1>4, <2>2
  <2> QED
    BY <2>1, <2>2
<1> QED
  BY <1>5, <1>12, <1>13 DEF AsSourceBefore, p

-----------------------------------------------------------------------------

(* Those of the first k replacements that are taken.                       *)
TakenTo(k) == {i \in Taken : i <= k}

(* What has become of the source after the first k replacements.           *)
Applying(t, k) ==
    /\ t \in Seq(Line)
    /\ EndsWhole(t)
    /\ TakenTo(k) = {} => t = source
    /\ TakenTo(k) # {} =>
          /\ \E q \in TakenTo(k) : AsSourceBefore(t, q)
          /\ Alike(Broken(t), Append(AtOnce(TakenTo(k)), Break))

(* Where a text agrees with the source it is the same before the position. *)
LEMMA HeadSame ==
  ASSUME NEW t, NEW p, Agrees(t, p)
  PROVE  HeadTo(t, p) = HeadTo(source, p)
  BY DEF Agrees, HeadTo

(* The next replacement, if it is not skipped.                             *)
LEMMA TakenStep ==
  ASSUME Setting, NEW t, NEW k \in Nat, NEW i \in Taken, i = k + 1, Applying(t, k)
  PROVE  Applying(Replace(t, plan[i]), i)
<1> DEFINE S == TakenTo(k)
           r == plan[i]
           u == Spliced(t, r, Put(t, r))
<1>1. /\ i \in DOMAIN plan /\ r \in Replacement /\ t \in Seq(Line)
      /\ r.start[1] <= Len(source) /\ r.end[1] <= Len(source)
      /\ r.start \in Position /\ r.end \in Position /\ r.text \in Line
      /\ r.start[1] \in 1 .. Len(source) /\ r.end[1] \in 1 .. Len(source)
      /\ source \in Seq(Line) /\ Len(source) \in Nat
  <2>1. i \in DOMAIN plan /\ r.start[1] <= Len(source) /\ r.end[1] <= Len(source)
    BY TakenIs
  <2> QED
    BY <2>1, SettingTypes DEF Applying
<1>2. \A j \in S : j \in Taken /\ j \in DOMAIN plan /\ j < i /\ j # i
  <2> TAKE j \in S
  <2>1. j \in Taken /\ j \in DOMAIN plan /\ j <= k
    BY TakenIs DEF TakenTo
  <2>2. j \in Nat
    BY <2>1, SettingTypes
  <2> QED
    BY <2>1, <2>2
<1>3. Agrees(t, r.start) /\ Agrees(t, r.end)
  <2>1. CASE S = {}
    <3>1. t = source
      BY <2>1 DEF Applying
    <3> QED
      BY <1>1, <3>1, AgreesWithItself
  <2>2. CASE S # {}
    <3>1. PICK q \in S : AsSourceBefore(t, q)
      BY <2>2 DEF Applying
    <3> QED
      BY <1>1, <1>2, <3>1, Agreement
  <2> QED
    BY <2>1, <2>2
<1>4. HasLines(t, r) /\ Replace(t, r) = u
  BY <1>1, <1>3, TakenReplaces
<1>5. /\ Put(t, r) \in Seq(Line) /\ EndsWhole(u)
      /\ Alike(Broken(u), Replaced(t, r))
      /\ AsSourceBefore(u, i)
  BY <1>1, <1>3, <1>4, PutIs, PutLeaves DEF Applying
<1>6. u \in Seq(Line) /\ Broken(u) \in Line
  BY <1>1, <1>4, <1>5, SplicedIs, BrokenType
<1>7. TakenTo(i) = S \cup {i}
  <2>1. ASSUME NEW j \in Taken PROVE j \in Nat
    <3>1. j \in DOMAIN plan
      BY TakenIs
    <3> QED
      BY <3>1, SettingTypes
  <2>2. \A j \in Taken : j <= i <=> j <= k \/ j = i
    BY <2>1
  <2> QED
    BY <2>2 DEF TakenTo
<1> DEFINE a == Offset(r.start)
           b == Offset(r.end)
           J == Joined(source)
           low(n) == SubSeq(J, 1, n)
           rest == RestFrom(t, r.end)
           x == r.text
<1>8. /\ a \in 0 .. Len(J) /\ HeadTo(source, r.start) = low(a)
      /\ b \in 0 .. Len(J) /\ HeadTo(source, r.end) = low(b)
  BY <1>1, OffsetIs
<1>9. a <= b
  BY <1>1, OffsetOrder DEF Setting, Separate
<1>10. HeadTo(t, r.start) = low(a) /\ HeadTo(t, r.end) = low(b)
  BY <1>3, <1>8, HeadSame
<1>11. low(a) \in Line /\ low(b) \in Line /\ rest \in Line /\ Broken(t) = low(b) \o rest
  <2>1. /\ HeadTo(t, r.start) \in Line /\ HeadTo(t, r.end) \in Line /\ rest \in Line
        /\ Broken(t) = HeadTo(t, r.end) \o rest
    BY <1>1, <1>4, PartsType, CutAt DEF HasLines
  <2> QED
    BY <1>10, <2>1
<1>12. \A j \in S : /\ Offset(plan[j].start) \in Nat
                    /\ b <= Offset(plan[j].start) /\ a < Offset(plan[j].start)
  <2> TAKE j \in S
  <2>1. /\ j \in DOMAIN plan /\ j \in Taken /\ j < i /\ j # i
        /\ plan[j].start \in Position /\ plan[j].start[1] <= Len(source)
    BY <1>2, TakenIs, SettingTypes
  <2>2. ~Before(plan[j].start, r.end) /\ ~Before(plan[j].start, r.start)
    <3>1. ~Before(plan[j].start, r.end)
      BY <1>1, <2>1, PlanOrder
    <3>2. ~Before(plan[j].start, r.start)
      BY <1>1, <2>1 DEF Setting, PlanSorted
    <3> QED
      BY <3>1, <3>2
  <2>3. b <= Offset(plan[j].start) /\ a <= Offset(plan[j].start)
    BY <1>1, <2>1, <2>2, OffsetOrder
  <2>4. a # Offset(plan[j].start)
    BY <1>1, <2>1 DEF Setting, Separate
  <2>5. Offset(plan[j].start) \in Nat
    BY <1>1, <2>1, OffsetIs
  <2> HIDE DEF a, b
  <2> QED
    BY <1>8, <2>3, <2>4, <2>5
<1>13. PICK R \in Line : /\ AtOnce(S) = low(b) \o R
                         /\ AtOnce(S \cup {i}) = (low(a) \o x) \o R
  <2>1. \A j \in S : plan[j].text \in Line
    BY <1>2, SettingTypes
  <2>2. i \notin S
    BY <1>2
  <2>3. a \in Nat /\ b \in Nat /\ b <= Len(J)
    <3>1. Len(J) \in Nat
      BY <1>1, JoinedIs DEF Line
    <3> HIDE DEF a, b, J
    <3> QED
      BY <1>8, <3>1
  <2>4. PICK m \in Nat, n \in Nat : m = a /\ n = b
    BY <2>3
  <2>6. StandsBefore(i, m, n, S)
    <3>1. /\ m = Offset(plan[i].start) /\ n = Offset(plan[i].end)
          /\ m <= n /\ n <= Len(Joined(source))
          /\ plan[i].text \in Line
      BY <1>1, <1>9, <2>3, <2>4
    <3>2. \A j \in S : /\ Offset(plan[j].start) \in Nat
                      /\ n <= Offset(plan[j].start) /\ m < Offset(plan[j].start)
      BY <1>12, <2>4
    <3> HIDE DEF S
    <3> QED
      BY <2>1, <2>2, <3>1, <3>2, Zenon DEF StandsBefore
  <2> HIDE DEF S, a, b, J, r
  <2>7. LeavesRest(i, m, n, S)
    <3>1. source \in Seq(Line)
      BY <1>1
    <3> HIDE DEF Line
    <3> QED
      BY ONLY <2>6, <3>1, m \in Nat, n \in Nat, AtOnceMore
  <2> QED
    BY <2>4, <2>7, Zenon DEF J, r, LeavesRest
<1>14. Alike(Broken(t), Append(AtOnce(S), Break))
  <2>1. CASE S = {}
    <3>1. t = source
      BY <2>1 DEF Applying
    <3>2. AtOnce(S) = J
      BY <1>1, <2>1, AtOnceNone
    <3>3. source # << >>
      BY <1>1
    <3>4. Broken(source) = Append(J, Break)
      BY <1>1, <3>3, JoinedIs
    <3> QED
      BY <3>1, <3>2, <3>4 DEF Alike
  <2>2. CASE S # {}
    BY <2>2 DEF Applying
  <2> QED
    BY <2>1, <2>2
<1> HIDE DEF low, rest, x, a, b
<1> DEFINE end == Append(R, Break)
           head == low(a) \o x
<1>15. end \in Line /\ x \in Line /\ head \in Line
  BY <1>1, <1>11, TextsAssumption DEF Line, x
<1>16. Append(AtOnce(S), Break) = low(b) \o end
  <2> DEFINE v == low(b)
  <2>1. v \in Seq(Symbols) /\ R \in Seq(Symbols)
    BY <1>11, <1>13 DEF Line
  <2> HIDE DEF v
  <2>2. v \o Append(R, Break) = Append(v \o R, Break)
    BY <2>1, TextsAssumption, AppendConcat
  <2> QED
    BY <1>13, <2>2 DEF v
<1>17. Append(AtOnce(S \cup {i}), Break) = head \o end
  <2> HIDE DEF head
  <2>1. head \in Seq(Symbols) /\ R \in Seq(Symbols)
    BY <1>15 DEF Line
  <2>2. head \o Append(R, Break) = Append(head \o R, Break)
    BY <2>1, TextsAssumption, AppendConcat
  <2> QED
    BY <1>13, <2>2 DEF head
<1>18. Replaced(t, r) = head \o rest
  <2>1. Replaced(t, r) = low(a) \o (x \o rest)
    BY <1>10 DEF Replaced, x, rest
  <2> DEFINE v == low(a)
  <2>2. v \in Seq(Symbols)
    BY <1>11 DEF Line
  <2>3. x \in Seq(Symbols)
    BY <1>15 DEF Line
  <2>4. rest \in Seq(Symbols)
    BY <1>11 DEF Line
  <2> HIDE DEF v
  <2>5. (v \o x) \o rest = v \o (x \o rest)
    BY ONLY <2>2, <2>3, <2>4, ConcatAssociative
  <2> QED
    BY <2>1, <2>5 DEF v
<1> HIDE DEF end, head
<1>19. Alike(rest, end)
  BY <1>11, <1>14, <1>15, <1>16, AlikeConcat
<1>20. Alike(head \o rest, head \o end)
  BY <1>11, <1>15, <1>19, AlikeConcat
<1>21. Alike(Broken(u), Append(AtOnce(TakenTo(i)), Break))
  <2>1. Alike(Broken(u), head \o rest)
    BY <1>5, <1>18
  <2>2. Append(AtOnce(TakenTo(i)), Break) = head \o end
    BY <1>7, <1>17
  <2>3. Alike(Broken(u), head \o end)
    BY <1>20, <2>1, AlikeTransitive
  <2> QED
    BY <2>2, <2>3
<1>22. i \in TakenTo(i)
  BY <1>7
<1> HIDE DEF u
<1>23. Applying(u, i)
  BY <1>5, <1>6, <1>21, <1>22 DEF Applying
<1> QED
  BY <1>4, <1>23

(* The next replacement, skipped or not.                                   *)
LEMMA ReplaceStep ==
  ASSUME Setting, NEW t, NEW k \in Nat, NEW i \in DOMAIN plan, i = k + 1, Applying(t, k)
  PROVE  Applying(Replace(t, plan[i]), i)
<1>1. CASE i \in Taken
  BY <1>1, TakenStep
<1>2. CASE i \notin Taken
  <2>1. \A j \in Taken : j \in DOMAIN plan /\ j \in Nat /\ (j <= i <=> j <= k)
    <3> TAKE j \in Taken
    <3>1. j \in DOMAIN plan
      BY TakenIs
    <3>2. j \in Nat /\ j # i
      BY <1>2, <3>1, SettingTypes
    <3> QED
      BY <3>1, <3>2
  <2>2. TakenTo(i) = TakenTo(k)
    BY <2>1 DEF TakenTo
  <2>3. Replace(t, plan[i]) = t
    <3>1. CASE TakenTo(k) = {}
      BY <1>2, <3>1, SkippedInSource DEF Applying
    <3>2. CASE TakenTo(k) # {}
      <4>1. PICK q \in TakenTo(k) : AsSourceBefore(t, q)
        BY <3>2 DEF Applying
      <4>2. q \in Taken /\ q < i
        BY <2>1, <4>1 DEF TakenTo
      <4>3. t \in Seq(Line)
        BY DEF Applying
      <4> QED
        BY <1>2, <4>1, <4>2, <4>3, SkippedStays
    <3> QED
      BY <3>1, <3>2
  <2> QED
    BY <2>2, <2>3 DEF Applying
<1> QED
  BY <1>1, <1>2

(* Before the first replacement.                                           *)
LEMMA NothingApplied ==
  ASSUME source \in Seq(Whole), plan \in Seq(Replacement)
  PROVE  Applying(source, 0)
<1>1. source \in Seq(Line) /\ EndsWhole(source)
  <2>1. ASSUME NEW l \in 1 .. Len(source), source[l] # << >>
        PROVE  Last(source[l]) # Break
    <3>1. source[l] \in Whole
      BY DEF Whole
    <3> QED
      BY <2>1, <3>1, EndOfWhole
  <2> QED
    BY <2>1, WholeIsLine DEF EndsWhole
<1>2. TakenTo(0) = {}
  <2>1. \A j \in DOMAIN plan : ~(j <= 0)
    OBVIOUS
  <2> QED
    BY <2>1, TakenIs DEF TakenTo
<1> QED
  BY <1>1, <1>2 DEF Applying

(* When all have been applied, the text is as AppliedAtOnce has it.        *)
AsAtOnce(t) ==
    IF MayLoseBreak
    THEN WithoutBreaks(Joined(t)) = WithoutBreaks(AtOnce(Taken))
    ELSE Joined(t) = AtOnce(Taken)

(* Replacing all at once gives a sequence of symbols.                      *)
LEMMA AtOnceType ==
  ASSUME Setting
  PROVE  AtOnce(Taken) \in Line
<1>1. \A i \in Taken : plan[i].text \in Line
  BY TakenIs, SettingTypes
<1>2. source \in Seq(Line)
  BY SettingTypes
<1>3. PICK f : /\ f[0] = << >>
               /\ \A n \in 0 .. Len(Joined(source)) :
                     f[n] \in Line /\ f[n + 1] = f[n] \o Piece(Taken, n + 1)
               /\ AtOnce(Taken) = f[Len(Joined(source)) + 1]
  BY <1>1, <1>2, AtOnceParts
<1>4. PICK n \in Nat : n = Len(Joined(source))
  BY <1>2, JoinedIs DEF Line
<1>5. Piece(Taken, n + 1) \in Line
  BY <1>1, <1>2, PieceType
<1>6. f[n] \in Line /\ AtOnce(Taken) = f[n] \o Piece(Taken, n + 1)
  <2>1. n \in 0 .. Len(Joined(source))
    BY <1>4
  <2> QED
    BY <1>3, <1>4, <2>1
<1> QED
  BY <1>5, <1>6 DEF Line

(* After the last replacement.                                             *)
LEMMA AllApplied ==
  ASSUME Setting, NEW t, Applying(t, Len(plan))
  PROVE  AsAtOnce(t)
<1>1. TakenTo(Len(plan)) = Taken
  <2>1. \A j \in Taken : j <= Len(plan)
    BY TakenIs, SettingTypes
  <2> QED
    BY <2>1 DEF TakenTo
<1>2. t \in Seq(Line) /\ source \in Seq(Line)
  BY SettingTypes DEF Applying
<1>3. CASE Taken = {}
  <2>1. t = source
    BY <1>1, <1>3 DEF Applying
  <2>2. AtOnce(Taken) = Joined(source)
    BY <1>2, <1>3, AtOnceNone
  <2> QED
    BY <2>1, <2>2 DEF AsAtOnce
<1>4. CASE Taken # {}
  <2> DEFINE o == AtOnce(Taken)
             j == Joined(t)
  <2>1. Alike(Broken(t), Append(o, Break))
    BY <1>1, <1>4 DEF Applying
  <2>2. o \in Line /\ j \in Line
    BY <1>2, AtOnceType, JoinedIs
  <2>3. t # << >> => Broken(t) = Append(j, Break)
    BY <1>2, JoinedIs
  <2>4. t = << >> => Broken(t) = << >> /\ j = << >>
    BY <1>2, JoinedIs, BrokenOne
  <2> HIDE DEF o, j
  <2>5. CASE MayLoseBreak
    <3>1. WithoutBreaks(Broken(t)) = WithoutBreaks(o)
      BY <2>1, <2>2, <2>5, WithoutBreaksOne DEF Alike
    <3>2. WithoutBreaks(Broken(t)) = WithoutBreaks(j)
      BY <2>2, <2>3, <2>4, WithoutBreaksOne
    <3> QED
      BY <2>5, <3>1, <3>2 DEF AsAtOnce, o, j
  <2>6. CASE ~MayLoseBreak
    <3>1. Broken(t) = Append(o, Break)
      BY <2>1, <2>6 DEF Alike
    <3>2. o \in Seq(Symbols) /\ j \in Seq(Symbols) /\ Break \in Symbols
      BY <2>2, TextsAssumption DEF Line
    <3>3. Append(o, Break) # << >>
      <4>1. Len(Append(o, Break)) = Len(o) + 1 /\ Len(o) \in Nat
        BY <3>2
      <4> QED
        BY <4>1
    <3>4. Append(j, Break) = Append(o, Break)
      BY <2>3, <2>4, <3>1, <3>3
    <3>5. j = o
      BY ONLY <3>2, <3>4, AppendInjective
    <3> QED
      BY <2>6, <3>5 DEF AsAtOnce, o, j
  <2> QED
    BY <2>5, <2>6
<1> QED
  BY <1>3, <1>4

-----------------------------------------------------------------------------

(* What the variables hold.                                                *)
FixTypes ==
    /\ way \in {"fixes", "fix", "edits", "edit"}
    /\ phase \in {"resolving", "applying", "done"}
    /\ source \in Seq(Whole)
    /\ candidates \in Seq(Fix)
    /\ plan \in Seq(Replacement)
    /\ applied \in 0 .. Len(plan)
    /\ phase = "resolving" => text = source /\ applied = 0
    /\ phase # "resolving" /\ way # "fix" => PlanSorted
    /\ phase = "done" => applied = Len(plan)

(* What sorting does to a sequence.                                        *)
LEMMA SortedType ==
  ASSUME NEW X, NEW s \in Seq(X), NEW ahead, NEW q \in Sorted(s, ahead)
  PROVE  q \in Seq(X)
<1>1. PICK p \in Arrangements(Len(s), ahead) : q = [k \in 1 .. Len(s) |-> s[p[k]]]
  BY DEF Sorted
<1>2. \A k \in 1 .. Len(s) : s[p[k]] \in X
  BY DEF Arrangements
<1>3. Len(s) \in Nat
  OBVIOUS
<1> QED
  BY <1>1, <1>2, <1>3

(* LatestFirst gives the same replacements, the last of the text first.    *)
LEMMA LatestFirstIs ==
  ASSUME NEW rs \in Seq(Replacement), NEW q \in LatestFirst(rs)
  PROVE  /\ q \in Seq(Replacement)
         /\ \A i, j \in DOMAIN q : i < j => ~Before(q[i].start, q[j].start)
<1> DEFINE n == Len(rs)
           ahead == {ij \in (1 .. n) \X (1 .. n) :
                       Before(rs[ij[2]].start, rs[ij[1]].start)}
<1>1. PICK p \in Arrangements(n, ahead) : q = [k \in 1 .. n |-> rs[p[k]]]
  BY DEF LatestFirst, Sorted
<1>2. ASSUME NEW i \in 1 .. n, NEW j \in 1 .. n, i < j
      PROVE  ~Before(rs[p[i]].start, rs[p[j]].start)
  <2>1. p[i] \in 1 .. n /\ p[j] \in 1 .. n
    BY DEF Arrangements
  <2>2. <<p[j], p[i]>> \notin ahead
    BY <1>2 DEF Arrangements
  <2> QED
    BY <2>1, <2>2
<1>3. q \in Seq(Replacement)
  BY SortedType DEF LatestFirst
<1> QED
  BY <1>1, <1>2, <1>3

(* The replacements of a fix.                                              *)
LEMMA FixIs ==
  ASSUME NEW fixes \in Seq(Fix), NEW k \in 1 .. Len(fixes)
  PROVE  fixes[k].replacements \in Seq(Replacement)
<1>1. fixes[k] \in Fix
  OBVIOUS
<1> HIDE DEF Replacement
<1> QED
  BY <1>1 DEF Fix

(* What fixes are taken apart into are replacements,                       *)
LEMMA AllType ==
  ASSUME NEW fixes \in Seq(Fix)
  PROVE  All(fixes) \in Seq(Replacement)
<1>1. \A k \in 1 .. Len(fixes) : fixes[k].replacements \in Seq(Replacement)
  BY FixIs
<1>2. Len(fixes) \in Nat
  OBVIOUS
<1> DEFINE ss == [k \in 1 .. Len(fixes) |-> fixes[k].replacements]
<1>3. ss \in Seq(Seq(Replacement))
  BY <1>1, <1>2
<1> HIDE DEF ss
<1>4. FlattenSeq(ss) \in Seq(Replacement)
  BY <1>3, FlattenType
<1> QED
  BY <1>4 DEF All, ss

(* what is kept of the candidates too,                                     *)
LEMMA KeptReplacementsType ==
  ASSUME candidates \in Seq(Fix)
  PROVE  KeptReplacements \in Seq(Replacement)
<1> DEFINE part(k) == IF k \in kept THEN candidates[k].replacements ELSE <<>>
           ss == [k \in 1 .. Len(candidates) |-> part(k)]
<1>1. \A k \in 1 .. Len(candidates) : part(k) \in Seq(Replacement)
  <2> HIDE DEF Fix, Replacement
  <2>1. << >> \in Seq(Replacement)
    OBVIOUS
  <2> QED
    BY <2>1, FixIs
<1>2. Len(candidates) \in Nat
  OBVIOUS
<1> HIDE DEF part
<1>3. ss \in Seq(Seq(Replacement))
  BY <1>1, <1>2
<1> HIDE DEF ss
<1>4. FlattenSeq(ss) \in Seq(Replacement)
  BY <1>3, FlattenType
<1> QED
  BY <1>4 DEF KeptReplacements, ss, part

(* and what ReplacementEngine makes of them are fixes.                     *)
LEMMA OneByOneType ==
  ASSUME NEW rs \in Seq(Replacement)
  PROVE  OneByOne(rs) \in Seq(Fix)
<1>1. DOMAIN rs = 1 .. Len(rs) /\ Len(rs) \in Nat
  OBVIOUS
<1>2. \A k \in DOMAIN rs : [confidence |-> 0, replacements |-> <<rs[k]>>] \in Fix
  <2> TAKE k \in DOMAIN rs
  <2>1. rs[k] \in Replacement
    OBVIOUS
  <2>2. <<rs[k]>> \in Seq(Replacement)
    <3> HIDE DEF Replacement
    <3> QED
      BY <2>1
  <2> QED
    BY <2>2 DEF Fix
<1> HIDE DEF Fix
<1> QED
  BY <1>1, <1>2 DEF OneByOne

(* The types hold in the beginning,                                        *)
LEMMA InitTypes ==
  ASSUME FixInit
  PROVE  FixTypes
<1>1. /\ source \in Texts /\ applied = 0 /\ text = source
  BY DEF FixInit
<1>2. source \in Seq(Whole)
  BY <1>1, TextsAssumption DEF Whole
<1>3. PICK fixes \in Advice :
          \/ /\ way = "fixes"
             /\ candidates \in MostConfidentFirst(fixes)
             /\ phase = "resolving"
             /\ plan = <<>>
          \/ /\ way = "edits"
             /\ \E rs \in LatestFirst(All(fixes)) : candidates = OneByOne(rs)
             /\ phase = "resolving"
             /\ plan = <<>>
          \/ /\ way = "fix"
             /\ candidates = <<>>
             /\ phase = "applying"
             /\ Len(fixes) = 1
             /\ plan = fixes[1].replacements
          \/ /\ way = "edit"
             /\ candidates = <<>>
             /\ phase = "applying"
             /\ Len(fixes) = 1
             /\ plan \in LatestFirst(fixes[1].replacements)
  BY DEF FixInit
<1>4. fixes \in Seq(Fix)
  BY AdviceAssumption
<1>5. << >> \in Seq(Fix) /\ << >> \in Seq(Replacement)
  OBVIOUS
<1>6. Len(fixes) = 1 => fixes[1].replacements \in Seq(Replacement)
  BY <1>4, FixIs
<1> HIDE DEF Fix, Replacement
<1>7. candidates \in Seq(Fix)
  <2>1. CASE candidates \in MostConfidentFirst(fixes)
    BY <1>4, <2>1, SortedType DEF MostConfidentFirst
  <2>2. CASE \E rs \in LatestFirst(All(fixes)) : candidates = OneByOne(rs)
    BY <1>4, <2>2, AllType, LatestFirstIs, OneByOneType
  <2> QED
    BY <1>3, <1>5, <2>1, <2>2
<1>8. plan \in Seq(Replacement) /\ (way = "edit" => PlanSorted)
  <2>1. CASE plan \in LatestFirst(fixes[1].replacements) /\ Len(fixes) = 1
    BY <1>6, <2>1, LatestFirstIs DEF PlanSorted
  <2> QED
    BY <1>3, <1>5, <1>6, <2>1
<1>9. 0 \in 0 .. Len(plan)
  BY <1>8
<1> QED
  BY <1>1, <1>2, <1>3, <1>7, <1>8, <1>9 DEF FixTypes

(* and every step keeps them.                                              *)
LEMMA NextTypes ==
  ASSUME FixTypes, [FixNext]_fixVars
  PROVE  FixTypes'
<1> HIDE DEF Fix, Replacement, Whole
<1> USE DEF FixTypes
<1>1. CASE Keep
  BY <1>1 DEF Keep
<1>2. CASE Discard
  BY <1>2 DEF Discard
<1>3. CASE Resolved
  <2>1. /\ phase = "resolving" /\ plan' \in LatestFirst(KeptReplacements) /\ phase' = "applying"
        /\ UNCHANGED <<way, source, candidates, looked, kept, applied, text>>
    BY <1>3 DEF Resolved
  <2>2. plan' \in Seq(Replacement) /\ PlanSorted'
    BY <2>1, KeptReplacementsType, LatestFirstIs DEF PlanSorted
  <2>3. 0 \in 0 .. Len(plan')
    BY <2>2
  <2> QED
    BY <2>1, <2>2, <2>3
<1>4. CASE ApplyOne
  <2>1. /\ phase = "applying" /\ applied < Len(plan) /\ applied' = applied + 1
        /\ UNCHANGED <<way, source, candidates, looked, kept, plan, phase>>
    BY <1>4 DEF ApplyOne
  <2>2. Len(plan) \in Nat
    OBVIOUS
  <2>3. applied + 1 \in 0 .. Len(plan)
    BY <2>1, <2>2
  <2>4. PlanSorted' <=> PlanSorted
    BY <2>1 DEF PlanSorted
  <2> QED
    BY <2>1, <2>3, <2>4
<1>5. CASE Applied
  <2>1. PlanSorted' <=> PlanSorted
    BY <1>5 DEF PlanSorted, Applied
  <2> QED
    BY <1>5, <2>1 DEF Applied
<1>6. CASE UNCHANGED fixVars
  <2>1. PlanSorted' <=> PlanSorted
    BY <1>6 DEF PlanSorted, fixVars
  <2> QED
    BY <1>6, <2>1 DEF fixVars
<1> QED
  BY <1>1, <1>2, <1>3, <1>4, <1>5, <1>6 DEF FixNext

-----------------------------------------------------------------------------

(* What AtOnce makes of a source and a plan, as a function of them.        *)
OffsetIn(src, p) ==
    Len(Broken(SubSeq(src, 1, p[1] - 1))) + Preceding(src[p[1]], p[2])

AtOnceIn(src, rs, S) ==
    LET symbols == Joined(src)
        Begin(n) == {i \in S : OffsetIn(src, rs[i].start) = n}
        Inserted(n) == IF Begin(n) = {} THEN <<>> ELSE rs[CHOOSE i \in Begin(n) : TRUE].text
        Covered(n) ==
            \E i \in S : OffsetIn(src, rs[i].start) < n /\ n <= OffsetIn(src, rs[i].end)
    IN FlattenSeq([n \in 1 .. Len(symbols) + 1 |->
         Inserted(n - 1) \o
           (IF n <= Len(symbols) /\ ~Covered(n) THEN <<symbols[n]>> ELSE <<>>)])

(* They stay the same with the source and the plan.                        *)
LEMMA AtOnceKept ==
  ASSUME UNCHANGED <<source, plan>>
  PROVE  /\ \A p : Offset(p)' = Offset(p)
         /\ \A S : AtOnce(S)' = AtOnce(S)
<1>1. source' = source /\ plan' = plan
  OBVIOUS
<1>2. \A p : Offset(p)' = OffsetIn(source', p) /\ Offset(p) = OffsetIn(source, p)
  BY Zenon DEF Offset, OffsetIn
<1>3. \A S : AtOnce(S)' = AtOnceIn(source', plan', S) /\ AtOnce(S) = AtOnceIn(source, plan, S)
  BY Zenon DEF AtOnce, AtOnceIn, Offset, OffsetIn
<1> QED
  BY <1>1, <1>2, <1>3

(* Where the way, the source and the plan are the same, so is what depends *)
(* on them alone.                                                          *)
LEMMA SettingKept ==
  ASSUME UNCHANGED <<way, source, plan>>
  PROVE  /\ Taken' = Taken
         /\ Separate' <=> Separate
         /\ EndMoves' <=> EndMoves
         /\ MayLoseBreak' <=> MayLoseBreak
         /\ LastListedFirst' <=> LastListedFirst
<1>1. way' = way /\ source' = source /\ plan' = plan
  OBVIOUS
<1>2. \A p : Offset(p)' = Offset(p)
  BY AtOnceKept
<1>3. Taken' = Taken
  BY <1>1 DEF Taken
<1>4. Separate' <=> Separate
  BY <1>1, <1>2, <1>3 DEF Separate
<1>5. EndMoves' <=> EndMoves
  BY <1>1, <1>2, <1>3 DEF EndMoves
<1>6. MayLoseBreak' <=> MayLoseBreak
  BY <1>1, <1>3 DEF MayLoseBreak
<1>7. LastListedFirst' <=> LastListedFirst
  BY <1>1 DEF LastListedFirst
<1> QED
  BY <1>3, <1>4, <1>5, <1>6, <1>7

(* And what has become of the source is what it is for the new text.       *)
LEMMA ApplyingKept ==
  ASSUME UNCHANGED <<way, source, plan>>
  PROVE  Applying(text, applied)' <=> Applying(text', applied')
<1>1. way' = way /\ source' = source /\ plan' = plan
  OBVIOUS
<1>2. Taken' = Taken /\ (MayLoseBreak' <=> MayLoseBreak)
  BY SettingKept
<1>3. TakenTo(applied)' = TakenTo(applied')
  BY <1>2 DEF TakenTo
<1>4. \A S : AtOnce(S)' = AtOnce(S)
  BY AtOnceKept
<1>5. EndsWhole(text)' <=> EndsWhole(text')
  BY <1>1, <1>2 DEF EndsWhole
<1>6. \A q : AsSourceBefore(text, q)' <=> AsSourceBefore(text', q)
  BY <1>1 DEF AsSourceBefore, BeginsAfter, Gone
<1>7. Alike(Broken(text), Append(AtOnce(TakenTo(applied)), Break))'
        <=> Alike(Broken(text'), Append(AtOnce(TakenTo(applied')), Break))
  BY <1>2, <1>3, <1>4 DEF Alike
<1> QED
  BY <1>1, <1>3, <1>5, <1>6, <1>7 DEF Applying

(* Where AppliedAtOnce promises something.                                 *)
Promising ==
    /\ Separate
    /\ ~EndMoves
    /\ way = "fix" => LastListedFirst

InPlace ==
    /\ FixTypes
    /\ phase # "resolving" /\ Promising => Applying(text, applied)

(* The plan is sorted, by the engine or by who made the only fix.          *)
LEMMA PromisingIsSetting ==
  ASSUME FixTypes, Promising, phase # "resolving"
  PROVE  Setting
<1>1. way = "fix" => PlanSorted
  <2> SUFFICES ASSUME LastListedFirst, NEW i \in DOMAIN plan, NEW j \in DOMAIN plan, i < j
               PROVE  ~Before(plan[i].start, plan[j].start)
    BY DEF Promising, PlanSorted
  <2>1. plan[i] \in Replacement /\ plan[j] \in Replacement
    BY DEF FixTypes
  <2>2. Before(plan[j].start, plan[i].start)
    BY DEF LastListedFirst
  <2> QED
    BY <2>1, <2>2, ReplacementType DEF Before
<1> QED
  BY <1>1 DEF FixTypes, Promising, Setting

(* In the beginning nothing has been replaced.                             *)
LEMMA InitInPlace ==
  ASSUME FixInit
  PROVE  InPlace
<1>1. FixTypes
  BY InitTypes
<1>2. text = source /\ applied = 0
  BY DEF FixInit
<1>3. Applying(source, 0)
  BY <1>1, NothingApplied DEF FixTypes
<1> QED
  BY <1>1, <1>2, <1>3 DEF InPlace

(* When the plan has been made nothing has been replaced,                  *)
LEMMA ResolvedInPlace ==
  ASSUME InPlace, Resolved
  PROVE  InPlace'
<1>1. FixTypes'
  BY NextTypes DEF InPlace, FixNext
<1>2. /\ text' = source' /\ applied' = 0
      /\ source' \in Seq(Whole) /\ plan' \in Seq(Replacement)
  BY <1>1 DEF InPlace, FixTypes, Resolved
<1>3. text' \in Seq(Line)
  BY <1>2, WholeIsLine
<1>4. TakenTo(applied)' = {}
  <2>1. \A i \in DOMAIN plan' : ~(i <= 0)
    BY <1>2
  <2> QED
    BY <1>2, <2>1 DEF TakenTo, Taken
<1>5. \A l \in 1 .. Len(text') : text'[l] # << >> => Last(text'[l]) # Break
  <2> SUFFICES ASSUME NEW l \in 1 .. Len(text'), text'[l] # << >>
               PROVE  Last(text'[l]) # Break
    OBVIOUS
  <2>1. text'[l] \in Whole
    BY <1>2 DEF Whole
  <2> QED
    BY <2>1, EndOfWhole
<1>6. EndsWhole(text)'
  BY <1>5 DEF EndsWhole
<1>7. Applying(text, applied)'
  BY <1>2, <1>3, <1>4, <1>6 DEF Applying
<1> QED
  BY <1>1, <1>7 DEF InPlace

(* one replacement is applied at a time,                                   *)
LEMMA AppliedOneInPlace ==
  ASSUME InPlace, ApplyOne
  PROVE  InPlace'
<1>1. FixTypes'
  BY NextTypes DEF InPlace, FixNext
<1>2. /\ phase = "applying" /\ phase' = phase /\ applied < Len(plan)
      /\ text' = Replace(text, plan[applied + 1]) /\ applied' = applied + 1
      /\ UNCHANGED <<way, source, plan>>
  BY DEF ApplyOne
<1>3. Promising' <=> Promising
  BY <1>2, SettingKept DEF Promising
<1>4. ASSUME Promising PROVE Applying(text', applied')
  <2>1. Setting /\ Applying(text, applied)
    BY <1>2, <1>4, PromisingIsSetting DEF InPlace
  <2>2. PICK i \in DOMAIN plan : i = applied + 1
    BY <1>2 DEF InPlace, FixTypes
  <2>3. applied \in Nat
    BY DEF InPlace, FixTypes
  <2> QED
    BY <1>2, <2>1, <2>2, <2>3, ReplaceStep
<1>5. Applying(text, applied)' <=> Applying(text', applied')
  BY <1>2, ApplyingKept
<1> QED
  BY <1>1, <1>3, <1>4, <1>5 DEF InPlace

(* and nothing else changes the text or the plan.                          *)
LEMMA StaysInPlace ==
  ASSUME InPlace, Keep \/ Discard \/ Applied \/ UNCHANGED fixVars
  PROVE  InPlace'
<1>1. FixTypes'
  BY NextTypes DEF InPlace, FixNext
<1>2. /\ UNCHANGED <<way, source, plan>> /\ text' = text /\ applied' = applied
      /\ phase' # "resolving" => phase # "resolving"
  BY DEF Keep, Discard, Applied, fixVars
<1>3. Promising' <=> Promising
  BY <1>2, SettingKept DEF Promising
<1>4. Applying(text, applied)' <=> Applying(text, applied)
  BY <1>2, ApplyingKept
<1> QED
  BY <1>1, <1>2, <1>3, <1>4 DEF InPlace

(* After every replacement the text is what replacing those that were      *)
(* applied at once makes of the source, and what comes next stands where   *)
(* it stood in the source (apply_replacements, apply_single_replacement).  *)
THEOREM InPlaceInvariant == FixSpec => []InPlace
<1>1. FixInit => InPlace
  BY InitInPlace
<1>2. InPlace /\ [FixNext]_fixVars => InPlace'
  BY ResolvedInPlace, AppliedOneInPlace, StaysInPlace DEF FixNext
<1> QED
  BY <1>1, <1>2, PTL DEF FixSpec

(* Whatever the text and whatever is suggested, replacing one after the    *)
(* other gives what replacing all at once would (AppliedAtOnce): no        *)
(* replacement moves one that is still to come.                            *)
THEOREM ReplacedAtOnce == FixSpec => []AppliedAtOnce
<1>1. InPlace => AppliedAtOnce
  <2> SUFFICES ASSUME InPlace, phase = "done", Promising
               PROVE  AsAtOnce(text)
    BY DEF AppliedAtOnce, AsAtOnce, Promising
  <2>1. FixTypes /\ applied = Len(plan) /\ Applying(text, applied)
    BY DEF InPlace, FixTypes
  <2>2. Setting
    BY <2>1, PromisingIsSetting
  <2>3. Applying(text, Len(plan))
    BY <2>1
  <2> QED
    BY <2>2, <2>3, AllApplied
<1> QED
  BY <1>1, InPlaceInvariant, PTL

-----------------------------------------------------------------------------
(***************************************************************************)
(* Nothing is lost between chunks, for every size of chunks, overlaps and  *)
(* files.  The property is not inductive: it does not say where the next   *)
(* chunk begins.  The invariant adds that it begins at the start of the    *)
(* file, at least an overlap before the end of what was handed over, where *)
(* a short read ended, or at the end of the file.                          *)
(***************************************************************************)

Chunks == [from : Nat, to : Nat, place : Nat]

StreamTypes ==
    /\ config \in Configs
    /\ doing \in {"idle", "map", "read", "finish"}
    /\ outcome \in {"none", "ok", "failed"}
    /\ length \in Nat
    /\ cursor \in Nat /\ position \in Nat /\ start \in Nat
    /\ seen \subseteq Chunks
    /\ \A c \in seen : c.to <= length

(* Where the next chunk begins, when `end` bytes were handed over: nothing *)
(* short enough is across both places, or it was cut there by a read.      *)
Continues(end) ==
    /\ cursor <= end
    /\ \/ cursor = 0
       \/ cursor + config.overlap <= end
       \/ \E c \in seen : IsShort(c) /\ c.to = cursor
       \/ cursor = length

Latest(e) == (\A c \in seen : c.to <= e.to) /\ CoveredTo(e.to)

Underway ==
    \/ seen = {} /\ cursor = 0
    \/ \E e \in seen : Latest(e) /\ Continues(e.to)

Streaming ==
    /\ StreamTypes
    /\ cursor <= length
    /\ NothingBetween
    /\ PlacedFromStart
    /\ HandedOverToEnd
    /\ doing # "idle" =>
          /\ ~(length < config.streaming_threshold)
          /\ outcome = "none"
          /\ Underway
    /\ doing = "map" => config.enable_mmap
    /\ doing = "read" =>
          /\ config.enable_mmap => length = 0
          /\ position = start + cursor
    /\ doing = "finish" /\ config.chunk_size # 0 => cursor = length

-----------------------------------------------------------------------------

(* What the constants make of a configuration.                             *)
LEMMA ConfigIs ==
    ASSUME config \in Configs
    PROVE  /\ config.chunk_size \in Nat /\ config.overlap \in Nat
           /\ config.streaming_threshold \in Nat /\ config.enable_mmap \in BOOLEAN
  BY SizesAssumption DEF Configs, SizesAssumption

(* What was covered stays so when a chunk is added.                        *)
LEMMA StaysCovered ==
    ASSUME NEW end \in Nat, CoveredTo(end), NEW k, seen' = seen \cup {k},
           UNCHANGED <<config, length>>
    PROVE  CoveredTo(end)'
  <1> SUFFICES ASSUME NEW to \in 0 .. end, NEW from \in 0 .. to,
                      to - from <= config.overlap + 1
               PROVE  Within(from, to)' \/ CutShort(from, to)'
    BY DEF CoveredTo
  <1>1. Within(from, to) \/ CutShort(from, to)
    BY DEF CoveredTo
  <1> QED
    BY <1>1 DEF Within, CutShort, IsShort

(* What is true of the chunks once the processor has taken another: the    *)
(* one that reaches furthest is covered, and what the next chunk may begin *)
(* with does not lie behind it.                                            *)
LEMMA Processed ==
    ASSUME Streaming, doing # "idle", cursor < length,
           NEW bytes \in Nat, bytes <= config.chunk_size, cursor + bytes <= length,
           NEW place \in Nat, Process(bytes, place)
    PROVE  \E k \in Chunks :
              /\ k.from = cursor /\ k.to = cursor + bytes /\ k.place = place
              /\ seen' = seen \cup {k}
              /\ seen' \subseteq Chunks
              /\ \A c \in seen' : c.to <= length
              /\ \E e \in seen' : Latest(e)' /\ (seen # {} => Continues(e.to))
              /\ NothingBetween'
  <1>0. /\ config.chunk_size \in Nat /\ config.overlap \in Nat /\ length \in Nat
        /\ cursor \in Nat /\ seen \subseteq Chunks
        /\ \A c \in seen : c.to <= length /\ c.to \in Nat
    BY ConfigIs DEF Streaming, StreamTypes, Chunks
  <1>1. PICK k \in Chunks :
              /\ k.from = cursor /\ k.to = cursor + bytes /\ k.place = place
              /\ k = Chunk(cursor, cursor + bytes, place)
    <2>1. Chunk(cursor, cursor + bytes, place) \in Chunks
      BY <1>0 DEF Chunk, Chunks
    <2> QED
      BY <2>1 DEF Chunk
  <1>2. /\ seen' = seen \cup {k}
        /\ config' = config /\ length' = length
    BY <1>1 DEF Process
  <1>3. \E e \in seen' : Latest(e)' /\ (seen # {} => Continues(e.to))
    <2>1. CASE seen = {} /\ cursor = 0
      <3>1. seen' = {k} /\ k.from = 0 /\ k.to = bytes
        BY <1>0, <1>1, <1>2, <2>1
      <3> QED
        BY <1>0, <1>2, <2>1, <3>1 DEF Latest, CoveredTo, Within
    <2>2. CASE \E e \in seen : Latest(e) /\ Continues(e.to)
      <3> PICK e \in seen : Latest(e) /\ Continues(e.to)
        BY <2>2
      <3>1. e.to \in Nat /\ CoveredTo(e.to)'
        BY <1>0, <1>2, StaysCovered DEF Latest
      <3>2. CASE k.to <= e.to
        BY <1>2, <3>1, <3>2 DEF Latest
      <3>3. CASE k.to > e.to
        <4>1. ASSUME NEW to \in 0 .. k.to, NEW from \in 0 .. to,
                     to - from <= config.overlap + 1
              PROVE  Within(from, to)' \/ CutShort(from, to)'
          <5>1. CASE to <= e.to
            BY <1>0, <1>2, <3>1, <4>1, <5>1 DEF CoveredTo
          <5>2. CASE cursor <= from
            <6>1. k.from <= from /\ to <= k.to
              BY <1>0, <1>1, <4>1, <5>2
            <6> QED
              BY <1>2, <6>1 DEF Within
          <5>3. CASE to > e.to /\ from < cursor
            <6>1. to \in Nat /\ from \in Nat
              BY <1>0, <1>1, <4>1
            <6>2. PICK c \in seen : IsShort(c) /\ c.to = cursor
              BY <1>0, <3>1, <4>1, <5>3, <6>1 DEF Continues
            <6>3. from < c.to /\ c.to < to
              BY <1>0, <3>1, <5>3, <6>1, <6>2 DEF Continues
            <6> QED
              BY <1>2, <6>2, <6>3 DEF CutShort, IsShort
          <5> QED
            BY <1>0, <1>1, <3>1, <4>1, <5>1, <5>2, <5>3
        <4>2. \A c \in seen' : c.to <= k.to
          BY <1>0, <1>1, <1>2, <3>1, <3>3 DEF Latest
        <4>3. Continues(k.to)
          BY <1>0, <1>1, <3>1, <3>3 DEF Continues
        <4> QED
          BY <1>2, <4>1, <4>2, <4>3 DEF Latest, CoveredTo
      <3> QED
        BY <1>0, <1>1, <3>1, <3>2, <3>3
    <2> QED
      BY <2>1, <2>2 DEF Streaming, Underway
  <1>4. NothingBetween'
    <2> PICK e \in seen' : Latest(e)'
      BY <1>3
    <2> SUFFICES ASSUME NEW c \in seen', NEW to \in 0 .. c.to, NEW from \in 0 .. to,
                        (to - from <= config.overlap + 1)'
                 PROVE  Within(from, to)' \/ CutShort(from, to)'
      BY DEF NothingBetween, CoveredTo
    <2>1. c.to <= e.to /\ c.to \in Nat /\ e.to \in Nat
      BY <1>0, <1>1, <1>2 DEF Latest, Chunks
    <2>2. to \in 0 .. e.to
      BY <2>1
    <2> QED
      BY <2>2 DEF Latest, CoveredTo
  <1> QED
    BY <1>0, <1>1, <1>2, <1>3, <1>4

(* Whatever an error leaves, no analysis is under way.                     *)
LEMMA Failing ==
    ASSUME Streaming, Fail, UNCHANGED <<config, length, start>>,
           seen' \subseteq Chunks, \A c \in seen' : c.to <= length,
           NothingBetween', PlacedFromStart'
    PROVE  Streaming'
  BY DEF Streaming, StreamTypes, Fail, HandedOverToEnd

(* analyze_with_mmap hands over a chunk.                                   *)
LEMMA StreamingMapChunk == ASSUME Streaming, MapChunk PROVE Streaming'
  <1> DEFINE bytes == Smaller(config.chunk_size, length - cursor)
             end == cursor + bytes
             back == Smaller(config.overlap, end)
  <1>1. /\ doing = "map" /\ cursor < length
        /\ Process(bytes, cursor)
        /\ Advance(end - back, end) \/ Fail
    BY DEF MapChunk
  <1>2. /\ config.chunk_size \in Nat /\ config.overlap \in Nat /\ length \in Nat
        /\ cursor \in Nat
    BY ConfigIs DEF Streaming, StreamTypes
  <1>3. /\ bytes \in Nat /\ bytes <= config.chunk_size /\ cursor + bytes <= length
        /\ bytes = config.chunk_size \/ cursor + bytes = length
    BY <1>1, <1>2 DEF Smaller
  <1>4. /\ back \in Nat /\ back <= end
        /\ back = config.overlap \/ (back = end /\ end <= config.overlap)
    <2> HIDE DEF bytes
    <2> QED
      BY <1>2, <1>3 DEF Smaller
  <1> HIDE DEF bytes, back
  <1>5. PICK k \in Chunks :
        /\ k.from = cursor /\ k.to = end /\ k.place = cursor
        /\ seen' = seen \cup {k} /\ seen' \subseteq Chunks
        /\ \A c \in seen' : c.to <= length
        /\ \E e \in seen' : Latest(e)'
        /\ NothingBetween'
    BY <1>1, <1>2, <1>3, Processed
  <1>6. UNCHANGED <<config, length, start>>
    BY <1>1 DEF Process
  <1>7. config.enable_mmap
    BY <1>1 DEF Streaming
  <1>8. PlacedFromStart'
    BY <1>5, <1>6, <1>7 DEF PlacedFromStart, Streaming
  <1>9. CASE Advance(end - back, end)
    <2>1. /\ cursor' = end - back /\ position' = end
          /\ doing' = "map" /\ outcome' = "none" /\ end \in Nat
      BY <1>1, <1>2, <1>3, <1>9 DEF Advance, Streaming
    <2>2. ASSUME NEW e \in seen', Latest(e)' PROVE Continues(e.to)'
      <3>1. k.to <= e.to /\ e.to \in Nat
        BY <1>5, <2>2 DEF Latest, Chunks
      <3> QED
        BY <1>2, <1>3, <1>4, <1>5, <1>6, <2>1, <3>1 DEF Continues
    <2>3. StreamTypes'
      BY <1>2, <1>3, <1>4, <1>5, <1>6, <2>1 DEF Streaming, StreamTypes
    <2>4. cursor' <= length'
      BY <1>2, <1>3, <1>4, <1>6, <2>1
    <2>5. HandedOverToEnd'
      BY <2>1 DEF HandedOverToEnd
    <2>6. Underway'
      BY <1>5, <2>2 DEF Underway
    <2>7. ~(length < config.streaming_threshold)'
      BY <1>1, <1>6 DEF Streaming
    <2> QED
      BY <1>5, <1>6, <1>7, <1>8, <2>1, <2>3, <2>4, <2>5, <2>6, <2>7 DEF Streaming
  <1>10. CASE Fail
    BY <1>5, <1>6, <1>8, <1>10, Failing
  <1> QED
    BY <1>1, <1>9, <1>10

(* analyze_with_streaming hands over what it has read.                     *)
LEMMA StreamingReadChunk == ASSUME Streaming, ReadChunk PROVE Streaming'
  <1>1. /\ doing = "read"
        /\ position = start + cursor
        /\ config.enable_mmap => length = 0
        /\ ~(length < config.streaming_threshold) /\ outcome = "none"
    BY DEF ReadChunk, Streaming
  <1>2. /\ config.chunk_size \in Nat /\ config.overlap \in Nat /\ length \in Nat
        /\ cursor \in Nat /\ start \in Nat /\ position \in Nat /\ cursor <= length
    BY ConfigIs DEF Streaming, StreamTypes
  <1>3. PICK bytes \in 1 .. Smaller(config.chunk_size, length - cursor) :
        /\ Process(bytes, position)
        /\ \/ Advance(cursor + bytes - StepBack(bytes), position + bytes - StepBack(bytes))
           \/ Fail
    BY DEF ReadChunk
  <1>4. /\ bytes \in Nat /\ bytes >= 1 /\ bytes <= config.chunk_size
        /\ cursor + bytes <= length
    BY <1>2, <1>3 DEF Smaller
  <1>5. PICK k \in Chunks :
        /\ k.from = cursor /\ k.to = cursor + bytes /\ k.place = position
        /\ seen' = seen \cup {k} /\ seen' \subseteq Chunks
        /\ \A c \in seen' : c.to <= length
        /\ \E e \in seen' : Latest(e)' /\ (seen # {} => Continues(e.to))
        /\ NothingBetween'
    BY <1>1, <1>2, <1>3, <1>4, Processed
  <1>6. UNCHANGED <<config, length, start>>
    BY <1>3 DEF Process
  <1>7. ~config.enable_mmap
    BY <1>1, <1>2, <1>4
  <1>8. PlacedFromStart'
    BY <1>1, <1>5, <1>6, <1>7 DEF PlacedFromStart, Streaming
  <1>9. CASE Advance(cursor + bytes - StepBack(bytes), position + bytes - StepBack(bytes))
    <2> DEFINE back == StepBack(bytes)
    <2>1. /\ back \in Nat /\ back <= bytes
          /\ \/ back = 0 /\ bytes < config.chunk_size
             \/ back = bytes /\ bytes = config.chunk_size /\ bytes <= config.overlap
             \/ back = config.overlap /\ bytes = config.chunk_size
      BY <1>2, <1>4 DEF StepBack, Smaller
    <2>2. /\ cursor' = cursor + bytes - back /\ position' = position + bytes - back
          /\ doing' = "read" /\ outcome' = "none"
      BY <1>1, <1>9 DEF Advance
    <2> HIDE DEF back
    <2>3. ASSUME NEW e \in seen', Latest(e)', seen # {} => Continues(e.to)
          PROVE  Continues(e.to)'
      <3>1. k.to <= e.to /\ e.to \in Nat /\ k \in seen'
        BY <1>5, <2>3 DEF Latest, Chunks
      <3>2. CASE back = 0 /\ bytes < config.chunk_size
        <4>1. cursor' = k.to
          BY <1>2, <1>4, <1>5, <2>2, <3>2
        <4>2. k.to = length \/ IsShort(k)'
          BY <1>2, <1>4, <1>5, <1>6, <3>2 DEF IsShort
        <4> QED
          BY <1>6, <3>1, <4>1, <4>2 DEF Continues
      <3>3. CASE back = config.overlap
        BY <1>2, <1>4, <1>5, <1>6, <2>1, <2>2, <3>1, <3>3 DEF Continues
      <3>4. CASE back = bytes
        <4>1. cursor' = cursor /\ cursor <= e.to
          BY <1>2, <1>4, <1>5, <2>2, <3>1, <3>4
        <4>2. CASE seen = {}
          BY <1>1, <4>1, <4>2 DEF Streaming, Underway, Continues
        <4>3. CASE seen # {}
          <5>1. \A c \in seen : IsShort(c) => c \in seen' /\ IsShort(c)'
            BY <1>5, <1>6 DEF IsShort
          <5> QED
            BY <1>6, <2>3, <4>1, <4>3, <5>1 DEF Continues
        <4> QED
          BY <4>2, <4>3
      <3> QED
        BY <2>1, <3>2, <3>3, <3>4
    <2>4. StreamTypes'
      BY <1>1, <1>2, <1>4, <1>5, <1>6, <2>1, <2>2 DEF Streaming, StreamTypes
    <2>5. cursor' <= length' /\ position' = start' + cursor'
      BY <1>1, <1>2, <1>4, <1>5, <1>6, <2>1, <2>2
    <2>6. HandedOverToEnd'
      BY <2>2 DEF HandedOverToEnd
    <2>7. Underway'
      BY <1>5, <2>3 DEF Underway
    <2> QED
      BY <1>1, <1>5, <1>6, <1>8, <2>2, <2>4, <2>5, <2>6, <2>7 DEF Streaming
  <1>10. CASE Fail
    BY <1>5, <1>6, <1>8, <1>10, Failing
  <1> QED
    BY <1>3, <1>9, <1>10

(* analyze_file, given a file.                                             *)
LEMMA StreamingGiven ==
    ASSUME Streaming, NEW n \in Lengths, AnalyzeSmallFile(n) \/ StartStreaming(n)
    PROVE  Streaming'
  <1>1. /\ n \in Nat /\ config.streaming_threshold \in Nat
        /\ config.overlap \in Nat /\ position \in Nat
    BY ConfigIs, SizesAssumption DEF Streaming, StreamTypes, SizesAssumption
  <1>2. /\ length' = n /\ cursor' = 0 /\ start' = position
        /\ UNCHANGED <<config, number, position>>
    BY DEF AnalyzeSmallFile, StartStreaming, Given
  <1>3. CASE AnalyzeSmallFile(n)
    <2>1. /\ n < config.streaming_threshold
          /\ seen' \in {{Chunk(0, n, 0)}, {}}
          /\ outcome' = "ok" => seen' = {Chunk(0, n, 0)}
          /\ outcome' \in {"ok", "failed"} /\ doing' = "idle"
      BY <1>3 DEF AnalyzeSmallFile, Given
    <2>2. PICK k \in Chunks : k = Chunk(0, n, 0) /\ k.from = 0 /\ k.to = n /\ k.place = 0
      <3>1. Chunk(0, n, 0) \in Chunks
        BY <1>1 DEF Chunk, Chunks
      <3> QED
        BY <3>1 DEF Chunk
    <2>3. seen' = {k} \/ seen' = {}
      BY <2>1, <2>2
    <2>4. StreamTypes'
      BY <1>1, <1>2, <2>1, <2>2, <2>3 DEF Streaming, StreamTypes
    <2>5. NothingBetween'
      BY <1>1, <1>2, <2>2, <2>3 DEF NothingBetween, CoveredTo, Within
    <2>6. PlacedFromStart'
      BY <1>2, <2>1, <2>2, <2>3 DEF PlacedFromStart
    <2>7. HandedOverToEnd'
      BY <1>2, <2>1, <2>2 DEF HandedOverToEnd
    <2> QED
      BY <1>1, <1>2, <2>1, <2>4, <2>5, <2>6, <2>7 DEF Streaming
  <1>4. CASE StartStreaming(n)
    <2>1. /\ n >= config.streaming_threshold /\ seen' = {} /\ outcome' = "none"
          /\ doing' = IF config.enable_mmap /\ n > 0 THEN "map" ELSE "read"
      BY <1>4 DEF StartStreaming
    <2>2. StreamTypes'
      BY <1>1, <1>2, <2>1 DEF Streaming, StreamTypes
    <2>3. NothingBetween' /\ PlacedFromStart' /\ HandedOverToEnd'
      BY <2>1 DEF NothingBetween, PlacedFromStart, HandedOverToEnd
    <2> QED
      BY <1>1, <1>2, <2>1, <2>2, <2>3 DEF Streaming, Underway
  <1> QED
    BY <1>3, <1>4

(* The steps that hand nothing over.                                       *)
LEMMA StreamingElse ==
    ASSUME Streaming,
           MapDone \/ EndOfFile \/ FileFails \/ Finalize \/ Reset \/ UNCHANGED vars
    PROVE  Streaming'
  <1>0. /\ config.chunk_size \in Nat /\ length \in Nat /\ cursor \in Nat
        /\ cursor <= length
    BY ConfigIs DEF Streaming, StreamTypes
  <1>1. /\ UNCHANGED <<config, length, seen, start>>
    BY DEF MapDone, EndOfFile, FileFails, Fail, Finalize, Reset, vars
  <1>2. NothingBetween' /\ PlacedFromStart'
    BY <1>1 DEF Streaming, NothingBetween, CoveredTo, Within, CutShort, IsShort,
                     PlacedFromStart
  <1>3. CASE MapDone \/ EndOfFile
    <2>1. /\ doing # "idle" /\ doing' = "finish" /\ UNCHANGED <<outcome, cursor, number, position>>
          /\ config.chunk_size # 0 => cursor = length
      BY <1>0, <1>3 DEF MapDone, EndOfFile, Smaller
    <2>2. StreamTypes' /\ HandedOverToEnd'
      BY <1>1, <2>1 DEF Streaming, StreamTypes, HandedOverToEnd
    <2>3. Underway => Underway'
      BY <1>1, <2>1 DEF Underway, Latest, CoveredTo, Within, CutShort, IsShort, Continues
    <2> QED
      BY <1>0, <1>1, <1>2, <2>1, <2>2, <2>3 DEF Streaming
  <1>4. CASE FileFails
    <2>1. Fail /\ UNCHANGED <<config, length, start>>
          /\ seen' \subseteq Chunks /\ \A c \in seen' : c.to <= length
      BY <1>1, <1>4 DEF FileFails, Streaming, StreamTypes
    <2> QED
      BY <1>2, <2>1, Failing
  <1>5. CASE Finalize
    <2>1. /\ doing = "finish" /\ doing' = "idle" /\ outcome' \in {"ok", "failed"}
          /\ UNCHANGED <<cursor, position>>
      BY <1>5 DEF Finalize
    <2>2. HandedOverToEnd'
      <3> SUFFICES ASSUME config.chunk_size # 0, length # 0
                   PROVE  \E c \in seen : c.to = length
        BY <1>1 DEF HandedOverToEnd
      <3>1. cursor = length /\ \E c \in seen : cursor <= c.to
        BY <1>0, <2>1 DEF Streaming, Underway, Continues
      <3>2. \A c \in seen : c.to <= length /\ c.to \in Nat
        BY DEF Streaming, StreamTypes, Chunks
      <3> QED
        BY <1>0, <3>1, <3>2
    <2> QED
      BY <1>0, <1>1, <1>2, <2>1, <2>2 DEF Streaming, StreamTypes
  <1>6. CASE Reset
    <2>1. /\ doing = "idle" /\ doing' = "idle" /\ position' = 0
          /\ UNCHANGED <<outcome, cursor>>
      BY <1>6 DEF Reset
    <2> QED
      BY <1>1, <1>2, <2>1 DEF Streaming, StreamTypes, HandedOverToEnd
  <1>7. CASE UNCHANGED vars
    BY <1>7 DEF vars, Streaming, StreamTypes, NothingBetween, Within, CutShort, PlacedFromStart,
                HandedOverToEnd, IsShort, Underway, Latest, CoveredTo, Continues
  <1> QED
    BY <1>3, <1>4, <1>5, <1>6, <1>7

(* The chunks of a file continue each other, whatever the sizes            *)
(* (StreamingAnalyzer).                                                    *)
THEOREM StreamingInvariant == Spec => []Streaming
  <1>1. ASSUME Init PROVE Streaming
    <2>1. \A n \in Lengths : n \in Nat
      BY SizesAssumption DEF SizesAssumption
    <2> QED
      BY <1>1, <2>1 DEF Init, Streaming, StreamTypes, NothingBetween, PlacedFromStart,
                        HandedOverToEnd
  <1>2. ASSUME Streaming, [Next]_vars PROVE Streaming'
    BY <1>2, StreamingGiven, StreamingMapChunk, StreamingReadChunk, StreamingElse
       DEF Next, Work
  <1> QED
    BY <1>1, <1>2, PTL DEF Spec

(* For every size of chunks, overlaps and files, nothing is lost between   *)
(* two chunks, at the end of the file or by the analyzer's position.       *)
THEOREM NothingLost == Spec => []NothingLostInChunks
  <1>1. Streaming => NothingLostInChunks
    BY DEF Streaming, NothingLostInChunks
  <1> QED
    BY <1>1, StreamingInvariant, PTL
=============================================================================
