-------------------------- MODULE MC_AnalysisEngine --------------------------
(***************************************************************************)
(* Files for the analysis engine: functions of up to three statements with *)
(* one or two branches or loops, nested or in sequence, with braced and    *)
(* unbraced bodies.  And graphs as the data flow crate's tests build them  *)
(* with add_block and add_edge, in which blocks define the same value by   *)
(* additions.                                                              *)
(***************************************************************************)
EXTENDS AnalysisEngine

Plain(kind, at) == [kind |-> kind, at |-> at]

If(then, else) == [kind |-> "if", then |-> then, else |-> else]

While(body) == [kind |-> "while", body |-> body]

For(init, test, body, update) ==
    [kind |-> "for", init |-> init, test |-> test, body |-> body,
     update |-> update]

(* A simple statement at place a.                                          *)
Simple(a) == {Plain(k, a) : k \in {"set", "incr", "return"}}

(* A branch of a statement: a simple statement, braced or not.             *)
Branch(a) == Simple(a) \cup {Block(<<s>>) : s \in Simple(a)}

(* Branches and loops around the statements of Inner.                      *)
Around(Inner, a) ==
    UNION {
      {If(s, <<>>) : s \in Inner},
      {If(s, <<Plain("incr", a)>>) : s \in Inner},
      {While(s) : s \in Inner},
      {For(Plain("set", a \o "i"), t, s, Plain("incr", a \o "u")) :
          s \in Inner, t \in {TRUE, FALSE}}}

Controls == Around(Branch("b"), "c")

(* A branch or loop inside another, followed by a read of X.               *)
Nested ==
    Around({Block(<<s>>) : s \in Around({Plain("incr", "b"), Plain("return", "b")}, "c")},
           "d")

Bodies ==
    UNION {
      {<<s>> : s \in Simple("a") \cup {Plain("sum", "a")}},
      {<<s, Plain("sum", "z")>> : s \in {While(Plain("incr", "b")),
                                        If(Plain("sum", "b"), <<>>)}},
      {<<Plain("set", "a"), s, Plain("return", "z")>> : s \in Controls},
      {<<s, Plain("return", "z")>> : s \in Nested},
      {<<Plain("revert", "a"), Plain("skip", "y")>>}}

Twice ==
    {<<s, t, Plain("return", "z")>> :
        s \in Around({Plain("return", "b"), Block(<<Plain("incr", "b")>>)}, "c"),
        t \in Around({Plain("incr", "e")}, "f")}

SmallFiles ==
    {<<f>> : f \in Bodies \cup Twice}
        \cup {<< <<Plain("set", "a")>>, f >> :
                f \in {<<Plain("incr", "a")>>, <<Plain("bad", "a")>>,
                       <<While(Plain("bad", "a"))>>,
                       <<If(Plain("set", "a"), <<Plain("incr", "b")>>)>>}}

(* Small sets are listed in every order, larger ones up and down.          *)
SmallOrders(S) ==
    LET n == Cardinality(S)
    IN IF n <= 3
       THEN {q \in [1 .. n -> S] : \A i, j \in 1 .. n : i # j => q[i] # q[j]}
       ELSE {Ascending(S), Descending(S)}

(* V is defined by additions, read, or assigned, in the blocks of a        *)
(* diamond and of a loop.                                                  *)
V == 1
W == 2

Put(def, uses) == Instr("add", "", {def}, uses, <<>>)

Pieces ==
    {<<>>,
     <<Put(V, {})>>,
     <<Put(V, {V})>>,
     <<Put(W, {V}), Put(V, {W})>>,
     <<Put(V, {}), Instr("cond", "", {}, {V}, <<>>)>>,
     <<Instr("assign", "", {V}, {W}, <<>>)>>}

Diamond == {<<0, 1>>, <<0, 2>>, <<1, 3>>, <<2, 3>>}

Loop == {<<0, 1>>, <<1, 2>>, <<2, 1>>, <<1, 3>>}

Endings == {<<Instr("return", "", {}, {V}, <<>>)>>, <<Put(V, {W})>>}

SmallGraphs ==
    {[blocks |-> 0 .. 3, edges |-> e, entry |-> 0,
      code |-> [b \in 0 .. 3 |-> IF b = 3 THEN last ELSE c[b]]] :
        e \in {Diamond, Loop}, c \in [0 .. 2 -> Pieces], last \in Endings}

(* The problems that arise from them.                                      *)
GraphOf(f) == BuildGraph(LowerFunction(f).ir, EntryBlock)

SmallProblems ==
    {FlowProblem(NoGraph, "reaching", {})} \cup
    {FlowProblem(g, a, ExitBlocks(g)) : g \in SmallGraphs, a \in {"sites", "liveness"}} \cup
    UNION {UNION {{FlowProblem(GraphOf(f), a, ExitBlocks(GraphOf(f))) :
              f \in {s[i] : i \in DOMAIN s}} :
              a \in {"reaching", "live", "sites", "liveness"}} :
           s \in SmallFiles}
=============================================================================
