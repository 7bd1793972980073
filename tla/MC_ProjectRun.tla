----------------------------- MODULE MC_ProjectRun -----------------------------
(* Instances of ProjectRun for TLC.                                         *)
EXTENDS ProjectRun, TLC

CONSTANTS a, b, l, x

(* Two sources, a library file, and a test of the library that is never     *)
(* listed but may be imported.                                              *)
AllProjectFiles == {a, b, l, x}
Sources == <<a, b>>
Libraries == <<l>>

ImportChoices ==
  {(a :> s) @@ (b :> t) @@ (l :> u) @@ (x :> {}) :
     s \in {{}, {a}, {b}, {l}, {b, l}, {l, x}}, t \in SUBSET {a, l}, u \in {{}, {x}, {a}}}

(* Everything readable, or one file not.                                    *)
ReadChoices == {{}, {b}, {l}}

(* Everything parses, or the file that has the critical finding, or one    *)
(* that others import, does not.                                           *)
ParseChoices == {{}, {a}, {l}}

(* The sources have mild findings only, the library a critical one.         *)
FindingChoice == (a :> <<1>>) @@ (b :> <<2, 0>>) @@ (l :> <<4>>) @@ (x :> << >>)
Names == (a :> {"A"}) @@ (b :> {"B"}) @@ (l :> {"A"}) @@ (x :> {})

Options ==
  {[includeDeps |-> dep # "none", depsOnly |-> dep = "only", crossContract |-> cross,
    exitConfig |-> config] :
     dep \in {"none", "include", "only"}, cross \in BOOLEAN,
     config \in {ExitConfig(FALSE, None, None), ExitConfig(FALSE, 2, None),
                 ExitConfig(TRUE, None, None)}}
=============================================================================
