---------------------------- MODULE MC_AnalysisRun ----------------------------
(* Instances of AnalysisRun for TLC.                                        *)
EXTENDS AnalysisRun, TLC

CONSTANTS p, q, d, e, broken, empty, small, large

TwoPaths == {p, q}
OneTest == {q}
FourTexts == {broken, empty, small, large}
TwoDetectors == <<d, e>>
Priorities == (d :> 0) @@ (e :> 1)
Both == {d, e}
OneNeedsCfg == {e}

Low(n) == [line |-> n, severity |-> 1, confidence |-> 0]
Sure(n) == [line |-> n, severity |-> 4, confidence |-> 3]
Report(fs) == [ok |-> TRUE, findings |-> fs]
Failure == [ok |-> FALSE, findings |-> << >>]

(* small has one contract in which a detector fails; large has two, of     *)
(* which one shares a function name with an analysed one, and the same     *)
(* place reported twice at different severities.                           *)
Sources ==
  (broken :> [parses |-> FALSE, contracts |-> << >>, analysed |-> {}]) @@
  (empty :> [parses |-> TRUE, contracts |-> << >>, analysed |-> {}]) @@
  (small :> [parses |-> TRUE, analysed |-> {"f"}, contracts |->
     <<[functions |-> {"f"},
        reports |-> (d :> Report(<<Low(1)>>)) @@ (e :> Failure)]>>]) @@
  (large :> [parses |-> TRUE, analysed |-> {"f"}, contracts |->
     <<[functions |-> {"f"},
        reports |-> (d :> Report(<<Low(1)>>)) @@ (e :> Report(<<Sure(2)>>))],
       [functions |-> {"g"},
        reports |-> (d :> Report(<<Sure(1)>>)) @@ (e :> Report(<<Low(3)>>))]>>])

Arguments == {<<p, q>>, <<p, q, p>>, <<p, p>>}

(* Everything that steers the analysis, with the default exit flags; and   *)
(* every exit flag, with the default analysis.                             *)
AnalysisOptions ==
  [minSeverity : {0, 3}, minConfidence : {0, 1, 3}, useCache : BOOLEAN,
   includeTests : BOOLEAN, failFast : BOOLEAN, registrySeverity : {0},
   registryConfidence : {0}, exitConfig : {ExitConfig(FALSE, None, None)}]
ExitOptions ==
  [minSeverity : {0, 3}, minConfidence : {0}, useCache : {TRUE},
   includeTests : {TRUE}, failFast : {FALSE}, registrySeverity : {0, 2},
   registryConfidence : {0},
   exitConfig : {ExitConfig(n, l, a) : n \in BOOLEAN, l \in {None, 0, 1, 4},
                                       a \in {None, TRUE, FALSE}}]
Options == AnalysisOptions \cup ExitOptions
=============================================================================
