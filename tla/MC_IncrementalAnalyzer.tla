----------------------- MODULE MC_IncrementalAnalyzer -----------------------
(***************************************************************************)
(* Three calls by two threads, with two files in one shard or in two, each *)
(* importing nothing, the other or itself, one of which is rewritten.      *)
(***************************************************************************)
EXTENDS IncrementalAnalyzer

FewImports == {{}, {"a"}, {"b"}}

TwoShards == {1, 2}

(* In one shard or in two: the other distributions only rename the files.  *)
SameOrApart == {[f \in Files |-> 1], "a" :> 1 @@ "b" :> 2}
=============================================================================
