------------------------ MODULE MC_DependencyTracker ------------------------
(***************************************************************************)
(* Two threads, three files of which two share a shard, graphs of imports  *)
(* with circles of two and three files, with several and with none, one    *)
(* file that is edited, lost or put back, and a second path to the first   *)
(* file by which the third may import it.                                  *)
(***************************************************************************)
EXTENDS DependencyTracker, TLC

SomeConfigs == {c \in [cache : BOOLEAN, detect : BOOLEAN] : c.cache \/ c.detect}

OneFileOrAll == {<<2>>, <<1, 2, 3>>}

SecondPath == <<1, 2, 3, 1>>

Graphs ==
    {<<a, b, c, a>> : <<a, b, c>> \in
        {<<{2}, {1}, {1, 2}>>, <<{2, 3}, {3}, {1, 2}>>, <<{2}, {3}, {}>>,
         <<{2, 3}, {1}, {4}>>, <<{2}, {3}, {4}>>}}

TwoShards == {<<1, 2, 1, 2>>}

Symmetry == Permutations(Threads)
=============================================================================
