-------------------------- MODULE MC_ParallelExecutor --------------------------
(* Instances of ParallelExecutor for TLC.                                   *)
EXTENDS ParallelExecutor, TLC

CONSTANTS c1, c2, w1, w2

OneCaller == {c1}
TwoCallers == {c1, c2}
TwoWorkers == {w1, w2}
(* The channel has one slot.  With a collecting c1 and a c2 that only       *)
(* submits, work is left over at shutdown; with two collectors they race.   *)
Batches == (c1 :> 2) @@ (c2 :> 1)
=============================================================================
