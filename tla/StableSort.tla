----------------------------- MODULE StableSort -----------------------------
(***************************************************************************)
(* slice::sort_by: elements of which some have to stand ahead of others    *)
(* are rearranged, and those that need not keep their order.               *)
(***************************************************************************)
EXTENDS Integers, Sequences

(* What becomes of n elements when those of the pairs in `ahead` have to   *)
(* change places, or to keep them.                                         *)
Arrangements(n, ahead) ==
    {p \in [1 .. n -> 1 .. n] :
        \A i, j \in 1 .. n : i < j =>
            /\ p[i] # p[j]
            /\ <<p[j], p[i]>> \notin ahead
            /\ <<p[i], p[j]>> \in ahead \/ p[i] < p[j]}

(* s sorted; a set, though only one of its members is in order.            *)
Sorted(s, ahead) ==
    {[k \in 1 .. Len(s) |-> s[p[k]]] : p \in Arrangements(Len(s), ahead)}
=============================================================================
