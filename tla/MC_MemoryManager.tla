-------------------------- MODULE MC_MemoryManager --------------------------
(***************************************************************************)
(* Two threads, five calls, sizes that fit a pool, lie between two or      *)
(* exceed both, and pools listed in either order.                          *)
(***************************************************************************)
EXTENDS MemoryManager

TwoPools == {<<1, 3>>, <<3, 1>>}
=============================================================================
