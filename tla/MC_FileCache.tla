---------------------------- MODULE MC_FileCache ----------------------------
(***************************************************************************)
(* Two threads, three files, three texts of which two have one length.     *)
(***************************************************************************)
EXTENDS FileCache, TLC

TextLength == [x \in {"one", "two", "long"} |-> IF x = "long" THEN 6 ELSE 1]

AllShort == {[f \in Files |-> "one"]}

Symmetry == Permutations(Threads)
=============================================================================
