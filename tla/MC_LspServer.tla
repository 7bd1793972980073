----------------------------- MODULE MC_LspServer -----------------------------
(* Instances of LspServer for TLC.                                          *)
EXTENDS LspServer, TLC

CONSTANTS h1, h2, h3, a, b

OneUri == {a}
TwoUris == {a, b}
TwoSlots == {h1, h2}
ThreeSlots == {h1, h2, h3}

(* The slots are interchangeable, and so are the documents.                 *)
SlotSymmetry == Permutations({h1, h2, h3})
TwoSlotSymmetry == Permutations({h1, h2}) \cup Permutations({a, b})

(* No edit breaks the text; the third notification's edit does.             *)
NoBadEdits == {}
ThirdBad == {3}
=============================================================================
