-------------------------- MODULE TextReplacements --------------------------
(***************************************************************************)
(* Replacing ranges of a text, as FixEngine (crates/fixes/src/lib.rs) and  *)
(* ReplacementEngine (crates/fixes/src/replacements.rs) do it.             *)
(*                                                                         *)
(* A text is a sequence of lines and a line a sequence of symbols, one of  *)
(* which is the line break: the engines leave the breaks of an inserted    *)
(* text inside a line.  A replacement puts its text in place of the range  *)
(* between two positions <<line, column>>, counted from 1.                 *)
(***************************************************************************)
EXTENDS Integers, Sequences, StableSort

CONSTANT Break \* the line break

Before(p, q) == p[1] < q[1] \/ (p[1] = q[1] /\ p[2] < q[2])

(* ranges_overlap: neither range ends before the other begins.             *)
Overlap(r, s) == Before(s.start, r.end) /\ Before(r.start, s.end)

(* Mutant: those that begin first come first.                              *)
EarliestFirst(rs) ==
    Sorted(rs, {ij \in (1 .. Len(rs)) \X (1 .. Len(rs)) :
                  Before(rs[ij[1]].start, rs[ij[2]].start)})

(* Replacements in the order they are applied in: the last of the text     *)
(* comes first, so that it moves none of those still to come.              *)
LatestFirst(rs) ==
    Sorted(rs, {ij \in (1 .. Len(rs)) \X (1 .. Len(rs)) :
                  Before(rs[ij[2]].start, rs[ij[1]].start)})

(* How many symbols of a line stand before a column.                       *)
Preceding(line, column) ==
    IF column - 1 <= Len(line) THEN column - 1 ELSE Len(line)

(* The pieces between breaks that the first n symbols of a line make, from *)
(* those the first n - 1 make.                                             *)
AddSymbol(line, pieces, n) ==
    LET symbol == IF line[n] = Break THEN <<>> ELSE <<line[n]>>
    IN IF n = 1 \/ line[n - 1] = Break THEN Append(pieces, symbol)
       ELSE [pieces EXCEPT ![Len(pieces)] = @ \o symbol]

(* lines(): all of them, without an empty last one.                        *)
SplitLines(line) ==
    LET pieces[n \in 0 .. Len(line)] ==
            IF n = 0 THEN <<>> ELSE AddSymbol(line, pieces[n - 1], n)
    IN pieces[Len(line)]

(* The line a replacement makes of the lines of its range.                 *)
Merged(text, r) ==
    SubSeq(text[r.start[1]], 1, Preceding(text[r.start[1]], r.start[2]))
      \o r.text
      \o SubSeq(text[r.end[1]], Preceding(text[r.end[1]], r.end[2]) + 1,
                Len(text[r.end[1]]))

Spliced(text, r, new) ==
    SubSeq(text, 1, r.start[1] - 1) \o new \o SubSeq(text, r.end[1] + 1, Len(text))

HasLines(text, r) == r.start[1] <= Len(text) /\ r.end[1] <= Len(text)

(* FixEngine::apply_replacements skips a replacement whose columns are not *)
(* within their lines, or not in order within one line.                    *)
HasColumns(text, r) ==
    /\ r.start[2] - 1 <= Len(text[r.start[1]])
    /\ r.end[2] - 1 <= Len(text[r.end[1]])
    /\ r.start[1] = r.end[1] => r.start[2] <= r.end[2]

FixEngineReplace(text, r) ==
    IF HasLines(text, r) /\ HasColumns(text, r)
    THEN Spliced(text, r, <<Merged(text, r)>>)
    ELSE text

(* ReplacementEngine::apply_single_replacement cuts columns to the line    *)
(* and then asks for their order, and breaks the new line up again when    *)
(* the range had several lines.                                            *)
InOrder(text, r) ==
    r.start[1] = r.end[1] =>
        Preceding(text[r.start[1]], r.start[2]) <= Preceding(text[r.end[1]], r.end[2])

ReplacementEngineReplace(text, r) ==
    IF ~(HasLines(text, r) /\ InOrder(text, r)) THEN text
    ELSE Spliced(text, r, IF r.start[1] = r.end[1] THEN <<Merged(text, r)>>
                          ELSE SplitLines(Merged(text, r)))
=============================================================================
