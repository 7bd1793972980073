----------------------------- MODULE FixEngine ------------------------------
(***************************************************************************)
(* Suggested fixes are chosen and applied to a text.  There are two        *)
(* engines, each with a way that resolves conflicts and one that does not: *)
(*    fixes      FixEngine::generate_combined_fixes, apply_multiple_fixes  *)
(*    fix        FixEngine::apply_fix                                      *)
(*    edits      ReplacementEngine::apply_multiple_fixes                   *)
(*    edit       ReplacementEngine::apply_fix                              *)
(* FixEngine keeps or drops whole fixes, the most confident first;         *)
(* ReplacementEngine keeps or drops single replacements, the last of the   *)
(* text first.                                                             *)
(***************************************************************************)
EXTENDS TextReplacements, SequencesExt

CONSTANTS
    Symbols, \* what lines are made of
    Texts,   \* the texts fixes are applied to
    Advice   \* what the generators may suggest: sequences of fixes

Position == (Nat \ {0}) \X (Nat \ {0})

(* Vec::splice panics on lines that are further out of order.              *)
Replacement ==
    {r \in [start : Position, end : Position, text : Seq(Symbols)] :
        r.start[1] <= r.end[1] + 1}

Fix == [confidence : Nat, replacements : Seq(Replacement)]

ASSUME AdviceAssumption == \A fixes \in Advice : fixes \in Seq(Fix)

(* str::lines leaves no break in a line.                                   *)
ASSUME TextsAssumption ==
    Break \in Symbols /\ \A t \in Texts : t \in Seq(Seq(Symbols \ {Break}))

VARIABLES
    way,        \* "fixes", "fix", "edits" or "edit"
    source,     \* the text as it was
    candidates, \* fixes in the order they are looked at
    looked,     \* how many of them have been
    kept,       \* those that are kept, by their positions in candidates
    plan,       \* the replacements to apply, in order
    applied,    \* how many of them have been
    text,       \* the text so far
    phase       \* "resolving", "applying" or "done"

fixVars == <<way, source, candidates, looked, kept, plan, applied, text, phase>>

-----------------------------------------------------------------------------

All(fixes) == FlattenSeq([k \in 1 .. Len(fixes) |-> fixes[k].replacements])

(* Mutant: the least confident come first.                                 *)
LeastConfidentFirst(fixes) ==
    Sorted(fixes, {ij \in (1 .. Len(fixes)) \X (1 .. Len(fixes)) :
                     fixes[ij[1]].confidence < fixes[ij[2]].confidence})

(* FixEngine: generate_fixes and resolve_conflicts sort by confidence.     *)
MostConfidentFirst(fixes) ==
    Sorted(fixes, {ij \in (1 .. Len(fixes)) \X (1 .. Len(fixes)) :
                     fixes[ij[1]].confidence > fixes[ij[2]].confidence})

(* ReplacementEngine takes fixes apart.                                    *)
OneByOne(rs) ==
    [k \in DOMAIN rs |-> [confidence |-> 0, replacements |-> <<rs[k]>>]]

FixInit ==
    /\ source \in Texts
    /\ \E fixes \in Advice :
          \/ /\ way = "fixes"
             /\ candidates \in MostConfidentFirst(fixes)
             /\ phase = "resolving"
             /\ plan = <<>>
          \/ /\ way = "edits"
             /\ \E rs \in LatestFirst(All(fixes)) : candidates = OneByOne(rs)
             /\ phase = "resolving"
             /\ plan = <<>>
          \/ /\ way = "fix"
             /\ candidates = <<>>
             /\ phase = "applying"
             /\ Len(fixes) = 1
             /\ plan = fixes[1].replacements
          \/ /\ way = "edit"
             /\ candidates = <<>>
             /\ phase = "applying"
             /\ Len(fixes) = 1
             /\ plan \in LatestFirst(fixes[1].replacements)
    /\ looked = 0
    /\ kept = {}
    /\ applied = 0
    /\ text = source

(* Mutant: only a fix's first replacement is looked at.                    *)
ConflictsAtFirst(fix, other) ==
    \E j \in DOMAIN other.replacements :
        fix.replacements # <<>> /\ Overlap(fix.replacements[1], other.replacements[j])

Conflicts(fix, other) ==
    \E i \in DOMAIN fix.replacements, j \in DOMAIN other.replacements :
        Overlap(fix.replacements[i], other.replacements[j])

(* resolve_conflicts, resolve_replacement_conflicts: a candidate without   *)
(* conflict with those already kept is kept.                               *)
Keep ==
    /\ phase = "resolving"
    /\ looked + 1 \in DOMAIN candidates
    /\ \A k \in kept : ~Conflicts(candidates[looked + 1], candidates[k])
    /\ looked' = looked + 1
    /\ kept' = kept \cup {looked + 1}
    /\ UNCHANGED <<way, source, candidates, plan, applied, text, phase>>

Discard ==
    /\ phase = "resolving"
    /\ looked + 1 \in DOMAIN candidates
    /\ \E k \in kept : Conflicts(candidates[looked + 1], candidates[k])
    /\ looked' = looked + 1
    /\ UNCHANGED <<way, source, candidates, kept, plan, applied, text, phase>>

KeptReplacements ==
    FlattenSeq([k \in 1 .. Len(candidates) |->
                  IF k \in kept THEN candidates[k].replacements ELSE <<>>])

(* What is kept is put in the order it is applied in.                      *)
Resolved ==
    /\ phase = "resolving"
    /\ looked + 1 \notin DOMAIN candidates
    /\ plan' \in LatestFirst(KeptReplacements)
    /\ phase' = "applying"
    /\ UNCHANGED <<way, source, candidates, looked, kept, applied, text>>

Replace(t, r) ==
    IF way \in {"fixes", "fix"} THEN FixEngineReplace(t, r)
    ELSE ReplacementEngineReplace(t, r)

ApplyOne ==
    /\ phase = "applying"
    /\ applied < Len(plan)
    /\ text' = Replace(text, plan[applied + 1])
    /\ applied' = applied + 1
    /\ UNCHANGED <<way, source, candidates, looked, kept, plan, phase>>

Applied ==
    /\ phase = "applying"
    /\ applied = Len(plan)
    /\ phase' = "done"
    /\ UNCHANGED <<way, source, candidates, looked, kept, plan, applied, text>>

FixNext == Keep \/ Discard \/ Resolved \/ ApplyOne \/ Applied

FixSpec == FixInit /\ [][FixNext]_fixVars

-----------------------------------------------------------------------------

(* What is kept can be applied together: no replacement of a fix that is   *)
(* kept overlaps one of another fix that is kept (resolve_conflicts,       *)
(* resolve_replacement_conflicts).                                         *)
KeptApart ==
    \A i, j \in kept : i # j =>
        \A m \in DOMAIN candidates[i].replacements,
           n \in DOMAIN candidates[j].replacements :
            ~Overlap(candidates[i].replacements[m], candidates[j].replacements[n])

(* Nothing is dropped without need: a fix is dropped for one at least as   *)
(* confident that it conflicts with, a replacement for one that begins no  *)
(* earlier -- not, as the comment in apply_multiple_fixes has it, for the  *)
(* first encountered.                                                      *)
DroppedForBetter ==
    \A i \in 1 .. looked \ kept :
        \E k \in kept :
            /\ Conflicts(candidates[i], candidates[k])
            /\ candidates[k].confidence >= candidates[i].confidence
            /\ way = "edits" =>
                 ~Before(candidates[k].replacements[1].start,
                         candidates[i].replacements[1].start)

-----------------------------------------------------------------------------
(* Replacing all at once.  A text is read as one sequence of symbols.      *)

(* Every line with its break, and join("\n"): breaks in between only.      *)
Broken(t) == FlattenSeq([l \in 1 .. Len(t) |-> Append(t[l], Break)])

Joined(t) == SubSeq(Broken(t), 1, Len(Broken(t)) - 1)

(* How many symbols of the source stand before a position.                 *)
Offset(p) ==
    Len(Broken(SubSeq(source, 1, p[1] - 1))) + Preceding(source[p[1]], p[2])

(* What is not skipped, by its place in the plan.                          *)
Taken ==
    {i \in DOMAIN plan :
        /\ HasLines(source, plan[i])
        /\ way \in {"fixes", "fix"} => HasColumns(source, plan[i])}

(* The texts of the replacements S at their places -- no two begin at one, *)
(* see Separate -- and the symbols none of their ranges covers.            *)
AtOnce(S) ==
    LET symbols == Joined(source)
        Begin(n) == {i \in S : Offset(plan[i].start) = n}
        Put(n) == IF Begin(n) = {} THEN <<>> ELSE plan[CHOOSE i \in Begin(n) : TRUE].text
        Covered(n) ==
            \E i \in S : Offset(plan[i].start) < n /\ n <= Offset(plan[i].end)
    IN FlattenSeq([n \in 1 .. Len(symbols) + 1 |->
         Put(n - 1) \o
           (IF n <= Len(symbols) /\ ~Covered(n) THEN <<symbols[n]>> ELSE <<>>)])

(* Ranges are in order, and no two overlap or begin at the same place, not *)
(* even one that is skipped: it may cover what another puts there.         *)
Separate ==
    /\ \A i \in DOMAIN plan : ~Before(plan[i].end, plan[i].start)
    /\ \A i, j \in DOMAIN plan : i # j =>
          /\ ~Overlap(plan[i], plan[j])
          /\ plan[i].start # plan[j].start
          /\ {i, j} \subseteq Taken => Offset(plan[i].start) # Offset(plan[j].start)

LastListedFirst ==
    \A i, j \in DOMAIN plan : i < j => Before(plan[j].start, plan[i].start)

(* A range ends where another one begins, and the text put there changes   *)
(* what the end is: it is past the end of the line, so that the line's new *)
(* end is meant, or its line is gone, since ReplacementEngine may make no  *)
(* line at all of several.                                                 *)
EndMoves ==
    \E i, j \in Taken :
        /\ i # j
        /\ Offset(plan[i].end) = Offset(plan[j].start)
        /\ \/ plan[i].end[2] - 1 > Len(source[plan[i].end[1]])
           \/ /\ way \in {"edits", "edit"}
              /\ plan[j].start[1] < plan[j].end[1]
              /\ plan[j].text = <<>>
              /\ Preceding(source[plan[j].start[1]], plan[j].start[2]) = 0

(* ReplacementEngine breaks the line it makes of several ones up again,    *)
(* and loses an empty last piece.                                          *)
MayLoseBreak ==
    /\ way \in {"edits", "edit"}
    /\ \E i \in Taken : plan[i].start[1] < plan[i].end[1]
    /\ \E i \in Taken : plan[i].text = <<>> \/ Last(plan[i].text) = Break

WithoutBreaks(t) ==
    FlattenSeq([i \in 1 .. Len(t) |-> IF t[i] = Break THEN <<>> ELSE <<t[i]>>])

(* Replacing one after the other gives what replacing all at once would,   *)
(* however lines and their number change on the way (apply_replacements,   *)
(* "in reverse order to avoid offset issues") -- when the ranges are       *)
(* separate, none ends where another's text moves its end, and             *)
(* FixEngine::apply_fix, which does not sort, was given them last first.   *)
(* A break after a line put together from several may be lost.             *)
AppliedAtOnce ==
    /\ phase = "done"
    /\ Separate
    /\ ~EndMoves
    /\ way = "fix" => LastListedFirst
    => IF MayLoseBreak
       THEN WithoutBreaks(Joined(text)) = WithoutBreaks(AtOnce(Taken))
       ELSE Joined(text) = AtOnce(Taken)
=============================================================================
