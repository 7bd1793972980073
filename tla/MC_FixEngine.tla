---------------------------- MODULE MC_FixEngine ----------------------------
(***************************************************************************)
(* Fixes for texts of two and three lines, one of them empty: replacements *)
(* of every range of their columns, of whole lines, at and past line ends, *)
(* past the end of the text, and one out of order.                         *)
(***************************************************************************)
EXTENDS FixEngine

(* u32::MAX, a column past the end of every line.                          *)
EndOfLine == 99

Positions == ({1, 2} \X {1, 2, 3, EndOfLine}) \cup ({3} \X {1, EndOfLine})

Ranges ==
    {<<p, q>> \in Positions \X Positions : ~Before(q, p)}
      \cup {<< <<1, 3>>, <<1, 2>> >>}

FewRanges ==
    {<< <<1, 1>>, <<1, 2>> >>, << <<1, 1>>, <<1, 1>> >>, << <<1, 2>>, <<2, 2>> >>,
     << <<2, 2>>, <<2, EndOfLine>> >>, << <<2, EndOfLine>>, <<2, EndOfLine>> >>}

Put(range, t) == [start |-> range[1], end |-> range[2], text |-> t]

Of(c, rs) == [confidence |-> c, replacements |-> rs]

SmallTexts ==
    {<< <<"a", "b">>, <<"c", "d">> >>, << <<"a", "b">>, <<>>, <<"c">> >>}

(* Two fixes of one replacement, one fix of two, and three fixes of which  *)
(* one has two.                                                            *)
SmallAdvice ==
    UNION {
      {<<Of(1, <<Put(x, t)>>), Of(c, <<Put(y, <<"y">>)>>)>> :
          x \in Ranges, y \in Ranges, t \in {<<>>, <<"x", "nl">>}, c \in {1, 2}},
      {<<Of(1, <<Put(x, <<"x">>), Put(y, u)>>)>> :
          x \in Ranges, y \in Ranges, u \in {<<>>, <<"nl", "y">>}},
      {<<Of(1, <<Put(x, <<"x">>), Put(y, <<"y">>)>>), Of(1, <<Put(z, <<"z">>)>>),
         Of(2, <<Put(w, <<>>)>>)>> :
          x, z \in FewRanges, y, w \in FewRanges}}
=============================================================================
