------------------------ MODULE MC_StreamingAnalyzer ------------------------
(***************************************************************************)
(* Two files of up to five bytes given to one analyzer, in chunks of up to *)
(* three bytes with overlaps below, of and beyond their size, among them   *)
(* none of both.                                                           *)
(***************************************************************************)
EXTENDS StreamingAnalyzer

SmallSizes == 0 .. 3

SmallLengths == 0 .. 5
=============================================================================
