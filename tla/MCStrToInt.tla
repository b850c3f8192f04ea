------------------------------ MODULE MCStrToInt ------------------------------
(***************************************************************************)
(* Texts for str_to_int and str_to_uint on a type of 64 values.            *)
(***************************************************************************)
EXTENDS StrToIntRef, SequencesExt

Signs == {<<>>, <<Plus>>, <<Minus>>}

\* F and G are 41 and 42.
MCTexts ==
  {s \o d : s \in Signs, d \in
     BoundedSeq({0, 1, 9, 11, 24, 33, 59, Plus, Minus, Other}, 3)
     \cup BoundedSeq({0, 3, 4, 6, 9, 10}, 4)
     \cup {<<0, 11>> \o d : d \in BoundedSeq({0, 1, 2}, 7)}
     \cup {<<0, 24>> \o d : d \in BoundedSeq({0, 3, 4, 7, 8}, 4)}
     \cup {<<0, 33>> \o d : d \in BoundedSeq({0, 2, 3, 4, 15, 41, 42}, 4)}}

MCDigits == BoundedSeq({0, 3, 4, 15, 16, 41, 42, Other}, 4)

=============================================================================
