------------------------------- MODULE MCFish -------------------------------
(***************************************************************************)
(* All frames of up to three characters, a missing one, some whose lines   *)
(* run over the end of the row, of the screen and of the array, and some   *)
(* with a block of two that is missing: the first one, one in the middle   *)
(* of a line, and one at the start of a line.                              *)
(***************************************************************************)
EXTENDS Fish

Damaged(text, missing) == [exists |-> TRUE, text |-> text, missing |-> missing]
File(text) == Damaged(text, {})

MCFrames ==
  {File(t) : t \in UNION {[1..n -> {"a", Blank, NL}] : n \in 0..3}} \union
  {[exists |-> FALSE, text |-> <<>>, missing |-> {}]} \union
  {File(<<"a", "b", NL, Blank, "a", NL>>), File(<<"a", "b", "a", "b", "a", "b", "a">>),
   File(<<"a", "b", "a", "b", "a", NL, "b", "b", "b">>), File(<<NL, NL, Blank, "b", NL, "b">>)} \union
  {Damaged(<<"a", "b", "a">>, {0, 1}), Damaged(<<"a", "b", "a", "b">>, {2, 3}),
   Damaged(<<"a", NL, "b">>, {2})}
=============================================================================
