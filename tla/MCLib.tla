------------------------------- MODULE MCLib -------------------------------
(* Small instances of Lib *)
EXTENDS Lib

SomePlaces  == {0, 1, 2, 3, 6, 11, 12, 13}
SomeLengths == {0, 1, 2, 3, 5, 9, 10}

AllStrings == SeqOf({97, 98}, 3)

\* Lines of up to six characters over a letter and the blank, and one over
\* two letters
AllLines == SeqOf({97, SP}, 6) \union {<<97, 98, SP, SP, 98>>}

SomeValues == {0, 9, 16, 128, 255}

AllDirectives == SeqOf(DOMAIN Spelling, 2) \union
  {<<"c", "x", "d">>, <<"d", "other", "altx">>, <<"s", "u", "c">>}

AllTails == {<<>>, <<Percent>>, <<Percent, Hash>>}
=============================================================================
