----------------------------- MODULE MCTerminal -----------------------------
(***************************************************************************)
(* Small screens, on which a line of a few characters wraps and scrolls.   *)
(***************************************************************************)
EXTENDS Terminal

\* Output that moves the cursor anywhere: a character, a new line, an erased
\* character, and one that wraps and erases across the edge of the screen
MCTexts == {<<"a">>, <<"NL">>, <<"BS">>, <<"l", "l", "BS">>}

\* For the keyboard's run, in which the screen does not matter
OneText == {<<"a">>}

AllKeys == Scancodes
=============================================================================
