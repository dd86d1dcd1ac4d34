----------------------------- MODULE MCUserland -----------------------------
(***************************************************************************)
(* The programs on an image with three texts, a file with a missing block, *)
(* the RTC and a name that fills its entry.  Lengths are scaled: an entry  *)
(* holds 3 characters instead of 32, a name buffer 4 instead of 33, the    *)
(* programs' buffers 6 bytes instead of 1024, a data block 4 instead of    *)
(* 4096.                                                                   *)
(***************************************************************************)
EXTENDS Userland

Utilities == Programs \ {"shell"}

MCNames == Programs \union
  {"", ".", "rtc", "text1", "text2", "text3", "broken", "longest", "missing",
   "helloo", "shel", "ab", "1"}
MCNameLen == [n \in MCNames |-> IF n = "" THEN 0 ELSE IF n = "longest" THEN 3 ELSE 1]
MCTrunc == [n \in MCNames |-> n]

Order == <<".", "shell", "cat", "ls", "grep", "hello", "testprint", "counter", "syserr",
           "pingpong", "sigtest", "text1", "text2", "text3", "longest", "broken", "rtc", "">>

MCdirentries == [i \in 0..17 |->
  LET n == Order[i + 1]
  IN  [filename |-> n,
       filetype |-> CASE n = "." -> FILE_TYPE_DIR
                      [] n \in {"rtc", ""} -> FILE_TYPE_RTC
                      [] OTHER -> FILE_TYPE_FILE,
       inode_num |-> CASE n = "text1" -> 2 [] n \in {"text2", "longest"} -> 3
                       [] n = "text3" -> 4 [] n = "broken" -> 1 [] OTHER -> 0]]

\* A program; a file with a missing block; lines that the reads of six bytes
\* cut, one that a stack newline would cut; no newline at the end; a line
\* longer than the buffer
MCText == [i \in 0..4 |->
  CASE i = 0 -> <<"x", "a", "b", "x">>
    [] i = 1 -> <<"x", "x", "x", "x", "a", "b">>
    [] i = 2 -> <<"a", "b", "NL", "c", "c", "a", "b", "c", "NL", "NL", "a", "c">>
    [] i = 3 -> <<"c", "NL", "c", "c", "c", "c", "a", "b", "NL", "a", "b">>
    [] i = 4 -> <<"c", "c", "c", "c", "c", "a", "b", "NL">>]

MCinodes == [i \in 0..4 |->
  [length |-> Len(MCText[i]),
   data_block_num |-> [k \in 0..3 |-> IF i = 1 /\ k = 1 THEN 99 ELSE k]]]

MCArgs == {"", ".", "rtc", "text2", "broken", "longest", "missing", "ab", "1"}
MCArgLen == [a \in MCArgs |-> IF a = "" THEN 0 ELSE 1]
MCPattern == [a \in MCArgs |-> IF a = "ab" THEN <<"a", "b">> ELSE <<a>>]

Cmd(name, arg) == [name |-> name, spaced |-> arg # "", arg |-> arg]

MCLines == {Cmd("cat", a) : a \in MCArgs \ {"ab"}} \union
           {Cmd("grep", "ab"), Cmd("grep", ""), Cmd("sigtest", "1"), Cmd("sigtest", "ab")} \union
           {Cmd(n, "") : n \in {"ls", "hello", "testprint", "counter", "syserr", "pingpong",
                                "sigtest", "shell", "broken", "missing"}}

\* A place in the programs' page
MCBuffers == {138410000}

MCBootCommand == Cmd("shell", "")
=============================================================================
