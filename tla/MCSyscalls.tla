----------------------------- MODULE MCSyscalls -----------------------------
(***************************************************************************)
(* Instances of Syscalls for TLC.  The image holds a program, a program    *)
(* with a missing second block, a text file, the directory, the RTC, a     *)
(* directory entry of unknown type and unused entries; blocks are 4 bytes. *)
(***************************************************************************)
EXTENDS Syscalls

MCNames == {"", ".", "rtc", "shell", "broken", "frame0.txt", "odd", "missing",
            "verylargetextwithverylongname.txt", "verylargetextwithverylongname.tx"}

MCNameLen == [n \in MCNames |->
  CASE n = "" -> 0
    [] n = "." -> 1
    [] n \in {"rtc", "odd"} -> 3
    [] n = "shell" -> 5
    [] n = "broken" -> 6
    [] n = "missing" -> 7
    [] n = "frame0.txt" -> 10
    [] n = "verylargetextwithverylongname.tx" -> 32
    [] OTHER -> 33]

MCTrunc == [n \in MCNames |->
  IF n = "verylargetextwithverylongname.txt"
  THEN "verylargetextwithverylongname.tx" ELSE n]

Entry(name, type, inode) ==
  [filename |-> name, filetype |-> type, inode_num |-> inode]

MCdirentries == [i \in 0..7 |->
  CASE i = 0 -> Entry(".", FILE_TYPE_DIR, 0)
    [] i = 1 -> Entry("rtc", FILE_TYPE_RTC, 0)
    [] i = 2 -> Entry("shell", FILE_TYPE_FILE, 0)
    [] i = 3 -> Entry("broken", FILE_TYPE_FILE, 1)
    [] i = 4 -> Entry("frame0.txt", FILE_TYPE_FILE, 2)
    [] i = 5 -> Entry("verylargetextwithverylongname.tx", FILE_TYPE_FILE, 2)
    [] i = 6 -> Entry("odd", 3, 0)
    [] OTHER -> Entry("", FILE_TYPE_RTC, 0)]

MCinodes == [i \in 0..2 |->
  CASE i = 0 -> [length |-> 6, data_block_num |-> [k \in 0..1 |-> k]]
    [] i = 1 -> [length |-> 6, data_block_num |-> [k \in 0..1 |-> IF k = 0 THEN 2 ELSE 9]]
    [] OTHER -> [length |-> 5, data_block_num |-> [k \in 0..1 |-> 3 + k]]]

MCArgs == {"", "1 2"}
MCArgLen == [a \in MCArgs |-> IF a = "" THEN 0 ELSE 3]

Cmd(name, spaced, arg) == [name |-> name, spaced |-> spaced, arg |-> arg]

MCBootCommand == Cmd("shell", TRUE, "1 2")

\* Every way execute can end, with and without text after the first token
MCCommands == {Cmd("", FALSE, ""), Cmd("shell", TRUE, "1 2"),
               Cmd("broken", FALSE, ""), Cmd("missing", TRUE, "1 2")}

\* A program that runs alone: the other reasons to refuse a command
FilesCommands == {Cmd("missing", FALSE, ""), Cmd(".", FALSE, ""), Cmd("frame0.txt", FALSE, ""),
                  Cmd("verylargetextwithverylongname.tx", FALSE, "")}

\* Where a program has its buffers, on its stack, and the kernel has a PCB
OwnBuffers  == {138410000}
MCBuffers   == OwnBuffers \union {PcbAddr(0)}
MCGarbage   == {unset}

MCCounts == {5}
FilesCounts == {-1, 0, 2, 5}

----------------------------------------------------------------------------
(* What comments, tests and programs of the repository say *)

\* filesys.c:65, above the lines that mark a slot occupied: "regardless of
\* file".  A descriptor that open has returned is occupied.
OpenReserves ==
  ret.call = "open" /\ ret.val >= 0 =>
     pcb[cpu].file_array[ret.val].flags = FILE_OCCUP

\* syscalls.c:169, get_next_process_number: "SIDE EFFECTS: none, just loops
\* through the array".  An execute that fails leaves pid_array as it was.
FailureKeepsPids ==
  [][ret'.call = "execute" /\ ret'.val = -1 /\ cpu' = cpu => pid_array' = pid_array]_vars
=============================================================================
