------------------------------ MODULE Userland ------------------------------
(***************************************************************************)
(* The user programs of src/syscalls on top of the kernel of Syscalls: the *)
(* shell, cat, ls, grep, hello, testprint, counter, syserr, pingpong and   *)
(* sigtest.                                                                *)
(*                                                                         *)
(* Syscalls lets a program make any call at any time; here a program makes *)
(* the calls its main makes, one step each, and branches on what they      *)
(* return.  Messages that no branch and no property depends on are left    *)
(* out: fdputs writes to the terminal, which changes nothing.  main's      *)
(* return value goes to halt (ece391syscall.S).                            *)
(***************************************************************************)
EXTENDS Syscalls, Sequences, SequencesExt

CONSTANTS
  BUFSIZE,     \* the buffer of cat, grep, hello and the shell (1024)
  SBUFSIZE,    \* the name buffer of ls and grep (33)
  Lines,       \* command lines that may be typed at the prompt
  Text,        \* the characters of each file, by inode
  Pattern,     \* the characters of each argument
  Dotted,      \* the file names that start with a dot
  CounterMax,  \* numbers counter prints (100, 10000 or 100000)
  NL, NULchar, Junk  \* newline, NUL and what else the stack may hold

Programs == {"shell", "cat", "ls", "grep", "hello", "testprint", "counter",
             "syserr", "pingpong", "sigtest"}

ASSUME UserlandAssumption ==
  \* A buffer holds a name and an argument with their terminators
  /\ BUFSIZE \in Nat /\ SBUFSIZE = FILENAME_LEN + 1
  /\ FILENAME_LEN < BUFSIZE /\ BUFSIZE < UINT_MOD
  /\ \A a \in Args : ArgLen[a] < BUFSIZE
  /\ CounterMax \in Nat
  \* The programs pass addresses of their own page, which lies above the
  \* kernel's, and no file leads outside the data blocks
  /\ \A buf \in Buffers : buf >= KERNEL_END
  /\ \A i \in 0..inode_count - 1 : \A k \in 0..(inodes[i].length \div NUM_B_IN_FOUR_KB) :
        inodes[i].data_block_num[k] >= 0
  /\ Lines \subseteq Command /\ NULL \notin Lines
  /\ Args \subseteq Names /\ Dotted \subseteq Names
  /\ \A i \in 0..inode_count - 1 : Len(Text[i]) = flength(i)
  /\ DOMAIN Pattern = Args /\ \A a \in Args \ {NoArg} : Len(Pattern[a]) \in Nat \ {0}
  /\ NL # NULchar
  \* What the programs and the boot loop expect of the image: the executables
  \* are these programs, the one directory is called ".", the RTC's file "rtc"
  /\ BootCommand.name = "shell" /\ BootCommand # NULL
  /\ \A c \in Lines : ~Refused(c) /\ Loads(c) => c.name \in Programs
  /\ {".", "rtc", "helloo", "shel"} \subseteq Names
  /\ NameLen["."] < FILENAME_LEN
  /\ read_dentry_by_name(".").filetype = FILE_TYPE_DIR
  /\ \A n \in Names \ Dotted : read_dentry_by_name(n).filetype # FILE_TYPE_DIR
  /\ read_dentry_by_name("rtc").filetype \in {FILE_TYPE_RTC, NoDentry.filetype}
  /\ \A n \in {"helloo", "shel"} : read_dentry_by_name(n) = NoDentry
  \* syserr counts on eight descriptors
  /\ NUM_MAX_OPEN_FILES = 8

VARIABLE
  prog  \* where each process is in its program, and its local variables

uvars == <<vars, prog>>

none == [prog |-> "none", pc |-> "none"]

\* A program at the start of its main
Start(name) ==
  CASE name = "shell"     -> [prog |-> name, pc |-> "prompt", line |-> NULL]
    [] name = "cat"       -> [prog |-> name, pc |-> "args", arg |-> NoArg, fd |-> 0,
                              cnt |-> 0, shown |-> 0]
    [] name = "ls"        -> [prog |-> name, pc |-> "open", fd |-> 0, cnt |-> 0, shown |-> 0]
    [] name = "grep"      -> [prog |-> name, pc |-> "args", search |-> NoArg, dirfd |-> 0,
                              fname |-> EmptyName, fd |-> 0, last |-> 0, cnt |-> 0,
                              line_start |-> 0, junk |-> NL, data |-> <<>>, printed |-> <<>>]
    [] name = "hello"     -> [prog |-> name, pc |-> "read"]
    [] name = "testprint" -> [prog |-> name, pc |-> "write"]
    [] name = "counter"   -> [prog |-> name, pc |-> "read", i |-> 0]
    [] name = "syserr"    -> [prog |-> name, pc |-> "read", todo |-> <<>>, vals |-> <<>>,
                              fail |-> 0]
    [] name = "pingpong"  -> [prog |-> name, pc |-> "open", fd |-> 0]
    [] name = "sigtest"   -> [prog |-> name, pc |-> "args"]

UInit == Init /\ prog = [a \in PcbAddrs |-> none]

me == prog[cpu]
At(name, pc) == Running /\ me.prog = name /\ me.pc = pc
Become(frame) == prog' = [prog EXCEPT ![cpu] = frame]
Goto(pc) == Become([me EXCEPT !.pc = pc])

\* main returns status
Exit(status) == [prog |-> me.prog, pc |-> "exit", status |-> status, was |-> me]

Ends ==
  /\ Running /\ me.pc = "exit"
  /\ Halt(me.status)
  /\ Become(none)

----------------------------------------------------------------------------
(* ece391shell.c *)

ShellRead ==
  /\ At("shell", "prompt")
  /\ Read(0, BUFSIZE - 1)
  /\ Become(IF ret'.val = -1 THEN Exit(3) ELSE [me EXCEPT !.pc = "line"])

\* The user has typed "exit", nothing, or a command
ShellLine ==
  /\ At("shell", "line")
  /\ \/ Become(Exit(0))
     \/ Become(Start("shell"))
     \/ \E line \in Lines : Become([me EXCEPT !.pc = "run", !.line = line])
  /\ UNCHANGED vars

\* A process that was started runs its own main
Launch(frames, name) ==
  prog' = IF cpu' = cpu THEN frames ELSE [frames EXCEPT ![cpu'] = Start(name)]

ShellRun ==
  /\ At("shell", "run")
  /\ Execute(me.line)
  /\ Launch([prog EXCEPT ![cpu].pc = "wait"], me.line.name)

\* execute has returned; the message it chooses is left out
ShellResume ==
  /\ At("shell", "wait")
  /\ Become(Start("shell"))
  /\ UNCHANGED vars

UBootLoop == BootLoop /\ Launch(prog, boot_command.name)

----------------------------------------------------------------------------
(* ece391cat.c *)

CatArgs ==
  /\ At("cat", "args")
  /\ Getargs(BUFSIZE)
  /\ Become(IF ret'.val # 0 THEN Exit(3)
            ELSE [me EXCEPT !.pc = "open", !.arg = pcb[getCurrentProcessPCB].arg])

CatOpen ==
  /\ At("cat", "open")
  /\ Open(me.arg)
  /\ Become(IF ret'.val = -1 THEN Exit(2) ELSE [me EXCEPT !.pc = "read", !.fd = ret'.val])

\* Mutant: a read that fills less than the buffer is taken for the last one
CatRead_short ==
  /\ At("cat", "read")
  /\ Read(me.fd, BUFSIZE)
  /\ Become(CASE ret'.val = -1 -> Exit(3)
              [] ret'.val \in 0..BUFSIZE - 1 -> Exit(0)
              [] OTHER -> [me EXCEPT !.pc = "write", !.cnt = ret'.val])

CatRead ==
  /\ At("cat", "read")
  /\ Read(me.fd, BUFSIZE)
  /\ Become(CASE ret'.val = 0  -> Exit(0)
              [] ret'.val = -1 -> Exit(3)
              [] OTHER -> [me EXCEPT !.pc = "write", !.cnt = ret'.val])

CatWrite ==
  /\ At("cat", "write")
  /\ Write(1, me.cnt)
  /\ Become(IF ret'.val = -1 THEN Exit(3)
            ELSE [me EXCEPT !.pc = "read", !.shown = me.shown + me.cnt])

----------------------------------------------------------------------------
(* ece391ls.c *)

LsOpen ==
  /\ At("ls", "open")
  /\ Open(".")
  /\ Become(IF ret'.val = -1 THEN Exit(2) ELSE [me EXCEPT !.pc = "read", !.fd = ret'.val])

\* Mutant: a buffer of 32 bytes
LsRead_small ==
  /\ At("ls", "read")
  /\ Read(me.fd, SBUFSIZE - 2)
  /\ Become(CASE ret'.val = 0  -> Exit(0)
              [] ret'.val = -1 -> Exit(3)
              [] OTHER -> [me EXCEPT !.pc = "write", !.cnt = ret'.val])

LsRead ==
  /\ At("ls", "read")
  /\ Read(me.fd, SBUFSIZE - 1)
  /\ Become(CASE ret'.val = 0  -> Exit(0)
              [] ret'.val = -1 -> Exit(3)
              [] OTHER -> [me EXCEPT !.pc = "write", !.cnt = ret'.val])

LsWrite ==
  /\ At("ls", "write")
  /\ Write(1, me.cnt + 1)
  /\ Become(IF ret'.val = -1 THEN Exit(3) ELSE [me EXCEPT !.pc = "read", !.shown = me.shown + 1])

----------------------------------------------------------------------------
(* ece391grep.c *)

GrepArgs ==
  /\ At("grep", "args")
  /\ Getargs(BUFSIZE)
  /\ Become(IF ret'.val # 0 THEN Exit(3)
            ELSE [me EXCEPT !.pc = "opendir", !.search = pcb[getCurrentProcessPCB].arg])

GrepOpendir ==
  /\ At("grep", "opendir")
  /\ Open(".")
  /\ Become(IF ret'.val = -1 THEN Exit(2) ELSE [me EXCEPT !.pc = "readdir", !.dirfd = ret'.val])

\* The next name of the directory, which do_one_file is called with
GrepReaddir ==
  LET fname == direntries[file_array[me.dirfd].file_position].filename
  IN  /\ At("grep", "readdir")
      /\ Read(me.dirfd, SBUFSIZE - 1)
      /\ Become(CASE ret'.val = 0  -> Exit(0)
                  [] ret'.val = -1 -> Exit(3)
                  [] ret'.val > 0 /\ fname \in Dotted -> me
                  [] OTHER -> [me EXCEPT !.pc = "open", !.fname = fname])

\* data is on the stack, which holds anything
GrepOpen ==
  /\ At("grep", "open")
  /\ Open(me.fname)
  /\ \E junk \in {NL, NULchar, Junk} :
        Become(IF ret'.val = -1 THEN Exit(3)
               ELSE [me EXCEPT !.pc = "read", !.fd = ret'.val, !.junk = junk,
                               !.data = [k \in 0..BUFSIZE |-> junk]])

\* The bytes go behind what is left of the last line
GrepRead ==
  LET f == file_array[me.fd]
  IN  /\ At("grep", "read")
      /\ Read(me.fd, BUFSIZE - me.last)
      /\ Become(IF ret'.val = -1 THEN Exit(3)
                ELSE [me EXCEPT !.pc = "line", !.cnt = ret'.val, !.line_start = 0,
                                !.last = me.last + ret'.val,
                                !.data = [k \in 0..BUFSIZE |->
                                  IF k \in me.last..me.last + ret'.val - 1
                                  THEN Text[f.inode_num][f.file_position + k - me.last + 1]
                                  ELSE me.data[k]]])

\* The first place from k on that is at or beyond end or holds c
Seek(data, k, end, c) ==
  CHOOSE j \in k..BUFSIZE : /\ j >= end \/ data[j] = c
                            /\ \A i \in k..j - 1 : i < end /\ data[i] # c

\* Mutant: the rest of the buffer is searched before the line is complete
Partial_searched(line_end) == FALSE

\* The buffer ends inside a line that does not fill it
Partial(line_end) == me.data[line_end] # NL /\ me.cnt # 0 /\ me.line_start # 0

\* The string at k of data
From(data, k) == SubSeq([j \in 1..BUFSIZE + 1 |-> data[j - 1]], k + 1,
                        Seek(data, k, BUFSIZE, NULchar))

\* strcpy brings what is left of the line to the front
KeepRest(line_end) ==
  LET ended == [me.data EXCEPT ![line_end] = NULchar]
      rest  == Append(From(ended, me.line_start), NULchar)
  IN  Become([me EXCEPT !.pc = "read", !.last = me.last - me.line_start,
                        !.data = [k \in 0..BUFSIZE |->
                                    IF k < Len(rest) THEN rest[k + 1] ELSE ended[k]]])

Occurs(pattern, s) ==
  \E k \in 0..Len(s) - Len(pattern) : SubSeq(s, k + 1, k + Len(pattern)) = pattern

\* Mutant: the end of the file is not noticed
AfterBuffer_reads == "read"

\* Where grep goes when it has searched the buffer
AfterBuffer == IF me.cnt = 0 THEN "close" ELSE "read"

\* A line is complete: it is printed if the pattern occurs in it
SearchLine(line_end) ==
  LET ended == [me.data EXCEPT ![line_end] = NULchar]
      line  == [k \in 1..line_end - me.line_start |-> ended[me.line_start + k - 1]]
      more  == line_end + 1 < me.last
  IN  Become([me EXCEPT
                !.data = ended,
                !.printed = IF Occurs(Pattern[me.search], line)
                            THEN Append(me.printed, From(ended, me.line_start)) ELSE me.printed,
                !.line_start = line_end + 1,
                !.last = IF more THEN me.last ELSE 0,
                !.pc = IF more THEN "line" ELSE AfterBuffer])

\* One turn of the loop over the lines in the buffer
GrepLine ==
  /\ At("grep", "line")
  /\ LET line_end == Seek(me.data, me.line_start, me.last, NL)
     IN  IF Partial(line_end) THEN KeepRest(line_end) ELSE SearchLine(line_end)
  /\ UNCHANGED vars

GrepClose ==
  /\ At("grep", "close")
  /\ Close(me.fd)
  /\ Become(IF ret'.val = -1 THEN Exit(3)
            ELSE [Start("grep") EXCEPT !.pc = "readdir", !.search = me.search,
                                       !.dirfd = me.dirfd])

----------------------------------------------------------------------------
(* ece391hello.c, ece391testprint.c, ece391counter.c *)

HelloRead ==
  /\ At("hello", "read")
  /\ Read(0, BUFSIZE - 1)
  /\ Become(Exit(IF ret'.val = -1 THEN 3 ELSE 0))

TestprintWrite ==
  /\ At("testprint", "write")
  /\ Write(1, BUFSIZE)
  /\ Become(Exit(0))

\* The choice sets how many numbers follow; a wrong one, none
CounterRead ==
  /\ At("counter", "read")
  /\ Read(0, BUFSIZE - 1)
  /\ \E max \in {0, CounterMax} :
        Become(IF ret'.val = -1 THEN Exit(3)
               ELSE [me EXCEPT !.pc = "count", !.i = CounterMax - max])

CounterWrite ==
  /\ At("counter", "count")
  /\ IF me.i < CounterMax
     THEN Write(1, BUFSIZE) /\ Become([me EXCEPT !.i = me.i + 1])
     ELSE Become(Exit(0)) /\ UNCHANGED vars

----------------------------------------------------------------------------
(* ece391syserr.c *)

NEG_FD == -1073741823
BIG_FD == 1073741823

\* A call of a test, with its descriptor or the name it opens
OnFd(call, fd) == [call |-> call, fd |-> fd]
OpenOf(name)   == [call |-> "open", name |-> name]
Plain(call)    == [call |-> call]

err_neg_fd      == <<OnFd("read", NEG_FD), OnFd("write", NEG_FD), OnFd("close", NEG_FD)>>
err_big_fd      == <<OnFd("read", BIG_FD), OnFd("write", BIG_FD), OnFd("close", BIG_FD)>>
err_open_lots   == [i \in 1..7 |-> OpenOf(".")] \o [i \in 1..6 |-> OnFd("close", i + 1)]
err_open        == <<OpenOf("helloo"), OpenOf("shel"), OpenOf(EmptyName)>>
err_unopened    == [i \in 1..8 |-> OnFd("close", i - 1)]
                   \o [i \in 1..6 |-> OnFd("read", i + 1)]
                   \o [i \in 1..6 |-> OnFd("write", i + 1)]
err_vidmap      == <<Plain("vidmap"), Plain("vidmap")>>
err_stdin_out   == <<OnFd("write", 0), OnFd("read", 1)>>
err_syscall_num == <<Plain("invalid"), Plain("invalid"), Plain("invalid")>>

Tests == <<err_neg_fd, err_big_fd, err_open_lots, err_open, err_unopened, err_vidmap,
           err_stdin_out, err_syscall_num>>

\* Test 3 wants one of the seven opens to fail, the others want every call to
Passes(t, vals) ==
  IF t = 3 THEN Cardinality({i \in 1..7 : vals[i] = -1}) = 1
           ELSE \A i \in DOMAIN vals : vals[i] = -1

\* The user chooses a test, all of them, or what is not a test
SyserrRead ==
  /\ At("syserr", "read")
  /\ Read(0, 127)
  /\ \E todo \in {<<t>> : t \in DOMAIN Tests} \union {<<1, 2, 3, 4, 5, 6, 7, 8>>, <<>>} :
        Become(IF ret'.val = -1 THEN Exit(2) ELSE [me EXCEPT !.pc = "test", !.todo = todo])

\* One call of the first test that is left
SyserrCall(c) ==
  \/ c.call = "read" /\ Read(c.fd, 31)
  \/ c.call = "write" /\ Write(c.fd, 31)
  \/ c.call = "close" /\ Close(c.fd)
  \/ c.call = "open" /\ Open(c.name)
  \/ c.call = "vidmap" /\ Vidmap(FALSE)
  \/ c.call = "invalid" /\ Invalid

SyserrStep ==
  /\ At("syserr", "test") /\ me.todo # <<>>
  /\ LET test == Tests[Head(me.todo)]
     IN  IF Len(me.vals) < Len(test)
         THEN /\ SyserrCall(test[Len(me.vals) + 1])
              /\ Become([me EXCEPT !.vals = Append(me.vals, ret'.val)])
         ELSE /\ Become([me EXCEPT !.todo = Tail(me.todo), !.vals = <<>>,
                                   !.fail = me.fail + IF Passes(Head(me.todo), me.vals)
                                                      THEN 0 ELSE 2])
              /\ UNCHANGED vars

SyserrEnd ==
  /\ At("syserr", "test") /\ me.todo = <<>>
  /\ Become(Exit(me.fail))
  /\ UNCHANGED vars

----------------------------------------------------------------------------
(* ece391pingpong.c, ece391sigtest.c *)

PingpongOpen ==
  /\ At("pingpong", "open")
  /\ Open("rtc")
  /\ Become([me EXCEPT !.pc = "rate", !.fd = ret'.val])

\* What write returns is not looked at
PingpongRate == At("pingpong", "rate") /\ Write(me.fd, 4) /\ Goto("draw")

\* The next picture, then the wait for a tick, for ever
PingpongDraw == At("pingpong", "draw") /\ Write(1, BUFSIZE) /\ Goto("tick")
PingpongTick == At("pingpong", "tick") /\ Read(me.fd, 4) /\ Goto("draw")

SigtestArgs ==
  /\ At("sigtest", "args")
  /\ Getargs(BUFSIZE)
  /\ Become(IF ret'.val # 0 THEN Exit(3)
            ELSE [me EXCEPT !.pc = IF Head(Pattern[pcb[getCurrentProcessPCB].arg]) = "1"
                                   THEN "segv" ELSE "read"])

\* Both handlers are refused; what set_handler returns is not looked at
SigtestHandler ==
  /\ At("sigtest", "segv") \/ At("sigtest", "alarm")
  /\ Invalid
  /\ Goto(IF me.pc = "segv" THEN "alarm" ELSE "read")

SigtestRead ==
  /\ At("sigtest", "read")
  /\ Read(0, BUFSIZE - 1)
  /\ Become(IF ret'.val = -1 THEN Exit(3) ELSE [me EXCEPT !.pc = "fault"])

\* *badbuf = 1, badbuf being NULL
SigtestFault == At("sigtest", "fault") /\ Exception /\ UNCHANGED prog

----------------------------------------------------------------------------

ProgramStep ==
  \/ ShellRead \/ ShellLine \/ ShellRun \/ ShellResume
  \/ CatArgs \/ CatOpen \/ CatRead \/ CatWrite
  \/ LsOpen \/ LsRead \/ LsWrite
  \/ GrepArgs \/ GrepOpendir \/ GrepReaddir \/ GrepOpen \/ GrepRead \/ GrepLine \/ GrepClose
  \/ HelloRead \/ TestprintWrite \/ CounterRead \/ CounterWrite
  \/ SyserrRead \/ SyserrStep \/ SyserrEnd
  \/ PingpongOpen \/ PingpongRate \/ PingpongDraw \/ PingpongTick
  \/ SigtestArgs \/ SigtestHandler \/ SigtestRead \/ SigtestFault
  \/ Ends

UStopped == Stopped /\ UNCHANGED prog

UNext == UBootLoop \/ ProgramStep \/ UStopped

\* The processor goes on with the program that has it, and the user ends the
\* line a program waits for: WF_uvars(UBootLoop \/ ProgramStep) written out,
\* these steps being enabled just as long as the machine is up
Progress == []<>(machine # "up") \/ []<><<UBootLoop \/ ProgramStep>>_uvars

USpec == UInit /\ [][UNext]_uvars /\ Progress

----------------------------------------------------------------------------
(* Properties *)

Exited(a, name) == prog[a].prog = name /\ prog[a].pc = "exit"

\* syserr, the repository's own test of the system calls, passes every test,
\* alone or all in a row, whatever ran before it and however deep the shells
\* are nested.
SyserrPasses == \A a \in PcbAddrs : Exited(a, "syserr") => prog[a].status = 0

\* The command line that the shell which waits for process a was given
LineOf(a) == prog[CHOOSE b \in Blocks : waiting[b] = a].line

\* Every byte of the file lies in a block that exists
Readable(inode) ==
  /\ inode < inode_count
  /\ \A k \in 0..flength(inode) - 1 :
        inodes[inode].data_block_num[k \div NUM_B_IN_FOUR_KB] < data_count

\* cat shows the file that was named at the prompt from its first to its last
\* byte and ends with 0; it ends with 2 just when there is no such file, and
\* with 3 without an argument, for the RTC and for a file with a missing block.
CatShowsAll ==
  \A a \in PcbAddrs : Exited(a, "cat") =>
     LET arg    == LineOf(a).arg
         dentry == read_dentry_by_name(arg)
     IN  /\ prog[a].status = 2 <=>
              arg # NoArg /\ (dentry.filetype = NoDentry.filetype \/ NameLen[arg] >= FILENAME_LEN)
         /\ arg = NoArg \/ (prog[a].status # 2 /\ dentry.filetype = FILE_TYPE_RTC) =>
              prog[a].status = 3
         /\ prog[a].status # 2 /\ arg # NoArg /\ dentry.filetype = FILE_TYPE_FILE =>
              IF Readable(dentry.inode_num)
              THEN prog[a].status = 0 /\ prog[a].was.shown = flength(dentry.inode_num)
              ELSE prog[a].status = 3

\* ls shows every entry of the directory up to the first unused one and ends
\* with 0; in a full directory it shows all of them and ends with 3.
LsListsAll ==
  \A a \in PcbAddrs : Exited(a, "ls") =>
     LET used == {i \in 0..NUM_FILES - 1 : \A j \in 0..i : NameLen[direntries[j].filename] > 0}
     IN  /\ prog[a].was.shown = Cardinality(used)
         /\ prog[a].status = IF Cardinality(used) = NUM_FILES THEN 3 ELSE 0

\* The two programs that show what they read, a file and the directory, show
\* all of it and end with the status that tells whether they could.
ShowsAll == CatShowsAll /\ LsListsAll

\* The lines of a text start at its beginning and behind each newline
Starts(text) == {0} \union {i \in 1..Len(text) : text[i] = NL}

\* The line behind start, up to the next newline or the end
LineAt(text, start) ==
  LET ends == {i \in start + 1..Len(text) + 1 : i <= Len(text) => text[i] = NL}
      end  == CHOOSE i \in ends : \A j \in ends : i <= j
  IN  [k \in 1..end - start - 1 |-> text[start + k]]

\* The starts of the lines that contain the pattern
Matching(text, pattern) == {start \in Starts(text) : Occurs(pattern, LineAt(text, start))}

\* grep prints, of a text whose lines fit its buffer, exactly the lines that
\* contain the pattern, once each and in order, wherever the reads cut the
\* file; unless the byte of the stack behind its buffer happens to be a
\* newline, which it takes for the end of the line it is reading.
GrepFinds ==
  \A a \in PcbAddrs : prog[a].prog = "grep" /\ prog[a].pc = "close" =>
     LET text    == Text[read_dentry_by_name(prog[a].fname).inode_num]
         found   == Matching(text, Pattern[prog[a].search])
         printed == prog[a].printed
     IN  /\ prog[a].junk # NL
         /\ \A start \in Starts(text) : Len(LineAt(text, start)) <= BUFSIZE
         /\ \A i \in 1..Len(text) : text[i] # NULchar
         => /\ Len(printed) = Cardinality(found)
            /\ \A start \in found :
                 printed[Cardinality({s \in found : s <= start})] = LineAt(text, start)

\* The kernel stores past the count a program passes when it adds a terminator
\* (getline, directory_read, getargs), but never past the program's buffer:
\* the programs that read lines or a name at a time pass one less than they
\* have, cat's buffer has room for any name, and pingpong's read is refused.
BuffersSuffice ==
  [][ret' # ret /\ cpu \in PcbAddrs =>
       ret'.over <= IF me.prog = "cat" \/ ret'.call = "getargs" THEN 0 ELSE 1]_uvars

\* No program but sigtest, which writes through a null pointer, brings the
\* machine down, and none makes a system call hang.
OnlySigtestFaults ==
  machine # "up" => machine = "panic" /\ prog[cpu].prog = "sigtest"

\* The shell that started a command gets its prompt back: every program but
\* pingpong, sigtest and a further shell comes to an end and returns to it.
PromptReturns ==
  \A a \in PcbAddrs :
    prog[a].prog = "shell" /\ prog[a].pc = "wait"
      /\ prog[a].line.name \notin {"shell", "pingpong", "sigtest"}
    ~> cpu = a /\ prog[a].prog = "shell" /\ prog[a].pc = "prompt"
=============================================================================
