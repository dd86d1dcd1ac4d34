--------------------------- MODULE UserlandProof ---------------------------
(***************************************************************************)
(* What the user programs do on top of the kernel, for every image, every  *)
(* set of command lines and every size of the buffers that the assumptions *)
(* of Userland allow.                                                      *)
(*                                                                         *)
(* The invariant UInv adds to the kernel's own (IInv and Usable) what each *)
(* program knows of its descriptors at each of its steps.  The kernel's    *)
(* lemmas say what a call does to the descriptors; what is left of a step  *)
(* is a fact about one frame.                                              *)
(***************************************************************************)
EXTENDS Userland, SyscallsProof, FiniteSetTheorems

----------------------------------------------------------------------------
(* The frames of the programs.  p is where a program is and its local       *)
(* variables, fa its descriptors and arg the argument it was started with.  *)

ShellFrame(p) ==
  /\ p \in [prog : {"shell"}, pc : {"prompt", "line", "run", "wait"}, line : Lines \union {NULL}]
  /\ p.pc = "run" => p.line \in Lines

FileTypes == {FILE_TYPE_RTC, FILE_TYPE_DIR, FILE_TYPE_FILE}

\* The block of byte k of the file exists
Exists(inode, k) == inodes[inode].data_block_num[k \div NUM_B_IN_FOUR_KB] < data_count

\* Every byte of the file before pos lies in such a block
Covered(inode, pos) ==
  /\ pos <= flength(inode)
  /\ \A k \in 0..pos - 1 : Exists(inode, k)

\* The file that cat reads: what it has shown, and read but not shown, is
\* what lies before the position
CatFile(p, f, dentry) ==
  LET pos == p.shown + (IF p.pc = "write" THEN p.cnt ELSE 0)
  IN  /\ f.flags = FILE_OCCUP
      /\ f.file_ops_table_ptr = "file"
      /\ f.inode_num = dentry.inode_num
      /\ f.file_position = pos
      /\ dentry.inode_num < inode_count => Covered(dentry.inode_num, pos)
      /\ pos > 0 => dentry.inode_num < inode_count

CatFrame(p, fa, arg) ==
  /\ p \in [prog : {"cat"}, pc : {"args", "open", "read", "write"}, arg : Args, fd : Int,
            cnt : Int, shown : Int]
  /\ fa[1] = stdio
  /\ p.pc \in {"args", "open"} => fa = init_file_array /\ p.shown = 0
  /\ p.pc # "args" => p.arg = arg /\ arg # NoArg
  /\ p.pc \in {"read", "write"} =>
       LET dentry == read_dentry_by_name(arg)
       IN  /\ NameLen[arg] < FILENAME_LEN
           /\ dentry.filetype \in FileTypes
           /\ p.fd \in Fds /\ p.fd >= 2
           /\ dentry.filetype = FILE_TYPE_RTC => fa[p.fd].flags = FILE_AVAIL /\ p.pc = "read"
           /\ dentry.filetype = FILE_TYPE_FILE => CatFile(p, fa[p.fd], dentry)

\* What CatShowsAll says of a cat that ended with status after it was given arg
CatResult(status, shown, arg) ==
  LET dentry == read_dentry_by_name(arg)
  IN  /\ status = 2 <=>
           arg # NoArg /\ (dentry.filetype = NoDentry.filetype \/ NameLen[arg] >= FILENAME_LEN)
      /\ arg = NoArg \/ (status # 2 /\ dentry.filetype = FILE_TYPE_RTC) => status = 3
      /\ status # 2 /\ arg # NoArg /\ dentry.filetype = FILE_TYPE_FILE =>
           IF Readable(dentry.inode_num)
           THEN status = 0 /\ shown = flength(dentry.inode_num)
           ELSE status = 3

\* The entries before n are all in use
UsedBefore(n) == n <= NUM_FILES /\ \A j \in 0..n - 1 : NameLen[direntries[j].filename] > 0

LsFrame(p, fa) ==
  /\ p \in [prog : {"ls"}, pc : {"open", "read", "write"}, fd : Int, cnt : Int, shown : Nat]
  /\ fa[1] = stdio
  /\ p.pc = "open" => fa = init_file_array /\ p.shown = 0
  /\ p.pc \in {"read", "write"} =>
       LET pos == p.shown + (IF p.pc = "write" THEN 1 ELSE 0)
       IN  /\ p.fd \in Fds /\ p.fd >= 2
           /\ fa[p.fd].flags = FILE_OCCUP
           /\ fa[p.fd].file_ops_table_ptr = "directory"
           /\ fa[p.fd].file_position = pos
           /\ UsedBefore(pos)

\* What LsListsAll says of an ls that ended
LsResult(status, shown) ==
  LET used == {i \in 0..NUM_FILES - 1 : \A j \in 0..i : NameLen[direntries[j].filename] > 0}
  IN  /\ shown = Cardinality(used)
      /\ status = IF Cardinality(used) = NUM_FILES THEN 3 ELSE 0

GrepFields == {"prog", "pc", "search", "dirfd", "fname", "fd", "last", "cnt", "line_start",
               "junk", "data", "printed"}

\* grep's descriptor is a file's, so a read stores no more than is asked for
GrepFrame(p, fa) ==
  /\ DOMAIN p = GrepFields
  /\ p.prog = "grep"
  /\ p.pc \in {"args", "opendir", "readdir", "open", "read", "line", "close"}
  /\ p.last \in 0..BUFSIZE /\ p.line_start \in Nat
  /\ p.pc \in {"args", "opendir"} => fa = init_file_array
  /\ p.pc \notin {"args", "opendir"} =>
       /\ p.dirfd \in Fds /\ p.dirfd >= 2
       /\ fa[p.dirfd].flags = FILE_OCCUP
       /\ fa[p.dirfd].file_ops_table_ptr = "directory"
  /\ p.pc = "open" => p.fname \in Names \ Dotted
  /\ p.pc \in {"read", "line", "close"} =>
       /\ p.fd \in Fds /\ p.fd >= 2
       /\ fa[p.fd].flags = FILE_OCCUP => fa[p.fd].file_ops_table_ptr = "file"
  /\ p.pc = "line" => p.line_start <= p.last

\* The directory as an open descriptor
dirslot == [file_ops_table_ptr |-> "directory", inode_num |-> read_dentry_by_name(".").inode_num,
            file_position |-> 0, flags |-> FILE_OCCUP]

\* The descriptors after k calls of err_open_lots: six opens that succeed, one
\* that finds no descriptor left, six closes
OpenAfter(k) == IF k <= 6 THEN 2..k + 1 ELSE k - 5..7
Opened(k) == [fd \in Fds |-> IF fd < 2 THEN stdio
                             ELSE IF fd \in OpenAfter(k) THEN dirslot ELSE blank]

SyserrFrame(p, fa) ==
  /\ p \in [prog : {"syserr"}, pc : {"read", "test"}, todo : Seq(1..8), vals : Seq(Int),
            fail : {0}]
  /\ p.pc = "read" => fa = init_file_array /\ p.vals = <<>>
  /\ p.pc = "test" =>
       IF p.todo # <<>> /\ Head(p.todo) = 3
       THEN /\ Len(p.vals) <= 13
            /\ fa = Opened(Len(p.vals))
            /\ \A i \in 1..7 : i \in DOMAIN p.vals => ((p.vals[i] = -1) <=> (i = 7))
       ELSE /\ fa = init_file_array
            /\ \A i \in DOMAIN p.vals : p.vals[i] = -1

PingpongFrame(p, fa) ==
  /\ p \in [prog : {"pingpong"}, pc : {"open", "rate", "draw", "tick"}, fd : Int]
  /\ p.pc = "open" => fa = init_file_array
  /\ p.pc # "open" /\ p.fd \in Fds => fa[p.fd].flags = FILE_AVAIL

\* The programs whose descriptors nothing depends on
SimpleFrame(p) ==
  \/ p = Start("hello")
  \/ p = Start("testprint")
  \/ p \in [prog : {"counter"}, pc : {"read", "count"}, i : Nat]
  \/ p \in [prog : {"sigtest"}, pc : {"args", "segv", "alarm", "read", "fault"}]

\* A program whose main has returned
ExitFrame(p, arg) ==
  /\ p.prog \in Programs
  /\ p.pc = "exit"
  /\ p.status \in Nat
  /\ p.prog = "cat" => CatResult(p.status, p.was.shown, arg)
  /\ p.prog = "ls" => LsResult(p.status, p.was.shown)
  /\ p.prog = "syserr" => p.status = 0

Frame(p, fa, arg) ==
  \/ ShellFrame(p)
  \/ CatFrame(p, fa, arg)
  \/ LsFrame(p, fa)
  \/ GrepFrame(p, fa)
  \/ SyserrFrame(p, fa)
  \/ PingpongFrame(p, fa)
  \/ SimpleFrame(p)
  \/ ExitFrame(p, arg)

----------------------------------------------------------------------------
(* The inductive invariant *)

Waits(p) == ShellFrame(p) /\ p.pc = "wait"

\* Only shells wait, each with the command line it gave the program it started
Callers ==
  /\ prog = [a \in PcbAddrs |-> prog[a]]
  /\ \A a \in PcbAddrs \ {cpu} :
        IF waiting[a] = NoBlock THEN prog[a] = none
        ELSE Waits(prog[a]) /\ prog[a].line.arg = pcb[waiting[a]].arg
  /\ boot_command.name = "shell" /\ boot_command # NULL
  /\ waiting[BootBlock] # NoBlock => prog[waiting[BootBlock]].prog = "shell"

UInv ==
  /\ IInv
  /\ Usable
  /\ OnlySigtestFaults
  /\ Callers
  /\ cpu # BootBlock => Frame(prog[cpu], pcb[cpu].file_array, pcb[cpu].arg)

----------------------------------------------------------------------------
(* What a call does to the kernel's state *)

\* The program that runs goes on running
Stays ==
  /\ IInv'
  /\ Usable'
  /\ UNCHANGED <<cpu, waiting, boot_command>>
  /\ \A a \in PcbAddrs : pcb'[a].arg = pcb[a].arg

\* A call on the descriptors has returned with outcome o
After(call, o) ==
  /\ ret' = [call |-> call, val |-> o.ret, over |-> o.over]
  /\ pcb'[cpu].file_array = o.fa

\* The programs pass no address with which a call stores over the kernel
LEMMA NeverOverwritten == ~Overwritten
BY UserlandAssumption, SyscallsAssumption DEF Overwritten, KERNEL_END

LEMMA CallsStayHere ==
  /\ \A fd, nbytes : Read(fd, nbytes) => cpu' = cpu
  /\ \A nbytes : Getargs(nbytes) => cpu' = cpu
<1>1. ASSUME NEW fd, NEW nbytes, Read(fd, nbytes) PROVE cpu' = cpu
  BY <1>1, ReadStores, NeverOverwritten DEF FileCall
<1>2. ASSUME NEW nbytes, Getargs(nbytes) PROVE cpu' = cpu
  BY <1>2, GetargsStores, NeverOverwritten
<1>. QED
  BY <1>1, <1>2

LEMMA FileCallStays ==
  ASSUME IInv, Usable, Running, NEW o \in Outcomes,
         NEW call \in {"open", "close", "read", "write"},
         CallOutcome(pcb[cpu].file_array, o), FileCall(call, o)
  PROVE  Stays /\ machine' = "up" /\ After(call, o)
<1>1. getCurrentProcessPCB = cpu /\ cpu \in PcbAddrs
  BY CurrentBlock DEF Running
<1>2. pcb' = [pcb EXCEPT ![cpu].file_array = o.fa] /\ machine' = o.machine
  BY <1>1 DEF FileCall
<1>3. UNCHANGED <<cpu, waiting, boot_command>>
  BY DEF FileCall
<1>4. \A a \in PcbAddrs : /\ pcb'[a].arg = pcb[a].arg
                          /\ pcb'[a].file_array = IF a = cpu THEN o.fa ELSE pcb[a].file_array
  BY <1>1, <1>2 DEF IInv, TypeOK, PCB
<1>5. IInv'
  BY FileCallIInv
<1>6. Live' = Live /\ cpu \in Live \ {BootBlock} /\ Live \ {BootBlock} \subseteq PcbAddrs
  BY <1>1, <1>3 DEF Live, Running, Blocks
<1>7. \A a \in Live \ {BootBlock} : UsableArray(pcb[a].file_array)
  BY UsableIsUsableArray DEF Running
<1>8. UsableArray(o.fa) /\ o.machine = "up"
  BY <1>6, <1>7, LiveArrayType, OutcomeUsable
<1>9. \A a \in Live' \ {BootBlock} : UsableArray(pcb'[a].file_array)
  BY <1>4, <1>6, <1>7, <1>8
<1>10. Usable'
  BY <1>2, <1>8, <1>9 DEF Usable, UsableArray, Ops
<1>11. After(call, o)
  BY <1>1, <1>4 DEF After, FileCall
<1>. QED
  BY <1>2, <1>3, <1>4, <1>5, <1>8, <1>10, <1>11 DEF Stays

\* The descriptors of the program that runs
LEMMA MyArray ==
  ASSUME IInv, Usable, Running
  PROVE  /\ cpu \in PcbAddrs
         /\ file_array = pcb[cpu].file_array
         /\ pcb[cpu].file_array \in [Fds -> Slot]
         /\ UsableArray(pcb[cpu].file_array)
<1>1. getCurrentProcessPCB = cpu /\ cpu \in PcbAddrs
  BY CurrentBlock DEF Running
<1>2. file_array = pcb[cpu].file_array
  BY <1>1 DEF file_array
<1>3. cpu \in Live \ {BootBlock}
  BY <1>1 DEF Live, Blocks, Running
<1>. QED
  BY <1>1, <1>2, <1>3, LiveArrayType, UsableIsUsableArray DEF Running

LEMMA OpenStays ==
  ASSUME IInv, Usable, NEW filename \in Names, Open(filename)
  PROVE  Stays /\ machine' = "up" /\ After("open", open(pcb[cpu].file_array, filename))
<1>1. Running /\ FileCall("open", open(pcb[cpu].file_array, filename))
  BY MyArray DEF Open
<1>2. open(pcb[cpu].file_array, filename) \in Outcomes
  BY <1>1, MyArray, OpenType
<1>3. CallOutcome(pcb[cpu].file_array, open(pcb[cpu].file_array, filename))
  BY DEF CallOutcome
<1>. QED
  BY <1>1, <1>2, <1>3, FileCallStays

LEMMA CloseStays ==
  ASSUME IInv, Usable, NEW fd \in Int, Close(fd)
  PROVE  Stays /\ machine' = "up" /\ After("close", close(pcb[cpu].file_array, fd))
<1>1. Running /\ FileCall("close", close(pcb[cpu].file_array, fd))
  BY MyArray DEF Close
<1>2. close(pcb[cpu].file_array, fd) \in Outcomes
  BY <1>1, MyArray, CloseType
<1>3. CallOutcome(pcb[cpu].file_array, close(pcb[cpu].file_array, fd))
  BY DEF CallOutcome
<1>. QED
  BY <1>1, <1>2, <1>3, FileCallStays

LEMMA ReadStays ==
  ASSUME IInv, Usable, NEW fd \in Int, NEW nbytes \in Int, Read(fd, nbytes)
  PROVE  /\ Stays /\ machine' = "up"
         /\ \E typed \in 0..MAX_INPUT_CHARS, ticked \in BOOLEAN :
               After("read", read(pcb[cpu].file_array, fd, nbytes, typed, ticked))
<1>1. Running
  BY DEF Read
<1>2. PICK typed \in 0..MAX_INPUT_CHARS, ticked \in BOOLEAN :
         FileCall("read", read(pcb[cpu].file_array, fd, nbytes, typed, ticked))
  BY <1>1, MyArray, ReadStores, NeverOverwritten
<1>3. read(pcb[cpu].file_array, fd, nbytes, typed, ticked) \in Outcomes
  BY <1>1, MyArray, ReadType
<1>4. CallOutcome(pcb[cpu].file_array, read(pcb[cpu].file_array, fd, nbytes, typed, ticked))
  BY DEF CallOutcome
<1>. QED
  BY <1>1, <1>2, <1>3, <1>4, FileCallStays

LEMMA WriteStays ==
  ASSUME IInv, Usable, NEW fd \in Int, NEW nbytes \in Int, Write(fd, nbytes)
  PROVE  /\ Stays /\ machine' = "up"
         /\ \E strlen \in 0..MAX_INPUT_CHARS :
               After("write", write(pcb[cpu].file_array, fd, nbytes, strlen))
<1>1. Running
  BY DEF Write
<1>2. PICK strlen \in 0..MAX_INPUT_CHARS :
         FileCall("write", write(pcb[cpu].file_array, fd, nbytes, strlen))
  BY <1>1, MyArray DEF Write
<1>3. write(pcb[cpu].file_array, fd, nbytes, strlen) \in Outcomes
  BY <1>1, MyArray, WriteType
<1>4. CallOutcome(pcb[cpu].file_array, write(pcb[cpu].file_array, fd, nbytes, strlen))
  BY DEF CallOutcome
<1>. QED
  BY <1>1, <1>2, <1>3, <1>4, FileCallStays

\* A step that leaves the kernel's state alone but for the returned value
LEMMA QuietStays ==
  ASSUME IInv, Usable, Running, UNCHANGED <<pid_array, curr_process, pcb, tss_esp0, user_page, last,
                                    boot_command, cpu, waiting, machine>>,
         vidmapped' \in BOOLEAN, ret' \in [call : CallNames, val : Int, over : Nat]
  PROVE  Stays /\ machine' = "up" /\ pcb' = pcb
<1>1. TypeOK'
  BY DEF IInv, TypeOK
<1>2. IInv'
  BY <1>1, StayIInv DEF Running
<1>3. Live' = Live
  BY DEF Live
<1>4. Usable'
  BY <1>3 DEF Usable, Running
<1>. QED
  BY <1>2, <1>4 DEF Stays, Running

LEMMA GetargsStays ==
  ASSUME IInv, Usable, NEW nbytes \in Int, Getargs(nbytes)
  PROVE  Stays /\ machine' = "up" /\ pcb' = pcb /\ ret' = getargs(pcb[cpu].arg, nbytes)
<1>1. Running /\ getCurrentProcessPCB = cpu
  BY CurrentBlock DEF Running, Getargs
<1>2. /\ ret' = getargs(pcb[cpu].arg, nbytes)
      /\ UNCHANGED <<kernelVars, cpu, waiting, machine>>
  BY <1>1, GetargsStores, NeverOverwritten
<1>3. ret' \in [call : CallNames, val : Int, over : Nat]
  BY <1>2 DEF getargs, Returned, CallNames
<1>4. vidmapped' \in BOOLEAN
  BY <1>2 DEF IInv, TypeOK, kernelVars
<1>. QED
  BY <1>1, <1>2, <1>3, <1>4, QuietStays DEF kernelVars

LEMMA VidmapStays ==
  ASSUME IInv, Usable, Vidmap(FALSE)
  PROVE  Stays /\ machine' = "up" /\ pcb' = pcb /\ ret' = Returned("vidmap", -1)
<1>1. ret' = Returned("vidmap", -1) /\ vidmapped' \in BOOLEAN
  BY DEF Vidmap
<1>2. ret' \in [call : CallNames, val : Int, over : Nat]
  BY <1>1 DEF Returned, CallNames
<1>. QED
  BY <1>1, <1>2, QuietStays DEF Vidmap

LEMMA InvalidStays ==
  ASSUME IInv, Usable, Invalid
  PROVE  Stays /\ machine' = "up" /\ pcb' = pcb /\ ret' = Returned("invalid", -1)
<1>1. ret' = Returned("invalid", -1)
  BY DEF Invalid
<1>2. ret' \in [call : CallNames, val : Int, over : Nat]
  BY <1>1 DEF Returned, CallNames
<1>3. vidmapped' \in BOOLEAN
  BY DEF IInv, TypeOK, Invalid, kernelVars
<1>. QED
  BY <1>1, <1>2, <1>3, QuietStays DEF Invalid, kernelVars

LEMMA NothingStays ==
  ASSUME IInv, Usable, Running, UNCHANGED vars
  PROVE  Stays /\ machine' = "up" /\ pcb' = pcb /\ ret' = ret
<1>1. vidmapped' \in BOOLEAN
  BY DEF IInv, TypeOK, vars, kernelVars
<1>2. ret' \in [call : CallNames, val : Int, over : Nat]
  BY DEF IInv, TypeOK, vars
<1>. QED
  BY <1>1, <1>2, QuietStays DEF vars, kernelVars

----------------------------------------------------------------------------
(* The kinds of steps.  What a step returns is bounded by BuffersSuffice.   *)

\* No more is stored past the count of a call than the program's buffer takes
Suffices ==
  ret' # ret => ret'.over <= IF me.prog = "cat" \/ ret'.call = "getargs" THEN 0 ELSE 1

LEMMA InitUInv == UInit => UInv
<1> SUFFICES ASSUME UInit PROVE UInv
  OBVIOUS
<1>1. Init /\ prog = [a \in PcbAddrs |-> none]
  BY DEF UInit
<1>2. IInv
  BY <1>1, InitIInv
<1>3. Usable
  BY <1>1 DEF Init, Usable, Live
<1>4. OnlySigtestFaults
  BY <1>1 DEF Init, OnlySigtestFaults
<1>5. cpu = BootBlock /\ waiting = [b \in Blocks |-> NoBlock] /\ boot_command = BootCommand
  BY <1>1 DEF Init
<1>6. \A a \in Blocks : waiting[a] = NoBlock
  BY <1>5
<1>7. BootBlock \in Blocks /\ PcbAddrs \subseteq Blocks
  BY DEF Blocks
<1>8. \A a \in PcbAddrs : prog[a] = none
  BY <1>1
<1>9. prog = [a \in PcbAddrs |-> prog[a]]
  BY <1>1
<1>10. boot_command.name = "shell" /\ boot_command # NULL
  BY <1>5, UserlandAssumption
<1>11. Callers
  BY <1>6, <1>7, <1>8, <1>9, <1>10 DEF Callers
<1>. QED
  BY <1>2, <1>3, <1>4, <1>5, <1>11 DEF UInv

\* The program that runs takes a step of its own
LEMMA ProgramStays ==
  ASSUME UInv, Running, Stays, machine' = "up", NEW p, Become(p), p.prog = me.prog,
         Frame(p, pcb'[cpu].file_array, pcb[cpu].arg)
  PROVE  UInv'
<1>1. cpu \in PcbAddrs /\ waiting[cpu] = NoBlock
  BY MyArray DEF UInv, IInv, CallStack, Running
<1>2. /\ prog = [a \in PcbAddrs |-> prog[a]]
      /\ prog' = [prog EXCEPT ![cpu] = p]
  BY DEF UInv, Callers, Become
<1>3. prog'[cpu] = p /\ \A a \in PcbAddrs \ {cpu} : prog'[a] = prog[a]
  BY <1>1, <1>2
<1>4. prog' = [a \in PcbAddrs |-> prog'[a]]
  BY <1>1, <1>2
<1>5. /\ cpu' = cpu /\ waiting' = waiting /\ boot_command' = boot_command
      /\ \A a \in PcbAddrs : pcb'[a].arg = pcb[a].arg
  BY DEF Stays
<1>6. waiting \in [Blocks -> PcbAddrs \union {NoBlock}] /\ PcbAddrs \subseteq Blocks
  BY DEF UInv, IInv, TypeOK, Blocks
<1>7. ASSUME NEW a \in PcbAddrs \ {cpu}
      PROVE  IF waiting'[a] = NoBlock THEN prog'[a] = none
             ELSE Waits(prog'[a]) /\ prog'[a].line.arg = pcb'[waiting'[a]].arg
  <2>1. IF waiting[a] = NoBlock THEN prog[a] = none
        ELSE Waits(prog[a]) /\ prog[a].line.arg = pcb[waiting[a]].arg
    BY DEF UInv, Callers
  <2>2. waiting[a] # NoBlock => waiting[a] \in PcbAddrs
    BY <1>6
  <2>. QED
    BY <1>3, <1>5, <2>1, <2>2
<1>8. waiting'[BootBlock] # NoBlock => prog'[waiting'[BootBlock]].prog = "shell"
  <2>1. waiting[BootBlock] # NoBlock => prog[waiting[BootBlock]].prog = "shell"
    BY DEF UInv, Callers
  <2>2. waiting[BootBlock] # NoBlock => waiting[BootBlock] \in PcbAddrs
    BY <1>6 DEF Blocks
  <2>. QED
    BY <1>3, <1>5, <2>1, <2>2 DEF me
<1>9. Callers'
  BY <1>4, <1>5, <1>7, <1>8 DEF UInv, Callers, Waits, ShellFrame
<1>10. OnlySigtestFaults'
  BY DEF OnlySigtestFaults
<1>11. Frame(prog'[cpu'], pcb'[cpu'].file_array, pcb'[cpu'].arg)
  BY <1>1, <1>3, <1>5
<1>12. IInv' /\ Usable'
  BY DEF Stays
<1>13. (cpu # BootBlock => Frame(prog[cpu], pcb[cpu].file_array, pcb[cpu].arg))'
  BY <1>11 DEF Frame, ShellFrame, CatFrame, LsFrame, GrepFrame, SyserrFrame, PingpongFrame,
               SimpleFrame, ExitFrame
<1>. QED
  BY <1>9, <1>10, <1>12, <1>13 DEF UInv

\* A program at the start of its main knows its descriptors
LEMMA StartFrame ==
  ASSUME NEW name \in Programs, NEW arg
  PROVE  Frame(Start(name), init_file_array, arg) /\ Start(name).prog = name
<1>1. init_file_array[1] = stdio
  BY FileArrayAssumption DEF init_file_array, Fds
<1>2. NULL \in Lines \union {NULL} /\ NoArg \in Args /\ 0 \in 0..BUFSIZE /\ 0 \in Int /\ 0 \in Nat
  BY SyscallsAssumption, UserlandAssumption
<1>3. <<>> \in Seq(1..8) /\ <<>> \in Seq(Int)
  OBVIOUS
<1>4. CASE name = "shell"
  <2>1. Start(name) = [prog |-> "shell", pc |-> "prompt", line |-> NULL]
    BY <1>4 DEF Start
  <2>. QED
    BY <1>2, <1>4, <2>1 DEF Frame, ShellFrame
<1>5. CASE name = "cat"
  <2>1. Start(name) = [prog |-> "cat", pc |-> "args", arg |-> NoArg, fd |-> 0,
                       cnt |-> 0, shown |-> 0]
    BY <1>5 DEF Start
  <2>2. CatFrame(Start(name), init_file_array, arg)
    BY <1>1, <1>2, <2>1 DEF CatFrame
  <2>. QED
    BY <1>5, <2>1, <2>2 DEF Frame
<1>6. CASE name = "ls"
  <2>1. Start(name) = [prog |-> "ls", pc |-> "open", fd |-> 0, cnt |-> 0, shown |-> 0]
    BY <1>6 DEF Start
  <2>2. LsFrame(Start(name), init_file_array)
    BY <1>1, <1>2, <2>1 DEF LsFrame
  <2>. QED
    BY <1>6, <2>1, <2>2 DEF Frame
<1>7. CASE name = "grep"
  <2>1. Start(name) = [prog |-> "grep", pc |-> "args", search |-> NoArg, dirfd |-> 0,
                       fname |-> EmptyName, fd |-> 0, last |-> 0, cnt |-> 0,
                       line_start |-> 0, junk |-> NL, data |-> <<>>, printed |-> <<>>]
    BY <1>7 DEF Start
  <2>2. GrepFrame(Start(name), init_file_array)
    BY <1>2, <2>1 DEF GrepFrame, GrepFields
  <2>. QED
    BY <1>7, <2>1, <2>2 DEF Frame
<1>8. CASE name = "syserr"
  <2>1. Start(name) = [prog |-> "syserr", pc |-> "read", todo |-> <<>>, vals |-> <<>>,
                       fail |-> 0]
    BY <1>8 DEF Start
  <2>2. SyserrFrame(Start(name), init_file_array)
    BY <1>3, <2>1 DEF SyserrFrame
  <2>. QED
    BY <1>8, <2>1, <2>2 DEF Frame
<1>9. CASE name = "pingpong"
  <2>1. Start(name) = [prog |-> "pingpong", pc |-> "open", fd |-> 0]
    BY <1>9 DEF Start
  <2>2. PingpongFrame(Start(name), init_file_array)
    BY <1>2, <2>1 DEF PingpongFrame
  <2>. QED
    BY <1>9, <2>1, <2>2 DEF Frame
<1>10. CASE name \in {"hello", "testprint", "counter", "sigtest"}
  BY <1>2, <1>10 DEF Start, Frame, SimpleFrame
<1>. QED
  BY <1>4, <1>5, <1>6, <1>7, <1>8, <1>9, <1>10 DEF Programs

\* execute starts the program or leaves every context as it is
LEMMA ExecuteKinds ==
  ASSUME IInv, Usable, machine = "up", NEW command \in Command, command # NULL,
         execute(command), boot_command' \in Command
  PROVE  /\ IInv'
         /\ Usable'
         /\ machine' = machine
         /\ ret' # ret => ret'.over = 0
         /\ \/ UNCHANGED <<cpu, waiting, pcb>>
            \/ /\ ~Refused(command) /\ Loads(command)
               /\ \E child \in PcbAddrs :
                     /\ child # cpu
                     /\ waiting[child] = NoBlock
                     /\ \A b \in Blocks : waiting[b] # child
                     /\ cpu' = child
                     /\ waiting' = [waiting EXCEPT ![cpu] = child]
                     /\ pcb'[child].file_array = init_file_array
                     /\ pcb'[child].arg = command.arg
                     /\ \A a \in PcbAddrs \ {child} : pcb'[a] = pcb[a]
<1>1. IInv'
  BY ExecuteIInv
<1>2. /\ \/ ExecuteRefused(command) \/ ExecuteFull(command)
         \/ ExecuteLoadFailed(command) \/ ExecuteStarted(command)
      /\ machine' = machine
  BY DEF execute, Denotes
<1>3. \A a \in Live \ {BootBlock} : UsableArray(pcb[a].file_array)
  BY UsableIsUsableArray
<1>4. CASE ExecuteRefused(command) \/ ExecuteFull(command) \/ ExecuteLoadFailed(command)
  <2>1. UNCHANGED <<cpu, waiting, pcb>> /\ ret'.over = 0
    BY <1>4 DEF ExecuteRefused, ExecuteFull, ExecuteLoadFailed, Returned
  <2>2. Usable'
    BY <1>2, <2>1 DEF Usable, Live
  <2>. QED
    BY <1>1, <1>2, <2>1, <2>2
<1>5. CASE ExecuteStarted(command)
  <2> DEFINE child == PcbAddr(get_next_process_number)
  <2>1. /\ child \in PcbAddrs
        /\ child \notin Live
        /\ \A b \in Blocks : waiting[b] # child
    BY <1>5, FreshChild DEF ExecuteStarted
  <2>2. /\ cpu' = child
        /\ waiting' = [waiting EXCEPT ![cpu] = child]
        /\ pcb' = [pcb EXCEPT ![child] = [file_array |-> init_file_array,
                                          parent_num |-> curr_process,
                                          parent_esp |-> kesp, arg |-> command.arg]]
        /\ ret' = ret
        /\ ~Refused(command) /\ Loads(command)
    BY <1>5, CurrentBlock DEF ExecuteStarted
  <2> HIDE DEF child
  <2>3. child # cpu /\ waiting[child] = NoBlock
    BY <2>1 DEF Live, Blocks
  <2>4. /\ pcb'[child].file_array = init_file_array
        /\ pcb'[child].arg = command.arg
        /\ \A a \in PcbAddrs \ {child} : pcb'[a] = pcb[a]
    BY <2>1, <2>2 DEF IInv, TypeOK
  <2>5. Live' \subseteq Live \union {child}
    BY <2>2 DEF Live, IInv, TypeOK
  <2>6. Live \ {BootBlock} \subseteq PcbAddrs
    BY DEF Live, Blocks
  <2>7. \A a \in Live' \ {BootBlock} : UsableArray(pcb'[a].file_array)
    BY <1>3, <2>4, <2>5, <2>6, InitialUsable
  <2>8. Usable'
    BY <1>2, <2>7 DEF Usable, UsableArray, Ops
  <2>. QED
    BY <1>1, <1>2, <2>1, <2>2, <2>3, <2>4, <2>8
<1>. QED
  BY <1>2, <1>4, <1>5

\* The child of a step that starts the program name
LEMMA Launched ==
  ASSUME UInv, machine = "up", IInv', Usable', machine' = machine,
         boot_command' # NULL, boot_command'.name = "shell",
         NEW name \in Programs, NEW child \in PcbAddrs, NEW frames,
         child # cpu, waiting[child] = NoBlock, \A b \in Blocks : waiting[b] # child,
         cpu' = child, waiting' = [waiting EXCEPT ![cpu] = child],
         pcb'[child].file_array = init_file_array,
         \A a \in PcbAddrs \ {child} : pcb'[a] = pcb[a],
         frames = [a \in PcbAddrs |-> frames[a]],
         \A a \in PcbAddrs \ {cpu} : frames[a] = prog[a],
         cpu # BootBlock => /\ Waits(frames[cpu])
                            /\ frames[cpu].line.arg = pcb'[child].arg,
         cpu = BootBlock => name = "shell",
         Launch(frames, name)
  PROVE  UInv'
<1>1. /\ waiting \in [Blocks -> PcbAddrs \union {NoBlock}] /\ PcbAddrs \subseteq Blocks
      /\ BootBlock \in Blocks /\ BootBlock \notin PcbAddrs /\ cpu \in Blocks
      /\ waiting[cpu] = NoBlock
      /\ NoBlock \notin PcbAddrs
  BY DistinctBlocks DEF UInv, IInv, TypeOK, CallStack, Blocks, PcbAddrs
<1>2. cpu # BootBlock => cpu \in PcbAddrs
  BY <1>1 DEF Blocks
<1>3. prog' = [frames EXCEPT ![child] = Start(name)]
  BY DEF Launch
<1>4. prog' = [a \in PcbAddrs |-> prog'[a]]
  BY <1>3
<1>5. prog'[child] = Start(name) /\ \A a \in PcbAddrs \ {child} : prog'[a] = frames[a]
  BY <1>3
<1>6. Frame(Start(name), init_file_array, pcb'[child].arg) /\ Start(name).prog = name
  BY StartFrame
<1>7. waiting'[cpu] = child /\ \A b \in Blocks \ {cpu} : waiting'[b] = waiting[b]
  BY <1>1
<1>8. ASSUME NEW a \in PcbAddrs \ {child}
      PROVE  IF waiting'[a] = NoBlock THEN prog'[a] = none
             ELSE Waits(prog'[a]) /\ prog'[a].line.arg = pcb'[waiting'[a]].arg
  <2>1. CASE a = cpu
    BY <1>1, <1>5, <1>7, <2>1
  <2>2. CASE a # cpu
    <3>1. IF waiting[a] = NoBlock THEN prog[a] = none
          ELSE Waits(prog[a]) /\ prog[a].line.arg = pcb[waiting[a]].arg
      BY <2>2 DEF UInv, Callers
    <3>2. waiting'[a] = waiting[a] /\ prog'[a] = prog[a]
      BY <1>1, <1>5, <1>7, <2>2
    <3>3. waiting[a] # NoBlock => waiting[a] \in PcbAddrs /\ waiting[a] # child
      BY <1>1
    <3>. QED
      BY <3>1, <3>2, <3>3
  <2>. QED
    BY <2>1, <2>2
<1>9. waiting'[BootBlock] # NoBlock => prog'[waiting'[BootBlock]].prog = "shell"
  <2>1. CASE cpu = BootBlock
    BY <1>5, <1>6, <1>7, <2>1
  <2>2. CASE cpu # BootBlock
    <3>1. waiting'[BootBlock] = waiting[BootBlock]
      BY <1>1, <1>7, <2>2
    <3>2. waiting[BootBlock] # NoBlock =>
             /\ prog[waiting[BootBlock]].prog = "shell"
             /\ waiting[BootBlock] \in PcbAddrs
             /\ waiting[BootBlock] # child
      BY <1>1 DEF UInv, Callers
    <3>3. frames[cpu].prog = "shell"
      BY <2>2 DEF Waits, ShellFrame
    <3>. QED
      BY <1>5, <3>1, <3>2, <3>3
  <2>. QED
    BY <2>1, <2>2
<1>10. Callers'
  BY <1>4, <1>8, <1>9 DEF Callers, Waits, ShellFrame
<1>11. OnlySigtestFaults'
  BY DEF OnlySigtestFaults
<1>12. Frame(prog'[cpu'], pcb'[cpu'].file_array, pcb'[cpu'].arg)
  BY <1>5, <1>6
<1>13. (cpu # BootBlock => Frame(prog[cpu], pcb[cpu].file_array, pcb[cpu].arg))'
  BY <1>12 DEF Frame, ShellFrame, CatFrame, LsFrame, GrepFrame, SyserrFrame, PingpongFrame,
               SimpleFrame, ExitFrame
<1>. QED
  BY <1>10, <1>11, <1>13 DEF UInv

LEMMA BootStep ==
  ASSUME UInv, UBootLoop
  PROVE  UInv'
<1>1. /\ machine = "up" /\ cpu = BootBlock /\ execute(boot_command)
      /\ boot_command' = [boot_command EXCEPT !.spaced = FALSE, !.arg = NoArg]
      /\ Launch(prog, boot_command.name)
  BY DEF UBootLoop, BootLoop
<1>2. /\ IInv /\ Usable /\ Callers
      /\ boot_command \in Command /\ boot_command # NULL /\ boot_command.name = "shell"
      /\ prog = [a \in PcbAddrs |-> prog[a]]
      /\ BootBlock \notin PcbAddrs
  BY DistinctBlocks DEF UInv, IInv, TypeOK, Callers, PcbAddrs
<1>3. /\ boot_command' \in Command
      /\ boot_command'.name = "shell" /\ boot_command'.spaced = FALSE
  <2>1. NoArg \in Args
    BY SyscallsAssumption
  <2>2. boot_command \in [name : Names, spaced : BOOLEAN, arg : Args]
    BY <1>2 DEF Command
  <2>3. boot_command'.name = "shell"
    BY <1>1, <1>2, <2>2
  <2>4. boot_command'.spaced = FALSE
    BY <1>1, <2>2, Zenon
  <2>5. boot_command' \in [name : Names, spaced : BOOLEAN, arg : Args]
    BY <1>1, <2>1, <2>2
  <2>. QED
    BY <2>3, <2>4, <2>5 DEF Command
<1>4. boot_command' # NULL
  BY <1>3 DEF NULL
<1>5. /\ IInv' /\ Usable' /\ machine' = machine
      /\ \/ UNCHANGED <<cpu, waiting, pcb>>
         \/ \E child \in PcbAddrs :
               /\ child # cpu
               /\ waiting[child] = NoBlock
               /\ \A b \in Blocks : waiting[b] # child
               /\ cpu' = child
               /\ waiting' = [waiting EXCEPT ![cpu] = child]
               /\ pcb'[child].file_array = init_file_array
               /\ pcb'[child].arg = boot_command.arg
               /\ \A a \in PcbAddrs \ {child} : pcb'[a] = pcb[a]
  BY <1>1, <1>2, <1>3, ExecuteKinds
<1>6. CASE UNCHANGED <<cpu, waiting, pcb>>
  <2>1. prog' = prog
    BY <1>6, <1>1 DEF Launch
  <2>2. Callers'
    BY <1>2, <1>3, <1>4, <1>6, <2>1 DEF Callers, Waits, ShellFrame
  <2>3. OnlySigtestFaults'
    BY <1>1, <1>5 DEF OnlySigtestFaults
  <2>4. cpu' = BootBlock
    BY <1>1, <1>6
  <2>. QED
    BY <1>5, <2>2, <2>3, <2>4 DEF UInv
<1>7. ASSUME NEW child \in PcbAddrs,
             child # cpu,
             waiting[child] = NoBlock,
             \A b \in Blocks : waiting[b] # child,
             cpu' = child,
             waiting' = [waiting EXCEPT ![cpu] = child],
             pcb'[child].file_array = init_file_array,
             \A a \in PcbAddrs \ {child} : pcb'[a] = pcb[a]
      PROVE  UInv'
  <2>1. "shell" \in Programs
    BY DEF Programs
  <2>2. Launch(prog, "shell")
    BY <1>1, <1>2
  <2>. QED
    BY <1>1, <1>2, <1>3, <1>4, <1>5, <1>7, <2>1, <2>2, Launched
<1>. QED
  BY <1>5, <1>6, <1>7

LEMMA ShellRunStep ==
  ASSUME UInv, ShellRun
  PROVE  UInv' /\ Suffices
<1>1. /\ Running /\ machine = "up" /\ cpu # BootBlock /\ me.prog = "shell" /\ me.pc = "run"
      /\ Execute(me.line)
      /\ Launch([prog EXCEPT ![cpu].pc = "wait"], me.line.name)
  BY DEF ShellRun, At, Running
<1>2. /\ IInv /\ Usable /\ Callers
      /\ boot_command \in Command /\ boot_command # NULL /\ boot_command.name = "shell"
      /\ prog = [a \in PcbAddrs |-> prog[a]]
      /\ BootBlock \notin PcbAddrs
      /\ cpu \in PcbAddrs
  BY <1>1, MyArray, DistinctBlocks DEF UInv, IInv, TypeOK, Callers, PcbAddrs
<1>3. ShellFrame(me)
  BY <1>1 DEF UInv, me, Frame, ShellFrame, CatFrame, LsFrame, GrepFrame, SyserrFrame,
              PingpongFrame, SimpleFrame, ExitFrame, Start
<1>4. me.line \in Lines /\ me.line \in Command /\ me.line # NULL
  BY <1>1, <1>3, UserlandAssumption DEF ShellFrame
<1>13. execute(me.line) /\ boot_command' = boot_command
  BY <1>1, <1>4, ExecuteStores, NeverOverwritten
<1> DEFINE frames == [prog EXCEPT ![cpu].pc = "wait"]
<1>5. frames = [prog EXCEPT ![cpu] = [me EXCEPT !.pc = "wait"]]
  BY <1>2 DEF me
<1>6. /\ frames = [a \in PcbAddrs |-> frames[a]]
      /\ frames[cpu] = [me EXCEPT !.pc = "wait"]
      /\ \A a \in PcbAddrs \ {cpu} : frames[a] = prog[a]
  BY <1>2, <1>5
<1>7. Waits(frames[cpu]) /\ frames[cpu].line = me.line
  BY <1>3, <1>6 DEF ShellFrame, Waits
<1>8. Launch(frames, me.line.name)
  BY <1>1
<1> HIDE DEF frames
<1>9. /\ IInv' /\ Usable' /\ machine' = machine
      /\ ret' # ret => ret'.over = 0
      /\ \/ UNCHANGED <<cpu, waiting, pcb>>
         \/ /\ ~Refused(me.line) /\ Loads(me.line)
            /\ \E child \in PcbAddrs :
               /\ child # cpu
               /\ waiting[child] = NoBlock
               /\ \A b \in Blocks : waiting[b] # child
               /\ cpu' = child
               /\ waiting' = [waiting EXCEPT ![cpu] = child]
               /\ pcb'[child].file_array = init_file_array
               /\ pcb'[child].arg = me.line.arg
               /\ \A a \in PcbAddrs \ {child} : pcb'[a] = pcb[a]
  BY <1>1, <1>2, <1>4, <1>13, ExecuteKinds
<1>10. Suffices
  BY <1>9 DEF Suffices
<1>11. CASE UNCHANGED <<cpu, waiting, pcb>>
  <2>1. prog' = frames
    BY <1>8, <1>11 DEF Launch
  <2>2. Become(frames[cpu])
    BY <1>5, <1>6, <2>1 DEF Become
  <2>3. Stays
    BY <1>1, <1>9, <1>11, <1>13 DEF Stays
  <2>4. Frame(frames[cpu], pcb'[cpu].file_array, pcb[cpu].arg)
    BY <1>7 DEF Waits, Frame
  <2>5. frames[cpu].prog = me.prog
    BY <1>3, <1>6 DEF ShellFrame
  <2>. QED
    BY <1>1, <1>9, <1>10, <2>2, <2>3, <2>4, <2>5, ProgramStays
<1>12. ASSUME ~Refused(me.line), Loads(me.line),
              NEW child \in PcbAddrs,
              child # cpu,
              waiting[child] = NoBlock,
              \A b \in Blocks : waiting[b] # child,
              cpu' = child,
              waiting' = [waiting EXCEPT ![cpu] = child],
              pcb'[child].file_array = init_file_array,
              pcb'[child].arg = me.line.arg,
              \A a \in PcbAddrs \ {child} : pcb'[a] = pcb[a]
       PROVE  UInv'
  <2>1. me.line.name \in Programs
    BY <1>4, <1>12, UserlandAssumption
  <2>2. frames[cpu].line.arg = pcb'[child].arg
    BY <1>7, <1>12
  <2> DEFINE name == me.line.name
  <2>3. /\ cpu # BootBlock => Waits(frames[cpu]) /\ frames[cpu].line.arg = pcb'[child].arg
        /\ cpu = BootBlock => name = "shell"
        /\ name \in Programs
        /\ Launch(frames, name)
    BY <1>1, <1>7, <1>8, <2>1, <2>2
  <2>4. /\ machine = "up" /\ IInv' /\ Usable' /\ machine' = machine
        /\ boot_command' # NULL /\ boot_command'.name = "shell"
    BY <1>1, <1>2, <1>9, <1>13
  <2>5. /\ frames = [a \in PcbAddrs |-> frames[a]]
        /\ \A a \in PcbAddrs \ {cpu} : frames[a] = prog[a]
    BY <1>6
  <2> HIDE DEF name
  <2>. QED
    BY <1>12, <2>3, <2>4, <2>5, Launched
<1>. QED
  BY <1>9, <1>10, <1>11, <1>12

LEMMA EndsStep ==
  ASSUME UInv, Ends
  PROVE  UInv' /\ Suffices
<1>1. Running /\ machine = "up" /\ cpu # BootBlock /\ me.pc = "exit" /\ Halt(me.status) /\ Become(none)
  BY DEF Ends, Running
<1>2. /\ IInv /\ Usable /\ Callers
      /\ boot_command # NULL /\ boot_command.name = "shell"
      /\ prog = [a \in PcbAddrs |-> prog[a]]
      /\ BootBlock \notin PcbAddrs
      /\ cpu \in PcbAddrs
      /\ waiting \in [Blocks -> PcbAddrs \union {NoBlock}]
      /\ waiting[cpu] = NoBlock
      /\ NoBlock \notin PcbAddrs
  <2>1. IInv /\ Usable /\ Callers
    BY DEF UInv
  <2>2. cpu \in PcbAddrs
    BY <1>1, <2>1, MyArray
  <2>3. BootBlock \notin PcbAddrs /\ NoBlock \notin PcbAddrs
    BY DistinctBlocks DEF PcbAddrs
  <2>4. waiting \in [Blocks -> PcbAddrs \union {NoBlock}] /\ waiting[cpu] = NoBlock
    BY <1>1, <2>1 DEF IInv, TypeOK, CallStack
  <2>. QED
    BY <2>1, <2>2, <2>3, <2>4 DEF Callers
<1>3. ExitFrame(me, pcb[cpu].arg)
  BY <1>1 DEF UInv, me, Frame, ShellFrame, CatFrame, LsFrame, GrepFrame, SyserrFrame,
              PingpongFrame, SimpleFrame, ExitFrame, Start
<1>4. me.status \in Nat
  BY <1>3 DEF ExitFrame
<1>5. IInv'
  BY <1>1, <1>2, <1>4, HaltIInv
<1> DEFINE parent == BlockOf(pcb[PcbAddr(curr_process)].parent_esp)
<1>6. /\ parent \in Blocks /\ parent # cpu /\ waiting[parent] = cpu
      /\ \A b \in Blocks : waiting[b] = cpu => b = parent
  BY <1>1, <1>2, HaltTarget
<1>7. /\ cpu' = parent /\ waiting' = [waiting EXCEPT ![parent] = NoBlock]
      /\ pcb' = pcb /\ machine' = machine /\ boot_command' = boot_command
      /\ ret' = Returned("execute", me.status % 256)
  BY <1>1 DEF Halt
<1> HIDE DEF parent
<1>8. Live' \subseteq Live
  BY <1>2, <1>6, <1>7 DEF Live
<1>9. Usable'
  BY <1>2, <1>7, <1>8 DEF Usable
<1>10. prog' = [prog EXCEPT ![cpu] = none]
  BY <1>1 DEF Become
<1>11. /\ prog' = [a \in PcbAddrs |-> prog'[a]]
       /\ prog'[cpu] = none
       /\ \A a \in PcbAddrs \ {cpu} : prog'[a] = prog[a]
  BY <1>2, <1>10
<1>12. /\ waiting'[parent] = NoBlock
       /\ \A b \in Blocks \ {parent} : waiting'[b] = waiting[b] /\ waiting[b] # cpu
  BY <1>2, <1>6, <1>7
<1>13. PcbAddrs \subseteq Blocks /\ BootBlock \in Blocks /\ Blocks = PcbAddrs \union {BootBlock}
  BY DEF Blocks
<1>14. ASSUME NEW a \in PcbAddrs \ {parent}
       PROVE  IF waiting'[a] = NoBlock THEN prog'[a] = none
              ELSE Waits(prog'[a]) /\ prog'[a].line.arg = pcb'[waiting'[a]].arg
  <2>1. waiting'[a] = waiting[a]
    BY <1>12, <1>13
  <2>2. CASE a = cpu
    BY <1>2, <1>11, <2>1, <2>2
  <2>3. CASE a # cpu
    BY <1>2, <1>7, <1>11, <2>1, <2>3 DEF Callers
  <2>. QED
    BY <2>2, <2>3
<1>15. waiting'[BootBlock] # NoBlock => prog'[waiting'[BootBlock]].prog = "shell"
  <2>1. CASE parent = BootBlock
    BY <1>12, <2>1
  <2>2. CASE parent # BootBlock
    <3>1. waiting'[BootBlock] = waiting[BootBlock] /\ waiting[BootBlock] # cpu
      BY <1>12, <1>13, <2>2
    <3>2. waiting[BootBlock] # NoBlock =>
            waiting[BootBlock] \in PcbAddrs /\ prog[waiting[BootBlock]].prog = "shell"
      BY <1>2, <1>13 DEF Callers
    <3>. QED
      BY <1>11, <3>1, <3>2
  <2>. QED
    BY <2>1, <2>2
<1>16. Callers'
  BY <1>2, <1>7, <1>11, <1>14, <1>15 DEF Callers, Waits, ShellFrame
<1>17. OnlySigtestFaults'
  BY <1>1, <1>7 DEF OnlySigtestFaults
<1>18. ASSUME parent # BootBlock
       PROVE  Frame(prog'[parent], pcb'[parent].file_array, pcb'[parent].arg)
  <2>1. parent \in PcbAddrs \ {cpu}
    BY <1>6, <1>13, <1>18
  <2>2. Waits(prog[parent])
    BY <1>2, <1>6, <2>1 DEF Callers
  <2>. QED
    BY <1>11, <2>1, <2>2 DEF Waits, Frame
<1>19. (cpu # BootBlock => Frame(prog[cpu], pcb[cpu].file_array, pcb[cpu].arg))'
  BY <1>7, <1>18 DEF Frame, ShellFrame, CatFrame, LsFrame, GrepFrame, SyserrFrame, PingpongFrame,
               SimpleFrame, ExitFrame
<1>20. Suffices
  BY <1>7 DEF Suffices, Returned
<1>. QED
  BY <1>5, <1>9, <1>16, <1>17, <1>19, <1>20 DEF UInv

----------------------------------------------------------------------------
(* The program that runs is at a frame of its own kind *)

LEMMA MyFrame ==
  ASSUME UInv, Running
  PROVE  /\ IInv /\ Usable /\ cpu \in PcbAddrs
         /\ me.prog \in Programs
         /\ me.pc = "exit" => ExitFrame(me, pcb[cpu].arg)
         /\ me.prog = "shell" /\ me.pc # "exit" => ShellFrame(me)
         /\ me.prog = "cat" /\ me.pc # "exit" =>
              CatFrame(me, pcb[cpu].file_array, pcb[cpu].arg)
         /\ me.prog = "ls" /\ me.pc # "exit" => LsFrame(me, pcb[cpu].file_array)
         /\ me.prog = "grep" /\ me.pc # "exit" => GrepFrame(me, pcb[cpu].file_array)
         /\ me.prog = "syserr" /\ me.pc # "exit" => SyserrFrame(me, pcb[cpu].file_array)
         /\ me.prog = "pingpong" /\ me.pc # "exit" => PingpongFrame(me, pcb[cpu].file_array)
         /\ me.prog \in {"hello", "testprint", "counter", "sigtest"} /\ me.pc # "exit" =>
              SimpleFrame(me)
<1>1. IInv /\ Usable /\ cpu \in PcbAddrs
  BY MyArray DEF UInv
<1> DEFINE fa == pcb[cpu].file_array
           arg == pcb[cpu].arg
<1>2. Frame(me, fa, arg)
  BY DEF UInv, Running, me
<1>3. ShellFrame(me) => me.prog = "shell" /\ me.pc # "exit"
  BY DEF ShellFrame
<1>4. CatFrame(me, fa, arg) => me.prog = "cat" /\ me.pc # "exit"
  BY DEF CatFrame
<1>5. LsFrame(me, fa) => me.prog = "ls" /\ me.pc # "exit"
  BY DEF LsFrame
<1>6. GrepFrame(me, fa) => me.prog = "grep" /\ me.pc # "exit"
  BY DEF GrepFrame
<1>7. SyserrFrame(me, fa) => me.prog = "syserr" /\ me.pc # "exit"
  BY DEF SyserrFrame
<1>8. PingpongFrame(me, fa) => me.prog = "pingpong" /\ me.pc # "exit"
  BY DEF PingpongFrame
<1>9. SimpleFrame(me) =>
        me.prog \in {"hello", "testprint", "counter", "sigtest"} /\ me.pc # "exit"
  BY DEF SimpleFrame, Start
<1>10. ExitFrame(me, arg) => me.pc = "exit" /\ me.prog \in Programs
  BY DEF ExitFrame
<1>. QED
  BY <1>1, <1>2, <1>3, <1>4, <1>5, <1>6, <1>7, <1>8, <1>9, <1>10 DEF Frame, Programs

\* main returns
LEMMA ExitStays ==
  ASSUME UInv, Running, Stays, machine' = "up", NEW status \in Nat, Become(Exit(status)),
         me.prog = "cat" => CatResult(status, me.shown, pcb[cpu].arg),
         me.prog = "ls" => LsResult(status, me.shown),
         me.prog = "syserr" => status = 0
  PROVE  UInv'
<1> DEFINE p == Exit(status)
<1>1. p = [prog |-> me.prog, pc |-> "exit", status |-> status, was |-> me]
  BY DEF Exit
<1>2. p.prog = me.prog /\ p.pc = "exit" /\ p.status = status /\ p.was = me
  BY <1>1
<1>3. me.prog \in Programs
  BY MyFrame
<1> HIDE DEF p
<1>4. ExitFrame(p, pcb[cpu].arg)
  BY <1>2, <1>3 DEF ExitFrame
<1>5. Frame(p, pcb'[cpu].file_array, pcb[cpu].arg)
  BY <1>4 DEF Frame
<1>. QED
  BY <1>2, <1>5, ProgramStays DEF p

----------------------------------------------------------------------------
(* Calls on descriptors *)

\* A descriptor that is not open
Closed(fa, fd) == fd \in Fds => fa[fd].flags = FILE_AVAIL

LEMMA ClosedCalls ==
  ASSUME NEW fa, NEW fd, Closed(fa, fd), NEW nbytes, NEW typed, NEW ticked, NEW strlen
  PROVE  /\ read(fa, fd, nbytes, typed, ticked) = Fail(fa)
         /\ write(fa, fd, nbytes, strlen) = Fail(fa)
         /\ close(fa, fd) = Fail(fa)
<1>1. fd \in 2..NUM_MAX_OPEN_FILES-1 => fd \in Fds
  BY FileArrayAssumption DEF Fds
<1>. QED
  BY <1>1 DEF Closed, read, write, close

LEMMA FailIs ==
  ASSUME NEW fa
  PROVE  Fail(fa).fa = fa /\ Fail(fa).ret = -1 /\ Fail(fa).over = 0
BY DEF Fail, Return, Outcome

LEMMA StdioIs ==
  /\ stdio.flags = FILE_OCCUP /\ stdio.file_ops_table_ptr = "terminal"
  /\ blank.flags = FILE_AVAIL
  /\ FILE_OCCUP # FILE_AVAIL
BY DEF stdio, blank, FILE_AVAIL, FILE_OCCUP

\* Stdin stores at most the terminator past the count
LEMMA StdinRead ==
  ASSUME NEW fa \in [Fds -> Slot], UsableArray(fa), NEW nbytes \in Int,
         NEW typed \in 0..MAX_INPUT_CHARS, NEW ticked,
         NEW o, o = read(fa, 0, nbytes, typed, ticked)
  PROVE  /\ o.fa = fa
         /\ o.over \in 0..1
         /\ fa[0] = stdio => o.ret \in Nat
<1>1. 0 \in Fds
  BY FileArrayAssumption DEF Fds
<1>2. Unsigned(nbytes) \in Nat /\ MAX_INPUT_CHARS \in Nat
  BY UnsignedType, FileArrayAssumption DEF Unsigned
<1>3. CASE fa[0].flags = FILE_AVAIL
  <2>1. o = Fail(fa)
    BY <1>1, <1>3 DEF read
  <2>2. fa[0] # stdio
    BY <1>3, StdioIs
  <2>3. o.fa = fa /\ o.over = 0
    BY <2>1 DEF Fail, Return, Outcome
  <2>. QED
    BY <2>2, <2>3
<1>4. CASE fa[0].flags # FILE_AVAIL /\ fa[0].file_ops_table_ptr = "terminal"
  <2> DEFINE len == Smaller(typed, Smaller(Unsigned(nbytes), MAX_INPUT_CHARS))
             over == IF nbytes < len + 1 /\ nbytes >= 0 THEN 1 ELSE 0
  <2>1. len \in Nat /\ over \in 0..1
    BY <1>2 DEF Smaller
  <2>2. o = Outcome(fa, len, over, "up")
    BY <1>1, <1>4 DEF read, terminal_read
  <2> HIDE DEF len, over
  <2>3. o.fa = fa /\ o.ret = len /\ o.over = over
    BY <2>2 DEF Outcome
  <2>. QED
    BY <2>1, <2>3
<1>5. CASE fa[0].flags # FILE_AVAIL /\ fa[0].file_ops_table_ptr # "terminal"
  <2>1. fa[0].flags # FILE_OCCUP
    BY <1>1, <1>5 DEF UsableArray, Ops
  <2>2. fa[0] # stdio
    BY <1>5, StdioIs
  <2>. QED
    BY <1>1, <1>5, <2>1, <2>2 DEF Slot
<1>. QED
  BY <1>3, <1>4, <1>5

\* write keeps the descriptors, and stdout takes what it is given
LEMMA WriteKeeps ==
  ASSUME NEW fa, NEW fd, NEW nbytes \in Int, NEW strlen \in 0..MAX_INPUT_CHARS
  PROVE  LET o == write(fa, fd, nbytes, strlen)
         IN  /\ o.fa = fa
             /\ o.over = 0
             /\ fd = 1 /\ fa[1] = stdio => o.ret \in Nat
<1>1. /\ write(fa, fd, nbytes, strlen).fa = fa
      /\ write(fa, fd, nbytes, strlen).over = 0
  BY DEF write, terminal_write, Fail, Return, Outcome
<1>2. ASSUME fd = 1, fa[1] = stdio
      PROVE  write(fa, fd, nbytes, strlen).ret \in Nat
  <2>1. 1 \in Fds
    BY FileArrayAssumption DEF Fds
  <2>2. fa[1].flags # FILE_AVAIL /\ fa[1].file_ops_table_ptr = "terminal"
    BY <1>2, StdioIs
  <2>3. write(fa, 1, nbytes, strlen) = terminal_write(fa, 1, nbytes, strlen)
    BY <2>1, <2>2 DEF write
  <2>4. terminal_write(fa, 1, nbytes, strlen).ret = Smaller(strlen, Unsigned(nbytes))
    BY DEF terminal_write, Return, Outcome
  <2>5. Unsigned(nbytes) \in Nat
    BY UnsignedType DEF Unsigned
  <2>6. Smaller(strlen, Unsigned(nbytes)) \in Nat
    BY <2>5, FileArrayAssumption DEF Smaller
  <2>. QED
    BY <1>2, <2>3, <2>4, <2>6
<1>. QED
  BY <1>1, <1>2

\* open and close store nothing in a buffer
LEMMA OpenCloseOver ==
  ASSUME NEW fa, NEW filename, NEW fd
  PROVE  open(fa, filename).over = 0 /\ close(fa, fd).over = 0
<1>1. \A fb : file_open(fb, filename).over = 0
  BY DEF file_open, Fail, Return, Outcome
<1>2. open(fa, filename).over = 0
  BY <1>1 DEF open, Fail, Return, Outcome
<1>3. close(fa, fd).over = 0
  BY DEF close, Fail, Return, Outcome
<1>. QED
  BY <1>2, <1>3

LEMMA AfterSuffices ==
  ASSUME NEW call, NEW o, After(call, o), call # "getargs", o.over \in 0..1,
         me.prog = "cat" => o.over = 0
  PROVE  Suffices
<1>1. ret'.call = call /\ ret'.over = o.over
  BY DEF After
<1>. QED
  BY <1>1 DEF Suffices

\* A line is read from the terminal
LEMMA StdinStep ==
  ASSUME UInv, NEW nbytes \in Int, Read(0, nbytes), me.prog # "cat"
  PROVE  /\ Stays /\ machine' = "up" /\ Suffices
         /\ pcb'[cpu].file_array = pcb[cpu].file_array
         /\ pcb[cpu].file_array[0] = stdio => ret'.val # -1
<1>1. Running /\ IInv /\ Usable
  BY DEF Read, UInv
<1>2. Stays /\ machine' = "up"
  BY <1>1, ReadStays
<1>3. PICK typed \in 0..MAX_INPUT_CHARS, ticked \in BOOLEAN :
         After("read", read(pcb[cpu].file_array, 0, nbytes, typed, ticked))
  BY <1>1, ReadStays
<1> DEFINE o == read(pcb[cpu].file_array, 0, nbytes, typed, ticked)
<1>4. pcb[cpu].file_array \in [Fds -> Slot] /\ UsableArray(pcb[cpu].file_array)
  BY <1>1, MyArray
<1>5. /\ o.fa = pcb[cpu].file_array
      /\ o.over \in 0..1
      /\ pcb[cpu].file_array[0] = stdio => o.ret \in Nat
  BY <1>4, StdinRead
<1> HIDE DEF o
<1>6. After("read", o)
  BY <1>3 DEF o
<1>7. Suffices
  BY <1>5, <1>6, AfterSuffices
<1>8. ret'.val = o.ret /\ pcb'[cpu].file_array = o.fa
  BY <1>6 DEF After
<1>. QED
  BY <1>2, <1>5, <1>7, <1>8

\* A write changes no descriptor
LEMMA WriteStep ==
  ASSUME UInv, NEW fd \in Int, NEW nbytes \in Int, Write(fd, nbytes)
  PROVE  /\ Stays /\ machine' = "up" /\ Suffices
         /\ pcb'[cpu].file_array = pcb[cpu].file_array
         /\ fd = 1 /\ pcb[cpu].file_array[1] = stdio => ret'.val # -1
<1>1. Running /\ IInv /\ Usable
  BY DEF Write, UInv
<1>2. Stays /\ machine' = "up"
  BY <1>1, WriteStays
<1>3. PICK strlen \in 0..MAX_INPUT_CHARS :
         After("write", write(pcb[cpu].file_array, fd, nbytes, strlen))
  BY <1>1, WriteStays
<1> DEFINE o == write(pcb[cpu].file_array, fd, nbytes, strlen)
<1>4. /\ o.fa = pcb[cpu].file_array
      /\ o.over = 0
      /\ fd = 1 /\ pcb[cpu].file_array[1] = stdio => o.ret \in Nat
  BY WriteKeeps
<1> HIDE DEF o
<1>5. After("write", o)
  BY <1>3 DEF o
<1>6. Suffices
  BY <1>4, <1>5, AfterSuffices
<1>7. ret'.val = o.ret /\ pcb'[cpu].file_array = o.fa
  BY <1>5 DEF After
<1>. QED
  BY <1>2, <1>4, <1>6, <1>7

\* The argument is fetched into a buffer that holds any argument
LEMMA GetargsStep ==
  ASSUME UInv, Getargs(BUFSIZE)
  PROVE  /\ Stays /\ machine' = "up" /\ Suffices
         /\ pcb' = pcb
         /\ ret'.val # 0 <=> pcb[cpu].arg = NoArg
         /\ pcb[cpu].arg \in Args
<1>1. Running /\ IInv /\ Usable
  BY DEF Getargs, UInv
<1>2. BUFSIZE \in Int /\ BUFSIZE \in Nat
  BY UserlandAssumption
<1>3. Stays /\ machine' = "up" /\ pcb' = pcb /\ ret' = getargs(pcb[cpu].arg, BUFSIZE)
  BY <1>1, <1>2, GetargsStays
<1>4. pcb[cpu].arg \in Args
  BY <1>1, MyArray DEF IInv, TypeOK, PCB
<1>5. ArgLen[pcb[cpu].arg] \in Nat /\ ArgLen[pcb[cpu].arg] < BUFSIZE
  BY <1>4, SyscallsAssumption, UserlandAssumption
<1>6. ret' = IF pcb[cpu].arg = NoArg THEN Returned("getargs", -1) ELSE Returned("getargs", 0)
  BY <1>2, <1>3, <1>5 DEF getargs, Returned
<1>7. ret'.over = 0 /\ (ret'.val # 0 <=> pcb[cpu].arg = NoArg)
  BY <1>6 DEF Returned
<1>8. Suffices
  BY <1>7 DEF Suffices
<1>. QED
  BY <1>3, <1>4, <1>7, <1>8

----------------------------------------------------------------------------
(* The shell, hello, testprint, counter and sigtest *)

LEMMA ShellStep ==
  ASSUME UInv, ShellRead \/ ShellLine \/ ShellResume
  PROVE  UInv' /\ Suffices
<1>1. Running /\ me.prog = "shell" /\ me.pc # "exit"
  BY DEF ShellRead, ShellLine, ShellResume, At
<1>2. ShellFrame(me) /\ IInv /\ Usable
  BY <1>1, MyFrame
<1>3. BUFSIZE - 1 \in Int
  BY UserlandAssumption
<1>4. ASSUME NEW p, ShellFrame(p), Become(p), Stays, machine' = "up"
      PROVE  UInv'
  BY <1>1, <1>4, ProgramStays DEF Frame, ShellFrame
<1>5. ASSUME NEW status \in Nat, Become(Exit(status)), Stays, machine' = "up"
      PROVE  UInv'
  BY <1>1, <1>5, ExitStays
<1>6. CASE ShellRead
  <2>1. Stays /\ machine' = "up" /\ Suffices
    BY <1>1, <1>3, <1>6, StdinStep DEF ShellRead
  <2>2. ShellFrame([me EXCEPT !.pc = "line"])
    BY <1>2 DEF ShellFrame
  <2>3. Become(Exit(3)) \/ Become([me EXCEPT !.pc = "line"])
    BY <1>6 DEF ShellRead
  <2>. QED
    BY <1>4, <1>5, <2>1, <2>2, <2>3
<1>7. CASE ShellLine
  <2>1. Stays /\ machine' = "up" /\ ret' = ret
    BY <1>1, <1>2, <1>7, NothingStays DEF ShellLine
  <2>2. ShellFrame(Start("shell"))
    BY DEF ShellFrame, Start
  <2>3. \A line \in Lines : ShellFrame([me EXCEPT !.pc = "run", !.line = line])
    BY <1>2 DEF ShellFrame
  <2>4. \/ Become(Exit(0)) \/ Become(Start("shell"))
        \/ \E line \in Lines : Become([me EXCEPT !.pc = "run", !.line = line])
    BY <1>7 DEF ShellLine
  <2>5. UInv'
    BY <1>4, <1>5, <2>1, <2>2, <2>3, <2>4
  <2>. QED
    BY <2>1, <2>5 DEF Suffices
<1>8. CASE ShellResume
  <2>1. Stays /\ machine' = "up" /\ ret' = ret
    BY <1>1, <1>2, <1>8, NothingStays DEF ShellResume
  <2>2. ShellFrame(Start("shell"))
    BY DEF ShellFrame, Start
  <2>3. UInv'
    BY <1>4, <1>8, <2>1, <2>2 DEF ShellResume
  <2>. QED
    BY <2>1, <2>3 DEF Suffices
<1>. QED
  BY <1>6, <1>7, <1>8

LEMMA SimpleStep ==
  ASSUME UInv, HelloRead \/ TestprintWrite \/ CounterRead \/ CounterWrite
               \/ SigtestArgs \/ SigtestHandler \/ SigtestRead
  PROVE  UInv' /\ Suffices
<1>1. /\ Running /\ me.pc # "exit"
      /\ me.prog \in {"hello", "testprint", "counter", "sigtest"}
  BY DEF HelloRead, TestprintWrite, CounterRead, CounterWrite, SigtestArgs, SigtestHandler,
         SigtestRead, At
<1>2. SimpleFrame(me) /\ IInv /\ Usable
  BY <1>1, MyFrame
<1>3. BUFSIZE - 1 \in Int /\ BUFSIZE \in Int /\ CounterMax \in Nat /\ 1 \in Int
  BY UserlandAssumption
<1>4. ASSUME NEW p, SimpleFrame(p), p.prog = me.prog, Become(p), Stays, machine' = "up"
      PROVE  UInv'
  BY <1>1, <1>4, ProgramStays DEF Frame
<1>5. ASSUME NEW status \in Nat, Become(Exit(status)), Stays, machine' = "up"
      PROVE  UInv'
  BY <1>1, <1>5, ExitStays
<1>6. CASE HelloRead
  <2>1. Stays /\ machine' = "up" /\ Suffices
    BY <1>1, <1>3, <1>6, StdinStep DEF HelloRead
  <2>2. Become(Exit(3)) \/ Become(Exit(0))
    BY <1>6 DEF HelloRead
  <2>. QED
    BY <1>5, <2>1, <2>2
<1>7. CASE TestprintWrite
  <2>1. Stays /\ machine' = "up" /\ Suffices
    BY <1>3, <1>7, WriteStep DEF TestprintWrite
  <2>. QED
    BY <1>5, <1>7, <2>1 DEF TestprintWrite
<1>8. CASE CounterRead
  <2>1. Stays /\ machine' = "up" /\ Suffices
    BY <1>1, <1>3, <1>8, StdinStep DEF CounterRead
  <2>2. me \in [prog : {"counter"}, pc : {"read", "count"}, i : Nat]
    BY <1>2, <1>8 DEF SimpleFrame, Start, CounterRead, At
  <2>3. PICK max \in {0, CounterMax} :
           Become(IF ret'.val = -1 THEN Exit(3)
                  ELSE [me EXCEPT !.pc = "count", !.i = CounterMax - max])
    BY <1>8 DEF CounterRead
  <2>4. CounterMax - max \in Nat
    BY <1>3
  <2> DEFINE p == [me EXCEPT !.pc = "count", !.i = CounterMax - max]
  <2>5. p \in [prog : {"counter"}, pc : {"read", "count"}, i : Nat]
    BY <2>2, <2>4
  <2>6. Become(Exit(3)) \/ Become(p)
    BY <2>3
  <2> HIDE DEF p
  <2>7. SimpleFrame(p) /\ p.prog = me.prog
    BY <2>2, <2>5 DEF SimpleFrame
  <2>. QED
    BY <1>4, <1>5, <2>1, <2>6, <2>7
<1>9. CASE CounterWrite
  <2>1. me \in [prog : {"counter"}, pc : {"read", "count"}, i : Nat]
    BY <1>2, <1>9 DEF SimpleFrame, Start, CounterWrite, At
  <2>2. CASE me.i < CounterMax
    <3>1. Write(1, BUFSIZE) /\ Become([me EXCEPT !.i = me.i + 1])
      BY <1>9, <2>2 DEF CounterWrite
    <3>2. Stays /\ machine' = "up" /\ Suffices
      BY <1>3, <3>1, WriteStep
    <3>3. [me EXCEPT !.i = me.i + 1] \in [prog : {"counter"}, pc : {"read", "count"}, i : Nat]
      BY <2>1
    <3> DEFINE p == [me EXCEPT !.i = me.i + 1]
    <3>4. Become(p)
      BY <3>1
    <3>5. SimpleFrame(p)
      BY <3>3 DEF SimpleFrame
    <3>6. p.prog = me.prog
      BY <2>1
    <3> HIDE DEF p
    <3>. QED
      BY <1>4, <3>2, <3>4, <3>5, <3>6
  <2>3. CASE ~(me.i < CounterMax)
    <3>1. Become(Exit(0)) /\ UNCHANGED vars
      BY <1>9, <2>3 DEF CounterWrite
    <3>2. Stays /\ machine' = "up" /\ ret' = ret
      BY <1>1, <1>2, <3>1, NothingStays
    <3>3. UInv'
      BY <1>5, <3>1, <3>2
    <3>. QED
      BY <3>2, <3>3 DEF Suffices
  <2>. QED
    BY <2>2, <2>3
<1>10. ASSUME NEW pc \in {"args", "segv", "alarm", "read", "fault"}, me.prog = "sigtest"
       PROVE  SimpleFrame([me EXCEPT !.pc = pc]) /\ [me EXCEPT !.pc = pc].prog = me.prog
  <2>1. me \in [prog : {"sigtest"}, pc : {"args", "segv", "alarm", "read", "fault"}]
    BY <1>2, <1>10 DEF SimpleFrame, Start
  <2>. QED
    BY <2>1 DEF SimpleFrame
<1>11. CASE SigtestArgs
  <2>1. Stays /\ machine' = "up" /\ Suffices
    BY <1>11, GetargsStep DEF SigtestArgs
  <2>2. \/ Become(Exit(3)) \/ Become([me EXCEPT !.pc = "segv"])
        \/ Become([me EXCEPT !.pc = "read"])
    BY <1>11 DEF SigtestArgs
  <2>3. me.prog = "sigtest"
    BY <1>11 DEF SigtestArgs, At
  <2>. QED
    BY <1>4, <1>5, <1>10, <2>1, <2>2, <2>3
<1>12. CASE SigtestHandler
  <2>1. Stays /\ machine' = "up" /\ ret' = Returned("invalid", -1)
    BY <1>2, <1>12, InvalidStays DEF SigtestHandler
  <2>2. Suffices
    BY <2>1 DEF Suffices, Returned
  <2>3. Become([me EXCEPT !.pc = "alarm"]) \/ Become([me EXCEPT !.pc = "read"])
    BY <1>12 DEF SigtestHandler, Goto
  <2>4. me.prog = "sigtest"
    BY <1>12 DEF SigtestHandler, At
  <2>. QED
    BY <1>4, <1>10, <2>1, <2>2, <2>3, <2>4
<1>13. CASE SigtestRead
  <2>1. Stays /\ machine' = "up" /\ Suffices
    BY <1>1, <1>3, <1>13, StdinStep DEF SigtestRead
  <2>2. Become(Exit(3)) \/ Become([me EXCEPT !.pc = "fault"])
    BY <1>13 DEF SigtestRead
  <2>3. me.prog = "sigtest"
    BY <1>13 DEF SigtestRead, At
  <2>. QED
    BY <1>4, <1>5, <1>10, <2>1, <2>2, <2>3
<1>. QED
  BY <1>6, <1>7, <1>8, <1>9, <1>11, <1>12, <1>13

\* The one step that stops the machine
LEMMA FaultStep ==
  ASSUME UInv, SigtestFault
  PROVE  UInv' /\ Suffices
<1>1. /\ Running /\ me.prog = "sigtest" /\ machine' = "panic" /\ UNCHANGED prog
      /\ UNCHANGED <<pid_array, curr_process, pcb, tss_esp0, user_page, vidmapped, last,
                     boot_command, cpu, waiting, ret>>
  BY DEF SigtestFault, At, Exception, kernelVars
<1>2. IInv /\ Usable /\ Callers
  BY DEF UInv
<1>3. TypeOK'
  BY <1>1, <1>2 DEF IInv, TypeOK, Machine
<1>4. IInv'
  BY <1>1, <1>2, <1>3, StayIInv DEF Running
<1>5. Usable'
  BY <1>1, <1>2 DEF Usable, Live, Running
<1>6. OnlySigtestFaults'
  BY <1>1 DEF OnlySigtestFaults, me
<1>7. Callers'
  BY <1>1, <1>2 DEF Callers, Waits, ShellFrame
<1>8. Frame(prog'[cpu'], pcb'[cpu'].file_array, pcb'[cpu'].arg)
  BY <1>1 DEF UInv, Running
<1>9. (cpu # BootBlock => Frame(prog[cpu], pcb[cpu].file_array, pcb[cpu].arg))'
  BY <1>8 DEF Frame, ShellFrame, CatFrame, LsFrame, GrepFrame, SyserrFrame, PingpongFrame,
               SimpleFrame, ExitFrame
<1>10. Suffices
  BY <1>1 DEF Suffices
<1>. QED
  BY <1>4, <1>5, <1>6, <1>7, <1>9, <1>10 DEF UInv

----------------------------------------------------------------------------
(* What open does *)

\* A slot that open has filled
OpenSlot(dentry) ==
  [file_ops_table_ptr |-> IF dentry.filetype = FILE_TYPE_FILE THEN "file" ELSE "directory",
   inode_num |-> dentry.inode_num, file_position |-> 0, flags |-> FILE_OCCUP]

\* There is no such file, its name fills the entry, or no descriptor is left
LEMMA OpenFails ==
  ASSUME NEW fa, NEW filename,
         \/ read_dentry_by_name(filename).filetype \notin FileTypes
         \/ NameLen[filename] >= FILENAME_LEN
         \/ FreeFds(fa) = {}
  PROVE  open(fa, filename) = Fail(fa)
<1>1. NoDentry.filetype \notin FileTypes
  BY DEF NoDentry, FileTypes, FILE_TYPE_RTC, FILE_TYPE_DIR, FILE_TYPE_FILE
<1>2. file_open(fa, filename) = Fail(fa)
  BY <1>1 DEF file_open, FileTypes
<1>3. Fail(fa).ret = -1
  BY FailIs
<1>. QED
  BY <1>1, <1>2, <1>3 DEF open, FileTypes

LEMMA OpenFile ==
  ASSUME NEW fa, NEW filename, NEW dentry, dentry = read_dentry_by_name(filename),
         dentry.filetype \in {FILE_TYPE_DIR, FILE_TYPE_FILE},
         ~(NameLen[filename] >= FILENAME_LEN), FreeFds(fa) # {}
  PROVE  open(fa, filename) = Return([fa EXCEPT ![NextFd(fa)] = OpenSlot(dentry)], NextFd(fa))
<1>1. NoDentry.filetype \notin FileTypes
  BY DEF NoDentry, FileTypes, FILE_TYPE_RTC, FILE_TYPE_DIR, FILE_TYPE_FILE
<1>2. dentry # NoDentry /\ dentry.filetype \in FileTypes /\ dentry.filetype # FILE_TYPE_RTC
  BY <1>1 DEF FileTypes, FILE_TYPE_RTC, FILE_TYPE_DIR, FILE_TYPE_FILE
<1>3. file_open(fa, filename) = Return([fa EXCEPT ![NextFd(fa)] = OpenSlot(dentry)], NextFd(fa))
  BY <1>2 DEF file_open, OpenSlot, FileTypes
<1>. QED
  BY <1>2, <1>3 DEF open, FileTypes

\* The RTC is given a descriptor that stays available
LEMMA OpenRtc ==
  ASSUME NEW fa \in [Fds -> Slot], NEW filename, NEW dentry,
         dentry = read_dentry_by_name(filename), dentry.filetype = FILE_TYPE_RTC,
         ~(NameLen[filename] >= FILENAME_LEN), FreeFds(fa) # {}
  PROVE  LET o == open(fa, filename)
         IN  /\ o.ret \in FreeFds(fa)
             /\ o.fa[o.ret].flags = FILE_AVAIL
             /\ \A fd \in Fds \ {o.ret} : o.fa[fd] = fa[fd]
<1> DEFINE Rtc(fb) == [fb EXCEPT ![NextFd(fb)].file_ops_table_ptr = "rtc",
                                 ![NextFd(fb)].inode_num = dentry.inode_num]
<1>1. NoDentry.filetype # FILE_TYPE_RTC
  BY DEF NoDentry, FILE_TYPE_RTC
<1>2. \A fb : FreeFds(fb) # {} => file_open(fb, filename) = Return(Rtc(fb), NextFd(fb))
  BY <1>1 DEF file_open, FILE_TYPE_RTC, FILE_TYPE_DIR, FILE_TYPE_FILE
<1>3. ASSUME NEW fb, DOMAIN fb = Fds, \A fd \in Fds : DOMAIN fb[fd] = DOMAIN blank, FreeFds(fb) # {}
      PROVE  /\ DOMAIN Rtc(fb) = Fds
             /\ \A fd \in Fds : DOMAIN Rtc(fb)[fd] = DOMAIN blank
             /\ \A fd \in Fds : Rtc(fb)[fd].flags = fb[fd].flags
             /\ \A fd \in Fds \ {NextFd(fb)} : Rtc(fb)[fd] = fb[fd]
             /\ NextFd(fb) \in FreeFds(fb) /\ FreeFds(fb) \subseteq Fds
  <2>1. NextFd(fb) \in FreeFds(fb) /\ FreeFds(fb) \subseteq Fds
    BY <1>3, NextFdType DEF FreeFds
  <2>2. "flags" \in DOMAIN blank
    BY DEF blank
  <2>. QED
    BY <1>3, <2>1, <2>2
<1> DEFINE fa1 == Rtc(fa)
           fa2 == Rtc(fa1)
<1>4. DOMAIN fa = Fds /\ \A fd \in Fds : DOMAIN fa[fd] = DOMAIN blank
  BY DEF Slot, blank
<1>5. /\ DOMAIN fa1 = Fds /\ \A fd \in Fds : DOMAIN fa1[fd] = DOMAIN blank
      /\ \A fd \in Fds : fa1[fd].flags = fa[fd].flags
      /\ \A fd \in Fds \ {NextFd(fa)} : fa1[fd] = fa[fd]
      /\ NextFd(fa) \in FreeFds(fa) /\ FreeFds(fa) \subseteq Fds
  BY <1>3, <1>4
<1>6. file_open(fa, filename) = Return(fa1, NextFd(fa))
  BY <1>2
<1> HIDE DEF fa1
<1>7. FreeFds(fa1) = FreeFds(fa)
  BY <1>5 DEF FreeFds
<1>8. NextFd(fa1) = NextFd(fa)
  BY <1>7 DEF NextFd
<1>9. /\ \A fd \in Fds : fa2[fd].flags = fa1[fd].flags
      /\ \A fd \in Fds \ {NextFd(fa1)} : fa2[fd] = fa1[fd]
  BY <1>3, <1>5, <1>7
<1>10. file_open(fa1, filename) = Return(fa2, NextFd(fa))
  BY <1>2, <1>7, <1>8
<1> HIDE DEF fa2
<1>11. NextFd(fa) # -1
  BY <1>5 DEF Fds
<1>12. /\ file_open(fa, filename).ret # -1
       /\ file_open(fa, filename).fa = fa1
  BY <1>6, <1>11 DEF Return, Outcome
<1>13. open(fa, filename) = Return(fa2, NextFd(fa))
  BY <1>1, <1>10, <1>12 DEF open, FILE_TYPE_RTC
<1>14. open(fa, filename).ret = NextFd(fa) /\ open(fa, filename).fa = fa2
  BY <1>13 DEF Return, Outcome
<1>15. fa[NextFd(fa)].flags = FILE_AVAIL
  BY <1>5 DEF FreeFds
<1>. QED
  BY <1>5, <1>8, <1>9, <1>14, <1>15

\* A fresh process has its third descriptor free
LEMMA FreshFree ==
  /\ FreeFds(init_file_array) # {}
  /\ \A fd \in FreeFds(init_file_array) : fd \in Fds /\ fd >= 2
  /\ init_file_array \in [Fds -> Slot]
  /\ init_file_array[0] = stdio /\ init_file_array[1] = stdio
<1>1. 2 \in Fds /\ 0 \in Fds /\ 1 \in Fds
  BY FileArrayAssumption DEF Fds
<1>2. init_file_array[2] = blank /\ init_file_array[0] = stdio /\ init_file_array[1] = stdio
  BY <1>1 DEF init_file_array
<1>3. 2 \in FreeFds(init_file_array)
  BY <1>1, <1>2, StdioIs DEF FreeFds
<1>. QED
  BY <1>2, <1>3, BlankType DEF FreeFds

----------------------------------------------------------------------------
(* pingpong *)

LEMMA PingpongStep ==
  ASSUME UInv, PingpongOpen \/ PingpongRate \/ PingpongDraw \/ PingpongTick
  PROVE  UInv' /\ Suffices
<1>1. Running /\ me.pc # "exit" /\ me.prog = "pingpong"
  BY DEF PingpongOpen, PingpongRate, PingpongDraw, PingpongTick, At
<1> DEFINE fa == pcb[cpu].file_array
           T == [prog : {"pingpong"}, pc : {"open", "rate", "draw", "tick"}, fd : Int]
<1>2. PingpongFrame(me, fa) /\ IInv /\ Usable
  BY <1>1, MyFrame
<1>3. BUFSIZE \in Int /\ 4 \in Int /\ 1 \in Int
  BY UserlandAssumption
<1>4. ASSUME NEW p \in T, Become(p), Stays, machine' = "up", p.pc # "open",
             Closed(pcb'[cpu].file_array, p.fd)
      PROVE  UInv'
  <2>1. PingpongFrame(p, pcb'[cpu].file_array)
    BY <1>4 DEF PingpongFrame, Closed
  <2>. QED
    BY <1>1, <1>4, <2>1, ProgramStays DEF Frame
<1>5. me \in T /\ me.fd \in Int /\ (me.pc # "open" => Closed(fa, me.fd))
  BY <1>2 DEF PingpongFrame, Closed
<1>6. CASE PingpongOpen
  <2>1. Open("rtc") /\ me.pc = "open" /\ Become([me EXCEPT !.pc = "rate", !.fd = ret'.val])
    BY <1>6 DEF PingpongOpen, At
  <2>2. "rtc" \in Names /\ read_dentry_by_name("rtc").filetype \in {FILE_TYPE_RTC, NoDentry.filetype}
    BY UserlandAssumption
  <2>3. fa = init_file_array
    BY <1>2, <2>1 DEF PingpongFrame
  <2> DEFINE o == open(fa, "rtc")
  <2>4. Stays /\ machine' = "up" /\ After("open", o)
    BY <1>2, <2>1, <2>2, OpenStays
  <2>5. Closed(o.fa, o.ret) /\ o.ret \in Int
    <3>1. CASE o = Fail(fa)
      <4>1. o.ret = -1
        BY <3>1, FailIs
      <4>. QED
        BY <4>1 DEF Closed, Fds
    <3>2. CASE o # Fail(fa)
      <4>1. NoDentry.filetype \notin FileTypes
        BY DEF NoDentry, FileTypes, FILE_TYPE_RTC, FILE_TYPE_DIR, FILE_TYPE_FILE
      <4>2. /\ read_dentry_by_name("rtc").filetype = FILE_TYPE_RTC
            /\ ~(NameLen["rtc"] >= FILENAME_LEN)
        BY <2>2, <3>2, <4>1, OpenFails
      <4>3. o.ret \in FreeFds(fa) /\ o.fa[o.ret].flags = FILE_AVAIL
        BY <2>3, <4>2, FreshFree, OpenRtc
      <4>. QED
        BY <4>3 DEF Closed, FreeFds, Fds
    <3>. QED
      BY <3>1, <3>2
  <2>6. o.over = 0
    BY OpenCloseOver
  <2> HIDE DEF o
  <2>7. Suffices
    BY <2>4, <2>6, AfterSuffices
  <2>8. ret'.val = o.ret /\ pcb'[cpu].file_array = o.fa
    BY <2>4 DEF After
  <2> DEFINE p == [me EXCEPT !.pc = "rate", !.fd = ret'.val]
  <2>9. p \in T /\ p.pc # "open" /\ p.fd = o.ret /\ Become(p)
    BY <1>5, <2>1, <2>5, <2>8
  <2> HIDE DEF p
  <2>. QED
    BY <1>4, <2>4, <2>5, <2>7, <2>8, <2>9
<1>7. ASSUME NEW pc \in {"draw", "tick"}, Goto(pc), Stays, machine' = "up", me.pc # "open",
             pcb'[cpu].file_array = fa
      PROVE  UInv'
  <2>1. Become([me EXCEPT !.pc = pc])
    BY <1>7 DEF Goto
  <2>2. [me EXCEPT !.pc = pc] \in T /\ [me EXCEPT !.pc = pc].fd = me.fd /\ [me EXCEPT !.pc = pc].pc = pc
    BY <1>5
  <2>. QED
    BY <1>4, <1>5, <1>7, <2>1, <2>2
<1>8. CASE PingpongRate
  <2>1. Write(me.fd, 4) /\ Goto("draw") /\ me.pc # "open"
    BY <1>8 DEF PingpongRate, At
  <2>. QED
    BY <1>3, <1>5, <1>7, <2>1, WriteStep
<1>9. CASE PingpongDraw
  <2>1. Write(1, BUFSIZE) /\ Goto("tick") /\ me.pc # "open"
    BY <1>9 DEF PingpongDraw, At
  <2>. QED
    BY <1>3, <1>7, <2>1, WriteStep
<1>10. CASE PingpongTick
  <2>1. Read(me.fd, 4) /\ Goto("draw") /\ me.pc # "open"
    BY <1>10 DEF PingpongTick, At
  <2>2. Stays /\ machine' = "up"
    BY <1>2, <1>3, <1>5, <2>1, ReadStays
  <2>3. PICK typed \in 0..MAX_INPUT_CHARS, ticked \in BOOLEAN :
           After("read", read(fa, me.fd, 4, typed, ticked))
    BY <1>2, <1>3, <1>5, <2>1, ReadStays
  <2>4. After("read", Fail(fa))
    BY <1>5, <2>1, <2>3, ClosedCalls
  <2>5. Suffices
    BY <1>1, <2>4, FailIs, AfterSuffices
  <2>6. pcb'[cpu].file_array = fa
    BY <2>4, FailIs DEF After
  <2>. QED
    BY <1>7, <2>1, <2>2, <2>5, <2>6
<1>. QED
  BY <1>6, <1>8, <1>9, <1>10

----------------------------------------------------------------------------
(* ls *)

\* A read of the directory gives the next name, or fails behind the last entry
LEMMA DirectoryRead ==
  ASSUME NEW fa \in [Fds -> Slot], NEW fd \in Fds, NEW nbytes \in Int, NEW typed, NEW ticked,
         fa[fd].flags = FILE_OCCUP, fa[fd].file_ops_table_ptr = "directory",
         NEW o, o = read(fa, fd, nbytes, typed, ticked), NEW index, index = fa[fd].file_position
  PROVE  /\ index \in Nat
         /\ index >= NUM_FILES => o = Fail(fa)
         /\ ~(index >= NUM_FILES) =>
               /\ NameLen[direntries[index].filename] \in Nat
               /\ o.fa = [fa EXCEPT ![fd].file_position = index + 1]
               /\ o.ret \in 0..FILENAME_LEN
               /\ o.ret = 0 <=> NameLen[direntries[index].filename] = 0
               /\ o.over \in Nat
               /\ nbytes > FILENAME_LEN => o.over = 0
               /\ nbytes >= FILENAME_LEN => o.over <= 1
<1>1. index \in 0..UINT_MOD - 1 /\ index \in Nat
  BY FileArrayAssumption DEF Slot
<1>2. o = directory_read(fa, fd, nbytes)
  BY StdioIs DEF read
<1>3. index >= NUM_FILES => o = Fail(fa)
  BY <1>2 DEF directory_read
<1>4. ASSUME ~(index >= NUM_FILES)
      PROVE  /\ NameLen[direntries[index].filename] \in Nat
             /\ o.fa = [fa EXCEPT ![fd].file_position = index + 1]
             /\ o.ret \in 0..FILENAME_LEN
             /\ o.ret = 0 <=> NameLen[direntries[index].filename] = 0
             /\ o.over \in Nat
             /\ nbytes > FILENAME_LEN => o.over = 0
             /\ nbytes >= FILENAME_LEN => o.over <= 1
  <2> DEFINE nl == NameLen[direntries[index].filename]
             len == Smaller(nl, FILENAME_LEN)
             over == IF nbytes < len + 1 THEN len + 1 - nbytes ELSE 0
  <2>1. NUM_FILES \in Nat /\ FILENAME_LEN \in Nat \ {0} /\ index \in 0..NUM_FILES - 1
    BY <1>1, <1>4, ImageAssumption
  <2>2. nl \in Nat
    BY <2>1, ImageAssumption DEF Dentry
  <2>3. index + 1 < UINT_MOD \/ index + 1 <= NUM_FILES
    BY <1>1, <2>1
  <2>4. (index + 1) % UINT_MOD = index + 1
    <3>1. index + 1 \in Nat /\ index + 1 < UINT_MOD
      BY <2>1, FileArrayAssumption
    <3>. QED
      BY <3>1, NoWrap
  <2>5. o = Outcome([fa EXCEPT ![fd].file_position = (@ + 1) % UINT_MOD], len, over, "up")
    BY <1>2, <1>4 DEF directory_read
  <2>6. [fa EXCEPT ![fd].file_position = (@ + 1) % UINT_MOD]
          = [fa EXCEPT ![fd].file_position = (index + 1) % UINT_MOD]
    OBVIOUS
  <2>7. o = Outcome([fa EXCEPT ![fd].file_position = index + 1], len, over, "up")
    BY <2>4, <2>5, <2>6
  <2> HIDE DEF nl
  <2>8. len \in 0..FILENAME_LEN /\ (len = 0 <=> nl = 0)
    BY <2>1, <2>2 DEF Smaller
  <2> HIDE DEF len
  <2>9. over \in Nat /\ (nbytes > FILENAME_LEN => over = 0) /\ (nbytes >= FILENAME_LEN => over <= 1)
    BY <2>1, <2>8
  <2> HIDE DEF over
  <2>10. o.fa = [fa EXCEPT ![fd].file_position = index + 1] /\ o.ret = len /\ o.over = over
    BY <2>7 DEF Outcome
  <2>. QED
    BY <2>2, <2>8, <2>9, <2>10 DEF nl
<1>. QED
  BY <1>1, <1>3, <1>4

\* The directory opened by a fresh process
LEMMA OpenDirectory ==
  ASSUME NEW o, o = open(init_file_array, ".")
  PROVE  /\ o.ret \in Fds /\ o.ret >= 2 /\ o.ret # -1
         /\ o.fa = [init_file_array EXCEPT ![o.ret] = OpenSlot(read_dentry_by_name("."))]
         /\ o.fa[o.ret].flags = FILE_OCCUP
         /\ o.fa[o.ret].file_ops_table_ptr = "directory"
         /\ o.fa[o.ret].file_position = 0
         /\ o.fa[1] = stdio
         /\ "." \in Names
<1> DEFINE dentry == read_dentry_by_name(".")
           fd == NextFd(init_file_array)
<1>1. dentry.filetype = FILE_TYPE_DIR /\ NameLen["."] < FILENAME_LEN /\ "." \in Names
  BY UserlandAssumption
<1>2. ~(NameLen["."] >= FILENAME_LEN)
  BY <1>1, ImageAssumption
<1>3. FreeFds(init_file_array) # {}
  BY FreshFree
<1>4. o = Return([init_file_array EXCEPT ![fd] = OpenSlot(dentry)], fd)
  BY <1>1, <1>2, <1>3, OpenFile
<1>5. fd \in Fds /\ fd >= 2 /\ DOMAIN init_file_array = Fds
  BY <1>3, NextFdType, FreshFree
<1>6. fd # -1 /\ fd # 1 /\ 1 \in Fds
  BY <1>5, FileArrayAssumption DEF Fds
<1> DEFINE opened == [init_file_array EXCEPT ![fd] = OpenSlot(dentry)]
<1> HIDE DEF fd
<1>7. o.ret = fd /\ o.fa = opened
  <2>1. o = Return(opened, fd)
    BY <1>4
  <2> HIDE DEF opened
  <2>. QED
    BY <2>1 DEF Return, Outcome
<1>8. o.fa[fd] = OpenSlot(dentry) /\ o.fa[1] = stdio
  BY <1>5, <1>6, <1>7, FreshFree
<1>9. /\ OpenSlot(dentry).flags = FILE_OCCUP
      /\ OpenSlot(dentry).file_ops_table_ptr = "directory"
      /\ OpenSlot(dentry).file_position = 0
  BY <1>1 DEF OpenSlot, FILE_TYPE_DIR, FILE_TYPE_FILE
<1>. QED
  BY <1>1, <1>5, <1>6, <1>7, <1>8, <1>9

\* The used entries are counted by the first that is not
LEMMA UsedCount ==
  ASSUME NEW n \in Nat, UsedBefore(n),
         n < NUM_FILES => NameLen[direntries[n].filename] = 0
  PROVE  LET used == {i \in 0..NUM_FILES - 1 : \A j \in 0..i : NameLen[direntries[j].filename] > 0}
         IN  Cardinality(used) = n
<1> DEFINE used == {i \in 0..NUM_FILES - 1 : \A j \in 0..i : NameLen[direntries[j].filename] > 0}
<1>1. NUM_FILES \in Nat /\ n <= NUM_FILES
  BY ImageAssumption DEF UsedBefore
<1>2. ASSUME NEW i \in 0..n - 1 PROVE i \in used
  <2>1. i \in 0..NUM_FILES - 1
    BY <1>1
  <2>2. \A j \in 0..i : NameLen[direntries[j].filename] > 0
    BY DEF UsedBefore
  <2>. QED
    BY <2>1, <2>2
<1>3. ASSUME NEW i \in used PROVE i \in 0..n - 1
  <2>1. i \in 0..NUM_FILES - 1 /\ \A j \in 0..i : NameLen[direntries[j].filename] > 0
    OBVIOUS
  <2>2. CASE i >= n
    <3>1. n \in 0..i /\ n < NUM_FILES
      BY <1>1, <2>1, <2>2
    <3>2. NameLen[direntries[n].filename] > 0 /\ NameLen[direntries[n].filename] = 0
      BY <2>1, <3>1
    <3>. QED
      BY <3>2
  <2>. QED
    BY <1>1, <2>1, <2>2
<1>4. used = 0..n - 1
  BY <1>2, <1>3
<1>5. Cardinality(0..n - 1) = n
  BY FS_Interval
<1>. QED
  BY <1>4, <1>5

LEMMA LsResultIs ==
  ASSUME NEW n \in Nat, UsedBefore(n),
         n < NUM_FILES => NameLen[direntries[n].filename] = 0
  PROVE  LsResult(IF n = NUM_FILES THEN 3 ELSE 0, n)
BY UsedCount DEF LsResult

LEMMA LsStep ==
  ASSUME UInv, LsOpen \/ LsRead \/ LsWrite
  PROVE  UInv' /\ Suffices
<1>1. Running /\ me.pc # "exit" /\ me.prog = "ls"
  BY DEF LsOpen, LsRead, LsWrite, At
<1> DEFINE fa == pcb[cpu].file_array
           T == [prog : {"ls"}, pc : {"open", "read", "write"}, fd : Int, cnt : Int, shown : Nat]
<1>2. LsFrame(me, fa) /\ IInv /\ Usable
  BY <1>1, MyFrame
<1>3. fa \in [Fds -> Slot]
  BY <1>1, <1>2, MyArray
<1>4. SBUFSIZE - 1 = FILENAME_LEN /\ FILENAME_LEN \in Nat \ {0} /\ NUM_FILES \in Nat
  BY UserlandAssumption, ImageAssumption
<1>5. me \in T /\ me.shown \in Nat /\ me.cnt \in Int /\ me.fd \in Int /\ fa[1] = stdio
  BY <1>2 DEF LsFrame
<1>6. ASSUME NEW p, LsFrame(p, pcb'[cpu].file_array), Become(p), Stays, machine' = "up"
      PROVE  UInv'
  <2>1. p.prog = me.prog
    BY <1>1, <1>6 DEF LsFrame
  <2>. QED
    BY <1>1, <1>6, <2>1, ProgramStays DEF Frame
<1>7. ASSUME NEW status \in Nat, Become(Exit(status)), Stays, machine' = "up",
             LsResult(status, me.shown)
      PROVE  UInv'
  BY <1>1, <1>7, ExitStays
<1>8. CASE LsOpen
  <2>1. /\ Open(".") /\ me.pc = "open"
        /\ Become(IF ret'.val = -1 THEN Exit(2) ELSE [me EXCEPT !.pc = "read", !.fd = ret'.val])
    BY <1>8 DEF LsOpen, At
  <2>2. fa = init_file_array /\ me.shown = 0
    BY <1>2, <2>1 DEF LsFrame
  <2> DEFINE o == open(fa, ".")
  <2>3. /\ o.ret \in Fds /\ o.ret >= 2 /\ o.ret # -1
        /\ o.fa[o.ret].flags = FILE_OCCUP
        /\ o.fa[o.ret].file_ops_table_ptr = "directory"
        /\ o.fa[o.ret].file_position = 0
        /\ o.fa[1] = stdio
        /\ "." \in Names
    BY <2>2, OpenDirectory
  <2>4. o.over = 0
    BY OpenCloseOver
  <2>5. Stays /\ machine' = "up" /\ After("open", o)
    BY <1>2, <2>1, <2>3, OpenStays
  <2> HIDE DEF o
  <2>6. Suffices
    BY <2>4, <2>5, AfterSuffices
  <2>7. ret'.val = o.ret /\ pcb'[cpu].file_array = o.fa
    BY <2>5 DEF After
  <2> DEFINE p == [me EXCEPT !.pc = "read", !.fd = ret'.val]
  <2>8. Become(p)
    BY <2>1, <2>3, <2>7
  <2>9. o.ret \in Int
    BY <2>3 DEF Fds
  <2>10. p \in T /\ p.pc = "read" /\ p.fd = o.ret /\ p.shown = 0
    BY <1>5, <2>2, <2>7, <2>9
  <2> HIDE DEF p
  <2>11. UsedBefore(0)
    BY <1>4 DEF UsedBefore
  <2>12. LsFrame(p, o.fa)
    BY <2>3, <2>10, <2>11 DEF LsFrame
  <2>. QED
    BY <1>6, <2>5, <2>6, <2>7, <2>8, <2>12
<1>9. CASE LsRead
  <2>1. /\ Read(me.fd, FILENAME_LEN) /\ me.pc = "read"
        /\ Become(CASE ret'.val = 0  -> Exit(0)
                    [] ret'.val = -1 -> Exit(3)
                    [] OTHER -> [me EXCEPT !.pc = "write", !.cnt = ret'.val])
    BY <1>4, <1>9 DEF LsRead, At
  <2> DEFINE n == me.shown
  <2>2. /\ me.fd \in Fds /\ me.fd >= 2
        /\ fa[me.fd].flags = FILE_OCCUP
        /\ fa[me.fd].file_ops_table_ptr = "directory"
        /\ fa[me.fd].file_position = n
        /\ UsedBefore(n)
    BY <1>2, <1>5, <2>1 DEF LsFrame
  <2>3. n <= NUM_FILES
    BY <2>2 DEF UsedBefore
  <2>4. Stays /\ machine' = "up"
    BY <1>2, <1>4, <1>5, <2>1, ReadStays
  <2>5. PICK typed \in 0..MAX_INPUT_CHARS, ticked \in BOOLEAN :
           After("read", read(fa, me.fd, FILENAME_LEN, typed, ticked))
    BY <1>2, <1>4, <1>5, <2>1, ReadStays
  <2> DEFINE o == read(fa, me.fd, FILENAME_LEN, typed, ticked)
  <2>6. /\ n >= NUM_FILES => o = Fail(fa)
        /\ ~(n >= NUM_FILES) =>
               /\ NameLen[direntries[n].filename] \in Nat
               /\ o.fa = [fa EXCEPT ![me.fd].file_position = n + 1]
               /\ o.ret \in 0..FILENAME_LEN
               /\ o.ret = 0 <=> NameLen[direntries[n].filename] = 0
               /\ o.over \in Nat
               /\ o.over <= 1
    <3>1. o = read(fa, me.fd, FILENAME_LEN, typed, ticked)
      OBVIOUS
    <3>2. FILENAME_LEN \in Int /\ FILENAME_LEN >= FILENAME_LEN /\ n = fa[me.fd].file_position
      BY <1>4, <2>2
    <3> HIDE DEF o, n
    <3>. QED
      BY <1>3, <2>2, <3>1, <3>2, DirectoryRead
  <2> HIDE DEF o
  <2>7. After("read", o)
    BY <2>5 DEF o
  <2>8. ret'.val = o.ret /\ pcb'[cpu].file_array = o.fa
    BY <2>7 DEF After
  <2>9. CASE n >= NUM_FILES
    <3>1. o.ret = -1 /\ o.over = 0
      BY <2>6, <2>9, FailIs
    <3>2. Suffices
      BY <1>1, <2>7, <3>1, AfterSuffices
    <3>3. n = NUM_FILES
      BY <1>4, <1>5, <2>3, <2>9
    <3>4. LsResult(3, n)
      BY <1>4, <1>5, <2>2, <3>3, LsResultIs
    <3>5. Become(Exit(3))
      BY <2>1, <2>8, <3>1
    <3>. QED
      BY <1>7, <2>4, <3>2, <3>4, <3>5
  <2>10. CASE ~(n >= NUM_FILES) /\ o.ret = 0
    <3>1. o.over \in 0..1
      BY <2>6, <2>10
    <3>2. Suffices
      BY <1>1, <2>7, <3>1, AfterSuffices
    <3>3. n # NUM_FILES /\ NameLen[direntries[n].filename] = 0
      BY <1>4, <1>5, <2>6, <2>10
    <3>4. LsResult(0, n)
      BY <1>5, <2>2, <3>3, LsResultIs
    <3>5. Become(Exit(0))
      BY <2>1, <2>8, <2>10
    <3>. QED
      BY <1>7, <2>4, <3>2, <3>4, <3>5
  <2>11. CASE ~(n >= NUM_FILES) /\ o.ret # 0
    <3>1. o.over \in 0..1 /\ o.ret # -1 /\ o.ret \in Int
      BY <1>4, <2>6, <2>11
    <3>2. Suffices
      BY <1>1, <2>7, <3>1, AfterSuffices
    <3> DEFINE p == [me EXCEPT !.pc = "write", !.cnt = ret'.val]
    <3>3. Become(p)
      BY <2>1, <2>8, <2>11, <3>1
    <3>4. p \in T /\ p.pc = "write" /\ p.fd = me.fd /\ p.shown = n
      BY <1>5, <2>8, <3>1
    <3> HIDE DEF p
    <3>5. /\ o.fa[me.fd].flags = FILE_OCCUP
          /\ o.fa[me.fd].file_ops_table_ptr = "directory"
          /\ o.fa[me.fd].file_position = n + 1
          /\ o.fa[1] = fa[1]
      <4>1. o.fa = [fa EXCEPT ![me.fd].file_position = n + 1]
        BY <2>6, <2>11
      <4>2. me.fd # 1 /\ 1 \in Fds
        BY <2>2, FileArrayAssumption DEF Fds
      <4>3. o.fa[me.fd] = [fa[me.fd] EXCEPT !.file_position = n + 1] /\ o.fa[1] = fa[1]
        BY <1>3, <2>2, <4>1, <4>2
      <4>4. fa[me.fd] \in Slot
        BY <1>3, <2>2
      <4>. QED
        BY <2>2, <4>3, <4>4 DEF Slot
    <3>6. UsedBefore(n + 1)
      <4>1. NameLen[direntries[n].filename] > 0
        BY <2>6, <2>11
      <4>2. n + 1 <= NUM_FILES /\ \A j \in 0..(n + 1) - 1 : j \in 0..n - 1 \/ j = n
        BY <1>4, <1>5, <2>11
      <4>. QED
        BY <2>2, <4>1, <4>2 DEF UsedBefore
    <3>7. LsFrame(p, o.fa)
      BY <1>5, <2>2, <3>4, <3>5, <3>6 DEF LsFrame
    <3>. QED
      BY <1>6, <2>4, <2>8, <3>2, <3>3, <3>7
  <2>. QED
    BY <2>9, <2>10, <2>11
<1>10. CASE LsWrite
  <2>1. /\ Write(1, me.cnt + 1) /\ me.pc = "write"
        /\ Become(IF ret'.val = -1 THEN Exit(3)
                  ELSE [me EXCEPT !.pc = "read", !.shown = me.shown + 1])
    BY <1>10 DEF LsWrite, At
  <2>2. /\ Stays /\ machine' = "up" /\ Suffices /\ pcb'[cpu].file_array = fa
        /\ ret'.val # -1
    <3>1. me.cnt + 1 \in Int /\ 1 \in Int
      BY <1>5
    <3>. QED
      BY <1>5, <2>1, <3>1, WriteStep
  <2> DEFINE p == [me EXCEPT !.pc = "read", !.shown = me.shown + 1]
  <2>3. Become(p)
    BY <2>1, <2>2
  <2>4. me.shown + 1 \in Nat
    BY <1>5
  <2>5. p \in T /\ p.pc = "read" /\ p.fd = me.fd /\ p.shown = me.shown + 1
    BY <1>5, <2>4
  <2> HIDE DEF p
  <2>6. /\ me.fd \in Fds /\ me.fd >= 2
        /\ fa[me.fd].flags = FILE_OCCUP
        /\ fa[me.fd].file_ops_table_ptr = "directory"
        /\ fa[me.fd].file_position = me.shown + 1
        /\ UsedBefore(me.shown + 1)
    BY <1>2, <2>1 DEF LsFrame
  <2>7. me.shown + 1 + 0 = me.shown + 1
    BY <1>5
  <2>8. LsFrame(p, fa)
    BY <1>5, <2>5, <2>6, <2>7 DEF LsFrame
  <2>. QED
    BY <1>6, <2>2, <2>3, <2>8
<1>. QED
  BY <1>8, <1>9, <1>10

----------------------------------------------------------------------------
(* cat *)

\* read_data copies the bytes up to the count or the end of the file, and
\* fails just when a block of one of them is missing
LEMMA ReadDataCases ==
  ASSUME NEW inode \in Nat, NEW pos \in Nat, NEW nbytes \in Nat \ {0}, inode < inode_count,
         ~(pos >= flength(inode)), NEW n, n = read_data(inode, pos, nbytes)
  PROVE  \/ /\ n \in 1..nbytes
            /\ pos + n <= flength(inode)
            /\ \A k \in pos..pos + n - 1 : Exists(inode, k)
         \/ /\ n = -1
            /\ \E k \in pos..flength(inode) - 1 : ~Exists(inode, k)
<1> DEFINE len == flength(inode)
           a == Available(inode, pos, nbytes)
           N == NUM_B_IN_FOUR_KB
<1>1. inode \in 0..inode_count - 1 /\ len \in Nat /\ N \in Nat \ {0}
  BY ImageAssumption DEF flength
<1>2. a \in 1..nbytes /\ pos + a <= len
  BY <1>1 DEF Available, Smaller
<1>3. Touched(inode, pos, nbytes) = (pos \div N)..((pos + a - 1) \div N)
  BY <1>2 DEF Touched
<1>4. n = IF \E b \in Touched(inode, pos, nbytes) : inodes[inode].data_block_num[b] >= data_count
          THEN -1 ELSE a
  BY <1>1, ImageAssumption DEF read_data, Missing
<1>5. \A b \in 0..(len \div N) : inodes[inode].data_block_num[b] \in Int
  BY <1>1, ImageAssumption DEF flength
<1> HIDE DEF a, len
<1>6. pos \in Nat /\ pos + a - 1 \in Nat /\ pos + a - 1 <= len - 1
  BY <1>1, <1>2
<1>7. pos \div N \in Nat /\ (pos + a - 1) \div N \in Nat /\ (pos + a - 1) \div N <= len \div N
      /\ len \div N \in Nat
  <2>1. pos \div N \in Nat /\ (pos + a - 1) \div N \in Nat /\ len \div N \in Nat
    BY <1>1, <1>6, Divide
  <2>2. pos + a - 1 <= len
    BY <1>1, <1>6
  <2>3. (pos + a - 1) \div N <= len \div N
    BY <1>1, <1>6, <2>2, QuotientMonotone
  <2>. QED
    BY <2>1, <2>3
<1>8. CASE \E b \in Touched(inode, pos, nbytes) : inodes[inode].data_block_num[b] >= data_count
  <2>1. PICK b \in (pos \div N)..((pos + a - 1) \div N) :
           inodes[inode].data_block_num[b] >= data_count
    BY <1>3, <1>8
  <2>2. b \in Nat /\ b \in 0..(len \div N) /\ b <= (pos + a - 1) \div N /\ b >= pos \div N
    BY <1>7
  <2>3. inodes[inode].data_block_num[b] \in Int /\ data_count \in Int
    BY <1>5, <2>2, ImageAssumption
  <2>4. \E k \in pos..pos + a - 1 : k \div N = b
    <3>1. CASE b = pos \div N
      <4>1. pos \in pos..pos + a - 1
        BY <1>2, <1>6
      <4>. QED
        BY <3>1, <4>1
    <3>2. CASE b # pos \div N
      <4> DEFINE d == pos \div N
                 e == (pos + a - 1) \div N
                 k == b * N
      <4>1. /\ pos = d * N + (pos % N) /\ pos % N \in 0..N - 1
            /\ pos + a - 1 = e * N + ((pos + a - 1) % N) /\ (pos + a - 1) % N \in 0..N - 1
            /\ d \in Nat /\ e \in Nat
        BY <1>6, Divide
      <4> HIDE DEF d, e
      <4>2. d < b /\ b <= e
        BY <2>2, <3>2, <4>1 DEF d, e
      <4>3. d * N + N <= b * N
        BY <2>2, <4>1, <4>2, Multiples
      <4>4. b = e \/ b * N + N <= e * N
        BY <2>2, <4>1, <4>2, Multiples
      <4>5. b * N \in Nat /\ d * N \in Nat /\ e * N \in Nat
        BY <1>1, <2>2, <4>1
      <4>6. b * N <= e * N
        BY <1>1, <4>4, <4>5
      <4>7. k \in pos..pos + a - 1
        <5> DEFINE dN == d * N
                   bN == b * N
                   eN == e * N
                   r == pos % N
                   s == (pos + a - 1) % N
        <5>1. /\ dN \in Nat /\ bN \in Nat /\ eN \in Nat /\ dN + N <= bN /\ bN <= eN
              /\ pos = dN + r /\ pos + a - 1 = eN + s /\ r \in 0..N - 1 /\ s \in 0..N - 1
          BY <4>1, <4>3, <4>5, <4>6
        <5> HIDE DEF dN, bN, eN, r, s
        <5>2. pos <= bN /\ bN <= pos + a - 1
          BY <1>1, <1>6, <5>1
        <5>3. k = bN
          BY DEF bN
        <5> HIDE DEF k
        <5>. QED
          BY <1>6, <5>1, <5>2, <5>3
      <4>8. k = b * N + 0 /\ 0 \in 0..N - 1 /\ k \in Nat
        BY <1>1, <4>5
      <4>9. k \div N = b
        BY <2>2, <4>8, Quotient
      <4>. QED
        BY <4>7, <4>9
    <3>. QED
      BY <3>1, <3>2
  <2>5. PICK k \in pos..pos + a - 1 : k \div N = b
    BY <2>4
  <2>6. ~Exists(inode, k)
    BY <2>1, <2>3, <2>5 DEF Exists
  <2>7. k \in pos..len - 1
    BY <1>1, <1>6
  <2>. QED
    BY <1>4, <1>8, <2>6, <2>7 DEF len
<1>9. CASE ~ \E b \in Touched(inode, pos, nbytes) : inodes[inode].data_block_num[b] >= data_count
  <2>1. n = a
    BY <1>4, <1>9
  <2>2. ASSUME NEW k \in pos..pos + a - 1 PROVE Exists(inode, k)
    <3>1. k \in Nat /\ pos <= k /\ k <= pos + a - 1
      BY <1>6
    <3>2. pos \div N <= k \div N
      BY <1>6, <3>1, QuotientMonotone
    <3>3. k \div N <= (pos + a - 1) \div N
      BY <1>6, <3>1, QuotientMonotone
    <3>4. k \div N \in Nat
      BY <3>1, Divide
    <3>5. k \div N \in (pos \div N)..((pos + a - 1) \div N) /\ k \div N \in 0..(len \div N)
      BY <1>7, <3>2, <3>3, <3>4
    <3>6. ~(inodes[inode].data_block_num[k \div N] >= data_count)
      BY <1>3, <1>9, <3>5
    <3>7. inodes[inode].data_block_num[k \div N] \in Int /\ data_count \in Int
      BY <1>5, <3>5, ImageAssumption
    <3>. QED
      BY <3>6, <3>7 DEF Exists
  <2>. QED
    BY <1>2, <2>1, <2>2 DEF len
<1>. QED
  BY <1>8, <1>9

LEMMA FileRead ==
  ASSUME NEW fa \in [Fds -> Slot], NEW fd \in Fds, fd >= 2, NEW nbytes \in Nat, nbytes < UINT_MOD,
         NEW typed, NEW ticked,
         fa[fd].flags = FILE_OCCUP, fa[fd].file_ops_table_ptr = "file",
         NEW inode, inode = fa[fd].inode_num, NEW pos, pos = fa[fd].file_position,
         NEW o, o = read(fa, fd, nbytes, typed, ticked), NEW n, n = read_data(inode, pos, nbytes)
  PROVE  /\ o.ret = n /\ o.over = 0
         /\ o.fa[fd] = [fa[fd] EXCEPT !.file_position = (pos + n) % UINT_MOD]
<1>1. o = file_read(fa, fd, nbytes)
  BY StdioIs DEF read
<1>2. Unsigned(nbytes) = nbytes
  BY NoWrap DEF Unsigned
<1> DEFINE fa2 == [fa EXCEPT ![fd].file_position = (@ + n) % UINT_MOD]
<1>3. o = Return(fa2, n)
  BY <1>1, <1>2 DEF file_read, Fds
<1>4. fa2[fd] = [fa[fd] EXCEPT !.file_position = (pos + n) % UINT_MOD]
  OBVIOUS
<1> HIDE DEF fa2
<1>5. o.fa = fa2 /\ o.ret = n /\ o.over = 0
  BY <1>3 DEF Return, Outcome
<1>. QED
  BY <1>4, <1>5


\* A read of a descriptor that is neither stdin nor stdout
LEMMA HighRead ==
  ASSUME NEW fa \in [Fds -> Slot], UsableArray(fa), NEW fd \in Fds, fd >= 2, NEW nbytes \in Int,
         NEW typed, NEW ticked, NEW o \in Outcomes, o = read(fa, fd, nbytes, typed, ticked)
  PROVE  /\ \A g \in Fds \ {fd} : o.fa[g] = fa[g]
         /\ nbytes > FILENAME_LEN => o.over = 0
         /\ o.ret \in Int
<1>1. o.ret \in Int
  BY DEF Outcomes
<1>2. CASE fa[fd].flags = FILE_AVAIL
  <2>1. o = Fail(fa)
    BY <1>2, ClosedCalls DEF Closed
  <2>. QED
    BY <1>1, <2>1, FailIs
<1>3. CASE fa[fd].flags = FILE_OCCUP /\ fa[fd].file_ops_table_ptr = "directory"
  <2> DEFINE index == fa[fd].file_position
             len == Smaller(NameLen[direntries[index].filename], FILENAME_LEN)
             over == IF nbytes < len + 1 THEN len + 1 - nbytes ELSE 0
             fa2 == [fa EXCEPT ![fd].file_position = (@ + 1) % UINT_MOD]
  <2>1. o = directory_read(fa, fd, nbytes)
    BY <1>3, StdioIs DEF read
  <2>2. o = IF index >= NUM_FILES THEN Fail(fa) ELSE Outcome(fa2, len, over, "up")
    BY <2>1 DEF directory_read
  <2>3. \A g \in Fds \ {fd} : fa2[g] = fa[g]
    OBVIOUS
  <2>4. nbytes > FILENAME_LEN /\ ~(index >= NUM_FILES) => over = 0
    <3>1. FILENAME_LEN \in Nat /\ NUM_FILES \in Nat /\ index \in Nat
      BY ImageAssumption, FileArrayAssumption DEF Slot
    <3>2. ~(index >= NUM_FILES) => NameLen[direntries[index].filename] \in Nat
      <4>1. ~(index >= NUM_FILES) => index \in 0..NUM_FILES - 1
        BY <3>1
      <4>. QED
        BY <4>1, ImageAssumption DEF Dentry
    <3>. QED
      BY <3>1, <3>2 DEF Smaller
  <2> HIDE DEF index, len, over, fa2
  <2>5. CASE index >= NUM_FILES
    BY <1>1, <2>2, <2>5, FailIs
  <2>6. CASE ~(index >= NUM_FILES)
    <3>1. o = Outcome(fa2, len, over, "up")
      BY <2>2, <2>6
    <3>2. o.fa = fa2 /\ o.over = over
      BY <3>1 DEF Outcome
    <3>. QED
      BY <1>1, <2>3, <2>4, <2>6, <3>2
  <2>. QED
    BY <2>5, <2>6
<1>4. CASE fa[fd].flags = FILE_OCCUP /\ fa[fd].file_ops_table_ptr = "file"
  <2>1. o = file_read(fa, fd, nbytes)
    BY <1>4, StdioIs DEF read
  <2> DEFINE n == read_data(fa[fd].inode_num, fa[fd].file_position, Unsigned(nbytes))
             fa2 == [fa EXCEPT ![fd].file_position = (@ + n) % UINT_MOD]
  <2>2. o = Return(fa2, n)
    BY <2>1 DEF file_read, Fds
  <2>3. \A g \in Fds \ {fd} : fa2[g] = fa[g]
    OBVIOUS
  <2> HIDE DEF fa2, n
  <2>4. o.fa = fa2 /\ o.over = 0
    BY <2>2 DEF Return, Outcome
  <2>. QED
    BY <1>1, <2>3, <2>4
<1>5. fa[fd].flags \in {FILE_AVAIL, FILE_OCCUP}
  BY DEF Slot
<1>6. fa[fd].flags = FILE_OCCUP => fa[fd].file_ops_table_ptr \in {"file", "directory"}
  BY DEF UsableArray, Ops, Fds
<1>. QED
  BY <1>2, <1>3, <1>4, <1>5, <1>6

\* cat's result when a file was found
LEMMA CatFound ==
  ASSUME NEW arg, NEW dentry, dentry = read_dentry_by_name(arg), dentry.filetype \in FileTypes,
         arg # NoArg, ~(NameLen[arg] >= FILENAME_LEN), NEW shown
  PROVE  /\ dentry.filetype = FILE_TYPE_DIR \/ dentry.filetype = FILE_TYPE_RTC =>
              CatResult(3, shown, arg)
         /\ dentry.filetype = FILE_TYPE_DIR => CatResult(0, shown, arg)
         /\ dentry.filetype = FILE_TYPE_FILE /\ ~Readable(dentry.inode_num) =>
              CatResult(3, shown, arg)
         /\ dentry.filetype = FILE_TYPE_FILE /\ Readable(dentry.inode_num)
              /\ shown = flength(dentry.inode_num) => CatResult(0, shown, arg)
<1>1. dentry.filetype # NoDentry.filetype
  BY DEF NoDentry, FileTypes, FILE_TYPE_RTC, FILE_TYPE_DIR, FILE_TYPE_FILE
<1>2. FILE_TYPE_DIR # FILE_TYPE_FILE /\ FILE_TYPE_RTC # FILE_TYPE_FILE /\ FILE_TYPE_RTC # FILE_TYPE_DIR
  BY DEF FILE_TYPE_RTC, FILE_TYPE_DIR, FILE_TYPE_FILE
<1>3. read_dentry_by_name(arg).filetype # NoDentry.filetype
  BY <1>1
<1>. QED
  BY <1>1, <1>2, <1>3 DEF CatResult

LEMMA CatArgsStep ==
  ASSUME UInv, CatArgs
  PROVE  UInv' /\ Suffices
<1> DEFINE fa == pcb[cpu].file_array
           arg == pcb[cpu].arg
           T == [prog : {"cat"}, pc : {"args", "open", "read", "write"}, arg : Args, fd : Int,
                 cnt : Int, shown : Int]
<1>1. /\ Running /\ me.pc = "args" /\ me.prog = "cat" /\ Getargs(BUFSIZE)
      /\ Become(IF ret'.val # 0 THEN Exit(3)
                ELSE [me EXCEPT !.pc = "open", !.arg = pcb[getCurrentProcessPCB].arg])
  BY DEF CatArgs, At
<1>2. CatFrame(me, fa, arg) /\ IInv
  BY <1>1, MyFrame
<1>3. /\ Stays /\ machine' = "up" /\ Suffices /\ pcb' = pcb
      /\ ret'.val # 0 <=> arg = NoArg
      /\ arg \in Args
  BY <1>1, GetargsStep
<1>4. me \in T /\ me.shown = 0 /\ fa = init_file_array /\ fa[1] = stdio
  BY <1>1, <1>2 DEF CatFrame
<1>5. CASE arg = NoArg
  <2>1. CatResult(3, me.shown, arg)
    BY <1>5 DEF CatResult
  <2>2. Become(Exit(3))
    BY <1>1, <1>3, <1>5
  <2>3. me.prog = "ls" => LsResult(3, me.shown)
    BY <1>1
  <2>. QED
    BY <1>1, <1>3, <2>1, <2>2, <2>3, ExitStays
<1>6. CASE arg # NoArg
  <2> DEFINE p == [me EXCEPT !.pc = "open", !.arg = arg]
  <2>1. getCurrentProcessPCB = cpu
    BY <1>2, CurrentBlock
  <2>2. Become(p)
    BY <1>1, <1>3, <1>6, <2>1
  <2>3. p \in T /\ p.pc = "open" /\ p.arg = arg /\ p.shown = 0 /\ p.prog = me.prog
    BY <1>1, <1>3, <1>4
  <2> HIDE DEF p
  <2>4. CatFrame(p, fa, arg)
    BY <1>4, <1>6, <2>3 DEF CatFrame
  <2>5. Frame(p, pcb'[cpu].file_array, arg)
    BY <1>3, <2>4 DEF Frame
  <2>. QED
    BY <1>1, <1>3, <2>2, <2>3, <2>5, ProgramStays
<1>. QED
  BY <1>5, <1>6

LEMMA CatOpenStep ==
  ASSUME UInv, CatOpen
  PROVE  UInv' /\ Suffices
<1> DEFINE fa == pcb[cpu].file_array
           arg == pcb[cpu].arg
           T == [prog : {"cat"}, pc : {"args", "open", "read", "write"}, arg : Args, fd : Int,
                 cnt : Int, shown : Int]
           dentry == read_dentry_by_name(arg)
           o == open(fa, arg)
<1>1. /\ Running /\ me.pc = "open" /\ me.prog = "cat" /\ Open(me.arg)
      /\ Become(IF ret'.val = -1 THEN Exit(2) ELSE [me EXCEPT !.pc = "read", !.fd = ret'.val])
  BY DEF CatOpen, At
<1>2. CatFrame(me, fa, arg) /\ IInv /\ Usable
  BY <1>1, MyFrame
<1>3. me \in T /\ me.shown = 0 /\ fa = init_file_array /\ me.arg = arg /\ arg # NoArg /\ arg \in Args
  BY <1>1, <1>2 DEF CatFrame
<1>4. arg \in Names /\ NameLen[arg] \in Nat /\ FILENAME_LEN \in Nat
  BY <1>3, UserlandAssumption, ImageAssumption
<1>5. dentry \in Dentry
  BY <1>4, DentryType
<1>6. Stays /\ machine' = "up" /\ After("open", o)
  BY <1>1, <1>2, <1>3, <1>4, OpenStays
<1>7. o.over = 0
  BY OpenCloseOver
<1>8. FreeFds(fa) # {} /\ fa \in [Fds -> Slot] /\ fa[1] = stdio
      /\ \A fd \in FreeFds(fa) : fd \in Fds /\ fd >= 2
  BY <1>3, FreshFree
<1>9. dentry.filetype \in FileTypes \/ dentry.filetype = NoDentry.filetype
  <2>1. dentry.filetype \in 0..3
    BY <1>5 DEF Dentry
  <2>. QED
    BY <2>1 DEF NoDentry, FileTypes, FILE_TYPE_RTC, FILE_TYPE_DIR, FILE_TYPE_FILE
<1>10. NoDentry.filetype \notin FileTypes
  BY DEF NoDentry, FileTypes, FILE_TYPE_RTC, FILE_TYPE_DIR, FILE_TYPE_FILE
<1>11. Suffices
  <2> HIDE DEF o
  <2>. QED
    BY <1>6, <1>7, AfterSuffices
<1>12. ret'.val = o.ret /\ pcb'[cpu].file_array = o.fa
  <2> HIDE DEF o
  <2>. QED
    BY <1>6 DEF After
<1>13. CASE dentry.filetype \notin FileTypes \/ NameLen[arg] >= FILENAME_LEN
  <2>1. o = Fail(fa)
    BY <1>13, OpenFails
  <2>2. ret'.val = -1
    BY <1>12, <2>1, FailIs
  <2>3. Become(Exit(2))
    BY <1>1, <2>2
  <2>4. CatResult(2, me.shown, arg)
    BY <1>3, <1>9, <1>13 DEF CatResult
  <2>. QED
    BY <1>1, <1>6, <1>11, <2>3, <2>4, ExitStays
<1>14. ASSUME dentry.filetype \in FileTypes, ~(NameLen[arg] >= FILENAME_LEN),
              o.ret \in Fds, o.ret >= 2, o.fa[1] = stdio,
              dentry.filetype = FILE_TYPE_RTC => o.fa[o.ret].flags = FILE_AVAIL,
              dentry.filetype = FILE_TYPE_FILE => o.fa[o.ret] = OpenSlot(dentry)
       PROVE  UInv'
  <2> DEFINE p == [me EXCEPT !.pc = "read", !.fd = ret'.val]
  <2>1. o.ret \in Int /\ o.ret # -1
    BY <1>14 DEF Fds
  <2>2. Become(p)
    BY <1>1, <1>12, <2>1
  <2>3. /\ p \in T /\ p.pc = "read" /\ p.arg = arg /\ p.fd = o.ret /\ p.shown = 0
        /\ p.prog = me.prog
    BY <1>1, <1>3, <1>12, <2>1
  <2> HIDE DEF p, o
  <2>4. dentry.filetype = FILE_TYPE_FILE => CatFile(p, o.fa[p.fd], dentry)
    <3>1. SUFFICES ASSUME dentry.filetype = FILE_TYPE_FILE PROVE CatFile(p, o.fa[p.fd], dentry)
      OBVIOUS
    <3>2. o.fa[p.fd] = OpenSlot(dentry)
      BY <1>14, <2>3, <3>1
    <3>3. /\ o.fa[p.fd].flags = FILE_OCCUP
          /\ o.fa[p.fd].file_ops_table_ptr = "file"
          /\ o.fa[p.fd].inode_num = dentry.inode_num
          /\ o.fa[p.fd].file_position = 0
      BY <3>1, <3>2 DEF OpenSlot
    <3>4. p.shown + (IF p.pc = "write" THEN p.cnt ELSE 0) = 0
      BY <2>3
    <3>5. dentry.inode_num < inode_count => Covered(dentry.inode_num, 0)
      <4>1. dentry.inode_num \in Nat /\ inode_count \in Nat
        BY <1>5, ImageAssumption DEF Dentry
      <4>2. dentry.inode_num < inode_count => flength(dentry.inode_num) \in Nat
        BY <4>1, ImageAssumption DEF flength
      <4>. QED
        BY <4>2 DEF Covered
    <3>. QED
      BY <3>3, <3>4, <3>5 DEF CatFile
  <2>5. NameLen[arg] < FILENAME_LEN
    BY <1>4, <1>14
  <2>6. CatFrame(p, o.fa, arg)
    BY <1>3, <1>14, <2>3, <2>4, <2>5 DEF CatFrame
  <2>7. Frame(p, pcb'[cpu].file_array, arg)
    BY <1>12, <2>6 DEF Frame
  <2>. QED
    BY <1>1, <1>6, <2>2, <2>3, <2>7, ProgramStays
<1>15. CASE /\ dentry.filetype = FILE_TYPE_RTC /\ dentry.filetype \in FileTypes
            /\ ~(NameLen[arg] >= FILENAME_LEN)
  <2>1. /\ o.ret \in FreeFds(fa)
        /\ o.fa[o.ret].flags = FILE_AVAIL
        /\ \A fd \in Fds \ {o.ret} : o.fa[fd] = fa[fd]
    BY <1>8, <1>15, OpenRtc
  <2>2. o.ret \in Fds /\ o.ret >= 2 /\ 1 \in Fds \ {o.ret}
    BY <1>8, <2>1, FileArrayAssumption DEF Fds
  <2>3. FILE_TYPE_RTC # FILE_TYPE_FILE
    BY DEF FILE_TYPE_RTC, FILE_TYPE_FILE
  <2>4. UInv'
    BY <1>8, <1>14, <1>15, <2>1, <2>2, <2>3
  <2>. QED
    BY <1>11, <2>4
<1>16. CASE /\ dentry.filetype \in {FILE_TYPE_DIR, FILE_TYPE_FILE} /\ dentry.filetype \in FileTypes
            /\ ~(NameLen[arg] >= FILENAME_LEN)
  <2> DEFINE fd == NextFd(fa)
             opened == [fa EXCEPT ![fd] = OpenSlot(dentry)]
  <2>1. o = Return(opened, fd)
    BY <1>8, <1>16, OpenFile
  <2>2. fd \in Fds /\ fd >= 2
    BY <1>8, NextFdType
  <2>3. fd # 1 /\ 1 \in Fds
    BY <2>2, FileArrayAssumption DEF Fds
  <2> HIDE DEF fd
  <2>4. opened[fd] = OpenSlot(dentry) /\ opened[1] = stdio
    BY <1>8, <2>2, <2>3
  <2> HIDE DEF opened, o
  <2>5. o.ret = fd /\ o.fa = opened
    BY <2>1 DEF Return, Outcome
  <2>6. FILE_TYPE_RTC \notin {FILE_TYPE_DIR, FILE_TYPE_FILE}
    BY DEF FILE_TYPE_RTC, FILE_TYPE_DIR, FILE_TYPE_FILE
  <2>7. UInv'
    BY <1>14, <1>16, <2>2, <2>4, <2>5, <2>6 DEF o
  <2>. QED
    BY <1>11, <2>7
<1>. QED
  BY <1>13, <1>15, <1>16 DEF FileTypes

\* One read of the file that cat shows
LEMMA CatReadFile ==
  ASSUME NEW fa \in [Fds -> Slot], NEW p, NEW fd \in Fds, fd >= 2, NEW dentry \in Dentry,
         p.pc = "read", p.shown \in Int, CatFile(p, fa[fd], dentry),
         NEW typed, NEW ticked, NEW o, o = read(fa, fd, BUFSIZE, typed, ticked)
  PROVE  \/ o.ret = 0 /\ Readable(dentry.inode_num) /\ p.shown = flength(dentry.inode_num)
         \/ o.ret = -1 /\ ~Readable(dentry.inode_num)
         \/ /\ o.ret \in Nat \ {0}
            /\ dentry.inode_num < inode_count
            /\ o.fa[fd] = [fa[fd] EXCEPT !.file_position = p.shown + o.ret]
            /\ Covered(dentry.inode_num, p.shown + o.ret)
<1> DEFINE inode == dentry.inode_num
           pos == p.shown
           len == flength(inode)
<1>1. BUFSIZE \in Nat \ {0} /\ BUFSIZE \in Nat /\ BUFSIZE < UINT_MOD
  BY UserlandAssumption, ImageAssumption
<1>2. inode \in Nat /\ inode_count \in Nat
  BY ImageAssumption DEF Dentry
<1>3. fa[fd] \in Slot
  OBVIOUS
<1>4. /\ fa[fd].flags = FILE_OCCUP
      /\ fa[fd].file_ops_table_ptr = "file"
      /\ fa[fd].inode_num = inode
      /\ fa[fd].file_position = pos + 0
      /\ inode < inode_count => Covered(inode, pos + 0)
  BY DEF CatFile
<1>5. pos + 0 = pos /\ pos \in Nat /\ fa[fd].file_position = pos
  BY <1>3, <1>4 DEF Slot
<1> DEFINE n == read_data(inode, pos, BUFSIZE)
<1>6. o.ret = n /\ o.fa[fd] = [fa[fd] EXCEPT !.file_position = (pos + n) % UINT_MOD]
  <2>1. BUFSIZE \in Nat /\ BUFSIZE < UINT_MOD
    BY <1>1
  <2>2. fa[fd].flags = FILE_OCCUP /\ fa[fd].file_ops_table_ptr = "file"
    BY <1>4
  <2>3. inode = fa[fd].inode_num /\ pos = fa[fd].file_position
    BY <1>4, <1>5
  <2>4. n = read_data(inode, pos, BUFSIZE)
    OBVIOUS
  <2> HIDE DEF n, inode, pos
  <2>. QED
    BY <2>1, <2>2, <2>3, <2>4, FileRead
<1>7. CASE inode >= inode_count
  <2>1. n = -1
    BY <1>7 DEF read_data
  <2>2. ~Readable(inode)
    BY <1>2, <1>7 DEF Readable
  <2>. QED
    BY <1>6, <2>1, <2>2
<1>8. CASE ~(inode >= inode_count) /\ pos >= len
  <2>1. n = 0
    BY <1>8 DEF read_data
  <2>2. inode < inode_count /\ Covered(inode, pos)
    BY <1>2, <1>4, <1>5, <1>8
  <2>3. len \in Nat
    BY <1>2, <2>2, ImageAssumption DEF flength
  <2>4. pos = len
    BY <1>5, <1>8, <2>2, <2>3 DEF Covered
  <2>5. Readable(inode)
    BY <2>2, <2>4 DEF Covered, Readable, Exists
  <2>. QED
    BY <1>6, <2>1, <2>4, <2>5
<1>9. CASE ~(inode >= inode_count) /\ ~(pos >= len)
  <2>1. inode < inode_count /\ Covered(inode, pos)
    BY <1>2, <1>4, <1>5, <1>9
  <2>2. len \in Nat /\ len < UINT_MOD
    BY <1>2, <2>1, ImageAssumption, FileArrayAssumption DEF flength
  <2> HIDE DEF n
  <2>3. \/ /\ n \in 1..BUFSIZE
           /\ pos + n <= len
           /\ \A k \in pos..pos + n - 1 : Exists(inode, k)
        \/ /\ n = -1
           /\ \E k \in pos..len - 1 : ~Exists(inode, k)
    BY <1>1, <1>2, <1>5, <1>9, <2>1, ReadDataCases DEF n
  <2>4. CASE n = -1 /\ \E k \in pos..len - 1 : ~Exists(inode, k)
    <3>1. PICK k \in pos..len - 1 : ~Exists(inode, k)
      BY <2>4
    <3>2. k \in 0..len - 1
      BY <1>5, <2>2
    <3>3. ~Readable(inode)
      BY <3>1, <3>2 DEF Readable, Exists
    <3>. QED
      BY <1>6, <2>4, <3>3
  <2>5. CASE /\ n \in 1..BUFSIZE
             /\ pos + n <= len
             /\ \A k \in pos..pos + n - 1 : Exists(inode, k)
    <3>1. n \in Nat \ {0} /\ pos + n \in Nat /\ pos + n < UINT_MOD
      <4>1. UINT_MOD \in Nat
        BY FileArrayAssumption
      <4>2. n \in Nat \ {0}
        BY <1>1, <2>5
      <4> HIDE DEF len, pos
      <4>3. pos + n <= len
        BY <2>5
      <4>. QED
        BY <1>5, <2>2, <4>1, <4>2, <4>3
    <3>2. (pos + n) % UINT_MOD = pos + n
      BY <3>1, NoWrap
    <3>3. o.fa[fd] = [fa[fd] EXCEPT !.file_position = (pos + n) % UINT_MOD]
      BY <1>6
    <3>4. Covered(inode, pos + n)
      <4>1. \A k \in 0..(pos + n) - 1 : k \in 0..pos - 1 \/ k \in pos..pos + n - 1
        BY <1>5, <3>1
      <4>. QED
        BY <2>1, <2>5, <4>1 DEF Covered
    <3>5. o.fa[fd] = [fa[fd] EXCEPT !.file_position = pos + n]
      BY <3>2, <3>3
    <3>. QED
      BY <1>6, <2>1, <3>1, <3>4, <3>5
  <2>. QED
    BY <2>3, <2>4, <2>5
<1>. QED
  BY <1>7, <1>8, <1>9

LEMMA CatReadStep ==
  ASSUME UInv, CatRead
  PROVE  UInv' /\ Suffices
<1> DEFINE fa == pcb[cpu].file_array
           arg == pcb[cpu].arg
           T == [prog : {"cat"}, pc : {"args", "open", "read", "write"}, arg : Args, fd : Int,
                 cnt : Int, shown : Int]
           dentry == read_dentry_by_name(arg)
<1>1. /\ Running /\ me.pc = "read" /\ me.prog = "cat" /\ Read(me.fd, BUFSIZE)
      /\ Become(CASE ret'.val = 0  -> Exit(0)
                  [] ret'.val = -1 -> Exit(3)
                  [] OTHER -> [me EXCEPT !.pc = "write", !.cnt = ret'.val])
  BY DEF CatRead, At
<1>2. CatFrame(me, fa, arg) /\ IInv /\ Usable
  BY <1>1, MyFrame
<1>3. /\ me \in T /\ me.arg = arg /\ arg # NoArg /\ arg \in Args /\ me.shown \in Int
      /\ fa[1] = stdio
      /\ NameLen[arg] < FILENAME_LEN
      /\ dentry.filetype \in FileTypes
      /\ me.fd \in Fds /\ me.fd >= 2
      /\ dentry.filetype = FILE_TYPE_RTC => fa[me.fd].flags = FILE_AVAIL
      /\ dentry.filetype = FILE_TYPE_FILE => CatFile(me, fa[me.fd], dentry)
  BY <1>1, <1>2 DEF CatFrame
<1>4. /\ arg \in Names /\ ~(NameLen[arg] >= FILENAME_LEN)
      /\ BUFSIZE \in Int /\ BUFSIZE > FILENAME_LEN /\ me.fd \in Int
  <2>1. arg \in Names /\ NameLen[arg] \in Nat /\ FILENAME_LEN \in Nat
    BY <1>3, UserlandAssumption, ImageAssumption
  <2>2. BUFSIZE \in Nat /\ FILENAME_LEN < BUFSIZE
    BY UserlandAssumption
  <2>3. me.fd \in Int
    BY <1>3 DEF Fds
  <2>. QED
    BY <1>3, <2>1, <2>2, <2>3
<1>5. dentry \in Dentry
  BY <1>4, DentryType
<1>6. fa \in [Fds -> Slot] /\ UsableArray(fa)
  BY <1>1, <1>2, MyArray
<1>7. Stays /\ machine' = "up"
  BY <1>1, <1>2, <1>4, ReadStays
<1>8. PICK typed \in 0..MAX_INPUT_CHARS, ticked \in BOOLEAN :
         After("read", read(fa, me.fd, BUFSIZE, typed, ticked))
  BY <1>1, <1>2, <1>4, ReadStays
<1> DEFINE o == read(fa, me.fd, BUFSIZE, typed, ticked)
<1>9. o \in Outcomes
  BY <1>4, <1>6, ReadType
<1>10. /\ \A g \in Fds \ {me.fd} : o.fa[g] = fa[g]
       /\ o.over = 0
       /\ o.ret \in Int
  BY <1>3, <1>4, <1>6, <1>9, HighRead
<1>11. dentry.filetype = FILE_TYPE_RTC => o.ret = -1
  <2> SUFFICES ASSUME dentry.filetype = FILE_TYPE_RTC PROVE o.ret = -1
    OBVIOUS
  <2>1. Closed(fa, me.fd)
    BY <1>3 DEF Closed
  <2>2. o = Fail(fa)
    BY <2>1, ClosedCalls
  <2>. QED
    BY <2>2, FailIs
<1>12. ASSUME dentry.filetype = FILE_TYPE_FILE
       PROVE  \/ o.ret = 0 /\ Readable(dentry.inode_num) /\ me.shown = flength(dentry.inode_num)
              \/ o.ret = -1 /\ ~Readable(dentry.inode_num)
              \/ /\ o.ret \in Nat \ {0}
                 /\ dentry.inode_num < inode_count
                 /\ o.fa[me.fd] = [fa[me.fd] EXCEPT !.file_position = me.shown + o.ret]
                 /\ Covered(dentry.inode_num, me.shown + o.ret)
  <2>1. CatFile(me, fa[me.fd], dentry)
    BY <1>3, <1>12
  <2>. QED
    BY <1>1, <1>3, <1>5, <1>6, <2>1, CatReadFile
<1> HIDE DEF o
<1>13. After("read", o)
  BY <1>8 DEF o
<1>14. Suffices
  BY <1>10, <1>13, AfterSuffices
<1>15. ret'.val = o.ret /\ pcb'[cpu].file_array = o.fa
  BY <1>13 DEF After
<1>16. /\ dentry.filetype = FILE_TYPE_DIR \/ dentry.filetype = FILE_TYPE_RTC =>
            CatResult(3, me.shown, arg)
       /\ dentry.filetype = FILE_TYPE_DIR => CatResult(0, me.shown, arg)
       /\ dentry.filetype = FILE_TYPE_FILE /\ ~Readable(dentry.inode_num) =>
            CatResult(3, me.shown, arg)
       /\ dentry.filetype = FILE_TYPE_FILE /\ Readable(dentry.inode_num)
            /\ me.shown = flength(dentry.inode_num) => CatResult(0, me.shown, arg)
  BY <1>3, <1>4, CatFound
<1>17. dentry.filetype \in {FILE_TYPE_RTC, FILE_TYPE_DIR, FILE_TYPE_FILE}
  BY <1>3 DEF FileTypes
<1>18. CASE o.ret = 0
  <2>1. CatResult(0, me.shown, arg)
    BY <1>11, <1>12, <1>16, <1>17, <1>18
  <2>2. Become(Exit(0))
    BY <1>1, <1>15, <1>18
  <2>. QED
    BY <1>1, <1>7, <1>14, <2>1, <2>2, ExitStays
<1>19. CASE o.ret = -1
  <2>1. CatResult(3, me.shown, arg)
    BY <1>12, <1>16, <1>17, <1>19
  <2>2. Become(Exit(3))
    BY <1>1, <1>15, <1>19
  <2>. QED
    BY <1>1, <1>7, <1>14, <2>1, <2>2, ExitStays
<1>20. CASE o.ret # 0 /\ o.ret # -1
  <2> DEFINE p == [me EXCEPT !.pc = "write", !.cnt = ret'.val]
  <2>1. Become(p)
    BY <1>1, <1>15, <1>20
  <2>2. /\ p \in T /\ p.pc = "write" /\ p.arg = arg /\ p.fd = me.fd /\ p.shown = me.shown
        /\ p.cnt = o.ret /\ p.prog = me.prog
    BY <1>1, <1>3, <1>10, <1>15
  <2> HIDE DEF p
  <2>3. o.fa[1] = stdio
    <3>1. 1 \in Fds \ {me.fd}
      BY <1>3, FileArrayAssumption DEF Fds
    <3>. QED
      BY <1>3, <1>10, <3>1
  <2>4. ASSUME dentry.filetype = FILE_TYPE_FILE PROVE CatFile(p, o.fa[p.fd], dentry)
    <3>1. /\ o.ret \in Nat \ {0}
          /\ dentry.inode_num < inode_count
          /\ o.fa[me.fd] = [fa[me.fd] EXCEPT !.file_position = me.shown + o.ret]
          /\ Covered(dentry.inode_num, me.shown + o.ret)
      BY <1>12, <1>20, <2>4
    <3>2. CatFile(me, fa[me.fd], dentry) /\ fa[me.fd] \in Slot
      BY <1>3, <1>6, <2>4
    <3>3. /\ o.fa[me.fd].flags = FILE_OCCUP
          /\ o.fa[me.fd].file_ops_table_ptr = "file"
          /\ o.fa[me.fd].inode_num = dentry.inode_num
          /\ o.fa[me.fd].file_position = me.shown + o.ret
      BY <3>1, <3>2 DEF CatFile, Slot
    <3>4. p.shown + (IF p.pc = "write" THEN p.cnt ELSE 0) = me.shown + o.ret
      BY <2>2
    <3>. QED
      BY <2>2, <3>1, <3>3, <3>4 DEF CatFile
  <2>5. dentry.filetype # FILE_TYPE_RTC
    BY <1>11, <1>20
  <2>6. CatFrame(p, o.fa, arg)
    BY <1>3, <2>2, <2>3, <2>4, <2>5 DEF CatFrame
  <2>7. Frame(p, pcb'[cpu].file_array, arg)
    BY <1>15, <2>6 DEF Frame
  <2>. QED
    BY <1>1, <1>7, <1>14, <2>1, <2>2, <2>7, ProgramStays
<1>. QED
  BY <1>18, <1>19, <1>20

LEMMA CatWriteStep ==
  ASSUME UInv, CatWrite
  PROVE  UInv' /\ Suffices
<1> DEFINE fa == pcb[cpu].file_array
           arg == pcb[cpu].arg
           T == [prog : {"cat"}, pc : {"args", "open", "read", "write"}, arg : Args, fd : Int,
                 cnt : Int, shown : Int]
           dentry == read_dentry_by_name(arg)
<1>1. /\ Running /\ me.pc = "write" /\ me.prog = "cat" /\ Write(1, me.cnt)
      /\ Become(IF ret'.val = -1 THEN Exit(3)
                ELSE [me EXCEPT !.pc = "read", !.shown = me.shown + me.cnt])
  BY DEF CatWrite, At
<1>2. CatFrame(me, fa, arg) /\ IInv /\ Usable
  BY <1>1, MyFrame
<1>3. /\ me \in T /\ me.arg = arg /\ arg # NoArg /\ me.shown \in Int /\ me.cnt \in Int
      /\ fa[1] = stdio
      /\ NameLen[arg] < FILENAME_LEN
      /\ dentry.filetype \in FileTypes
      /\ me.fd \in Fds /\ me.fd >= 2
      /\ dentry.filetype # FILE_TYPE_RTC
      /\ dentry.filetype = FILE_TYPE_FILE => CatFile(me, fa[me.fd], dentry)
  BY <1>1, <1>2 DEF CatFrame
<1>4. /\ Stays /\ machine' = "up" /\ Suffices /\ pcb'[cpu].file_array = fa
      /\ ret'.val # -1
  BY <1>1, <1>3, WriteStep
<1> DEFINE p == [me EXCEPT !.pc = "read", !.shown = me.shown + me.cnt]
<1>5. Become(p)
  BY <1>1, <1>4
<1>6. me.shown + me.cnt \in Int
  BY <1>3
<1>7. /\ p \in T /\ p.pc = "read" /\ p.arg = arg /\ p.fd = me.fd /\ p.prog = me.prog
      /\ p.shown = me.shown + me.cnt
  BY <1>1, <1>3, <1>6
<1> HIDE DEF p
<1>8. ASSUME dentry.filetype = FILE_TYPE_FILE PROVE CatFile(p, fa[p.fd], dentry)
  <2>1. CatFile(me, fa[me.fd], dentry)
    BY <1>3, <1>8
  <2>2. /\ me.shown + (IF me.pc = "write" THEN me.cnt ELSE 0) = me.shown + me.cnt
        /\ p.shown + (IF p.pc = "write" THEN p.cnt ELSE 0) = me.shown + me.cnt
    BY <1>1, <1>3, <1>6, <1>7
  <2>. QED
    BY <1>7, <2>1, <2>2 DEF CatFile
<1>9. CatFrame(p, fa, arg)
  BY <1>3, <1>7, <1>8 DEF CatFrame
<1>10. Frame(p, pcb'[cpu].file_array, arg)
  BY <1>4, <1>9 DEF Frame
<1>. QED
  BY <1>1, <1>4, <1>5, <1>7, <1>10, ProgramStays

----------------------------------------------------------------------------
(* grep *)

LEMMA GrepStays ==
  ASSUME UInv, Running, me.prog = "grep", Stays, machine' = "up", NEW p, Become(p),
         GrepFrame(p, pcb'[cpu].file_array)
  PROVE  UInv'
<1>1. p.prog = me.prog
  BY DEF GrepFrame
<1>. QED
  BY <1>1, ProgramStays DEF Frame

LEMMA GrepExits ==
  ASSUME UInv, Running, me.prog = "grep", Stays, machine' = "up", NEW status \in Nat,
         Become(Exit(status))
  PROVE  UInv'
BY ExitStays

LEMMA GrepStartStep ==
  ASSUME UInv, GrepArgs \/ GrepOpendir
  PROVE  UInv' /\ Suffices
<1> DEFINE fa == pcb[cpu].file_array
<1>1. Running /\ me.pc \in {"args", "opendir"} /\ me.prog = "grep" /\ me.pc # "exit"
  BY DEF GrepArgs, GrepOpendir, At
<1>2. GrepFrame(me, fa) /\ IInv /\ Usable
  BY <1>1, MyFrame
<1>3. /\ DOMAIN me = GrepFields /\ me.last \in 0..BUFSIZE /\ me.line_start \in Nat
      /\ fa = init_file_array
  BY <1>1, <1>2 DEF GrepFrame
<1>4. CASE GrepArgs
  <2> DEFINE s == pcb[getCurrentProcessPCB].arg
             p == [me EXCEPT !.pc = "opendir", !.search = s]
  <2>1. Getargs(BUFSIZE) /\ Become(IF ret'.val # 0 THEN Exit(3) ELSE p)
    BY <1>4 DEF GrepArgs
  <2>2. Stays /\ machine' = "up" /\ Suffices /\ pcb' = pcb
    BY <2>1, GetargsStep
  <2> HIDE DEF s
  <2>3. /\ DOMAIN p = GrepFields /\ p.prog = "grep" /\ p.pc = "opendir" /\ p.last = me.last
        /\ p.line_start = me.line_start
    BY <1>1, <1>3 DEF GrepFields
  <2> HIDE DEF p
  <2>4. GrepFrame(p, fa)
    BY <1>3, <2>3 DEF GrepFrame
  <2>5. CASE Become(p)
    BY <1>1, <2>2, <2>4, <2>5, GrepStays
  <2>6. CASE Become(Exit(3))
    BY <1>1, <2>2, <2>6, GrepExits
  <2>. QED
    BY <2>1, <2>2, <2>5, <2>6
<1>5. CASE GrepOpendir
  <2> DEFINE o == open(fa, ".")
  <2>1. /\ Open(".")
        /\ Become(IF ret'.val = -1 THEN Exit(2) ELSE [me EXCEPT !.pc = "readdir", !.dirfd = ret'.val])
    BY <1>5 DEF GrepOpendir
  <2>2. /\ o.ret \in Fds /\ o.ret >= 2 /\ o.ret # -1
        /\ o.fa[o.ret].flags = FILE_OCCUP
        /\ o.fa[o.ret].file_ops_table_ptr = "directory"
        /\ "." \in Names
    BY <1>3, OpenDirectory
  <2>3. o.over = 0
    BY OpenCloseOver
  <2>4. Stays /\ machine' = "up" /\ After("open", o)
    BY <1>2, <2>1, <2>2, OpenStays
  <2> HIDE DEF o
  <2>5. Suffices
    BY <2>3, <2>4, AfterSuffices
  <2>6. ret'.val = o.ret /\ pcb'[cpu].file_array = o.fa
    BY <2>4 DEF After
  <2> DEFINE p == [me EXCEPT !.pc = "readdir", !.dirfd = o.ret]
  <2>7. Become(p)
    BY <2>1, <2>2, <2>6
  <2>8. /\ DOMAIN p = GrepFields /\ p.prog = "grep" /\ p.pc = "readdir" /\ p.last = me.last
        /\ p.line_start = me.line_start /\ p.dirfd = o.ret
    BY <1>1, <1>3 DEF GrepFields
  <2> HIDE DEF p
  <2>9. GrepFrame(p, o.fa)
    BY <1>3, <2>2, <2>8 DEF GrepFrame
  <2>. QED
    BY <1>1, <2>4, <2>5, <2>6, <2>7, <2>9, GrepStays
<1>. QED
  BY <1>4, <1>5

LEMMA GrepReaddirStep ==
  ASSUME UInv, GrepReaddir
  PROVE  UInv' /\ Suffices
<1> DEFINE fa == pcb[cpu].file_array
           index == fa[me.dirfd].file_position
           fname == direntries[index].filename
<1>1. Running /\ me.pc = "readdir" /\ me.prog = "grep" /\ me.pc # "exit"
  BY DEF GrepReaddir, At
<1>2. GrepFrame(me, fa) /\ IInv /\ Usable
  BY <1>1, MyFrame
<1>3. /\ DOMAIN me = GrepFields /\ me.last \in 0..BUFSIZE /\ me.line_start \in Nat
      /\ me.dirfd \in Fds /\ me.dirfd >= 2 /\ me.dirfd \in Int
      /\ fa[me.dirfd].flags = FILE_OCCUP
      /\ fa[me.dirfd].file_ops_table_ptr = "directory"
  BY <1>1, <1>2 DEF GrepFrame, Fds
<1>4. fa \in [Fds -> Slot] /\ file_array = fa
  BY <1>1, <1>2, MyArray
<1>5. SBUFSIZE - 1 = FILENAME_LEN /\ FILENAME_LEN \in Nat \ {0} /\ NUM_FILES \in Nat
  BY UserlandAssumption, ImageAssumption
<1>6. /\ Read(me.dirfd, FILENAME_LEN)
      /\ Become(CASE ret'.val = 0  -> Exit(0)
                  [] ret'.val = -1 -> Exit(3)
                  [] ret'.val > 0 /\ fname \in Dotted -> me
                  [] OTHER -> [me EXCEPT !.pc = "open", !.fname = fname])
  BY <1>4, <1>5 DEF GrepReaddir
<1>7. /\ Stays /\ machine' = "up"
      /\ \E typed \in 0..MAX_INPUT_CHARS, ticked \in BOOLEAN :
            After("read", read(fa, me.dirfd, FILENAME_LEN, typed, ticked))
  <2>1. Read(me.dirfd, FILENAME_LEN)
    BY <1>6
  <2>2. me.dirfd \in Int
    BY <1>3
  <2>3. FILENAME_LEN \in Int
    BY <1>5
  <2>. QED
    BY <1>2, <2>1, <2>2, <2>3, ReadStays
<1>8. PICK typed \in 0..MAX_INPUT_CHARS, ticked \in BOOLEAN :
         After("read", read(fa, me.dirfd, FILENAME_LEN, typed, ticked))
  BY <1>7
<1> DEFINE o == read(fa, me.dirfd, FILENAME_LEN, typed, ticked)
<1>9. /\ index \in Nat
      /\ index >= NUM_FILES => o = Fail(fa)
      /\ ~(index >= NUM_FILES) =>
             /\ o.fa = [fa EXCEPT ![me.dirfd].file_position = index + 1]
             /\ o.ret \in 0..FILENAME_LEN
             /\ o.over \in Nat
             /\ o.over <= 1
  <2>1. o = read(fa, me.dirfd, FILENAME_LEN, typed, ticked)
    OBVIOUS
  <2>2. FILENAME_LEN \in Int /\ FILENAME_LEN >= FILENAME_LEN
    BY <1>5
  <2> HIDE DEF o
  <2>. QED
    BY <1>3, <1>4, <2>1, <2>2, DirectoryRead
<1> HIDE DEF o
<1>10. After("read", o)
  BY <1>8 DEF o
<1>11. ret'.val = o.ret /\ pcb'[cpu].file_array = o.fa
  BY <1>10 DEF After
<1>12. CASE index >= NUM_FILES
  <2>1. o.ret = -1 /\ o.over = 0
    BY <1>9, <1>12, FailIs
  <2>2. Suffices
    BY <1>1, <1>10, <2>1, AfterSuffices
  <2>3. Become(Exit(3))
    BY <1>6, <1>11, <2>1
  <2>. QED
    BY <1>1, <1>7, <2>2, <2>3, GrepExits
<1>13. CASE ~(index >= NUM_FILES)
  <2>1. o.over \in 0..1 /\ o.ret \in Nat
    BY <1>5, <1>9, <1>13
  <2>2. Suffices
    BY <1>1, <1>10, <2>1, AfterSuffices
  <2>3. fname \in Names
    <3>1. index \in 0..NUM_FILES - 1
      BY <1>5, <1>9, <1>13
    <3>. QED
      BY <3>1, ImageAssumption DEF Dentry
  <2>4. o.fa[me.dirfd].flags = FILE_OCCUP /\ o.fa[me.dirfd].file_ops_table_ptr = "directory"
    <3>1. o.fa[me.dirfd] = [fa[me.dirfd] EXCEPT !.file_position = index + 1]
      BY <1>3, <1>4, <1>9, <1>13
    <3>2. fa[me.dirfd] \in Slot
      BY <1>3, <1>4
    <3>. QED
      BY <1>3, <3>1, <3>2 DEF Slot
  <2>5. CASE o.ret = 0
    <3>1. Become(Exit(0))
      BY <1>6, <1>11, <2>5
    <3>. QED
      BY <1>1, <1>7, <2>2, <3>1, GrepExits
  <2>6. CASE o.ret # 0 /\ fname \in Dotted
    <3>1. o.ret # -1 /\ o.ret > 0
      BY <2>1, <2>6
    <3>2. Become(me)
      BY <1>6, <1>11, <2>6, <3>1
    <3>3. GrepFrame(me, o.fa)
      BY <1>1, <1>3, <2>4 DEF GrepFrame
    <3>. QED
      BY <1>1, <1>7, <1>11, <2>2, <3>2, <3>3, GrepStays
  <2>7. CASE o.ret # 0 /\ fname \notin Dotted
    <3> HIDE DEF fname
    <3> DEFINE p == [me EXCEPT !.pc = "open", !.fname = fname]
    <3>1. o.ret # -1
      BY <2>1
    <3>2. Become(p)
      BY <1>6, <1>11, <2>7, <3>1
    <3>3. /\ DOMAIN p = GrepFields /\ p.prog = "grep" /\ p.pc = "open" /\ p.last = me.last
          /\ p.line_start = me.line_start /\ p.dirfd = me.dirfd /\ p.fname = fname
      BY <1>1, <1>3 DEF GrepFields
    <3> HIDE DEF p
    <3>4. GrepFrame(p, o.fa)
      BY <1>3, <2>3, <2>4, <2>7, <3>3 DEF GrepFrame
    <3>. QED
      BY <1>1, <1>7, <1>11, <2>2, <3>2, <3>4, GrepStays
  <2>. QED
    BY <2>5, <2>6, <2>7
<1>. QED
  BY <1>12, <1>13

\* What grep's open of a file that is no directory leaves behind
LEMMA GrepOpened ==
  ASSUME NEW fa \in [Fds -> Slot], NEW fname \in Names \ Dotted, NEW o, o = open(fa, fname),
         NEW dirfd \in Fds, fa[dirfd].flags = FILE_OCCUP,
         fa[dirfd].file_ops_table_ptr = "directory"
  PROVE  \/ o.ret = -1
         \/ /\ o.ret \in Fds /\ o.ret >= 2
            /\ o.fa[o.ret].flags = FILE_OCCUP =>
                 /\ o.fa[o.ret].file_ops_table_ptr = "file"
                 /\ o.fa[o.ret].inode_num = read_dentry_by_name(fname).inode_num
                 /\ o.fa[o.ret].file_position = 0
            /\ o.fa[dirfd] = fa[dirfd]
<1> DEFINE dentry == read_dentry_by_name(fname)
<1>1. dentry.filetype # FILE_TYPE_DIR
  BY UserlandAssumption
<1>2. CASE \/ dentry.filetype \notin FileTypes
           \/ NameLen[fname] >= FILENAME_LEN
           \/ FreeFds(fa) = {}
  <2>1. o = Fail(fa)
    BY <1>2, OpenFails
  <2>. QED
    BY <2>1, FailIs
<1>3. CASE /\ dentry.filetype = FILE_TYPE_RTC
           /\ ~(NameLen[fname] >= FILENAME_LEN)
           /\ FreeFds(fa) # {}
  <2>1. /\ open(fa, fname).ret \in FreeFds(fa)
        /\ open(fa, fname).fa[open(fa, fname).ret].flags = FILE_AVAIL
        /\ \A fd \in Fds \ {open(fa, fname).ret} : open(fa, fname).fa[fd] = fa[fd]
    BY <1>3, OpenRtc
  <2>2. /\ o.ret \in FreeFds(fa) /\ o.fa[o.ret].flags = FILE_AVAIL
        /\ \A fd \in Fds \ {o.ret} : o.fa[fd] = fa[fd]
    BY <2>1
  <2>3. o.ret \in Fds /\ o.ret >= 2 /\ o.ret # dirfd
    BY <2>2, StdioIs DEF FreeFds
  <2>. QED
    BY <2>2, <2>3, StdioIs
<1>4. CASE /\ dentry.filetype = FILE_TYPE_FILE
           /\ ~(NameLen[fname] >= FILENAME_LEN)
           /\ FreeFds(fa) # {}
  <2> DEFINE fd == NextFd(fa)
             opened == [fa EXCEPT ![fd] = OpenSlot(dentry)]
  <2>1. o = Return(opened, fd)
    BY <1>4, OpenFile
  <2>2. fd \in FreeFds(fa)
    BY <1>4, NextFdType
  <2>3. fd \in Fds /\ fd >= 2 /\ fd # dirfd
    BY <2>2, StdioIs DEF FreeFds
  <2> HIDE DEF fd
  <2>4. opened[fd] = OpenSlot(dentry) /\ opened[dirfd] = fa[dirfd]
    BY <2>3
  <2>5. /\ OpenSlot(dentry).file_ops_table_ptr = "file"
        /\ OpenSlot(dentry).inode_num = dentry.inode_num
        /\ OpenSlot(dentry).file_position = 0
    BY <1>4 DEF OpenSlot
  <2> HIDE DEF opened
  <2>6. o.ret = fd /\ o.fa = opened
    BY <2>1 DEF Return, Outcome
  <2>. QED
    BY <2>3, <2>4, <2>5, <2>6
<1>. QED
  BY <1>1, <1>2, <1>3, <1>4 DEF FileTypes

LEMMA GrepOpenStep ==
  ASSUME UInv, GrepOpen
  PROVE  UInv' /\ Suffices
<1> DEFINE fa == pcb[cpu].file_array
           o == open(fa, me.fname)
<1>1. Running /\ me.pc = "open" /\ me.prog = "grep" /\ me.pc # "exit"
  BY DEF GrepOpen, At
<1>2. GrepFrame(me, fa) /\ IInv /\ Usable
  BY <1>1, MyFrame
<1>3. /\ DOMAIN me = GrepFields /\ me.last \in 0..BUFSIZE /\ me.line_start \in Nat
      /\ me.dirfd \in Fds /\ me.dirfd >= 2
      /\ fa[me.dirfd].flags = FILE_OCCUP
      /\ fa[me.dirfd].file_ops_table_ptr = "directory"
      /\ me.fname \in Names \ Dotted
  BY <1>1, <1>2 DEF GrepFrame
<1>4. fa \in [Fds -> Slot]
  BY <1>1, <1>2, MyArray
<1>5. Open(me.fname)
  BY DEF GrepOpen
<1>6. PICK junk : Become(IF ret'.val = -1 THEN Exit(3)
                         ELSE [me EXCEPT !.pc = "read", !.fd = ret'.val, !.junk = junk,
                                         !.data = [k \in 0..BUFSIZE |-> junk]])
  BY DEF GrepOpen
<1>7. o.over = 0
  BY OpenCloseOver
<1>8. Stays /\ machine' = "up" /\ After("open", o)
  BY <1>2, <1>3, <1>5, OpenStays
<1>9. \/ o.ret = -1
      \/ /\ o.ret \in Fds /\ o.ret >= 2
         /\ o.fa[o.ret].flags = FILE_OCCUP => o.fa[o.ret].file_ops_table_ptr = "file"
         /\ o.fa[me.dirfd] = fa[me.dirfd]
  <2>1. o = open(fa, me.fname)
    OBVIOUS
  <2> HIDE DEF o
  <2>. QED
    BY <1>3, <1>4, <2>1, GrepOpened
<1> HIDE DEF o
<1>10. Suffices
  BY <1>7, <1>8, AfterSuffices
<1>11. ret'.val = o.ret /\ pcb'[cpu].file_array = o.fa
  BY <1>8 DEF After
<1>12. CASE o.ret = -1
  <2>1. Become(Exit(3))
    BY <1>6, <1>11, <1>12
  <2>. QED
    BY <1>1, <1>8, <1>10, <2>1, GrepExits
<1>13. CASE o.ret # -1
  <2> DEFINE data == [k \in 0..BUFSIZE |-> junk]
             p == [me EXCEPT !.pc = "read", !.fd = o.ret, !.junk = junk, !.data = data]
  <2>1. Become(p)
    BY <1>6, <1>11, <1>13
  <2> HIDE DEF data
  <2>2. /\ DOMAIN p = GrepFields /\ p.prog = "grep" /\ p.pc = "read" /\ p.last = me.last
        /\ p.line_start = me.line_start /\ p.dirfd = me.dirfd /\ p.fd = o.ret
    BY <1>1, <1>3 DEF GrepFields
  <2> HIDE DEF p
  <2>3. GrepFrame(p, o.fa)
    BY <1>3, <1>9, <1>13, <2>2 DEF GrepFrame
  <2>. QED
    BY <1>1, <1>8, <1>10, <1>11, <2>1, <2>3, GrepStays
<1>. QED
  BY <1>12, <1>13

\* A read gives no more than is asked for
LEMMA ReadDataBound ==
  ASSUME NEW inode \in Nat, NEW pos \in Nat, NEW nbytes \in Nat
  PROVE  read_data(inode, pos, nbytes) \in -1..nbytes
<1>1. CASE inode >= inode_count \/ pos >= flength(inode)
  BY <1>1 DEF read_data
<1>2. CASE ~(inode >= inode_count) /\ ~(pos >= flength(inode))
  <2>1. flength(inode) \in Nat
    BY <1>2, ImageAssumption DEF flength
  <2>2. Available(inode, pos, nbytes) \in 0..nbytes
    BY <1>2, <2>1 DEF Available, Smaller
  <2>. QED
    BY <1>2, <2>2 DEF read_data
<1>. QED
  BY <1>1, <1>2

LEMMA GrepReadStep ==
  ASSUME UInv, GrepRead
  PROVE  UInv' /\ Suffices
<1> DEFINE fa == pcb[cpu].file_array
           nbytes == BUFSIZE - me.last
<1>1. Running /\ me.pc = "read" /\ me.prog = "grep" /\ me.pc # "exit"
  BY DEF GrepRead, At
<1>2. GrepFrame(me, fa) /\ IInv /\ Usable
  BY <1>1, MyFrame
<1>3. /\ DOMAIN me = GrepFields /\ me.last \in 0..BUFSIZE /\ me.line_start \in Nat
      /\ me.dirfd \in Fds /\ me.dirfd >= 2
      /\ fa[me.dirfd].flags = FILE_OCCUP
      /\ fa[me.dirfd].file_ops_table_ptr = "directory"
      /\ me.fd \in Fds /\ me.fd >= 2
      /\ fa[me.fd].flags = FILE_OCCUP => fa[me.fd].file_ops_table_ptr = "file"
  BY <1>1, <1>2 DEF GrepFrame
<1>4. fa \in [Fds -> Slot] /\ UsableArray(fa)
  BY <1>1, <1>2, MyArray
<1>5. BUFSIZE \in Nat /\ nbytes \in Nat /\ nbytes \in Int /\ nbytes < UINT_MOD
  BY <1>3, UserlandAssumption, FileArrayAssumption
<1>6. me.fd \in Int
  BY <1>3 DEF Fds
<1>7. Read(me.fd, nbytes)
  BY DEF GrepRead
<1>8. PICK data : Become(IF ret'.val = -1 THEN Exit(3)
                         ELSE [me EXCEPT !.pc = "line", !.cnt = ret'.val, !.line_start = 0,
                                         !.last = me.last + ret'.val, !.data = data])
  BY DEF GrepRead
<1> HIDE DEF nbytes
<1>9. /\ Stays /\ machine' = "up"
      /\ \E typed \in 0..MAX_INPUT_CHARS, ticked \in BOOLEAN :
            After("read", read(fa, me.fd, nbytes, typed, ticked))
  BY <1>2, <1>5, <1>6, <1>7, ReadStays
<1>10. PICK typed \in 0..MAX_INPUT_CHARS, ticked \in BOOLEAN :
         After("read", read(fa, me.fd, nbytes, typed, ticked))
  BY <1>9
<1> DEFINE o == read(fa, me.fd, nbytes, typed, ticked)
<1>11. CASE fa[me.fd].flags = FILE_AVAIL
  <2>1. Closed(fa, me.fd)
    BY <1>11 DEF Closed
  <2>2. o = Fail(fa)
    BY <2>1, ClosedCalls
  <2>3. After("read", o)
    BY <1>10
  <2>4. o.ret = -1 /\ o.over = 0
    BY <2>2, FailIs
  <2> HIDE DEF o
  <2>5. Suffices
    BY <1>1, <2>3, <2>4, AfterSuffices
  <2>6. Become(Exit(3))
    BY <1>8, <2>3, <2>4 DEF After
  <2>. QED
    BY <1>1, <1>9, <2>5, <2>6, GrepExits
<1>12. CASE fa[me.fd].flags = FILE_OCCUP
  <2> DEFINE inode == fa[me.fd].inode_num
             pos == fa[me.fd].file_position
             n == read_data(inode, pos, nbytes)
  <2>1. inode \in Nat /\ pos \in Nat
    <3>1. fa[me.fd] \in Slot
      BY <1>3, <1>4
    <3>. QED
      BY <3>1, FileArrayAssumption DEF Slot
  <2>2. fa[me.fd].file_ops_table_ptr = "file"
    BY <1>3, <1>12
  <2>3. n \in -1..nbytes
    <3> HIDE DEF inode, pos
    <3>. QED
      BY <1>5, <2>1, ReadDataBound
  <2>4. /\ o.ret = n /\ o.over = 0
        /\ o.fa[me.fd] = [fa[me.fd] EXCEPT !.file_position = (pos + n) % UINT_MOD]
    <3>1. inode = fa[me.fd].inode_num /\ pos = fa[me.fd].file_position
      OBVIOUS
    <3>2. o = read(fa, me.fd, nbytes, typed, ticked)
      OBVIOUS
    <3>3. n = read_data(inode, pos, nbytes)
      OBVIOUS
    <3> HIDE DEF o, n, inode, pos
    <3>. QED
      BY <1>3, <1>4, <1>5, <1>12, <2>2, <3>1, <3>2, <3>3, FileRead
  <2>5. \A g \in Fds \ {me.fd} : o.fa[g] = fa[g]
    <3>1. o \in Outcomes
      BY <1>4, <1>5, <1>6, ReadType
    <3>. QED
      BY <1>3, <1>4, <1>5, <3>1, HighRead
  <2>6. o.fa[me.fd].file_ops_table_ptr = "file"
    <3>1. fa[me.fd] \in Slot
      BY <1>3, <1>4
    <3> HIDE DEF o, n, pos
    <3>. QED
      BY <2>2, <2>4, <3>1 DEF Slot
  <2>7. After("read", o)
    BY <1>10
  <2> HIDE DEF o, n
  <2>8. me.dirfd # me.fd
    BY <1>3, <1>12
  <2>9. o.fa[me.dirfd] = fa[me.dirfd]
    BY <1>3, <2>5, <2>8
  <2>10. Suffices
    BY <1>1, <2>4, <2>7, AfterSuffices
  <2>11. ret'.val = o.ret /\ pcb'[cpu].file_array = o.fa
    BY <2>7 DEF After
  <2>12. CASE o.ret = -1
    <3>1. Become(Exit(3))
      BY <1>8, <2>11, <2>12
    <3>. QED
      BY <1>1, <1>9, <2>10, <3>1, GrepExits
  <2>13. CASE o.ret # -1
    <3> DEFINE p == [me EXCEPT !.pc = "line", !.cnt = o.ret, !.line_start = 0,
                               !.last = me.last + o.ret, !.data = data]
    <3>1. Become(p)
      BY <1>8, <2>11, <2>13
    <3>2. me.last + o.ret \in 0..BUFSIZE
      BY <1>3, <1>5, <2>3, <2>4, <2>13 DEF nbytes
    <3>3. /\ DOMAIN p = GrepFields /\ p.prog = "grep" /\ p.pc = "line"
          /\ p.line_start = 0 /\ p.dirfd = me.dirfd /\ p.fd = me.fd
      BY <1>1, <1>3 DEF GrepFields
    <3>4. p.last = me.last + o.ret
      BY <1>3 DEF GrepFields
    <3> HIDE DEF p
    <3>5. p.last \in 0..BUFSIZE /\ p.line_start \in Nat /\ p.line_start <= p.last
      BY <1>5, <3>2, <3>3, <3>4
    <3>6. GrepFrame(p, o.fa)
      BY <1>3, <2>6, <2>9, <3>3, <3>5 DEF GrepFrame
    <3>. QED
      BY <1>1, <1>9, <2>10, <2>11, <3>1, <3>6, GrepStays
  <2>. QED
    BY <2>12, <2>13
<1>13. fa[me.fd].flags \in {FILE_AVAIL, FILE_OCCUP}
  BY <1>3, <1>4 DEF Slot
<1>. QED
  BY <1>11, <1>12, <1>13

LEMMA SeekFinds ==
  ASSUME NEW data, NEW k \in Nat, NEW end \in 0..BUFSIZE, k <= end, NEW c
  PROVE  Seek(data, k, end, c) \in k..BUFSIZE
<1> DEFINE Hit(j) == j >= end \/ data[j] = c
           S == {j \in k..BUFSIZE : Hit(j)}
<1>1. BUFSIZE \in Nat
  BY UserlandAssumption
<1>2. BUFSIZE \in S /\ S \in SUBSET Nat
  BY <1>1
<1>3. PICK j \in S : \A i \in S : j <= i
  <2> HIDE DEF S
  <2>. QED
    BY <1>2, LeastExists
<1>4. \A i \in k..j - 1 : i \in k..BUFSIZE /\ i \notin S
  BY <1>1, <1>3
<1>5. \A i \in k..j - 1 : i < end /\ data[i] # c
  BY <1>1, <1>4
<1>6. j \in k..BUFSIZE /\ (j >= end \/ data[j] = c)
  BY <1>3
<1>. QED
  BY <1>5, <1>6 DEF Seek

LEMMA GrepLineStep ==
  ASSUME UInv, GrepLine
  PROVE  UInv' /\ Suffices
<1> DEFINE fa == pcb[cpu].file_array
           line_end == Seek(me.data, me.line_start, me.last, NL)
           more == line_end + 1 < me.last
<1>1. /\ Running /\ me.pc = "line" /\ me.prog = "grep" /\ me.pc # "exit"
      /\ UNCHANGED vars
  BY DEF GrepLine, At
<1>2. GrepFrame(me, fa) /\ IInv /\ Usable
  BY <1>1, MyFrame
<1>3. /\ DOMAIN me = GrepFields /\ me.last \in 0..BUFSIZE /\ me.line_start \in Nat
      /\ me.dirfd \in Fds /\ me.dirfd >= 2
      /\ fa[me.dirfd].flags = FILE_OCCUP
      /\ fa[me.dirfd].file_ops_table_ptr = "directory"
      /\ me.fd \in Fds /\ me.fd >= 2
      /\ fa[me.fd].flags = FILE_OCCUP => fa[me.fd].file_ops_table_ptr = "file"
      /\ me.line_start <= me.last
  BY <1>1, <1>2 DEF GrepFrame
<1>4. BUFSIZE \in Nat
  BY UserlandAssumption
<1>5. line_end \in me.line_start..BUFSIZE /\ line_end \in Nat
  BY <1>3, <1>4, SeekFinds
<1>6. Stays /\ machine' = "up" /\ pcb' = pcb /\ ret' = ret
  BY <1>1, <1>2, NothingStays
<1>7. Suffices
  BY <1>6 DEF Suffices
<1>8. \E data, printed, pc :
        /\ pc \in {"read", "close"}
        /\ \/ Become([me EXCEPT !.pc = "read", !.last = me.last - me.line_start, !.data = data])
           \/ Become([me EXCEPT !.data = data, !.printed = printed, !.line_start = line_end + 1,
                                !.last = IF more THEN me.last ELSE 0,
                                !.pc = IF more THEN "line" ELSE pc])
  <2>1. IF Partial(line_end) THEN KeepRest(line_end) ELSE SearchLine(line_end)
    BY DEF GrepLine
  <2> HIDE DEF line_end
  <2>2. CASE KeepRest(line_end)
    <3>1. \E data : Become([me EXCEPT !.pc = "read", !.last = me.last - me.line_start, !.data = data])
      BY <2>2, Zenon DEF KeepRest
    <3>. QED
      BY <3>1
  <2>3. CASE SearchLine(line_end)
    <3>1. AfterBuffer \in {"read", "close"}
      BY DEF AfterBuffer
    <3>2. \E data, printed :
             Become([me EXCEPT !.data = data, !.printed = printed, !.line_start = line_end + 1,
                               !.last = IF more THEN me.last ELSE 0,
                               !.pc = IF more THEN "line" ELSE AfterBuffer])
      BY <2>3, Zenon DEF SearchLine
    <3>. QED
      BY <3>1, <3>2
  <2>. QED
    BY <2>1, <2>2, <2>3
<1>9. PICK data, printed, pc :
        /\ pc \in {"read", "close"}
        /\ \/ Become([me EXCEPT !.pc = "read", !.last = me.last - me.line_start, !.data = data])
           \/ Become([me EXCEPT !.data = data, !.printed = printed, !.line_start = line_end + 1,
                                !.last = IF more THEN me.last ELSE 0,
                                !.pc = IF more THEN "line" ELSE pc])
  BY <1>8
<1> HIDE DEF line_end
<1>10. ASSUME NEW p, DOMAIN p = GrepFields, p.prog = "grep", p.pc \in {"read", "line", "close"},
             p.dirfd = me.dirfd, p.fd = me.fd, p.last \in 0..BUFSIZE, p.line_start \in Nat,
             p.pc = "line" => p.line_start <= p.last, Become(p)
      PROVE  UInv'
  <2>1. GrepFrame(p, fa)
    BY <1>3, <1>10 DEF GrepFrame
  <2>. QED
    BY <1>1, <1>6, <1>10, <2>1, GrepStays
<1>11. CASE Become([me EXCEPT !.pc = "read", !.last = me.last - me.line_start, !.data = data])
  <2> DEFINE rest == me.last - me.line_start
             p == [me EXCEPT !.pc = "read", !.last = rest, !.data = data]
  <2>1. rest \in 0..BUFSIZE
    BY <1>3, <1>4
  <2> HIDE DEF rest
  <2>2. /\ DOMAIN p = GrepFields /\ p.prog = "grep" /\ p.pc = "read" /\ p.dirfd = me.dirfd
        /\ p.fd = me.fd /\ p.line_start = me.line_start /\ p.last = rest
    BY <1>1, <1>3 DEF GrepFields
  <2>3. Become(p)
    BY <1>11 DEF rest
  <2> HIDE DEF p
  <2>. QED
    BY <1>3, <1>7, <1>10, <2>1, <2>2, <2>3
<1>12. CASE Become([me EXCEPT !.data = data, !.printed = printed, !.line_start = line_end + 1,
                              !.last = IF more THEN me.last ELSE 0,
                              !.pc = IF more THEN "line" ELSE pc])
  <2> DEFINE start == line_end + 1
             last2 == IF more THEN me.last ELSE 0
             pc2 == IF more THEN "line" ELSE pc
             p == [me EXCEPT !.data = data, !.printed = printed, !.line_start = start,
                             !.last = last2, !.pc = pc2]
  <2>1. start \in Nat /\ last2 \in 0..BUFSIZE
    BY <1>3, <1>4, <1>5
  <2>2. pc2 \in {"read", "line", "close"} /\ (pc2 = "line" => start <= last2)
    <3>1. CASE more
      <4>1. pc2 = "line" /\ last2 = me.last
        BY <3>1
      <4>2. start <= me.last
        BY <1>3, <1>5, <3>1
      <4>. QED
        BY <4>1, <4>2
    <3>2. CASE ~more
      <4>1. pc2 \in {"read", "close"}
        BY <1>9, <3>2
      <4>. QED
        BY <4>1
    <3>. QED
      BY <3>1, <3>2
  <2>3. Become(p)
    BY <1>12
  <2> HIDE DEF start, last2, pc2
  <2>4. /\ DOMAIN p = GrepFields /\ p.prog = "grep" /\ p.pc = pc2 /\ p.dirfd = me.dirfd
        /\ p.fd = me.fd /\ p.line_start = start /\ p.last = last2
    BY <1>1, <1>3 DEF GrepFields
  <2> HIDE DEF p
  <2>. QED
    BY <1>7, <1>10, <2>1, <2>2, <2>3, <2>4
<1>. QED
  BY <1>9, <1>11, <1>12

LEMMA GrepCloseStep ==
  ASSUME UInv, GrepClose
  PROVE  UInv' /\ Suffices
<1> DEFINE fa == pcb[cpu].file_array
           o == close(fa, me.fd)
           p == [Start("grep") EXCEPT !.pc = "readdir", !.search = me.search, !.dirfd = me.dirfd]
<1>1. Running /\ me.pc = "close" /\ me.prog = "grep" /\ me.pc # "exit"
  BY DEF GrepClose, At
<1>2. GrepFrame(me, fa) /\ IInv /\ Usable
  BY <1>1, MyFrame
<1>3. /\ me.dirfd \in Fds /\ me.dirfd >= 2
      /\ fa[me.dirfd].flags = FILE_OCCUP
      /\ fa[me.dirfd].file_ops_table_ptr = "directory"
      /\ me.fd \in Fds /\ me.fd >= 2
      /\ fa[me.fd].flags = FILE_OCCUP => fa[me.fd].file_ops_table_ptr = "file"
  BY <1>1, <1>2 DEF GrepFrame
<1>4. fa \in [Fds -> Slot] /\ UsableArray(fa)
  BY <1>1, <1>2, MyArray
<1>5. Close(me.fd) /\ Become(IF ret'.val = -1 THEN Exit(3) ELSE p)
  BY DEF GrepClose
<1>6. me.fd \in Int
  BY <1>3 DEF Fds
<1>7. o.over = 0
  BY OpenCloseOver
<1>8. Stays /\ machine' = "up" /\ After("close", o)
  BY <1>2, <1>5, <1>6, CloseStays
<1>9. o.ret = -1 \/ o.fa[me.dirfd] = fa[me.dirfd]
  <2>1. CASE fa[me.fd].flags = FILE_AVAIL
    <3>1. Closed(fa, me.fd)
      BY <2>1 DEF Closed
    <3>2. o = Fail(fa)
      BY <3>1, ClosedCalls
    <3>. QED
      BY <3>2, FailIs
  <2>2. CASE fa[me.fd].flags = FILE_OCCUP
    <3> DEFINE fa2 == [fa EXCEPT ![me.fd] = blank]
    <3>1. fa2[me.dirfd] = fa[me.dirfd]
      BY <1>3, <1>4, <2>2
    <3>2. o = Return(fa2, 0)
      BY <1>3, <2>2, StdioIs DEF close, Fds
    <3> HIDE DEF fa2
    <3>3. o.fa = fa2
      BY <3>2 DEF Return, Outcome
    <3>. QED
      BY <3>1, <3>3
  <2>3. fa[me.fd].flags \in {FILE_AVAIL, FILE_OCCUP}
    BY <1>3, <1>4 DEF Slot
  <2>. QED
    BY <2>1, <2>2, <2>3
<1> HIDE DEF o
<1>10. Suffices
  BY <1>7, <1>8, AfterSuffices
<1>11. ret'.val = o.ret /\ pcb'[cpu].file_array = o.fa
  BY <1>8 DEF After
<1>12. CASE o.ret = -1
  <2>1. Become(Exit(3))
    BY <1>5, <1>11, <1>12
  <2>. QED
    BY <1>1, <1>8, <1>10, <2>1, GrepExits
<1>13. CASE o.ret # -1
  <2>1. Become(p)
    BY <1>5, <1>11, <1>13
  <2>2. /\ DOMAIN p = GrepFields /\ p.prog = "grep" /\ p.pc = "readdir" /\ p.last = 0
        /\ p.line_start = 0 /\ p.dirfd = me.dirfd
    BY DEF GrepFields, Start
  <2>3. 0 \in 0..BUFSIZE
    BY UserlandAssumption
  <2> HIDE DEF p
  <2>4. GrepFrame(p, o.fa)
    BY <1>3, <1>9, <1>13, <2>2, <2>3 DEF GrepFrame
  <2>. QED
    BY <1>1, <1>8, <1>10, <1>11, <2>1, <2>4, GrepStays
<1>. QED
  BY <1>12, <1>13


----------------------------------------------------------------------------
(* syserr *)

\* A process that has opened nothing cannot make these calls
FailsOn(call, fd) ==
  \/ Closed(init_file_array, fd)
  \/ call = "close" /\ fd < 2
  \/ call = "write" /\ fd = 0
  \/ call = "read" /\ fd = 1

Doomed(c) ==
  \/ c.call \in {"read", "write", "close"} /\ c.fd \in Int /\ FailsOn(c.call, c.fd)
  \/ /\ c.call = "open" /\ c.name \in Names
     /\ read_dentry_by_name(c.name).filetype \notin FileTypes
  \/ c.call \in {"vidmap", "invalid"}

LEMMA FreshArray ==
  /\ Fds = 0..7
  /\ init_file_array \in [Fds -> Slot]
  /\ init_file_array = [fd \in Fds |-> IF fd < 2 THEN stdio ELSE blank]
<1>1. Fds = 0..7
  BY UserlandAssumption DEF Fds
<1>2. init_file_array = [fd \in Fds |-> IF fd < 2 THEN stdio ELSE blank]
  BY <1>1 DEF init_file_array
<1>. QED
  BY <1>1, <1>2, FreshFree

LEMMA FailsOnFails ==
  ASSUME NEW fd \in Int, NEW nbytes, NEW typed, NEW ticked, NEW strlen
  PROVE  LET fa == init_file_array
         IN  /\ FailsOn("read", fd) => read(fa, fd, nbytes, typed, ticked) = Fail(fa)
             /\ FailsOn("write", fd) => write(fa, fd, nbytes, strlen) = Fail(fa)
             /\ FailsOn("close", fd) => close(fa, fd) = Fail(fa)
<1> DEFINE fa == init_file_array
<1>1. fa[0] = stdio /\ fa[1] = stdio /\ 0 \in Fds /\ 1 \in Fds
  BY FreshArray, FreshFree
<1>2. Closed(fa, fd) => /\ read(fa, fd, nbytes, typed, ticked) = Fail(fa)
                        /\ write(fa, fd, nbytes, strlen) = Fail(fa)
                        /\ close(fa, fd) = Fail(fa)
  BY ClosedCalls
<1> HIDE DEF fa
<1>3. fd < 2 => close(fa, fd) = Fail(fa)
  BY DEF close
<1>4. fd = 0 => write(fa, fd, nbytes, strlen) = Fail(fa)
  BY <1>1, StdioIs DEF write, terminal_write
<1>5. fd = 1 => read(fa, fd, nbytes, typed, ticked) = Fail(fa)
  BY <1>1, StdioIs DEF read, terminal_read
<1>. QED
  BY <1>2, <1>3, <1>4, <1>5 DEF FailsOn, fa

\* What a test that wants every call to fail asks of the kernel
LEMMA DoomedStep ==
  ASSUME UInv, Running, me.prog = "syserr", pcb[cpu].file_array = init_file_array,
         NEW c, Doomed(c), SyserrCall(c)
  PROVE  /\ Stays /\ machine' = "up" /\ Suffices
         /\ pcb'[cpu].file_array = init_file_array
         /\ ret'.val = -1
<1> DEFINE fa == init_file_array
<1>1. IInv /\ Usable
  BY DEF UInv
<1>2. ASSUME NEW call \in {"read", "write", "close", "open"}, After(call, Fail(fa)),
             Stays, machine' = "up"
      PROVE  /\ Stays /\ machine' = "up" /\ Suffices
             /\ pcb'[cpu].file_array = init_file_array
             /\ ret'.val = -1
  <2> DEFINE o == Fail(fa)
  <2>1. o.fa = fa /\ o.ret = -1 /\ o.over = 0
    BY FailIs
  <2>2. After(call, o)
    BY <1>2
  <2> HIDE DEF o
  <2>3. Suffices
    BY <1>2, <2>1, <2>2, AfterSuffices
  <2>. QED
    BY <1>2, <2>1, <2>2, <2>3 DEF After
<1>3. CASE c.call = "read"
  <2>1. c.fd \in Int /\ FailsOn("read", c.fd) /\ Read(c.fd, 31)
    BY <1>3 DEF Doomed, SyserrCall
  <2>2. /\ Stays /\ machine' = "up"
        /\ \E typed \in 0..MAX_INPUT_CHARS, ticked \in BOOLEAN :
              After("read", read(fa, c.fd, 31, typed, ticked))
    BY <1>1, <2>1, ReadStays
  <2>3. PICK typed \in 0..MAX_INPUT_CHARS, ticked \in BOOLEAN :
           After("read", read(fa, c.fd, 31, typed, ticked))
    BY <2>2
  <2>4. read(fa, c.fd, 31, typed, ticked) = Fail(fa)
    BY <2>1, FailsOnFails
  <2>. QED
    BY <1>2, <2>2, <2>3, <2>4
<1>4. CASE c.call = "write"
  <2>1. c.fd \in Int /\ FailsOn("write", c.fd) /\ Write(c.fd, 31)
    BY <1>4 DEF Doomed, SyserrCall
  <2>2. /\ Stays /\ machine' = "up"
        /\ \E strlen \in 0..MAX_INPUT_CHARS : After("write", write(fa, c.fd, 31, strlen))
    BY <1>1, <2>1, WriteStays
  <2>3. PICK strlen \in 0..MAX_INPUT_CHARS : After("write", write(fa, c.fd, 31, strlen))
    BY <2>2
  <2>4. write(fa, c.fd, 31, strlen) = Fail(fa)
    BY <2>1, FailsOnFails
  <2>. QED
    BY <1>2, <2>2, <2>3, <2>4
<1>5. CASE c.call = "close"
  <2>1. c.fd \in Int /\ FailsOn("close", c.fd) /\ Close(c.fd)
    BY <1>5 DEF Doomed, SyserrCall
  <2>2. Stays /\ machine' = "up" /\ After("close", close(fa, c.fd))
    BY <1>1, <2>1, CloseStays
  <2>3. close(fa, c.fd) = Fail(fa)
    BY <2>1, FailsOnFails
  <2>. QED
    BY <1>2, <2>2, <2>3
<1>6. CASE c.call = "open"
  <2>1. /\ c.name \in Names /\ read_dentry_by_name(c.name).filetype \notin FileTypes
        /\ Open(c.name)
    BY <1>6 DEF Doomed, SyserrCall
  <2>2. Stays /\ machine' = "up" /\ After("open", open(fa, c.name))
    BY <1>1, <2>1, OpenStays
  <2>3. open(fa, c.name) = Fail(fa)
    BY <2>1, OpenFails
  <2>. QED
    BY <1>2, <2>2, <2>3
<1>7. ASSUME Stays, machine' = "up", pcb' = pcb, NEW call, ret' = Returned(call, -1)
      PROVE  /\ Stays /\ machine' = "up" /\ Suffices
             /\ pcb'[cpu].file_array = init_file_array
             /\ ret'.val = -1
  <2>1. ret'.val = -1 /\ ret'.over = 0
    BY <1>7 DEF Returned
  <2>. QED
    BY <1>7, <2>1 DEF Suffices
<1>8. CASE c.call = "vidmap"
  <2>1. Vidmap(FALSE)
    BY <1>8 DEF SyserrCall
  <2>. QED
    BY <1>1, <1>7, <2>1, VidmapStays
<1>9. CASE c.call = "invalid"
  <2>1. Invalid
    BY <1>9 DEF SyserrCall
  <2>. QED
    BY <1>1, <1>7, <2>1, InvalidStays
<1>. QED
  BY <1>3, <1>4, <1>5, <1>6, <1>8, <1>9 DEF SyserrCall

\* Every call of every test but the third is one of these
LEMMA DoomedTests ==
  ASSUME NEW t \in (1..8) \ {3}, NEW i \in 1..Len(Tests[t])
  PROVE  Doomed(Tests[t][i])
<1>1. \A fd \in Int : fd < 0 \/ fd > 1 => Closed(init_file_array, fd)
  BY FreshArray, StdioIs DEF Closed
<1>2. ASSUME NEW call \in {"read", "write", "close"}, NEW fd \in Int, FailsOn(call, fd)
      PROVE  Doomed(OnFd(call, fd))
  BY <1>2 DEF Doomed, OnFd
<1>3. ASSUME NEW call \in {"read", "write", "close"}, NEW fd \in Int, fd < 0 \/ fd > 1
      PROVE  Doomed(OnFd(call, fd))
  BY <1>1, <1>2, <1>3 DEF FailsOn
<1>4. ASSUME NEW fd \in Int PROVE Doomed(OnFd("close", fd))
  BY <1>1, <1>2 DEF FailsOn
<1>5. CASE t = 1
  <2>1. NEG_FD \in Int /\ NEG_FD < 0
    BY DEF NEG_FD
  <2>2. Tests[t] = err_neg_fd
    BY <1>5 DEF Tests
  <2>. QED
    BY <1>3, <2>1, <2>2 DEF err_neg_fd
<1>6. CASE t = 2
  <2>1. BIG_FD \in Int /\ BIG_FD > 1
    BY DEF BIG_FD
  <2>2. Tests[t] = err_big_fd
    BY <1>6 DEF Tests
  <2>. QED
    BY <1>3, <2>1, <2>2 DEF err_big_fd
<1>7. CASE t = 4
  <2>1. Tests[t] = err_open
    BY <1>7 DEF Tests
  <2>2. NoDentry.filetype \notin FileTypes
    BY DEF NoDentry, FileTypes, FILE_TYPE_RTC, FILE_TYPE_DIR, FILE_TYPE_FILE
  <2>3. \A name \in {"helloo", "shel", EmptyName} :
           name \in Names /\ read_dentry_by_name(name) = NoDentry
    <3>1. read_dentry_by_name(EmptyName) = NoDentry /\ EmptyName \in Names
      BY ImageAssumption DEF read_dentry_by_name
    <3>. QED
      BY <3>1, UserlandAssumption
  <2>4. ASSUME NEW name \in {"helloo", "shel", EmptyName}
        PROVE  Doomed(OpenOf(name))
    <3>1. OpenOf(name).call = "open" /\ OpenOf(name).name = name
      BY DEF OpenOf
    <3>. QED
      BY <2>2, <2>3, <3>1 DEF Doomed
  <2>. QED
    BY <2>1, <2>4 DEF err_open
<1>8. CASE t = 5
  <2>1. Tests[t] = err_unopened
    BY <1>8 DEF Tests
  <2>2. Len(err_unopened) = 20
    BY DEF err_unopened
  <2>3. i \in 1..8 => err_unopened[i] = OnFd("close", i - 1)
    BY DEF err_unopened
  <2>4. i \in 9..14 => err_unopened[i] = OnFd("read", i - 8 + 1)
    BY DEF err_unopened
  <2>5. i \in 15..20 => err_unopened[i] = OnFd("write", i - 14 + 1)
    BY DEF err_unopened
  <2>6. i \in 1..8 \/ i \in 9..14 \/ i \in 15..20
    BY <2>1, <2>2
  <2>. QED
    BY <1>3, <1>4, <2>1, <2>3, <2>4, <2>5, <2>6
<1>9. CASE t = 6
  <2>1. Tests[t] = err_vidmap
    BY <1>9 DEF Tests
  <2>. QED
    BY <2>1 DEF err_vidmap, Plain, Doomed
<1>10. CASE t = 7
  <2>1. Tests[t] = err_stdin_out
    BY <1>10 DEF Tests
  <2>2. FailsOn("write", 0) /\ FailsOn("read", 1)
    BY DEF FailsOn
  <2>. QED
    BY <1>2, <2>1, <2>2 DEF err_stdin_out
<1>11. CASE t = 8
  <2>1. Tests[t] = err_syscall_num
    BY <1>11 DEF Tests
  <2>. QED
    BY <2>1 DEF err_syscall_num, Plain, Doomed
<1>. QED
  BY <1>5, <1>6, <1>7, <1>8, <1>9, <1>10, <1>11

\* err_open_lots opens the directory until no descriptor is left and closes it
LEMMA LotsOfCalls ==
  /\ Tests[3] = err_open_lots
  /\ Len(err_open_lots) = 13
  /\ \A i \in 1..7 : err_open_lots[i] = OpenOf(".")
  /\ \A i \in 8..13 : err_open_lots[i] = OnFd("close", i - 7 + 1)
<1>1. Tests[3] = err_open_lots
  BY DEF Tests
<1>2. Len(err_open_lots) = 13
  BY DEF err_open_lots
<1>3. \A i \in 1..7 : err_open_lots[i] = OpenOf(".")
  BY DEF err_open_lots
<1>4. \A i \in 8..13 : err_open_lots[i] = OnFd("close", i - 7 + 1)
  BY DEF err_open_lots
<1>. QED
  BY <1>1, <1>2, <1>3, <1>4

LEMMA OpenedIs ==
  /\ Opened(0) = init_file_array
  /\ Opened(13) = init_file_array
  /\ dirslot = OpenSlot(read_dentry_by_name("."))
  /\ dirslot.flags = FILE_OCCUP /\ dirslot.file_ops_table_ptr = "directory"
<1>1. OpenAfter(0) = {} /\ OpenAfter(13) = {}
  BY DEF OpenAfter
<1>2. Opened(0) = init_file_array /\ Opened(13) = init_file_array
  BY <1>1, FreshArray DEF Opened
<1>3. read_dentry_by_name(".").filetype # FILE_TYPE_FILE
  BY UserlandAssumption DEF FILE_TYPE_DIR, FILE_TYPE_FILE
<1>4. dirslot = OpenSlot(read_dentry_by_name("."))
  BY <1>3 DEF dirslot, OpenSlot
<1>. QED
  BY <1>2, <1>4 DEF dirslot

\* The k-th call of err_open_lots on the descriptors the calls before it left
LEMMA OpenLots ==
  ASSUME NEW k \in 0..6, NEW o, o = open(Opened(k), ".")
  PROVE  /\ o.fa = Opened(k + 1)
         /\ o.ret \in Int
         /\ o.ret = -1 <=> k = 6
<1> DEFINE fa == Opened(k)
           dentry == read_dentry_by_name(".")
<1>1. FreeFds(fa) = (2..7) \ OpenAfter(k)
  <2>1. \A fd \in Fds : fa[fd] = IF fd < 2 THEN stdio ELSE IF fd \in OpenAfter(k) THEN dirslot ELSE blank
    BY DEF Opened
  <2> HIDE DEF fa
  <2>. QED
    BY <2>1, FreshArray, OpenedIs, StdioIs DEF FreeFds
<1>2. CASE k = 6
  <2>1. FreeFds(fa) = {}
    BY <1>1, <1>2 DEF OpenAfter
  <2>2. o = Fail(fa)
    BY <2>1, OpenFails
  <2>3. Opened(k + 1) = fa
    <3>1. OpenAfter(7) = OpenAfter(6)
      BY DEF OpenAfter
    <3>. QED
      BY <1>2, <3>1 DEF Opened
  <2>. QED
    BY <1>2, <2>2, <2>3, FailIs
<1>3. CASE k \in 0..5
  <2>1. OpenAfter(k) = 2..k + 1 /\ OpenAfter(k + 1) = 2..k + 2
    BY <1>3 DEF OpenAfter
  <2>2. FreeFds(fa) = k + 2..7
    BY <1>1, <1>3, <2>1
  <2>3. NextFd(fa) = k + 2
    <3>1. FreeFds(fa) # {}
      BY <1>3, <2>2
    <3>2. k + 2 \in FreeFds(fa) /\ \A g \in FreeFds(fa) : k + 2 <= g
      BY <1>3, <2>2
    <3>3. NextFd(fa) \in FreeFds(fa) /\ \A g \in FreeFds(fa) : NextFd(fa) <= g
      BY <3>2 DEF NextFd
    <3>. QED
      BY <1>3, <2>2, <3>2, <3>3
  <2>4. dentry.filetype = FILE_TYPE_DIR /\ ~(NameLen["."] >= FILENAME_LEN)
    BY UserlandAssumption, ImageAssumption
  <2> DEFINE fa2 == [fa EXCEPT ![k + 2] = dirslot]
  <2>5. o = Return(fa2, k + 2)
    <3>1. FreeFds(fa) # {}
      BY <1>3, <2>2
    <3>2. o = Return([fa EXCEPT ![NextFd(fa)] = OpenSlot(dentry)], NextFd(fa))
      BY <2>4, <3>1, OpenFile
    <3>. QED
      BY <2>3, <3>2, OpenedIs
  <2>6. fa2 = Opened(k + 1)
    <3>1. \A fd \in Fds \ {k + 2} : fd \in OpenAfter(k + 1) <=> fd \in OpenAfter(k)
      BY <1>3, <2>1, FreshArray
    <3>2. k + 2 \in OpenAfter(k + 1) /\ ~(k + 2 < 2)
      BY <1>3, <2>1
    <3>3. fa2 = [fd \in Fds |-> IF fd = k + 2 THEN dirslot ELSE fa[fd]]
      BY DEF Opened
    <3>. QED
      BY <3>1, <3>2, <3>3 DEF Opened
  <2> HIDE DEF fa2
  <2>7. o.fa = fa2 /\ o.ret = k + 2
    BY <2>5 DEF Return, Outcome
  <2>. QED
    BY <1>3, <2>6, <2>7
<1>. QED
  BY <1>2, <1>3

LEMMA CloseLots ==
  ASSUME NEW k \in 7..12, NEW o, o = close(Opened(k), k - 5)
  PROVE  o.fa = Opened(k + 1) /\ o.ret = 0
<1> DEFINE fa == Opened(k)
           fa2 == [fa EXCEPT ![k - 5] = blank]
<1>1. OpenAfter(k) = k - 5..7 /\ OpenAfter(k + 1) = k - 4..7
  BY DEF OpenAfter
<1>2. k - 5 \in Fds /\ k - 5 \in 2..NUM_MAX_OPEN_FILES - 1 /\ ~(k - 5 < 2) /\ k - 5 \in OpenAfter(k)
  BY <1>1, FreshArray, UserlandAssumption
<1>3. fa[k - 5] = dirslot
  BY <1>2 DEF Opened
<1>4. o = Return(fa2, 0)
  BY <1>2, <1>3, OpenedIs, StdioIs DEF close
<1>5. fa2 = Opened(k + 1)
  <2>1. \A fd \in Fds \ {k - 5} : fd \in OpenAfter(k + 1) <=> fd \in OpenAfter(k)
    BY <1>1, FreshArray
  <2>2. k - 5 \notin OpenAfter(k + 1)
    BY <1>1
  <2>3. fa2 = [fd \in Fds |-> IF fd = k - 5 THEN blank ELSE fa[fd]]
    BY DEF Opened
  <2>. QED
    BY <1>2, <2>1, <2>2, <2>3 DEF Opened
<1> HIDE DEF fa2
<1>6. o.fa = fa2 /\ o.ret = 0
  BY <1>4 DEF Return, Outcome
<1>. QED
  BY <1>5, <1>6

LEMMA LotsStep ==
  ASSUME UInv, Running, me.prog = "syserr", NEW k \in 0..12,
         pcb[cpu].file_array = Opened(k), SyserrCall(err_open_lots[k + 1])
  PROVE  /\ Stays /\ machine' = "up" /\ Suffices
         /\ pcb'[cpu].file_array = Opened(k + 1)
         /\ ret'.val \in Int
         /\ k < 7 => (ret'.val = -1 <=> k = 6)
<1>1. IInv /\ Usable
  BY DEF UInv
<1>2. CASE k \in 0..6
  <2>1. err_open_lots[k + 1] = OpenOf(".")
    BY <1>2, LotsOfCalls
  <2>2. Open(".")
    BY <2>1 DEF SyserrCall, OpenOf
  <2>3. "." \in Names
    BY UserlandAssumption
  <2> DEFINE o == open(Opened(k), ".")
  <2>4. Stays /\ machine' = "up" /\ After("open", o)
    BY <1>1, <2>2, <2>3, OpenStays
  <2>5. o.over = 0
    BY OpenCloseOver
  <2>6. o.fa = Opened(k + 1) /\ o.ret \in Int /\ (o.ret = -1 <=> k = 6)
    BY <1>2, OpenLots
  <2> HIDE DEF o
  <2>7. Suffices
    BY <2>4, <2>5, AfterSuffices
  <2>. QED
    BY <2>4, <2>6, <2>7 DEF After
<1>3. CASE k \in 7..12
  <2>1. err_open_lots[k + 1] = OnFd("close", k - 5)
    <3>1. k + 1 \in 8..13 /\ (k + 1) - 7 + 1 = k - 5
      BY <1>3
    <3>. QED
      BY <3>1, LotsOfCalls
  <2>2. Close(k - 5) /\ k - 5 \in Int
    BY <1>3, <2>1 DEF SyserrCall, OnFd
  <2> DEFINE o == close(Opened(k), k - 5)
  <2>3. Stays /\ machine' = "up" /\ After("close", o)
    BY <1>1, <2>2, CloseStays
  <2>4. o.over = 0
    BY OpenCloseOver
  <2>5. o.fa = Opened(k + 1) /\ o.ret = 0
    BY <1>3, CloseLots
  <2> HIDE DEF o
  <2>6. Suffices
    BY <2>3, <2>4, AfterSuffices
  <2>. QED
    BY <1>3, <2>3, <2>5, <2>6 DEF After
<1>. QED
  BY <1>2, <1>3

LEMMA SyserrStays ==
  ASSUME UInv, Running, me.prog = "syserr", Stays, machine' = "up", NEW p, Become(p),
         SyserrFrame(p, pcb'[cpu].file_array)
  PROVE  UInv'
<1>1. p.prog = me.prog
  BY DEF SyserrFrame
<1>. QED
  BY <1>1, ProgramStays DEF Frame

\* A test begins, and ends, with nothing open and no call made
LEMMA SyserrFresh ==
  ASSUME NEW p, p \in [prog : {"syserr"}, pc : {"read", "test"}, todo : Seq(1..8),
                       vals : Seq(Int), fail : {0}],
         p.pc = "test", p.vals = <<>>
  PROVE  SyserrFrame(p, init_file_array)
<1>1. Len(p.vals) = 0 /\ DOMAIN p.vals = {}
  OBVIOUS
<1>2. Opened(Len(p.vals)) = init_file_array
  BY <1>1, OpenedIs
<1>. QED
  BY <1>1, <1>2 DEF SyserrFrame

LEMMA SyserrReadStep ==
  ASSUME UInv, SyserrRead
  PROVE  UInv' /\ Suffices
<1> DEFINE fa == pcb[cpu].file_array
           T == [prog : {"syserr"}, pc : {"read", "test"}, todo : Seq(1..8), vals : Seq(Int),
                 fail : {0}]
<1>1. Running /\ me.pc = "read" /\ me.prog = "syserr" /\ Read(0, 127)
  BY DEF SyserrRead, At
<1>2. SyserrFrame(me, fa)
  BY <1>1, MyFrame
<1>3. me \in T /\ fa = init_file_array /\ me.vals = <<>>
  BY <1>1, <1>2 DEF SyserrFrame
<1>4. /\ Stays /\ machine' = "up" /\ Suffices /\ pcb'[cpu].file_array = fa
      /\ ret'.val # -1
  BY <1>1, <1>3, FreshFree, StdinStep
<1>5. PICK todo \in {<<t>> : t \in DOMAIN Tests} \union {<<1, 2, 3, 4, 5, 6, 7, 8>>, <<>>} :
         Become(IF ret'.val = -1 THEN Exit(2) ELSE [me EXCEPT !.pc = "test", !.todo = todo])
  BY DEF SyserrRead
<1>6. todo \in Seq(1..8)
  <2>1. DOMAIN Tests = 1..8
    BY DEF Tests
  <2>2. \A t \in 1..8 : <<t>> \in Seq(1..8)
    OBVIOUS
  <2>3. <<1, 2, 3, 4, 5, 6, 7, 8>> \in Seq(1..8) /\ <<>> \in Seq(1..8)
    OBVIOUS
  <2>. QED
    BY <1>5, <2>1, <2>2, <2>3
<1> DEFINE p == [me EXCEPT !.pc = "test", !.todo = todo]
<1>7. Become(p)
  BY <1>4, <1>5
<1>8. p \in T /\ p.pc = "test" /\ p.vals = <<>>
  BY <1>3, <1>6
<1> HIDE DEF p
<1>9. SyserrFrame(p, fa)
  BY <1>3, <1>8, SyserrFresh
<1>. QED
  BY <1>1, <1>4, <1>7, <1>9, SyserrStays

LEMMA SyserrEndStep ==
  ASSUME UInv, SyserrEnd
  PROVE  UInv' /\ Suffices
<1>1. /\ Running /\ me.pc = "test" /\ me.prog = "syserr" /\ Become(Exit(me.fail))
      /\ UNCHANGED vars
  BY DEF SyserrEnd, At
<1>2. SyserrFrame(me, pcb[cpu].file_array) /\ IInv /\ Usable
  BY <1>1, MyFrame
<1>3. me.fail = 0
  BY <1>2 DEF SyserrFrame
<1>4. Stays /\ machine' = "up" /\ ret' = ret
  BY <1>1, <1>2, NothingStays
<1>5. Suffices
  BY <1>4 DEF Suffices
<1>. QED
  BY <1>1, <1>3, <1>4, <1>5, ExitStays

\* The calls that a test has made are those it wanted to fail, and they did
LEMMA TestPasses ==
  ASSUME NEW p, NEW fa, SyserrFrame(p, fa), p.pc = "test", p.todo # <<>>,
         ~(Len(p.vals) < Len(Tests[Head(p.todo)]))
  PROVE  Passes(Head(p.todo), p.vals) /\ fa = init_file_array
<1>1. p.vals \in Seq(Int)
  BY DEF SyserrFrame
<1>2. CASE Head(p.todo) = 3
  <2>1. /\ Len(p.vals) <= 13 /\ fa = Opened(Len(p.vals))
        /\ \A i \in 1..7 : i \in DOMAIN p.vals => ((p.vals[i] = -1) <=> (i = 7))
    BY <1>2 DEF SyserrFrame
  <2>2. Len(p.vals) = 13
    <3> DEFINE n == Len(p.vals)
               m == Len(Tests[Head(p.todo)])
    <3>1. n \in Nat
      BY <1>1
    <3>2. m = 13
      BY <1>2, LotsOfCalls
    <3>3. n <= 13 /\ ~(n < m)
      BY <2>1
    <3> HIDE DEF n, m
    <3>4. n = 13
      BY <3>1, <3>2, <3>3
    <3>. QED
      BY <3>4 DEF n
  <2>3. DOMAIN p.vals = 1..13
    BY <1>1, <2>2
  <2>4. {i \in 1..7 : p.vals[i] = -1} = {7}
    BY <2>1, <2>3
  <2>5. Cardinality({7}) = 1
    BY FS_Singleton
  <2>6. Passes(Head(p.todo), p.vals)
    BY <1>2, <2>4, <2>5 DEF Passes
  <2>. QED
    BY <2>1, <2>2, <2>6, OpenedIs
<1>3. CASE Head(p.todo) # 3
  BY <1>3 DEF SyserrFrame, Passes
<1>. QED
  BY <1>2, <1>3

LEMMA SyserrStepStep ==
  ASSUME UInv, SyserrStep
  PROVE  UInv' /\ Suffices
<1> DEFINE fa == pcb[cpu].file_array
           T == [prog : {"syserr"}, pc : {"read", "test"}, todo : Seq(1..8), vals : Seq(Int),
                 fail : {0}]
           t == Head(me.todo)
           k == Len(me.vals)
<1>1. Running /\ me.pc = "test" /\ me.prog = "syserr" /\ me.todo # <<>>
  BY DEF SyserrStep, At
<1>2. SyserrFrame(me, fa) /\ IInv /\ Usable
  BY <1>1, MyFrame
<1>3. me \in T /\ me.todo \in Seq(1..8) /\ me.vals \in Seq(Int) /\ me.fail = 0
  BY <1>2 DEF SyserrFrame
<1>4. t \in 1..8 /\ Tail(me.todo) \in Seq(1..8) /\ k \in Nat
  BY <1>1, <1>3
<1>5. CASE k < Len(Tests[t])
  <2> DEFINE vals == Append(me.vals, ret'.val)
             p == [me EXCEPT !.vals = vals]
  <2>1. SyserrCall(Tests[t][k + 1]) /\ Become(p)
    BY <1>5 DEF SyserrStep
  <2>2. ASSUME ret'.val \in Int
        PROVE  /\ vals \in Seq(Int) /\ Len(vals) = k + 1 /\ DOMAIN vals = 1..k + 1
               /\ \A i \in 1..k : vals[i] = me.vals[i]
               /\ vals[k + 1] = ret'.val
    BY <1>3, <1>4, <2>2
  <2> HIDE DEF vals
  <2>3. ASSUME ret'.val \in Int
        PROVE  p \in T /\ p.pc = "test" /\ p.todo = me.todo /\ p.vals = vals
    BY <1>1, <1>3, <2>2, <2>3
  <2>4. DOMAIN me.vals = 1..k
    BY <1>3
  <2>5. CASE t = 3
    <3>1. /\ k <= 13 /\ fa = Opened(k)
          /\ \A i \in 1..7 : i \in DOMAIN me.vals => ((me.vals[i] = -1) <=> (i = 7))
      BY <1>1, <1>2, <2>5 DEF SyserrFrame
    <3>2. k \in 0..12 /\ SyserrCall(err_open_lots[k + 1])
      <4>1. Tests[t] = err_open_lots /\ Len(Tests[t]) = 13
        BY <2>5, LotsOfCalls
      <4>2. k < 13 /\ SyserrCall(err_open_lots[k + 1])
        BY <1>5, <2>1, <4>1
      <4> HIDE DEF k
      <4>. QED
        BY <1>4, <4>2
    <3>3. /\ Stays /\ machine' = "up" /\ Suffices
          /\ pcb'[cpu].file_array = Opened(k + 1)
          /\ ret'.val \in Int
          /\ k < 7 => (ret'.val = -1 <=> k = 6)
      <4> HIDE DEF k
      <4>. QED
        BY <1>1, <3>1, <3>2, LotsStep
    <3>4. \A i \in 1..7 : i \in 1..k + 1 => ((vals[i] = -1) <=> (i = 7))
      <4>1. \A i \in 1..7 : i \in 1..k + 1 => i \in 1..k \/ (i = k + 1 /\ k < 7)
        BY <1>4
      <4>2. \A i \in 1..7 : i \in 1..k => ((vals[i] = -1) <=> (i = 7))
        BY <2>2, <2>4, <3>1, <3>3
      <4>3. k < 7 => ((vals[k + 1] = -1) <=> (k + 1 = 7))
        <5>1. vals[k + 1] = ret'.val /\ (k < 7 => (ret'.val = -1 <=> k = 6))
          BY <2>2, <3>3
        <5>2. k \in Nat
          BY <1>4
        <5> HIDE DEF k
        <5>. QED
          BY <5>1, <5>2
      <4>. QED
        BY <4>1, <4>2, <4>3
    <3>5. k + 1 <= 13
      <4> HIDE DEF k
      <4>. QED
        BY <3>2
    <3>6. p \in T /\ p.pc = "test" /\ p.todo = me.todo /\ p.vals = vals
      BY <2>3, <3>3
    <3>7. Len(vals) = k + 1 /\ DOMAIN vals = 1..k + 1
      BY <2>2, <3>3
    <3> HIDE DEF p, k
    <3>8. SyserrFrame(p, Opened(k + 1))
      BY <1>1, <2>5, <3>4, <3>5, <3>6, <3>7 DEF SyserrFrame
    <3>. QED
      BY <1>1, <2>1, <3>3, <3>8, SyserrStays
  <2>6. CASE t # 3
    <3>1. fa = init_file_array /\ \A i \in DOMAIN me.vals : me.vals[i] = -1
      BY <1>1, <1>2, <2>6 DEF SyserrFrame
    <3>2. Doomed(Tests[t][k + 1])
      <4>1. k + 1 \in 1..Len(Tests[t]) /\ t \in (1..8) \ {3}
        <5>1. Len(Tests[t]) \in Nat
          BY <1>4 DEF Tests, err_neg_fd, err_big_fd, err_open_lots, err_open, err_unopened,
                      err_vidmap, err_stdin_out, err_syscall_num
        <5>. QED
          BY <1>4, <1>5, <2>6, <5>1
      <4>. QED
        BY <4>1, DoomedTests
    <3>3. /\ Stays /\ machine' = "up" /\ Suffices
          /\ pcb'[cpu].file_array = init_file_array
          /\ ret'.val = -1
      BY <1>1, <2>1, <3>1, <3>2, DoomedStep
    <3>4. \A i \in DOMAIN vals : vals[i] = -1
      <4>1. \A i \in 1..k + 1 : i \in 1..k \/ i = k + 1
        BY <1>4
      <4>. QED
        BY <2>2, <2>4, <3>1, <3>3, <4>1
    <3>5. p \in T /\ p.pc = "test" /\ p.todo = me.todo /\ p.vals = vals
      BY <2>3, <3>3
    <3> HIDE DEF p
    <3>6. SyserrFrame(p, init_file_array)
      BY <1>1, <2>6, <3>4, <3>5 DEF SyserrFrame
    <3>. QED
      BY <1>1, <2>1, <3>3, <3>6, SyserrStays
  <2>. QED
    BY <2>5, <2>6
<1>6. CASE ~(k < Len(Tests[t]))
  <2> DEFINE p == [me EXCEPT !.todo = Tail(me.todo), !.vals = <<>>,
                             !.fail = me.fail + IF Passes(t, me.vals) THEN 0 ELSE 2]
  <2>1. Become(p) /\ UNCHANGED vars
    BY <1>6 DEF SyserrStep
  <2>2. Passes(t, me.vals) /\ fa = init_file_array
    BY <1>1, <1>2, <1>6, TestPasses
  <2>3. me.fail + (IF Passes(t, me.vals) THEN 0 ELSE 2) = 0
    BY <1>3, <2>2
  <2>4. p = [me EXCEPT !.todo = Tail(me.todo), !.vals = <<>>, !.fail = 0]
    BY <2>3
  <2>5. p \in T /\ p.pc = "test" /\ p.vals = <<>>
    <3>1. Tail(me.todo) \in Seq(1..8) /\ <<>> \in Seq(Int) /\ 0 \in {0}
      BY <1>4
    <3> HIDE DEF p
    <3>. QED
      BY <1>1, <1>3, <2>4, <3>1
  <2> HIDE DEF p
  <2>6. Stays /\ machine' = "up" /\ pcb' = pcb /\ ret' = ret
    BY <1>1, <1>2, <2>1, NothingStays
  <2>7. Suffices
    BY <2>6 DEF Suffices
  <2>8. SyserrFrame(p, pcb'[cpu].file_array)
    BY <2>2, <2>5, <2>6, SyserrFresh
  <2>. QED
    BY <1>1, <2>1, <2>6, <2>7, <2>8, SyserrStays
<1>. QED
  BY <1>5, <1>6


----------------------------------------------------------------------------
(* The theorems *)

LEMMA ProgramStepStep ==
  ASSUME UInv, ProgramStep
  PROVE  UInv' /\ Suffices
<1>1. CASE ShellRead \/ ShellLine \/ ShellResume
  BY <1>1, ShellStep
<1>2. CASE ShellRun
  BY <1>2, ShellRunStep
<1>3. CASE CatArgs \/ CatOpen \/ CatRead \/ CatWrite
  BY <1>3, CatArgsStep, CatOpenStep, CatReadStep, CatWriteStep
<1>4. CASE LsOpen \/ LsRead \/ LsWrite
  BY <1>4, LsStep
<1>5. CASE GrepArgs \/ GrepOpendir \/ GrepReaddir \/ GrepOpen
  BY <1>5, GrepStartStep, GrepReaddirStep, GrepOpenStep
<1>6. CASE GrepRead \/ GrepLine \/ GrepClose
  BY <1>6, GrepReadStep, GrepLineStep, GrepCloseStep
<1>7. CASE \/ HelloRead \/ TestprintWrite \/ CounterRead \/ CounterWrite
           \/ SigtestArgs \/ SigtestHandler \/ SigtestRead
  BY <1>7, SimpleStep
<1>8. CASE SyserrRead \/ SyserrStep \/ SyserrEnd
  BY <1>8, SyserrReadStep, SyserrStepStep, SyserrEndStep
<1>9. CASE PingpongOpen \/ PingpongRate \/ PingpongDraw \/ PingpongTick
  BY <1>9, PingpongStep
<1>10. CASE SigtestFault
  BY <1>10, FaultStep
<1>11. CASE Ends
  BY <1>11, EndsStep
<1>. QED
  BY <1>1, <1>2, <1>3, <1>4, <1>5, <1>6, <1>7, <1>8, <1>9, <1>10, <1>11 DEF ProgramStep

LEMMA StepUInv ==
  ASSUME UInv, [UNext]_uvars
  PROVE  UInv'
<1>1. CASE UBootLoop
  BY <1>1, BootStep
<1>2. CASE ProgramStep
  BY <1>2, ProgramStepStep
<1>3. CASE UNCHANGED uvars
  <2>1. UNCHANGED vars /\ prog' = prog
    BY <1>3 DEF uvars
  <2>2. UNCHANGED <<pcb, boot_command, cpu, waiting, machine>>
    BY <2>1 DEF vars, kernelVars
  <2>3. IInv' /\ Usable'
    BY <2>1, StepIInv, StepUsable DEF UInv
  <2>4. OnlySigtestFaults'
    BY <2>1, <2>2 DEF UInv, OnlySigtestFaults
  <2>5. Callers'
    BY <2>1, <2>2 DEF UInv, Callers, Waits, ShellFrame
  <2>6. cpu' # BootBlock => Frame(prog'[cpu'], pcb'[cpu'].file_array, pcb'[cpu'].arg)
    BY <2>1, <2>2 DEF UInv
  <2>7. (cpu # BootBlock => Frame(prog[cpu], pcb[cpu].file_array, pcb[cpu].arg))'
    BY <2>6 DEF Frame, ShellFrame, CatFrame, LsFrame, GrepFrame, SyserrFrame, PingpongFrame,
                 SimpleFrame, ExitFrame
  <2>. QED
    BY <2>3, <2>4, <2>5, <2>7 DEF UInv
<1>4. CASE UStopped
  BY <1>3, <1>4 DEF UStopped, Stopped, uvars
<1>. QED
  BY <1>1, <1>2, <1>3, <1>4 DEF UNext

\* The invariant of the programs and the kernel under them
LEMMA SpecUInv == USpec => []UInv
<1>1. USpec => UInit /\ [][UNext]_uvars
  BY DEF USpec
<1>. QED
  BY <1>1, InitUInv, StepUInv, PTL

\* A program other than sigtest whose main has returned is the one that runs
LEMMA ExitedFrame ==
  ASSUME UInv, NEW a \in PcbAddrs, NEW name, Exited(a, name), name # "sigtest"
  PROVE  a = cpu /\ ExitFrame(prog[a], pcb[a].arg) /\ Running
<1>1. a = cpu
  <2>1. SUFFICES ASSUME a # cpu PROVE FALSE
    OBVIOUS
  <2>2. prog[a] = none \/ Waits(prog[a])
    BY <2>1 DEF UInv, Callers
  <2>3. prog[a].pc # "exit"
    BY <2>2 DEF none, Waits
  <2>. QED
    BY <2>3 DEF Exited
<1>2. machine = "up"
  BY <1>1 DEF UInv, OnlySigtestFaults, Exited
<1>3. Running
  BY <1>1, <1>2, DistinctBlocks DEF Running, PcbAddrs
<1>. QED
  BY <1>1, <1>3, MyFrame DEF me, Exited

\* No program but sigtest brings the machine down, and none makes a system
\* call hang: every read finds a descriptor whose operation returns.
THEOREM OnlySigtestFaultsAlways == USpec => []OnlySigtestFaults
<1>1. UInv => OnlySigtestFaults
  BY DEF UInv
<1>. QED
  BY <1>1, SpecUInv, PTL

\* syserr ends with 0, whichever tests it was asked for and whatever ran
\* before it: its eight tests of the system calls pass.
THEOREM SyserrPassesAlways == USpec => []SyserrPasses
<1>1. UInv => SyserrPasses
  <2> SUFFICES ASSUME UInv, NEW a \in PcbAddrs, Exited(a, "syserr")
               PROVE  prog[a].status = 0
    BY DEF SyserrPasses
  <2>1. ExitFrame(prog[a], pcb[a].arg)
    BY ExitedFrame
  <2>. QED
    BY <2>1 DEF ExitFrame, Exited
<1>. QED
  BY <1>1, SpecUInv, PTL

\* The shell that waits for the program that runs was given its argument
LEMMA LineOfArg ==
  ASSUME UInv, Running, prog[cpu].prog # "shell"
  PROVE  LineOf(cpu).arg = pcb[cpu].arg
<1>1. IInv /\ Callers
  BY DEF UInv
<1>2. cpu \in PcbAddrs /\ cpu \in Live \ {BootBlock}
  BY MyFrame DEF Live, Blocks, Running
<1>3. \E b \in Blocks : waiting[b] = cpu
  BY <1>1, <1>2 DEF IInv, CallStack, Running
<1> DEFINE b == CHOOSE b \in Blocks : waiting[b] = cpu
<1>4. b \in Blocks /\ waiting[b] = cpu
  BY <1>3
<1>5. LineOf(cpu) = prog[b].line
  BY DEF LineOf
<1> HIDE DEF b
<1>6. cpu # NoBlock
  BY <1>2, DistinctBlocks DEF PcbAddrs
<1>7. b # BootBlock
  BY <1>1, <1>4, <1>6 DEF Callers
<1>8. b # cpu
  BY <1>1, <1>4, <1>6 DEF IInv, CallStack, Running
<1>9. b \in PcbAddrs \ {cpu}
  BY <1>4, <1>7, <1>8 DEF Blocks
<1>. QED
  BY <1>1, <1>4, <1>5, <1>6, <1>9 DEF Callers

\* cat shows the whole of the file that was named at the prompt and ls the
\* whole directory, with the status that tells whether they could.
THEOREM ShowsAllAlways == USpec => []ShowsAll
<1>1. UInv => CatShowsAll
  <2> SUFFICES ASSUME UInv, NEW a \in PcbAddrs, Exited(a, "cat")
               PROVE  CatResult(prog[a].status, prog[a].was.shown, LineOf(a).arg)
    BY DEF CatShowsAll, CatResult
  <2>1. a = cpu /\ ExitFrame(prog[a], pcb[a].arg) /\ Running
    BY ExitedFrame
  <2>2. prog[a].prog = "cat"
    BY DEF Exited
  <2>3. LineOf(a).arg = pcb[a].arg
    BY <2>1, <2>2, LineOfArg
  <2>. QED
    BY <2>1, <2>2, <2>3 DEF ExitFrame
<1>2. UInv => LsListsAll
  <2> SUFFICES ASSUME UInv, NEW a \in PcbAddrs, Exited(a, "ls")
               PROVE  LsResult(prog[a].status, prog[a].was.shown)
    BY DEF LsListsAll, LsResult
  <2>1. ExitFrame(prog[a], pcb[a].arg)
    BY ExitedFrame
  <2>. QED
    BY <2>1 DEF ExitFrame, Exited
<1>3. UInv => ShowsAll
  BY <1>1, <1>2 DEF ShowsAll
<1>. QED
  BY <1>3, SpecUInv, PTL

\* What a call stores past the count it was given, a terminator at most, still
\* lies in the buffer of the program that made the call.
THEOREM BuffersSufficeAlways == USpec => BuffersSuffice
<1>1. UInv /\ [UNext]_uvars =>
        [ret' # ret /\ cpu \in PcbAddrs =>
           ret'.over <= IF me.prog = "cat" \/ ret'.call = "getargs" THEN 0 ELSE 1]_uvars
  <2> SUFFICES ASSUME UInv, UNext, ret' # ret, cpu \in PcbAddrs
               PROVE  ret'.over <= IF me.prog = "cat" \/ ret'.call = "getargs" THEN 0 ELSE 1
    OBVIOUS
  <2>1. CASE ProgramStep
    <3>1. Suffices
      BY <2>1, ProgramStepStep
    <3>. QED
      BY <3>1 DEF Suffices
  <2>2. CASE UBootLoop
    BY <2>2, DistinctBlocks DEF UBootLoop, BootLoop, PcbAddrs
  <2>3. CASE UStopped
    BY <2>3 DEF UStopped, Stopped, vars
  <2>. QED
    BY <2>1, <2>2, <2>3 DEF UNext
<1>2. USpec => UInit /\ [][UNext]_uvars
  BY DEF USpec
<1>. QED
  BY <1>1, <1>2, SpecUInv, PTL DEF BuffersSuffice

----------------------------------------------------------------------------
(* The lines that grep prints *)

\* What GrepFinds asks of the file that grep reads and of its stack
Searchable(junk, t) ==
  /\ junk # NL
  /\ \A start \in Starts(t) : Len(LineAt(t, start)) <= BUFSIZE
  /\ \A i \in 1..Len(t) : t[i] # NULchar

\* The lines printed are those that match and start before off
Listed(printed, t, pattern, off) ==
  LET found == {start \in Matching(t, pattern) : start < off}
  IN  /\ printed \in Seq({LineAt(t, start) : start \in Starts(t)})
      /\ Len(printed) = Cardinality(found)
      /\ \A start \in found :
           printed[Cardinality({s \in found : s <= start})] = LineAt(t, start)

\* off is where a line starts, or where one ends that grep has searched
Edge(t, off) == off \in Starts(t) \/ off = Len(t) \/ t[off + 1] = NL

\* The buffer holds from first on what lies before pos in the text, and what
\* lies before that has been searched
Buffered(t, pattern, pos, held, first, data, printed) ==
  /\ pos \in held..Len(t)
  /\ Edge(t, pos - held + first)
  /\ Listed(printed, t, pattern, pos - held + first)
  /\ data[BUFSIZE] # NL
  /\ \A k \in first..held - 1 : data[k] = t[pos - held + k + 1]

\* grep at work on descriptor f, which is a file's
Searching(p, f) ==
  LET t       == Text[f.inode_num]
      pos     == f.file_position
      pattern == Pattern[p.search]
  IN  /\ f.inode_num = read_dentry_by_name(p.fname).inode_num
      /\ f.inode_num < inode_count /\ Searchable(p.junk, t) =>
           /\ p.pc = "read" =>
                /\ p.last < BUFSIZE
                /\ Buffered(t, pattern, pos, p.last, 0, p.data, p.printed)
           /\ p.pc = "line" =>
                /\ p.last < BUFSIZE \/ p.cnt = 0 => pos = Len(t)
                /\ Buffered(t, pattern, pos, p.last, p.line_start, p.data, p.printed)

GrepKnows(p, fa) ==
  /\ p.pc \in {"args", "opendir", "readdir", "open"} => p.last = 0 /\ p.printed = <<>>
  /\ p.pc # "args" => p.search \in Args \ {NoArg}
  /\ p.pc \in {"read", "line"} =>
       /\ DOMAIN p.data = 0..BUFSIZE
       /\ fa[p.fd].flags = FILE_OCCUP => Searching(p, fa[p.fd])
  /\ p.pc = "line" => fa[p.fd].flags = FILE_OCCUP /\ fa[p.fd].inode_num < inode_count
  /\ p.pc = "close" =>
       LET inode == read_dentry_by_name(p.fname).inode_num
           t     == Text[inode]
       IN  /\ inode \in 0..inode_count - 1
           /\ Searchable(p.junk, t) => Listed(p.printed, t, Pattern[p.search], Len(t))

\* A grep that runs knows what it has searched and printed
GInv ==
  cpu # BootBlock /\ prog[cpu].prog = "grep" /\ prog[cpu].pc # "exit" =>
    GrepKnows(prog[cpu], pcb[cpu].file_array)

\* The first place that Seek finds
LEMMA SeekIs ==
  ASSUME NEW data, NEW k \in Nat, NEW end \in 0..BUFSIZE, k <= end, NEW c
  PROVE  LET e == Seek(data, k, end, c)
         IN  /\ e \in k..end
             /\ e < end => data[e] = c
             /\ \A i \in k..e - 1 : data[i] # c
<1> DEFINE e == Seek(data, k, end, c)
<1> DEFINE Hit(j) == j >= end \/ data[j] = c
           S == {j \in k..BUFSIZE : Hit(j)}
<1>1. BUFSIZE \in Nat
  BY UserlandAssumption
<1>2. BUFSIZE \in S /\ S \in SUBSET Nat
  BY <1>1
<1>3. PICK j \in S : \A i \in S : j <= i
  <2> HIDE DEF S
  <2>. QED
    BY <1>2, LeastExists
<1>4. \A i \in k..j - 1 : i \in k..BUFSIZE /\ i \notin S
  BY <1>1, <1>3
<1>5. \A i \in k..j - 1 : i < end /\ data[i] # c
  BY <1>1, <1>4
<1>6. j \in k..BUFSIZE /\ (j >= end \/ data[j] = c)
  BY <1>3
<1>7. /\ e \in k..BUFSIZE
      /\ e >= end \/ data[e] = c
      /\ \A i \in k..e - 1 : i < end /\ data[i] # c
  BY <1>5, <1>6 DEF Seek
<1> HIDE DEF e
<1>8. e <= end
  <2>1. SUFFICES ASSUME e > end PROVE FALSE
    BY <1>1, <1>7
  <2>2. end \in k..e - 1
    BY <1>1, <1>7, <2>1
  <2>. QED
    BY <1>1, <1>7, <2>2
<1>. QED
  BY <1>1, <1>7, <1>8 DEF e

\* The string at k up to the terminator at e
LEMMA FromIs ==
  ASSUME NEW data, NEW k \in Nat, NEW e \in k..BUFSIZE, data[e] = NULchar,
         \A i \in k..e - 1 : data[i] # NULchar
  PROVE  /\ From(data, k) = [j \in 1..e - k |-> From(data, k)[j]]
         /\ \A j \in 1..e - k : From(data, k)[j] = data[k + j - 1]
<1> DEFINE f == [j \in 1..BUFSIZE + 1 |-> data[j - 1]]
           q == Seek(data, k, BUFSIZE, NULchar)
           S == {data[i] : i \in 0..BUFSIZE}
<1>1. BUFSIZE \in Nat /\ BUFSIZE \in 0..BUFSIZE /\ k <= BUFSIZE
  BY UserlandAssumption
<1>2. /\ q \in k..BUFSIZE
      /\ q < BUFSIZE => data[q] = NULchar
      /\ \A i \in k..q - 1 : data[i] # NULchar
  BY <1>1, SeekIs
<1> HIDE DEF q
<1>3. q = e
  <2>1. ~(q < e)
    BY <1>1, <1>2
  <2>2. ~(e < q)
    BY <1>1, <1>2
  <2>. QED
    BY <1>1, <1>2, <2>1, <2>2
<1>4. f \in Seq(S)
  BY <1>1
<1>5. Len(f) = BUFSIZE + 1
  BY <1>1, <1>4
<1>6. \A j \in k + 1..e : f[j] = data[j - 1]
  BY <1>1
<1>7. SubSeq(f, k + 1, e) = [j \in 1..e - k |-> f[k + j]]
  BY <1>1, <1>4, <1>5
<1>8. \A j \in 1..e - k : f[k + j] = data[k + j - 1]
  BY <1>1
<1>9. From(data, k) = SubSeq(f, k + 1, e)
  BY <1>3 DEF From, q
<1> HIDE DEF f
<1>. QED
  BY <1>7, <1>8, <1>9

\* The line behind a place of the text ends at a newline or with the text
LEMMA LineEnds ==
  ASSUME NEW t, Len(t) \in Nat, NEW s \in 0..Len(t)
  PROVE  \E e \in s..Len(t) :
           /\ e < Len(t) => t[e + 1] = NL
           /\ \A i \in s + 1..e : t[i] # NL
           /\ LineAt(t, s) = [k \in 1..e - s |-> t[s + k]]
           /\ Len(LineAt(t, s)) = e - s
<1> DEFINE n == Len(t)
           ends == {i \in s + 1..n + 1 : i <= n => t[i] = NL}
           end == CHOOSE i \in ends : \A j \in ends : i <= j
<1>1. n \in Nat /\ s \in 0..n
  OBVIOUS
<1> HIDE DEF n
<1>2. n + 1 \in ends /\ ends \in SUBSET Nat
  BY <1>1
<1>3. \E i \in ends : \A j \in ends : i <= j
  <2> HIDE DEF ends
  <2>. QED
    BY <1>2, LeastExists
<1>4. end \in ends /\ \A j \in ends : end <= j
  BY <1>3
<1>5. LineAt(t, s) = [k \in 1..end - s - 1 |-> t[s + k]]
  BY DEF LineAt, n
<1> HIDE DEF end
<1>6. PICK e \in s..n : end = e + 1
  <2>1. end \in s + 1..n + 1
    BY <1>4
  <2>2. end - 1 \in s..n /\ end = (end - 1) + 1
    BY <1>1, <2>1
  <2>. QED
    BY <2>2
<1>7. e < n => t[e + 1] = NL
  BY <1>1, <1>4, <1>6
<1>8. \A i \in s + 1..e : t[i] # NL
  <2>1. SUFFICES ASSUME NEW i \in s + 1..e, t[i] = NL PROVE FALSE
    OBVIOUS
  <2>2. i \in ends
    BY <1>1, <1>6, <2>1
  <2>. QED
    BY <1>1, <1>4, <1>6, <2>1, <2>2
<1>9. end - s - 1 = e - s /\ e - s \in Nat
  BY <1>1, <1>6
<1>10. LineAt(t, s) = [k \in 1..e - s |-> t[s + k]]
  BY <1>5, <1>9
<1>11. Len(LineAt(t, s)) = e - s
  BY <1>9, <1>10
<1>. QED
  BY <1>7, <1>8, <1>10, <1>11 DEF n

\* The line behind s is what lies before e, where a newline or the end comes
LEMMA LineIs ==
  ASSUME NEW t, Len(t) \in Nat, NEW s \in 0..Len(t), NEW e \in s..Len(t),
         e < Len(t) => t[e + 1] = NL, \A i \in s + 1..e : t[i] # NL
  PROVE  LineAt(t, s) = [k \in 1..e - s |-> t[s + k]]
<1>1. PICK e2 \in s..Len(t) :
           /\ e2 < Len(t) => t[e2 + 1] = NL
           /\ \A i \in s + 1..e2 : t[i] # NL
           /\ LineAt(t, s) = [k \in 1..e2 - s |-> t[s + k]]
  BY LineEnds
<1>2. ~(e < e2)
  BY <1>1
<1>3. ~(e2 < e)
  BY <1>1
<1>4. e2 = e
  BY <1>2, <1>3
<1>. QED
  BY <1>1, <1>4

\* A line that fits the buffer and fills it ends there
LEMMA LineFills ==
  ASSUME NEW t, Len(t) \in Nat, NEW s \in 0..Len(t), NEW e \in s..Len(t),
         Len(LineAt(t, s)) <= e - s, \A i \in s + 1..e : t[i] # NL
  PROVE  e < Len(t) => t[e + 1] = NL
<1>1. PICK e2 \in s..Len(t) :
           /\ e2 < Len(t) => t[e2 + 1] = NL
           /\ \A i \in s + 1..e2 : t[i] # NL
           /\ Len(LineAt(t, s)) = e2 - s
  BY LineEnds
<1>2. ~(e < e2)
  BY <1>1
<1>3. ~(e2 < e)
  BY <1>1
<1>4. e2 = e
  BY <1>2, <1>3
<1>. QED
  BY <1>1, <1>4

\* A pattern with a character does not occur in an empty line
LEMMA EmptyLine ==
  ASSUME NEW pattern, Len(pattern) \in Nat \ {0}, NEW line, Len(line) = 0
  PROVE  ~Occurs(pattern, line)
BY DEF Occurs

LEMMA StartsType ==
  ASSUME NEW t, Len(t) \in Nat, NEW pattern
  PROVE  /\ Matching(t, pattern) \subseteq Starts(t)
         /\ Starts(t) \subseteq 0..Len(t)
         /\ Starts(t) \subseteq Nat
BY DEF Matching, Starts

\* No line that matches starts between off and off2
LEMMA ListedSame ==
  ASSUME NEW t, Len(t) \in Nat, NEW pattern, NEW printed, NEW off \in Nat, NEW off2 \in Nat,
         Listed(printed, t, pattern, off), off <= off2,
         \A s \in Matching(t, pattern) : s < off2 => s < off
  PROVE  Listed(printed, t, pattern, off2)
<1>1. {s \in Matching(t, pattern) : s < off2} = {s \in Matching(t, pattern) : s < off}
  BY StartsType
<1>. QED
  BY <1>1 DEF Listed

LEMMA AppendIs ==
  ASSUME NEW S, NEW seq \in Seq(S), NEW elt \in S
  PROVE  /\ Append(seq, elt) \in Seq(S)
         /\ Len(Append(seq, elt)) = Len(seq) + 1
         /\ \A i \in 1..Len(seq) : Append(seq, elt)[i] = seq[i]
         /\ Append(seq, elt)[Len(seq) + 1] = elt
OBVIOUS

\* The one that starts at off matches and is printed
LEMMA ListedAppend ==
  ASSUME NEW t, Len(t) \in Nat, NEW pattern, NEW printed, NEW off \in Matching(t, pattern),
         NEW off2 \in Nat, Listed(printed, t, pattern, off), off < off2,
         \A s \in Matching(t, pattern) : s < off2 => s <= off
  PROVE  Listed(Append(printed, LineAt(t, off)), t, pattern, off2)
<1> DEFINE M == Matching(t, pattern)
           found == {s \in M : s < off}
           found2 == {s \in M : s < off2}
           T == {LineAt(t, start) : start \in Starts(t)}
           line == LineAt(t, off)
           more == Append(printed, line)
<1>1. M \subseteq 0..Len(t) /\ M \subseteq Nat /\ off \in M /\ off \in Nat
  BY StartsType
<1>2. /\ printed \in Seq(T)
      /\ Len(printed) = Cardinality(found)
      /\ \A start \in found : printed[Cardinality({s \in found : s <= start})] = LineAt(t, start)
  BY DEF Listed
<1>3. line \in T
  BY StartsType
<1> HIDE DEF line, T
<1>4. /\ more \in Seq(T) /\ Len(more) = Len(printed) + 1
      /\ \A i \in 1..Len(printed) : more[i] = printed[i]
      /\ more[Len(printed) + 1] = line
  BY <1>2, <1>3, AppendIs
<1> HIDE DEF M, more
<1>5. found2 = found \union {off} /\ off \notin found
  BY <1>1 DEF M
<1>6. IsFiniteSet(found)
  <2>1. IsFiniteSet(0..Len(t))
    BY FS_Interval
  <2>2. found \subseteq 0..Len(t)
    BY <1>1
  <2>. QED
    BY <2>1, <2>2, FS_Subset
<1>7. Cardinality(found2) = Cardinality(found) + 1
  BY <1>5, <1>6, FS_AddElement
<1>8. Cardinality(found) \in Nat
  BY <1>6, FS_CardinalityType
<1>9. ASSUME NEW start \in found
      PROVE  more[Cardinality({s \in found2 : s <= start})] = LineAt(t, start)
  <2> DEFINE upto == {s \in found : s <= start}
  <2>1. {s \in found2 : s <= start} = upto
    BY <1>1, <1>5
  <2>2. upto \subseteq found /\ start \in upto
    BY <1>1
  <2> HIDE DEF upto
  <2>3. IsFiniteSet(upto) /\ Cardinality(upto) <= Cardinality(found)
    BY <1>6, <2>2, FS_Subset
  <2>4. Cardinality(upto) \in Nat /\ Cardinality(upto) # 0
    BY <2>2, <2>3, FS_CardinalityType, FS_EmptySet
  <2>5. Cardinality(upto) \in 1..Len(printed)
    BY <1>2, <1>8, <2>3, <2>4
  <2>6. printed[Cardinality(upto)] = LineAt(t, start)
    BY <1>2 DEF upto
  <2>. QED
    BY <1>4, <2>1, <2>5, <2>6
<1>10. more[Cardinality({s \in found2 : s <= off})] = LineAt(t, off)
  <2>1. \A s \in found2 : s <= off
    BY <1>1, <1>5
  <2>2. {s \in found2 : s <= off} = found2
    BY <2>1
  <2>. QED
    BY <1>2, <1>4, <1>7, <2>2 DEF line
<1>11. Len(more) = Cardinality(found2)
  BY <1>2, <1>4, <1>7
<1>12. \A start \in found2 : more[Cardinality({s \in found2 : s <= start})] = LineAt(t, start)
  BY <1>5, <1>9, <1>10
<1>. QED
  BY <1>4, <1>11, <1>12 DEF Listed, M, T, more, line

\* line is what the text holds behind off up to e
Span(line, t, off, e) == line = [k \in 1..e - off |-> t[off + k]]

\* What has been printed when line has been searched and out is what is shown of it
Shown(printed2, printed, pattern, line, out) ==
  printed2 = IF Occurs(pattern, line) THEN Append(printed, out) ELSE printed

\* grep searches what lies between off and e, where a newline or the end
\* comes, and goes on at e or behind the newline
LEMMA Searched ==
  ASSUME NEW t, Len(t) \in Nat, NEW pattern, Len(pattern) \in Nat \ {0}, NEW printed,
         NEW off \in Nat, NEW e \in off..Len(t), NEW off2 \in {e, e + 1},
         Edge(t, off), Listed(printed, t, pattern, off),
         e < Len(t) => t[e + 1] = NL, off2 <= Len(t), \A i \in off + 1..e : t[i] # NL,
         NEW line, Span(line, t, off, e), NEW printed2,
         Shown(printed2, printed, pattern, line, line)
  PROVE  Edge(t, off2) /\ Listed(printed2, t, pattern, off2)
<1>1. e - off \in Nat /\ off2 \in Nat /\ off <= off2 /\ off \in 0..Len(t)
  OBVIOUS
<1>2. Len(line) = e - off
  BY <1>1 DEF Span
<1>3. Edge(t, off2)
  <2>1. CASE off2 = e
    BY <2>1 DEF Edge
  <2>2. CASE off2 = e + 1
    <3>1. off2 \in 1..Len(t) /\ t[off2] = NL
      BY <2>2
    <3>. QED
      BY <3>1 DEF Edge, Starts
  <2>. QED
    BY <2>1, <2>2
<1>4. \A s \in Starts(t) : s < off2 => s <= off
  <2>0. Starts(t) \subseteq Nat
    BY StartsType
  <2>1. SUFFICES ASSUME NEW s \in Starts(t), s < off2, s > off PROVE FALSE
    BY <1>1, <2>0
  <2>2. s \in 1..Len(t) /\ t[s] = NL
    BY <1>1, <2>1 DEF Starts
  <2>3. s \in off + 1..e
    BY <1>1, <2>1, <2>2
  <2>. QED
    BY <2>2, <2>3
<1>5. CASE off \in Starts(t)
  <2>1. LineAt(t, off) = line
    BY <1>1, LineIs DEF Span
  <2>2. CASE Occurs(pattern, line)
    <3>1. off \in Matching(t, pattern)
      BY <1>5, <2>1, <2>2 DEF Matching
    <3>2. off < off2
      BY <1>1, <1>2, <2>2, EmptyLine
    <3>3. \A s \in Matching(t, pattern) : s < off2 => s <= off
      BY <1>4, StartsType
    <3>. QED
      BY <1>1, <1>3, <2>1, <2>2, <3>1, <3>2, <3>3, ListedAppend DEF Shown
  <2>3. CASE ~Occurs(pattern, line)
    <3>1. off \notin Matching(t, pattern)
      BY <2>1, <2>3 DEF Matching
    <3>2. \A s \in Matching(t, pattern) : s < off2 => s < off
      BY <1>1, <1>4, <3>1, StartsType
    <3>. QED
      BY <1>1, <1>3, <2>3, <3>2, ListedSame DEF Shown
  <2>. QED
    BY <2>2, <2>3
<1>6. CASE off \notin Starts(t)
  <2>1. e = off
    <3>1. off = Len(t) \/ t[off + 1] = NL
      BY <1>6 DEF Edge
    <3>2. CASE t[off + 1] = NL /\ off < e
      <4>1. off + 1 \in off + 1..e
        BY <3>2
      <4>. QED
        BY <3>2, <4>1
    <3>. QED
      BY <3>1, <3>2
  <2>2. ~Occurs(pattern, line)
    BY <1>2, <2>1, EmptyLine
  <2>3. \A s \in Matching(t, pattern) : s < off2 => s < off
    BY <1>1, <1>4, <1>6, StartsType
  <2>. QED
    BY <1>1, <1>3, <2>2, <2>3, ListedSame DEF Shown
<1>. QED
  BY <1>5, <1>6

LEMMA ListIs ==
  ASSUME NEW S, NEW n \in Nat, NEW s, s = [j \in 1..n |-> s[j]], \A j \in 1..n : s[j] \in S
  PROVE  s \in Seq(S) /\ Len(s) = n
<1>1. s \in [1..n -> S]
  OBVIOUS
<1>. QED
  BY <1>1

\* A read puts the next bytes of the file behind those in the buffer
LEMMA ReadBuffered ==
  ASSUME NEW t, Len(t) \in Nat, NEW pattern, NEW pos \in Nat, NEW held \in 0..BUFSIZE,
         NEW data, NEW printed, Buffered(t, pattern, pos, held, 0, data, printed),
         NEW n \in 0..BUFSIZE - held, pos + n <= Len(t), NEW data2,
         data2 = [k \in 0..BUFSIZE |-> IF k \in held..held + n - 1 THEN t[pos + k - held + 1]
                                       ELSE data[k]]
  PROVE  Buffered(t, pattern, pos + n, held + n, 0, data2, printed)
<1>1. BUFSIZE \in Nat
  BY UserlandAssumption
<1>2. /\ pos \in held..Len(t) /\ Edge(t, pos - held + 0)
      /\ Listed(printed, t, pattern, pos - held + 0)
      /\ data[BUFSIZE] # NL
      /\ \A k \in 0..held - 1 : data[k] = t[pos - held + k + 1]
  BY DEF Buffered
<1>3. (pos + n) - (held + n) + 0 = pos - held + 0
  BY <1>1
<1>4. pos + n \in held + n..Len(t)
  BY <1>1, <1>2
<1>5. data2[BUFSIZE] # NL
  <2>1. BUFSIZE \in 0..BUFSIZE /\ BUFSIZE \notin held..held + n - 1
    BY <1>1
  <2>. QED
    BY <1>2, <2>1
<1>6. ASSUME NEW k \in 0..held + n - 1 PROVE data2[k] = t[(pos + n) - (held + n) + k + 1]
  <2>1. k \in 0..BUFSIZE /\ (pos + n) - (held + n) + k + 1 = pos - held + k + 1
    BY <1>1, <1>2
  <2>2. CASE k \in held..held + n - 1
    <3>1. data2[k] = t[pos + k - held + 1]
      BY <2>1, <2>2
    <3>2. pos + k - held + 1 = pos - held + k + 1
      BY <1>1
    <3>. QED
      BY <2>1, <3>1, <3>2
  <2>3. CASE k \notin held..held + n - 1
    <3>1. data2[k] = data[k] /\ k \in 0..held - 1
      BY <1>1, <2>1, <2>3
    <3>. QED
      BY <1>2, <2>1, <3>1
  <2>. QED
    BY <2>2, <2>3
<1>. QED
  BY <1>2, <1>3, <1>4, <1>5, <1>6 DEF Buffered

\* What has been read of the text holds no terminator
LEMMA NoTerminator ==
  ASSUME NEW t, Len(t) \in Nat, NEW pattern, NEW pos \in Nat, NEW held \in 0..BUFSIZE,
         NEW first \in 0..held, NEW data, NEW printed,
         Buffered(t, pattern, pos, held, first, data, printed),
         \A i \in 1..Len(t) : t[i] # NULchar
  PROVE  \A k \in first..held - 1 : data[k] # NULchar
<1>1. BUFSIZE \in Nat
  BY UserlandAssumption
<1>2. pos \in held..Len(t) /\ \A k \in first..held - 1 : data[k] = t[pos - held + k + 1]
  BY DEF Buffered
<1>3. \A k \in first..held - 1 : pos - held + k + 1 \in 1..Len(t)
  BY <1>1, <1>2
<1>. QED
  BY <1>2, <1>3

\* strcpy copies the string at first up to the terminator at held, and that
LEMMA CopiedIs ==
  ASSUME NEW ended, NEW first \in Nat, NEW held \in first..BUFSIZE, ended[held] = NULchar,
         \A i \in first..held - 1 : ended[i] # NULchar
  PROVE  LET rest == Append(From(ended, first), NULchar)
         IN  /\ Len(rest) = held - first + 1
             /\ \A i \in 1..held - first : rest[i] = ended[first + i - 1]
<1> DEFINE s == From(ended, first)
           S == {ended[k] : k \in first..held}
           n == held - first
<1>1. n \in Nat /\ held \in first..held
  BY UserlandAssumption
<1>2. s = [j \in 1..n |-> s[j]] /\ \A j \in 1..n : s[j] = ended[first + j - 1]
  BY FromIs
<1>3. \A j \in 1..n : first + j - 1 \in first..held
  BY <1>1
<1>4. \A j \in 1..n : s[j] \in S
  BY <1>2, <1>3
<1>5. NULchar \in S
  BY <1>1
<1> HIDE DEF s, S, n
<1>6. s \in Seq(S) /\ Len(s) = n
  BY <1>1, <1>2, <1>4, ListIs
<1>7. /\ Len(Append(s, NULchar)) = Len(s) + 1
      /\ \A i \in 1..Len(s) : Append(s, NULchar)[i] = s[i]
  BY <1>5, <1>6, AppendIs
<1>. QED
  BY <1>2, <1>6, <1>7 DEF s, n

\* data2 is the buffer ended when strcpy has copied the string at first to the front
Copied(data2, ended, first) ==
  LET rest == Append(From(ended, first), NULchar)
  IN  \A k \in 0..BUFSIZE : data2[k] = IF k < Len(rest) THEN rest[k + 1] ELSE ended[k]

\* ended is the buffer data with a terminator at e
Ended(ended, data, e) ==
  ended[e] = NULchar /\ \A k \in 0..BUFSIZE \ {e} : ended[k] = data[k]

\* strcpy brings what is left of the line to the front
LEMMA KeepBuffered ==
  ASSUME NEW t, Len(t) \in Nat, NEW pattern, NEW pos \in Nat, NEW held \in 0..BUFSIZE,
         NEW first \in 1..held, NEW data, NEW printed,
         Buffered(t, pattern, pos, held, first, data, printed),
         \A i \in 1..Len(t) : t[i] # NULchar,
         NEW ended, Ended(ended, data, held), NEW data2, Copied(data2, ended, first)
  PROVE  Buffered(t, pattern, pos, held - first, 0, data2, printed)
<1> DEFINE rest == Append(From(ended, first), NULchar)
<1>0. /\ \A k \in 0..BUFSIZE : data2[k] = IF k < Len(rest) THEN rest[k + 1] ELSE ended[k]
      /\ ended[held] = NULchar
      /\ \A k \in 0..BUFSIZE \ {held} : ended[k] = data[k]
  BY DEF Copied, Ended
<1> HIDE DEF rest
<1>1. BUFSIZE \in Nat /\ NL # NULchar /\ first \in 0..held /\ first \in Nat
  BY UserlandAssumption
<1>2. /\ pos \in held..Len(t) /\ Edge(t, pos - held + first)
      /\ Listed(printed, t, pattern, pos - held + first)
      /\ data[BUFSIZE] # NL
      /\ \A k \in first..held - 1 : data[k] = t[pos - held + k + 1]
  BY DEF Buffered
<1>3. \A k \in first..held - 1 : ended[k] = data[k] /\ ended[k] # NULchar
  <2>1. \A k \in first..held - 1 : k \in 0..BUFSIZE \ {held}
    BY <1>1
  <2>2. \A k \in first..held - 1 : data[k] # NULchar
    BY <1>1, NoTerminator
  <2>. QED
    BY <1>0, <2>1, <2>2
<1>4. /\ Len(rest) = held - first + 1
      /\ \A i \in 1..held - first : rest[i] = ended[first + i - 1]
  <2>1. held \in first..BUFSIZE
    BY <1>1
  <2>2. \A i \in first..held - 1 : ended[i] # NULchar
    BY <1>3
  <2>. QED
    BY <1>0, <1>1, <2>1, <2>2, CopiedIs DEF rest
<1>5. ASSUME NEW k \in 0..held - first - 1
      PROVE  data2[k] = t[pos - (held - first) + k + 1]
  <2>1. k \in 0..BUFSIZE /\ k < held - first + 1 /\ k + 1 \in 1..held - first
    BY <1>1
  <2>2. data2[k] = rest[k + 1]
    BY <1>0, <1>4, <2>1
  <2>3. data2[k] = ended[first + (k + 1) - 1]
    BY <1>4, <2>1, <2>2
  <2>4. first + (k + 1) - 1 = first + k /\ first + k \in first..held - 1
    BY <1>1
  <2>5. data2[k] = t[pos - held + (first + k) + 1]
    BY <1>2, <1>3, <2>3, <2>4
  <2>6. pos - held + (first + k) + 1 = pos - (held - first) + k + 1
    BY <1>1
  <2>. QED
    BY <2>5, <2>6
<1>6. data2[BUFSIZE] # NL
  <2>1. BUFSIZE \in 0..BUFSIZE /\ ~(BUFSIZE < held - first + 1)
    BY <1>1
  <2>2. data2[BUFSIZE] = ended[BUFSIZE]
    BY <1>0, <1>4, <2>1
  <2>. QED
    BY <1>0, <1>1, <1>2, <2>1, <2>2
<1>7. /\ pos - (held - first) + 0 = pos - held + first
      /\ pos \in held - first..Len(t)
  BY <1>1, <1>2
<1>. QED
  BY <1>2, <1>5, <1>6, <1>7 DEF Buffered

\* When the buffer holds no newline from first on and grep does not wait for
\* more, the line is complete
LEMMA LineComplete ==
  ASSUME NEW t, Len(t) \in Nat, NEW pattern, NEW pos \in Nat, NEW held \in 0..BUFSIZE,
         NEW first \in 0..held, NEW data, NEW printed,
         Buffered(t, pattern, pos, held, first, data, printed),
         \A start \in Starts(t) : Len(LineAt(t, start)) <= BUFSIZE,
         \A k \in first..held - 1 : data[k] # NL,
         held < BUFSIZE => pos = Len(t),
         data[held] = NL \/ first = 0 \/ pos = Len(t)
  PROVE  pos < Len(t) => t[pos + 1] = NL
<1>1. BUFSIZE \in Nat /\ BUFSIZE > 0
  BY UserlandAssumption, ImageAssumption
<1>2. /\ pos \in held..Len(t) /\ Edge(t, pos - held + first)
      /\ data[BUFSIZE] # NL
      /\ \A k \in first..held - 1 : data[k] = t[pos - held + k + 1]
  BY DEF Buffered
<1>3. SUFFICES ASSUME held = BUFSIZE, first = 0, pos < Len(t) PROVE t[pos + 1] = NL
  BY <1>1, <1>2
<1> DEFINE s == pos - held
<1>4. s \in 0..Len(t) /\ pos \in s..Len(t) /\ pos - s = BUFSIZE /\ s < Len(t)
  BY <1>1, <1>2, <1>3
<1>5. \A i \in s + 1..pos : t[i] # NL
  <2>1. SUFFICES ASSUME NEW i \in s + 1..pos PROVE t[i] # NL
    OBVIOUS
  <2>2. i - s - 1 \in first..held - 1 /\ pos - held + (i - s - 1) + 1 = i
    BY <1>1, <1>2, <1>3
  <2>. QED
    BY <1>2, <2>2
<1>6. s \in Starts(t)
  <2>1. s + 1 \in s + 1..pos
    BY <1>1, <1>2, <1>3
  <2>2. t[s + 1] # NL
    BY <1>5, <2>1
  <2>3. pos - held + first = s /\ s # Len(t)
    BY <1>1, <1>2, <1>3
  <2>4. Edge(t, s)
    BY <1>2, <2>3
  <2> HIDE DEF s
  <2>. QED
    BY <2>2, <2>3, <2>4 DEF Edge
<1>7. Len(LineAt(t, s)) <= pos - s
  BY <1>4, <1>6
<1> HIDE DEF s
<1>. QED
  BY <1>3, <1>4, <1>5, <1>7, LineFills

\* line is what data holds from first up to end
Between(line, data, first, end) ==
  /\ line = [k \in 1..end - first |-> line[k]]
  /\ \A k \in 1..end - first : line[k] = data[first + k - 1]

\* A complete line is searched
LEMMA SearchBuffered ==
  ASSUME NEW t, Len(t) \in Nat, NEW pattern, Len(pattern) \in Nat \ {0}, NEW pos \in Nat,
         NEW held \in 0..BUFSIZE, NEW first \in 0..held, NEW data, NEW printed,
         Buffered(t, pattern, pos, held, first, data, printed),
         \A i \in 1..Len(t) : t[i] # NULchar,
         NEW e \in first..held, e < held => data[e] = NL, \A k \in first..e - 1 : data[k] # NL,
         e = held => (pos < Len(t) => t[pos + 1] = NL),
         NEW ended, Ended(ended, data, e),
         NEW line, Between(line, ended, first, e), NEW printed2,
         Shown(printed2, printed, pattern, line, From(ended, first))
  PROVE  IF e + 1 < held THEN Buffered(t, pattern, pos, held, e + 1, ended, printed2)
                         ELSE Buffered(t, pattern, pos, 0, 0, ended, printed2)
<1> DEFINE off == pos - held + first
           e2 == pos - held + e
           off2 == IF e < held THEN e2 + 1 ELSE e2
<1>0. ended[e] = NULchar /\ \A k \in 0..BUFSIZE \ {e} : ended[k] = data[k]
  BY DEF Ended
<1>1. BUFSIZE \in Nat /\ NL # NULchar /\ first \in Nat /\ e \in first..BUFSIZE /\ e \in Nat
  BY UserlandAssumption
<1>2. /\ pos \in held..Len(t) /\ Edge(t, off) /\ Listed(printed, t, pattern, off)
      /\ data[BUFSIZE] # NL
      /\ \A k \in first..held - 1 : data[k] = t[pos - held + k + 1]
  BY DEF Buffered
<1>3. /\ off \in Nat /\ e2 \in off..Len(t) /\ off2 \in {e2, e2 + 1} /\ off2 <= Len(t)
      /\ e2 - off = e - first
  BY <1>1, <1>2
<1>4. \A k \in first..e - 1 : /\ ended[k] = data[k] /\ ended[k] # NULchar
                              /\ data[k] = t[pos - held + k + 1]
  <2>1. \A k \in first..e - 1 : k \in 0..BUFSIZE \ {e} /\ k \in first..held - 1
    BY <1>1
  <2>2. \A k \in first..e - 1 : pos - held + k + 1 \in 1..Len(t)
    BY <1>1, <1>2
  <2>. QED
    BY <1>0, <1>2, <2>1, <2>2
<1>5. From(ended, first) = line
  <2>1. \A i \in first..e - 1 : ended[i] # NULchar
    BY <1>4
  <2>2. /\ From(ended, first) = [j \in 1..e - first |-> From(ended, first)[j]]
        /\ \A j \in 1..e - first : From(ended, first)[j] = ended[first + j - 1]
    BY <1>0, <1>1, <2>1, FromIs
  <2>3. /\ line = [j \in 1..e - first |-> line[j]]
        /\ \A j \in 1..e - first : line[j] = ended[first + j - 1]
    BY DEF Between
  <2>. QED
    BY <2>2, <2>3
<1>6. e2 < Len(t) => t[e2 + 1] = NL
  <2>1. CASE e < held
    <3>1. e \in first..held - 1 /\ pos - held + e + 1 = e2 + 1
      BY <1>1, <2>1
    <3>2. data[e] = t[pos - held + e + 1]
      BY <1>2, <3>1
    <3>. QED
      BY <2>1, <3>1, <3>2
  <2>2. CASE e = held
    <3>1. e2 = pos
      BY <1>1, <1>2, <2>2
    <3>. QED
      BY <2>2, <3>1
  <2>. QED
    BY <2>1, <2>2
<1>7. \A i \in off + 1..e2 : t[i] # NL
  <2>1. SUFFICES ASSUME NEW i \in off + 1..e2 PROVE t[i] # NL
    OBVIOUS
  <2> DEFINE k == i - (pos - held) - 1
  <2>2. k \in first..e - 1 /\ pos - held + k + 1 = i
    BY <1>1, <1>2
  <2> HIDE DEF k
  <2>. QED
    BY <1>4, <2>2
<1>8. \A k \in 1..e2 - off : line[k] = t[off + k]
  <2>1. SUFFICES ASSUME NEW k \in 1..e2 - off PROVE line[k] = t[off + k]
    OBVIOUS
  <2>2. k \in 1..e - first /\ first + k - 1 \in first..e - 1
    BY <1>1, <1>3
  <2>3. pos - held + (first + k - 1) + 1 = off + k
    BY <1>1, <1>2
  <2>4. line[k] = t[pos - held + (first + k - 1) + 1]
    BY <1>4, <2>2 DEF Between
  <2>. QED
    BY <2>3, <2>4
<1>9. line = [k \in 1..e2 - off |-> line[k]]
  BY <1>3 DEF Between
<1>10. Shown(printed2, printed, pattern, line, line)
  BY <1>5
<1> HIDE DEF off, e2, off2
<1>11. Span(line, t, off, e2)
  BY <1>8, <1>9 DEF Span
<1>12. Edge(t, off2) /\ Listed(printed2, t, pattern, off2)
  BY <1>2, <1>3, <1>6, <1>7, <1>10, <1>11, Searched
<1>13. ended[BUFSIZE] # NL
  BY <1>0, <1>1, <1>2
<1>14. CASE e + 1 < held
  <2>1. pos - held + (e + 1) = off2
    BY <1>1, <1>2, <1>14 DEF off2, e2
  <2>2. \A k \in e + 1..held - 1 : k \in 0..BUFSIZE \ {e} /\ k \in first..held - 1
    BY <1>1
  <2>3. \A k \in e + 1..held - 1 : ended[k] = t[pos - held + k + 1]
    BY <1>0, <1>2, <2>2
  <2>. QED
    BY <1>2, <1>12, <1>13, <1>14, <2>1, <2>3 DEF Buffered
<1>15. CASE ~(e + 1 < held)
  <2>1. off2 = pos /\ pos - 0 + 0 = pos /\ pos \in 0..Len(t)
    BY <1>1, <1>2, <1>15 DEF off2, e2
  <2>2. \A k \in 0..0 - 1 : ended[k] = t[pos - 0 + k + 1]
    OBVIOUS
  <2>. QED
    BY <1>12, <1>13, <1>15, <2>1, <2>2 DEF Buffered
<1>. QED
  BY <1>14, <1>15

\* The program that runs takes a step of its own
LEMMA KnowsStays ==
  ASSUME UInv, Running, NEW p, Become(p), cpu' = cpu,
         p.prog = "grep" /\ p.pc # "exit" => GrepKnows(p, pcb'[cpu].file_array)
  PROVE  GInv'
<1>1. cpu \in PcbAddrs /\ prog = [a \in PcbAddrs |-> prog[a]]
  BY MyFrame DEF UInv, Callers
<1>2. prog'[cpu] = p
  BY <1>1 DEF Become
<1>3. prog'[cpu'].prog = "grep" /\ prog'[cpu'].pc # "exit" =>
        GrepKnows(prog'[cpu'], pcb'[cpu'].file_array)
  BY <1>2
<1>. QED
  BY <1>3 DEF GInv, GrepKnows, Searching

LEMMA MyKnows ==
  ASSUME UInv, GInv, Running, me.prog = "grep", me.pc # "exit"
  PROVE  /\ GrepKnows(me, pcb[cpu].file_array)
         /\ GrepFrame(me, pcb[cpu].file_array)
         /\ DOMAIN me = GrepFields
BY MyFrame DEF GInv, me, Running, GrepFrame

\* Before it opens a file, grep has an empty buffer and has printed nothing
LEMMA KnowsBefore ==
  ASSUME NEW p, NEW fa, p.pc \in {"opendir", "readdir", "open"}, p.last = 0, p.printed = <<>>,
         p.search \in Args \ {NoArg}
  PROVE  GrepKnows(p, fa)
BY DEF GrepKnows

LEMMA ExitKnows ==
  ASSUME UInv, Running, NEW status, Become(Exit(status)), cpu' = cpu
  PROVE  GInv'
<1>1. Exit(status).pc = "exit"
  BY DEF Exit
<1>. QED
  BY <1>1, KnowsStays

LEMMA GrepStartKnows ==
  ASSUME UInv, GInv, GrepArgs \/ GrepOpendir \/ GrepReaddir \/ GrepClose
  PROVE  GInv'
<1> DEFINE fa == pcb[cpu].file_array
<1>1. Running /\ me.pc \in {"args", "opendir", "readdir", "close"} /\ me.prog = "grep" /\ me.pc # "exit"
  BY DEF GrepArgs, GrepOpendir, GrepReaddir, GrepClose, At
<1>2. GrepKnows(me, fa) /\ DOMAIN me = GrepFields
  BY <1>1, MyKnows
<1>3. cpu' = cpu
  BY CallsStayHere DEF GrepArgs, GrepOpendir, GrepReaddir, GrepClose, Open, Close, FileCall
<1>4. CASE GrepArgs
  <2> DEFINE p == [me EXCEPT !.pc = "opendir", !.search = pcb[getCurrentProcessPCB].arg]
  <2>1. Getargs(BUFSIZE) /\ Become(IF ret'.val # 0 THEN Exit(3) ELSE p) /\ me.pc = "args"
    BY <1>4 DEF GrepArgs, At
  <2>2. pcb[cpu].arg \in Args /\ (ret'.val # 0 <=> pcb[cpu].arg = NoArg)
    BY <2>1, GetargsStep
  <2>3. getCurrentProcessPCB = cpu
    BY <1>1, CurrentBlock DEF Running, UInv
  <2>4. CASE ret'.val # 0
    BY <1>1, <1>3, <2>1, <2>4, ExitKnows
  <2>5. CASE ret'.val = 0
    <3>1. p.pc = "opendir" /\ p.search = pcb[cpu].arg /\ p.last = me.last /\ p.printed = me.printed
      BY <1>2, <2>3 DEF GrepFields
    <3>2. Become(p)
      BY <2>1, <2>5
    <3>3. me.last = 0 /\ me.printed = <<>>
      BY <1>2, <2>1 DEF GrepKnows
    <3> HIDE DEF p
    <3>4. GrepKnows(p, pcb'[cpu].file_array)
      BY <2>2, <2>5, <3>1, <3>3, KnowsBefore
    <3>. QED
      BY <1>1, <1>3, <3>2, <3>4, KnowsStays
  <2>. QED
    BY <2>4, <2>5
<1>5. me.pc # "args" => me.search \in Args \ {NoArg}
  BY <1>2 DEF GrepKnows
<1>6. CASE GrepOpendir
  <2> DEFINE p == [me EXCEPT !.pc = "readdir", !.dirfd = ret'.val]
  <2>1. Become(Exit(2)) \/ Become(p)
    BY <1>6 DEF GrepOpendir
  <2>2. p.pc = "readdir" /\ p.search = me.search /\ p.last = me.last /\ p.printed = me.printed
    BY <1>2 DEF GrepFields
  <2>3. me.last = 0 /\ me.printed = <<>> /\ me.pc = "opendir"
    BY <1>2, <1>6 DEF GrepKnows, GrepOpendir, At
  <2> HIDE DEF p
  <2>4. GrepKnows(p, pcb'[cpu].file_array)
    BY <1>5, <2>2, <2>3, KnowsBefore
  <2>. QED
    BY <1>1, <1>3, <2>1, <2>4, KnowsStays, ExitKnows
<1>7. CASE GrepReaddir
  <2>1. \E fname : \/ Become(Exit(0)) \/ Become(Exit(3)) \/ Become(me)
                   \/ Become([me EXCEPT !.pc = "open", !.fname = fname])
    <3> DEFINE fname == direntries[file_array[me.dirfd].file_position].filename
    <3>1. Become(CASE ret'.val = 0  -> Exit(0)
                  [] ret'.val = -1 -> Exit(3)
                  [] ret'.val > 0 /\ fname \in Dotted -> me
                  [] OTHER -> [me EXCEPT !.pc = "open", !.fname = fname])
      BY <1>7 DEF GrepReaddir
    <3> HIDE DEF fname
    <3>2. \/ Become(Exit(0)) \/ Become(Exit(3)) \/ Become(me)
          \/ Become([me EXCEPT !.pc = "open", !.fname = fname])
      BY <3>1
    <3>. QED
      BY <3>2
  <2>2. PICK fname : \/ Become(Exit(0)) \/ Become(Exit(3)) \/ Become(me)
                     \/ Become([me EXCEPT !.pc = "open", !.fname = fname])
    BY <2>1
  <2> DEFINE p == [me EXCEPT !.pc = "open", !.fname = fname]
  <2>3. p.pc = "open" /\ p.search = me.search /\ p.last = me.last /\ p.printed = me.printed
    BY <1>2 DEF GrepFields
  <2>4. me.last = 0 /\ me.printed = <<>> /\ me.pc = "readdir"
    BY <1>2, <1>7 DEF GrepKnows, GrepReaddir, At
  <2>5. Become(Exit(0)) \/ Become(Exit(3)) \/ Become(me) \/ Become(p)
    BY <2>2
  <2> HIDE DEF p
  <2>6. GrepKnows(p, pcb'[cpu].file_array) /\ GrepKnows(me, pcb'[cpu].file_array)
    BY <1>5, <2>3, <2>4, KnowsBefore
  <2>. QED
    BY <1>1, <1>3, <2>5, <2>6, KnowsStays, ExitKnows
<1>8. CASE GrepClose
  <2> DEFINE p == [Start("grep") EXCEPT !.pc = "readdir", !.search = me.search,
                                        !.dirfd = me.dirfd]
  <2>1. Become(Exit(3)) \/ Become(p)
    BY <1>8 DEF GrepClose
  <2>2. p.pc = "readdir" /\ p.search = me.search /\ p.last = 0 /\ p.printed = <<>>
    BY DEF Start
  <2>3. me.pc = "close"
    BY <1>8 DEF GrepClose, At
  <2> HIDE DEF p
  <2>4. GrepKnows(p, pcb'[cpu].file_array)
    BY <1>5, <2>2, <2>3, KnowsBefore
  <2>. QED
    BY <1>1, <1>3, <2>1, <2>4, KnowsStays, ExitKnows
<1>. QED
  BY <1>4, <1>6, <1>7, <1>8

\* The length of a text, and nothing of it has been searched at its beginning
LEMMA TextLen ==
  ASSUME NEW inode \in Nat, inode < inode_count
  PROVE  Len(Text[inode]) \in Nat /\ Len(Text[inode]) = flength(inode) /\ flength(inode) < UINT_MOD
<1>1. inode \in 0..inode_count - 1
  BY ImageAssumption
<1>. QED
  BY <1>1, UserlandAssumption, ImageAssumption, FileArrayAssumption DEF flength

LEMMA NothingListed ==
  ASSUME NEW t, Len(t) \in Nat, NEW pattern
  PROVE  Listed(<<>>, t, pattern, 0)
<1> DEFINE found == {start \in Matching(t, pattern) : start < 0}
           T == {LineAt(t, start) : start \in Starts(t)}
<1>1. found = {}
  BY StartsType
<1>2. Cardinality(found) = 0
  BY <1>1, FS_EmptySet
<1> HIDE DEF found, T
<1>3. <<>> \in Seq(T) /\ Len(<<>>) = 0
  OBVIOUS
<1>4. \A start \in found : <<>>[Cardinality({s \in found : s <= start})] = LineAt(t, start)
  BY <1>1
<1>. QED
  BY <1>2, <1>3, <1>4 DEF Listed, found, T

LEMMA GrepOpenKnows ==
  ASSUME UInv, GInv, GrepOpen
  PROVE  GInv'
<1> DEFINE fa == pcb[cpu].file_array
           o == open(fa, me.fname)
<1>1. Running /\ me.pc = "open" /\ me.prog = "grep" /\ me.pc # "exit" /\ cpu' = cpu
  BY DEF GrepOpen, At, Open, FileCall
<1>2. GrepKnows(me, fa) /\ GrepFrame(me, fa) /\ DOMAIN me = GrepFields /\ IInv /\ Usable
  BY <1>1, MyKnows, MyFrame
<1>3. /\ me.dirfd \in Fds
      /\ fa[me.dirfd].flags = FILE_OCCUP
      /\ fa[me.dirfd].file_ops_table_ptr = "directory"
      /\ me.fname \in Names \ Dotted
  BY <1>1, <1>2 DEF GrepFrame
<1>4. me.last = 0 /\ me.printed = <<>> /\ me.search \in Args \ {NoArg}
  BY <1>1, <1>2 DEF GrepKnows
<1>5. fa \in [Fds -> Slot]
  BY <1>1, <1>2, MyArray
<1>6. Open(me.fname)
  BY DEF GrepOpen
<1>7. PICK junk : Become(IF ret'.val = -1 THEN Exit(3)
                         ELSE [me EXCEPT !.pc = "read", !.fd = ret'.val, !.junk = junk,
                                         !.data = [k \in 0..BUFSIZE |-> junk]])
  BY DEF GrepOpen
<1>8. After("open", o)
  BY <1>2, <1>3, <1>6, OpenStays
<1>9. ret'.val = o.ret /\ pcb'[cpu].file_array = o.fa
  BY <1>8 DEF After
<1>10. \/ o.ret = -1
       \/ o.fa[o.ret].flags = FILE_OCCUP =>
            /\ o.fa[o.ret].inode_num = read_dentry_by_name(me.fname).inode_num
            /\ o.fa[o.ret].file_position = 0
  <2>1. o = open(fa, me.fname)
    OBVIOUS
  <2> HIDE DEF o
  <2>. QED
    BY <1>3, <1>5, <2>1, GrepOpened
<1>11. o.ret # -1 => o.ret \in Fds /\ o.fa \in [Fds -> Slot]
  <2>1. o \in Outcomes
    BY <1>3, <1>5, OpenType
  <2>2. o = open(fa, me.fname)
    OBVIOUS
  <2> HIDE DEF o
  <2>3. o.ret # -1 => o.ret \in Fds
    BY <1>3, <1>5, <2>2, GrepOpened
  <2>. QED
    BY <2>1, <2>3 DEF Outcomes
<1> HIDE DEF o
<1>12. CASE o.ret = -1
  <2>1. Become(Exit(3))
    BY <1>7, <1>9, <1>12
  <2>. QED
    BY <1>1, <2>1, ExitKnows
<1>13. CASE o.ret # -1
  <2> DEFINE data == [k \in 0..BUFSIZE |-> junk]
             p == [me EXCEPT !.pc = "read", !.fd = o.ret, !.junk = junk, !.data = data]
  <2>1. Become(p)
    BY <1>7, <1>9, <1>13
  <2>2. BUFSIZE \in Nat /\ BUFSIZE > 0 /\ BUFSIZE \in 0..BUFSIZE
    BY UserlandAssumption, ImageAssumption
  <2>3. DOMAIN data = 0..BUFSIZE /\ data[BUFSIZE] = junk
    BY <2>2
  <2> HIDE DEF data
  <2>4. /\ p.prog = "grep" /\ p.pc = "read" /\ p.fd = o.ret /\ p.junk = junk /\ p.data = data
        /\ p.last = me.last /\ p.printed = me.printed /\ p.search = me.search
        /\ p.fname = me.fname
    BY <1>1, <1>2 DEF GrepFields
  <2> HIDE DEF p
  <2>5. ASSUME o.fa[o.ret].flags = FILE_OCCUP PROVE Searching(p, o.fa[o.ret])
    <3> DEFINE f == o.fa[o.ret]
               t == Text[f.inode_num]
               pattern == Pattern[p.search]
    <3>1. f.inode_num = read_dentry_by_name(p.fname).inode_num /\ f.file_position = 0
      BY <1>10, <1>13, <2>4, <2>5
    <3>2. f.inode_num \in Nat
      BY <1>11, <1>13 DEF Slot
    <3>3. ASSUME f.inode_num < inode_count, Searchable(p.junk, t)
          PROVE  /\ p.last < BUFSIZE
                 /\ Buffered(t, pattern, f.file_position, p.last, 0, p.data, p.printed)
      <4>1. Len(t) \in Nat
        BY <3>2, <3>3, TextLen
      <4> HIDE DEF t, pattern
      <4>2. 0 - 0 + 0 = 0 /\ 0 \in 0..Len(t)
        BY <4>1
      <4>3. Edge(t, 0) /\ Listed(<<>>, t, pattern, 0)
        BY <4>1, NothingListed DEF Edge, Starts
      <4>4. data[BUFSIZE] # NL
        BY <2>3, <2>4, <3>3 DEF Searchable
      <4>5. Buffered(t, pattern, 0, 0, 0, data, <<>>)
        BY <4>2, <4>3, <4>4 DEF Buffered
      <4>. QED
        BY <1>4, <2>2, <2>4, <3>1, <4>5
    <3>4. p.pc # "line"
      BY <2>4
    <3> HIDE DEF f
    <3>5. Searching(p, f)
      BY <3>1, <3>3, <3>4 DEF Searching
    <3>. QED
      BY <3>5 DEF f
  <2>6. GrepKnows(p, o.fa)
    BY <1>4, <2>3, <2>4, <2>5 DEF GrepKnows
  <2>. QED
    BY <1>1, <1>9, <2>1, <2>6, KnowsStays
<1>. QED
  BY <1>12, <1>13

\* read_data stops before the count only at the end of the file
LEMMA ReadDataShort ==
  ASSUME NEW inode \in Nat, NEW pos \in Nat, NEW nbytes \in Nat,
         NEW n, n = read_data(inode, pos, nbytes), n # -1
  PROVE  /\ inode < inode_count
         /\ pos <= flength(inode) => n \in 0..nbytes /\ pos + n <= flength(inode)
         /\ pos <= flength(inode) /\ n < nbytes => pos + n = flength(inode)
<1>1. inode < inode_count
  BY ImageAssumption DEF read_data
<1>2. flength(inode) \in Nat
  BY <1>1, ImageAssumption DEF flength
<1>3. CASE pos >= flength(inode)
  <2>1. n = 0
    BY <1>1, <1>3, ImageAssumption DEF read_data
  <2>. QED
    BY <1>1, <1>2, <1>3, <2>1
<1>4. CASE ~(pos >= flength(inode))
  <2>1. n = Available(inode, pos, nbytes)
    BY <1>1, <1>4, ImageAssumption DEF read_data
  <2>. QED
    BY <1>1, <1>2, <1>4, <2>1 DEF Available, Smaller
<1>. QED
  BY <1>3, <1>4

LEMMA GrepReadKnows ==
  ASSUME UInv, GInv, GrepRead
  PROVE  GInv'
<1> DEFINE fa == pcb[cpu].file_array
           f == fa[me.fd]
           nbytes == BUFSIZE - me.last
<1>1. Running /\ me.pc = "read" /\ me.prog = "grep" /\ me.pc # "exit" /\ cpu' = cpu
  BY CallsStayHere DEF GrepRead, At, Read
<1>2. GrepKnows(me, fa) /\ GrepFrame(me, fa) /\ DOMAIN me = GrepFields /\ IInv /\ Usable
  BY <1>1, MyKnows, MyFrame
<1>3. /\ me.last \in 0..BUFSIZE
      /\ me.fd \in Fds /\ me.fd >= 2
      /\ f.flags = FILE_OCCUP => f.file_ops_table_ptr = "file"
  BY <1>1, <1>2 DEF GrepFrame
<1>4. /\ me.search \in Args \ {NoArg} /\ DOMAIN me.data = 0..BUFSIZE
      /\ f.flags = FILE_OCCUP => Searching(me, f)
  BY <1>1, <1>2 DEF GrepKnows
<1>5. fa \in [Fds -> Slot] /\ file_array = fa
  BY <1>1, <1>2, MyArray
<1>6. BUFSIZE \in Nat /\ nbytes \in Nat /\ nbytes \in Int /\ nbytes < UINT_MOD /\ me.last + nbytes = BUFSIZE
  BY <1>3, UserlandAssumption, FileArrayAssumption
<1>7. me.fd \in Int
  BY <1>3 DEF Fds
<1> DEFINE stored(n) == [k \in 0..BUFSIZE |-> IF k \in me.last..me.last + n - 1
                                  THEN Text[f.inode_num][f.file_position + k - me.last + 1]
                                  ELSE me.data[k]]
<1>8. /\ Read(me.fd, nbytes)
      /\ Become(IF ret'.val = -1 THEN Exit(3)
                ELSE [me EXCEPT !.pc = "line", !.cnt = ret'.val, !.line_start = 0,
                                !.last = me.last + ret'.val, !.data = stored(ret'.val)])
  BY <1>5 DEF GrepRead
<1> HIDE DEF stored, nbytes
<1>9. \E typed \in 0..MAX_INPUT_CHARS, ticked \in BOOLEAN :
            After("read", read(fa, me.fd, nbytes, typed, ticked))
  BY <1>2, <1>6, <1>7, <1>8, ReadStays
<1>10. PICK typed \in 0..MAX_INPUT_CHARS, ticked \in BOOLEAN :
         After("read", read(fa, me.fd, nbytes, typed, ticked))
  BY <1>9
<1> DEFINE o == read(fa, me.fd, nbytes, typed, ticked)
<1>11. ret'.val = o.ret /\ pcb'[cpu].file_array = o.fa
  BY <1>10 DEF After
<1>12. CASE f.flags = FILE_AVAIL
  <2>1. Closed(fa, me.fd)
    BY <1>12 DEF Closed
  <2>2. o = Fail(fa)
    BY <2>1, ClosedCalls
  <2>3. o.ret = -1
    BY <2>2, FailIs
  <2> HIDE DEF o
  <2>4. Become(Exit(3))
    BY <1>8, <1>11, <2>3
  <2>. QED
    BY <1>1, <2>4, ExitKnows
<1>13. CASE f.flags = FILE_OCCUP
  <2> DEFINE inode == f.inode_num
             pos == f.file_position
             n == read_data(inode, pos, nbytes)
  <2>1. inode \in Nat /\ pos \in Nat /\ f \in Slot
    <3>1. f \in Slot
      BY <1>3, <1>5
    <3>. QED
      BY <3>1, FileArrayAssumption DEF Slot
  <2>2. f.file_ops_table_ptr = "file"
    BY <1>3, <1>13
  <2>3. n \in -1..nbytes
    <3> HIDE DEF inode, pos, f
    <3>. QED
      BY <1>6, <2>1, ReadDataBound
  <2>4. /\ o.ret = n
        /\ o.fa[me.fd] = [f EXCEPT !.file_position = (pos + n) % UINT_MOD]
    <3>1. inode = fa[me.fd].inode_num /\ pos = fa[me.fd].file_position
      OBVIOUS
    <3>2. o = read(fa, me.fd, nbytes, typed, ticked)
      OBVIOUS
    <3>3. n = read_data(inode, pos, nbytes)
      OBVIOUS
    <3> HIDE DEF o, n, inode, pos
    <3>. QED
      BY <1>3, <1>5, <1>6, <1>13, <2>2, <3>1, <3>2, <3>3, FileRead
  <2>5. n # -1 =>
          /\ inode < inode_count
          /\ pos <= flength(inode) => n \in 0..nbytes /\ pos + n <= flength(inode)
          /\ pos <= flength(inode) /\ n < nbytes => pos + n = flength(inode)
    <3> HIDE DEF inode, pos, f
    <3>. QED
      BY <1>6, <2>1, ReadDataShort
  <2> HIDE DEF o, n, f
  <2>6. CASE n = -1
    <3>1. Become(Exit(3))
      BY <1>8, <1>11, <2>4, <2>6
    <3>. QED
      BY <1>1, <3>1, ExitKnows
  <2>7. CASE n # -1
    <3> DEFINE data2 == stored(n)
               sum == me.last + n
               p == [me EXCEPT !.pc = "line", !.cnt = n, !.line_start = 0,
                               !.last = sum, !.data = data2]
               f2 == o.fa[me.fd]
    <3>1. Become(p)
      BY <1>8, <1>11, <2>4, <2>7
    <3>2. DOMAIN data2 = 0..BUFSIZE
      BY DEF stored
    <3> HIDE DEF data2, sum
    <3>3. /\ p.prog = "grep" /\ p.pc = "line" /\ p.cnt = n /\ p.line_start = 0 /\ p.last = sum
          /\ p.data = data2 /\ p.fd = me.fd /\ p.fname = me.fname /\ p.search = me.search
          /\ p.junk = me.junk /\ p.printed = me.printed
      BY <1>1, <1>2 DEF GrepFields
    <3>4. /\ f2.inode_num = inode /\ f2.flags = FILE_OCCUP
          /\ f2.file_position = (pos + n) % UINT_MOD
      BY <1>13, <2>1, <2>4 DEF Slot
    <3> HIDE DEF p, f2
    <3>5. inode < inode_count
      BY <2>5, <2>7
    <3> DEFINE t == Text[inode]
               pattern == Pattern[me.search]
    <3>6. inode = read_dentry_by_name(me.fname).inode_num
      BY <1>4, <1>13 DEF Searching
    <3>7. ASSUME Searchable(me.junk, t)
          PROVE  /\ sum < BUFSIZE \/ n = 0 => f2.file_position = Len(t)
                 /\ Buffered(t, pattern, f2.file_position, sum, 0, data2, me.printed)
      <4>1. me.last < BUFSIZE /\ Buffered(t, pattern, pos, me.last, 0, me.data, me.printed)
        BY <1>1, <1>4, <1>13, <3>5, <3>7 DEF Searching
      <4>2. Len(t) \in Nat /\ Len(t) = flength(inode) /\ flength(inode) < UINT_MOD
        BY <2>1, <3>5, TextLen
      <4>3. pos <= Len(t)
        BY <1>3, <1>6, <4>1, <4>2 DEF Buffered
      <4>4. n \in 0..nbytes /\ pos + n <= Len(t) /\ (n < nbytes => pos + n = Len(t))
        BY <2>5, <2>7, <4>2, <4>3
      <4>5. pos + n \in Nat /\ pos + n < UINT_MOD
        BY <1>6, <2>1, <4>2, <4>4, FileArrayAssumption
      <4>6. f2.file_position = pos + n
        BY <3>4, <4>5, NoWrap
      <4>7. n \in 0..BUFSIZE - me.last
        BY <1>3, <1>6, <4>4 DEF nbytes
      <4>8. data2 = [k \in 0..BUFSIZE |-> IF k \in me.last..me.last + n - 1
                                          THEN t[pos + k - me.last + 1] ELSE me.data[k]]
        BY DEF data2, stored
      <4>9. sum < BUFSIZE \/ n = 0 => n < nbytes
        BY <1>3, <1>6, <4>1, <4>7 DEF sum, nbytes
      <4> HIDE DEF t, pattern, pos, inode
      <4>10. Buffered(t, pattern, pos + n, me.last + n, 0, data2, me.printed)
        BY <1>3, <2>1, <4>1, <4>2, <4>4, <4>7, <4>8, ReadBuffered
      <4>. QED
        BY <4>4, <4>6, <4>9, <4>10 DEF sum
    <3>8. Searching(p, f2)
      <4> HIDE DEF inode
      <4>. QED
        BY <3>3, <3>4, <3>6, <3>7 DEF Searching
    <3>9. GrepKnows(p, o.fa)
      BY <1>4, <3>2, <3>3, <3>4, <3>5, <3>8 DEF GrepKnows, f2
    <3>. QED
      BY <1>1, <1>11, <3>1, <3>9, KnowsStays
  <2>. QED
    BY <2>6, <2>7
<1>14. f.flags \in {FILE_AVAIL, FILE_OCCUP}
  BY <1>3, <1>5 DEF Slot
<1>. QED
  BY <1>12, <1>13, <1>14

LEMMA GrepLineKnows ==
  ASSUME UInv, GInv, GrepLine
  PROVE  GInv'
<1> DEFINE fa == pcb[cpu].file_array
           f == fa[me.fd]
           inode == f.inode_num
           pos == f.file_position
           t == Text[inode]
           pattern == Pattern[me.search]
           e == Seek(me.data, me.line_start, me.last, NL)
           ended == [me.data EXCEPT ![e] = NULchar]
<1>1. /\ Running /\ me.pc = "line" /\ me.prog = "grep" /\ me.pc # "exit"
      /\ cpu' = cpu /\ pcb' = pcb
  BY DEF GrepLine, At, vars, kernelVars
<1>2. GrepKnows(me, fa) /\ GrepFrame(me, fa) /\ DOMAIN me = GrepFields /\ IInv /\ Usable
  BY <1>1, MyKnows, MyFrame
<1>3. /\ me.last \in 0..BUFSIZE /\ me.line_start \in Nat /\ me.line_start <= me.last
      /\ me.fd \in Fds
  BY <1>1, <1>2 DEF GrepFrame
<1>4. /\ me.search \in Args \ {NoArg} /\ DOMAIN me.data = 0..BUFSIZE
      /\ f.flags = FILE_OCCUP /\ inode < inode_count /\ Searching(me, f)
  BY <1>1, <1>2 DEF GrepKnows
<1>5. inode \in Nat /\ pos \in Nat
  <2>1. f \in Slot
    BY <1>1, <1>2, <1>3, MyArray
  <2>. QED
    BY <2>1, FileArrayAssumption DEF Slot
<1>6. BUFSIZE \in Nat /\ BUFSIZE > 0
  BY UserlandAssumption, ImageAssumption
<1>7. /\ inode = read_dentry_by_name(me.fname).inode_num
      /\ Searchable(me.junk, t) =>
           /\ me.last < BUFSIZE \/ me.cnt = 0 => pos = Len(t)
           /\ Buffered(t, pattern, pos, me.last, me.line_start, me.data, me.printed)
  BY <1>1, <1>4 DEF Searching
<1>8. IF Partial(e) THEN KeepRest(e) ELSE SearchLine(e)
  BY DEF GrepLine
<1>9. /\ e \in me.line_start..me.last
      /\ e < me.last => me.data[e] = NL
      /\ \A i \in me.line_start..e - 1 : me.data[i] # NL
  BY <1>3, SeekIs
<1>10. Len(t) \in Nat /\ Len(pattern) \in Nat \ {0}
  BY <1>4, <1>5, TextLen, UserlandAssumption
<1> HIDE DEF e
<1>11. DOMAIN ended = 0..BUFSIZE /\ Ended(ended, me.data, e)
  <2>1. e \in 0..BUFSIZE
    BY <1>3, <1>6, <1>9
  <2>. QED
    BY <1>4, <2>1 DEF Ended
<1> HIDE DEF t, pattern, pos, inode
<1>12. CASE Partial(e)
  <2> DEFINE rest == Append(From(ended, me.line_start), NULchar)
             left == me.last - me.line_start
             data2 == [k \in 0..BUFSIZE |-> IF k < Len(rest) THEN rest[k + 1] ELSE ended[k]]
             p == [me EXCEPT !.pc = "read", !.last = left, !.data = data2]
  <2>1. Become(p)
    BY <1>8, <1>12 DEF KeepRest
  <2>2. e = me.last /\ me.line_start \in 1..me.last /\ left < BUFSIZE
    BY <1>3, <1>6, <1>9, <1>12 DEF Partial
  <2> HIDE DEF ended
  <2>3. DOMAIN data2 = 0..BUFSIZE
    OBVIOUS
  <2>4. Copied(data2, ended, me.line_start)
    BY DEF Copied
  <2> HIDE DEF data2, left
  <2>5. /\ p.prog = "grep" /\ p.pc = "read" /\ p.last = left /\ p.data = data2
        /\ p.fd = me.fd /\ p.fname = me.fname /\ p.search = me.search
        /\ p.junk = me.junk /\ p.printed = me.printed
    BY <1>1, <1>2 DEF GrepFields
  <2> HIDE DEF p
  <2>6. ASSUME Searchable(me.junk, t)
        PROVE  Buffered(t, pattern, pos, left, 0, data2, me.printed)
    <3>1. \A i \in 1..Len(t) : t[i] # NULchar
      BY <2>6 DEF Searchable
    <3>2. Buffered(t, pattern, pos, me.last, me.line_start, me.data, me.printed)
      BY <1>7, <2>6
    <3>3. Ended(ended, me.data, me.last)
      BY <1>11, <2>2
    <3>4. Buffered(t, pattern, pos, me.last - me.line_start, 0, data2, me.printed)
      BY <1>3, <1>5, <1>10, <2>2, <2>4, <3>1, <3>2, <3>3, KeepBuffered
    <3>. QED
      BY <3>4 DEF left
  <2>7. Searching(p, f)
    BY <1>7, <2>2, <2>5, <2>6 DEF Searching, t, pattern, pos, inode
  <2>8. GrepKnows(p, fa)
    BY <1>4, <2>3, <2>5, <2>7 DEF GrepKnows
  <2>. QED
    BY <1>1, <2>1, <2>8, KnowsStays
<1>13. CASE ~Partial(e)
  <2> DEFINE line == [k \in 1..e - me.line_start |-> ended[me.line_start + k - 1]]
             more == e + 1 < me.last
             printed2 == IF Occurs(pattern, line)
                         THEN Append(me.printed, From(ended, me.line_start)) ELSE me.printed
             start2 == e + 1
             last2 == IF more THEN me.last ELSE 0
             pc2 == IF more THEN "line" ELSE AfterBuffer
             p == [me EXCEPT !.data = ended, !.printed = printed2, !.line_start = start2,
                             !.last = last2, !.pc = pc2]
  <2>1. Become(p)
    BY <1>8, <1>13 DEF SearchLine, pattern
  <2> HIDE DEF ended
  <2>2. Between(line, ended, me.line_start, e)
    BY DEF Between
  <2>3. Shown(printed2, me.printed, pattern, line, From(ended, me.line_start))
    BY DEF Shown
  <2> HIDE DEF line, printed2, start2, last2, pc2
  <2>4. /\ p.prog = "grep" /\ p.pc = pc2 /\ p.last = last2 /\ p.data = ended
        /\ p.line_start = start2 /\ p.printed = printed2 /\ p.cnt = me.cnt
        /\ p.fd = me.fd /\ p.fname = me.fname /\ p.search = me.search /\ p.junk = me.junk
    BY <1>1, <1>2 DEF GrepFields
  <2> HIDE DEF p
  <2>5. ASSUME Searchable(me.junk, t)
        PROVE  IF more THEN Buffered(t, pattern, pos, me.last, start2, ended, printed2)
                       ELSE Buffered(t, pattern, pos, 0, 0, ended, printed2)
    <3>1. /\ \A i \in 1..Len(t) : t[i] # NULchar
          /\ \A start \in Starts(t) : Len(LineAt(t, start)) <= BUFSIZE
      BY <2>5 DEF Searchable
    <3>2. /\ Buffered(t, pattern, pos, me.last, me.line_start, me.data, me.printed)
          /\ me.last < BUFSIZE \/ me.cnt = 0 => pos = Len(t)
      BY <1>7, <2>5
    <3>3. e = me.last => (pos < Len(t) => t[pos + 1] = NL)
      <4>1. SUFFICES ASSUME e = me.last PROVE pos < Len(t) => t[pos + 1] = NL
        OBVIOUS
      <4>2. me.data[me.last] = NL \/ me.line_start = 0 \/ pos = Len(t)
        BY <1>13, <3>2, <4>1 DEF Partial
      <4>3. me.line_start \in 0..me.last /\ \A k \in me.line_start..me.last - 1 : me.data[k] # NL
        BY <1>3, <1>9, <4>1
      <4>4. me.last < BUFSIZE => pos = Len(t)
        BY <3>2
      <4>5. Buffered(t, pattern, pos, me.last, me.line_start, me.data, me.printed)
        BY <3>2
      <4>6. \A start \in Starts(t) : Len(LineAt(t, start)) <= BUFSIZE
        BY <3>1
      <4>. QED
        BY <1>3, <1>5, <1>10, <4>2, <4>3, <4>4, <4>5, <4>6, LineComplete
    <3>4. me.line_start \in 0..me.last
      BY <1>3
    <3>. QED
      BY <1>3, <1>5, <1>9, <1>10, <1>11, <2>2, <2>3, <3>1, <3>2, <3>3, <3>4, SearchBuffered
         DEF start2
  <2>6. CASE more
    <3>1. pc2 = "line" /\ last2 = me.last
      BY <2>6 DEF pc2, last2
    <3>2. Searching(p, f)
      BY <1>7, <2>4, <2>5, <2>6, <3>1 DEF Searching, t, pattern, pos, inode
    <3>3. GrepKnows(p, fa)
      BY <1>4, <1>11, <2>4, <3>1, <3>2 DEF GrepKnows, inode
    <3>. QED
      BY <1>1, <2>1, <3>3, KnowsStays
  <2>7. CASE ~more /\ me.cnt # 0
    <3>1. pc2 = "read" /\ last2 = 0
      BY <2>7 DEF pc2, last2, AfterBuffer
    <3>2. Searching(p, f)
      BY <1>6, <1>7, <2>4, <2>5, <2>7, <3>1 DEF Searching, t, pattern, pos, inode
    <3>3. GrepKnows(p, fa)
      BY <1>4, <1>11, <2>4, <3>1, <3>2 DEF GrepKnows
    <3>. QED
      BY <1>1, <2>1, <3>3, KnowsStays
  <2>8. CASE ~more /\ me.cnt = 0
    <3>1. pc2 = "close" /\ last2 = 0
      BY <2>8 DEF pc2, last2, AfterBuffer
    <3>2. inode \in 0..inode_count - 1
      BY <1>4, <1>5, ImageAssumption
    <3>3. ASSUME Searchable(me.junk, t) PROVE Listed(printed2, t, pattern, Len(t))
      <4>1. pos = Len(t)
        BY <1>7, <2>8, <3>3
      <4>2. Listed(printed2, t, pattern, pos - 0 + 0) /\ pos - 0 + 0 = pos
        BY <1>5, <2>5, <2>8, <3>3 DEF Buffered
      <4>. QED
        BY <4>1, <4>2
    <3>4. GrepKnows(p, fa)
      BY <1>4, <1>7, <2>4, <3>1, <3>2, <3>3 DEF GrepKnows, t, pattern
    <3>. QED
      BY <1>1, <2>1, <3>4, KnowsStays
  <2>. QED
    BY <2>6, <2>7, <2>8
<1>. QED
  BY <1>12, <1>13

----------------------------------------------------------------------------

\* Every frame but that of a program that has returned has the field prog
LEMMA HasProg ==
  ASSUME UInv, Running, me.pc # "exit"
  PROVE  "prog" \in DOMAIN me
<1>1. me.prog \in Programs
  BY MyFrame
<1>2. CASE me.prog \in {"shell", "cat", "ls"}
  BY <1>2, MyFrame DEF ShellFrame, CatFrame, LsFrame
<1>3. CASE me.prog = "grep"
  BY <1>3, MyFrame DEF GrepFrame, GrepFields
<1>4. CASE me.prog \in {"syserr", "pingpong"}
  BY <1>4, MyFrame DEF SyserrFrame, PingpongFrame
<1>5. CASE me.prog \in {"hello", "testprint", "counter", "sigtest"}
  <2>1. SimpleFrame(me)
    BY <1>5, MyFrame
  <2>. QED
    BY <2>1 DEF SimpleFrame, Start
<1>. QED
  BY <1>1, <1>2, <1>3, <1>4, <1>5 DEF Programs

LEMMA NotGrep ==
  ASSUME UInv, Running, cpu' = cpu, prog'[cpu].prog # "grep"
  PROVE  GInv'
BY DEF GInv, GrepKnows, Searching

\* The steps of the other programs leave the processor and the program alone
LEMMA OtherKnows ==
  ASSUME UInv,
         \/ ShellRead \/ ShellLine \/ ShellResume
         \/ CatArgs \/ CatOpen \/ CatRead \/ CatWrite
         \/ LsOpen \/ LsRead \/ LsWrite
         \/ HelloRead \/ TestprintWrite \/ CounterRead \/ CounterWrite
         \/ SyserrRead \/ SyserrStep \/ SyserrEnd
         \/ PingpongOpen \/ PingpongRate \/ PingpongDraw \/ PingpongTick
         \/ SigtestArgs \/ SigtestHandler \/ SigtestRead
  PROVE  GInv'
<1>1. Running /\ me.prog # "grep" /\ me.pc # "exit"
  BY DEF ShellRead, ShellLine, ShellResume, CatArgs, CatOpen, CatRead, CatWrite, LsOpen, LsRead,
         LsWrite, HelloRead, TestprintWrite, CounterRead, CounterWrite, SyserrRead, SyserrStep,
         SyserrEnd, PingpongOpen, PingpongRate, PingpongDraw, PingpongTick, SigtestArgs,
         SigtestHandler, SigtestRead, At
<1>2. "prog" \in DOMAIN me /\ cpu \in DOMAIN prog
  BY <1>1, HasProg, MyFrame DEF UInv, Callers
<1>3. \A status : Exit(status).prog = me.prog
  BY DEF Exit
<1>4. CASE ShellRead \/ ShellLine \/ ShellResume
  <2>1. cpu' = cpu
    BY <1>4, CallsStayHere DEF ShellRead, ShellLine, ShellResume, vars
  <2>2. me.prog = "shell"
    BY <1>4 DEF ShellRead, ShellLine, ShellResume, At
  <2>3. Start("shell").prog = "shell"
    BY DEF Start
  <2>4. prog'[cpu].prog = me.prog
    BY <1>2, <1>3, <1>4, <2>2, <2>3 DEF ShellRead, ShellLine, ShellResume, Become, me
  <2>. QED
    BY <1>1, <2>1, <2>4, NotGrep
<1>5. CASE CatArgs \/ CatOpen \/ CatRead \/ CatWrite
  <2>1. cpu' = cpu
    BY <1>5, CallsStayHere DEF CatArgs, CatOpen, CatRead, CatWrite, Open, Write, FileCall
  <2>2. prog'[cpu].prog = me.prog
    <3>1. CASE CatArgs
      BY <1>2, <1>3, <3>1 DEF CatArgs, Become, me
    <3>2. CASE CatOpen
      BY <1>2, <1>3, <3>2 DEF CatOpen, Become, me
    <3>3. CASE CatRead
      BY <1>2, <1>3, <3>3 DEF CatRead, Become, me
    <3>4. CASE CatWrite
      BY <1>2, <1>3, <3>4 DEF CatWrite, Become, me
    <3>. QED
      BY <1>5, <3>1, <3>2, <3>3, <3>4
  <2>. QED
    BY <1>1, <2>1, <2>2, NotGrep
<1>6. CASE LsOpen \/ LsRead \/ LsWrite
  <2>1. cpu' = cpu
    BY <1>6, CallsStayHere DEF LsOpen, LsRead, LsWrite, Open, Write, FileCall
  <2>2. prog'[cpu].prog = me.prog
    <3>1. CASE LsOpen
      BY <1>2, <1>3, <3>1 DEF LsOpen, Become, me
    <3>2. CASE LsRead
      BY <1>2, <1>3, <3>2 DEF LsRead, Become, me
    <3>3. CASE LsWrite
      BY <1>2, <1>3, <3>3 DEF LsWrite, Become, me
    <3>. QED
      BY <1>6, <3>1, <3>2, <3>3
  <2>. QED
    BY <1>1, <2>1, <2>2, NotGrep
<1>7. CASE HelloRead \/ TestprintWrite \/ CounterRead \/ CounterWrite
  <2>1. cpu' = cpu
    BY <1>7, CallsStayHere DEF HelloRead, TestprintWrite, CounterRead, CounterWrite, Write,
                               FileCall, vars
  <2>2. prog'[cpu].prog = me.prog
    <3>1. CASE HelloRead \/ TestprintWrite
      BY <1>2, <1>3, <3>1 DEF HelloRead, TestprintWrite, Become, me
    <3>2. CASE CounterRead
      BY <1>2, <1>3, <3>2 DEF CounterRead, Become, me
    <3>3. CASE CounterWrite
      BY <1>2, <1>3, <3>3 DEF CounterWrite, Become, me
    <3>. QED
      BY <1>7, <3>1, <3>2, <3>3
  <2>. QED
    BY <1>1, <2>1, <2>2, NotGrep
<1>8. CASE SyserrRead \/ SyserrStep \/ SyserrEnd
  <2>1. cpu' = cpu
    BY <1>8, CallsStayHere DEF SyserrRead, SyserrStep, SyserrEnd, SyserrCall, Write, Open,
                               Close, Vidmap, Invalid, FileCall, vars
  <2>2. prog'[cpu].prog = me.prog
    <3>1. CASE SyserrRead
      BY <1>2, <1>3, <3>1 DEF SyserrRead, Become, me
    <3>2. CASE SyserrStep
      <4>1. \E vals, todo, fail :
               \/ Become([me EXCEPT !.vals = vals])
               \/ Become([me EXCEPT !.todo = todo, !.vals = vals, !.fail = fail])
        BY <3>2, Zenon DEF SyserrStep
      <4>. QED
        BY <1>2, <4>1 DEF Become, me
    <3>3. CASE SyserrEnd
      BY <1>2, <1>3, <3>3 DEF SyserrEnd, Become, me
    <3>. QED
      BY <1>8, <3>1, <3>2, <3>3
  <2>. QED
    BY <1>1, <2>1, <2>2, NotGrep
<1>9. CASE PingpongOpen \/ PingpongRate \/ PingpongDraw \/ PingpongTick
  <2>1. cpu' = cpu
    BY <1>9, CallsStayHere DEF PingpongOpen, PingpongRate, PingpongDraw, PingpongTick, Open,
                               Write, FileCall
  <2>2. prog'[cpu].prog = me.prog
    BY <1>2, <1>9 DEF PingpongOpen, PingpongRate, PingpongDraw, PingpongTick, Goto, Become, me
  <2>. QED
    BY <1>1, <2>1, <2>2, NotGrep
<1>10. CASE SigtestArgs \/ SigtestHandler \/ SigtestRead
  <2>1. cpu' = cpu
    BY <1>10, CallsStayHere DEF SigtestArgs, SigtestHandler, SigtestRead, Invalid
  <2>2. prog'[cpu].prog = me.prog
    <3>1. CASE SigtestArgs
      <4>1. Become(Exit(3)) \/ \E pc : Become([me EXCEPT !.pc = pc])
        BY <3>1, Zenon DEF SigtestArgs
      <4>. QED
        BY <1>2, <1>3, <4>1 DEF Become, me
    <3>2. CASE SigtestHandler
      BY <1>2, <3>2 DEF SigtestHandler, Goto, Become, me
    <3>3. CASE SigtestRead
      BY <1>2, <1>3, <3>3 DEF SigtestRead, Become, me
    <3>. QED
      BY <1>10, <3>1, <3>2, <3>3
  <2>. QED
    BY <1>1, <2>1, <2>2, NotGrep
<1>. QED
  BY <1>4, <1>5, <1>6, <1>7, <1>8, <1>9, <1>10

\* A program that has just been started has printed nothing
LEMMA StartKnows ==
  ASSUME NEW name \in Programs, NEW fa, Start(name).prog = "grep"
  PROVE  GrepKnows(Start(name), fa)
<1>1. Start(name).prog = name
  BY DEF Start, Programs
<1>2. Start("grep").pc = "args" /\ Start("grep").last = 0 /\ Start("grep").printed = <<>>
  BY DEF Start
<1>. QED
  BY <1>1, <1>2 DEF GrepKnows

LEMMA LaunchKnows ==
  ASSUME NEW name \in Programs, NEW frames, frames = [a \in PcbAddrs |-> frames[a]],
         cpu' \in PcbAddrs, cpu' # cpu, Launch(frames, name)
  PROVE  GInv'
<1>1. prog' = [frames EXCEPT ![cpu'] = Start(name)]
  BY DEF Launch
<1>2. prog'[cpu'] = Start(name)
  BY <1>1
<1>3. prog'[cpu'].prog = "grep" => GrepKnows(prog'[cpu'], pcb'[cpu'].file_array)
  BY <1>2, StartKnows
<1>. QED
  BY <1>3 DEF GInv, GrepKnows, Searching

LEMMA BootKnows ==
  ASSUME UInv, UBootLoop
  PROVE  GInv'
<1>1. /\ machine = "up" /\ cpu = BootBlock /\ execute(boot_command)
      /\ boot_command' = [boot_command EXCEPT !.spaced = FALSE, !.arg = NoArg]
      /\ Launch(prog, boot_command.name)
  BY DEF UBootLoop, BootLoop
<1>2. /\ Callers /\ boot_command.name = "shell" /\ prog = [a \in PcbAddrs |-> prog[a]]
  BY DEF UInv, Callers
<1>3. UInv'
  BY BootStep
<1>4. cpu' # BootBlock => cpu' \in PcbAddrs
  BY <1>3 DEF UInv, IInv, TypeOK, Blocks, PcbAddrs
<1>5. "shell" \in Programs
  BY DEF Programs
<1>6. CASE cpu' = BootBlock
  BY <1>6 DEF GInv
<1>7. CASE cpu' # BootBlock
  BY <1>1, <1>2, <1>4, <1>5, <1>7, LaunchKnows
<1>. QED
  BY <1>6, <1>7

LEMMA ShellRunKnows ==
  ASSUME UInv, ShellRun
  PROVE  GInv'
<1> DEFINE frames == [prog EXCEPT ![cpu].pc = "wait"]
<1>1. /\ Running /\ machine = "up" /\ cpu # BootBlock /\ me.prog = "shell" /\ me.pc = "run"
      /\ Execute(me.line)
      /\ Launch(frames, me.line.name)
  BY DEF ShellRun, At, Running
<1>2. /\ IInv /\ Usable /\ prog = [a \in PcbAddrs |-> prog[a]] /\ cpu \in PcbAddrs
      /\ ShellFrame(me) /\ boot_command \in Command
  BY <1>1, MyFrame DEF UInv, Callers, IInv, TypeOK
<1>3. me.line \in Lines /\ me.line \in Command /\ me.line # NULL
  BY <1>1, <1>2, UserlandAssumption DEF ShellFrame
<1>4. frames = [a \in PcbAddrs |-> frames[a]]
  BY <1>2
<1>5. frames[cpu].prog = "shell"
  BY <1>2 DEF ShellFrame, me
<1> HIDE DEF frames
<1>9. execute(me.line) /\ boot_command' = boot_command
  BY <1>1, <1>3, ExecuteStores, NeverOverwritten
<1>6. \/ cpu' = cpu
      \/ ~Refused(me.line) /\ Loads(me.line) /\ cpu' \in PcbAddrs /\ cpu' # cpu
  BY <1>1, <1>2, <1>3, <1>9, ExecuteKinds
<1>7. CASE cpu' = cpu
  <2>1. prog'[cpu] = frames[cpu]
    BY <1>1, <1>7 DEF Launch
  <2>. QED
    BY <1>1, <1>5, <1>7, <2>1, NotGrep
<1>8. CASE ~Refused(me.line) /\ Loads(me.line) /\ cpu' \in PcbAddrs /\ cpu' # cpu
  <2>1. me.line.name \in Programs
    BY <1>3, <1>8, UserlandAssumption
  <2>. QED
    BY <1>1, <1>4, <1>8, <2>1, LaunchKnows
<1>. QED
  BY <1>6, <1>7, <1>8

\* halt goes back to a shell that waits, or to the boot loop
LEMMA EndsKnows ==
  ASSUME UInv, Ends
  PROVE  GInv'
<1>1. Running /\ machine = "up" /\ cpu # BootBlock /\ Halt(me.status) /\ Become(none)
  BY DEF Ends, Running
<1>2. IInv /\ Callers /\ cpu \in PcbAddrs /\ NoBlock \notin PcbAddrs
      /\ prog = [a \in PcbAddrs |-> prog[a]]
  BY <1>1, MyFrame, DistinctBlocks DEF UInv, Callers, PcbAddrs
<1> DEFINE parent == BlockOf(pcb[PcbAddr(curr_process)].parent_esp)
<1>3. parent \in Blocks /\ parent # cpu /\ waiting[parent] = cpu
  BY <1>1, <1>2, HaltTarget
<1>4. cpu' = parent
  BY <1>1 DEF Halt
<1> HIDE DEF parent
<1>5. CASE parent = BootBlock
  BY <1>4, <1>5 DEF GInv
<1>6. CASE parent # BootBlock
  <2>1. parent \in PcbAddrs \ {cpu}
    BY <1>3, <1>6 DEF Blocks
  <2>2. prog[parent].prog = "shell"
    BY <1>2, <1>3, <2>1 DEF Callers, Waits, ShellFrame
  <2>3. prog'[cpu'].prog # "grep"
    BY <1>1, <1>2, <1>4, <2>1, <2>2 DEF Become
  <2>. QED
    BY <2>3 DEF GInv
<1>. QED
  BY <1>5, <1>6

LEMMA StepGInv ==
  ASSUME UInv, GInv, [UNext]_uvars
  PROVE  GInv'
<1>1. CASE UBootLoop
  BY <1>1, BootKnows
<1>2. CASE ProgramStep
  <2>1. CASE \/ ShellRun \/ Ends \/ SigtestFault
    <3>1. CASE SigtestFault
      <4>1. prog'[cpu'].prog # "grep"
        BY <3>1 DEF SigtestFault, Exception, At, me
      <4>. QED
        BY <4>1 DEF GInv
    <3>. QED
      BY <2>1, <3>1, ShellRunKnows, EndsKnows
  <2>2. CASE \/ GrepArgs \/ GrepOpendir \/ GrepReaddir \/ GrepOpen \/ GrepRead \/ GrepLine
             \/ GrepClose
    BY <2>2, GrepStartKnows, GrepOpenKnows, GrepReadKnows, GrepLineKnows
  <2>3. CASE \/ ShellRead \/ ShellLine \/ ShellResume
             \/ CatArgs \/ CatOpen \/ CatRead \/ CatWrite
             \/ LsOpen \/ LsRead \/ LsWrite
             \/ HelloRead \/ TestprintWrite \/ CounterRead \/ CounterWrite
             \/ SyserrRead \/ SyserrStep \/ SyserrEnd
             \/ PingpongOpen \/ PingpongRate \/ PingpongDraw \/ PingpongTick
             \/ SigtestArgs \/ SigtestHandler \/ SigtestRead
    BY <2>3, OtherKnows
  <2>. QED
    BY <1>2, <2>1, <2>2, <2>3 DEF ProgramStep
<1>3. CASE UNCHANGED uvars
  <2>1. pcb' = pcb /\ cpu' = cpu /\ prog' = prog
    BY <1>3 DEF uvars, vars, kernelVars
  <2>2. cpu' # BootBlock /\ prog'[cpu'].prog = "grep" /\ prog'[cpu'].pc # "exit" =>
          GrepKnows(prog'[cpu'], pcb'[cpu'].file_array)
    BY <2>1 DEF GInv
  <2>. QED
    BY <2>2 DEF GInv, GrepKnows, Searching
<1>4. CASE UStopped
  BY <1>3, <1>4 DEF UStopped, Stopped, uvars
<1>. QED
  BY <1>1, <1>2, <1>3, <1>4 DEF UNext

LEMMA SpecGInv == USpec => [](UInv /\ GInv)
<1>1. USpec => UInit /\ [][UNext]_uvars
  BY DEF USpec
<1>2. UInit => GInv
  BY DEF UInit, Init, GInv
<1>. QED
  BY <1>1, <1>2, InitUInv, StepUInv, StepGInv, PTL

\* A line that starts where the text ends is empty, and so does not match
LEMMA NoneAtEnd ==
  ASSUME NEW t, Len(t) \in Nat, NEW pattern, Len(pattern) \in Nat \ {0}
  PROVE  {start \in Matching(t, pattern) : start < Len(t)} = Matching(t, pattern)
<1> DEFINE n == Len(t)
<1>1. n \in 0..Len(t)
  OBVIOUS
<1> HIDE DEF n
<1>2. PICK e \in n..Len(t) : Len(LineAt(t, n)) = e - n
  BY <1>1, LineEnds
<1>3. Len(LineAt(t, Len(t))) = 0
  BY <1>2 DEF n
<1>4. Len(t) \notin Matching(t, pattern)
  BY <1>3, EmptyLine DEF Matching
<1>. QED
  BY <1>4, StartsType

\* When grep has read a text whose lines fit its buffer to the end, it has
\* printed exactly the lines in which the pattern occurs, once each and in
\* order, wherever its reads cut the file.
THEOREM GrepFindsAlways == USpec => []GrepFinds
<1>1. UInv /\ GInv => GrepFinds
  <2> SUFFICES ASSUME UInv, GInv, NEW a \in PcbAddrs, prog[a].prog = "grep", prog[a].pc = "close"
               PROVE  LET text    == Text[read_dentry_by_name(prog[a].fname).inode_num]
                          found   == Matching(text, Pattern[prog[a].search])
                          printed == prog[a].printed
                      IN  Searchable(prog[a].junk, text) =>
                            /\ Len(printed) = Cardinality(found)
                            /\ \A start \in found :
                                 printed[Cardinality({s \in found : s <= start})]
                                   = LineAt(text, start)
    BY DEF GrepFinds, Searchable
  <2>1. a = cpu
    <3>1. SUFFICES ASSUME a # cpu PROVE FALSE
      OBVIOUS
    <3>2. prog[a] = none \/ Waits(prog[a])
      BY <3>1 DEF UInv, Callers
    <3>. QED
      BY <3>2 DEF none, Waits, ShellFrame
  <2>2. cpu # BootBlock
    BY <2>1, DistinctBlocks DEF PcbAddrs
  <2> DEFINE inode   == read_dentry_by_name(prog[a].fname).inode_num
             text    == Text[inode]
             pattern == Pattern[prog[a].search]
  <2>3. /\ prog[a].search \in Args \ {NoArg}
        /\ inode \in 0..inode_count - 1
        /\ Searchable(prog[a].junk, text) => Listed(prog[a].printed, text, pattern, Len(text))
    BY <2>1, <2>2 DEF GInv, GrepKnows
  <2>4. Len(pattern) \in Nat \ {0}
    BY <2>3, UserlandAssumption
  <2>5. Len(text) \in Nat
    BY <2>3, TextLen, ImageAssumption
  <2> HIDE DEF inode, text, pattern
  <2>6. {start \in Matching(text, pattern) : start < Len(text)} = Matching(text, pattern)
    BY <2>4, <2>5, NoneAtEnd
  <2>7. ASSUME Searchable(prog[a].junk, text)
        PROVE  /\ Len(prog[a].printed) = Cardinality(Matching(text, pattern))
               /\ \A start \in Matching(text, pattern) :
                    prog[a].printed[Cardinality({s \in Matching(text, pattern) : s <= start})]
                      = LineAt(text, start)
    BY <2>3, <2>6, <2>7 DEF Listed
  <2>. QED
    BY <2>7 DEF inode, text, pattern
<1>. QED
  BY <1>1, SpecGInv, PTL
=============================================================================
