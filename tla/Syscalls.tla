------------------------------ MODULE Syscalls ------------------------------
(***************************************************************************)
(* Processes and the ten system calls of student-distrib/syscalls.c.       *)
(*                                                                         *)
(* There is one processor.  A call gate is an interrupt gate, so a system  *)
(* call runs with interrupts disabled (terminal_read alone enables them,   *)
(* and no interrupt handler touches this state): one action is one call.   *)
(*                                                                         *)
(* A process has an 8 KB block of kernel memory with its PCB at the bottom *)
(* and its kernel stack growing down from the top.  The code finds "the    *)
(* current process" in three ways that are kept apart here: the variable   *)
(* curr_process, the block that holds the stack pointer, and the block     *)
(* named in the PCB that halt returns through.                             *)
(***************************************************************************)
EXTENDS FileArray

CONSTANTS
  NUM_MAX_PROCESSES, \* entries of pid_array (6)
  SysDepth,          \* bytes of kernel stack in use inside a system call
  Args, ArgLen,      \* argument strings and their lengths
  NoArg,             \* the empty argument string
  elf,               \* the inodes whose data starts with the ELF magic number
  Commands,          \* the command strings a program may pass to execute
  BootCommand,       \* the command string of the boot loop
  OpenNames,         \* the names a program may pass to open
  Counts,            \* the byte counts a program may pass to read and write
  Buffers,           \* the addresses a program may pass, NULL aside: where it
                     \* wants its bytes, or where its command string lies
  Garbage,           \* what a PCB may hold once a call has stored over it
  Statuses           \* the values a program may pass to halt

Pids == 0..NUM_MAX_PROCESSES-1

BASE_PROCESS_POSITION == 8388608
PROCESS_OFFSET        == 8192
C_4B                  == 4

\* The kernel's page, which holds the PCBs, and the size of one
KERNEL_START == 4194304
KERNEL_END   == 8388608
PCB_SIZE     == 292

\* A command string as strtok sees it: the first token (EmptyName if there is
\* none), whether a blank follows it, and the tokens after it, joined
Command == [name : Names, spaced : BOOLEAN, arg : Args]

ASSUME SyscallsAssumption ==
  /\ NUM_MAX_PROCESSES \in 1..500  \* the blocks fit the kernel's page
  /\ SysDepth \in 1..(PROCESS_OFFSET - C_4B)
  /\ NoArg \in Args /\ ArgLen \in [Args -> Nat] /\ ArgLen[NoArg] = 0
  /\ Commands \subseteq Command /\ BootCommand \in Command
  /\ OpenNames \subseteq Names
  /\ Counts \subseteq Int
  /\ Buffers \subseteq Nat \ {0}
  /\ Statuses \subseteq Nat

PcbAddr(pid)  == BASE_PROCESS_POSITION - (pid + 2) * PROCESS_OFFSET

\* Mutant: the stack is taken to start at the bottom of the block above
StackTop_next_block(pid) == BASE_PROCESS_POSITION - pid * PROCESS_OFFSET - C_4B
StackTop(pid) == BASE_PROCESS_POSITION - (pid + 1) * PROCESS_OFFSET - C_4B

\* Mutant: the mask of a 16 KB block
BlockOf_wide_mask(esp) == esp - (esp % 16384)

\* esp & ~PCB_MASK
BlockOf(esp) == esp - (esp % PROCESS_OFFSET)

\* The block of the stack that boot.S sets up and entry runs on
BootBlock == BASE_PROCESS_POSITION - PROCESS_OFFSET

PcbAddrs == {PcbAddr(pid) : pid \in Pids}
Blocks   == PcbAddrs \union {BootBlock}
NoBlock  == 0

PROG_NOT_ACTIVE == 0
PROG_ACTIVE     == 1

VARIABLES
  pid_array,    \* PROG_ACTIVE or PROG_NOT_ACTIVE for each process number
  curr_process, \* the process number that runs
  pcb,          \* the PCBs, by address
  tss_esp0,     \* tss.esp0, where a system call's stack starts
  user_page,    \* the process whose 4 MB page is mapped at 128 MB, or -1
  vidmapped,    \* whether page_directory[PAGE_VIDMAP] is present
  last,         \* whether strtok's static pointer is not NULL
  boot_command, \* the boot loop's string literal, which strtok writes into
  cpu,          \* the block of the context that has the processor
  waiting,      \* the block started by the execute suspended on each stack
  ret,          \* the call that returned last, its value and the bytes it
                \* stored past the end of the caller's buffer
  machine       \* "up", "spin", "panic" or "overwritten"

kernelVars == <<pid_array, curr_process, pcb, tss_esp0, user_page, vidmapped,
                last, boot_command>>
vars == <<kernelVars, cpu, waiting, ret, machine>>

PCB == [file_array : [Fds -> Slot], parent_num : Pids, parent_esp : Nat, arg : Args]

ASSUME GarbageAssumption == Garbage \subseteq PCB

CallNames == {"none", "execute", "read", "write", "open", "close",
              "getargs", "vidmap", "invalid"}

TypeOK ==
  /\ pid_array \in [Pids -> {PROG_NOT_ACTIVE, PROG_ACTIVE}]
  /\ curr_process \in Pids
  /\ pcb \in [PcbAddrs -> PCB]
  /\ tss_esp0 \in {BASE_PROCESS_POSITION} \union {StackTop(p) : p \in Pids}
  /\ user_page \in Pids \union {-1}
  /\ vidmapped \in BOOLEAN
  /\ last \in BOOLEAN
  /\ boot_command \in Command
  /\ cpu \in Blocks
  /\ waiting \in [Blocks -> PcbAddrs \union {NoBlock}]
  /\ ret \in [call : CallNames, val : Int, over : Nat]
  /\ machine \in Machine

\* Memory that no execute has initialised: all zeros, and zero is FILE_OCCUP
unset == [file_array |-> [fd \in Fds |-> [blank EXCEPT !.flags = FILE_OCCUP]],
          parent_num |-> 0, parent_esp |-> 0, arg |-> NoArg]

Init ==
  /\ pid_array = [p \in Pids |-> PROG_NOT_ACTIVE]
  /\ curr_process = 0
  /\ pcb = [a \in PcbAddrs |-> unset]
  /\ tss_esp0 = BASE_PROCESS_POSITION
  /\ user_page = -1
  /\ vidmapped = FALSE
  /\ last = FALSE
  /\ boot_command = BootCommand
  /\ cpu = BootBlock
  /\ waiting = [b \in Blocks |-> NoBlock]
  /\ ret = [call |-> "none", val |-> 0, over |-> 0]
  /\ machine = "up"

----------------------------------------------------------------------------

\* The stack pointer inside a system call.  The boot loop calls execute
\* directly; a program enters through INT 0x80, which switches to tss.esp0.
kesp == (IF cpu = BootBlock THEN BASE_PROCESS_POSITION ELSE tss_esp0) - SysDepth

getCurrentProcessPCB == BlockOf(kesp)

Returned(call, val) == [call |-> call, val |-> val, over |-> 0]

\* Mutant: only the running process is known to be active
FreePids_not_current == {p \in Pids : p # curr_process}

\* Mutant: the loop looks one entry past the array
FreePids_past_end ==
  {p \in 0..NUM_MAX_PROCESSES : p \in Pids => pid_array[p] = PROG_NOT_ACTIVE}

FreePids == {p \in Pids : pid_array[p] = PROG_NOT_ACTIVE}

\* The lowest free number; the caller marks it active
get_next_process_number ==
  CHOOSE p \in FreePids : \A q \in FreePids : p <= q

----------------------------------------------------------------------------
(* execute *)

\* The null pointer, a record no string has: no token, yet a blank after it
NULL == [name |-> EmptyName, spaced |-> TRUE, arg |-> NoArg]

\* strtok(NULL, " ") goes on where the previous call stopped: if that call
\* did not reach the end of its string, this is memory that belongs to
\* somebody else by now, and may hold any string
Denotes(command) == IF command = NULL /\ last THEN Commands ELSE {command}

\* strtok keeps a pointer to what follows the first token
strtok_last(c) == c.name # EmptyName /\ c.spaced

\* All the checks that come before a process number is taken
Refused(c) ==
  LET dentry == read_dentry_by_name(c.name)
  IN  \/ c.name = EmptyName
      \/ NameLen[c.name] >= FILENAME_LEN - 1
      \/ dentry = NoDentry
      \/ dentry.filetype # FILE_TYPE_FILE
      \/ read_data(dentry.inode_num, 0, 4) # 4
      \/ dentry.inode_num \notin elf

Loads(c) ==
  LET inode == read_dentry_by_name(c.name).inode_num
  IN  read_data(inode, 0, flength(inode)) = flength(inode)

ExecuteRefused(c) ==
  /\ Refused(c)
  /\ last' = strtok_last(c)
  /\ ret' = Returned("execute", -1)
  /\ UNCHANGED <<pid_array, curr_process, pcb, tss_esp0, user_page, cpu, waiting>>

ExecuteFull(c) ==
  /\ ~Refused(c)
  /\ FreePids = {}
  /\ last' = FALSE
  /\ ret' = Returned("execute", 256)
  /\ UNCHANGED <<pid_array, curr_process, pcb, tss_esp0, user_page, cpu, waiting>>

\* The page is mapped back, the process number is not given back
ExecuteLoadFailed(c) ==
  /\ ~Refused(c)
  /\ FreePids # {}
  /\ ~Loads(c)
  /\ last' = FALSE
  /\ pid_array' = [pid_array EXCEPT ![get_next_process_number] = PROG_ACTIVE]
  /\ user_page' = curr_process
  /\ ret' = Returned("execute", -1)
  /\ UNCHANGED <<curr_process, pcb, tss_esp0, cpu, waiting>>

ExecuteStarted(c) ==
  LET next_process == get_next_process_number
      child        == PcbAddr(next_process)
  IN  /\ ~Refused(c)
      /\ FreePids # {}
      /\ Loads(c)
      /\ last' = FALSE
      /\ pid_array' = [pid_array EXCEPT ![next_process] = PROG_ACTIVE]
      /\ user_page' = next_process
      /\ tss_esp0' = StackTop(next_process)
      /\ pcb' = [pcb EXCEPT ![child] = [file_array |-> init_file_array,
                                        parent_num |-> curr_process,
                                        parent_esp |-> kesp,
                                        arg        |-> c.arg]]
      /\ curr_process' = next_process
      /\ waiting' = [waiting EXCEPT ![getCurrentProcessPCB] = child]
      /\ cpu' = child
      /\ UNCHANGED ret

execute(command) ==
  /\ \E c \in Denotes(command) :
        \/ ExecuteRefused(c)
        \/ ExecuteFull(c)
        \/ ExecuteLoadFailed(c)
        \/ ExecuteStarted(c)
  /\ UNCHANGED <<vidmapped, machine>>

\* entry's loop.  strtok cuts the string literal at its first blank, so the
\* first token is all that the loop passes from then on.
BootLoop ==
  /\ machine = "up"
  /\ cpu = BootBlock
  /\ execute(boot_command)
  /\ boot_command' = [boot_command EXCEPT !.spaced = FALSE, !.arg = NoArg]

----------------------------------------------------------------------------
(* The calls of a running program *)

Running == machine = "up" /\ cpu # BootBlock

(***************************************************************************)
(* read, getargs and execute store through the pointer they are given,     *)
(* unchecked and with the kernel's rights.  n bytes stored at buf reach    *)
(* the kernel's page, also when other pages lie before it.  Then the PCBs  *)
(* they hit hold garbage, and where the kernel goes from there is not      *)
(* modelled.  (An address that is not mapped faults: Exception.)           *)
(***************************************************************************)
Reaches(buf, n) == buf < KERNEL_END /\ buf + n > KERNEL_START

PcbsHit(buf, n) == {a \in PcbAddrs : buf < a + PCB_SIZE /\ buf + n > a}

Overwrite(buf, n) ==
  /\ \E junk \in Garbage :
        pcb' = [a \in PcbAddrs |-> IF a \in PcbsHit(buf, n) THEN junk ELSE pcb[a]]
  /\ machine' = "overwritten"
  /\ UNCHANGED <<pid_array, curr_process, tss_esp0, user_page, vidmapped, last,
                 boot_command, cpu, waiting, ret>>

\* strtok stores a NUL over the blank that ends the first token
Execute(command) ==
  LET blank_at(buf) == buf + NameLen[command.name]
      kernel == {buf \in Buffers : /\ command # NULL /\ strtok_last(command)
                                   /\ Reaches(blank_at(buf), 1)}
  IN  /\ Running
      /\ \/ \E buf \in kernel : Overwrite(blank_at(buf), 1)
         \/ Buffers \ kernel # {} /\ execute(command) /\ UNCHANGED boot_command

\* Mutant: halt does not give the process number back
Halt_keeps_pid(status) ==
  LET current_pcb == pcb[PcbAddr(curr_process)]
      parent      == BlockOf(current_pcb.parent_esp)
  IN  /\ Running
      /\ user_page' = current_pcb.parent_num
      /\ tss_esp0' = StackTop(current_pcb.parent_num)
      /\ curr_process' = current_pcb.parent_num
      /\ cpu' = parent
      /\ waiting' = [waiting EXCEPT ![parent] = NoBlock]
      /\ ret' = Returned("execute", status % 256)
      /\ UNCHANGED <<pid_array, pcb, vidmapped, last, boot_command, machine>>

\* return_to_execute loads the saved stack pointer and passes the status in
\* %al: the execute whose frame is there returns it
Halt(status) ==
  LET current_pcb == pcb[PcbAddr(curr_process)]
      parent      == BlockOf(current_pcb.parent_esp)
  IN  /\ Running
      /\ user_page' = current_pcb.parent_num
      /\ tss_esp0' = StackTop(current_pcb.parent_num)
      /\ pid_array' = [pid_array EXCEPT ![curr_process] = PROG_NOT_ACTIVE]
      /\ curr_process' = current_pcb.parent_num
      /\ cpu' = parent
      /\ waiting' = [waiting EXCEPT ![parent] = NoBlock]
      /\ ret' = Returned("execute", status % 256)
      /\ UNCHANGED <<pcb, vidmapped, last, boot_command, machine>>

\* A call on descriptors returns with the outcome o of a FileArray operator
FileCall(call, o) ==
  /\ pcb' = [pcb EXCEPT ![getCurrentProcessPCB].file_array = o.fa]
  /\ ret' = [call |-> call, val |-> o.ret, over |-> o.over]
  /\ machine' = o.machine
  /\ UNCHANGED <<pid_array, curr_process, tss_esp0, user_page, vidmapped, last,
                 boot_command, cpu, waiting>>

file_array == pcb[getCurrentProcessPCB].file_array

Open(filename) == Running /\ FileCall("open", open(file_array, filename))

Close(fd) == Running /\ FileCall("close", close(file_array, fd))

Read(fd, nbytes) ==
  /\ Running
  /\ \E buf \in Buffers, typed \in 0..MAX_INPUT_CHARS, ticked \in BOOLEAN :
        LET n == bytes_stored(file_array, fd, nbytes, typed)
        IN  IF n > 0 /\ Reaches(buf, n)
            THEN Overwrite(buf, n)
            ELSE FileCall("read", read(file_array, fd, nbytes, typed, ticked))

Write(fd, nbytes) ==
  /\ Running
  /\ \E strlen \in 0..MAX_INPUT_CHARS :
        FileCall("write", write(file_array, fd, nbytes, strlen))

\* strcpy stores the terminating NUL, which the size check does not count
getargs(arg, nbytes) ==
  IF arg = NoArg \/ nbytes < ArgLen[arg]
  THEN Returned("getargs", -1)
  ELSE [call |-> "getargs", val |-> 0,
        over |-> IF nbytes < ArgLen[arg] + 1 THEN 1 ELSE 0]

Getargs(nbytes) ==
  LET arg == pcb[getCurrentProcessPCB].arg
      o   == getargs(arg, nbytes)
  IN  /\ Running
      /\ \E buf \in Buffers :
            IF o.val = 0 /\ Reaches(buf, ArgLen[arg] + 1)
            THEN Overwrite(buf, ArgLen[arg] + 1)
            ELSE ret' = o /\ UNCHANGED <<kernelVars, cpu, waiting, machine>>

\* inRange: whether the pointer lies in the program's page
Vidmap(inRange) ==
  /\ Running
  /\ vidmapped' = (vidmapped \/ inRange)
  /\ ret' = Returned("vidmap", IF inRange THEN 0 ELSE -1)
  /\ UNCHANGED <<pid_array, curr_process, pcb, tss_esp0, user_page, last,
                 boot_command, cpu, waiting, machine>>

\* A number outside 1..10, set_handler or sigreturn
Invalid ==
  /\ Running
  /\ ret' = Returned("invalid", -1)
  /\ UNCHANGED <<kernelVars, cpu, waiting, machine>>

\* Whether the boot loop's execute reads outside the data blocks
BootStrays ==
  LET dentry == read_dentry_by_name(boot_command.name)
  IN  /\ dentry.filetype = FILE_TYPE_FILE
      /\ Strays(dentry.inode_num, 0, flength(dentry.inode_num))

\* Every exception handler shows the blue screen and stops the machine.  A
\* program may fault at any time, in its own code or in that of a call.
Exception ==
  /\ machine = "up"
  /\ cpu # BootBlock \/ BootStrays
  /\ machine' = "panic"
  /\ UNCHANGED <<kernelVars, cpu, waiting, ret>>

Stopped == machine # "up" /\ UNCHANGED vars

Next ==
  \/ BootLoop
  \/ \E command \in Commands \union {NULL} : Execute(command)
  \/ \E status \in Statuses : Halt(status)
  \/ \E filename \in OpenNames : Open(filename)
  \/ \E fd \in -1..NUM_MAX_OPEN_FILES :
        \/ Close(fd)
        \/ \E nbytes \in Counts : Read(fd, nbytes) \/ Write(fd, nbytes)
  \/ \E nbytes \in Counts : Getargs(nbytes)
  \/ \E inRange \in BOOLEAN : Vidmap(inRange)
  \/ Invalid
  \/ Exception
  \/ Stopped

Spec == Init /\ [][Next]_vars

\* entry's loop goes on whenever it has the processor
FairSpec == Spec /\ WF_vars(BootLoop)

----------------------------------------------------------------------------
(* Properties *)

\* The contexts that run or are suspended
Live == {b \in Blocks : b = cpu \/ waiting[b] # NoBlock}

\* The three notions of "current process" agree whenever a program runs: the
\* number halt uses, the PCB that open, close, read, write and getargs find
\* from the stack pointer, and the program page that is mapped.
Coherent ==
  \A p \in Pids : cpu = PcbAddr(p) =>
     /\ curr_process = p
     /\ user_page = p
     /\ getCurrentProcessPCB = cpu
     /\ pid_array[p] = PROG_ACTIVE

\* The suspended executes form a call stack.  The PCB of the process that an
\* execute started names the stack and the process number to return to, the
\* caller's number stays reserved, the callee is itself running or suspended,
\* and every program that is so has a caller to halt to.  This goes for
\* programs that pass no address of the kernel's page.
CallStack == machine # "overwritten" =>
  /\ waiting[cpu] = NoBlock
  /\ \A b \in Blocks : waiting[b] # NoBlock =>
        /\ waiting[b] \in Live
        /\ BlockOf(pcb[waiting[b]].parent_esp) = b
        /\ \A p \in Pids : b = PcbAddr(p) =>
              pcb[waiting[b]].parent_num = p /\ pid_array[p] = PROG_ACTIVE
  /\ \A a \in Live \ {BootBlock} : \E b \in Blocks : waiting[b] = a

\* execute and halt nest like calls: halt resumes the very execute that
\* started the process, and a process number is never given to a second
\* process while the first runs or waits.
Nested == INSTANCE Calls WITH Ctx <- Blocks, Root <- BootBlock, None <- NoBlock,
                              running <- cpu, callee <- waiting
NestedCalls == Nested!Spec

\* A system call changes no PCB but the caller's own and that of the process
\* it starts, which belonged to no live process.  Only by passing an address
\* in or below the kernel's page can a program have another one overwritten.
Isolation ==
  [][\A a \in PcbAddrs : pcb'[a] # pcb[a] =>
        \/ a = cpu
        \/ a = cpu' /\ a \notin Live
        \/ machine' = "overwritten" /\ \E buf \in Buffers : buf < KERNEL_END]_vars

\* A descriptor that read, write and close dispatch on has the terminal's
\* operations if it is stdin or stdout and a file's or a directory's
\* otherwise.  The RTC's, which take other parameters than the dispatchers
\* pass, are never called, so no call hangs with interrupts disabled.
Usable == machine # "overwritten" =>
  /\ machine # "spin"
  /\ \A a \in Live \ {BootBlock}, fd \in Fds :
        LET f == pcb[a].file_array[fd]
        IN  f.flags = FILE_OCCUP =>
              f.file_ops_table_ptr \in
                 IF fd < 2 THEN {"terminal"} ELSE {"file", "directory"}

\* Every block of the file exists
Intact(inode) ==
  /\ inode < inode_count
  /\ \A k \in 0..(flength(inode) \div NUM_B_IN_FOUR_KB) :
        inodes[inode].data_block_num[k] < data_count

\* The position of an open file never passes the end of the file, nor that
\* of a directory the last entry, unless a block of the file is missing:
\* file_read then adds the error code -1 to the position.
PositionWithinFile == machine # "overwritten" =>
  \A a \in Live \ {BootBlock}, fd \in Fds :
     LET f == pcb[a].file_array[fd]
     IN  f.flags = FILE_OCCUP =>
           /\ f.file_ops_table_ptr = "file" /\ Intact(f.inode_num) =>
                 f.file_position <= flength(f.inode_num)
           /\ f.file_ops_table_ptr = "directory" => f.file_position <= NUM_FILES

\* Whenever the last program halts, the boot loop gets a shell started again:
\* a process number is left for it whatever was executed before.
Restarts == cpu = BootBlock ~> cpu # BootBlock
=============================================================================
