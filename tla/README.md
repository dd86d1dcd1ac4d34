# CheetOS in TLA+

CheetOS (`src/student-distrib`) is a small single-processor x86 kernel: a read-only file
system, up to six processes that nest like calls, ten system calls behind `INT 0x80`, a keyboard
and text-screen terminal and a real-time clock; `src/syscalls` holds the programs that run on it and
`src/fish` an animation. This directory holds TLA+ models of it, the TLC
runs that check them and TLAPS proofs of what matters most.

Run a model with `tlc -config X.cfg M` (the table below names X and M) and check the proofs with
`tlapm M.tla` for each module M whose name ends in `Proof`.

## Inventory

| Component | State | Operations | Interacts with | What makes it hard |
|---|---|---|---|---|
| Processes, system calls (`syscalls.c`, `pcb.h`, `interr.S`) | `pid_array`, `curr_process`, one PCB and kernel stack per process at computed addresses, `tss.esp0`, the mapped program page | `execute`, `halt`, `open`, `close`, `read`, `write`, `getargs`, `vidmap`, `set_handler`, `sigreturn` | file system (loading), paging, terminal | the current process is found in three ways; `halt` jumps through saved stack pointers; failure half way through `execute`; process numbers run out |
| File system (`filesys.c`) | the image (boot block, inodes, data blocks), never written | `read_dentry_by_name/_index`, `read_data`, `flength` | called by descriptors and `execute` | nested copy loop with three bounds; blocks that do not exist; names of 32 characters |
| Descriptors (`filesys.c`, `syscalls.c`) | `file_array` in the PCB: operations table, inode, position, flag | the dispatchers and the four operations tables | file system, terminal, RTC | operations with other parameters behind one cast; -1 added to an unsigned position |
| Keyboard and line editor (`keyboard.c`, `terminal.c`) | modifiers, the one-key slot `pushed_key`, `getline`'s locals | `handle_charpress` (interrupt), `getchar`, `getline`, `terminal_read`, `terminal_write` | screen | the handler interleaves with `getchar`; modifiers released in any order |
| Screen (`lib.c`) | video memory, `screen_x`, `screen_y` | `putc`, `clear`, `set_cursor` | terminal, `printf` | wrapping, scrolling, erasing across rows |
| Library (`lib.c`) | `strtok`'s static `last`, the processor's direction flag | `memset*`, `memcpy`, `memmove`, the string functions, `strtok`, `itoa`, `printf` | everything | `last` outlives the string it points into; `memmove` leaves the direction flag set; alignment and remainders; formats that end early |
| Boot (`kernel.c`, `boot.S`) | boot stack, the literal passed to `execute` | the boot loop | `execute` | must always get a shell started again |
| Exceptions (`idt.c`) | none | 19 handlers: blue screen, stop | | |
| Paging (`paging.c`) | `page_directory`, two page tables, `cr0`, `cr4`, the TLB | `paging_init`, `update_page_directory`, `flush_tlb` | `execute`, `halt`, `vidmap` | stale translations; the caller's memory vanishes in the middle of `execute`; failure paths must map it back |
| RTC (`rtc.c`) | `intflag`, the chip's registers and index port | `rtc_init/open/read/write/close`, its interrupt | controller, descriptors | index port shared with the handler; a stale tick; waiting with interrupts off |
| Interrupt controller (`i8259.c`) | two masks and the chips' mask and in-service registers | `i8259_init`, `enable_irq`, `disable_irq`, `send_eoi` | all interrupts | cascade line shared by eight IRQs; EOI sent twice |
| User programs (`syscalls/*.c`) | their buffers, a descriptor or two | shell, cat, ls, grep, hello, testprint, counter, syserr, pingpong, sigtest | the kernel through system calls | loops that must end on errors; lines cut by reads; terminators behind buffers |
| fish (`fish/fish.c`, `fish/blink.S`) | `blink_array`, the list through it, the mapped screen | `add_frames`, the tasklet, the add, remove and sync calls | files, video memory | two files read side by side; location 0 means free; partial copies in assembly |

`PROJECT.json` lists the components with their status, and the hazards line by line.

## Modules

* **FileSys** - the image as constants (`direntries`, `inodes`, counts) and the pure functions that
  read it. A file name is an atomic value of which the code asks only its length (`NameLen`) and
  its first 32 characters (`Trunc`). `read_data` is stated by what it returns, how much it stores
  (`copied`) and whether it leaves the data blocks (`Strays`). Block numbers are signed, as in the
  code: a negative one in the image passes the comparison of `filesys.c:299`.
* **ReadData** - the loops of `read_data` step by step: `Start` (the checks and the first index),
  `Lookup` (one entry of `data_block_num`), `CopyByte`, `NextBlock`. `buf` holds for each byte
  stored the address it was copied from, so the properties speak of the right bytes, not only of
  their number. Addresses wrap around at `ADDRESSES`; an access outside the image, which only a
  negative block number leads to, either reads what is there or faults (`Fault`).
* **FileArray** - one process's descriptors. Each operator maps the array before a call to its
  outcome: the array after it, the value returned, the bytes stored past the caller's buffer and
  whether the machine goes on. `open` keeps the missing `break` of the C code (the RTC case falls
  into the file case). Positions are kept modulo `UINT_MOD`. `file_open`'s RTC branch calls
  `rtc_open`, which only programs the clock.
* **Calls** - the abstract specification: one context runs, calls an idle one and is suspended
  until that very one returns.
* **Syscalls** - the processes and all ten calls; one action is one system call, because
  a call runs behind an interrupt gate (interrupts off; `terminal_read` turns them on, but no
  interrupt handler touches this state) and there is no scheduler. Addresses are the code's own:
  `PcbAddr`, `StackTop` and `BlockOf` (the mask of `getCurrentProcessPCB`) compute them with the
  constants of `syscalls.h`, so that agreement between the three notions of the current process
  is something to prove and not an assumption. `cpu` and `waiting` (which execute is suspended on
  which stack) stand for the stack contents. `execute` is split by outcome: `ExecuteRefused`, `ExecuteFull`,
  `ExecuteLoadFailed`, `ExecuteStarted`. `Denotes` says what `execute(NULL)` finds through
  `strtok`'s static pointer: nothing, or any command, since the memory it points into has been
  reused. `BootLoop` is the loop of `entry`, whose literal `strtok` cuts the first time. `read`,
  `getargs` and `execute` store through a pointer of the program's (`buf`, out of `Buffers`) that
  nobody checks. When the bytes reach the kernel's page, `Overwrite` puts `Garbage` into the PCBs
  they hit and the machine is "overwritten": what the kernel does with a page changed under it is
  not followed further.
* **Terminal** - keyboard, line editor and screen. `handle_charpress` may run between any two
  steps of `getchar` (`getchar_poll`, `getchar_take`, `getchar_clear`) and `getline` while the
  interrupt flag `interrupts` is set: a system call starts with it cleared, and `terminal_read` sets
  it (`sti`).
  `terminal_write` runs with interrupts off and puts one character per step
  (`terminal_write_char`), `rest` holding what is left. `held` (the
  keys the user really holds) and `fresh` (whether the slot's key has not been copied yet) are
  history variables. Keys are one representative per class that the code tells apart: two
  letters, a digit with a shifted form, backspace, enter, escape, a key without translation. Both
  keys of control, alt and shift are there; the right-hand control and alt send the left-hand ones'
  codes after a prefix, which `handle_charpress` ignores.
* **Interrupts** - the two controllers, the clock and the interrupt flag. A routine of `rtc.c` or
  `i8259.c` is the sequence of its port accesses, and the processor executes one at a time
  (`Pic`, `Port`, `Flag`, `IfFlag`), so that an interrupt (`Interrupt`) may come between any two
  while `IF_flag` is set. All gates are interrupt gates: handlers do not nest. The chips are
  modelled by what the code relies on: masks, requests latched on a rising edge, in-service lines
  that hold back lower ones until their EOI, the slave behind line 2, ICW1 forgetting all of
  these; an index port, register C cleared when read, a line that stays up until then. `Init`
  and `boot` follow `entry` up to `sti`. Afterwards the routines are called in any order
  (`SystemCall`: `rtc_open` with interrupts off, as `file_open` does; `KernelCall`: with
  interrupts on, as `tests.c` does). A mask's update in memory and at the port is one step: no
  handler uses the masks.
* **Paging** - the memory under the processes. Syscalls switches the program page in one step; here
  `execute`, `halt` and `vidmap` are the stores to the directory, the flushes and the accesses
  between them (`execute_parse`, `execute_take`, `update_page_directory`, `flush_tlb`,
  `execute_load`, ...), and each access goes through `Translate`: the entry the processor has cached
  (`Cache` may cache any at any moment) or a walk of the tables. `paging_init` is split at `cr4` and
  `cr0`. `memory` keeps per frame which image it holds, the command string a program passes and
  the pointer `vidmap` stored; `asked` and `vidmapped` are history variables.
* **Lib** - the routines of `lib.c`, a step per turn of a loop, over byte-addressed memory.
  The direction flag and `strtok`'s pointer survive from one routine to the next. `ExecuteCall`,
  `FirstToken` and `NextToken` are the use `execute` makes of `strtok`, and `ExecuteAgain` the second
  one of the boot loop on the string the first has cut; this is what justifies `strtok_last` and
  `BootCommand` in Syscalls. `PrintfChar` and `PrintfConv` walk the format string as a NUL-terminated
  string; the conversions are `itoa` and `Padded`. Registers are `fr`.
* **Userland** - extends Syscalls: a program no longer makes any call but those of its `main`, one
  step per call, and branches on the result (`CatRead`, `LsRead`, `GrepLine`, ...). `prog` holds per
  process where it is and its locals. The calls are the actions of Syscalls themselves, so all of the
  kernel's failures come in. grep's buffer is kept character by character (`SearchLine`,
  `KeepRest`), with an arbitrary character for the byte behind it that it reads. syserr's tests are
  the calls they make with the value each must return.
* **Fish** - `fish.c` and `blink.S`: `add_frames` a character of each file at a time (`ReadChar`,
  `AddColumn`, `EndRow`), the list of cells in `blink_array`, `mp1_rtc_tasklet` a cell at a time, and
  main's add, sync and remove between its waiting loops. A frame file may have `missing` blocks, at
  which `read` returns -1, not 0. The clock is left out for the reason given under Observations.
* **MCSyscalls**, **MCReadData**, **MCTerminal**, **MCInterrupts**, **MCPaging**, **MCLib**,
  **MCUserland**, **MCFish** - values of the constants for TLC, and (in MCSyscalls) the properties
  that state what a comment claims.
* **SyscallsProof**, **ReadDataProof**, **PagingProof**, **TerminalProof**, **InterruptsProof**,
  **FishProof**, **UserlandProof**, **LibProof** - the proofs about the module each is named after;
  UserlandProof builds on SyscallsProof.

Operators named after another one with a suffix and marked "Mutant" are wrong variants of it
(`StackTop_next_block`, ...); no specification uses them. `PROJECT.json` pairs each with the
property that must notice it.

## Runs

| Run | Module, cfg | Question | Result |
|---|---|---|---|
| procs | MCSyscalls, Procs.cfg | processes: coherence, call stack, refinement of Calls, isolation up to unchecked pointers, restart | pass |
| files | MCSyscalls, Files.cfg | descriptors in one program | pass |
| read_data | MCReadData, ReadData.cfg | do the loops compute `read_data`, on images with missing blocks and negative block numbers too? | pass |
| terminal | MCTerminal, Terminal.cfg | line editor, screen, the handler's interleavings, and a read that hears the keyboard | pass |
| keyboard | MCTerminal, Keyboard.cfg | modifiers in every order | pass |
| interrupts | MCInterrupts, Interrupts.cfg | boot order, masks, split register accesses, EOI, waking `rtc_read` | pass |
| paging | MCPaging, Paging.cfg | mappings, confinement, images and the vidmap pointer across execute, halt, vidmap and stale translations | pass |
| userland | MCUserland, Userland.cfg | do the programs do what they are for, on this kernel, and does the prompt come back? | pass |
| lib | MCLib, Lib.cfg | memory, string and token routines and printf in any order | pass |
| fish | MCFish, Fish.cfg | frames, list, screen and end of the animation | pass |
| rtc_open | MCSyscalls, RtcOpen.cfg | is the descriptor `open("rtc")` returns occupied? | violated |
| pid_leak | MCSyscalls, PidLeak.cfg | does a failed `execute` leave `pid_array` alone? | violated |

The violated ones are disagreements between the code and a comment of the repository; "findings" in
`PROJECT.json` quotes both sides. `ReadsTheFile`, `ShowsAll`, `RoutinesRight`, `ListExact` and
`KernelMapped` are conjunctions: their parts, the type invariants of ReadData, Fish and Paging among
them, are defined and explained next to them.

## Observations

Met while modelling; the models behave this way, and no run is devoted to them.

Kernel:

* `execute(NULL)` calls `strtok(NULL, " ")`, which goes on from where an earlier, refused command left
  it (`syscalls.c:206`) and may find a program name there; `tests.c:833` expects -1.
* `getline` checks for `max` characters and then stores the terminator (`keyboard.c:232`, whose
  comment says "check reach to max - 1"): one byte past a buffer of `max`. `getargs`
  (`syscalls.c:324`) does the same, and `directory_read` (`filesys.c:196`) stores a whole name and its
  terminator whatever it is asked for. `BuffersSuffice` shows that no program of the repository is
  hit: those that read lines, names or arguments pass one less than they have, cat passes all of
  its buffer but reads no lines (and a directory's names fit it), and pingpong's read is refused.
* `read`, `getargs` and `execute` run with the kernel's rights and store at any address the program
  passes (`syscalls.c:92`, `syscalls.c:327`, `lib.c:597`; only NULL is refused, by some). A program
  that passes an address of the kernel's page has the call write over the PCB of another one, so
  `Isolation` names this as the one way, and `CallStack`, `Usable` and `PositionWithinFile` hold as
  long as it has not happened. The programs of the repository pass addresses of their own.
* `read_data` compares a signed block number with a signed count (`filesys.c:299`). A negative
  number in the image passes, and the bytes come from the inodes, the boot block or any other memory,
  or the copy faults. `ReadsTheFile` says that nothing else leads there.
* `disable_irq` of a slave line also masks line 2 of the master, which carries all eight
  (`i8259.c:105`): it would silence the clock. Nobody calls it.
* The eighth test of `rtc_write` assigns 256 instead of comparing (`rtc.c:107`): 512, 1024 and every
  invalid frequency give 256 Hz, and the error branch is dead.
* `pcb.h:21` calls `parent_num` 1-indexed with 0 for the root shell, but `execute` stores the
  0-indexed `curr_process`.
* `execute` returns 256 when no process number is left, which `ece391shell.c:30` reads as
  "program terminated by exception".
* With both shift keys held, the release of one clears `shift_stat` (`keyboard.c:84`), and the same
  goes for the two control and the two alt keys. `NoStuckModifier` therefore demands the flag only
  while both are held.
* The directory entry of `vidmap` survives the program's `halt`: later programs can write to the
  screen without asking. `UserConfined` allows just that and nothing more.
* `memmove` leaves the direction flag set (`lib.c:481`). No routine minds (`RoutinesRight`): all the others
  that use string instructions start with `cld`.
* The comments of `memset_word` and `memset_dword` call `n` a number of bytes (`lib.c:383`,
  `lib.c:403`) and, in the next lines, of locations; it is the latter, which `RoutinesRight` states.
* A format string that ends inside a directive sends `printf` past its NUL (`Printed` shows this is
  the only way); the kernel has none.

Programs:

* pingpong and fish never wait: `open("rtc")` returns a descriptor that stays free, so every `read` of it
  is refused at once, and neither looks at the result.
* cat shows a binary file up to its end, but the terminal shows each piece only to its first NUL.
* ls in a full directory ends with 3, since the read past the last entry fails instead of returning 0.
* grep gives up with 3 at the RTC's entry, at a name of 32 characters and at a file with a missing
  block: `GrepFinds` is about the files it gets to. When a line fills its buffer it looks at the byte
  of the stack behind it (`ece391grep.c:33`), and takes it for a line end if it is a newline.
* sigtest writes through a null pointer; the kernel has no signals, and the machine stops.
* fish: after the synchronisation the character is shown as off whatever its status, because the
  `cmovl` (`blink.S:282`) tests the sign flag after `testb`, which never sets it here. A character at
  location 0 would corrupt the list; the frames start at column 40 (`ListExact`). A frame file
  with a missing block does not end: `read` returns -1, which `add_frames` takes for a character and
  `file_read` adds to the position (`filesys.c:109`), so the byte before is read again, and so on
  for ever. Only if the first block is missing does the position wrap to the far end, and the file
  seems to end after the `'0'` that a row starts with. `Terminates` says that this is the
  one exception, `FramesAdded` is about files whose blocks are there.

What `interrupts` shows of the boot order is that it is right by a narrow margin: ICW1 opens every
line behind the back of `master_mask` and `slave_mask` (`i8259.c:28`), and it is `rtc_init`'s
`enable_irq(8)`, which writes both masks, that closes them before `sti`. Were it to write one mask
only, the first interrupt of a device without a handler would stop the machine in
`generic_error` (the mutant of `NoPanic`). And `rtc_handler` ends the clock's interrupt twice; with
interrupts off in handlers the second EOI finds nothing to end (`NothingInService`).

The RTC finding has a consequence worth knowing: `rtc_read` and `rtc_write` take
`(buf, nbytes)` while the dispatchers pass `(fd, buf, nbytes)`, and `rtc_read` polls with interrupts
off. Because the slot is left free the dispatchers refuse it first, so none of this happens
(`Usable`). Marking the slot occupied alone would hang the machine: that is the mutant of `Usable`.

**Bounds.** Procs: 3 processes (a caller, its caller, and the number that runs out), one free
descriptor, commands for each way `execute` can end, a buffer of the program's
and one that is the PCB of the first shell, 90,000 states. Files: one process, two free
descriptors (enough for aliasing and for running out), an image with every kind of entry, a file
of two blocks and one whose second block is missing, counts -1, 0, less than a block and more,
16 in place of 2^32 so that wrap-around happens. ReadData: two-byte
blocks, files of 0 to 3 blocks with the first, middle or last missing, negative numbers that lead to an
inode, the boot block, in front of the image and around the 64 addresses to a data block, all
offsets and lengths to one past the end. Terminal: a two by three screen that a three-character line wraps around and
scrolls. Keyboard: all modifiers and keys, with the smallest screen, one size
and one text, which the modifiers do not depend on. Interrupts: beside the clock
a keyboard, a device of higher priority than both on the master (0) and one on the slave (12), two
frequencies with different rates, disabling a master line and one out of range; the routines
are finite, so nothing else needs a bound, 88,000 states. Paging: tables of five entries, one for each
region the code maps (low memory, kernel, program, vidmap, 256 MB) with the four video pages inside
the first table, three processes, two programs (interchangeable, hence the symmetry), one cached
translation, which stands for any set of them since an access uses one: 458,000 states. Lib: areas
of up to 10 bytes at every alignment, overlapping both ways, strings to length 3, all command lines
to length 6 over a letter and the blank, a buffer they just fit, two-digit numbers with the largest,
the most negative and zero, all formats of up to two directives. Userland: three processes (shell,
shell, program), lengths scaled as MCUserland says so that lines, names and files cross the buffers'
ends, every program and every way its arguments can be wrong: 65,000 states. Fish: two by three
cells, all pairs of files of up to three characters and some that overrun row, screen and array or
have missing blocks. A frame that does not end is followed until its location no longer fits its field
(`InField`, `SHORT` = 64 in the run; `Overrun` stutters from there on, where the code would wrap to
location 0); no other frame gets that far, by `FishAssumption`.

**Fairness.** `FairSpec` adds weak fairness of `BootLoop`: the processor goes on executing the
loop of `entry` while it has it; programs need not halt. `Restarts` then says the loop succeeds
whenever it is reached. It does although failed loads leak process numbers: the boot loop is only
reached when the last shell's halt has just freed one. In Terminal and ReadData the processor goes
on executing `getchar`/`getline` and the copy loop (weak fairness of `Kernel` and `Step`);
interrupt handlers return. Users need not type (but see `Listens`). In Interrupts the processor goes on executing and
takes interrupts (weak fairness of `Step` and `Interrupt`), the clock ticks, and the caller gets its
turn between handlers (strong fairness of `CallerStep`): at 1024 Hz at most, a handler is over
long before the next tick. `TickWakes` is about behaviours in which the keyboard, which goes first, requests no
interrupt from some point on. That leaves out more than a keyboard that is never idle: whoever types now
and then for ever is left out as well, though each key only delays the clock. `Listens` assumes of the user, as its
hypothesis, what it needs: a key that counts under every modifier is pressed again and again as long as
interrupts are on (weak fairness of that press); it is then the kernel's part, the `sti`, that matters. In Userland the processor goes on with the program that has it
and the user ends the lines programs wait for (`Progress`; it is weak fairness written out, as the
steps are enabled exactly while the machine is up). In Fish the processor goes on with the program.

**Deadlock** is checked everywhere. A stopped machine (`Stopped`) and a finished `read_data`
(`Returned`) stutter explicitly.

## Proofs

Every theorem is stated for all values of the constants that the module's `ASSUME` allows; TLC
evaluates the assumptions in the runs. Each proof has its own inductive invariant `IInv`, with
`Init => IInv`, one lemma per action for `IInv /\ Next => IInv'`, and the properties as consequences.
Each `IInv` was checked with TLC on the run's instance before it was proved.

**SyscallsProof**, for every number of processes up to 500 (their blocks fit the kernel's page), every number
of descriptors, image, command set, set of addresses that programs pass and kernel stack depth below a block:

* `TypeCorrect`, `CoherentAlways`, `CallStackAlways`: the inductive invariant
  `IInv == TypeOK /\ Coherent /\ CallStack`, which is about a kernel not overwritten. `Coherent` alone is not inductive: `halt` loads
  `curr_process`, the page and the stack from its PCB, so one must know that the PCB names
  the suspended caller and that the caller's number is still reserved; that is `CallStack`.
* `Refinement`: `Spec => NestedCalls`, by `StepKinds`: every step keeps `cpu` and `waiting`, is a
  `Call` of an idle context or a `Return` to the caller.
* `IsolationAlways`: an action property from the same invariant and `FreshChild` (the process
  number `execute` takes belongs to no live process). `Overwrite` is the exception it states: the step
  needs a pointer below the end of the kernel's page.
* `UsableAlways` and `PositionWithinFileAlways`: inductions of their own on top of `IInv`. Both go
  through `StepArrays`: a step changes one process's descriptors, by one operation of FileArray.
  The second needs `ReadDataWithinFile`: a read that succeeds returns no more than is left.

The lemmas underneath: the address arithmetic (`StackInBlock`, `StackInBootBlock`,
`DistinctBlocks`), the least free slot exists (`LeastExists`), and the type of every descriptor
operation's outcome.

**ReadDataProof**, for every image, whatever the sign of its block numbers, and every block size, inode, offset
and length: `ReadsTheFileAlways`. The
property's parts `CopiesTheFile` and `Computes` are not inductive: one must know that the two indices
and the offset stay in step (`Position`) and that the blocks passed so far are not refused (`Found`). The
arithmetic stands before it: quotients by the block size are unique and bounded (`Divide`, `Quotient`,
`QuotientBound`; SyscallsProof, which extends another module, has its own copy).

**PagingProof**, for any number of processes and of table entries: `KernelMappedAlways`,
`UserConfinedAlways`, `ImagesKeptAlways`, `ScreenReachableAlways`. The invariant says what each directory
entry can be (`Tables`), that a cached translation agrees with the tables except for the program
page between the store and the flush (`Cached`), which process's frame the program page shows at each
step of `execute`, `halt` and `vidmap` (`Mapped`), that the command survives from the caller's memory to
the loader (`Commands`) and when the video map is complete (`VideoMap`).

**TerminalProof**, for every screen, every set of keys and every line length: `TypesKept`,
`ScreenShowsLineAlways`, `NoModifierSticks`, and the action property `KeysDeliveredOnce`. `ScreenShowsLine` is
inductive with the types: a lemma says what `putc` does to every cell with and without a scroll.
`NoStuckModifier` is inductive as it stands, because only a key that is held can be released: a release
leaves at most one key of its pair down (`ModifierFollows`).
`DeliveredOnce` needs that a key in the slot has not been copied except between getchar's copy and
its store (`Delivery`).

**InterruptsProof**, for every set of devices, frequencies and of lines that callers enable and disable:
`TypesKept`, `MasksAgreeAlways`, `RegistersKeptAlways`, `NothingInServiceAlways`, and `NoPanicAlways`
under the hypothesis that callers enable no device's line but the keyboard's (`OnlyKnownEnabled`; the kernel
itself enables lines 1 and 8 only, and without it `NoPanic` is false: enabling the timer's line stops the
machine at its first tick). The argument is about the instructions that are left: they keep
a discipline (`Disciplined`: a register is selected before every access and what is written
to it was read from it, a reset controller has its mask written later, `sti` comes last) and restore
the flags that are saved (`Balanced`). Both are proved of each routine once, by putting blocks
together (`ConcatBlock`), and are kept when the first instruction is taken away (`TailDisciplined`,
`TailBalanced`). The rest of `IInv` ties the state to the next instruction: while interrupts are or
may come on (`Exposed`), the next access to the clock has flags saved before it (`Nesting`), so
an interrupt never falls between a select and its access and the handler may select what it likes;
`Ready` and `Registers` say that what is about to be written is good and that what is not still to be
written has been written; `Masks` the same of the controllers' masks; `Handling` that every line in
service has its EOI still to come.

**FishProof**, for every screen, every length of the waiting loops and of a character's on and off times,
and every two frames short enough for a 16-bit location, whole or with missing blocks: `ListExactAlways`, `ScreenCurrentAlways`,
`InPhaseAlways`, `FramesAddedAlways`. The list is described by the sequence of its cells (`Chain`): distinct, linked in this
order, and all the cells in use. That the walk along `next` (`Nth`) visits just these is shown by the
least step at which it would not (`NthIs`), so nothing is proved about the recursion itself; adding in
front, unlinking anywhere and changing neither links nor locations each keep a `Chain` (`AddChain`,
`RemoveChain`, `SameChain`). `ListExact` also needs that no cell is added at location 0 or at one that
wraps to it: `Files` ties row and column to how far the files have been read. `InPhase` holds between
walks of the tasklet only; inside one it needs what each cell will be when the walk ends (`Due`), which
no step of the tasklet changes, and that equal cells stay equal over a tick (`BlinkSame`). `FramesAdded`
has an induction of its own, over the steps of `add_frames`, so none over the texts is needed: `Scanned`
says that as many newlines have been read of each file as `row` counts and that the last one is `col`
characters back (`Reached`), that a line or file that is over has nothing left in this row or below
(`RowEnds`, `TextEnds`), and that the cells in use are those of the visible positions before this one,
no more in number, so that `mp1_malloc` can only fail if there are more positions than cells (`Collected`).
Two facts about texts carry it: a longer part of a text with no more newlines has the same
ones (`MoreNewlines`), and so a row and column name one character (`OnePlace`).

**UserlandProof**, for every image, every set of command lines, every number of processes and every size of
the programs' buffers: `OnlySigtestFaultsAlways`, `SyserrPassesAlways`, `ShowsAllAlways`,
`BuffersSufficeAlways`, `GrepFindsAlways`. The invariant `UInv` adds to the kernel's `IInv` and `Usable` what a program
knows at each of its statements (`Frame`, made of `ShellFrame`, `CatFrame`, `LsFrame`, `GrepFrame`,
`SyserrFrame`, `PingpongFrame`, `SimpleFrame`): which entry its descriptor was opened for, how far it has
been read, and that the calls made so far had the results the source expects. So cat's output is as long as
its descriptor's position and every block before it exists (`CatFile`), ls's position is the
number of names it has written (`UsedBefore`), grep's inner descriptor, when it is occupied, is a
regular file's, so that a read never stores more than it asked for, and syserr's `err_open_lots` holds just
as many descriptors as it has opened (`Opened`). It speaks of the running program only, because a suspended one
is a shell: `Callers` says so, and that its locals are still the line it waits for. A lemma per kernel call
says what the call does to the descriptors a program depends on (`...Step`, `...Stays`); that no other
process's call disturbs them is `Isolation` once more. `Suffices` bounds what each operation stores past
its caller's buffer.

That grep prints the right lines needs a second invariant, `GInv`, about its buffer, for a text whose
lines fit the buffer. While grep reads and searches a file, the buffer holds from `line_start` on (from 0
before a read) the characters just before the descriptor's position (`Buffered`); where that part begins,
a line of the text starts or one ends that has been searched (`Edge`); and the lines printed are those that match and start
before it, in order (`Listed`). A turn of the loop either completes a line, which then is the text's own
(`LineComplete`: a newline, or the end of the file, which a read of 0 or one that leaves room in the buffer shows), or
moves an incomplete one to the front, where `strcpy` copies neither less nor more than its characters
(`Copied`, because the text holds no NUL and the byte at `line_end` was set to one). A line that fills the buffer is complete
only because the byte behind the buffer is not a newline and no line is longer. At the end `Listed` covers the whole text; a
line that would start behind the last character is empty and so does not match (`NoneAtEnd`).

**LibProof**, for every size of memory, every place, count and string, and whatever was called before:
`RoutinesRightAlways`. `LibInv` says of the routine that runs that it has done its part up to where it stands. For
`memset*`, `memcpy` and `memmove`, `Placed` ties the registers to the number of bytes still to be
stored (`Left`: `ecx` counts bytes, then words, `edx` the remainder) and the direction flag to the case that needs it, and
`Stored` says of every byte of memory what it holds now: what belongs there if it has been stored to (`Done`,
below the destination register or, when going down, above it), what was there before otherwise. That
is why an overlapping `memmove` finds its next source byte unharmed, in either direction; for `memcpy` it takes areas
that do not overlap (`Sound`). The flag is otherwise free, since each routine sets it or clears it itself. The
string routines have an invariant each: the characters copied so far (`Strcpy`), then the padding, with the old
string still behind it (`Strncpy`), the agreement before `i` (`Strncmp`), and for `strrev` where each character was
at first (`Turned`). `StrlenIs` turns these into what `strlen` and `StringAt` find.

Assumptions: `ImageAssumption`, `FileArrayAssumption`, `SyscallsAssumption`, and those of ReadData,
Paging, Terminal, Interrupts, Fish, Userland and Lib, evaluated by the runs of these modules. Lib's strings
consist of ASCII characters, as everything typed does: `strncmp` compares signed characters, and its sign would be another for the rest. Userland's is what the
programs take for granted of the image they are shipped in: its executables are these programs, `.` is a directory
and a name without a leading dot is none, `rtc` names the clock if anything, there is no `helloo` or `shel`
(syserr expects the opens of these to fail), a process has the eight descriptors of `syscalls.h`, and
the programs' buffers lie above the kernel's page and no file
has a negative block number, buffers hold a name or an argument with its terminator, an argument other than `NoArg` is not empty (getargs
fails without one), and newline is not NUL. `HALF` is a constant
because the provers are lost in 16-bit numerals; the run gives it its value, 2^15.

Only model-checked: the liveness properties (`Restarts`, `PickedUp`, `Listens`, `Terminates`, `TickWakes`,
`PromptReturns`), which are beyond the prover; and Lib's `CommandSplit` and `Printed`, whose promises
(`Joined`, the numerals, the screen of a whole format) are folds and recursive functions over sequences
of any length, so that their proof would be an induction over data. The disagreements of `rtc_open` and `pid_leak`
are counterexamples, not theorems.

## Not modelled

* `boot.S`, GDT, LDT, TSS and IDT setup (`x86_desc.*`, most of `idt.c`) and the multiboot printing of
  `kernel.c`: straight-line, run once; the order of initialisation is in Interrupts.
* `tests.c`: read as a statement of what the functions should do. `ece391emulate.c` (two copies):
  runs the programs on Linux, without this kernel. `debug.h`, `multiboot.h`, `types.h`: declarations.
* Code nobody calls: `remap_video`, `terminal()`, `getProcessPCB`, `get_kernel_stack_bottom`,
  `test_interrupts`, `mp1_ioctl_find`; the signal handlers of sigtest (`set_handler` is refused).
* What the kernel does after a call has stored over its page, NULL as an address (refused, or page 0
  faults), and commands longer than the 128 bytes `execute` has for arguments (`syscalls.c:237`): each
  depends on the layout the compiler chose.
* Negative block numbers in fish's frames and the programs' files (Userland): what the bytes in front
  of the data blocks are depends on the image.
* The make and break codes of shift that keyboards add around the arrow and editing keys.
* `puts` beyond the loop of `putc` it is; colours; register and stack contents other than the saved
  stack pointers.
* Of the clock, the time of day and its other interrupts; of the controllers, spurious interrupts
  (no line is lowered before it is acknowledged: the kernel reads register C and the keyboard's
  port in the handlers only).

## Plan

Done: every module of the plan, with proofs of all safety properties but two. What is left is those two, Lib's
`CommandSplit` and `Printed`, if a prover with induction over sequences becomes available.
