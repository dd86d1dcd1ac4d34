--------------------------- MODULE SyscallsProof ---------------------------
(***************************************************************************)
(* Proofs about Syscalls for every number of processes and descriptors,    *)
(* every image, every set of commands and every depth of the kernel stack  *)
(* that fits its block.                                                    *)
(***************************************************************************)
EXTENDS Syscalls, TLAPS, WellFoundedInduction

----------------------------------------------------------------------------
(* Division by the block size *)

LEMMA Divide ==
  ASSUME NEW x \in Nat
  PROVE  /\ x \div NUM_B_IN_FOUR_KB \in Nat
         /\ x % NUM_B_IN_FOUR_KB \in 0..NUM_B_IN_FOUR_KB - 1
         /\ x = (x \div NUM_B_IN_FOUR_KB) * NUM_B_IN_FOUR_KB + (x % NUM_B_IN_FOUR_KB)
<1> DEFINE N == NUM_B_IN_FOUR_KB
<1>1. N \in Nat /\ N > 0
  BY ImageAssumption
<1> HIDE DEF N
<1>2. x % N \in 0..N - 1
  BY <1>1
<1>3. x \div N \in Int /\ x = N * (x \div N) + (x % N)
  BY <1>1
<1>4. ~(x \div N <= -1)
  <2> SUFFICES ASSUME x \div N <= -1 PROVE FALSE
    OBVIOUS
  <2>1. N * (x \div N) <= N * (-1)
    BY <1>1, <1>3
  <2>. QED
    BY <1>1, <1>2, <1>3, <2>1
<1>5. N * (x \div N) = (x \div N) * N
  BY <1>1, <1>3
<1>. QED
  BY <1>2, <1>3, <1>4, <1>5 DEF N

\* A smaller multiple of the block size is smaller by a whole block
LEMMA Multiples ==
  ASSUME NEW a \in Nat, NEW b \in Nat, a < b
  PROVE  a * NUM_B_IN_FOUR_KB + NUM_B_IN_FOUR_KB <= b * NUM_B_IN_FOUR_KB
<1>1. NUM_B_IN_FOUR_KB \in Nat
  BY ImageAssumption
<1>2. PICK d \in Nat : b = a + 1 + d
  <2>1. b - a - 1 \in Nat /\ b = a + 1 + (b - a - 1)
    OBVIOUS
  <2>. QED
    BY <2>1
<1>3. b * NUM_B_IN_FOUR_KB = a * NUM_B_IN_FOUR_KB + NUM_B_IN_FOUR_KB + d * NUM_B_IN_FOUR_KB
  BY <1>1, <1>2
<1>4. d * NUM_B_IN_FOUR_KB \in Nat /\ a * NUM_B_IN_FOUR_KB \in Nat
  BY <1>1
<1>. QED
  BY <1>1, <1>3, <1>4

\* The block and the place in it determine the offset, and the other way round
LEMMA Quotient ==
  ASSUME NEW q \in Nat, NEW r \in 0..NUM_B_IN_FOUR_KB - 1, NEW x \in Nat,
         x = q * NUM_B_IN_FOUR_KB + r
  PROVE  x \div NUM_B_IN_FOUR_KB = q /\ x % NUM_B_IN_FOUR_KB = r
<1> DEFINE N == NUM_B_IN_FOUR_KB
           d == x \div N
           m == x % N
<1>1. d \in Nat /\ m \in 0..N - 1 /\ x = d * N + m /\ N \in Nat
  BY Divide, ImageAssumption
<1>2. d * N \in Nat /\ q * N \in Nat
  BY <1>1
<1> HIDE DEF d, m
<1>3. ~(d < q)
  <2> SUFFICES ASSUME d < q PROVE FALSE
    OBVIOUS
  <2>1. d * N + N <= q * N
    BY <1>1, Multiples
  <2>. QED
    BY <1>1, <1>2, <2>1
<1>4. ~(q < d)
  <2> SUFFICES ASSUME q < d PROVE FALSE
    OBVIOUS
  <2>1. q * N + N <= d * N
    BY <1>1, Multiples
  <2>. QED
    BY <1>1, <1>2, <2>1
<1>5. d = q
  BY <1>1, <1>3, <1>4
<1>6. m = r
  BY <1>1, <1>2, <1>5
<1>. QED
  BY <1>5, <1>6 DEF d, m

\* An offset that lies before the end of block q lies in block q or before
LEMMA QuotientBound ==
  ASSUME NEW q \in Nat, NEW x \in Nat, x < q * NUM_B_IN_FOUR_KB + NUM_B_IN_FOUR_KB
  PROVE  x \div NUM_B_IN_FOUR_KB <= q
<1> DEFINE N == NUM_B_IN_FOUR_KB
           d == x \div N
<1>1. d \in Nat /\ x % N \in 0..N - 1 /\ x = d * N + (x % N) /\ N \in Nat
  BY Divide, ImageAssumption
<1> HIDE DEF d
<1>2. SUFFICES ASSUME q < d PROVE FALSE
  BY <1>1 DEF d
<1>3. q * N + N <= d * N
  BY <1>1, <1>2, Multiples
<1>4. d * N \in Nat /\ q * N \in Nat
  BY <1>1
<1>. QED
  BY <1>1, <1>3, <1>4

\* A smaller offset lies in the same block or one before
LEMMA QuotientMonotone ==
  ASSUME NEW x \in Nat, NEW y \in Nat, x <= y
  PROVE  x \div NUM_B_IN_FOUR_KB <= y \div NUM_B_IN_FOUR_KB
<1> DEFINE N == NUM_B_IN_FOUR_KB
           d == y \div N
<1>1. d \in Nat /\ y % N \in 0..N - 1 /\ y = d * N + (y % N) /\ N \in Nat
  BY Divide, ImageAssumption
<1>2. d * N \in Nat
  BY <1>1
<1> HIDE DEF d
<1>3. x < d * N + N
  BY <1>1, <1>2
<1>. QED
  BY <1>1, <1>3, QuotientBound DEF d

----------------------------------------------------------------------------
(* The count returned *)

LEMMA ReadDataType ==
  ASSUME NEW inode \in Nat, NEW offset \in Nat, NEW length \in Nat
  PROVE  read_data(inode, offset, length) \in Int
<1>1. CASE inode >= inode_count
  BY <1>1 DEF read_data
<1>2. CASE ~(inode >= inode_count)
  <2>1. inode \in 0..inode_count-1
    BY <1>2, ImageAssumption
  <2>2. flength(inode) \in Nat
    BY <2>1, ImageAssumption DEF flength
  <2>3. Available(inode, offset, length) \in Int
    BY <2>2 DEF Available, Smaller
  <2>. QED
    BY <2>3 DEF read_data
<1>. QED
  BY <1>1, <1>2

\* When every block of the file exists, the count is not an error code and
\* does not lead past the end of the file
LEMMA ReadDataWithinFile ==
  ASSUME NEW inode \in Nat, NEW offset \in Nat, NEW length \in Nat,
         inode < inode_count,
         \A k \in 0..(flength(inode) \div NUM_B_IN_FOUR_KB) :
            inodes[inode].data_block_num[k] < data_count,
         offset <= flength(inode)
  PROVE  /\ read_data(inode, offset, length) \in Nat
         /\ offset + read_data(inode, offset, length) <= flength(inode)
<1> DEFINE len  == flength(inode)
           n    == Available(inode, offset, length)
           stop == IF n = 0 THEN offset ELSE offset + n - 1
<1>1. len \in Nat /\ inode_count \in Nat /\ data_count \in Int
  BY ImageAssumption DEF flength
<1>2. n \in Nat /\ offset + n <= len
  BY <1>1 DEF Available, Smaller
<1>3. CASE offset >= len
  BY <1>1, <1>3 DEF read_data
<1>4. CASE ~(offset >= len)
  <2> HIDE DEF len, n
  <2>1. stop \in Nat /\ stop <= len
    BY <1>1, <1>2, <1>4
  <2> HIDE DEF stop
  <2>2. /\ offset \div NUM_B_IN_FOUR_KB \in Nat
        /\ stop \div NUM_B_IN_FOUR_KB \in Nat
        /\ len \div NUM_B_IN_FOUR_KB \in Nat
        /\ stop \div NUM_B_IN_FOUR_KB <= len \div NUM_B_IN_FOUR_KB
    BY <1>1, <2>1, Divide, QuotientMonotone
  <2>3. Touched(inode, offset, length) =
          offset \div NUM_B_IN_FOUR_KB .. stop \div NUM_B_IN_FOUR_KB
    BY DEF Touched, stop, n
  <2>4. \A b \in Touched(inode, offset, length) :
          /\ b \in 0..(len \div NUM_B_IN_FOUR_KB)
          /\ inodes[inode].data_block_num[b] \in Int
    BY <2>2, <2>3, ImageAssumption DEF len, flength
  <2>5. Missing(inode, offset, length) = {}
    BY <1>1, <2>4 DEF Missing, len
  <2>6. read_data(inode, offset, length) = n
    BY <1>1, <1>4, <2>5 DEF read_data, len, n
  <2>. QED
    BY <1>2, <2>6 DEF len
<1>. QED
  BY <1>1, <1>3, <1>4

----------------------------------------------------------------------------
(* Addresses *)

\* A stack pointer inside a system call of process p masks to p's PCB
LEMMA StackInBlock ==
  ASSUME NEW p \in Pids
  PROVE  BlockOf(StackTop(p) - SysDepth) = PcbAddr(p)
<1>1. p \in 0..499 /\ SysDepth \in 1..8188
  BY SyscallsAssumption DEF Pids, PROCESS_OFFSET, C_4B
<1> DEFINE k == 1022 - p
           r == 8188 - SysDepth
<1>2. k \in Nat /\ r \in 0..8191
  BY <1>1
<1>3. StackTop(p) - SysDepth = k * 8192 + r /\ PcbAddr(p) = k * 8192
  BY <1>1, SMT DEF StackTop, PcbAddr, BASE_PROCESS_POSITION, PROCESS_OFFSET, C_4B
<1> HIDE DEF k, r
<1>4. (k * 8192 + r) % 8192 = r
  BY <1>2
<1>. QED
  BY <1>2, <1>3, <1>4 DEF BlockOf, PROCESS_OFFSET

\* and one inside the boot loop's execute to the boot stack's block
LEMMA StackInBootBlock ==
  BlockOf(BASE_PROCESS_POSITION - SysDepth) = BootBlock
BY SyscallsAssumption, SMT
DEF BlockOf, BootBlock, BASE_PROCESS_POSITION, PROCESS_OFFSET, C_4B

\* The blocks of two processes are distinct, and none is the boot stack's
LEMMA DistinctBlocks ==
  /\ \A p \in Pids : /\ PcbAddr(p) \in Nat \ {NoBlock, BootBlock}
                     /\ StackTop(p) \in Nat \ {BASE_PROCESS_POSITION}
  /\ \A p, q \in Pids : PcbAddr(p) = PcbAddr(q) => p = q
  /\ BootBlock \in Nat \ {NoBlock}
BY SyscallsAssumption, SMT
DEF Pids, PcbAddr, StackTop, BootBlock, NoBlock, BASE_PROCESS_POSITION, PROCESS_OFFSET, C_4B

----------------------------------------------------------------------------
(* The least element of a set of naturals, which the searches for a free   *)
(* slot and for a directory entry return                                   *)

LEMMA LeastExists ==
  ASSUME NEW S \in SUBSET Nat, S # {}
  PROVE  \E x \in S : \A y \in S : x <= y
<1>1. PICK x \in S : \A y \in S : ~ (<<y, x>> \in OpToRel(<, Nat))
  BY NatLessThanWellFounded, WFMin
<1>2. \A y \in S : ~ (y < x)
  BY <1>1 DEF OpToRel
<1>. QED
  BY <1>2

LEMMA NextFdType ==
  ASSUME NEW fa, FreeFds(fa) # {}
  PROVE  NextFd(fa) \in FreeFds(fa)
<1>1. FreeFds(fa) \in SUBSET Nat
  BY DEF FreeFds, Fds
<1>. QED
  BY <1>1, LeastExists DEF NextFd

LEMMA NextPidType ==
  ASSUME FreePids # {}
  PROVE  get_next_process_number \in FreePids
<1>1. FreePids \in SUBSET Nat
  BY DEF FreePids, Pids
<1>. QED
  BY <1>1, LeastExists DEF get_next_process_number

LEMMA DentryType ==
  ASSUME NEW fname \in Names
  PROVE  read_dentry_by_name(fname) \in Dentry
<1>1. NoDentry \in Dentry
  BY ImageAssumption DEF NoDentry, Dentry
<1>2. ASSUME Matches(fname) # {}
      PROVE  direntries[CHOOSE i \in Matches(fname) : \A j \in Matches(fname) : i <= j] \in Dentry
  <2>1. Matches(fname) \in SUBSET Nat
    BY ImageAssumption DEF Matches
  <2>2. (CHOOSE i \in Matches(fname) : \A j \in Matches(fname) : i <= j) \in Matches(fname)
    BY <1>2, <2>1, LeastExists
  <2>. QED
    BY <2>2, ImageAssumption DEF Matches
<1>. QED
  BY <1>1, <1>2 DEF read_dentry_by_name

----------------------------------------------------------------------------
(* Descriptors *)

\* What the operators of FileArray return
Outcomes == [fa : [Fds -> Slot], ret : Int, over : Nat, machine : Machine]

LEMMA SimpleOutcomes ==
  ASSUME NEW fa \in [Fds -> Slot], NEW n \in Int
  PROVE  Return(fa, n) \in Outcomes /\ Fail(fa) \in Outcomes
BY DEF Outcomes, Return, Fail, Outcome, Machine

LEMMA BlankType == blank \in Slot /\ init_file_array \in [Fds -> Slot]
<1>1. 0 \in 0..UINT_MOD-1
  BY FileArrayAssumption, ImageAssumption
<1>2. blank \in Slot /\ stdio \in Slot
  BY <1>1 DEF blank, stdio, Slot
<1>. QED
  BY <1>2 DEF init_file_array

LEMMA UnsignedType ==
  \A n \in Int : n % UINT_MOD \in 0..UINT_MOD-1
BY FileArrayAssumption, ImageAssumption

LEMMA FileOpenType ==
  ASSUME NEW fa \in [Fds -> Slot], NEW filename \in Names
  PROVE  file_open(fa, filename) \in Outcomes
<1> DEFINE dentry == read_dentry_by_name(filename)
           fd     == NextFd(fa)
<1>1. dentry.inode_num \in Nat
  BY DentryType DEF Dentry
<1>2. CASE FreeFds(fa) = {}
  BY <1>2, SimpleOutcomes DEF file_open
<1>3. CASE FreeFds(fa) # {}
  <2>1. fd \in Fds
    BY <1>3, NextFdType DEF FreeFds
  <2> HIDE DEF dentry, fd
  <2>2. [fa EXCEPT ![fd].file_ops_table_ptr = "rtc",
                  ![fd].inode_num = dentry.inode_num] \in [Fds -> Slot]
    BY <1>1, <2>1 DEF Slot
  <2>3. \A ops \in {"file", "directory"} :
          [fa EXCEPT ![fd] = [file_ops_table_ptr |-> ops, inode_num |-> dentry.inode_num,
                              file_position |-> 0, flags |-> FILE_OCCUP]] \in [Fds -> Slot]
    BY <1>1, <2>1, FileArrayAssumption, ImageAssumption DEF Slot
  <2>4. fd \in Int
    BY <2>1 DEF Fds
  <2>. QED
    BY <2>2, <2>3, <2>4, SimpleOutcomes DEF file_open, dentry, fd
<1>. QED
  BY <1>2, <1>3

LEMMA OpenType ==
  ASSUME NEW fa \in [Fds -> Slot], NEW filename \in Names
  PROVE  open(fa, filename) \in Outcomes
<1>1. file_open(fa, filename) \in Outcomes /\ Fail(fa) \in Outcomes
  BY FileOpenType, SimpleOutcomes
<1>2. file_open(file_open(fa, filename).fa, filename) \in Outcomes
  BY <1>1, FileOpenType DEF Outcomes
<1>. QED
  BY <1>1, <1>2 DEF open

LEMMA CloseType ==
  ASSUME NEW fa \in [Fds -> Slot], NEW fd \in Int
  PROVE  close(fa, fd) \in Outcomes
<1> DEFINE fa2 == [fa EXCEPT ![fd] = blank]
<1>1. fa2 \in [Fds -> Slot]
  BY BlankType
<1> HIDE DEF fa2
<1>2. /\ Return(fa2, 0) \in Outcomes
      /\ Return(fa, 0) \in Outcomes
      /\ Fail(fa) \in Outcomes
  BY <1>1, SimpleOutcomes
<1>. QED
  BY <1>2 DEF close, fa2

LEMMA FileReadType ==
  ASSUME NEW fa \in [Fds -> Slot], NEW fd \in Fds, NEW nbytes \in Int
  PROVE  file_read(fa, fd, nbytes) \in Outcomes
<1> DEFINE n == read_data(fa[fd].inode_num, fa[fd].file_position, Unsigned(nbytes))
<1>1. fa[fd].inode_num \in Nat /\ fa[fd].file_position \in Nat /\ Unsigned(nbytes) \in Nat
  BY UnsignedType DEF Slot, Unsigned
<1>2. n \in Int
  BY <1>1, ReadDataType
<1> HIDE DEF n
<1>3. (fa[fd].file_position + n) % UINT_MOD \in 0..UINT_MOD-1
  BY <1>1, <1>2, UnsignedType
<1>4. [fa EXCEPT ![fd].file_position = (@ + n) % UINT_MOD] \in [Fds -> Slot]
  BY <1>3 DEF Slot
<1>. QED
  BY <1>2, <1>4, SimpleOutcomes DEF file_read, n

LEMMA DirectoryReadType ==
  ASSUME NEW fa \in [Fds -> Slot], NEW fd \in Fds, NEW nbytes \in Int
  PROVE  directory_read(fa, fd, nbytes) \in Outcomes
<1> DEFINE index == fa[fd].file_position
           len   == Smaller(NameLen[direntries[index].filename], FILENAME_LEN)
           fa2   == [fa EXCEPT ![fd].file_position = (@ + 1) % UINT_MOD]
           over  == IF nbytes < len + 1 THEN len + 1 - nbytes ELSE 0
<1>1. index \in Nat
  BY DEF Slot
<1>2. fa2 \in [Fds -> Slot]
  <2>1. (fa[fd].file_position + 1) % UINT_MOD \in 0..UINT_MOD-1
    BY <1>1, UnsignedType
  <2>. QED
    BY <2>1 DEF Slot
<1>3. CASE index >= NUM_FILES
  BY <1>3, SimpleOutcomes DEF directory_read
<1>4. CASE ~(index >= NUM_FILES)
  <2>1. index \in 0..NUM_FILES-1
    BY <1>1, <1>4, ImageAssumption
  <2>2. len \in Nat
    BY <2>1, ImageAssumption DEF Dentry, Smaller
  <2> HIDE DEF len
  <2>3. over \in Nat
    BY <2>2
  <2> HIDE DEF over, fa2, index
  <2>4. Outcome(fa2, len, over, "up") \in Outcomes
    BY <1>2, <2>2, <2>3 DEF Outcome, Outcomes, Machine
  <2>. QED
    BY <1>4, <2>4 DEF directory_read, len, over, fa2, index
<1>. QED
  BY <1>3, <1>4

LEMMA ReadType ==
  ASSUME NEW fa \in [Fds -> Slot], NEW fd \in Int, NEW nbytes \in Int,
         NEW typed \in 0..MAX_INPUT_CHARS, NEW ticked \in BOOLEAN
  PROVE  read(fa, fd, nbytes, typed, ticked) \in Outcomes
<1>1. terminal_read(fa, fd, nbytes, typed) \in Outcomes
  <2> DEFINE len == Smaller(typed, Smaller(Unsigned(nbytes), MAX_INPUT_CHARS))
  <2>1. Unsigned(nbytes) \in Nat
    BY UnsignedType DEF Unsigned
  <2>2. len \in Nat
    BY <2>1, FileArrayAssumption DEF Smaller
  <2> HIDE DEF len
  <2>3. \A over \in {0, 1} : Outcome(fa, len, over, "up") \in Outcomes
    BY <2>2 DEF Outcome, Outcomes, Machine
  <2>. QED
    BY <2>3, SimpleOutcomes DEF terminal_read, len
<1>2. rtc_read(fa, ticked) \in Outcomes
  <2>1. Return(fa, 0) \in Outcomes /\ Outcome(fa, 0, 0, "spin") \in Outcomes
    BY SimpleOutcomes DEF Outcome, Outcomes, Machine
  <2>. QED
    BY <2>1 DEF rtc_read
<1>. QED
  BY <1>1, <1>2, SimpleOutcomes, FileReadType, DirectoryReadType DEF read

LEMMA WriteType ==
  ASSUME NEW fa \in [Fds -> Slot], NEW fd \in Int, NEW nbytes \in Int,
         NEW strlen \in 0..MAX_INPUT_CHARS
  PROVE  write(fa, fd, nbytes, strlen) \in Outcomes
<1>1. Unsigned(nbytes) \in Nat
  BY UnsignedType DEF Unsigned
<1>2. terminal_write(fa, fd, nbytes, strlen) \in Outcomes
  BY <1>1, SimpleOutcomes, FileArrayAssumption DEF terminal_write, Smaller
<1>3. Outcome(fa, -1, 0, "panic") \in Outcomes
  BY DEF Outcome, Outcomes, Machine
<1>. QED
  BY <1>2, <1>3, SimpleOutcomes DEF write

----------------------------------------------------------------------------
(* The inductive invariant.  Coherent alone is not inductive: halt trusts  *)
(* the PCB for the number, the page and the stack it goes back to, so what *)
(* the PCBs of the suspended processes say has to be part of it.           *)

IInv == TypeOK /\ Coherent /\ CallStack

LEMMA InitIInv == Init => IInv
<1> SUFFICES ASSUME Init PROVE IInv
  OBVIOUS
<1>1. unset \in PCB
  <2>1. [blank EXCEPT !.flags = FILE_OCCUP] \in Slot
    BY BlankType DEF Slot
  <2>2. 0 \in Pids /\ NoArg \in Args
    BY SyscallsAssumption DEF Pids
  <2>. QED
    BY <2>1, <2>2 DEF unset, PCB
<1>2. TypeOK
  <2>1. 0 \in Pids /\ BootCommand \in Command
    BY SyscallsAssumption DEF Pids
  <2>2. BootBlock \in Blocks
    BY DEF Blocks
  <2>3. vidmapped \in BOOLEAN /\ last \in BOOLEAN
    BY DEF Init
  <2>4. /\ ret \in [call : CallNames, val : Int, over : Nat]
        /\ machine \in Machine
    BY DEF Init, CallNames, Machine
  <2>5. /\ pid_array \in [Pids -> {PROG_NOT_ACTIVE, PROG_ACTIVE}]
        /\ pcb \in [PcbAddrs -> PCB]
        /\ waiting \in [Blocks -> PcbAddrs \union {NoBlock}]
    BY <1>1 DEF Init
  <2>. QED
    BY <2>1, <2>2, <2>3, <2>4, <2>5 DEF Init, TypeOK
<1>3. Coherent
  BY DistinctBlocks DEF Init, Coherent
<1>4. CallStack
  BY DEF Init, CallStack, Live, Blocks
<1>. QED
  BY <1>2, <1>3, <1>4 DEF IInv

\* The PCB that the running code finds from its stack pointer
LEMMA CurrentBlock ==
  ASSUME IInv
  PROVE  /\ getCurrentProcessPCB = cpu
         /\ kesp \in Nat
         /\ cpu # BootBlock => cpu \in PcbAddrs
<1>1. cpu # BootBlock => cpu \in PcbAddrs
  BY DEF IInv, TypeOK, Blocks
<1>2. CASE cpu = BootBlock
  BY <1>1, <1>2, StackInBootBlock, SyscallsAssumption, SMT
  DEF getCurrentProcessPCB, kesp, BASE_PROCESS_POSITION, PROCESS_OFFSET, C_4B
<1>3. CASE cpu # BootBlock
  <2>1. PICK p \in Pids : cpu = PcbAddr(p)
    BY <1>1, <1>3 DEF PcbAddrs
  <2>2. getCurrentProcessPCB = cpu
    BY <2>1 DEF IInv, Coherent
  <2>3. tss_esp0 \in Nat /\ tss_esp0 >= 8192
    BY SyscallsAssumption, SMT
    DEF IInv, TypeOK, StackTop, Pids, BASE_PROCESS_POSITION, PROCESS_OFFSET, C_4B
  <2>4. kesp \in Nat
    BY <1>3, <2>3, SyscallsAssumption DEF kesp, PROCESS_OFFSET, C_4B
  <2>. QED
    BY <1>1, <2>2, <2>4
<1>. QED
  BY <1>2, <1>3

\* The process number that execute takes belongs to no live process, and no
\* suspended execute waits for it
LEMMA FreshChild ==
  ASSUME IInv, machine = "up", FreePids # {}
  PROVE  LET n == get_next_process_number
         IN  /\ n \in Pids
             /\ PcbAddr(n) \in PcbAddrs
             /\ PcbAddr(n) \notin Live
             /\ \A b \in Blocks : waiting[b] # PcbAddr(n)
<1> DEFINE n == get_next_process_number
<1>1. n \in Pids /\ pid_array[n] = PROG_NOT_ACTIVE
  BY NextPidType DEF FreePids
<1> HIDE DEF n
<1>2. PcbAddr(n) \in PcbAddrs /\ PcbAddr(n) \in Blocks /\ PcbAddr(n) # NoBlock
  BY <1>1, DistinctBlocks DEF PcbAddrs, Blocks
<1>3. cpu # PcbAddr(n)
  BY <1>1 DEF IInv, Coherent, PROG_ACTIVE, PROG_NOT_ACTIVE
<1>4. waiting[PcbAddr(n)] = NoBlock
  BY <1>1, <1>2 DEF IInv, CallStack, PROG_ACTIVE, PROG_NOT_ACTIVE
<1>5. PcbAddr(n) \notin Live
  BY <1>3, <1>4 DEF Live
<1>6. \A b \in Blocks : waiting[b] # PcbAddr(n)
  BY <1>2, <1>5 DEF IInv, CallStack
<1>. QED
  BY <1>1, <1>2, <1>5, <1>6 DEF n

LEMMA StartedIInv ==
  ASSUME IInv, machine = "up", NEW c \in Command, ExecuteStarted(c),
         UNCHANGED <<vidmapped, machine>>, boot_command' \in Command
  PROVE  IInv'
<1> DEFINE n     == get_next_process_number
           child == PcbAddr(n)
<1>1. /\ n \in Pids
      /\ child \in PcbAddrs
      /\ child \in Blocks
      /\ child # BootBlock
      /\ child # NoBlock
      /\ child # cpu
      /\ waiting[child] = NoBlock
      /\ \A b \in Blocks : waiting[b] # child
  <2>1. FreePids # {}
    BY DEF ExecuteStarted
  <2>. QED
    BY <2>1, FreshChild, DistinctBlocks DEF Blocks, Live
<1>2. /\ getCurrentProcessPCB = cpu
      /\ kesp \in Nat
      /\ BlockOf(kesp) = cpu
  BY CurrentBlock DEF getCurrentProcessPCB
<1> DEFINE started == [file_array |-> init_file_array, parent_num |-> curr_process,
                       parent_esp |-> kesp, arg |-> c.arg]
<1>3. started \in PCB
  BY <1>2, BlankType DEF IInv, TypeOK, PCB, Command
<1> HIDE DEF n
<1>4. /\ pid_array' = [pid_array EXCEPT ![n] = PROG_ACTIVE]
      /\ user_page' = n
      /\ tss_esp0' = StackTop(n)
      /\ pcb' = [pcb EXCEPT ![child] = started]
      /\ curr_process' = n
      /\ waiting' = [waiting EXCEPT ![cpu] = child]
      /\ cpu' = child
      /\ last' = FALSE
      /\ ret' = ret
  BY <1>2 DEF ExecuteStarted, n
<1> HIDE DEF started
<1>5. TypeOK'
  <2>1. /\ pid_array' \in [Pids -> {PROG_NOT_ACTIVE, PROG_ACTIVE}]
        /\ pcb' \in [PcbAddrs -> PCB]
        /\ waiting' \in [Blocks -> PcbAddrs \union {NoBlock}]
    BY <1>1, <1>3, <1>4 DEF IInv, TypeOK
  <2>2. tss_esp0' \in {BASE_PROCESS_POSITION} \union {StackTop(p) : p \in Pids}
    BY <1>1, <1>4
  <2>. QED
    BY <1>1, <1>4, <2>1, <2>2 DEF IInv, TypeOK
<1>6. getCurrentProcessPCB' = child
  <2>1. kesp' = StackTop(n) - SysDepth
    BY <1>1, <1>4 DEF kesp
  <2>. QED
    BY <1>1, <2>1, StackInBlock DEF getCurrentProcessPCB
<1>7. Coherent'
  <2> SUFFICES ASSUME NEW p \in Pids, cpu' = PcbAddr(p)
               PROVE  /\ curr_process' = p
                      /\ user_page' = p
                      /\ getCurrentProcessPCB' = cpu'
                      /\ pid_array'[p] = PROG_ACTIVE
    BY DEF Coherent
  <2>1. p = n
    BY <1>1, <1>4, DistinctBlocks
  <2>. QED
    BY <1>1, <1>4, <1>6, <2>1 DEF IInv, TypeOK
<1>8. CallStack'
  <2>1. waiting'[cpu'] = NoBlock
    BY <1>1, <1>4 DEF IInv, TypeOK
  <2>2. ASSUME NEW b \in Blocks, waiting'[b] # NoBlock
        PROVE  /\ waiting'[b] \in Live'
               /\ BlockOf(pcb'[waiting'[b]].parent_esp) = b
               /\ \A p \in Pids : b = PcbAddr(p) =>
                     pcb'[waiting'[b]].parent_num = p /\ pid_array'[p] = PROG_ACTIVE
    <3>1. CASE b = cpu
      <4>1. waiting'[b] = child /\ pcb'[child] = started
        BY <1>1, <1>4, <3>1 DEF IInv, TypeOK
      <4>2. \A p \in Pids : b = PcbAddr(p) => curr_process = p /\ pid_array[p] = PROG_ACTIVE
        BY <3>1 DEF IInv, Coherent
      <4>. QED
        BY <1>1, <1>2, <1>4, <3>1, <4>1, <4>2 DEF started, Live, IInv, TypeOK
    <3>2. CASE b # cpu
      <4>1. waiting'[b] = waiting[b] /\ waiting[b] # child
        BY <1>1, <1>4, <3>2 DEF IInv, TypeOK
      <4>2. /\ waiting[b] \in Live
            /\ BlockOf(pcb[waiting[b]].parent_esp) = b
            /\ \A p \in Pids : b = PcbAddr(p) =>
                  pcb[waiting[b]].parent_num = p /\ pid_array[p] = PROG_ACTIVE
        BY <2>2, <4>1 DEF IInv, CallStack
      <4>3. waiting[b] \in PcbAddrs /\ pcb'[waiting[b]] = pcb[waiting[b]]
        BY <1>4, <2>2, <4>1 DEF IInv, TypeOK
      <4>4. \A p \in Pids : pid_array[p] = PROG_ACTIVE => pid_array'[p] = PROG_ACTIVE
        BY <1>4 DEF IInv, TypeOK
      <4>5. waiting[b] \in Live'
        BY <1>1, <1>4, <4>2 DEF Live, IInv, TypeOK
      <4>. QED
        BY <4>1, <4>2, <4>3, <4>4, <4>5
    <3>. QED
      BY <3>1, <3>2
  <2>3. ASSUME NEW a \in Live' \ {BootBlock}
        PROVE  \E b \in Blocks : waiting'[b] = a
    <3>1. CASE a = child
      BY <1>1, <1>4, <3>1 DEF IInv, TypeOK
    <3>2. CASE a # child
      <4>1. a \in Live \ {BootBlock}
        BY <1>1, <1>4, <2>3, <3>2 DEF Live, IInv, TypeOK
      <4>2. PICK b \in Blocks : waiting[b] = a
        BY <4>1 DEF IInv, CallStack
      <4>3. b # cpu
        BY <4>1, <4>2, DistinctBlocks DEF IInv, CallStack, Live, Blocks, PcbAddrs
      <4>. QED
        BY <1>4, <4>2, <4>3 DEF IInv, TypeOK
    <3>. QED
      BY <3>1, <3>2
  <2>. QED
    BY <2>1, <2>2, <2>3 DEF CallStack
<1>. QED
  BY <1>5, <1>7, <1>8 DEF IInv

\* A call that switches to no other context keeps the invariant if it frees
\* no process number, maps no page but the caller's and leaves what halt
\* reads in the PCBs alone
LEMMA StayIInv ==
  ASSUME IInv, TypeOK',
         UNCHANGED <<curr_process, tss_esp0, cpu, waiting>>,
         machine = "overwritten" => machine' = "overwritten",
         user_page' \in {user_page, curr_process},
         \A p \in Pids : pid_array[p] = PROG_ACTIVE => pid_array'[p] = PROG_ACTIVE,
         \A a \in PcbAddrs : /\ pcb'[a].parent_esp = pcb[a].parent_esp
                             /\ pcb'[a].parent_num = pcb[a].parent_num
  PROVE  IInv'
<1>1. Coherent'
  BY DEF IInv, Coherent, getCurrentProcessPCB, kesp
<1>2. Live' = Live
  BY DEF Live
<1>3. \A b \in Blocks : waiting[b] # NoBlock => waiting[b] \in PcbAddrs
  BY DEF IInv, TypeOK
<1>4. CallStack'
  BY <1>2, <1>3 DEF IInv, CallStack
<1>. QED
  BY <1>1, <1>4 DEF IInv

LEMMA ExecuteIInv ==
  ASSUME IInv, machine = "up", NEW command \in Command, execute(command),
         boot_command' \in Command
  PROVE  IInv'
<1>1. PICK c \in Denotes(command) :
         \/ ExecuteRefused(c) \/ ExecuteFull(c)
         \/ ExecuteLoadFailed(c) \/ ExecuteStarted(c)
  BY DEF execute
<1>2. c \in Command /\ UNCHANGED <<vidmapped, machine>>
  BY SyscallsAssumption DEF Denotes, execute
<1>3. CASE ExecuteRefused(c) \/ ExecuteFull(c)
  <2>1. UNCHANGED <<pid_array, curr_process, pcb, tss_esp0, user_page, cpu, waiting>>
    BY <1>3 DEF ExecuteRefused, ExecuteFull
  <2>2. last' \in BOOLEAN
    BY <1>3 DEF ExecuteRefused, ExecuteFull, strtok_last
  <2>3. ret' \in [call : CallNames, val : Int, over : Nat]
    BY <1>3 DEF ExecuteRefused, ExecuteFull, Returned, CallNames
  <2>4. TypeOK'
    BY <1>2, <2>1, <2>2, <2>3 DEF IInv, TypeOK
  <2>. QED
    BY <1>2, <2>1, <2>4, StayIInv
<1>4. CASE ExecuteLoadFailed(c)
  <2>1. get_next_process_number \in Pids
    BY <1>4, NextPidType DEF ExecuteLoadFailed, FreePids
  <2>2. UNCHANGED <<curr_process, pcb, tss_esp0, cpu, waiting>> /\ user_page' = curr_process
    BY <1>4 DEF ExecuteLoadFailed
  <2>3. /\ pid_array' \in [Pids -> {PROG_NOT_ACTIVE, PROG_ACTIVE}]
        /\ \A p \in Pids : pid_array[p] = PROG_ACTIVE => pid_array'[p] = PROG_ACTIVE
    BY <1>4, <2>1 DEF ExecuteLoadFailed, IInv, TypeOK
  <2>4. ret' \in [call : CallNames, val : Int, over : Nat]
    BY <1>4 DEF ExecuteLoadFailed, Returned, CallNames
  <2>5. last' \in BOOLEAN
    BY <1>4 DEF ExecuteLoadFailed
  <2>6. TypeOK'
    BY <1>2, <2>2, <2>3, <2>4, <2>5 DEF IInv, TypeOK
  <2>. QED
    BY <1>2, <2>2, <2>3, <2>6, StayIInv
<1>5. CASE ExecuteStarted(c)
  BY <1>2, <1>5, StartedIInv
<1>. QED
  BY <1>1, <1>3, <1>4, <1>5

\* A program that halts was started by an execute that waits for it, on the
\* stack and for the process number that its PCB names
LEMMA HaltTarget ==
  ASSUME IInv, Running
  PROVE  LET current_pcb == pcb[PcbAddr(curr_process)]
             parent      == BlockOf(current_pcb.parent_esp)
         IN  /\ cpu = PcbAddr(curr_process)
             /\ parent \in Blocks
             /\ parent # cpu
             /\ waiting[parent] = cpu
             /\ \A b \in Blocks : waiting[b] = cpu => b = parent
             /\ \A p \in Pids : parent = PcbAddr(p) =>
                   current_pcb.parent_num = p /\ pid_array[p] = PROG_ACTIVE
<1>1. cpu \in PcbAddrs /\ cpu # BootBlock /\ cpu # NoBlock
  BY CurrentBlock, DistinctBlocks DEF Running, PcbAddrs
<1>2. cpu = PcbAddr(curr_process)
  BY <1>1 DEF IInv, Coherent, PcbAddrs
<1>3. cpu \in Live
  BY DEF Live, IInv, TypeOK
<1>4. PICK b \in Blocks : waiting[b] = cpu
  BY <1>1, <1>3 DEF IInv, CallStack, Running
<1>5. \A d \in Blocks : waiting[d] = cpu => d = BlockOf(pcb[cpu].parent_esp)
  BY <1>1 DEF IInv, CallStack, Running
<1>6. b # cpu
  BY <1>1, <1>4 DEF IInv, CallStack, Running
<1>7. \A p \in Pids : b = PcbAddr(p) =>
        pcb[cpu].parent_num = p /\ pid_array[p] = PROG_ACTIVE
  BY <1>1, <1>4 DEF IInv, CallStack, Running
<1>. QED
  BY <1>2, <1>4, <1>5, <1>6, <1>7

LEMMA HaltIInv ==
  ASSUME IInv, NEW status \in Nat, Halt(status)
  PROVE  IInv'
<1>0. machine = "up"
  BY DEF Halt, Running
<1> DEFINE current_pcb == pcb[PcbAddr(curr_process)]
           q           == current_pcb.parent_num
           parent      == BlockOf(current_pcb.parent_esp)
<1>1. /\ cpu = PcbAddr(curr_process)
      /\ parent \in Blocks
      /\ parent # cpu
      /\ waiting[parent] = cpu
      /\ \A b \in Blocks : waiting[b] = cpu => b = parent
      /\ \A p \in Pids : parent = PcbAddr(p) => q = p /\ pid_array[p] = PROG_ACTIVE
  BY HaltTarget DEF Halt
<1>2. q \in Pids /\ curr_process \in Pids
  BY DEF IInv, TypeOK, PCB, PcbAddrs
<1>3. /\ user_page' = q
      /\ tss_esp0' = StackTop(q)
      /\ pid_array' = [pid_array EXCEPT ![curr_process] = PROG_NOT_ACTIVE]
      /\ curr_process' = q
      /\ cpu' = parent
      /\ waiting' = [waiting EXCEPT ![parent] = NoBlock]
      /\ ret' = Returned("execute", status % 256)
      /\ UNCHANGED <<pcb, vidmapped, last, boot_command, machine>>
  BY DEF Halt
<1> HIDE DEF current_pcb, q, parent
<1>4. TypeOK'
  <2>1. /\ pid_array' \in [Pids -> {PROG_NOT_ACTIVE, PROG_ACTIVE}]
        /\ waiting' \in [Blocks -> PcbAddrs \union {NoBlock}]
    BY <1>2, <1>3 DEF IInv, TypeOK
  <2>2. tss_esp0' \in {BASE_PROCESS_POSITION} \union {StackTop(p) : p \in Pids}
    BY <1>2, <1>3
  <2>3. ret' \in [call : CallNames, val : Int, over : Nat]
    BY <1>3 DEF Returned, CallNames
  <2>. QED
    BY <1>1, <1>2, <1>3, <2>1, <2>2, <2>3 DEF IInv, TypeOK
<1>5. Coherent'
  <2> SUFFICES ASSUME NEW p \in Pids, cpu' = PcbAddr(p)
               PROVE  /\ curr_process' = p
                      /\ user_page' = p
                      /\ getCurrentProcessPCB' = cpu'
                      /\ pid_array'[p] = PROG_ACTIVE
    BY DEF Coherent
  <2>1. q = p /\ pid_array[p] = PROG_ACTIVE /\ p # curr_process
    BY <1>1, <1>3
  <2>2. cpu' # BootBlock
    BY DistinctBlocks
  <2>3. kesp' = StackTop(p) - SysDepth
    BY <1>3, <2>1, <2>2 DEF kesp
  <2>4. getCurrentProcessPCB' = PcbAddr(p)
    BY <2>3, StackInBlock DEF getCurrentProcessPCB
  <2>. QED
    BY <1>2, <1>3, <2>1, <2>4 DEF IInv, TypeOK
<1>6. CallStack'
  <2>1. waiting'[cpu'] = NoBlock
    BY <1>1, <1>3 DEF IInv, TypeOK
  <2>2. ASSUME NEW b \in Blocks, waiting'[b] # NoBlock
        PROVE  /\ waiting'[b] \in Live'
               /\ BlockOf(pcb'[waiting'[b]].parent_esp) = b
               /\ \A p \in Pids : b = PcbAddr(p) =>
                     pcb'[waiting'[b]].parent_num = p /\ pid_array'[p] = PROG_ACTIVE
    <3>1. b # parent /\ waiting'[b] = waiting[b] /\ waiting[b] # cpu
      BY <1>1, <1>3, <2>2 DEF IInv, TypeOK
    <3>2. /\ waiting[b] \in Live
          /\ BlockOf(pcb[waiting[b]].parent_esp) = b
          /\ \A p \in Pids : b = PcbAddr(p) =>
                pcb[waiting[b]].parent_num = p /\ pid_array[p] = PROG_ACTIVE
      BY <1>0, <2>2, <3>1 DEF IInv, CallStack
    <3>3. b # cpu
      BY <1>0, <2>2, <3>1 DEF IInv, CallStack
    <3>4. \A p \in Pids : b = PcbAddr(p) => pid_array'[p] = PROG_ACTIVE
      BY <1>1, <1>3, <3>2, <3>3 DEF IInv, TypeOK
    <3>5. waiting[b] \in Live'
      BY <1>1, <1>3, <3>1, <3>2 DEF Live, IInv, TypeOK
    <3>. QED
      BY <1>3, <3>1, <3>2, <3>4, <3>5
  <2>3. ASSUME NEW a \in Live' \ {BootBlock}
        PROVE  \E b \in Blocks : waiting'[b] = a
    <3>1. a \in Live \ {BootBlock} /\ a # cpu
      <4>1. a # cpu
        BY <1>0, <1>1, <1>3, <2>3 DEF Live, IInv, TypeOK, CallStack
      <4>2. CASE a = parent
        BY <1>1, <1>2, <2>3, <4>1, <4>2, DistinctBlocks DEF Live
      <4>3. CASE a # parent
        BY <1>3, <2>3, <4>1, <4>3 DEF Live, IInv, TypeOK
      <4>. QED
        BY <4>1, <4>2, <4>3
    <3>2. PICK b \in Blocks : waiting[b] = a
      BY <1>0, <3>1 DEF IInv, CallStack
    <3>. QED
      BY <1>1, <1>3, <3>1, <3>2 DEF IInv, TypeOK
  <2>. QED
    BY <2>1, <2>2, <2>3 DEF CallStack
<1>. QED
  BY <1>4, <1>5, <1>6 DEF IInv

LEMMA FileCallIInv ==
  ASSUME IInv, Running, NEW o \in Outcomes,
         NEW call \in {"open", "close", "read", "write"}, FileCall(call, o)
  PROVE  IInv'
<1>1. getCurrentProcessPCB = cpu /\ cpu \in PcbAddrs
  BY CurrentBlock DEF Running
<1>2. pcb' = [pcb EXCEPT ![cpu].file_array = o.fa]
  BY <1>1 DEF FileCall
<1>3. pcb' \in [PcbAddrs -> PCB]
  BY <1>1, <1>2 DEF IInv, TypeOK, PCB, Outcomes
<1>4. \A a \in PcbAddrs : /\ pcb'[a].parent_esp = pcb[a].parent_esp
                          /\ pcb'[a].parent_num = pcb[a].parent_num
  BY <1>1, <1>2 DEF IInv, TypeOK, PCB
<1>5. UNCHANGED <<pid_array, curr_process, tss_esp0, user_page, vidmapped, last,
                  boot_command, cpu, waiting>>
  BY DEF FileCall
<1>6. ret' \in [call : CallNames, val : Int, over : Nat] /\ machine' \in Machine
  BY DEF FileCall, CallNames, Outcomes
<1>7. TypeOK'
  BY <1>3, <1>5, <1>6 DEF IInv, TypeOK
<1>. QED
  BY <1>4, <1>5, <1>7, StayIInv DEF Running

\* The outcomes of the calls on the caller's own descriptors
LEMMA FileArrayType ==
  ASSUME IInv, Running
  PROVE  file_array \in [Fds -> Slot]
<1>1. getCurrentProcessPCB = cpu /\ cpu \in PcbAddrs
  BY CurrentBlock DEF Running
<1>. QED
  BY <1>1 DEF file_array, IInv, TypeOK, PCB

----------------------------------------------------------------------------
(* The calls that store through the pointer they are given: only a pointer *)
(* in or below the kernel's page makes them store over the kernel          *)

Overwritten ==
  /\ \E buf \in Buffers : buf < KERNEL_END
  /\ \E at, n : Overwrite(at, n)

LEMMA ExecuteStores ==
  ASSUME NEW command \in Command, Execute(command)
  PROVE  /\ Running
         /\ Overwritten \/ (execute(command) /\ UNCHANGED boot_command)
<1>1. PICK buf \in Buffers :
         \/ /\ Reaches(buf + NameLen[command.name], 1)
            /\ Overwrite(buf + NameLen[command.name], 1)
         \/ execute(command) /\ UNCHANGED boot_command
  BY DEF Execute
<1>2. NameLen[command.name] \in Nat /\ buf \in Nat
  BY ImageAssumption, SyscallsAssumption DEF Command
<1>3. ASSUME Reaches(buf + NameLen[command.name], 1) PROVE buf < KERNEL_END
  BY <1>2, <1>3 DEF Reaches, KERNEL_END
<1>. QED
  BY <1>1, <1>3 DEF Execute, Overwritten

LEMMA ReadStores ==
  ASSUME NEW fd, NEW nbytes, Read(fd, nbytes)
  PROVE  /\ Running
         /\ \/ Overwritten
            \/ \E typed \in 0..MAX_INPUT_CHARS, ticked \in BOOLEAN :
                  FileCall("read", read(file_array, fd, nbytes, typed, ticked))
<1>1. PICK buf \in Buffers, typed \in 0..MAX_INPUT_CHARS, ticked \in BOOLEAN :
         \/ /\ Reaches(buf, bytes_stored(file_array, fd, nbytes, typed))
            /\ Overwrite(buf, bytes_stored(file_array, fd, nbytes, typed))
         \/ FileCall("read", read(file_array, fd, nbytes, typed, ticked))
  BY DEF Read
<1>. QED
  BY <1>1 DEF Read, Overwritten, Reaches

LEMMA GetargsStores ==
  ASSUME NEW nbytes, Getargs(nbytes)
  PROVE  /\ Running
         /\ \/ Overwritten
            \/ /\ ret' = getargs(pcb[getCurrentProcessPCB].arg, nbytes)
               /\ UNCHANGED <<kernelVars, cpu, waiting, machine>>
<1> DEFINE arg == pcb[getCurrentProcessPCB].arg
           o   == getargs(arg, nbytes)
<1>1. PICK buf \in Buffers :
         \/ Reaches(buf, ArgLen[arg] + 1) /\ Overwrite(buf, ArgLen[arg] + 1)
         \/ ret' = o /\ UNCHANGED <<kernelVars, cpu, waiting, machine>>
  BY DEF Getargs
<1>. QED
  BY <1>1 DEF Getargs, Overwritten, Reaches

LEMMA OverwriteIInv ==
  ASSUME IInv, Overwritten
  PROVE  IInv'
<1>1. PICK at, n : Overwrite(at, n)
  BY DEF Overwritten
<1>2. PICK junk \in Garbage :
         pcb' = [a \in PcbAddrs |-> IF a \in PcbsHit(at, n) THEN junk ELSE pcb[a]]
  BY <1>1 DEF Overwrite
<1>3. pcb' \in [PcbAddrs -> PCB]
  BY <1>2, GarbageAssumption DEF IInv, TypeOK
<1>4. /\ machine' = "overwritten"
      /\ UNCHANGED <<pid_array, curr_process, tss_esp0, user_page, vidmapped, last,
                     boot_command, cpu, waiting, ret>>
  BY <1>1 DEF Overwrite
<1>5. TypeOK'
  BY <1>3, <1>4 DEF IInv, TypeOK, Machine
<1>6. Coherent'
  BY <1>4 DEF IInv, Coherent, getCurrentProcessPCB, kesp
<1>7. CallStack'
  BY <1>4 DEF CallStack
<1>. QED
  BY <1>5, <1>6, <1>7 DEF IInv

LEMMA StepIInv == IInv /\ [Next]_vars => IInv'
<1> SUFFICES ASSUME IInv, [Next]_vars PROVE IInv'
  OBVIOUS
<1>1. CASE BootLoop
  <2>1. boot_command \in Command
    BY DEF IInv, TypeOK
  <2>2. boot_command' \in Command
    <3>1. boot_command' = [boot_command EXCEPT !.spaced = FALSE, !.arg = NoArg]
      BY <1>1 DEF BootLoop
    <3>2. NoArg \in Args
      BY SyscallsAssumption
    <3>. QED
      BY <2>1, <3>1, <3>2, Zenon DEF Command
  <2>. QED
    BY <1>1, <2>1, <2>2, ExecuteIInv DEF BootLoop
<1>2. ASSUME NEW command \in Commands \union {NULL}, Execute(command) PROVE IInv'
  <2>1. command \in Command
    <3>1. EmptyName \in Names /\ NoArg \in Args /\ Commands \subseteq Command
      BY SyscallsAssumption, ImageAssumption
    <3>2. NULL \in Command
      BY <3>1, Zenon DEF NULL, Command
    <3>. QED
      BY <3>1, <3>2
  <2>2. CASE Overwritten
    BY <2>2, OverwriteIInv
  <2>3. CASE execute(command) /\ UNCHANGED boot_command
    <3>1. machine = "up"
      BY <1>2 DEF Execute, Running
    <3>2. boot_command' \in Command
      BY <2>3 DEF IInv, TypeOK
    <3>. QED
      BY <2>1, <2>3, <3>1, <3>2, ExecuteIInv
  <2>. QED
    BY <1>2, <2>1, <2>2, <2>3, ExecuteStores
<1>3. ASSUME NEW status \in Statuses, Halt(status) PROVE IInv'
  BY <1>3, HaltIInv, SyscallsAssumption
<1>4. ASSUME NEW filename \in OpenNames, Open(filename) PROVE IInv'
  <2>1. Running /\ FileCall("open", open(file_array, filename))
    BY <1>4 DEF Open
  <2>2. open(file_array, filename) \in Outcomes
    BY <2>1, FileArrayType, OpenType, SyscallsAssumption
  <2>. QED
    BY <2>1, <2>2, FileCallIInv
<1>5. ASSUME NEW fd \in -1..NUM_MAX_OPEN_FILES, Close(fd) PROVE IInv'
  <2>1. Running /\ FileCall("close", close(file_array, fd))
    BY <1>5 DEF Close
  <2>2. close(file_array, fd) \in Outcomes
    BY <2>1, FileArrayType, CloseType
  <2>. QED
    BY <2>1, <2>2, FileCallIInv
<1>6. ASSUME NEW fd \in -1..NUM_MAX_OPEN_FILES, NEW nbytes \in Counts, Read(fd, nbytes)
      PROVE  IInv'
  <2>1. CASE Overwritten
    BY <2>1, OverwriteIInv
  <2>2. ASSUME NEW typed \in 0..MAX_INPUT_CHARS, NEW ticked \in BOOLEAN,
               FileCall("read", read(file_array, fd, nbytes, typed, ticked))
        PROVE  IInv'
    <3>1. Running
      BY <1>6 DEF Read
    <3>2. read(file_array, fd, nbytes, typed, ticked) \in Outcomes
      BY <3>1, FileArrayType, ReadType, SyscallsAssumption
    <3>. QED
      BY <2>2, <3>1, <3>2, FileCallIInv
  <2>. QED
    BY <1>6, <2>1, <2>2, ReadStores
<1>7. ASSUME NEW fd \in -1..NUM_MAX_OPEN_FILES, NEW nbytes \in Counts, Write(fd, nbytes)
      PROVE  IInv'
  <2>1. PICK strlen \in 0..MAX_INPUT_CHARS :
           FileCall("write", write(file_array, fd, nbytes, strlen))
    BY <1>7 DEF Write
  <2>2. Running
    BY <1>7 DEF Write
  <2>3. write(file_array, fd, nbytes, strlen) \in Outcomes
    BY <2>2, FileArrayType, WriteType, SyscallsAssumption
  <2>. QED
    BY <2>1, <2>2, <2>3, FileCallIInv
<1>8. ASSUME NEW nbytes \in Counts, Getargs(nbytes) PROVE IInv'
  <2>1. CASE Overwritten
    BY <2>1, OverwriteIInv
  <2>2. CASE /\ ret' = getargs(pcb[getCurrentProcessPCB].arg, nbytes)
             /\ UNCHANGED <<kernelVars, cpu, waiting, machine>>
    <3>1. ret' \in [call : CallNames, val : Int, over : Nat]
      BY <2>2 DEF getargs, Returned, CallNames
    <3>2. TypeOK'
      BY <2>2, <3>1 DEF IInv, TypeOK, kernelVars
    <3>. QED
      BY <2>2, <3>2, StayIInv DEF kernelVars
  <2>. QED
    BY <1>8, <2>1, <2>2, GetargsStores
<1>9. ASSUME NEW inRange \in BOOLEAN, Vidmap(inRange) PROVE IInv'
  <2>1. UNCHANGED <<pid_array, curr_process, pcb, tss_esp0, user_page, last,
                    boot_command, cpu, waiting, machine>>
    BY <1>9 DEF Vidmap
  <2>2. ret' \in [call : CallNames, val : Int, over : Nat]
    BY <1>9 DEF Vidmap, Returned, CallNames
  <2>3. vidmapped' \in BOOLEAN
    BY <1>9 DEF Vidmap
  <2>4. TypeOK'
    BY <2>1, <2>2, <2>3 DEF IInv, TypeOK
  <2>. QED
    BY <2>1, <2>4, StayIInv
<1>10. CASE Invalid \/ Exception
  <2>1. UNCHANGED <<kernelVars, cpu, waiting>> /\ machine = "up"
    BY <1>10 DEF Invalid, Running, Exception
  <2>2. /\ ret' \in [call : CallNames, val : Int, over : Nat]
        /\ machine' \in Machine
    BY <1>10 DEF Invalid, Exception, Returned, CallNames, Machine, IInv, TypeOK
  <2>3. TypeOK'
    BY <2>1, <2>2 DEF IInv, TypeOK, kernelVars
  <2>. QED
    BY <2>1, <2>3, StayIInv DEF kernelVars
<1>11. CASE UNCHANGED vars
  <2>1. TypeOK'
    BY <1>11 DEF vars, kernelVars, IInv, TypeOK
  <2>. QED
    BY <1>11, <2>1, StayIInv DEF vars, kernelVars
<1>. QED
  BY <1>1, <1>2, <1>3, <1>4, <1>5, <1>6, <1>7, <1>8, <1>9, <1>10, <1>11
  DEF Next, Stopped

LEMMA SpecIInv == Spec => []IInv
BY InitIInv, StepIInv, PTL DEF Spec

----------------------------------------------------------------------------
(* Theorems *)

\* The variables of the kernel keep their types: in particular every saved
\* process number is one, and no descriptor's position leaves its register.
THEOREM TypeCorrect == Spec => []TypeOK
<1>1. IInv => TypeOK
  BY DEF IInv
<1>. QED
  BY <1>1, SpecIInv, PTL

\* Whatever programs execute and halt, curr_process, the stack that system
\* calls use and the mapped page belong to the program that runs.
THEOREM CoherentAlways == Spec => []Coherent
<1>1. IInv => Coherent
  BY DEF IInv
<1>. QED
  BY <1>1, SpecIInv, PTL

\* The suspended executes form a call stack, as long as no program has the
\* kernel store over its own page.
THEOREM CallStackAlways == Spec => []CallStack
<1>1. IInv => CallStack
  BY DEF IInv
<1>. QED
  BY <1>1, SpecIInv, PTL

----------------------------------------------------------------------------
(* Every step stays in its context, starts a program or ends one *)

LEMMA StepKinds ==
  ASSUME IInv, [Next]_vars
  PROVE  \/ /\ UNCHANGED <<cpu, waiting>>
            /\ \A a \in PcbAddrs \ {cpu} : pcb'[a] = pcb[a]
         \/ Overwritten
         \/ machine = "up" /\ \E c \in Command : ExecuteStarted(c)
         \/ \E status \in Statuses : Halt(status)
<1> DEFINE Stays == /\ UNCHANGED <<cpu, waiting>>
                    /\ \A a \in PcbAddrs \ {cpu} : pcb'[a] = pcb[a]
<1> SUFFICES \/ Stays
             \/ Overwritten
             \/ machine = "up" /\ \E c \in Command : ExecuteStarted(c)
             \/ \E status \in Statuses : Halt(status)
  OBVIOUS
<1>1. ASSUME NEW command, execute(command)
      PROVE  Stays \/ \E c \in Commands \union {command} : ExecuteStarted(c)
  BY <1>1 DEF execute, Denotes, ExecuteRefused, ExecuteFull, ExecuteLoadFailed
<1>2. ASSUME NEW call, NEW o, Running, FileCall(call, o) PROVE Stays
  <2>1. getCurrentProcessPCB = cpu
    BY CurrentBlock
  <2>. QED
    BY <1>2, <2>1 DEF FileCall, IInv, TypeOK
<1>3. NULL \in Command /\ Commands \subseteq Command /\ boot_command \in Command
  <2>1. EmptyName \in Names /\ NoArg \in Args /\ Commands \subseteq Command
    BY SyscallsAssumption, ImageAssumption
  <2>2. NULL \in Command
    BY <2>1, Zenon DEF NULL, Command
  <2>. QED
    BY <2>1, <2>2 DEF IInv, TypeOK
<1> HIDE DEF Stays
<1>4. CASE BootLoop
  BY <1>1, <1>3, <1>4 DEF BootLoop
<1>5. CASE \E command \in Commands \union {NULL} : Execute(command)
  <2>1. PICK command \in Commands \union {NULL} : Execute(command)
    BY <1>5
  <2>2. command \in Command
    BY <1>3
  <2>3. machine = "up" /\ (Overwritten \/ execute(command))
    BY <2>1, <2>2, ExecuteStores DEF Running
  <2>. QED
    BY <1>1, <1>3, <2>2, <2>3
<1>6. CASE \E filename \in OpenNames : Open(filename)
  BY <1>2, <1>6 DEF Open
<1>7. CASE \E fd \in -1..NUM_MAX_OPEN_FILES :
             \/ Close(fd)
             \/ \E nbytes \in Counts : Write(fd, nbytes)
  BY <1>2, <1>7 DEF Close, Write
<1>8. CASE \E fd \in -1..NUM_MAX_OPEN_FILES, nbytes \in Counts : Read(fd, nbytes)
  BY <1>2, <1>8, ReadStores
<1>9. CASE \E nbytes \in Counts : Getargs(nbytes)
  <2>1. Overwritten \/ UNCHANGED <<kernelVars, cpu, waiting>>
    BY <1>9, GetargsStores
  <2>. QED
    BY <2>1 DEF Stays, kernelVars
<1>10. CASE \/ \E inRange \in BOOLEAN : Vidmap(inRange)
            \/ Invalid
            \/ Exception
            \/ UNCHANGED vars
  BY <1>10 DEF Stays, Vidmap, Invalid, Exception, vars, kernelVars
<1>. QED
  BY <1>4, <1>5, <1>6, <1>7, <1>8, <1>9, <1>10 DEF Next, Stopped

\* execute and halt implement nested calls.
THEOREM Refinement == Spec => NestedCalls
<1>1. Init => Nested!Init
  BY DEF Init, Nested!Init
<1>2. IInv /\ [Next]_vars => [Nested!Next]_<<cpu, waiting>>
  <2> SUFFICES ASSUME IInv, [Next]_vars PROVE [Nested!Next]_<<cpu, waiting>>
    OBVIOUS
  <2>1. ASSUME machine = "up", NEW c \in Command, ExecuteStarted(c) PROVE Nested!Next
    <3> DEFINE child == PcbAddr(get_next_process_number)
    <3>1. child \in PcbAddrs /\ child \notin Live
      BY <2>1, FreshChild DEF ExecuteStarted
    <3>2. cpu' = child /\ waiting' = [waiting EXCEPT ![cpu] = child]
      BY <2>1, CurrentBlock DEF ExecuteStarted
    <3> HIDE DEF child
    <3>3. child \in Blocks \ {BootBlock, cpu} /\ waiting[child] = NoBlock
      BY <3>1, DistinctBlocks DEF Blocks, PcbAddrs, Live
    <3>4. Nested!Call(child)
      BY <3>2, <3>3 DEF Nested!Call, Nested!Idle
    <3>. QED
      BY <3>3, <3>4 DEF Nested!Next
  <2>2. ASSUME NEW status \in Statuses, Halt(status) PROVE Nested!Next
    <3> DEFINE parent == BlockOf(pcb[PcbAddr(curr_process)].parent_esp)
    <3>1. parent \in Blocks /\ waiting[parent] = cpu
      BY <2>2, HaltTarget DEF Halt
    <3>2. cpu' = parent /\ waiting' = [waiting EXCEPT ![parent] = NoBlock]
      BY <2>2 DEF Halt
    <3> HIDE DEF parent
    <3>3. Nested!Return(parent)
      BY <3>1, <3>2 DEF Nested!Return
    <3>. QED
      BY <3>1, <3>3 DEF Nested!Next
  <2>3. ASSUME Overwritten PROVE UNCHANGED <<cpu, waiting>>
    BY <2>3 DEF Overwritten, Overwrite
  <2>. QED
    BY <2>1, <2>2, <2>3, StepKinds
<1>. QED
  BY <1>1, <1>2, SpecIInv, PTL DEF Spec, NestedCalls, Nested!Spec

\* No call changes the PCB of another live process, unless a program passes
\* an address in or below the kernel's page and the call stores over it.
THEOREM IsolationAlways == Spec => Isolation
<1> DEFINE Isolated == \A a \in PcbAddrs : pcb'[a] # pcb[a] =>
             \/ a = cpu
             \/ a = cpu' /\ a \notin Live
             \/ machine' = "overwritten" /\ \E buf \in Buffers : buf < KERNEL_END
<1>1. IInv /\ [Next]_vars => [Isolated]_vars
  <2> SUFFICES ASSUME IInv, [Next]_vars, NEW a \in PcbAddrs, pcb'[a] # pcb[a], a # cpu,
                      ~(machine' = "overwritten" /\ \E buf \in Buffers : buf < KERNEL_END)
               PROVE  a = cpu' /\ a \notin Live
    OBVIOUS
  <2>1. ASSUME NEW status \in Statuses, Halt(status) PROVE FALSE
    BY <2>1 DEF Halt
  <2>2. ~Overwritten
    BY DEF Overwritten, Overwrite
  <2>5. machine = "up" /\ \E c \in Command : ExecuteStarted(c)
    BY <2>1, <2>2, StepKinds
  <2>6. PICK c \in Command : ExecuteStarted(c)
    BY <2>5
  <2> DEFINE child == PcbAddr(get_next_process_number)
  <2>3. child \notin Live
    BY <2>5, <2>6, FreshChild DEF ExecuteStarted
  <2>4. cpu' = child /\ \A b \in PcbAddrs \ {child} : pcb'[b] = pcb[b]
    BY <2>6 DEF ExecuteStarted, IInv, TypeOK
  <2>. QED
    BY <2>3, <2>4
<1>. QED
  BY <1>1, SpecIInv, PTL DEF Spec, Isolation

----------------------------------------------------------------------------
(* The descriptors after a step: those of the caller are what its call     *)
(* makes of them, those of the others are left alone, and those of a       *)
(* program that starts are the initial ones                                *)

CallOutcome(fa, o) ==
  \/ \E filename \in Names : o = open(fa, filename)
  \/ \E fd \in Int : o = close(fa, fd)
  \/ \E fd, nbytes \in Int, typed \in 0..MAX_INPUT_CHARS, ticked \in BOOLEAN :
        o = read(fa, fd, nbytes, typed, ticked)
  \/ \E fd, nbytes \in Int, strlen \in 0..MAX_INPUT_CHARS :
        o = write(fa, fd, nbytes, strlen)

KernelStep ==
  /\ machine' \in {machine, "panic"}
  /\ \A a \in Live' \ {BootBlock} :
        \/ pcb'[a].file_array = init_file_array
        \/ a \in Live /\ pcb'[a].file_array = pcb[a].file_array

CallStep(o) ==
  /\ CallOutcome(pcb[cpu].file_array, o)
  /\ cpu \in Live \ {BootBlock}
  /\ machine' = o.machine
  /\ Live' = Live
  /\ \A a \in Live \ {BootBlock} :
        pcb'[a].file_array = IF a = cpu THEN o.fa ELSE pcb[a].file_array

LEMMA StepArrays ==
  ASSUME IInv, [Next]_vars, ~Overwritten
  PROVE  KernelStep \/ \E o : CallStep(o)
<1>1. ASSUME UNCHANGED <<cpu, waiting, pcb>>, machine' \in {machine, "panic"}
      PROVE  KernelStep
  BY <1>1 DEF KernelStep, Live
<1>2. ASSUME NEW call, NEW o, Running, FileCall(call, o), CallOutcome(file_array, o)
      PROVE  CallStep(o)
  <2>1. getCurrentProcessPCB = cpu /\ cpu \in PcbAddrs
    BY <1>2, CurrentBlock DEF Running
  <2>2. pcb' = [pcb EXCEPT ![cpu].file_array = o.fa] /\ machine' = o.machine
    BY <1>2, <2>1 DEF FileCall
  <2>3. Live' = Live /\ cpu \in Live \ {BootBlock}
    BY <1>2 DEF FileCall, Live, Running, IInv, TypeOK
  <2>4. Live \ {BootBlock} \subseteq PcbAddrs
    BY DEF Live, Blocks
  <2>5. \A a \in PcbAddrs : pcb'[a].file_array = IF a = cpu THEN o.fa ELSE pcb[a].file_array
    BY <2>1, <2>2 DEF IInv, TypeOK, PCB
  <2>. QED
    BY <1>2, <2>1, <2>2, <2>3, <2>4, <2>5 DEF CallStep, file_array
<1>3. ASSUME machine = "up", NEW c, ExecuteStarted(c), UNCHANGED machine PROVE KernelStep
  <2> DEFINE child == PcbAddr(get_next_process_number)
  <2>1. child \in PcbAddrs
    BY <1>3, FreshChild DEF ExecuteStarted
  <2>2. /\ cpu' = child
        /\ waiting' = [waiting EXCEPT ![cpu] = child]
        /\ pcb' = [pcb EXCEPT ![child] = [file_array |-> init_file_array,
                                          parent_num |-> curr_process,
                                          parent_esp |-> kesp, arg |-> c.arg]]
    BY <1>3, CurrentBlock DEF ExecuteStarted
  <2> HIDE DEF child
  <2>3. Live' \subseteq Live \union {child}
    BY <2>2 DEF Live, IInv, TypeOK
  <2>4. Live \ {BootBlock} \subseteq PcbAddrs
    BY DEF Live, Blocks
  <2>5. \A a \in PcbAddrs : pcb'[a].file_array =
                             IF a = child THEN init_file_array ELSE pcb[a].file_array
    BY <2>1, <2>2 DEF IInv, TypeOK, PCB
  <2>. QED
    BY <1>3, <2>1, <2>3, <2>4, <2>5 DEF KernelStep
<1>4. ASSUME machine = "up", NEW command, execute(command) PROVE KernelStep
  <2>1. PICK c \in Denotes(command) :
          \/ ExecuteRefused(c) \/ ExecuteFull(c)
          \/ ExecuteLoadFailed(c) \/ ExecuteStarted(c)
    BY <1>4 DEF execute
  <2>2. UNCHANGED machine
    BY <1>4 DEF execute
  <2>3. CASE ExecuteRefused(c) \/ ExecuteFull(c) \/ ExecuteLoadFailed(c)
    BY <1>1, <2>2, <2>3 DEF ExecuteRefused, ExecuteFull, ExecuteLoadFailed
  <2>. QED
    BY <1>3, <1>4, <2>1, <2>2, <2>3
<1>5. ASSUME NEW status \in Statuses, Halt(status) PROVE KernelStep
  <2> DEFINE parent == BlockOf(pcb[PcbAddr(curr_process)].parent_esp)
  <2>1. parent \in Blocks /\ waiting[parent] = cpu /\ cpu # NoBlock
    BY <1>5, HaltTarget, CurrentBlock, DistinctBlocks DEF Halt, Running, PcbAddrs
  <2>2. cpu' = parent /\ waiting' = [waiting EXCEPT ![parent] = NoBlock]
    BY <1>5 DEF Halt
  <2>3. pcb' = pcb /\ machine' = machine
    BY <1>5 DEF Halt
  <2> HIDE DEF parent
  <2>4. Live' \subseteq Live
    BY <2>1, <2>2 DEF Live, IInv, TypeOK
  <2>. QED
    BY <2>3, <2>4 DEF KernelStep
<1>6. ASSUME NEW filename \in OpenNames, Open(filename) PROVE \E o : CallStep(o)
  <2>1. filename \in Names
    BY SyscallsAssumption
  <2>2. CallOutcome(file_array, open(file_array, filename))
    BY <2>1 DEF CallOutcome
  <2>. QED
    BY <1>2, <1>6, <2>2 DEF Open
<1>7. ASSUME NEW fd \in -1..NUM_MAX_OPEN_FILES, Close(fd) PROVE \E o : CallStep(o)
  <2>1. CallOutcome(file_array, close(file_array, fd))
    BY DEF CallOutcome
  <2>. QED
    BY <1>2, <1>7, <2>1 DEF Close
<1>8. ASSUME NEW fd \in -1..NUM_MAX_OPEN_FILES, NEW nbytes \in Counts, Read(fd, nbytes)
      PROVE  \E o : CallStep(o)
  <2>1. nbytes \in Int /\ fd \in Int
    BY SyscallsAssumption
  <2>2. PICK typed \in 0..MAX_INPUT_CHARS, ticked \in BOOLEAN :
           FileCall("read", read(file_array, fd, nbytes, typed, ticked))
    BY <1>8, ReadStores
  <2>3. CallOutcome(file_array, read(file_array, fd, nbytes, typed, ticked))
    BY <2>1 DEF CallOutcome
  <2>. QED
    BY <1>2, <1>8, <2>2, <2>3, ReadStores
<1>9. ASSUME NEW fd \in -1..NUM_MAX_OPEN_FILES, NEW nbytes \in Counts, Write(fd, nbytes)
      PROVE  \E o : CallStep(o)
  <2>1. nbytes \in Int /\ fd \in Int
    BY SyscallsAssumption
  <2>2. PICK strlen \in 0..MAX_INPUT_CHARS :
           FileCall("write", write(file_array, fd, nbytes, strlen))
    BY <1>9 DEF Write
  <2>3. CallOutcome(file_array, write(file_array, fd, nbytes, strlen))
    BY <2>1 DEF CallOutcome
  <2>. QED
    BY <1>2, <1>9, <2>2, <2>3 DEF Write
<1>10. ASSUME NEW nbytes \in Counts, Getargs(nbytes) PROVE KernelStep
  <2>1. UNCHANGED <<kernelVars, cpu, waiting, machine>>
    BY <1>10, GetargsStores
  <2>. QED
    BY <1>1, <2>1 DEF kernelVars
<1>11. CASE \/ \E inRange \in BOOLEAN : Vidmap(inRange)
            \/ Invalid
            \/ Exception
            \/ UNCHANGED vars
  BY <1>1, <1>11 DEF Vidmap, Invalid, Exception, vars, kernelVars
<1>12. ASSUME NEW command \in Commands \union {NULL}, Execute(command) PROVE KernelStep
  <2>1. EmptyName \in Names /\ NoArg \in Args /\ Commands \subseteq Command
    BY SyscallsAssumption, ImageAssumption
  <2>2. NULL \in Command
    BY <2>1, Zenon DEF NULL, Command
  <2>3. machine = "up" /\ execute(command)
    BY <1>12, <2>1, <2>2, ExecuteStores DEF Running
  <2>. QED
    BY <1>4, <2>3
<1>. QED
  BY <1>4, <1>5, <1>6, <1>7, <1>8, <1>9, <1>10, <1>11, <1>12 DEF Next, Stopped, BootLoop

----------------------------------------------------------------------------
(* The RTC's operations are never dispatched to *)

Ops(fd) == IF fd < 2 THEN {"terminal"} ELSE {"file", "directory"}

UsableArray(fa) ==
  \A fd \in Fds : fa[fd].flags = FILE_OCCUP => fa[fd].file_ops_table_ptr \in Ops(fd)

LEMMA FileOpenUsable ==
  ASSUME NEW fa \in [Fds -> Slot], NEW filename \in Names, UsableArray(fa)
  PROVE  /\ UsableArray(file_open(fa, filename).fa)
         /\ file_open(fa, filename).machine = "up"
<1> DEFINE dentry == read_dentry_by_name(filename)
           fd     == NextFd(fa)
           opened(ops) == [fa EXCEPT ![fd] =
                             [file_ops_table_ptr |-> ops, inode_num |-> dentry.inode_num,
                              file_position |-> 0, flags |-> FILE_OCCUP]]
           rtc == [fa EXCEPT ![fd].file_ops_table_ptr = "rtc",
                             ![fd].inode_num = dentry.inode_num]
<1>1. CASE FreeFds(fa) = {}
  BY <1>1 DEF file_open, Fail, Return, Outcome
<1>2. CASE FreeFds(fa) # {}
  <2>1. fd \in Fds /\ fd >= 2 /\ fa[fd].flags = FILE_AVAIL
    BY <1>2, NextFdType DEF FreeFds
  <2> HIDE DEF dentry, fd
  <2>2. UsableArray(opened("file")) /\ UsableArray(opened("directory"))
    BY <2>1 DEF UsableArray, Ops, Fds
  <2>3. UsableArray(rtc)
    BY <2>1 DEF UsableArray, Ops, FILE_AVAIL, FILE_OCCUP, Slot
  <2>. QED
    BY <2>2, <2>3 DEF file_open, Fail, Return, Outcome, dentry, fd
<1>. QED
  BY <1>1, <1>2

LEMMA OpenUsable ==
  ASSUME NEW fa \in [Fds -> Slot], NEW filename \in Names, UsableArray(fa)
  PROVE  /\ UsableArray(open(fa, filename).fa)
         /\ open(fa, filename).machine = "up"
<1> DEFINE first == file_open(fa, filename)
<1>1. first.fa \in [Fds -> Slot] /\ UsableArray(first.fa) /\ first.machine = "up"
  BY FileOpenType, FileOpenUsable DEF Outcomes
<1> HIDE DEF first
<1>2. /\ UsableArray(file_open(first.fa, filename).fa)
      /\ file_open(first.fa, filename).machine = "up"
  BY <1>1, FileOpenUsable
<1>3. Fail(fa).fa = fa /\ Fail(fa).machine = "up"
  BY DEF Fail, Return, Outcome
<1>. QED
  BY <1>1, <1>2, <1>3 DEF open, first

LEMMA CloseUsable ==
  ASSUME NEW fa \in [Fds -> Slot], NEW fd \in Int, UsableArray(fa)
  PROVE  /\ UsableArray(close(fa, fd).fa)
         /\ close(fa, fd).machine = "up"
<1>1. UsableArray([fa EXCEPT ![fd] = blank])
  BY DEF UsableArray, Ops, blank, FILE_AVAIL, FILE_OCCUP
<1>. QED
  BY <1>1 DEF close, Fail, Return, Outcome

LEMMA ReadUsable ==
  ASSUME NEW fa \in [Fds -> Slot], NEW fd \in Int, NEW nbytes \in Int,
         NEW typed, NEW ticked, UsableArray(fa)
  PROVE  /\ UsableArray(read(fa, fd, nbytes, typed, ticked).fa)
         /\ read(fa, fd, nbytes, typed, ticked).machine = "up"
<1>1. ASSUME NEW pos
      PROVE  UsableArray([fa EXCEPT ![fd].file_position = pos])
  BY DEF UsableArray, Slot
<1>2. CASE fd \notin Fds \/ fa[fd].flags = FILE_AVAIL
  BY <1>2 DEF read, Fail, Return, Outcome
<1>3. CASE fd \in Fds /\ fa[fd].flags # FILE_AVAIL
  <2>1. fa[fd].flags = FILE_OCCUP
    BY <1>3 DEF Slot
  <2>2. fa[fd].file_ops_table_ptr \in {"terminal", "file", "directory"}
    BY <1>3, <2>1 DEF UsableArray, Ops
  <2>3. /\ UsableArray(terminal_read(fa, fd, nbytes, typed).fa)
        /\ terminal_read(fa, fd, nbytes, typed).machine = "up"
    BY DEF terminal_read, Fail, Return, Outcome
  <2>4. /\ UsableArray(file_read(fa, fd, nbytes).fa)
        /\ file_read(fa, fd, nbytes).machine = "up"
    BY <1>1 DEF file_read, Fail, Return, Outcome
  <2>5. /\ UsableArray(directory_read(fa, fd, nbytes).fa)
        /\ directory_read(fa, fd, nbytes).machine = "up"
    BY <1>1 DEF directory_read, Fail, Return, Outcome
  <2>. QED
    BY <1>3, <2>2, <2>3, <2>4, <2>5 DEF read
<1>. QED
  BY <1>2, <1>3

LEMMA WriteUsable ==
  ASSUME NEW fa \in [Fds -> Slot], NEW fd \in Int, NEW nbytes, NEW strlen, UsableArray(fa)
  PROVE  /\ UsableArray(write(fa, fd, nbytes, strlen).fa)
         /\ write(fa, fd, nbytes, strlen).machine = "up"
<1>1. CASE fd \notin Fds \/ fa[fd].flags = FILE_AVAIL
  BY <1>1 DEF write, Fail, Return, Outcome
<1>2. CASE fd \in Fds /\ fa[fd].flags # FILE_AVAIL
  <2>1. fa[fd].flags = FILE_OCCUP
    BY <1>2 DEF Slot
  <2>2. fa[fd].file_ops_table_ptr \in {"terminal", "file", "directory"}
    BY <1>2, <2>1 DEF UsableArray, Ops
  <2>3. /\ terminal_write(fa, fd, nbytes, strlen).fa = fa
        /\ terminal_write(fa, fd, nbytes, strlen).machine = "up"
    BY DEF terminal_write, Fail, Return, Outcome
  <2>4. Fail(fa).fa = fa /\ Fail(fa).machine = "up"
    BY DEF Fail, Return, Outcome
  <2>. QED
    BY <1>2, <2>2, <2>3, <2>4 DEF write
<1>. QED
  BY <1>1, <1>2

LEMMA OutcomeUsable ==
  ASSUME NEW fa \in [Fds -> Slot], NEW o, CallOutcome(fa, o), UsableArray(fa)
  PROVE  UsableArray(o.fa) /\ o.machine = "up"
<1>1. ASSUME NEW filename \in Names, o = open(fa, filename)
      PROVE  UsableArray(o.fa) /\ o.machine = "up"
  BY <1>1, OpenUsable
<1>2. ASSUME NEW fd \in Int, o = close(fa, fd)
      PROVE  UsableArray(o.fa) /\ o.machine = "up"
  BY <1>2, CloseUsable
<1>3. ASSUME NEW fd \in Int, NEW nbytes \in Int, NEW typed, NEW ticked,
             o = read(fa, fd, nbytes, typed, ticked)
      PROVE  UsableArray(o.fa) /\ o.machine = "up"
  BY <1>3, ReadUsable
<1>4. ASSUME NEW fd \in Int, NEW nbytes \in Int, NEW strlen, o = write(fa, fd, nbytes, strlen)
      PROVE  UsableArray(o.fa) /\ o.machine = "up"
  BY <1>4, WriteUsable
<1>. QED
  BY <1>1, <1>2, <1>3, <1>4 DEF CallOutcome

LEMMA InitialUsable == UsableArray(init_file_array)
BY DEF UsableArray, Ops, init_file_array, stdio, blank, FILE_AVAIL, FILE_OCCUP

LEMMA UsableIsUsableArray ==
  ASSUME machine # "overwritten"
  PROVE  Usable <=> /\ machine # "spin"
                    /\ \A a \in Live \ {BootBlock} : UsableArray(pcb[a].file_array)
BY DEF Usable, UsableArray, Ops

\* The descriptors of a process that runs or waits
LEMMA LiveArrayType ==
  ASSUME IInv, NEW a \in Live \ {BootBlock}
  PROVE  pcb[a].file_array \in [Fds -> Slot]
<1>1. a \in PcbAddrs
  BY DEF Live, Blocks
<1>. QED
  BY <1>1 DEF IInv, TypeOK, PCB

\* A machine whose memory is stored over does not recover
LEMMA UpBefore ==
  ASSUME [Next]_vars, machine' # "overwritten"
  PROVE  machine # "overwritten"
BY DEF Next, vars, Stopped, BootLoop, Execute, Running, Halt, Open, Close, Read, Write,
       Getargs, Vidmap, Invalid, Exception

LEMMA StepUsable == IInv /\ Usable /\ [Next]_vars => Usable'
<1> SUFFICES ASSUME IInv, Usable, [Next]_vars, machine' # "overwritten" PROVE Usable'
  BY DEF Usable
<1>0. machine # "overwritten" /\ ~Overwritten
  BY UpBefore DEF Overwritten, Overwrite
<1> DEFINE Goal == /\ machine' # "spin"
                   /\ \A a \in Live' \ {BootBlock} : UsableArray(pcb'[a].file_array)
<1> SUFFICES Goal
  BY DEF Usable, UsableArray, Ops
<1>1. /\ machine # "spin"
      /\ \A a \in Live \ {BootBlock} : UsableArray(pcb[a].file_array)
  BY <1>0, UsableIsUsableArray
<1>2. CASE KernelStep
  BY <1>1, <1>2, InitialUsable DEF KernelStep
<1>3. ASSUME NEW o, CallStep(o) PROVE Goal
  <2>1. UsableArray(o.fa) /\ o.machine = "up"
    BY <1>1, <1>3, LiveArrayType, OutcomeUsable DEF CallStep
  <2>. QED
    BY <1>1, <1>3, <2>1 DEF CallStep
<1>. QED
  BY <1>0, <1>2, <1>3, StepArrays

\* read, write and close only ever dispatch to operations that take the
\* parameters they are given, and no system call hangs the machine, as long
\* as no program has the kernel store over its own page.
THEOREM UsableAlways == Spec => []Usable
<1>1. Init => Usable
  BY DEF Init, Usable, Live
<1>. QED
  BY <1>1, SpecIInv, StepUsable, PTL DEF Spec

----------------------------------------------------------------------------
(* Positions *)

SlotWithin(f) ==
  f.flags = FILE_OCCUP =>
    /\ f.file_ops_table_ptr = "file" /\ Intact(f.inode_num) =>
          f.file_position <= flength(f.inode_num)
    /\ f.file_ops_table_ptr = "directory" => f.file_position <= NUM_FILES

Within(fa) == \A fd \in Fds : SlotWithin(fa[fd])

\* A position that stays below the modulus does not wrap
LEMMA NoWrap ==
  ASSUME NEW x \in Nat, x < UINT_MOD
  PROVE  x % UINT_MOD = x
<1>1. UINT_MOD \in Nat
  BY FileArrayAssumption
<1>. QED
  BY <1>1

LEMMA BlankWithin == SlotWithin(blank) /\ SlotWithin(stdio)
BY DEF SlotWithin, blank, stdio, FILE_AVAIL, FILE_OCCUP

LEMMA FileOpenWithin ==
  ASSUME NEW fa \in [Fds -> Slot], NEW filename \in Names, Within(fa)
  PROVE  Within(file_open(fa, filename).fa)
<1> DEFINE dentry == read_dentry_by_name(filename)
           fd     == NextFd(fa)
           opened(ops) == [file_ops_table_ptr |-> ops, inode_num |-> dentry.inode_num,
                           file_position |-> 0, flags |-> FILE_OCCUP]
           rtc == [fa EXCEPT ![fd].file_ops_table_ptr = "rtc",
                             ![fd].inode_num = dentry.inode_num]
<1>1. CASE FreeFds(fa) = {}
  BY <1>1 DEF file_open, Fail, Return, Outcome
<1>2. CASE FreeFds(fa) # {}
  <2>1. fd \in Fds /\ fa[fd].flags = FILE_AVAIL
    BY <1>2, NextFdType DEF FreeFds
  <2>2. dentry.inode_num \in Nat
    BY DentryType DEF Dentry
  <2> HIDE DEF dentry, fd
  <2>3. SlotWithin(opened("file")) /\ SlotWithin(opened("directory"))
    <3>1. Intact(dentry.inode_num) => flength(dentry.inode_num) \in Nat
      BY <2>2, ImageAssumption DEF Intact, flength
    <3>. QED
      BY <3>1, ImageAssumption DEF SlotWithin
  <2>4. /\ Within([fa EXCEPT ![fd] = opened("file")])
        /\ Within([fa EXCEPT ![fd] = opened("directory")])
    BY <2>1, <2>3 DEF Within
  <2>5. Within(rtc)
    <3>1. rtc[fd].flags = FILE_AVAIL
      BY <2>1 DEF Slot
    <3>2. SlotWithin(rtc[fd])
      BY <3>1 DEF SlotWithin, FILE_AVAIL, FILE_OCCUP
    <3>3. \A g \in Fds \ {fd} : rtc[g] = fa[g]
      BY <2>1
    <3>. QED
      BY <3>2, <3>3 DEF Within
  <2>. QED
    BY <2>4, <2>5 DEF file_open, Fail, Return, Outcome, dentry, fd
<1>. QED
  BY <1>1, <1>2

LEMMA OpenWithin ==
  ASSUME NEW fa \in [Fds -> Slot], NEW filename \in Names, Within(fa)
  PROVE  Within(open(fa, filename).fa)
<1> DEFINE first == file_open(fa, filename)
<1>1. first.fa \in [Fds -> Slot] /\ Within(first.fa)
  BY FileOpenType, FileOpenWithin DEF Outcomes
<1> HIDE DEF first
<1>2. Within(file_open(first.fa, filename).fa)
  BY <1>1, FileOpenWithin
<1>3. Fail(fa).fa = fa
  BY DEF Fail, Return, Outcome
<1>. QED
  BY <1>1, <1>2, <1>3 DEF open, first

LEMMA CloseWithin ==
  ASSUME NEW fa \in [Fds -> Slot], NEW fd \in Int, Within(fa)
  PROVE  Within(close(fa, fd).fa)
<1>1. Within([fa EXCEPT ![fd] = blank])
  BY BlankWithin DEF Within
<1>. QED
  BY <1>1 DEF close, Fail, Return, Outcome

\* Moving the position of one descriptor
LEMMA MoveWithin ==
  ASSUME NEW fa \in [Fds -> Slot], NEW fd \in Fds, NEW pos, Within(fa),
         SlotWithin([fa[fd] EXCEPT !.file_position = pos])
  PROVE  Within([fa EXCEPT ![fd].file_position = pos])
<1> DEFINE g == [fa[fd] EXCEPT !.file_position = pos]
<1>1. [fa EXCEPT ![fd].file_position = pos] = [fa EXCEPT ![fd] = g]
  OBVIOUS
<1> HIDE DEF g
<1>2. Within([fa EXCEPT ![fd] = g])
  BY DEF Within, g
<1>. QED
  BY <1>1, <1>2

LEMMA FileReadWithin ==
  ASSUME NEW fa \in [Fds -> Slot], NEW fd \in Fds, NEW nbytes \in Int, Within(fa),
         fa[fd].flags = FILE_OCCUP, fa[fd].file_ops_table_ptr = "file"
  PROVE  Within(file_read(fa, fd, nbytes).fa)
<1> DEFINE f == fa[fd]
           n == read_data(f.inode_num, f.file_position, Unsigned(nbytes))
           pos == (f.file_position + n) % UINT_MOD
           g == [f EXCEPT !.file_position = pos]
<1>1. f \in Slot /\ f.inode_num \in Nat /\ f.file_position \in Nat /\ Unsigned(nbytes) \in Nat
  BY UnsignedType DEF Slot, Unsigned
<1>2. Intact(f.inode_num) => pos <= flength(f.inode_num)
  <2> SUFFICES ASSUME Intact(f.inode_num) PROVE pos <= flength(f.inode_num)
    OBVIOUS
  <2>1. f.file_position <= flength(f.inode_num)
    BY DEF Within, SlotWithin
  <2>2. n \in Nat /\ f.file_position + n <= flength(f.inode_num)
    BY <1>1, <2>1, ReadDataWithinFile DEF Intact
  <2>3. flength(f.inode_num) \in Nat /\ flength(f.inode_num) < UINT_MOD
    BY <1>1, FileArrayAssumption, ImageAssumption DEF Intact, flength
  <2> HIDE DEF n
  <2>4. f.file_position + n \in Nat /\ f.file_position + n < UINT_MOD
    BY <1>1, <2>2, <2>3, FileArrayAssumption
  <2>. QED
    BY <2>2, <2>4, NoWrap
<1> HIDE DEF pos
<1>3. SlotWithin(g)
  <2>1. /\ g.file_ops_table_ptr = "file" /\ g.inode_num = f.inode_num
        /\ g.file_position = pos
    BY <1>1 DEF Slot
  <2>. QED
    BY <1>2, <2>1 DEF SlotWithin
<1>4. Within([fa EXCEPT ![fd].file_position = pos])
  BY <1>3, MoveWithin
<1>. QED
  BY <1>4 DEF file_read, Fail, Return, Outcome, pos

LEMMA DirectoryReadWithin ==
  ASSUME NEW fa \in [Fds -> Slot], NEW fd \in Fds, NEW nbytes \in Int, Within(fa),
         fa[fd].file_ops_table_ptr = "directory"
  PROVE  Within(directory_read(fa, fd, nbytes).fa)
<1> DEFINE f == fa[fd]
           pos == (f.file_position + 1) % UINT_MOD
           g == [f EXCEPT !.file_position = pos]
<1>1. f \in Slot /\ f.file_position \in Nat
  BY DEF Slot
<1>2. CASE f.file_position >= NUM_FILES
  BY <1>2 DEF directory_read, Fail, Return, Outcome
<1>3. CASE ~(f.file_position >= NUM_FILES)
  <2>1. f.file_position + 1 \in Nat /\ f.file_position + 1 <= NUM_FILES
    BY <1>1, <1>3, ImageAssumption
  <2>2. f.file_position + 1 < UINT_MOD
    BY <2>1, FileArrayAssumption, ImageAssumption
  <2>3. pos <= NUM_FILES
    BY <2>1, <2>2, NoWrap
  <2> HIDE DEF pos
  <2>4. g.file_ops_table_ptr = "directory" /\ g.file_position = pos
    BY <1>1 DEF Slot
  <2>5. SlotWithin(g)
    BY <2>3, <2>4 DEF SlotWithin
  <2>6. Within([fa EXCEPT ![fd].file_position = pos])
    BY <2>5, MoveWithin
  <2>. QED
    BY <1>3, <2>6 DEF directory_read, Return, Outcome, pos
<1>. QED
  BY <1>2, <1>3

LEMMA ReadWithin ==
  ASSUME NEW fa \in [Fds -> Slot], NEW fd \in Int, NEW nbytes \in Int,
         NEW typed, NEW ticked, Within(fa)
  PROVE  Within(read(fa, fd, nbytes, typed, ticked).fa)
<1>1. CASE fd \notin Fds \/ fa[fd].flags = FILE_AVAIL
  BY <1>1 DEF read, Fail, Return, Outcome
<1>2. CASE fd \in Fds /\ fa[fd].flags # FILE_AVAIL
  <2>1. fa[fd].flags = FILE_OCCUP
    BY <1>2 DEF Slot
  <2>2. /\ terminal_read(fa, fd, nbytes, typed).fa = fa
        /\ rtc_read(fa, ticked).fa = fa
    BY DEF terminal_read, rtc_read, Fail, Return, Outcome
  <2>. QED
    BY <1>2, <2>1, <2>2, FileReadWithin, DirectoryReadWithin DEF read
<1>. QED
  BY <1>1, <1>2

LEMMA WriteWithin ==
  ASSUME NEW fa \in [Fds -> Slot], NEW fd \in Int, NEW nbytes, NEW strlen, Within(fa)
  PROVE  Within(write(fa, fd, nbytes, strlen).fa)
BY DEF write, terminal_write, Fail, Return, Outcome

LEMMA OutcomeWithin ==
  ASSUME NEW fa \in [Fds -> Slot], NEW o, CallOutcome(fa, o), Within(fa)
  PROVE  Within(o.fa)
BY OpenWithin, CloseWithin, ReadWithin, WriteWithin DEF CallOutcome

LEMMA InitialWithin == Within(init_file_array)
BY BlankWithin DEF Within, init_file_array

LEMMA StepWithin == IInv /\ PositionWithinFile /\ [Next]_vars => PositionWithinFile'
<1> SUFFICES ASSUME IInv, PositionWithinFile, [Next]_vars, machine' # "overwritten"
             PROVE  PositionWithinFile'
  BY DEF PositionWithinFile
<1>0. machine # "overwritten" /\ ~Overwritten
  BY UpBefore DEF Overwritten, Overwrite
<1> DEFINE Goal == \A a \in Live' \ {BootBlock} : Within(pcb'[a].file_array)
<1> SUFFICES Goal
  BY DEF PositionWithinFile, Within, SlotWithin
<1>1. \A a \in Live \ {BootBlock} : Within(pcb[a].file_array)
  BY <1>0 DEF PositionWithinFile, Within, SlotWithin
<1>2. CASE KernelStep
  BY <1>1, <1>2, InitialWithin DEF KernelStep
<1>3. ASSUME NEW o, CallStep(o) PROVE Goal
  <2>1. Within(o.fa)
    BY <1>1, <1>3, LiveArrayType, OutcomeWithin DEF CallStep
  <2>. QED
    BY <1>1, <1>3, <2>1 DEF CallStep
<1>. QED
  BY <1>0, <1>2, <1>3, StepArrays

\* The position of an open file or directory never passes its end, unless a
\* block of the file is missing and file_read adds -1 to it, or a program has
\* the kernel store over its own page.
THEOREM PositionWithinFileAlways == Spec => []PositionWithinFile
<1>1. Init => PositionWithinFile
  BY DEF Init, PositionWithinFile, Live
<1>. QED
  BY <1>1, SpecIInv, StepWithin, PTL DEF Spec
=============================================================================
