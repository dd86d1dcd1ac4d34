--------------------------- MODULE ReadDataProof ---------------------------
(***************************************************************************)
(* The proof that read_data's loops compute what FileSys says they return, *)
(* and copy the bytes of the file, for every image, negative block numbers *)
(* included, every block size and every argument.                          *)
(***************************************************************************)
EXTENDS ReadData, TLAPS

----------------------------------------------------------------------------
(* Division by the block size (SyscallsProof needs these facts too) *)

LEMMA Divide ==
  ASSUME NEW x \in Nat
  PROVE  /\ x \div NUM_B_IN_FOUR_KB \in Nat
         /\ x % NUM_B_IN_FOUR_KB \in 0..NUM_B_IN_FOUR_KB - 1
         /\ x = (x \div NUM_B_IN_FOUR_KB) * NUM_B_IN_FOUR_KB + (x % NUM_B_IN_FOUR_KB)
<1> DEFINE N == NUM_B_IN_FOUR_KB
<1>1. N \in Nat /\ N > 0
  BY ImageAssumption
<1> HIDE DEF N
<1>2. x % N \in 0..N - 1
  BY <1>1
<1>3. x \div N \in Int /\ x = N * (x \div N) + (x % N)
  BY <1>1
<1>4. ~(x \div N <= -1)
  <2> SUFFICES ASSUME x \div N <= -1 PROVE FALSE
    OBVIOUS
  <2>1. N * (x \div N) <= N * (-1)
    BY <1>1, <1>3
  <2>. QED
    BY <1>1, <1>2, <1>3, <2>1
<1>5. N * (x \div N) = (x \div N) * N
  BY <1>1, <1>3
<1>. QED
  BY <1>2, <1>3, <1>4, <1>5 DEF N

\* A smaller multiple of the block size is smaller by a whole block
LEMMA Multiples ==
  ASSUME NEW a \in Nat, NEW b \in Nat, a < b
  PROVE  a * NUM_B_IN_FOUR_KB + NUM_B_IN_FOUR_KB <= b * NUM_B_IN_FOUR_KB
<1>1. NUM_B_IN_FOUR_KB \in Nat
  BY ImageAssumption
<1>2. PICK d \in Nat : b = a + 1 + d
  <2>1. b - a - 1 \in Nat /\ b = a + 1 + (b - a - 1)
    OBVIOUS
  <2>. QED
    BY <2>1
<1>3. b * NUM_B_IN_FOUR_KB = a * NUM_B_IN_FOUR_KB + NUM_B_IN_FOUR_KB + d * NUM_B_IN_FOUR_KB
  BY <1>1, <1>2
<1>4. d * NUM_B_IN_FOUR_KB \in Nat /\ a * NUM_B_IN_FOUR_KB \in Nat
  BY <1>1
<1>. QED
  BY <1>1, <1>3, <1>4

\* The block and the place in it determine the offset, and the other way round
LEMMA Quotient ==
  ASSUME NEW q \in Nat, NEW r \in 0..NUM_B_IN_FOUR_KB - 1, NEW x \in Nat,
         x = q * NUM_B_IN_FOUR_KB + r
  PROVE  x \div NUM_B_IN_FOUR_KB = q /\ x % NUM_B_IN_FOUR_KB = r
<1> DEFINE N == NUM_B_IN_FOUR_KB
           d == x \div N
           m == x % N
<1>1. d \in Nat /\ m \in 0..N - 1 /\ x = d * N + m /\ N \in Nat
  BY Divide, ImageAssumption
<1>2. d * N \in Nat /\ q * N \in Nat
  BY <1>1
<1> HIDE DEF d, m
<1>3. ~(d < q)
  <2> SUFFICES ASSUME d < q PROVE FALSE
    OBVIOUS
  <2>1. d * N + N <= q * N
    BY <1>1, Multiples
  <2>. QED
    BY <1>1, <1>2, <2>1
<1>4. ~(q < d)
  <2> SUFFICES ASSUME q < d PROVE FALSE
    OBVIOUS
  <2>1. q * N + N <= d * N
    BY <1>1, Multiples
  <2>. QED
    BY <1>1, <1>2, <2>1
<1>5. d = q
  BY <1>1, <1>3, <1>4
<1>6. m = r
  BY <1>1, <1>2, <1>5
<1>. QED
  BY <1>5, <1>6 DEF d, m

\* An offset that lies before the end of block q lies in block q or before
LEMMA QuotientBound ==
  ASSUME NEW q \in Nat, NEW x \in Nat, x < q * NUM_B_IN_FOUR_KB + NUM_B_IN_FOUR_KB
  PROVE  x \div NUM_B_IN_FOUR_KB <= q
<1> DEFINE N == NUM_B_IN_FOUR_KB
           d == x \div N
<1>1. d \in Nat /\ x % N \in 0..N - 1 /\ x = d * N + (x % N) /\ N \in Nat
  BY Divide, ImageAssumption
<1> HIDE DEF d
<1>2. SUFFICES ASSUME q < d PROVE FALSE
  BY <1>1 DEF d
<1>3. q * N + N <= d * N
  BY <1>1, <1>2, Multiples
<1>4. d * N \in Nat /\ q * N \in Nat
  BY <1>1
<1>. QED
  BY <1>1, <1>3, <1>4

\* An address that needs no wrapping
LEMMA AddressIs ==
  /\ \A n \in Int : Address(n) \in Int
  /\ \A n \in 0..ADDRESSES - 1 : Address(n) = n
<1> DEFINE A == ADDRESSES
<1>1. A \in Nat /\ A > 0
  BY ReadDataAssumption
<1> HIDE DEF A
<1>2. ASSUME NEW n \in Int PROVE n % A \in Int
  BY <1>1
<1>3. ASSUME NEW n \in 0..A - 1 PROVE n % A = n
  <2>1. n % A \in 0..A - 1
    BY <1>1
  <2>2. n \div A \in Int /\ n = A * (n \div A) + (n % A)
    BY <1>1
  <2>3. ~(n \div A >= 1)
    <3> SUFFICES ASSUME n \div A >= 1 PROVE FALSE
      OBVIOUS
    <3>1. A * (n \div A) >= A * 1
      BY <1>1, <2>2
    <3>. QED
      BY <1>1, <2>1, <2>2, <3>1
  <2>4. ~(n \div A <= -1)
    <3> SUFFICES ASSUME n \div A <= -1 PROVE FALSE
      OBVIOUS
    <3>1. A * (n \div A) <= A * (-1)
      BY <1>1, <2>2
    <3>. QED
      BY <1>1, <2>1, <2>2, <3>1
  <2>5. n \div A = 0
    BY <2>2, <2>3, <2>4
  <2>. QED
    BY <1>1, <2>1, <2>2, <2>5
<1>. QED
  BY <1>2, <1>3 DEF A, Address

----------------------------------------------------------------------------
(* The inductive invariant *)

Present(b) == inodes[inode].data_block_num[b] < data_count

\* offset is where the loop stands: count bytes on from the argument, and at
\* its place in its block
Position ==
  /\ offset = from + count
  /\ pc = "start" => count = 0
  /\ pc \in {"lookup", "copy"} =>
       /\ inode < inode_count /\ from < flength(inode) /\ offset <= flength(inode)
       /\ offset = index_in_inode * NUM_B_IN_FOUR_KB + index_in_data_block
       /\ from \div NUM_B_IN_FOUR_KB <= index_in_inode
       /\ index_in_inode * NUM_B_IN_FOUR_KB < flength(inode)
  /\ pc = "lookup" =>
       /\ index_in_data_block < NUM_B_IN_FOUR_KB /\ offset < flength(inode)
       /\ count < length \/ count = 0
       /\ IF index_in_inode = from \div NUM_B_IN_FOUR_KB THEN count = 0
          ELSE index_in_data_block = 0

\* The blocks that the loop has been through are blocks of the image
Found ==
  /\ pc = "lookup" => \A b \in (from \div NUM_B_IN_FOUR_KB)..index_in_inode - 1 : Present(b)
  /\ pc = "copy" =>
       /\ \A b \in (from \div NUM_B_IN_FOUR_KB)..index_in_inode : Present(b)
       /\ data_block = BlockStart(data_block_num)

IInv == TypeOK /\ Position /\ Found /\ CopiesTheFile /\ Computes

LEMMA InitIInv == Init => IInv
<1> SUFFICES ASSUME Init PROVE IInv
  OBVIOUS
<1>1. TypeOK
  BY ImageAssumption, ReadDataAssumption DEF Init, TypeOK
<1>2. Position /\ Found /\ Computes
  BY ReadDataAssumption DEF Init, Position, Found, Computes
<1>3. CopiesTheFile
  BY DEF Init, CopiesTheFile
<1>. QED
  BY <1>1, <1>2, <1>3 DEF IInv

\* What the assumptions on the image say of the file that is read
LEMMA FileType ==
  ASSUME TypeOK, inode < inode_count
  PROVE  /\ flength(inode) \in Nat
         /\ \A b \in Nat : b * NUM_B_IN_FOUR_KB < flength(inode)
                             => inodes[inode].data_block_num[b] \in Int
<1>1. inode \in 0..inode_count - 1
  BY ImageAssumption DEF TypeOK
<1>2. flength(inode) \in Nat
  BY <1>1, ImageAssumption DEF flength
<1>3. ASSUME NEW b \in Nat, b * NUM_B_IN_FOUR_KB < flength(inode)
      PROVE  b \in 0..(flength(inode) \div NUM_B_IN_FOUR_KB)
  <2>1. /\ NUM_B_IN_FOUR_KB \in Nat /\ b * NUM_B_IN_FOUR_KB \in Nat
        /\ NUM_B_IN_FOUR_KB > 0
    BY ImageAssumption
  <2>2. (b * NUM_B_IN_FOUR_KB) \div NUM_B_IN_FOUR_KB = b
    BY <2>1, Quotient
  <2> DEFINE d == flength(inode) \div NUM_B_IN_FOUR_KB
             r == flength(inode) % NUM_B_IN_FOUR_KB
  <2>3. d \in Nat /\ r \in 0..NUM_B_IN_FOUR_KB - 1 /\ flength(inode) = d * NUM_B_IN_FOUR_KB + r
    BY <1>2, Divide
  <2> HIDE DEF d, r
  <2>4. ~(d < b)
    <3> SUFFICES ASSUME d < b PROVE FALSE
      OBVIOUS
    <3>1. d * NUM_B_IN_FOUR_KB + NUM_B_IN_FOUR_KB <= b * NUM_B_IN_FOUR_KB
      BY <2>3, Multiples
    <3>2. d * NUM_B_IN_FOUR_KB \in Nat
      BY <2>1, <2>3
    <3>. QED
      BY <1>2, <1>3, <2>1, <2>3, <3>1, <3>2
  <2>. QED
    BY <2>3, <2>4 DEF d
<1>. QED
  BY <1>1, <1>2, <1>3, ImageAssumption DEF flength

----------------------------------------------------------------------------
(* Each step keeps it *)

\* What the call should return depends on the arguments only
LEMMA SameArguments ==
  ASSUME inode' = inode, from' = from, length' = length
  PROVE  /\ read_data(inode, from, length)' = read_data(inode, from, length)
         /\ copied(inode, from, length)' = copied(inode, from, length)
BY DEF read_data, copied, Missing, Touched, Available, flength, Smaller

\* A return: what is left to show is that the value is the right one
LEMMA FinishIInv ==
  ASSUME IInv, NEW value \in Nat \union {-1}, Finish(value),
         value = read_data(inode, from, length), count = copied(inode, from, length)
  PROVE  IInv'
<1>1. /\ pc' = "done" /\ ret' = value
      /\ UNCHANGED <<inode, from, length, offset, count, index_in_inode, index_in_data_block,
                     data_block, buf>>
  BY DEF Finish, args
<1>2. TypeOK'
  BY <1>1 DEF IInv, TypeOK
<1>3. Position' /\ Found'
  BY <1>1 DEF IInv, Position, Found
<1>4. CopiesTheFile'
  BY <1>1 DEF IInv, CopiesTheFile
<1>5. Computes'
  <2>1. Len(buf') = count
    BY <1>1 DEF IInv, TypeOK
  <2>. QED
    BY <1>1, <2>1, SameArguments DEF Computes
<1>. QED
  BY <1>2, <1>3, <1>4, <1>5 DEF IInv

LEMMA StartIInv == IInv /\ Start => IInv'
<1> SUFFICES ASSUME IInv, Start PROVE IInv'
  OBVIOUS
<1>1. /\ pc = "start" /\ count = 0 /\ offset = from /\ from \in Nat /\ inode \in Nat
      /\ inode_count \in Nat /\ TypeOK /\ Len(buf) = 0 /\ length \in Nat /\ offset \in Nat
  BY ImageAssumption, ReadDataAssumption DEF Start, IInv, TypeOK, Position
<1>2. CASE inode >= inode_count /\ Finish(-1)
  <2>1. read_data(inode, from, length) = -1 /\ copied(inode, from, length) = 0
    BY <1>2 DEF read_data, copied
  <2>. QED
    BY <1>1, <1>2, <2>1, FinishIInv
<1>3. CASE inode < inode_count /\ offset >= flength(inode) /\ Finish(0)
  <2>1. ~(inode >= inode_count) /\ from >= flength(inode)
    BY <1>1, <1>3
  <2>2. read_data(inode, from, length) = 0 /\ copied(inode, from, length) = 0
    BY <2>1 DEF read_data, copied
  <2>. QED
    BY <1>1, <1>3, <2>2, FinishIInv
<1>4. CASE /\ inode < inode_count /\ offset < flength(inode)
           /\ index_in_inode' = offset \div NUM_B_IN_FOUR_KB
           /\ index_in_data_block' = offset % NUM_B_IN_FOUR_KB
           /\ pc' = "lookup"
           /\ UNCHANGED <<args, offset, count, data_block, buf, ret>>
  <2> DEFINE q == offset \div NUM_B_IN_FOUR_KB
             r == offset % NUM_B_IN_FOUR_KB
  <2>1. q \in Nat /\ r \in 0..NUM_B_IN_FOUR_KB - 1 /\ offset = q * NUM_B_IN_FOUR_KB + r
    BY <1>1, Divide
  <2>2. index_in_inode' = q /\ index_in_data_block' = r /\ from \div NUM_B_IN_FOUR_KB = q
    BY <1>1, <1>4
  <2> HIDE DEF q, r
  <2>3. UNCHANGED <<inode, from, length, offset, count, data_block, buf, ret>> /\ pc' = "lookup"
    BY <1>4 DEF args
  <2>4. /\ NUM_B_IN_FOUR_KB \in Nat /\ q * NUM_B_IN_FOUR_KB \in Nat /\ flength(inode) \in Nat
        /\ r \in 0..NUM_B_IN_FOUR_KB
    <3>1. NUM_B_IN_FOUR_KB \in Nat
      BY ImageAssumption
    <3>2. flength(inode) \in Nat
      BY <1>1, <1>4, FileType
    <3>. QED
      BY <2>1, <3>1, <3>2
  <2>5. TypeOK'
    BY <1>1, <2>1, <2>2, <2>3, <2>4 DEF TypeOK
  <2>6. flength(inode)' = flength(inode) /\ (from \div NUM_B_IN_FOUR_KB)' = q
    BY <2>2, <2>3 DEF flength
  <2>7. Position'
    BY <1>1, <1>4, <2>1, <2>2, <2>3, <2>4, <2>6 DEF Position
  <2>8. Found'
    <3>1. ~ \E b \in q..q - 1 : TRUE
      BY <2>1
    <3>. QED
      BY <2>2, <2>3, <2>6, <3>1 DEF Found
  <2>9. CopiesTheFile'
    BY <1>1, <2>3 DEF CopiesTheFile
  <2>10. Computes'
    BY <2>3 DEF Computes
  <2>. QED
    BY <2>5, <2>7, <2>8, <2>9, <2>10 DEF IInv
<1>. QED
  BY <1>2, <1>3, <1>4 DEF Start

LEMMA LookupIInv == IInv /\ Lookup => IInv'
<1> SUFFICES ASSUME IInv, Lookup PROVE IInv'
  OBVIOUS
<1> DEFINE N == NUM_B_IN_FOUR_KB
<1>1. /\ pc = "lookup" /\ TypeOK /\ N \in Nat \ {0} /\ from \in Nat /\ length \in Nat /\ offset \in Nat
      /\ count \in Nat /\ count <= length /\ index_in_inode \in Nat /\ index_in_data_block \in Nat
      /\ inode \in Nat /\ inode_count \in Nat /\ data_count \in Int
  BY ImageAssumption, ReadDataAssumption DEF Lookup, IInv, TypeOK
<1>2. /\ offset = from + count /\ inode < inode_count /\ from < flength(inode)
      /\ offset = index_in_inode * N + index_in_data_block
      /\ from \div N <= index_in_inode /\ index_in_inode * N < flength(inode)
      /\ index_in_data_block < N /\ offset < flength(inode)
      /\ count < length \/ count = 0
      /\ IF index_in_inode = from \div N THEN count = 0 ELSE index_in_data_block = 0
  BY <1>1 DEF IInv, Position
<1>3. flength(inode) \in Nat /\ data_block_num \in Int
  BY <1>1, <1>2, FileType DEF data_block_num
<1>4. from \div N \in Nat
  BY <1>1, Divide
<1>5. CASE data_block_num >= data_count /\ Finish(-1)
  <2>1. index_in_inode \in Touched(inode, from, length)
    <3> DEFINE n == Available(inode, from, length)
               last == IF n = 0 THEN from ELSE from + n - 1
    <3>1. n \in Nat /\ (n = 0 => length = 0) /\ (n > 0 => n >= count + 1)
      BY <1>1, <1>2, <1>3 DEF Available, Smaller
    <3>2. offset <= last /\ last \in Nat
      BY <1>1, <1>2, <3>1
    <3> HIDE DEF n, last
    <3>3. offset \div N = index_in_inode
      BY <1>1, <1>2, Quotient
    <3>4. last \div N \in Nat /\ last % N \in 0..N - 1 /\ last = (last \div N) * N + (last % N)
      BY <3>2, Divide
    <3>5. index_in_inode <= last \div N
      <4>1. (last \div N) * N \in Nat
        BY <1>1, <3>4
      <4>2. offset < (last \div N) * N + N
        BY <1>1, <3>2, <3>4, <4>1
      <4>. QED
        BY <1>1, <3>3, <3>4, <4>2, QuotientBound
    <3>6. index_in_inode \in (from \div N)..(last \div N)
      BY <1>1, <1>2, <1>4, <3>4, <3>5
    <3>. QED
      BY <3>6 DEF Touched, n, last
  <2>2. ~(inode >= inode_count) /\ ~(from >= flength(inode))
    BY <1>1, <1>2, <1>3
  <2> DEFINE missing == Missing(inode, from, length)
             first   == CHOOSE b \in missing : \A c \in missing : b <= c
  <2>3. index_in_inode \in missing
    BY <1>5, <2>1 DEF Missing, data_block_num
  <2>4. ASSUME NEW c \in missing PROVE index_in_inode <= c /\ c \in Int
    <3>1. c \in Touched(inode, from, length) /\ inodes[inode].data_block_num[c] >= data_count
      BY DEF Missing
    <3>2. c \in Int /\ c >= from \div N
      BY <1>4, <3>1 DEF Touched
    <3>3. ~(c < index_in_inode)
      <4> SUFFICES ASSUME c < index_in_inode PROVE FALSE
        OBVIOUS
      <4>1. c \in (from \div N)..index_in_inode - 1
        BY <1>1, <1>4, <3>2
      <4>2. inodes[inode].data_block_num[c] < data_count
        BY <1>1, <4>1 DEF IInv, Found, Present
      <4>3. inodes[inode].data_block_num[c] \in Int
        <5>1. c \in Nat /\ c * N + N <= index_in_inode * N
          BY <1>1, <1>4, <3>2, Multiples
        <5>2. c * N \in Nat /\ index_in_inode * N \in Nat
          BY <1>1, <5>1
        <5>3. c * N < flength(inode)
          BY <1>1, <1>2, <1>3, <5>1, <5>2
        <5>. QED
          BY <1>1, <1>2, <5>1, <5>3, FileType
      <4>. QED
        BY <1>1, <3>1, <4>2, <4>3
    <3>. QED
      BY <1>1, <3>2, <3>3
  <2> HIDE DEF missing
  <2>5. first = index_in_inode
    <3>1. first \in missing /\ \A c \in missing : first <= c
      BY <1>1, <2>3, <2>4
    <3> HIDE DEF first
    <3>2. first <= index_in_inode /\ index_in_inode <= first /\ first \in Int
      BY <2>3, <2>4, <3>1
    <3>. QED
      BY <1>1, <3>2
  <2> HIDE DEF first
  <2>6. read_data(inode, from, length) = -1
    BY <2>2, <2>3 DEF read_data, missing
  <2>7. count = IF index_in_inode * N > from THEN index_in_inode * N - from ELSE 0
    <3>0. index_in_inode * N \in Nat
      BY <1>1
    <3>1. CASE index_in_inode = from \div N
      <4>1. index_in_inode * N <= from
        BY <1>1, <1>2, <3>0, <3>1
      <4>. QED
        BY <1>1, <1>2, <3>0, <3>1, <4>1
    <3>2. CASE index_in_inode # from \div N
      BY <1>1, <1>2, <3>0, <3>2
    <3>. QED
      BY <3>1, <3>2
  <2>8. count = copied(inode, from, length)
    <3>1. copied(inode, from, length) = IF first * N > from THEN first * N - from ELSE 0
      BY <2>2, <2>3 DEF copied, missing, first
    <3>. QED
      BY <2>5, <2>7, <3>1
  <2>. QED
    BY <1>5, <2>6, <2>8, FinishIInv
<1>6. CASE /\ data_block_num < data_count
           /\ data_block' = BlockStart(data_block_num)
           /\ pc' = "copy"
           /\ UNCHANGED <<args, offset, count, index_in_inode, index_in_data_block, buf, ret>>
  <2>1. /\ UNCHANGED <<inode, from, length, offset, count, index_in_inode, index_in_data_block, buf, ret>>
        /\ data_block' = BlockStart(data_block_num) /\ pc' = "copy"
    BY <1>6 DEF args
  <2>2. BlockStart(data_block_num) \in Int
    BY <1>1, <1>3 DEF BlockStart
  <2>3. TypeOK'
    BY <1>1, <2>1, <2>2 DEF TypeOK
  <2>4. flength(inode)' = flength(inode) /\ data_block_num' = data_block_num
    BY <2>1 DEF flength, data_block_num
  <2>5. Position'
    BY <1>1, <1>2, <1>3, <2>1, <2>4 DEF Position
  <2>6. ASSUME NEW b \in (from \div N)..index_in_inode PROVE Present(b)
    <3>1. CASE b = index_in_inode
      BY <1>6, <3>1 DEF Present, data_block_num
    <3>2. CASE b # index_in_inode
      <4>1. b \in (from \div N)..index_in_inode - 1
        BY <1>1, <1>4, <3>2
      <4>. QED
        BY <1>1, <4>1 DEF IInv, Found
    <3>. QED
      BY <3>1, <3>2
  <2>7. Found'
    BY <2>1, <2>4, <2>6 DEF Found, Present, BlockStart
  <2>8. CopiesTheFile'
    BY <2>1 DEF IInv, CopiesTheFile, Address, BlockStart
  <2>9. Computes'
    BY <2>1 DEF Computes
  <2>. QED
    BY <2>3, <2>5, <2>7, <2>8, <2>9 DEF IInv
<1>. QED
  BY <1>5, <1>6 DEF Lookup

\* A byte of a block with a nonnegative number lies in the data blocks
LEMMA SourceInImage ==
  ASSUME IInv, pc = "copy", More
  PROVE  /\ data_block_num \in Int
         /\ data_block_num >= 0 => Source \in BlockStart(0)..BlockStart(data_count) - 1
         /\ BlockStart(0) \in Nat
<1> DEFINE N == NUM_B_IN_FOUR_KB
<1>1. /\ TypeOK /\ N \in Nat \ {0} /\ from \in Nat /\ index_in_inode \in Nat
      /\ index_in_data_block \in Nat /\ index_in_data_block < N
      /\ inode_count \in Nat /\ data_count \in Int
  BY ImageAssumption, ReadDataAssumption DEF More, IInv, TypeOK
<1>2. /\ inode < inode_count /\ from \div N <= index_in_inode /\ index_in_inode * N < flength(inode)
      /\ data_block = BlockStart(data_block_num) /\ data_block_num < data_count
  <2>1. from \div N \in Nat
    BY <1>1, Divide
  <2>2. inode < inode_count /\ from \div N <= index_in_inode /\ index_in_inode * N < flength(inode)
    BY <1>1 DEF IInv, Position
  <2>3. index_in_inode \in (from \div N)..index_in_inode
    BY <1>1, <2>1, <2>2
  <2>. QED
    BY <2>2, <2>3 DEF IInv, Found, Present, data_block_num
<1>3. data_block_num \in Int
  BY <1>1, <1>2, FileType DEF data_block_num
<1>4. data_block_num >= 0 => Source \in BlockStart(0)..BlockStart(data_count) - 1
  <2> SUFFICES ASSUME data_block_num >= 0
               PROVE  Source \in BlockStart(0)..BlockStart(data_count) - 1
    OBVIOUS
  <2> DEFINE w == inode_count + 0 + 1
             x == inode_count + data_block_num + 1
             y == inode_count + data_count + 1
             here == data_block + index_in_data_block
  <2>1. w \in Nat /\ x \in Nat /\ y \in Nat /\ w <= x /\ x < y
    BY <1>1, <1>2, <1>3
  <2>2. data_block = N * x /\ BlockStart(data_count) = N * y /\ BlockStart(0) = N * w
    BY <1>2 DEF BlockStart
  <2> HIDE DEF w, x, y
  <2>3. x * N + N <= y * N /\ (w < x => w * N + N <= x * N)
    BY <2>1, Multiples
  <2>4. /\ N * x = x * N /\ N * y = y * N /\ N * w = w * N
        /\ x * N \in Nat /\ y * N \in Nat /\ w * N \in Nat
    BY <1>1, <2>1
  <2>5. w * N <= x * N
    BY <1>1, <2>1, <2>3, <2>4
  <2>6. here \in BlockStart(0)..BlockStart(data_count) - 1
    BY <1>1, <2>2, <2>3, <2>4, <2>5
  <2>7. BlockStart(0) \in Nat /\ BlockStart(data_count) \in Nat
    BY <2>2, <2>4
  <2>8. here \in 0..ADDRESSES - 1
    <3>1. ADDRESSES \in Nat /\ BlockStart(data_count) <= ADDRESSES
      BY ReadDataAssumption
    <3> HIDE DEF here
    <3>. QED
      BY <2>6, <2>7, <3>1
  <2>9. Source = here
    BY <2>8, AddressIs DEF Source
  <2>. QED
    BY <2>6, <2>9
<1>5. BlockStart(0) \in Nat
  BY <1>1 DEF BlockStart
<1>. QED
  BY <1>3, <1>4, <1>5

LEMMA CopyByteIInv == IInv /\ CopyByte => IInv'
<1> SUFFICES ASSUME IInv, CopyByte PROVE IInv'
  OBVIOUS
<1> DEFINE N == NUM_B_IN_FOUR_KB
           byte == Source
<1>1. /\ pc = "copy" /\ TypeOK /\ N \in Nat \ {0} /\ from \in Nat /\ length \in Nat /\ offset \in Nat
      /\ count \in Nat /\ index_in_inode \in Nat /\ index_in_data_block \in Nat
      /\ inode_count \in Nat /\ data_count \in Int /\ data_block \in Int
      /\ count < length /\ index_in_data_block < N /\ offset < flength(inode)
      /\ buf \in Seq(Int) /\ Len(buf) = count
  BY ImageAssumption, ReadDataAssumption DEF CopyByte, More, IInv, TypeOK
<1>2. /\ buf' = Append(buf, byte)
      /\ index_in_data_block' = index_in_data_block + 1 /\ offset' = offset + 1 /\ count' = count + 1
      /\ UNCHANGED <<pc, inode, from, length, index_in_inode, data_block, ret>>
  BY DEF CopyByte, args
<1>3. /\ offset = from + count /\ inode < inode_count /\ from < flength(inode)
      /\ offset = index_in_inode * N + index_in_data_block
      /\ from \div N <= index_in_inode /\ index_in_inode * N < flength(inode)
      /\ data_block = BlockStart(data_block_num) /\ data_block_num < data_count
  <2>1. from \div N \in Nat
    BY <1>1, Divide
  <2>. QED
    <3>1. /\ offset = from + count /\ inode < inode_count /\ from < flength(inode)
          /\ offset = index_in_inode * N + index_in_data_block
          /\ from \div N <= index_in_inode /\ index_in_inode * N < flength(inode)
      BY <1>1 DEF IInv, Position
    <3>2. index_in_inode \in (from \div N)..index_in_inode
      BY <1>1, <2>1, <3>1
    <3>. QED
      BY <1>1, <3>1, <3>2 DEF IInv, Found, Present, data_block_num
<1>4. flength(inode) \in Nat /\ data_block_num \in Int
  BY <1>1, <1>3, FileType DEF data_block_num
<1>5. /\ flength(inode)' = flength(inode) /\ data_block_num' = data_block_num
      /\ \A n : BlockStart(n)' = BlockStart(n) /\ Address(n)' = Address(n)
  BY <1>2 DEF flength, data_block_num, BlockStart, Address
<1>6. buf' \in Seq(Int) /\ Len(buf') = count + 1
  <2>1. byte \in Int
    BY <1>1, AddressIs DEF Source
  <2>. QED
    BY <1>1, <1>2, <2>1
<1>7. TypeOK'
  BY <1>1, <1>2, <1>6 DEF TypeOK
<1>8. Position'
  <2>1. index_in_inode * N \in Nat
    BY <1>1
  <2>. QED
    BY <1>1, <1>2, <1>3, <1>4, <1>5, <2>1 DEF Position
<1>9. Found'
  BY <1>1, <1>2, <1>5 DEF IInv, Found, Present
<1>10. data_block_num >= 0 => byte \in BlockStart(0)..BlockStart(data_count) - 1
  <2>1. More
    BY DEF CopyByte
  <2>. QED
    BY <1>1, <2>1, SourceInImage
<1>11. offset \div N = index_in_inode /\ offset % N = index_in_data_block
  <2>1. index_in_data_block \in 0..N - 1
    BY <1>1
  <2>. QED
    BY <1>1, <1>3, <2>1, Quotient
<1>12. CopiesTheFile'
  <2> DEFINE Block(i) == inodes[inode].data_block_num[(from + i - 1) \div N]
             Right(b, i) == /\ b[i] = Address(BlockStart(Block(i)) + ((from + i - 1) % N))
                            /\ Block(i) >= 0 => b[i] \in BlockStart(0)..BlockStart(data_count) - 1
  <2>1. ASSUME NEW i \in 1..Len(buf') PROVE Right(buf', i)
    <3>1. CASE i = count + 1
      <4>1. from + i - 1 = offset
        BY <1>1, <1>3, <3>1
      <4>2. buf'[i] = byte
        BY <1>1, <1>2, <3>1
      <4>3. Block(i) = data_block_num
        BY <1>11, <4>1 DEF data_block_num
      <4>4. byte = Address(BlockStart(data_block_num) + (offset % N))
        BY <1>3, <1>11 DEF Source
      <4>. QED
        BY <1>10, <4>1, <4>2, <4>3, <4>4
    <3>2. CASE i # count + 1
      <4>1. i \in 1..Len(buf)
        BY <1>1, <1>6, <3>2
      <4>2. buf'[i] = buf[i]
        BY <1>1, <1>2, <4>1
      <4>3. Right(buf, i)
        BY <4>1 DEF IInv, CopiesTheFile
      <4>. QED
        BY <4>2, <4>3
    <3>. QED
      BY <3>1, <3>2
  <2>2. pc' # "fault"
    BY <1>1, <1>2
  <2>. QED
    BY <1>2, <1>5, <2>1, <2>2 DEF CopiesTheFile
<1>13. Computes'
  BY <1>1, <1>2 DEF Computes
<1>. QED
  BY <1>7, <1>8, <1>9, <1>12, <1>13 DEF IInv

LEMMA NextBlockIInv == IInv /\ NextBlock => IInv'
<1> SUFFICES ASSUME IInv, NextBlock PROVE IInv'
  OBVIOUS
<1> DEFINE N == NUM_B_IN_FOUR_KB
<1>1. /\ pc = "copy" /\ TypeOK /\ N \in Nat \ {0} /\ from \in Nat /\ length \in Nat /\ offset \in Nat
      /\ count \in Nat /\ count <= length /\ index_in_inode \in Nat /\ index_in_data_block \in Nat
      /\ index_in_data_block <= N /\ inode \in Nat /\ inode_count \in Nat /\ data_count \in Int
      /\ ~(count < length /\ index_in_data_block < N /\ offset < flength(inode))
  BY ImageAssumption, ReadDataAssumption DEF NextBlock, More, IInv, TypeOK
<1>2. /\ index_in_data_block' = 0 /\ index_in_inode' = index_in_inode + 1
      /\ UNCHANGED <<inode, from, length, offset, count, data_block, buf>>
  BY DEF NextBlock, args
<1>3. /\ offset = from + count /\ inode < inode_count /\ from < flength(inode)
      /\ offset <= flength(inode)
      /\ offset = index_in_inode * N + index_in_data_block
      /\ from \div N <= index_in_inode /\ from \div N \in Nat
      /\ \A b \in (from \div N)..index_in_inode : Present(b)
  BY <1>1, Divide DEF IInv, Position, Found
<1>4. flength(inode) \in Nat
  BY <1>1, <1>3, FileType
<1>5. index_in_inode * N \in Nat
  BY <1>1
<1>6. flength(inode)' = flength(inode)
  BY <1>2 DEF flength
<1>7. pc' # "fault" => CopiesTheFile'
  BY <1>2 DEF IInv, CopiesTheFile, Address, BlockStart
<1>8. CASE (count >= length \/ offset >= flength(inode)) /\ pc' = "done" /\ ret' = count
  <2>1. TypeOK'
    BY <1>1, <1>2, <1>8 DEF TypeOK
  <2>2. Position' /\ Found'
    BY <1>2, <1>3, <1>8 DEF Position, Found
  <2> DEFINE n == Available(inode, from, length)
             last == IF n = 0 THEN from ELSE from + n - 1
  <2>3. n = count
    BY <1>1, <1>3, <1>4, <1>8 DEF Available, Smaller
  <2>4. last \in Nat /\ last <= offset /\ (last = from \/ last < offset)
    BY <1>1, <1>3, <2>3
  <2> HIDE DEF n, last
  <2>5. last \div N <= index_in_inode /\ last \div N \in Nat
    <3>1. CASE last = from
      BY <1>3, <3>1
    <3>2. CASE last < offset
      <4>1. last < index_in_inode * N + N
        BY <1>1, <1>3, <1>5, <2>4, <3>2
      <4>. QED
        BY <1>1, <2>4, <4>1, QuotientBound, Divide
    <3>. QED
      BY <2>4, <3>1, <3>2
  <2>6. ASSUME NEW b \in Touched(inode, from, length)
        PROVE  ~(inodes[inode].data_block_num[b] >= data_count)
    <3>1. b \in (from \div N)..(last \div N)
      BY DEF Touched, n, last
    <3>2. b \in (from \div N)..index_in_inode /\ b \in Nat
      BY <1>1, <1>3, <2>5, <3>1
    <3>3. Present(b)
      BY <1>3, <3>2
    <3>4. inodes[inode].data_block_num[b] \in Int
      <4>1. b * N < flength(inode)
        <5>1. b <= index_in_inode
          BY <1>1, <1>3, <3>2
        <5>2. index_in_inode * N < flength(inode)
          BY <1>1 DEF IInv, Position
        <5>3. b * N \in Nat /\ (b < index_in_inode => b * N + N <= index_in_inode * N)
          BY <1>1, <3>2, Multiples
        <5>. QED
          BY <1>1, <1>4, <1>5, <3>2, <5>1, <5>2, <5>3
      <4>. QED
        BY <1>1, <1>3, <3>2, <4>1, FileType
    <3>. QED
      BY <1>1, <3>3, <3>4 DEF Present
  <2>7. ~(inode >= inode_count) /\ ~(from >= flength(inode))
    BY <1>1, <1>3, <1>4
  <2>8. read_data(inode, from, length) = count /\ copied(inode, from, length) = count
    <3>1. Missing(inode, from, length) = {}
      BY <2>6 DEF Missing
    <3>. QED
      BY <2>3, <2>7, <3>1 DEF read_data, copied, n
  <2>9. Len(buf') = count
    BY <1>1, <1>2 DEF TypeOK
  <2>10. Computes'
    BY <1>2, <1>8, <2>8, <2>9, SameArguments DEF Computes
  <2>. QED
    BY <1>7, <1>8, <2>1, <2>2, <2>10 DEF IInv
<1>9. CASE ~(count >= length \/ offset >= flength(inode)) /\ pc' = "lookup" /\ ret' = ret
  <2>1. count < length /\ offset < flength(inode) /\ index_in_data_block = N
    BY <1>1, <1>4, <1>9
  <2>2. TypeOK'
    BY <1>1, <1>2, <1>9 DEF TypeOK
  <2>3. offset = (index_in_inode + 1) * N
    <3>1. (index_in_inode + 1) * N = index_in_inode * N + N
      BY <1>1
    <3>. QED
      BY <1>3, <2>1, <3>1
  <2>4. offset = (index_in_inode + 1) * N + 0 /\ (index_in_inode + 1) * N < flength(inode)
    BY <1>1, <2>1, <2>3
  <2>5. Position'
    <3>1. offset' = index_in_inode' * N + index_in_data_block' /\ index_in_inode' * N < flength(inode)
      BY <1>2, <2>4
    <3>2. /\ index_in_data_block' < N /\ (from \div N)' <= index_in_inode'
          /\ index_in_inode' # (from \div N)' /\ index_in_data_block' = 0
      BY <1>1, <1>2, <1>3
    <3>. QED
      BY <1>1, <1>2, <1>3, <1>6, <1>9, <2>1, <3>1, <3>2 DEF Position
  <2>6. Found'
    <3>1. index_in_inode' - 1 = index_in_inode
      BY <1>1, <1>2
    <3>. QED
      BY <1>2, <1>3, <1>9, <3>1 DEF Found, Present
  <2>7. Computes'
    BY <1>9 DEF Computes
  <2>. QED
    BY <1>7, <1>9, <2>2, <2>5, <2>6, <2>7 DEF IInv
<1>. QED
  BY <1>8, <1>9 DEF NextBlock

LEMMA FaultIInv == IInv /\ Fault => IInv'
<1> SUFFICES ASSUME IInv, Fault PROVE IInv'
  OBVIOUS
<1>1. /\ pc = "copy" /\ More /\ pc' = "fault" /\ Source \notin 0..BlockStart(data_count) - 1
      /\ UNCHANGED <<inode, from, length, offset, count, index_in_inode, index_in_data_block,
                     data_block, buf, ret>>
  BY DEF Fault, args
<1>2. TypeOK'
  BY <1>1 DEF IInv, TypeOK
<1>3. Position' /\ Found' /\ Computes'
  BY <1>1 DEF IInv, Position, Found, Computes
<1>4. data_block_num < 0
  <2>1. /\ data_block_num \in Int
        /\ data_block_num >= 0 => Source \in BlockStart(0)..BlockStart(data_count) - 1
        /\ BlockStart(0) \in Nat
    BY <1>1, SourceInImage
  <2>. QED
    BY <1>1, <2>1
<1>5. CopiesTheFile'
  <2>1. data_block_num' = data_block_num
    BY <1>1 DEF data_block_num
  <2>. QED
    BY <1>1, <1>4, <2>1 DEF IInv, CopiesTheFile, Address, BlockStart
<1>. QED
  BY <1>2, <1>3, <1>5 DEF IInv

LEMMA StepIInv == IInv /\ [Next]_vars => IInv'
<1> SUFFICES ASSUME IInv, [Next]_vars PROVE IInv'
  OBVIOUS
<1>1. CASE UNCHANGED vars
  <2>1. UNCHANGED <<pc, inode, from, length, offset, count, index_in_inode, index_in_data_block,
                    data_block, buf, ret>>
    BY <1>1 DEF vars, args
  <2>2. TypeOK' /\ Position' /\ Found'
    BY <2>1 DEF IInv, TypeOK, Position, Found, Present, flength, data_block_num, BlockStart
  <2>3. CopiesTheFile'
    BY <2>1 DEF IInv, CopiesTheFile, Address, BlockStart, data_block_num
  <2>4. Computes'
    BY <2>1, SameArguments DEF IInv, Computes
  <2>. QED
    BY <2>2, <2>3, <2>4 DEF IInv
<1>. QED
  BY <1>1, StartIInv, LookupIInv, CopyByteIInv, FaultIInv, NextBlockIInv DEF Next, Step, Returned

LEMMA SpecIInv == Spec => []IInv
BY InitIInv, StepIInv, PTL DEF Spec

(***************************************************************************)
(* Whatever the image holds, every call of read_data returns the number of *)
(* bytes between the offset and the end of the request or of the file, or  *)
(* -1 for a bad inode or a missing block among those that hold the bytes;  *)
(* the bytes stored are the file's, in order and across blocks, and lie in *)
(* data blocks unless the inode gives a negative number; and the loop      *)
(* follows no block number past the file's end.                            *)
(***************************************************************************)
THEOREM ReadsTheFileAlways == Spec => []ReadsTheFile
<1>1. ASSUME IInv PROVE WithinInode
  BY <1>1 DEF IInv, Position, WithinInode
<1>2. IInv => ReadsTheFile
  BY <1>1 DEF IInv, ReadsTheFile
<1>. QED
  BY <1>2, SpecIInv, PTL
=============================================================================
