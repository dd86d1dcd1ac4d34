------------------------------ MODULE ReadData ------------------------------
(***************************************************************************)
(* One call of read_data (filesys.c), instruction by instruction: the      *)
(* nested loops that find the data blocks of a file and copy bytes from    *)
(* them.  FileSys states what the call returns; this module shows that the *)
(* loops compute it, and which bytes of the image they copy.  Addresses    *)
(* count from the start of the image; where a byte is read they wrap around *)
(* as pointers do.                                                         *)
(***************************************************************************)
EXTENDS FileSys, Sequences

CONSTANTS
  Offsets, Lengths, \* the arguments callers pass
  ADDRESSES         \* how many addresses there are (2^32)

\* The blocks of the image: the boot block, the inodes, the data blocks
BlockStart(n) == NUM_B_IN_FOUR_KB * (inode_count + n + 1)

ASSUME ReadDataAssumption ==
  /\ Offsets \subseteq Nat /\ Lengths \subseteq Nat
  /\ ADDRESSES \in Nat \ {0}
  /\ BlockStart(data_count) <= ADDRESSES  \* the image lies in memory

VARIABLES
  pc,                  \* the next step, "done", or "fault" after a page fault
  inode, from, length, \* the arguments
  offset, count,
  index_in_inode, index_in_data_block,
  data_block,          \* where the block being copied starts
  buf,                 \* for every byte stored, the address it was copied from
  ret                  \* the value returned

args == <<inode, from, length>>
vars == <<pc, args, offset, count, index_in_inode, index_in_data_block,
          data_block, buf, ret>>

TypeOK ==
  /\ pc \in {"start", "lookup", "copy", "done", "fault"}
  /\ inode \in 0..inode_count /\ from \in Offsets /\ length \in Lengths
  /\ offset \in Nat /\ count \in 0..length
  /\ index_in_inode \in Nat
  /\ index_in_data_block \in 0..NUM_B_IN_FOUR_KB
  /\ data_block \in Int
  /\ buf \in Seq(Int) /\ Len(buf) = count
  /\ ret \in Nat \union {-1}

Init ==
  /\ pc = "start"
  /\ inode \in 0..inode_count /\ from \in Offsets /\ length \in Lengths
  /\ offset = from /\ count = 0
  /\ index_in_inode = 0 /\ index_in_data_block = 0
  /\ data_block = 0
  /\ buf = <<>>
  /\ ret = 0

Finish(value) ==
  /\ pc' = "done"
  /\ ret' = value
  /\ UNCHANGED <<args, offset, count, index_in_inode, index_in_data_block,
                 data_block, buf>>

Start ==
  /\ pc = "start"
  /\ \/ inode >= inode_count /\ Finish(-1)
     \/ inode < inode_count /\ offset >= flength(inode) /\ Finish(0)
     \/ /\ inode < inode_count /\ offset < flength(inode)
        /\ index_in_inode' = offset \div NUM_B_IN_FOUR_KB
        /\ index_in_data_block' = offset % NUM_B_IN_FOUR_KB
        /\ pc' = "lookup"
        /\ UNCHANGED <<args, offset, count, data_block, buf, ret>>

data_block_num == inodes[inode].data_block_num[index_in_inode]

\* Mutant: the first block past the image is accepted
Lookup_off_by_one ==
  /\ pc = "lookup"
  /\ \/ data_block_num > data_count /\ Finish(-1)
     \/ /\ data_block_num <= data_count
        /\ data_block' = BlockStart(data_block_num)
        /\ pc' = "copy"
        /\ UNCHANGED <<args, offset, count, index_in_inode,
                       index_in_data_block, buf, ret>>

\* Mutant: a missing block is looked up again instead of ending the call
Lookup_retries ==
  /\ pc = "lookup"
  /\ IF data_block_num >= data_count
     THEN UNCHANGED <<pc, data_block>>
     ELSE pc' = "copy" /\ data_block' = BlockStart(data_block_num)
  /\ UNCHANGED <<args, offset, count, index_in_inode, index_in_data_block, buf, ret>>

Lookup ==
  /\ pc = "lookup"
  /\ \/ data_block_num >= data_count /\ Finish(-1)
     \/ /\ data_block_num < data_count
        /\ data_block' = BlockStart(data_block_num)
        /\ pc' = "copy"
        /\ UNCHANGED <<args, offset, count, index_in_inode,
                       index_in_data_block, buf, ret>>

\* The inner loop's condition
More == /\ count < length
        /\ index_in_data_block < NUM_B_IN_FOUR_KB
        /\ offset < flength(inode)

Address(n) == n % ADDRESSES

\* Where the next byte is copied from
Source == Address(data_block + index_in_data_block)

CopyByte ==
  /\ pc = "copy"
  /\ More
  /\ buf' = Append(buf, Source)
  /\ index_in_data_block' = index_in_data_block + 1
  /\ offset' = offset + 1
  /\ count' = count + 1
  /\ UNCHANGED <<pc, args, index_in_inode, data_block, ret>>

\* What lies outside the image may not be mapped
Fault ==
  /\ pc = "copy"
  /\ More
  /\ Source \notin 0..BlockStart(data_count) - 1
  /\ pc' = "fault"
  /\ UNCHANGED <<args, offset, count, index_in_inode, index_in_data_block,
                 data_block, buf, ret>>

NextBlock ==
  /\ pc = "copy"
  /\ ~More
  /\ index_in_data_block' = 0
  /\ index_in_inode' = index_in_inode + 1
  /\ IF count >= length \/ offset >= flength(inode)
     THEN pc' = "done" /\ ret' = count
     ELSE pc' = "lookup" /\ ret' = ret
  /\ UNCHANGED <<args, offset, count, data_block, buf>>

Step == Start \/ Lookup \/ CopyByte \/ Fault \/ NextBlock

Returned == pc \in {"done", "fault"} /\ UNCHANGED vars

Next == Step \/ Returned

\* No system call is preempted: the loop runs on
Spec == Init /\ [][Next]_vars /\ WF_vars(Step)

----------------------------------------------------------------------------
(* Properties *)

\* read_data returns what FileSys, and with it the system calls, takes it to
\* return: the bytes between the offset and the end of the request or the
\* file, or -1 for a bad inode or a missing block among those it visits, and
\* in this case it has stored the bytes in front of that block.
Computes ==
  pc = "done" => /\ ret = read_data(inode, from, length)
                 /\ Len(buf) = copied(inode, from, length)

\* The i-th byte stored is the file's byte at offset + i, also across block
\* boundaries.  It comes from a data block of the image, never from the inodes
\* nor from past the image, unless the inode names a negative block: the
\* signed comparison lets that through, and the copy may then fault.
CopiesTheFile ==
  /\ \A i \in 1..Len(buf) :
       LET position == from + i - 1
           block    == inodes[inode].data_block_num[position \div NUM_B_IN_FOUR_KB]
       IN  /\ buf[i] = Address(BlockStart(block) + (position % NUM_B_IN_FOUR_KB))
           /\ block >= 0 => buf[i] \in BlockStart(0)..BlockStart(data_count) - 1
  /\ pc = "fault" => data_block_num < 0

\* The loop looks up no entry of data_block_num past the file's last byte.
WithinInode == pc = "lookup" => index_in_inode * NUM_B_IN_FOUR_KB < flength(inode)

\* read_data reads the file: it returns the right count, stores the right
\* bytes, no more of them than asked for, looks up no block past the file's
\* end, and leaves the data blocks only where the image itself says so, by a
\* negative block number.
ReadsTheFile == TypeOK /\ Computes /\ CopiesTheFile /\ WithinInode

\* The call returns, or stops the machine by a page fault.
Terminates == <>(pc \in {"done", "fault"})
=============================================================================
