------------------------------ MODULE FileSys ------------------------------
(***************************************************************************)
(* The read-only file system of student-distrib/filesys.c: the image that  *)
(* filesys_init is handed by the boot loader and the pure functions that   *)
(* read it.  The image never changes, so it is a set of constants.         *)
(*                                                                         *)
(* A file name is an atomic value.  What the code asks of a name is its    *)
(* length (strlen) and its first FILENAME_LEN characters (strncmp against  *)
(* a directory entry); both are constants, NameLen and Trunc.              *)
(***************************************************************************)
EXTENDS Integers, FiniteSets

CONSTANTS
  FILENAME_LEN,     \* bytes of a name kept in a directory entry (32)
  NUM_FILES,        \* directory entries in the boot block (63)
  NUM_B_IN_FOUR_KB, \* bytes in a data block (4096)
  Names,            \* the file names a program may pass
  NameLen,          \* strlen of each name
  Trunc,            \* each name cut to FILENAME_LEN characters
  EmptyName,        \* the empty string, also the name of an unused entry
  direntries,       \* boot_block_t.direntries
  inode_count,      \* boot_block_t.inode_count
  data_count,       \* boot_block_t.data_count
  inodes            \* the inode blocks: length and data_block_num

FILE_TYPE_RTC  == 0
FILE_TYPE_DIR  == 1
FILE_TYPE_FILE == 2

Dentry == [filename : Names, filetype : 0..3, inode_num : Nat]

ASSUME ImageAssumption ==
  /\ FILENAME_LEN \in Nat \ {0}
  /\ NUM_FILES \in Nat \ {0}
  /\ NUM_B_IN_FOUR_KB \in Nat \ {0}
  /\ EmptyName \in Names
  /\ NameLen \in [Names -> Nat]
  /\ Trunc \in [Names -> Names]
  /\ direntries \in [0..NUM_FILES-1 -> Dentry]
  /\ inode_count \in Nat
  /\ data_count \in Int
  \* data_block_num has an entry for every block a file of that length spans
  /\ DOMAIN inodes = 0..inode_count-1
  /\ \A i \in 0..inode_count-1 :
        /\ inodes[i].length \in Nat
        /\ \A k \in 0..(inodes[i].length \div NUM_B_IN_FOUR_KB) :
              inodes[i].data_block_num[k] \in Int

NoDentry == [filename |-> EmptyName, filetype |-> 3, inode_num |-> 0]

----------------------------------------------------------------------------

Smaller(a, b) == IF a <= b THEN a ELSE b

\* The entries strncmp(fname, entry, FILENAME_LEN) == 0 accepts
Matches(fname) ==
  {i \in 0..NUM_FILES-1 : direntries[i].filename = Trunc[fname]}

\* The first match wins; the empty string is refused although it would match
\* every unused entry
read_dentry_by_name(fname) ==
  IF fname = EmptyName \/ Matches(fname) = {}
  THEN NoDentry
  ELSE direntries[CHOOSE i \in Matches(fname) : \A j \in Matches(fname) : i <= j]

read_dentry_by_index(index) ==
  IF index >= NUM_FILES THEN NoDentry ELSE direntries[index]

flength(inode) == inodes[inode].length

\* How many bytes lie between offset and the sooner of offset + length and
\* the end of the file
Available(inode, offset, length) ==
  IF offset >= flength(inode) THEN 0 ELSE Smaller(length, flength(inode) - offset)

\* The blocks the copy loop looks up: the one holding offset, which is looked
\* up even when nothing is asked for, through the one holding the last byte
Touched(inode, offset, length) ==
  LET n == Available(inode, offset, length)
  IN  offset \div NUM_B_IN_FOUR_KB ..
        (IF n = 0 THEN offset ELSE offset + n - 1) \div NUM_B_IN_FOUR_KB

\* Those that are refused.  The comparison is signed: a negative number passes.
Missing(inode, offset, length) ==
  {b \in Touched(inode, offset, length) : inodes[inode].data_block_num[b] >= data_count}

\* What read_data returns: the number of bytes copied, or -1.  The loop that
\* computes it is modelled in ReadData.
read_data(inode, offset, length) ==
  IF inode >= inode_count THEN -1
  ELSE IF offset >= flength(inode) THEN 0
  ELSE IF Missing(inode, offset, length) # {} THEN -1
  ELSE Available(inode, offset, length)

\* How many bytes it stores: when a block is missing, those in front of it
copied(inode, offset, length) ==
  LET missing == Missing(inode, offset, length)
      first   == CHOOSE b \in missing : \A c \in missing : b <= c
      end     == first * NUM_B_IN_FOUR_KB
  IN  IF inode >= inode_count \/ offset >= flength(inode) THEN 0
      ELSE IF missing = {} THEN Available(inode, offset, length)
      ELSE IF end > offset THEN end - offset ELSE 0

\* Whether it copies from outside the data blocks, where memory may not be mapped
Strays(inode, offset, length) ==
  /\ inode < inode_count /\ offset < flength(inode)
  /\ \E b \in Touched(inode, offset, length) : inodes[inode].data_block_num[b] < 0
=============================================================================
