----------------------------- MODULE MCReadData -----------------------------
(***************************************************************************)
(* Two-byte blocks and files of every shape: empty, part of a block, whole *)
(* blocks, three blocks out of order, files whose first, middle or last    *)
(* block is missing, and files with a negative block number: an inode, the *)
(* boot block, the memory before the image, and one that wraps around to a *)
(* data block.                                                             *)
(***************************************************************************)
EXTENDS ReadData

MCNames == {"", "."}
MCNameLen == [n \in MCNames |-> IF n = "" THEN 0 ELSE 1]
MCTrunc == [n \in MCNames |-> n]
MCdirentries == [i \in 0..0 |->
  [filename |-> ".", filetype |-> FILE_TYPE_DIR, inode_num |-> 0]]

\* An inode with these blocks; the entry after the last is left over
Inode(len, blocks) ==
  [length |-> len,
   data_block_num |-> [k \in 0..(len \div NUM_B_IN_FOUR_KB) |->
                         IF k < Len(blocks) THEN blocks[k + 1] ELSE 7]]

\* data_count is 4: block 4 is the first that does not exist
MCinodes == [i \in 0..11 |->
  CASE i = 0 -> Inode(0, <<>>)
    [] i = 1 -> Inode(1, <<3>>)
    [] i = 2 -> Inode(2, <<0>>)
    [] i = 3 -> Inode(4, <<2, 1>>)
    [] i = 4 -> Inode(5, <<3, 0, 2>>)
    [] i = 5 -> Inode(5, <<4, 0, 2>>)
    [] i = 6 -> Inode(5, <<0, 4, 2>>)
    [] i = 7 -> Inode(5, <<0, 1, 4>>)
    [] i = 8 -> Inode(5, <<3, -1, 0>>)
    [] i = 9 -> Inode(4, <<-13, 1>>)
    [] i = 10 -> Inode(5, <<-14, 2, 4>>)
    [] OTHER -> Inode(4, <<1, -32>>)]
=============================================================================
