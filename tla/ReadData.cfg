\* Every call of read_data on files of up to three blocks
SPECIFICATION Spec
CONSTANTS
  FILENAME_LEN = 32
  NUM_FILES = 1
  NUM_B_IN_FOUR_KB = 2
  Names <- MCNames
  NameLen <- MCNameLen
  Trunc <- MCTrunc
  EmptyName = ""
  direntries <- MCdirentries
  inode_count = 12
  data_count = 4
  inodes <- MCinodes
  ADDRESSES = 64
  Offsets = {0, 1, 2, 3, 4, 5, 6}
  Lengths = {0, 1, 2, 3, 4, 5, 6}
INVARIANT
  ReadsTheFile
PROPERTY
  Terminates
