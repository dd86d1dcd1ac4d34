\* Descriptors: every order of opens, reads and closes in one program.
SPECIFICATION Spec
CONSTANTS
  FILENAME_LEN = 32
  NUM_FILES = 8
  NUM_B_IN_FOUR_KB = 4
  Names <- MCNames
  NameLen <- MCNameLen
  Trunc <- MCTrunc
  EmptyName = ""
  direntries <- MCdirentries
  inode_count = 3
  data_count = 5
  inodes <- MCinodes
  UINT_MOD = 16
  SysDepth = 500
  Args <- MCArgs
  ArgLen <- MCArgLen
  NoArg = ""
  elf = {0, 1}
  BootCommand <- MCBootCommand
  NUM_MAX_PROCESSES = 1
  NUM_MAX_OPEN_FILES = 4
  MAX_INPUT_CHARS = 2
  Commands <- FilesCommands
  OpenNames <- MCNames
  Counts <- FilesCounts
  Buffers <- OwnBuffers
  Garbage <- MCGarbage
  Statuses = {0}
INVARIANTS
  Usable
  PositionWithinFile
