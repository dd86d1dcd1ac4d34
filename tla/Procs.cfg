\* Processes: nested programs, refused and failed executes, process numbers
\* running out; descriptors are limited to one.
SPECIFICATION FairSpec
CONSTANTS
  FILENAME_LEN = 32
  NUM_FILES = 8
  NUM_B_IN_FOUR_KB = 4
  Names <- MCNames
  NameLen <- MCNameLen
  Trunc <- MCTrunc
  EmptyName = ""
  direntries <- MCdirentries
  inode_count = 3
  data_count = 5
  inodes <- MCinodes
  UINT_MOD = 16
  SysDepth = 500
  Args <- MCArgs
  ArgLen <- MCArgLen
  NoArg = ""
  elf = {0, 1}
  BootCommand <- MCBootCommand
  NUM_MAX_PROCESSES = 3
  NUM_MAX_OPEN_FILES = 3
  MAX_INPUT_CHARS = 1
  Commands <- MCCommands
  OpenNames = {"frame0.txt"}
  Counts <- MCCounts
  Buffers <- MCBuffers
  Garbage <- MCGarbage
  Statuses = {256}
INVARIANTS
  TypeOK
  Coherent
  CallStack
PROPERTIES
  NestedCalls
  Isolation
  Restarts
