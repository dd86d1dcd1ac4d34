\* The user programs at the shell's prompt, shells nested up to the number of
\* processes.
SPECIFICATION USpec
CONSTANTS
  FILENAME_LEN = 3
  NUM_FILES = 18
  NUM_B_IN_FOUR_KB = 4
  Names <- MCNames
  NameLen <- MCNameLen
  Trunc <- MCTrunc
  EmptyName = ""
  direntries <- MCdirentries
  inode_count = 5
  data_count = 5
  inodes <- MCinodes
  UINT_MOD = 32
  SysDepth = 500
  Args <- MCArgs
  ArgLen <- MCArgLen
  NoArg = ""
  elf = {0, 1}
  BootCommand <- MCBootCommand
  NUM_MAX_PROCESSES = 3
  NUM_MAX_OPEN_FILES = 8
  MAX_INPUT_CHARS = 1
  Commands = {}
  OpenNames = {}
  Counts = {}
  Buffers <- MCBuffers
  Garbage = {}
  Statuses = {}
  BUFSIZE = 6
  SBUFSIZE = 4
  Lines <- MCLines
  Text <- MCText
  Pattern <- MCPattern
  Dotted = {"."}
  CounterMax = 2
  NL = "NL"
  NULchar = "NUL"
  Junk = "junk"
INVARIANTS
  SyserrPasses
  ShowsAll
  GrepFinds
  OnlySigtestFaults
PROPERTIES
  BuffersSuffice
  PromptReturns
