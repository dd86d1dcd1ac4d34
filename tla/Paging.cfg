CONSTANTS
  NUM_ENTRIES = 5
  VM_START = 1
  PAGE_USER = 2
  PAGE_VIDMAP = 3
  PAGE_256MB = 4
  NUM_MAX_PROCESSES = 3
  Programs = {A, B}
  None = None
SYMMETRY Symmetry
SPECIFICATION Spec
INVARIANT KernelMapped
INVARIANT UserConfined
INVARIANT ImagesKept
INVARIANT ScreenReachable
