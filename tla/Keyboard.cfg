\* Every modifier and key, on the smallest screen
SPECIFICATION Spec
CONSTANTS
  NUM_COLS = 1
  NUM_ROWS = 2
  MAX_INPUT_CHARS = 1
  Keyboard <- AllKeys
  Sizes = {1}
  Texts <- OneText
INVARIANT
  NoStuckModifier
