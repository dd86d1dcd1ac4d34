\* Editing on a two by three screen: the line wraps, and scrolls it
SPECIFICATION Spec
CONSTANTS
  NUM_COLS = 2
  NUM_ROWS = 3
  MAX_INPUT_CHARS = 3
  Keyboard = {"a", "l", "enter", "backspace", "ctrl_left", "ctrl_left_up"}
  Sizes = {5}
  Texts <- MCTexts
INVARIANTS
  TypeOK
  ScreenShowsLine
PROPERTIES
  DeliveredOnce
  PickedUp
  Listens
