CONSTANTS
  COLS = 3
  ROWS = 2
  OFFSET = 1
  LENGTH = 2
  ON_LENGTH = 3
  OFF_LENGTH = 1
  LOCATION = 4
  WAIT = 3
  HALF = 32
  Frames <- MCFrames
SPECIFICATION Spec
INVARIANT ListExact
INVARIANT FramesAdded
INVARIANT ScreenCurrent
INVARIANT InPhase
PROPERTY Terminates
