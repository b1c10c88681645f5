SPECIFICATION Spec
CONSTANTS
  MaxFrames = 4
  MaxConns = 3
  Dots = 2
CHECK_DEADLOCK FALSE
INVARIANTS
  TypeOK
  FramesAreWhole
PROPERTY WrittenFrameIsShown
