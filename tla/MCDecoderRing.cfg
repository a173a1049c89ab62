CONSTANTS
  NUM = 3
  DevSize = 2
  MaxFrames = 8
SPECIFICATION FairSpec
CHECK_DEADLOCK FALSE
INVARIANTS RingHoldsFrames
PROPERTIES RefusesOnlyWhenFull SplitterReturns FramesDecoded
