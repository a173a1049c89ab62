CONSTANTS
  Cards = {2}
  LcdTexts = 2
  AdTexts = 0
  MaxAsked = 1
SPECIFICATION Spec
INVARIANT CheckedPointerLive
CHECK_DEADLOCK FALSE
