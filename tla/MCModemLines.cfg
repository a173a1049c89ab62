CONSTANTS
  AT_CMD_MAX_LEN = 4
  MaxStream = 7
  NodeNum = 2
  Line <- MCLine
  NoCommand = NoCommand
SPECIFICATION MLSpec
INVARIANTS WholeLines RingHoldsUnread DecodesTheStream
PROPERTIES HandlesOldestLine EachLineTaken
CHECK_DEADLOCK FALSE
