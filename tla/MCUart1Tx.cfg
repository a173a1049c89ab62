CONSTANTS
  w1 = w1
  w2 = w2
  Writers = {w1, w2}
  NODE_NUM = 3
  Uses <- MCUses
  MaxOpens = 3
  MaxCloses = 2
  MaxWrites = 5
  MaxSent = 6
SPECIFICATION FairSpec
CHECK_DEADLOCK FALSE
INVARIANTS BufferOwnership SentInOrder NoNodeLost NoFault OpenWhileHeld
PROPERTIES TurnsAreSent
