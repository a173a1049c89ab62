CONSTANTS
  w1 = w1
  w2 = w2
  Writers = {w1, w2}
  NODE_NUM = 3
  Uses <- MCAlone
  MaxOpens = 1
  MaxCloses = 0
  MaxWrites = 2
  MaxSent = 6
SPECIFICATION FairSpec
CHECK_DEADLOCK FALSE
PROPERTIES AcceptedIsSent
