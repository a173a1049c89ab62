CONSTANTS
  NodeNum = 5
  Line = {"OK", "ERROR", "MODE2", "CLOSE", "HCMGSS", "OTHER"}
  NoCommand = "NoCommand"
  EarlyClose = TRUE
  StrictModem = FALSE
  ErrCmds = {"IPINIT", "IPINIT?", "HSMSSS", "SMS", "IPOPEN", "IPDATMODE", "IPENTRANS"}
  MaxErrs = 1
  MaxCloses = 1
  MaxModes = 1
  MaxNoise = 0
  MaxDrops = 1
SPECIFICATION Spec
CHECK_DEADLOCK FALSE
INVARIANTS OrderlyNetReadyMeansLinked OneAnswerAwaited
PROPERTIES UsesRing
