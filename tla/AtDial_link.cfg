CONSTANTS
  NodeNum = 5
  Line = {"OK", "ERROR", "MODE2", "CLOSE", "HCMGSS", "OTHER"}
  NoCommand = "NoCommand"
  EarlyClose = TRUE
  StrictModem = TRUE
  ErrCmds = {"IPINIT", "IPOPEN"}
  MaxErrs = 1
  MaxCloses = 0
  MaxModes = 1
  MaxNoise = 0
  MaxDrops = 0
SPECIFICATION Spec
CHECK_DEADLOCK FALSE
INVARIANTS NetReadyMeansLinked
