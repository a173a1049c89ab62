CONSTANTS
  NodeNum = 5
  Line = {"OK", "ERROR", "MODE2", "CLOSE", "HCMGSS", "OTHER"}
  NoCommand = "NoCommand"
  EarlyClose = TRUE
  StrictModem = FALSE
  ErrCmds = {"IPINIT", "IPOPEN"}
  MaxErrs = 0
  MaxCloses = 1
  MaxModes = 0
  MaxNoise = 0
  MaxDrops = 0
SPECIFICATION FairSpec
CHECK_DEADLOCK FALSE
PROPERTIES CloseRestartsDialling
