CONSTANTS
  NodeNum = 5
  Line = {"OK", "ERROR", "MODE2", "CLOSE", "HCMGSS", "OTHER"}
  NoCommand = "NoCommand"
  EarlyClose = FALSE
  StrictModem = FALSE
  ErrCmds = {"IPINIT", "IPOPEN"}
  MaxErrs = 2
  MaxCloses = 2
  MaxModes = 0
  MaxNoise = 1
  MaxDrops = 0
SPECIFICATION FairSpec
CHECK_DEADLOCK FALSE
PROPERTIES EventuallyConnected CloseRestartsDialling EventuallyAuthenticated
