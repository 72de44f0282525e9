SPECIFICATION FairSpec
CONSTANTS
  PI = FALSE
  RtThrottling = TRUE
  Slices = 1
  MaxMsgs = 2
  MaxOpens = 1
  MaxPay = 0
  MaxTicks = 1
  MaxCmds = 2
INVARIANTS
  MutualExclusion
  LogFaithful
  ChecksOnlyWhileStarted
  StopNotLost
PROPERTIES
  ImplementsSharedLog
  MessagesLogged
CHECK_DEADLOCK FALSE
