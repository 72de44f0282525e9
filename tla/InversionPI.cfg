SPECIFICATION FairSpec
CONSTANTS
  PI = TRUE
  RtThrottling = FALSE
  Slices = 2
  MaxMsgs = 2
  MaxOpens = 1
  MaxPay = 1
  MaxTicks = 1
  MaxCmds = 1
INVARIANTS
  NoInversion
  ReadNeverBlocks
PROPERTIES
  HealthServed
CHECK_DEADLOCK FALSE
