SPECIFICATION Spec
CONSTANTS
  PI = FALSE
  RtThrottling = FALSE
  Slices = 1
  MaxMsgs = 1
  MaxOpens = 2
  MaxPay = 1
  MaxTicks = 1
  MaxCmds = 1
INVARIANTS
  ReadNeverBlocks
CHECK_DEADLOCK FALSE
