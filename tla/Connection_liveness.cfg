SPECIFICATION FairSpec
CONSTANTS
  Ops <- OnePinger
  MaxSends <- TwoOne
  OutCap = 1
  PipeCap = 2
  Fragile = {}
PROPERTIES CloseCompletes PingAnswered
CHECK_DEADLOCK FALSE
