SPECIFICATION Spec
CONSTANTS
  Ops <- CloseOps
  MaxSends <- TwoOne
  OutCap = 2
  PipeCap = 2
  Fragile = {}
INVARIANTS CloseAlwaysReported
CHECK_DEADLOCK FALSE
