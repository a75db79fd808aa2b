SPECIFICATION Spec
CONSTANTS
  Ops <- CloseOps
  MaxSends <- TwoOne
  OutCap = 2
  PipeCap = 2
  Fragile = {}
INVARIANTS NoDataAfterClose
CHECK_DEADLOCK FALSE
