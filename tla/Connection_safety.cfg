SPECIFICATION Spec
CONSTANTS
  Ops <- AllOps
  MaxSends <- TwoOne
  OutCap = 2
  PipeCap = 1
  Fragile = {"server"}
INVARIANTS TypeOK FrameSync PongsMirrorPings AnswersAreFlushed ShutAfterClose CloseIsLastOfItsHalf CloseReported
PROPERTIES ImplementsChannel
CHECK_DEADLOCK FALSE
