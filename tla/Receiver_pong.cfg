SPECIFICATION Spec
CONSTANTS
  Cases <- PongBetween
INVARIANTS Reassembles
CHECK_DEADLOCK FALSE
