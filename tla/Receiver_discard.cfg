SPECIFICATION Spec
CONSTANTS
  Cases <- LimitPassed
INVARIANTS InSync
CHECK_DEADLOCK FALSE
