SPECIFICATION Spec
CONSTANTS
  Datas <- WithTail
  Coded <- PlainCodes
  Spares = {0, 2}
  RESERVE = 4
  MaxCalls = 1
INVARIANTS WholeMessage
CHECK_DEADLOCK FALSE
