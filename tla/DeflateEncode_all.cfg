SPECIFICATION Spec
CONSTANTS
  Datas <- SomeDatas
  Coded <- SomeCodes
  Spares = {0, 2}
  RESERVE = 4
  MaxCalls = 2
INVARIANTS TypeOK FlushedIsWhole FewMarkers
PROPERTIES Returns
CHECK_DEADLOCK FALSE
