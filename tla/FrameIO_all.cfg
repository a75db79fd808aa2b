SPECIFICATION FairSpec
CONSTANTS
  Inputs <- All
  codec <- DeflateCodec
INVARIANTS TypeOK FramesIntact RefusesMalformed HeaderOnly
PROPERTIES Terminates
CHECK_DEADLOCK FALSE
