SPECIFICATION HandshakeSpec
CONSTANTS
  CR = "r"
  LF = "n"
  MAX_HEADERS_SIZE = 6
  BLOCK_SIZE = 3
  Streams <- AllStreams
  RequestBytes <- Bytes
  Setups <- TwoProtocols
  Bits = {9, 12, 15}
  Codes <- SomeCodes
  ForeignRequests <- Requests
  ForeignAnswers <- Bursts
INVARIANTS ProtocolsSeen
CHECK_DEADLOCK FALSE
