SPECIFICATION HandshakeSpec
CONSTANTS
  CR = "r"
  LF = "n"
  MAX_HEADERS_SIZE = 6
  BLOCK_SIZE = 3
  Streams <- AllStreams
  RequestBytes <- Bytes
  Setups <- AllSetups
  Bits = {9, 12, 15}
  Codes <- SomeCodes
  ForeignRequests <- Requests
  ForeignAnswers <- Bursts
INVARIANTS HandshakeTypeOK EndNotOverlooked BufferBounded SameOutcome NoStaleAnswer KeepsWhatFollows ValidAccepted ProtocolsSeen Agreement  AcceptsAnOffer
PROPERTIES Decodes Completes
CHECK_DEADLOCK FALSE
