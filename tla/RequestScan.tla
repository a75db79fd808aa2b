----------------------------- MODULE RequestScan -----------------------------
(***************************************************************************)
(* Server::receive_request of src/handshake/server.rs: the bytes of a      *)
(* request arrive in pieces, and after each of them the server searches    *)
(* the new part of its buffer for the empty line that ends the headers.    *)
(***************************************************************************)
EXTENDS Naturals, Sequences

CONSTANTS
  Streams,             \* what clients may send, as sequences of bytes
  CR, LF,
  MAX_HEADERS_SIZE,
  BLOCK_SIZE

ASSUME RequestScanAssumption ==
  /\ MAX_HEADERS_SIZE \in Nat /\ BLOCK_SIZE \in Nat \ {0}
  /\ MAX_HEADERS_SIZE >= 4
  /\ Streams \subseteq Seq(STRING)

VARIABLES
  stream,    \* the bytes that the client sends before it waits, or hangs up
  got,       \* the number of bytes read; they are in Server::buffer
  skip,
  pc         \* "read", "scan", "decode", and then "Complete", "Partial" or "Err"

vars == <<stream, got, skip, pc>>

Init ==
  /\ stream \in Streams
  /\ got = 0
  /\ skip = 0
  /\ pc = "read"

\* Do the four bytes from i+1 on end the headers?
TailAt(i) == /\ stream[i + 1] = CR /\ stream[i + 2] = LF
             /\ stream[i + 3] = CR /\ stream[i + 4] = LF

\* buffer[from..to] has a window of four bytes that ends the headers.
HasTail(from, to) == \E i \in from..to : i + 4 <= to /\ TailAt(i)

limit == IF got < MAX_HEADERS_SIZE THEN got ELSE MAX_HEADERS_SIZE

-----------------------------------------------------------------------------
\* crate::read
Read ==
  /\ pc = "read"
  /\ \E k \in 1..BLOCK_SIZE : got + k <= Len(stream) /\ got' = got + k
  /\ pc' = "scan"
  /\ UNCHANGED <<stream, skip>>

\* crate::read: the client has hung up.
ReadEof ==
  /\ pc = "read" /\ got = Len(stream)
  /\ pc' = "Err"
  /\ UNCHANGED <<stream, got, skip>>

\* Mutant: the next search starts behind the bytes that have been searched.
BackOffNone(n) == n

\* n.saturating_sub(4)
BackOff(n) == IF n < 4 THEN 0 ELSE n - 4

\* Mutant: the whole buffer may be searched.
AtLimitNever == FALSE

\* Mutant: the headers have to fit in a block.
AtLimitOfBlock == got >= BLOCK_SIZE

\* The server gives up looking.
AtLimit == limit = MAX_HEADERS_SIZE

Scan ==
  /\ pc = "scan"
  /\ IF HasTail(skip, limit) \/ AtLimit
     THEN pc' = "decode" /\ UNCHANGED skip
     ELSE pc' = "read" /\ skip' = BackOff(got)
  /\ UNCHANGED <<stream, got>>

\* decode_request: httparse finds the end of the headers in the buffer, or not.
DecodeRequest ==
  /\ pc = "decode"
  /\ pc' = IF HasTail(0, got) THEN "Complete" ELSE "Partial"
  /\ UNCHANGED <<stream, got, skip>>

Next == Read \/ ReadEof \/ Scan \/ DecodeRequest

Spec == Init /\ [][Next]_vars

-----------------------------------------------------------------------------
(* Properties                                                              *)

\* Positions in the buffer.
TypeOK ==
  /\ stream \in Streams
  /\ got \in 0..Len(stream) /\ skip \in 0..got
  /\ pc \in {"read", "scan", "decode", "Complete", "Partial", "Err"}

\* The server never waits for more bytes when it already has the end of the headers,
\* in whatever pieces they came: a client that has sent its request waits too, so an
\* end that is overlooked blocks both for ever.
EndNotOverlooked == pc = "read" => ~HasTail(0, got)

\* The server never reads on with MAX_HEADERS_SIZE bytes in its buffer, which
\* therefore never holds more than one block more.
BufferBounded == (pc = "read" => got < MAX_HEADERS_SIZE) /\ got < MAX_HEADERS_SIZE + BLOCK_SIZE

\* A request whose headers end within the limit is decoded.
Decodes == pc = "read" /\ HasTail(0, Len(stream)) /\ Len(stream) <= MAX_HEADERS_SIZE ~> pc = "Complete"

=============================================================================
