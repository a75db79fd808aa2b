------------------------------- MODULE FrameIO -------------------------------
(***************************************************************************)
(* Frames on the byte stream.  A peer writes frames (the function write of *)
(* src/connection.rs); Receiver::receive_header and the code that reads    *)
(* payloads take them off the socket again, in chunks of any size, behind  *)
(* a buffer that may still hold bytes the handshake has read.              *)
(***************************************************************************)
EXTENDS Codec

CONSTANTS
  Inputs,      \* the frame sequences the peer may send
  codec        \* Codec: max_data_size and reserved_bits

\* A frame: its header and as much of its payload as is sent.
Frames == [header : Headers, payload : Seq(Byte)]

\* The bytes of a frame: write masks the payload and puts the header before it.
Encoded(frame) == encode_header(frame.header) \o apply_mask(frame.header, frame.payload)

\* The bytes of the first i frames, for every i.
StreamUpTo(frames) ==
  LET upTo[i \in 0..Len(frames)] == IF i = 0 THEN <<>> ELSE upTo[i - 1] \o Encoded(frames[i])
  IN  upTo

Stream(frames) == StreamUpTo(frames)[Len(frames)]

\* What a peer writes: whole frames, but for the last, whose payload may be cut
\* off by the end of the stream.
Writable(frames) ==
  /\ frames \in Seq(Frames)
  /\ \A i \in 1..Len(frames) :
       /\ ~frames[i].header.masked => frames[i].header.mask = 0
       /\ Len(frames[i].payload) <= frames[i].header.payload_len
       /\ i < Len(frames) => Len(frames[i].payload) = frames[i].header.payload_len

ASSUME FrameIOAssumption ==
  /\ codec.max_data_size \in 0..HUGE-1
  /\ codec.reserved_bits \subseteq 1..3
  /\ \A frames \in Inputs : Writable(frames)

VARIABLES
  input,    \* frames sent by the peer; the payload of the last may be cut off
  stream,   \* their bytes
  left,     \* number of bytes that the handshake left in Receiver::buffer
  sock,     \* number of bytes read from the socket
  cur,      \* number of bytes consumed; the buffer holds the bytes from cur+1 to sock
  pc,       \* "header", "payload", "Closed" or "Err"
  header,   \* the header last decoded
  out       \* the frames received

vars == <<input, stream, left, sock, cur, pc, header, out>>

Buffer == SubSeq(stream, cur + 1, sock)

\* Receiver with the buffer given by Builder::set_buffer.
Init ==
  /\ input \in Inputs
  /\ stream = Stream(input)
  /\ left \in 0..Len(stream)
  /\ sock = left
  /\ cur = 0
  /\ pc = "header"
  /\ header = NewHeader("Continue")
  /\ out = <<>>

-----------------------------------------------------------------------------
\* receive_header: crate::read gets between 1 and n bytes.
ReadMore ==
  /\ pc = "header"
  /\ LET result == decode_header(codec, Buffer) IN
       /\ result.tag = "NeedMore"
       /\ \E k \in 1..result.n :
            /\ sock + k <= Len(stream)
            /\ sock' = sock + k
  /\ UNCHANGED <<input, stream, left, cur, pc, header, out>>

\* receive_header: the read returns 0 bytes.
ReadEof ==
  /\ pc = "header"
  /\ decode_header(codec, Buffer).tag = "NeedMore"
  /\ sock = Len(stream)
  /\ pc' = "Closed"
  /\ UNCHANGED <<input, stream, left, sock, cur, header, out>>

\* receive_header: the header is complete.
HeaderDone ==
  /\ pc = "header"
  /\ LET result == decode_header(codec, Buffer) IN
       /\ result.tag = "Done"
       /\ header' = result.value
       /\ cur' = cur + result.offset
  /\ pc' = "payload"
  /\ UNCHANGED <<input, stream, left, sock, out>>

\* receive_header: decode_header fails.
HeaderErr ==
  /\ pc = "header"
  /\ decode_header(codec, Buffer).tag = "Err"
  /\ pc' = "Err"
  /\ UNCHANGED <<input, stream, left, sock, cur, header, out>>

\* read_buffer, and the data path of receive: bytes are taken from the buffer
\* first, and exactly the missing ones from the socket.
ReadPayload ==
  /\ pc = "payload"
  /\ cur + header.payload_len <= Len(stream)
  /\ cur' = cur + header.payload_len
  /\ sock' = IF cur' > sock THEN cur' ELSE sock
  /\ out' = Append(out, [header |-> header,
                         payload |-> apply_mask(header, SubSeq(stream, cur + 1, cur'))])
  /\ pc' = "header"
  /\ UNCHANGED <<input, stream, left, header>>

\* read_exact fails in the middle of a payload.
PayloadEof ==
  /\ pc = "payload"
  /\ cur + header.payload_len > Len(stream)
  /\ sock' = Len(stream)
  /\ pc' = "Closed"
  /\ UNCHANGED <<input, stream, left, cur, header, out>>

Next == ReadMore \/ ReadEof \/ HeaderDone \/ HeaderErr \/ ReadPayload \/ PayloadEof

Spec == Init /\ [][Next]_vars

FairSpec == Spec /\ WF_vars(Next)

-----------------------------------------------------------------------------
(* Properties.                                                             *)

\* Positions stay within the stream, and a header that is accepted announces no
\* more than Codec::max_data_size bytes.
TypeOK ==
  /\ left \in Nat /\ sock \in Nat /\ cur \in Nat
  /\ cur <= Len(stream) /\ sock <= Len(stream)
  /\ pc \in {"header", "payload", "Closed", "Err"}
  /\ header.payload_len \in 0..codec.max_data_size

\* What RFC 6455, 5.2 and 5.5 ask of a header, given the negotiated extensions, and the
\* codec's own limit.  Which end has to mask, and that a length is encoded as short as
\* possible, is left out: decode_header checks neither, and encode_header writes the
\* shortest length.
WellFormed(h) ==
  /\ h.opcode \in {"Continue", "Text", "Binary", "Close", "Ping", "Pong"}
  /\ h.opcode \in {"Close", "Ping", "Pong"} => h.fin /\ h.payload_len <= 125
  /\ h.rsv1 => 1 \in codec.reserved_bits
  /\ h.rsv2 => 2 \in codec.reserved_bits
  /\ h.rsv3 => 3 \in codec.reserved_bits
  /\ h.payload_len <= codec.max_data_size

\* The frames that come out are those that went in, header and unmasked payload,
\* in whatever pieces the bytes arrive and wherever the handshake stopped reading:
\* decode_header inverts encode_header and no byte is skipped or read twice.
FramesIntact ==
  /\ \A i \in 1..Len(out) : i <= Len(input) /\ out[i] = input[i]
  /\ pc = "payload" => Len(out) < Len(input) /\ header = input[Len(out) + 1].header

\* decode_header refuses a frame exactly if its header is malformed.
RefusesMalformed ==
  /\ pc = "payload" => WellFormed(header)
  /\ pc = "Err" => Len(out) < Len(input) /\ ~WellFormed(input[Len(out) + 1].header)

\* Reading a header never takes a byte of the payload from the socket: in front
\* of a payload the buffer is empty, unless nothing has been read since the
\* handshake.  receive relies on it when it discards payloads straight from the
\* reader.
HeaderOnly == pc = "payload" => sock = cur \/ sock = left

\* receive_header always asks for at least one byte, so reading ends: with a
\* refused frame, or with the end of the stream once all frames are received.
Terminates ==
  <> \/ pc = "Err"
     \/ pc = "Closed" /\ (Len(out) = Len(input) \/ cur + header.payload_len > Len(stream))

=============================================================================
