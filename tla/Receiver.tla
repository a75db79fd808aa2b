------------------------------ MODULE Receiver -------------------------------
(***************************************************************************)
(* Receiver::receive of src/connection.rs against an arbitrary peer: how   *)
(* frames become messages.  Fragments are put together, interleaved control*)
(* frames handled, compressed messages inflated (Deflate::decode), and the *)
(* message size limit enforced.                                            *)
(*                                                                         *)
(* The stream is one of tokens: a frame is a header token followed by one  *)
(* token for each unit of payload.  FrameIO shows that headers and masked  *)
(* payloads are read correctly from bytes; Connection adds the concurrent  *)
(* use of the writer.                                                      *)
(***************************************************************************)
EXTENDS Naturals, Sequences, SequencesExt

CONSTANT Cases      \* what to consider: records [setup, Inputs]

\* Inputs are the frame sequences that the peer may send, and setup is how the
\* Receiver is built and used: [
\*   MaxLeft            bound on the tokens the handshake left in Receiver::buffer,
\*   has_extensions     is permessage-deflate enabled?
\*   max_message_size,
\*   ClearsMessage      does the caller pass an empty message to each call?
\*   Prior              the length of the message passed to the first call ]

\* The frames that decode_header accepts.  The field body is about the payload:
\* "good", or data that cannot be inflated ("corrupt"), or for a CLOSE frame fewer
\* than two bytes ("short"), text that is not UTF-8 ("utf8") or an unacceptable
\* code ("code").
Frames ==
  [opcode : {"Continue", "Text", "Binary", "Close", "Ping", "Pong"}, fin : BOOLEAN, rsv1 : BOOLEAN,
   len : Nat, body : {"good", "corrupt", "short", "utf8", "code"}]

ASSUME ReceiverAssumption == \A c \in Cases :
  /\ c.setup.has_extensions \in BOOLEAN /\ c.setup.ClearsMessage \in BOOLEAN
  /\ c.setup.MaxLeft \in Nat /\ c.setup.max_message_size \in Nat /\ c.setup.Prior \in Nat
  /\ \A frames \in c.Inputs : frames \in Seq(Frames) /\ frames # <<>>

VARIABLES
  setup,                  \* how the Receiver is built and used
  input,                  \* the frames the peer sends
  expected,               \* what the caller should be told, computed from input
  stream,                 \* the tokens that arrive
  sock, cur,              \* tokens read from the socket, and consumed;
                          \* Receiver::buffer holds those in between
  pc,                     \* where receive is; "idle" between calls
  header,                 \* index in input of the frame being received
  given, message,         \* the argument of receive as passed, and now
  first_fragment_opcode,
  length,
  is_closed,              \* Receiver::is_closed
  await_last_fragment,    \* Deflate::await_last_fragment
  results,                \* what calls of receive have returned
  replies                 \* control frames written by on_control

peer   == <<setup, input, expected>>
local  == <<given, first_fragment_opcode, length>>
vars   == <<setup, input, expected, stream, sock, cur, pc, header, given, message, first_fragment_opcode,
            length, is_closed, await_last_fragment, results, replies>>

has_extensions   == setup.has_extensions
max_message_size == setup.max_message_size

-----------------------------------------------------------------------------
(* Tokens                                                                  *)

\* Token <<i, 0, 0>> is the header of frame i, <<i, j, 0>> the j-th of its payload.
Payload(i, frame) == [j \in 1..frame.len |-> <<i, j, 0>>]

\* The tokens of the first i frames, for every i.
TokensUpTo(frames) ==
  LET upTo[i \in 0..Len(frames)] ==
        IF i = 0 THEN <<>> ELSE upTo[i - 1] \o <<<<i, 0, 0>>>> \o Payload(i, frames[i])
  IN  upTo

Tokens(frames) == TokensUpTo(frames)[Len(frames)]

\* DeflateDecoder: a token of compressed data yields two.
Inflate(data) == [k \in 1..2 * Len(data) |-> <<data[(k + 1) \div 2][1], data[(k + 1) \div 2][2], 1 + (k % 2)>>]

\* Is the payload of frame i part of a compressed message?
Compressed(frames, i) ==
  i > 0 /\ \E k \in 1..i : /\ frames[k].rsv1 /\ frames[k].opcode \in {"Text", "Binary"}
                           /\ \A m \in k+1..i : frames[m].opcode \notin {"Text", "Binary"}

\* Compressed data that DeflateDecoder refuses.
Undecodable(frames, data) == \E k \in 1..Len(data) : data[k][1] > 0 /\ frames[data[k][1]].body = "corrupt"

is_control(opcode) == opcode \in {"Close", "Ping", "Pong"}

Result(kind, what, data) == [kind |-> kind, what |-> what, data |-> data]
Err(error)   == Result("Err", error, <<>>)
Reply(opcode, code, data) == [opcode |-> opcode, code |-> code, data |-> data]

-----------------------------------------------------------------------------
(* What RFC 6455 (5.4, 5.5) and RFC 7692 (6.2) make of a sequence of       *)
(* frames: the results and replies they call for.  Nothing is said of what *)
(* follows a protocol error or the end of the connection.  In one thing it *)
(* follows the code and not RFC 7692: with an extension the reserved bit   *)
(* is let through on every frame, continuations and control frames too.    *)

NoMessage == [opcode |-> "none", data |-> <<>>]

Tell(s, result) == [s EXCEPT !.results = Append(@, result)]
Stop(s)         == [s EXCEPT !.stop = TRUE]

\* A reason that is not UTF-8 fails the connection.  A CLOSE without a reason is
\* reported as Error::Closed.
CloseReplies(f) == IF f.body = "utf8" THEN <<>> ELSE <<Reply("Close", f.body, <<>>)>>
CloseResult(f)  == CASE f.body = "utf8"  -> Err("Utf8")
                     [] f.body = "short" -> Err("Closed")
                     [] OTHER             -> Result("Closed", f.body, <<>>)

\* The effect of frame i when s.open is the message begun by earlier frames.  Its
\* header alone may be reason enough to refuse it; whole says that the payload is
\* there.
Interpret(s, frames, i, whole) ==
  LET f    == frames[i]
      mine == Payload(i, f)
      data == s.open.data \o mine
      kind == IF f.opcode = "Continue" THEN s.open.opcode ELSE f.opcode
  IN  IF f.rsv1 /\ ~has_extensions THEN Stop(Tell(s, Err("Codec")))
      ELSE IF ~is_control(f.opcode) /\ Len(data) > max_message_size
           THEN Tell([s EXCEPT !.open = NoMessage], Err("MessageTooLarge"))
      ELSE IF ~whole             THEN s
      ELSE IF f.opcode = "Pong"  THEN Tell(s, Result("Pong", "Pong", mine))
      ELSE IF f.opcode = "Ping"  THEN [s EXCEPT !.replies = Append(@, Reply("Pong", "none", mine))]
      ELSE IF f.opcode = "Close" THEN Stop(Tell([s EXCEPT !.replies = @ \o CloseReplies(f)], CloseResult(f)))
      ELSE IF (f.opcode = "Continue") # (s.open.opcode # "none") THEN Stop(Tell(s, Err("UnexpectedOpCode")))
      ELSE IF ~f.fin             THEN [s EXCEPT !.open = [opcode |-> kind, data |-> data]]
      ELSE IF Compressed(frames, i) /\ Undecodable(frames, data) THEN Stop(Tell(s, Err("Extension")))
      ELSE Tell([s EXCEPT !.open = NoMessage],
                Result("Data", kind, IF Compressed(frames, i) THEN Inflate(data) ELSE data))

\* What the first i frames call for, for every i.  cut: the last frame is incomplete.
ExpectedUpTo(frames, cut) ==
  LET upTo[i \in 0..Len(frames)] ==
        IF i = 0 THEN [open |-> NoMessage, results |-> <<>>, replies |-> <<>>, stop |-> FALSE]
        ELSE IF upTo[i - 1].stop THEN upTo[i - 1]
        ELSE Interpret(upTo[i - 1], frames, i, ~cut \/ i < Len(frames))
  IN  upTo

Expected(frames, cut) ==
  LET last == ExpectedUpTo(frames, cut)[Len(frames)]
  IN  IF last.stop THEN last ELSE Tell(last, Err("Closed"))

-----------------------------------------------------------------------------
\* The connection may be lost within the last frame.
Init ==
  /\ \E c \in Cases : setup = c.setup /\ input \in c.Inputs
  /\ \/ stream = Tokens(input) /\ expected = Expected(input, FALSE)
     \/ /\ Last(input).len > 0
        /\ stream = Front(Tokens(input)) /\ expected = Expected(input, TRUE)
  /\ sock \in { n \in 0..setup.MaxLeft : n <= Len(stream) }
  /\ cur = 0
  /\ pc = "idle"
  /\ header = 0
  /\ given = <<>>
  /\ message = [j \in 1..setup.Prior |-> <<0, j, 0>>]
  /\ first_fragment_opcode = "none"
  /\ length = 0
  /\ is_closed = FALSE
  /\ await_last_fragment = FALSE
  /\ results = <<>>
  /\ replies = <<>>

Larger(a, b) == IF a > b THEN a ELSE b

\* Mutant: the buffer is taken to hold everything.
TakeFromBuffer(n) == cur' = cur + n /\ sock' = sock

\* Takes n tokens from the buffer, and what it lacks from the socket.
TakeTokens(n) == cur' = cur + n /\ sock' = Larger(sock, cur + n)

Return(result) == pc' = "idle" /\ results' = Append(results, result)

\* A caller goes on until an error; a message that is too large is no reason to stop.
GaveUp == results # <<>> /\ Last(results).kind = "Err" /\ Last(results).what # "MessageTooLarge"

\* receive is called.
Receive ==
  /\ pc = "idle" /\ ~GaveUp
  /\ message' = IF setup.ClearsMessage THEN <<>> ELSE message
  /\ given' = message'
  /\ first_fragment_opcode' = "none"
  /\ length' = 0
  /\ pc' = "loop"
  /\ UNCHANGED <<peer, stream, sock, cur, header, is_closed, await_last_fragment, results, replies>>

\* Mutant: the loop goes on although the connection is closed.
ReceiveClosedLoops == pc = "loop" /\ is_closed /\ UNCHANGED vars

\* receive: the connection is closed.
ReceiveClosed ==
  /\ pc = "loop" /\ is_closed
  /\ Return(Err("Closed"))
  /\ UNCHANGED <<peer, local, stream, sock, cur, header, message, is_closed, await_last_fragment, replies>>

\* Mutant: a closed connection is read on.
StillOpenAlways == pc = "loop"

StillOpen == pc = "loop" /\ ~is_closed

\* Does receive_header take a payload for a header?  What happens then depends on
\* the bytes and is not followed any further.
Misread == stream[cur + 1][2] # 0

\* receive_header; decode_header refuses the reserved bit if no extension uses it.
ReceiveHeader ==
  /\ StillOpen
  /\ cur < Len(stream)
  /\ TakeTokens(1)
  /\ header' = stream[cur + 1][1]
  /\ LET frame == input[header'] IN
       IF ~Misread /\ frame.rsv1 /\ ~has_extensions
       THEN Return(Err("Codec"))
       ELSE /\ pc' = IF Misread THEN "misread" ELSE IF is_control(frame.opcode) THEN "control" ELSE "data"
            /\ UNCHANGED results
  /\ UNCHANGED <<peer, local, stream, message, is_closed, await_last_fragment, replies>>

\* receive_header, read_buffer or read_exact meet the end of the stream.
Eof ==
  /\ \/ StillOpen /\ cur = Len(stream)
     \/ pc = "control" /\ cur + input[header].len > Len(stream)
     \/ /\ pc = "data" /\ length + input[header].len <= max_message_size
        /\ cur + input[header].len > Len(stream)
  /\ cur' = Len(stream) /\ sock' = Len(stream)
  /\ Return(Err("Closed"))
  /\ UNCHANGED <<peer, local, stream, header, message, is_closed, await_last_fragment, replies>>

-----------------------------------------------------------------------------
(* Control frames                                                          *)

\* Mutant: the whole buffer becomes the payload of the control frame.
ReadBufferAll ==
  /\ pc = "control"
  /\ cur + input[header].len <= Len(stream)
  /\ TakeTokens(Larger(input[header].len, sock - cur))

\* read_buffer, and splitting off the payload.
ReadBuffer ==
  /\ pc = "control"
  /\ cur + input[header].len <= Len(stream)
  /\ TakeTokens(input[header].len)

CtrlBuffer == SubSeq(stream, cur + 1, cur')

OnPong ==
  /\ ReadBuffer
  /\ input[header].opcode = "Pong"
  /\ Return(Result("Pong", "Pong", CtrlBuffer))
  /\ UNCHANGED <<peer, local, stream, header, message, is_closed, await_last_fragment, replies>>

\* on_control writes a PONG with the payload of the PING.
OnPing ==
  /\ ReadBuffer
  /\ input[header].opcode = "Ping"
  /\ replies' = Append(replies, Reply("Pong", "none", CtrlBuffer))
  /\ pc' = "loop"
  /\ UNCHANGED <<peer, local, stream, header, message, is_closed, await_last_fragment, results>>

\* close_answer: the reason cannot be decoded.
OnCloseUtf8 ==
  /\ ReadBuffer
  /\ input[header].opcode = "Close" /\ input[header].body = "utf8"
  /\ Return(Err("Utf8"))
  /\ UNCHANGED <<peer, local, stream, header, message, is_closed, await_last_fragment, replies>>

\* on_control echoes the CLOSE; an unacceptable code is answered with 1002, here "code".
Acknowledge ==
  /\ replies' = Append(replies, Reply("Close", input[header].body, <<>>))
  /\ is_closed' = TRUE

\* Without a reason receive goes on, to find that is_closed is set.
OnClose ==
  /\ ReadBuffer
  /\ input[header].opcode = "Close" /\ input[header].body # "utf8"
  /\ Acknowledge
  /\ IF input[header].body = "short"
     THEN pc' = "loop" /\ UNCHANGED results
     ELSE Return(Result("Closed", input[header].body, <<>>))
  /\ UNCHANGED <<peer, local, stream, header, message, await_last_fragment>>

-----------------------------------------------------------------------------
(* Data frames                                                             *)

\* Without its first n elements, or empty.
Skip(s, n) == SubSeq(s, n + 1, Len(s))

\* Mutant: the payload stays in the socket.
TooLargeKeeps ==
  /\ pc = "data"
  /\ length + input[header].len > max_message_size
  /\ length' = length + input[header].len
  /\ Return(Err("MessageTooLarge"))
  /\ UNCHANGED <<peer, stream, sock, cur, header, given, message, first_fragment_opcode, is_closed,
                 await_last_fragment, replies>>

\* discard_bytes drops as many bytes from the reader as the message has so far:
\* those behind the ones in the buffer.
TooLarge ==
  /\ pc = "data"
  /\ length + input[header].len > max_message_size
  /\ length' = length + input[header].len
  /\ stream' = SubSeq(stream, 1, sock) \o Skip(Skip(stream, sock), length')
  /\ Return(Err("MessageTooLarge"))
  /\ UNCHANGED <<peer, sock, cur, header, given, message, first_fragment_opcode, is_closed,
                 await_last_fragment, replies>>

\* Does the opcode not fit what has been received of the message?
Unexpected(frame) == (frame.opcode = "Continue") # (first_fragment_opcode # "none")

\* Deflate::decode starts to wait for the last fragment of a compressed message.
StartsCompressed(frame, data) ==
  has_extensions /\ data # <<>> /\ frame.opcode \in {"Text", "Binary"} /\ frame.rsv1 /\ ~frame.fin

\* Mutant: every last fragment is inflated.
InflatesEvery(frame, data) ==
  /\ has_extensions /\ data # <<>> /\ frame.fin
  /\ frame.opcode = "Continue" \/ frame.rsv1

\* Deflate::decode inflates data.
Inflates(frame, data) ==
  /\ has_extensions /\ data # <<>> /\ frame.fin
  /\ IF frame.opcode = "Continue" THEN await_last_fragment ELSE frame.rsv1

\* Mutant: the length of earlier fragments is forgotten.
ReadPayloadForgets(frame) ==
  /\ length' = frame.len
  /\ cur + frame.len <= Len(stream)
  /\ TakeTokens(frame.len)

\* The payload is read, from the buffer first.
ReadPayload(frame) ==
  /\ length' = length + frame.len
  /\ cur + frame.len <= Len(stream)
  /\ TakeTokens(frame.len)

\* Mutant: the payload is put in front.
InFront(frame) == SubSeq(stream, cur + 1, cur + frame.len) \o message

\* message with the payload at its end.
Extended(frame) == message \o SubSeq(stream, cur + 1, cur + frame.len)

\* The next frame of a message, which is not too large.
Fragment(frame) ==
  /\ pc = "data"
  /\ length + frame.len <= max_message_size
  /\ ReadPayload(frame)

\* A fragment or message that the opcodes so far do not allow.
OnUnexpected ==
  /\ Fragment(input[header])
  /\ Unexpected(input[header])
  /\ message' = Extended(input[header])
  /\ Return(Err("UnexpectedOpCode"))
  /\ UNCHANGED <<peer, stream, header, given, first_fragment_opcode, is_closed, await_last_fragment, replies>>

\* The first fragment of a message, or an intermediate one.
OnFragment ==
  /\ Fragment(input[header])
  /\ ~input[header].fin /\ ~Unexpected(input[header])
  /\ message' = Extended(input[header])
  /\ first_fragment_opcode' = IF input[header].opcode = "Continue" THEN first_fragment_opcode ELSE input[header].opcode
  /\ await_last_fragment' = (await_last_fragment \/ StartsCompressed(input[header], message'))
  /\ pc' = "loop"
  /\ UNCHANGED <<peer, stream, header, given, is_closed, results, replies>>

\* A message in one frame, or the last fragment; decode_with_extensions follows.
Complete(frame) ==
  /\ Fragment(frame)
  /\ frame.fin /\ ~Unexpected(frame)
  /\ first_fragment_opcode' = "none"
  /\ await_last_fragment' = (await_last_fragment /\ ~(frame.opcode = "Continue" /\ Inflates(frame, Extended(frame))))
  /\ UNCHANGED <<peer, stream, header, given, is_closed, replies>>

\* The whole of message is inflated.  The result describes what is behind the part
\* that was given.
OnLast ==
  LET frame == input[header]
      kind  == IF frame.opcode = "Continue" THEN first_fragment_opcode ELSE frame.opcode
  IN  /\ Complete(frame)
      /\ IF Inflates(frame, Extended(frame))
         THEN ~Undecodable(input, Extended(frame)) /\ message' = Inflate(Extended(frame))
         ELSE message' = Extended(frame)
      /\ Return(Result("Data", kind, Skip(message', Len(given))))

\* DeflateDecoder fails.  It may do so on all data that is not compressed.
OnLastCorrupt ==
  LET frame == input[header]
      data  == Extended(frame)
  IN  /\ Complete(frame)
      /\ Inflates(frame, data)
      /\ Undecodable(input, data) \/ \E k \in 1..Len(data) : ~Compressed(input, data[k][1])
      /\ message' = data
      /\ Return(Err("Extension"))

-----------------------------------------------------------------------------
Next ==
  \/ Receive \/ ReceiveClosed \/ ReceiveHeader \/ Eof
  \/ OnPong \/ OnPing \/ OnCloseUtf8 \/ OnClose
  \/ TooLarge \/ OnUnexpected \/ OnFragment \/ OnLast \/ OnLastCorrupt

Spec == Init /\ [][Next]_vars

\* The caller keeps calling receive, and the peer's bytes arrive.
FairSpec == Spec /\ WF_vars(Next)

-----------------------------------------------------------------------------
(* Properties                                                              *)

\* Positions are within the stream, and a message is only open within a call.
TypeOK ==
  /\ cur <= sock /\ sock <= Len(stream)
  /\ pc \in {"idle", "loop", "control", "data", "misread"}
  /\ pc \in {"control", "data"} => header \in 1..Len(input)
  /\ first_fragment_opcode \in {"none", "Text", "Binary"}
  /\ length <= Len(Tokens(input))
  /\ {is_closed, await_last_fragment} \subseteq BOOLEAN

\* receive tells its callers what the frames mean, and all of it: every message put
\* together from its own fragments and inflated exactly if it was compressed, every
\* PONG, the CLOSE and every error, in their order.
Reassembles ==
  /\ \A i \in 1..Len(results) : i <= Len(expected.results) => results[i] = expected.results[i]
  /\ GaveUp => Len(results) >= Len(expected.results)

\* Every PING is answered by a PONG with its payload, and a CLOSE by a CLOSE, in
\* their order, whatever message they interrupt; nothing else is written, and when
\* the caller gives up no answer is missing.
Answers ==
  /\ IsPrefix(replies, expected.replies)
  /\ GaveUp => Len(replies) = Len(expected.replies)

\* Payload is never taken for a header: receive_header always starts at the first
\* byte of a frame.
InSync == pc # "misread"

\* What receive collects before a message is complete never exceeds
\* max_message_size, over all its fragments.
SizeLimit == pc \in {"loop", "data"} => Len(message) - Len(given) <= max_message_size

\* After the CLOSE nothing is read from the socket and nothing written.
QuietAfterClose == [][is_closed => UNCHANGED <<sock, cur, message, replies>> \/ pc = "idle"]_vars

\* What the caller passed in message is still there: received data is appended.
MessageAppended == SubSeq(message, 1, Len(given)) = given

\* The caller always learns the end of the connection.
Ends == <>GaveUp

=============================================================================
