# A TLA+ model of soketto

soketto is an implementation of the websocket protocol (RFC 6455) with the
permessage-deflate extension (RFC 7692). This directory models its own logic:
framing, the concurrent use of the socket by `Sender` and `Receiver`, how frames
become messages, the handshake, and the extension. TLC checks small instances of
every module; TLAPS proves all their safety properties, among them that the connection
implements its abstract specification, for all parameters. Where the code needs a
condition on its inputs, it is a hypothesis of the theorem.

## The system

| component | state | operations | interacts with |
|---|---|---|---|
| base codec (`base.rs`) | limits and reserved bits | `decode_header`, `encode_header`, `apply_mask` | called by both halves of a connection |
| `Sender` (`connection.rs`) | mask buffer; writer shared through a `BiLock` | `send_*`, `flush`, `close` | writer lock, extensions |
| `Receiver` (`connection.rs`) | read buffer, `ctrl_buffer`, `is_closed`; the same writer | `receive`, `receive_data` | reads the socket; answers PING and CLOSE through the writer; extensions |
| deflate extension (`extension/deflate.rs`) | `enabled`, `params`, window bits, `await_last_fragment`, and a buffer that is kept between calls | `set_max_*_window_bits`, `configure`, `decode`, `encode` | handshake (`configure`), Receiver (`decode`), Sender (`encode`) |
| handshake server (`handshake/server.rs`) | buffer, protocols, extensions | `receive_request`, `send_response` | socket, httparse, extensions; leaves its buffer to the connection |
| handshake client (`handshake/client.rs`) | nonce, buffer, protocols, extensions | `handshake` | same |
| handshake on `http` types (`handshake/http.rs`) | extensions | `receive_request` | an HTTP library, as in `examples/hyper_server.rs`; extensions |
| `Builder` (`connection.rs`) | buffer, extensions, limits | `set_buffer`, `add_extensions`, `finish` | takes over from the handshake |

There are no threads of its own. What is hard is:

* *interleaving*: `Sender` and `Receiver` of one connection are meant to run in
  different tasks and both write. Every `lock().await` and every write is a point
  where the other half may go first;
* *failure*: the peer may vanish at any moment, with bytes lost in buffers, and the
  closing handshake may be begun by either end or both;
* *backpressure*: a write waits for the peer to read;
* *delivery in pieces*: headers, payloads and the handshake arrive in chunks of any
  size, and the handshake may leave the first frames in its buffer;
* *sequences*: an arbitrary peer sends fragments, control frames and compressed
  messages in any order;
* *agreement*: both ends decide for themselves, from what they sent and received, whether
  the handshake has succeeded, with which protocol and with which compression.

`PROJECT.json` lists these hazards at their lines, with the properties that cover
them.

## Modules

| module | models | state and actions |
|---|---|---|
| `Connection` | two ends after the handshake, `connection.rs` | One action for each lock, `write_all`, flush and close, and for the reads of `receive`. A frame is two tokens, header and payload. `wire`, `drained` and `rd` are the transport: what was written, what left the write buffer, what was read. `pc[e][h]` is where each half is, `job` the frame it deals with. |
| `MessageChannel` | what applications may rely on | Two FIFO channels that end with the report of a CLOSE. `sent` is what is on the network, `consumed` how much of it the other end has dealt with: messages and the CLOSE are delivered (`Deliver`), PINGs are absorbed (`Absorb`), and a CLOSE may end in an error (`Fail`) where the code allows it. |
| `Codec` | `base.rs`, byte for byte | Pure operators. |
| `FrameIO` | `write`, `receive_header` and the reading of payloads, on bytes | The stream, which is what `write` makes of the frames one after the other (`StreamUpTo`), how far it was read and consumed; one action per outcome of `decode_header` and of reading a payload. |
| `Receiver` | `receive`, `on_control`, `close_answer`, `Deflate::decode` against an arbitrary peer | Frames as tokens; one action per branch of `receive`. `Expected` is the reference: what the RFCs make of a sequence of frames. |
| `RequestScan` | `Server::receive_request` up to `decode_request` | The bytes read, `skip`, and the search for the empty line. |
| `Negotiation` | `Deflate::new` and `configure`, `configure_extensions` | Pure operators on the struct `Deflate`. |
| `Handshake` | `client.rs`, `server.rs` and `http.rs` of `handshake/`, the handler of `examples/hyper_server.rs`, `Builder::add_extensions` | Extends the last two. One action for each call that an application makes and for each read; `client` and `server` are the two structs with the result of their last call, `request` and `answers` what was sent, `down` and `seen` the bytes to the client. `setup` says who takes part: either end may be another implementation that sends what it likes. |
| `DeflateEncode` | `Deflate::encode` | The compressor, the two buffers and their capacities; one action per round of each loop. |

`MC*` modules hold the instances for TLC, `*Proofs` modules the theorems:
`FrameIOProofs` those about bytes (`Codec` and `FrameIO`), `ConnectionProofs` and
`ChannelProofs`, which extends it, those about `Connection`, `ReceiverProofs` and
`AssemblyProofs`, which extends it, those about `Receiver`, `HandshakeProofs` those about
`RequestScan`, `Negotiation` and `Handshake`, and `DeflateEncodeProofs` those about
`DeflateEncode`. `Induction` has the lemmas about natural numbers and recursive functions
that most of them need.
Definitions marked "Mutant" are variants of a definition with a plausible bug; they
are not used by the specifications and show that a property can fail.

The parts fit together as follows. `FrameIO` shows that whole frames can be read
from bytes, which `Connection` and `Receiver` take for granted. `Connection` has the
concurrency and takes frames to be unfragmented, as `Sender` writes them; `Receiver`
has one reader and all the frames a peer may send. `MessageChannel` is the abstract
specification that `Connection` implements. `Handshake` hands over to them: what its
`builder` holds at the end (leftover bytes, whether the reserved bit is in use) is what
`FrameIO` and `Receiver` start from. `DeflateEncode` yields what the deflate setting of
`Receiver` takes for a compressed message. The mapping to `MessageChannel` takes as
`sent` the frames whose payload has left the write buffer, and as `consumed` those that
were read, except a CLOSE that is still being answered.

## Runs

| run | shows | bounds |
|---|---|---|
| `connection_safety` | frames are never torn (`FrameSync`); PONGs mirror PINGs (`PongsMirrorPings`); nothing is left in the buffer after an answer, flush or close (`AnswersAreFlushed`); the writer is only shut behind a CLOSE (`ShutAfterClose`), which is the last frame of its half (`CloseIsLastOfItsHalf`) and is reported unless this end closes too or the peer has vanished (`CloseReported`); the system implements `MessageChannel` (`ImplementsChannel`) | three calls in all (two of the client), every method, a write buffer of one frame, one token in flight, a server that may die. Both halves of both ends compete with a call, an answer and a close, which is every pair of writers there is. |
| `connection_liveness` | `CloseCompletes`, also when both ends close, and `PingAnswered`, under fairness | a write buffer of one token and one frame in flight, so that writers have to wait; three calls in all; the client pings, the server sends data, both may close |
| `frame_io` | decoding inverts encoding (`FramesIntact`), refuses of the headers that `encode_header` writes exactly those with an illegal opcode, reserved bit, fragmentation or length (`RefusesMalformed`), takes no payload with a header (`HeaderOnly`) and ends (`Terminates`) | all 16 opcodes, reserved bits, lengths on both sides of 125/126, 65535/65536 and the maximum; all pairs of twelve short frames; every chunking and every leftover |
| `receiver` | `Reassembles`, `Answers`, `InSync`, `SizeLimit`, `MessageAppended`, `QuietAfterClose`, `Ends` | all sequences of up to three (17 kinds of frames), or four frames (deflate; fragments around the limit), the stream may end within the last one. Four frames are two fragmented messages, one compressed and one not. |
| `handshake` | two ends of this library agree how the handshake ended and on the protocol (`SameOutcome`) and on compression (`Agreement`), and it does end (`Completes`); against others: no stale answer is accepted (`NoStaleAnswer`), nothing behind a response is lost (`KeepsWhatFollows`), valid requests are decoded (`ValidAccepted`) with their protocols (`ProtocolsSeen`), offers are answered properly (`AcceptsAnOffer`), windows stay within 9..15 (`HandshakeTypeOK`) and a client that compresses has understood the answer: it confirms what the client relies on, and the windows that it gives are kept (`ClientProtected`); the end of a request is never overlooked (`EndNotOverlooked`), its buffer is bounded (`BufferBounded`) and a request that fits is decoded (`Decodes`) | two attempts and two pieces of data behind a response, which is a stale answer and a leftover; all streams of up to seven bytes over CR, LF and another one in blocks of three, which splits the empty line everywhere and passes the limit of six; every header twice; up to three parameters with values on both sides of each bound, one or two offers, each setter called at most once |
| `deflate_encode` | whenever `encode` has flushed the compressor the whole message is in the output (`FlushedIsWhole`), with few repeated markers (`FewMarkers`), and `encode` returns (`Returns`) | two calls, so that the second has the buffer of the first; payloads of up to seven bytes, which is more than the marker and what `reserve(5)` and a reserve of four instead of 4096 make room for; payloads and coded blocks with none, a part or all of 00 00 FF FF |

Deadlock is not checked, because all of these systems may stop: the applications
make finitely many calls, streams end.

The other runs find a property violated; each states what a comment of the code
says. They are `connection_afterclose` (data behind a CLOSE answer),
`connection_closereason` (the flush hides the close reason), `receiver_pong` (a PONG
between fragments), `receiver_discard` (`discard_bytes` drops the wrong bytes),
`handshake_protocols` (a client that proposes two protocols) and `deflate_tail`
(output that ends with 00 00 FF FF by itself, `WholeMessage`). `PROJECT.json` quotes the
comments. What `deflate_tail` shows takes a payload that is longer than one block of zlib
and a block whose last bytes are exactly these four: of the payload if it does not compress
and is stored, or by coincidence in coded output.

### Fairness

`Connection!Fairness` is weak fairness of
* each half's steps: a task that can go on is polled again. `Lock` needs no strong
  fairness because calls are finite, so the other half cannot take the lock for ever;
* reading, and calling `receive` again after it has succeeded, which the documentation
  of the crate calls imperative;
* the transport passing on bytes, but only when a flush, a close or a blocked write
  demands it: an unflushed message may stay in the buffer for ever;
* dropping the connection once it has ended.

Nothing obliges an application to send, nor a process to die. In `Handshake` the tasks of
this library go on while there is something to read, and the application of a server
answers a request that it was given, one way or another, or drops the socket; other
implementations are obliged to nothing, and `Completes` is about two ends of this
library. `encode` does not wait for anything. `FrameIO` and `Receiver` are sequential;
their fairness says that the bytes which were sent arrive, and that the caller of
`receive` goes on until an error.

### Limits of the code that the passing runs leave out

The runs exclude some inputs because the code does not do there what the property
says. Besides the runs above:

* if *both* ends have frames to answer and all buffers are full, both Receivers wait for
  room to write their PONG or CLOSE and neither reads (`PingAnswered`, `CloseCompletes`,
  `connection.rs` 380-382 and 394-412). With one token in flight it is enough that one end
  pings and both close. Hence only one end pings in `connection_liveness`, and the network
  holds a frame;
* a compressed message whose first fragment is empty is delivered compressed, because
  `decode` returns before it notes that it must wait (`Reassembles`, `deflate.rs` 231).
  Hence first fragments are not empty in the deflate setting;
* a payload that is too large is discarded from the reader even if the handshake left
  a part of it in the buffer. Hence nothing is left over in the settings about sizes;
* after two calls of `set_max_server_window_bits` both values are offered and
  confirmed, the server compresses and the client does not (`Agreement`, `deflate.rs`
  85-87). Hence each setter is called at most once;
* if an accepted offer is followed by a declined one, the server's answer has the
  parameters of the declined one (`AcceptsAnOffer`, `deflate.rs` 149). Hence only the
  first of two offers may be unacceptable;
* a compressed message is inflated together with what the caller had put in `message`,
  and replaces it, although the documentation says that frames are appended
  (`MessageAppended`, `deflate.rs` 255-261, `connection.rs` 204-205). Hence `message` is
  empty when a compressed one is received;
* if the compressor has written 00 00 FF FF last while it still holds input, in a stored
  or a coded block, whether or not the payload has these bytes, `encode` does not flush it
  and the message is cut short (`WholeMessage`, `deflate.rs` 297, run `deflate_tail`).
  Hence `FlushedIsWhole` is about the calls that do flush;
* a client enables compression for an answer without `server_max_window_bits`, or with a
  value that is no number, although it has asked for a window; the server has then agreed to
  no limit and may use 15 bits, although `deflate.rs` 78-80 says that "a server accepts by
  including" the parameter (`deflate.rs` 192-197). `decode` would still inflate its
  messages, since it does not use the negotiated window. Hence `ClientProtected` speaks of
  the windows that an answer gives, and of no others;
* with an extension the reserved bit is let through on every frame, also on continuations
  and control frames, where RFC 7692 has no use for it; `Expected` follows the code there;
* `decode_header` does not check which end masks, nor that a length is encoded as short as
  possible; `WellFormed` does not ask for it, and the inputs of `frame_io` are what
  `encode_header` writes. Its limit on lengths is that of the codec;
* clients with several protocols in one header (`ProtocolsSeen`, `server.rs` 173) have a run
  of their own;
* `configure` never disables: a `Server` that rejects a request and then reads another
  one without an acceptable offer still answers with the extension, which the client does
  not expect (`deflate.rs` 222). Hence a client repeats its request;
* a `Server` that rejects with a redirecting status has no way to add a Location, and with
  101 none of the other headers; the client reports both as errors, which `SameOutcome`
  allows;
* `send_response` clears the buffer, and with it anything a client has sent behind its
  request. RFC 6455, 4.1 tells clients to wait;
* a client ignores an answer with an extension that it has not offered, where RFC 6455,
  4.1 makes it fail the connection;
* a CLOSE whose reason is not UTF-8 is not answered (`connection.rs` 388). `Expected`
  allows this, since RFC 6455, 8.1 lets an endpoint fail the connection.

## Theorems

All proofs are checked by TLAPS 1.4.5 with Z3, Zenon and LS4.

* `ConnectionProofs`: `TypeCorrect` (`Spec => []TypeOK`) and `FramesStayWhole`
  (`Spec => []FrameSync`), for all sets of calls, numbers of calls, buffer sizes and
  ends that may die, from `ConnectionAssumption` only. `FrameSync` speaks of the next
  token to be read and is not inductive. The invariant adds `LockInv` (a half is
  between lock and unlock exactly if it holds the lock), `WireInv` (what was written is
  a sequence of whole frames, but for a header whose payload the holder of the lock is
  about to write, and what left the buffer stays so after failures) and `ReadInv` (a
  Receiver is inside a frame exactly if it has just read that frame's header).
  `AnswersSomething` is needed for typing: a Receiver reports the frame it has read
  last, so there must be one.
* `ConnectionProofs` also has `AnswersReachTheNetwork`, `NoBareEndOfStream`,
  `NothingAfterOwnClose` and `CloseIsReported`, which are `AnswersAreFlushed`,
  `ShutAfterClose`, `CloseIsLastOfItsHalf` and `CloseReported` of the run, under the
  same assumption. The properties look at a half that has returned; `CloseInv` says for
  every point in between what a half has flushed (`FlushInv`), that it flushes and closes
  only behind the CLOSE it has written (`WrittenInv`, `ShutInv`), and that a half which
  has written a CLOSE does not get out of closing before the connection is dead, and
  writes nothing but that frame until then (`LastInv`).
* `ChannelProofs`: `EveryPongAnswersItsPing` (`PongsMirrorPings`) and
  `ConnectionIsAChannel`, the refinement. For the former `MirrorInv` relates the rank of
  each PONG on the wire to the PINGs that were read, with one more PING than PONGs
  exactly while one is being answered. The latter shows for every action of `Connection`
  which action of `MessageChannel` it is under the mapping, or that it changes nothing
  there; it needs that what was read is the beginning of what was sent (from `ReadInv`),
  that `got` is what was read without PINGs, and the facts about CLOSE of `ConnectionProofs`.
* `FrameIOProofs`: `DecodeInverts` (whatever part of the stream has arrived,
  `decode_header` returns the header that was encoded, or asks for more, or refuses it
  for a reason that the header gives) and `MaskTwice`, for headers and payloads of every
  length. Then `HeadersOnly`, `FrameTypes`, `FramesComeOut` and `MalformedIsRefused`
  (`HeaderOnly`, `TypeOK`, `FramesIntact`, `RefusesMalformed`), for all frames, chunkings
  and leftovers. The invariant adds that the buffer never holds more than the header
  being read (`NoSurplus`), which rests on what `decode_header` asks for and consumes
  (`AsksForHeader`, `TakesHeader`), and that what is left of the stream is what the
  frames not yet received encode to (`Received`). The assumption is that frames can be
  written (`Writable`: every payload but the last has the length that its header says,
  and there is a mask only if the header says so) and that the limit of the codec is
  below 2^31.
* `ReceiverProofs`: `ReceiverTypes`, `LimitEnforced`, `SilentAfterClose` and
  `OnlyAppends` (`TypeOK`, `SizeLimit`, `QuietAfterClose`, `MessageAppended`), for all
  sequences of frames and setups. `Inv` relates the stream, from which `discard_bytes`
  may have cut any part, to the tokens of the input (`Arrived`), the header to the frame
  it belongs to (`AtFrame`) and `length` to what was appended (`Counted`).
  `OnlyAppends` has a hypothesis, `Cleared`: no extension, or an empty message in each
  call (see the limits above).
* `AssemblyProofs`: `StaysInSync` (`InSync`), `CallersAreTold` (`Reassembles`) and
  `ControlsAnswered` (`Answers`): for frames of any number and length, in any order,
  fragmented, compressed, refused or cut off, the results and replies of `receive` are
  those that `Expected` computes. The invariant has two parts. `Sync` says that what is
  left of the stream are the tokens behind the frames dealt with. `Follows` says that
  results, replies, the message so far, the first opcode and `await_last_fragment` are
  those of the partial meaning of these frames (`ExpectedUpTo`), or that nothing more is
  to be told. The hypotheses exclude what the code does not handle: `Skippable` that a
  message exceeds the limit with a later fragment or while the handshake's leftovers are
  in the buffer (run `receiver_discard`); `Readable` also a PONG between fragments
  (`receiver_pong`), a compressed message whose first fragment is empty, and an extension
  with a message that is not cleared. They are conditions on single frames and their
  neighbours; most inputs of the run `receiver` satisfy them.
* `DeflateEncodeProofs`: `EncodeTypes` (`TypeOK`), `MarkersBounded` (`FewMarkers`) and
  `FlushedMessageIsWhole` (`FlushedIsWhole`), for all payloads, coded blocks, capacities and
  numbers of calls, whatever the compressor holds back, without a hypothesis. The invariant
  says that in the loops the buffer is what the compressor has written of its output and
  that the flush begins when all input was taken (`Progress`), and that once an empty block
  was begun it ends the output, nothing is held back and less than five bytes of it are
  still to be written (`Marked`). That bounds how often `encode` can meet a full vector and
  have the block repeated; and since no beginning of an empty block ends with the four
  bytes, those that end the loop are the last of a whole one, whatever the output before it
  looks like.
* `HandshakeProofs`: first, for one request on a fresh `Server`, `NothingOverlooked` and
  `RequestBounded` (`EndNotOverlooked`, `BufferBounded`), for all streams, limits and block
  sizes. The invariant says that no end of the headers starts before `skip` and that four
  bytes from there on have been read (`Skipped`), which is why backing off by four bytes
  is enough. Then, for the whole of `Handshake`, with any number of attempts, any setup,
  other implementations that send any headers and parameters, and any chunking:
  * `HandshakeTypes`, `HandshakeReads` and `HandshakeBounded` (`HandshakeTypeOK` and again
    the two above). `BaseInv` has the types of all variables, that only what was sent is
    read (`KnownInv`) and the invariant of the scan. The windows stay within 9..15 because
    every step of `configure` keeps them there, by induction over the parameters and over
    the extensions of a header.
  * `StaleAnswersRefused` (`NoStaleAnswer`): every attempt has its own key, and no answer
    has a later one (`Keys`); what was accepted was read to its end (`Accepted`).
  * `NothingLostBehind` (`KeepsWhatFollows`): in addition every response ends once
    (`UniqueEnds`) and the builder takes over the client's buffer (`Made`).
  * `ValidRequestDecoded` (`ValidAccepted`): the result of the server is about the request
    that was sent last (`CurrentInv`), and the loop over the headers finds a value wherever
    it is.
  * `SingleProtocolsSeen` (`ProtocolsSeen`), with the hypothesis `SingleProtocols` that
    each header names one protocol. Run `handshake_protocols` shows that it is needed.
  * `ClientIsProtected` (`ClientProtected`), with the hypothesis `SetOnce` that an
    application sets the server's window at most once. `AskedFor` relates the window that
    the client has to what it asked for, `Enabled` the extension to the answer that was
    accepted: by induction over its parameters and extensions, one of them confirms
    `server_no_context_takeover` and has only parameters that the client follows
    (`Followed`).
  * `EndsAgree` (`SameOutcome`), without a hypothesis. The property looks at two ends that
    are done; `Flow` says for every point in between what the server has answered
    (`Served`, `Responded`), that there is one response for each attempt but perhaps the
    last one (`Matched`), how much of the last one the client has read (`Listening`), and
    that what the client was told is what the server has answered (`Told`).
  * `CompressionAgrees` (`Agreement`), with `SetOnce`. `Compression` says that the client
    keeps the windows of its offer (`Offered`), that the server has taken them over,
    swapped (`Negotiated`), and that its response and both connections say so
    (`Confirmed`).
  * `AnswersAnOffer` (`AcceptsAnOffer`), with `SetOnce` and `OrderlyOffers`. The latter
    says of the offers of other clients that there is one value for the server's window and
    none for the parameters that have no value, as RFC 7692 demands, and that no offer
    which the server declines is behind one that it accepts (see the limits above).
    `Pending` says that the server met them with a new extension.

  The limits above tell why `SetOnce` and `OrderlyOffers` are needed. The instance of the
  run `handshake` satisfies all three hypotheses.

The invariants were checked by TLC on the instances of the runs before they were
proved. What a function defined by recursion is (`TokensUpTo`, `ExpectedUpTo`,
`StreamUpTo`, `FramesUpTo`, and the rounds of the loops in `Negotiation` and `Handshake`)
is derived in the proofs from its definition by induction over sets of numbers
(`LeastMember`, `InductionTo`, `InductionNat`, `RecursiveFunction`), so no definition is
taken for granted.

Only model-checked: the liveness properties (`CloseCompletes`, `PingAnswered`,
`Terminates`, `Ends`, `Returns`, `Decodes`, `Completes`), since fairness is out of reach
of this prover; and `Reassembles` and `Answers` for messages that exceed the limit with
the last frame of the input when that is not their first fragment, which `Skippable`
excludes. The inputs that the other hypotheses exclude are those listed under the limits.

## Abstractions

* Payload contents are tokens in `Connection` and `Receiver`, real bytes in `FrameIO`.
  Masks and lengths are below 2^31, as TLC's integers are; a longer length on the wire
  becomes a value that every codec refuses.
* A compressed token inflates to two. Data that was never compressed may make the
  decoder fail or not.
* Errors of the transport are the end of the stream or a failed write. `Error::Io` for
  other errors ends a call in the same way.
* The lock around the extensions is left out: it is not held over an await.
* Futures are not dropped half-way, which the documentation forbids.
* Once payload has been taken for a header (`pc = "misread"`) `Receiver` stops, since
  what follows depends on the bytes.
* Requests and responses are records of what the code looks at, and httparse sees either
  a complete one or a partial one: one that it refuses may be refused only when it is
  complete. Only the bytes of a request are modelled, since only there soketto searches
  them itself. Names of headers and values compare without case, as the code does.
* Keys are numbers, of which each attempt has a new one; the accept key is an injective
  function of the key.
* The compressor of `DeflateEncode` takes input and ends blocks when it likes; a block is
  stored or coded, and coded as any of a given set of outputs, with 00 00 FF FF or not; what
  a coded block inflates to is what it was made of. As zlib does, it stops only for want of input or
  room, refuses to do anything without room, and repeats an empty block that did not
  fit. It never ends the stream without `FlushCompress::Finish`, so the branches for
  `StreamEnd` and the error "missing 00 00 FF FF" are not reached.

## Not modelled

SHA-1, base64, httparse, flate2 and hyper (external), `data.rs` (types only), the examples
but for the handler of `hyper_server.rs`, custom headers of a client, which the code
copies unchecked, and futures that are dropped half-way, after which the documentation
promises nothing.
