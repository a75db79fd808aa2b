------------------------------ MODULE Handshake ------------------------------
(***************************************************************************)
(* The opening handshake: Client of src/handshake/client.rs, Server of     *)
(* src/handshake/server.rs, and Server of src/handshake/http.rs as         *)
(* examples/hyper_server.rs uses it, up to the Builder of the connection.  *)
(* RequestScan is how the server reads, Negotiation what the extension     *)
(* does.  Either end may be another implementation, which sends what it    *)
(* likes.                                                                  *)
(*                                                                         *)
(* Requests and responses are records of what the code looks at.  A header *)
(* is the sequence of the values that were sent under its name: a value is *)
(* the set of its comma-separated parts (Upgrade, Connection, Version), a  *)
(* key, or the sequence of the protocols in it.                            *)
(*                                                                         *)
(* The request's bytes are RequestScan's stream.  The bytes to the client  *)
(* are pieces: <<"head", i>> and <<"end", i>> are the halves of response   *)
(* answers[i], and <<"data", n>> is whatever follows.                      *)
(***************************************************************************)
EXTENDS RequestScan, Negotiation

CONSTANTS
  Setups,            \* how the two ends are configured, see HandshakeInit
  Bits,              \* arguments of set_max_*_window_bits
  RequestBytes,      \* the bytes of a request of Client
  Codes,             \* the codes that an application rejects a request with
  ForeignRequests,   \* ForeignRequests[peer]: what another client may send
  ForeignAnswers     \* ForeignAnswers[peer]: the sequences of responses that another server may send

\* What may be sent, and how the ends may be configured.
Headers == Seq(SUBSET {"websocket", "upgrade", "13", "other", NotUtf8})
AnyRequest ==
  [bytes : Streams, parses : BOOLEAN, method : {"", "GET", "POST"}, version : Nat, host : BOOLEAN, upgrade : Headers,
   connection : Headers, wsversion : Headers, key : Seq(Nat), extensions : Seq(AnyEntry), protocol : Seq(Seq(STRING))]
AnyResponse ==
  [parses : BOOLEAN, version : Nat, code : Nat, location : BOOLEAN, upgrade : Headers, connection : Headers,
   accept : Seq([sha1 : Nat]), extensions : Seq(AnyEntry), protocol : Seq(Seq(STRING)), attempt : Nat]
AnySetup ==
  [foreign : {"none", "client", "server"}, http : BOOLEAN, peer : STRING,
   clientProtocols : Seq(STRING), serverProtocols : SUBSET STRING, clientDeflate : BOOLEAN, serverDeflate : BOOLEAN,
   left : [server : Nat, client : Nat, attempts : Nat, data : Nat]]

ASSUME HandshakeAssumption ==
  /\ Bits \subseteq 9..15 /\ Codes \subseteq Nat
  /\ RequestBytes \in Streams /\ <<>> \in Streams
  /\ Setups \subseteq AnySetup
  /\ \A s \in Setups : /\ s.foreign = "client" => ForeignRequests[s.peer] \subseteq AnyRequest
                       /\ s.foreign = "server" => ForeignAnswers[s.peer] \subseteq Seq(AnyResponse)

VARIABLES
  setup,       \* the configuration: it does not change
  left,        \* bounds: how often each setter and handshake may be called, and data sent
  attempts,    \* number of requests sent
  client,      \* struct Client, and the result of the last call of handshake
  server,      \* struct Server, and the result of the last call of receive_request
  request,     \* the last request
  answers,     \* all responses
  down,        \* the pieces sent to the client
  seen,        \* the number of pieces that the client has read
  hungup,      \* the server has closed the socket
  builder      \* what into_builder has left to the connection at each end

handshakeVars == <<setup, left, attempts, client, server, request, answers, down, seen, hungup, builder>>
allVars == <<vars, handshakeVars>>

Result(kind) == [kind |-> kind, code |-> 0, protocol |-> <<>>, answer |-> 0]

NoRequest == [bytes |-> <<>>, parses |-> FALSE, method |-> "", version |-> 0, host |-> FALSE, upgrade |-> <<>>,
              connection |-> <<>>, wsversion |-> <<>>, key |-> <<>>, extensions |-> <<>>, protocol |-> <<>>]

NoBuilder == [made |-> FALSE, buffer |-> <<>>, rsv1 |-> FALSE]

\* Client::new and Server::new
ClientNew == [pc |-> "idle", nonce |-> 0, buffer |-> <<>>, ext |-> NewClient, result |-> Result("none")]
ServerNew == [ext |-> NewServer, result |-> "none", key |-> 0, proposed |-> <<>>,
              accepted |-> FALSE, protocol |-> <<>>, refused |-> 0]

\* A configuration says which end is another implementation (or "none"), whether the
\* server is that of handshake/http.rs, and what add_protocol and add_extension were
\* called with.
HandshakeInit ==
  /\ Init /\ stream = <<>>
  /\ setup \in Setups
  /\ left = setup.left
  /\ client = ClientNew /\ server = ServerNew
  /\ attempts = 0 /\ seen = 0
  /\ request = NoRequest
  /\ answers = <<>> /\ down = <<>>
  /\ hungup = FALSE
  /\ builder = [end \in {"client", "server"} |-> NoBuilder]

-----------------------------------------------------------------------------
(* Headers (src/handshake.rs)                                              *)

\* Mutant: every header of that name has its say.
ExpectLast(values, ours) == values # <<>> /\ ours \in Last(values)

\* expect_ascii_header: HeaderStates(...)[i] is the state behind the first i headers.
HeaderStates(values, ours) ==
  LET state[i \in 0..Len(values)] ==
        IF i = 0 THEN "Init"
        ELSE IF state[i - 1] = "Match" THEN "Match"
        ELSE IF NotUtf8 \in values[i] THEN "Err"
        ELSE IF ours \in values[i] THEN "Match" ELSE "Name"
  IN  state

ExpectAsciiHeader(values, ours) == HeaderStates(values, ours)[Len(values)] = "Match"

\* header_contains_value
HeaderContainsValue(values, ours) == \E value \in ToSet(values) : ours \in value

\* Keys are numbers; those of an attempt are 1, 2, ... and have 24 characters.
ShortKey == 0
Is24(key) == key # ShortKey

\* generate_accept_key
AcceptKey(key) == [sha1 |-> key]

\* A check in a function that returns the first error: the rest is done if it is passed.
Check(ok, error, rest) == IF ok THEN rest ELSE error

-----------------------------------------------------------------------------
(* Client                                                                  *)

\* set_max_server_window_bits
SetMaxServerWindowBits(max) ==
  /\ setup.foreign # "client" /\ attempts = 0 /\ left.server > 0
  /\ left' = [left EXCEPT !.server = @ - 1]
  /\ client' = [client EXCEPT !.ext.their_max_window_bits = max,
                              !.ext.params = Append(@, Param("server_max_window_bits", max))]
  /\ UNCHANGED <<vars, setup, attempts, server, request, answers, down, seen, hungup, builder>>

\* The params with a value for client_max_window_bits; Deflate::new has put it there.
WithClientBits(params, max) ==
  [i \in 1..Len(params) |-> IF params[i].name = "client_max_window_bits" THEN Param(params[i].name, max) ELSE params[i]]

\* Mutant: the window is announced but not used.
SetMaxClientAnnounces(max) ==
  /\ setup.foreign # "client" /\ attempts = 0 /\ left.client > 0
  /\ left' = [left EXCEPT !.client = @ - 1]
  /\ client' = [client EXCEPT !.ext.params = WithClientBits(@, max)]
  /\ UNCHANGED <<vars, setup, attempts, server, request, answers, down, seen, hungup, builder>>

\* set_max_client_window_bits
SetMaxClientWindowBits(max) ==
  /\ setup.foreign # "client" /\ attempts = 0 /\ left.client > 0
  /\ left' = [left EXCEPT !.client = @ - 1]
  /\ client' = [client EXCEPT !.ext.our_max_window_bits = max,
                              !.ext.params = WithClientBits(@, max)]
  /\ UNCHANGED <<vars, setup, attempts, server, request, answers, down, seen, hungup, builder>>

\* Mutant: the nonce is made once for the Client.
NonceOfClient(n) == 1

\* rand::random
FreshNonce(n) == n

\* encode_request: all protocols go into one header.
EncodeRequest(nonce) ==
  [bytes |-> RequestBytes, parses |-> TRUE, method |-> "GET", version |-> 1, host |-> TRUE,
   upgrade |-> <<{"websocket"}>>, connection |-> <<{"upgrade"}>>, wsversion |-> <<{"13"}>>, key |-> <<nonce>>,
   extensions |-> IF setup.clientDeflate THEN <<Entry(client.ext.params)>> ELSE <<>>,
   protocol |-> IF setup.clientProtocols = <<>> THEN <<>> ELSE <<setup.clientProtocols>>]

\* handshake, up to the flush.  An application may try again when it was rejected and
\* the server reads on.
SendRequest ==
  /\ setup.foreign # "client"
  /\ client.pc = "idle" /\ left.attempts > 0
  /\ client.result.kind \in {"none", "Rejected"}
  /\ stream = <<>>
  /\ LET nonce == FreshNonce(attempts + 1)
     IN  /\ request' = EncodeRequest(nonce)
         /\ client' = [client EXCEPT !.pc = "waiting", !.nonce = nonce, !.buffer = <<>>, !.result = Result("none")]
  /\ attempts' = attempts + 1
  /\ left' = [left EXCEPT !.attempts = @ - 1]
  /\ stream' = IF setup.foreign = "server" \/ hungup THEN <<>> ELSE RequestBytes
  /\ UNCHANGED <<got, skip, pc, setup, server, answers, down, seen, hungup, builder>>

\* decode_response, for a response that is complete
ResponseOutcome(r) ==
  LET redirect == r.code \in (301..303) \union {307, 308}
  IN  Check(r.parses, "Http",
      Check(r.version = 1, "UnsupportedHttpVersion",
      Check(~redirect \/ r.location, "HeaderNotFound",
      Check(~redirect, "Redirect",
      Check(r.code = 101, "Rejected",
      Check(ExpectAsciiHeader(r.upgrade, "websocket"), "Upgrade",
      Check(ExpectAsciiHeader(r.connection, "upgrade"), "Connection",
      Check(r.accept # <<>>, "HeaderNotFound",
      Check(Head(r.accept) = AcceptKey(client.nonce), "InvalidSecWebSocketAccept",
      Check(~Unreadable(r.extensions), "Utf8",
      Check(r.protocol # <<>> => \E p \in ToSet(setup.clientProtocols) : Head(r.protocol) = <<p>>, "UnsolicitedProtocol",
      "Ok")))))))))))

\* The extensions are configured when the checks in front of them have passed.
ConfiguredBy(r) ==
  IF setup.clientDeflate /\ ResponseOutcome(r) \in {"Ok", "Utf8", "UnsolicitedProtocol"}
  THEN ConfigureExtensions("Client", client.ext, r.extensions)
  ELSE client.ext

ResultOf(i) ==
  LET r == answers[i]
      o == ResponseOutcome(r)
  IN  CASE o = "Ok"                      -> [kind |-> "Accepted", code |-> r.code, answer |-> i,
                                             protocol |-> IF r.protocol = <<>> THEN <<>> ELSE Head(r.protocol)]
        [] o \in {"Rejected", "Redirect"} -> [Result(o) EXCEPT !.code = r.code, !.answer = i]
        [] OTHER                         -> Result("Err")

\* Mutant: the buffer is empty after the handshake.
Forget(buffer, offset) == <<>>

\* buffer.advance(offset)
Advance(buffer, offset) == SubSeq(buffer, offset + 1, Len(buffer))

\* One round of the loop of handshake: read, and decode_response.
ReadResponse(n) ==
  /\ client.pc = "waiting" /\ seen + n <= Len(down)
  /\ LET buffer == client.buffer \o SubSeq(down, seen + 1, seen + n)
         offset == SelectInSeq(buffer, LAMBDA p : p[1] = "end")
     IN  client' = CASE buffer[1][1] = "data" ->
                          [client EXCEPT !.pc = "idle", !.buffer = buffer, !.result = Result("Err")]
                     [] buffer[1][1] # "data" /\ offset = 0 ->
                          [client EXCEPT !.buffer = buffer]
                     [] buffer[1][1] # "data" /\ offset # 0 ->
                          LET result == ResultOf(buffer[offset][2])
                          IN  [client EXCEPT !.pc = "idle", !.result = result,
                                 !.buffer = IF result.kind = "Err" THEN buffer ELSE Advance(buffer, offset),
                                 !.ext = ConfiguredBy(answers[buffer[offset][2]])]
  /\ seen' = seen + n
  /\ UNCHANGED <<vars, setup, left, attempts, server, request, answers, down, hungup, builder>>

\* The server has gone.
ReadResponseEof ==
  /\ client.pc = "waiting" /\ hungup /\ seen = Len(down)
  /\ client' = [client EXCEPT !.pc = "idle", !.result = Result("Err")]
  /\ UNCHANGED <<vars, setup, left, attempts, server, request, answers, down, seen, hungup, builder>>

-----------------------------------------------------------------------------
(* Server                                                                  *)

\* The socket of a server of this library, and its receive_request.
Serving(withHttp) == setup.foreign # "server" /\ setup.http = withHttp /\ ~hungup

ReceiveRequest ==
  /\ Serving(FALSE)
  /\ Read \/ Scan \/ (setup.foreign = "client" /\ attempts = 1 /\ ReadEof)
  /\ UNCHANGED handshakeVars

\* decode_request, for a request that is complete
RequestOutcome(r) ==
  Check(r.parses, "Http",
  Check(r.method = "GET", "InvalidRequestMethod",
  Check(r.version = 1, "UnsupportedHttpVersion",
  Check(r.host, "HeaderNotFound",
  Check(ExpectAsciiHeader(r.upgrade, "websocket"), "Upgrade",
  Check(ExpectAsciiHeader(r.connection, "upgrade"), "Connection",
  Check(ExpectAsciiHeader(r.wsversion, "13"), "Sec-WebSocket-Version",
  Check(r.key # <<>>, "HeaderNotFound",
  Check(Is24(Head(r.key)), "SecWebSocketKeyInvalidLength",
  Check(~Unreadable(r.extensions), "Utf8",
  "Ok"))))))))))

\* Mutant: only the first header is looked at.
ProposedFirst(r) ==
  IF r.protocol # <<>> /\ \E p \in setup.serverProtocols : Head(r.protocol) = <<p>> THEN Head(r.protocol) ELSE <<>>

\* Mutant: what the server supports, whatever the client proposes.
ProposedAny(r) == SetToSeq(setup.serverProtocols)

\* ClientRequest::protocols: the values of protocol headers that are a protocol of the
\* server.  Found(...)[i] is what the first i headers contribute.
Found(values, supported) ==
  LET found[i \in 0..Len(values)] ==
        IF i = 0 THEN <<>>
        ELSE IF \E p \in supported : values[i] = <<p>> THEN found[i - 1] \o values[i]
        ELSE found[i - 1]
  IN  found

Proposed(r) == Found(r.protocol, setup.serverProtocols)[Len(r.protocol)]

Decoded(outcome, configured, proposed) ==
  [server EXCEPT !.result = outcome, !.proposed = proposed,
                 !.key = IF request.key = <<>> THEN ShortKey ELSE Head(request.key),
                 !.ext = IF configured /\ setup.serverDeflate
                         THEN ConfigureExtensions("Server", @, request.extensions) ELSE @]

\* The end of receive_request; a request that is not complete fails.
Decode ==
  /\ Serving(FALSE)
  /\ DecodeRequest
  /\ LET outcome == IF pc' = "Complete" THEN RequestOutcome(request) ELSE "IncompleteHttpRequest"
     IN  server' = Decoded(outcome, outcome \in {"Ok", "Utf8"}, Proposed(request))
  /\ UNCHANGED <<setup, left, attempts, client, request, answers, down, seen, hungup, builder>>

\* receive_request of handshake/http.rs
HttpOutcome(r) ==
  Check(HeaderContainsValue(r.connection, "upgrade") /\ HeaderContainsValue(r.upgrade, "websocket"), "InvalidSecWebSocketAccept",
  Check(r.key # <<>>, "HeaderNotFound",
  Check(r.wsversion # <<>> /\ Head(r.wsversion) = {"13"}, "HeaderNotFound",
  Check(Is24(Head(r.key)), "InvalidSecWebSocketAccept",
  Check(~Unreadable(r.extensions), "Utf8",
  "Ok")))))

\* The HTTP library parses the request and calls the handler of examples/hyper_server.rs,
\* which has a Server of its own.
HttpReceiveRequest ==
  /\ Serving(TRUE)
  /\ pc = "read" /\ HasTail(0, Len(stream)) /\ request.parses
  /\ pc' = "Complete"
  /\ server' = Decoded(HttpOutcome(request), HttpOutcome(request) = "Ok", <<>>)
  /\ UNCHANGED <<stream, got, skip, setup, left, attempts, client, request, answers, down, seen, hungup, builder>>

-----------------------------------------------------------------------------
(* Responses                                                               *)

\* A response without any of the headers, to the current request.
Plain(code) == [parses |-> TRUE, version |-> 1, code |-> code, location |-> FALSE, upgrade |-> <<>>, connection |-> <<>>,
                accept |-> <<>>, extensions |-> <<>>, protocol |-> <<>>, attempt |-> attempts]

\* append_extensions, of those that are enabled
ServerExtensions == IF server.ext.enabled THEN <<Entry(server.ext.params)>> ELSE <<>>

\* handshake/http.rs adds a header for the extensions even if none is enabled.
HttpExtensions ==
  IF setup.serverDeflate /\ ~server.ext.enabled THEN <<[name |-> "", params |-> <<>>]>> ELSE ServerExtensions

\* encode_response of Accept, and the response of handshake/http.rs
AcceptResponse(protocol) ==
  [Plain(101) EXCEPT
    !.upgrade = <<{"websocket"}>>, !.connection = <<{"upgrade"}>>, !.accept = <<AcceptKey(server.key)>>,
    !.protocol = IF protocol = <<>> THEN <<>> ELSE <<protocol>>,
    !.extensions = IF setup.http THEN HttpExtensions ELSE ServerExtensions]

\* The table is in order, so a binary search finds what is in it.
STATUSCODES == (100..102) \union (200..208) \union {226} \union (300..305) \union {307, 308} \union (400..418)
  \union (421..424) \union {426, 428, 429, 431, 451} \union (500..508) \union {510, 511}

\* encode_response of Reject
RejectCode(code) == IF code \in STATUSCODES THEN code ELSE 500

\* The pieces of responses number i, i+1, ...
Pieces(i, n) == [k \in 1..2 * n |-> <<IF k % 2 = 1 THEN "head" ELSE "end", i + (k - 1) \div 2>>]

Respond(responses) ==
  /\ answers' = answers \o responses
  /\ down' = down \o Pieces(Len(answers) + 1, Len(responses))

\* The application accepts, with one of the proposed protocols or none: send_response.
Accept(protocol) ==
  /\ setup.foreign # "server" /\ ~hungup
  /\ server.result = "Ok"
  /\ Respond(<<AcceptResponse(protocol)>>)
  /\ server' = [server EXCEPT !.result = "none", !.accepted = TRUE, !.protocol = protocol]
  /\ UNCHANGED <<vars, setup, left, attempts, client, request, seen, hungup, builder>>

\* The application rejects, and drops the socket or calls receive_request again, which
\* clears the buffer.  The handler of examples/hyper_server.rs rejects, with 200, what
\* has failed.
Reject(code, drop) ==
  /\ setup.foreign # "server" /\ ~hungup
  /\ server.result \notin (IF setup.http THEN {"none", "Ok"} ELSE {"none"})
  /\ code \in (IF setup.http THEN {200} ELSE Codes)
  /\ drop \/ setup.foreign # "client"
  /\ Respond(<<Plain(RejectCode(code))>>)
  /\ server' = [server EXCEPT !.result = "none", !.refused = code]
  /\ hungup' = drop
  /\ stream' = <<>> /\ got' = 0 /\ skip' = 0 /\ pc' = "read"
  /\ UNCHANGED <<setup, left, attempts, client, request, seen, builder>>

\* The application drops the socket without an answer.
HangUp ==
  /\ setup.foreign # "server" /\ ~hungup
  /\ server.result # "none" \/ pc = "Err"
  /\ hungup' = TRUE
  /\ server' = [server EXCEPT !.result = "none"]
  /\ UNCHANGED <<vars, setup, left, attempts, client, request, answers, down, seen, builder>>

\* Builder::set_buffer and Builder::add_extensions: only what is enabled is used.
Build(end, buffer, deflate, ext) ==
  /\ ~builder[end].made /\ setup.foreign # end
  /\ builder' = [builder EXCEPT ![end] = [made |-> TRUE, buffer |-> buffer, rsv1 |-> deflate /\ ext.enabled]]
  /\ UNCHANGED <<vars, setup, left, attempts, client, server, request, answers, down, seen, hungup>>

\* into_builder of the client, and of both servers, whose buffer is empty by then
ClientIntoBuilder == client.result.kind = "Accepted" /\ Build("client", client.buffer, setup.clientDeflate, client.ext)
ServerIntoBuilder == server.accepted /\ Build("server", <<>>, setup.serverDeflate, server.ext)

\* What a server sends behind a response: frames of the connection, or the body of a
\* response of another implementation.
SendData ==
  /\ left.data > 0 /\ ~hungup
  /\ IF setup.foreign = "server" THEN answers # <<>> ELSE builder["server"].made
  /\ left' = [left EXCEPT !.data = @ - 1]
  /\ down' = Append(down, <<"data", left.data>>)
  /\ UNCHANGED <<vars, setup, attempts, client, server, request, answers, seen, hungup, builder>>

-----------------------------------------------------------------------------
(* Other implementations                                                   *)

\* Another client sends a request, and waits or hangs up.
ForeignRequest ==
  /\ setup.foreign = "client" /\ left.attempts > 0
  /\ request' \in ForeignRequests[setup.peer]
  /\ stream' = request'.bytes
  /\ attempts' = attempts + 1 /\ left' = [left EXCEPT !.attempts = 0]
  /\ UNCHANGED <<got, skip, pc, setup, client, server, answers, down, seen, hungup, builder>>

\* Another server answers a request, perhaps more than once; it knows the keys that it
\* has been sent.
ForeignAnswer ==
  /\ setup.foreign = "server" /\ ~hungup
  /\ client.pc = "waiting" /\ \A r \in ToSet(answers) : r.attempt < attempts
  /\ \E burst \in ForeignAnswers[setup.peer] :
       /\ \A r \in ToSet(burst) : \A k \in ToSet(r.accept) : k.sha1 <= attempts
       /\ Respond([i \in 1..Len(burst) |-> [burst[i] EXCEPT !.attempt = attempts]])
  /\ UNCHANGED <<vars, setup, left, attempts, client, server, request, seen, hungup, builder>>

ForeignHangUp ==
  /\ setup.foreign = "server" /\ ~hungup /\ attempts > 0
  /\ hungup' = TRUE
  /\ UNCHANGED <<vars, setup, left, attempts, client, server, request, answers, down, seen, builder>>

-----------------------------------------------------------------------------
ClientStep == (\E n \in 1..BLOCK_SIZE : ReadResponse(n)) \/ ReadResponseEof

Application ==
  \/ \E protocol \in {<<>>} \union { <<p>> : p \in ToSet(server.proposed) } : Accept(protocol)
  \/ \E code \in Codes \union {200}, drop \in BOOLEAN : Reject(code, drop)
  \/ HangUp

ServerStep == ReceiveRequest \/ Decode \/ HttpReceiveRequest \/ Application

HandshakeNext ==
  \/ \E max \in Bits : SetMaxServerWindowBits(max) \/ SetMaxClientWindowBits(max)
  \/ SendRequest \/ ClientStep \/ ServerStep
  \/ ClientIntoBuilder \/ ServerIntoBuilder
  \/ SendData \/ ForeignRequest \/ ForeignAnswer \/ ForeignHangUp

\* The tasks of this library go on while there is something to read, and the application
\* of a server answers a request in some way or drops the socket.
Fairness == WF_allVars(setup.foreign = "none" /\ ClientStep) /\ WF_allVars(ServerStep)

HandshakeSpec == HandshakeInit /\ [][HandshakeNext]_allVars /\ Fairness

-----------------------------------------------------------------------------
(* Properties                                                              *)

\* Every state of both ends is one that their types allow.  The windows stay within
\* what zlib supports, whatever the other end sends (Compress::new_with_window_bits
\* panics outside 9..15).
HandshakeTypeOK ==
  /\ TypeOK
  /\ \A ext \in {client.ext, server.ext} : /\ ext.enabled \in BOOLEAN
                                           /\ {ext.our_max_window_bits, ext.their_max_window_bits} \subseteq 9..15
  /\ client.pc \in {"idle", "waiting"}
  /\ client.result.kind \in {"none", "Accepted", "Redirect", "Rejected", "Err"}
  /\ attempts + left.attempts <= setup.left.attempts /\ seen <= Len(down)
  /\ builder["server"].buffer = <<>>

\* Two ends of this library agree how the handshake ended (decode_response against
\* encode_response and the response of http.rs): the client takes it for accepted
\* exactly if the server has accepted this very request, both with the same protocol,
\* which both of them support; and a rejection arrives with its code, if that is known.
SameOutcome ==
  setup.foreign = "none" /\ client.pc = "idle" =>
    /\ (client.result.kind = "Accepted") = server.accepted
    /\ server.accepted =>
         /\ server.key = client.nonce
         /\ client.result.protocol = server.protocol
         /\ ToSet(server.protocol) \subseteq ToSet(setup.clientProtocols) \intersect setup.serverProtocols
    /\ client.result.kind = "Rejected" => client.result.code = RejectCode(server.refused)

\* A client never takes a response for the answer to its request that was written
\* before that request: what an earlier, rejected attempt has left in the socket is
\* refused, although handshake only clears its own buffer.
NoStaleAnswer == client.result.kind = "Accepted" => answers[client.result.answer].attempt = attempts

\* Everything that follows the server's response, in whatever pieces it came, is left
\* to the connection (handshake advances its buffer, into_builder passes it on).
KeepsWhatFollows ==
  builder["client"].made =>
    LET end == SelectInSeq(down, LAMBDA p : p = <<"end", client.result.answer>>)
    IN  builder["client"].buffer \o SubSeq(down, seen + 1, Len(down)) = SubSeq(down, end + 1, Len(down))

\* A valid opening handshake (RFC 6455, 4.2.1) is decoded, whatever else its headers
\* hold: other parts, other headers of the same name, before or behind.
ValidAccepted ==
  ~setup.http /\ server.result \notin {"none", "Ok", "Utf8", "IncompleteHttpRequest"} =>
    ~ /\ request.parses /\ request.method = "GET" /\ request.version = 1 /\ request.host
      /\ \E v \in ToSet(request.upgrade) : "websocket" \in v /\ NotUtf8 \notin v
      /\ \E v \in ToSet(request.connection) : "upgrade" \in v /\ NotUtf8 \notin v
      /\ \E v \in ToSet(request.wsversion) : "13" \in v /\ NotUtf8 \notin v
      /\ request.key # <<>> /\ Head(request.key) # ShortKey

\* ClientRequest::protocols has every protocol that the client proposes and the server
\* supports.
ProtocolsSeen ==
  ~setup.http /\ server.result = "Ok" =>
    (UNION { ToSet(v) : v \in ToSet(request.protocol) }) \intersect setup.serverProtocols \subseteq ToSet(server.proposed)

\* Two ends of this library agree on compression: either both use the reserved bit or
\* neither does, and neither end uses a larger window than the other has agreed to.
Agreement ==
  setup.foreign = "none" /\ builder["client"].made /\ builder["server"].made =>
    /\ builder["client"].rsv1 = builder["server"].rsv1
    /\ builder["client"].rsv1 => /\ server.ext.our_max_window_bits <= client.ext.their_max_window_bits
                                 /\ client.ext.our_max_window_bits <= server.ext.their_max_window_bits

\* A client only compresses after an answer whose every parameter it has understood and
\* follows: the answer confirms server_no_context_takeover, on which inflating each
\* message on its own relies, a window that it gives for the server is not larger than
\* what the client has asked for, and the client's own window is not larger than what it
\* gives for the client.  Nothing is said of an answer that does not give a window, or
\* gives no number: the client takes it, although set_max_server_window_bits says that a
\* server accepts the limit by including the parameter.
ClientProtected ==
  builder["client"].rsv1 =>
    \E e \in ToSet(answers[client.result.answer].extensions) :
      /\ Values(e.params, "server_no_context_takeover") # {}
      /\ Values(e.params, "unknown") = {}
      /\ \A v \in Values(client.ext.params, "server_max_window_bits"), w \in Values(e.params, "server_max_window_bits") :
           w > 255 \/ w <= v
      /\ \A w \in Values(e.params, "client_max_window_bits") : w > 255 \/ client.ext.our_max_window_bits <= AtLeast9(w)

\* The server's answer accepts one of the client's offers: one without unknown
\* parameters, of which it confirms exactly those that concern the server, with a
\* window that it uses.
AcceptsAnOffer ==
  server.result = "Ok" /\ server.ext.enabled =>
    \E e \in ToSet(request.extensions) :
      /\ Values(e.params, "unknown") = {}
      /\ \A name \in {"server_max_window_bits", "server_no_context_takeover", "client_no_context_takeover"} :
           Values(server.ext.params, name) = Values(e.params, name)
      /\ \A v \in Values(e.params, "server_max_window_bits") : server.ext.our_max_window_bits <= v

\* Between two ends of this library every call of handshake ends: the server does not
\* wait for more bytes when it has the request, and answers or hangs up.
Completes == setup.foreign = "none" /\ client.pc = "waiting" ~> client.pc = "idle"

=============================================================================
