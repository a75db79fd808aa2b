---------------------------- MODULE MCHandshake ------------------------------
(* Instances of Handshake for TLC.                                         *)
EXTENDS Handshake

Lists(n, S) == UNION { [1..k -> S] : k \in 0..n }

-----------------------------------------------------------------------------
(* Bytes                                                                   *)

\* All streams of up to seven bytes in which the end of the headers may be complete,
\* repeated or broken.
AllStreams == Lists(7, {"r", "n", "x"})

Bytes == <<"x", "r", "n", "r", "n">>

-----------------------------------------------------------------------------
(* Extensions                                                              *)

\* The parameters that another implementation may send, with values on both sides of
\* each bound.
ParamsWith(values) ==
  { Param(name, value) : name \in {"server_max_window_bits", "client_max_window_bits"}, value \in values }
    \union { Param(name, None) : name \in {"server_no_context_takeover", "client_no_context_takeover", "unknown"} }

Params    == ParamsWith({7, 8, 9, 12, 15, 16, None, Text})
FewParams == ParamsWith({8, 12, 16, Text})

SomeParams == {Param("server_max_window_bits", 10), Param("server_no_context_takeover", None)}

OneOffer  == { <<Entry(ps)>> : ps \in { qs \in Lists(3, Params) : IsInjective([i \in 1..Len(qs) |-> qs[i].name]) } }

Other   == [name |-> "x-other", params |-> <<Param("server_no_context_takeover", None)>>]
Garbled == [name |-> NotUtf8, params |-> <<>>]

\* Two offers, of which the server may not know a parameter of the first, with another
\* extension or a header that is not UTF-8 in front, between or behind.
TwoOffers == { <<Entry(ps \o unknown), Entry(qs)>> : ps \in Lists(2, SomeParams), qs \in Lists(1, SomeParams),
                                                    unknown \in {<<>>, <<Param("unknown", None)>>} }
Mixed == { InsertAt(<<Entry(ps)>>, i, e) : ps \in Lists(1, SomeParams), i \in 1..2, e \in {Other, Garbled} }

-----------------------------------------------------------------------------
(* What other implementations send                                         *)

Valid == [bytes |-> Bytes, parses |-> TRUE, method |-> "GET", version |-> 1, host |-> TRUE,
          upgrade |-> <<{"websocket"}>>, connection |-> <<{"upgrade"}>>, wsversion |-> <<{"13"}>>, key |-> <<1>>,
          extensions |-> <<>>, protocol |-> <<>>]

\* One or two headers of a name, with the right part, others, or none.
Around(part) == { <<>> } \union { s \in Lists(2, {{part}, {"other"}, {"other", part}, {NotUtf8}, {NotUtf8, part}}) : s # <<>> }

Deviations(S) == S
  \union { [r EXCEPT !.upgrade = v] : r \in S, v \in Around("websocket") }
  \union { [r EXCEPT !.connection = v] : r \in S, v \in Around("upgrade") }

Requests == [
  bytes      |-> { [Valid EXCEPT !.bytes = s] : s \in AllStreams },
  extensions |-> { [Valid EXCEPT !.extensions = e] : e \in OneOffer \union TwoOffers \union Mixed },
  headers    |-> Deviations({Valid})
                 \union { [Valid EXCEPT !.wsversion = v] : v \in Around("13") }
                 \union { [Valid EXCEPT !.key = k] : k \in Lists(2, {ShortKey, 1}) }
                 \union { [Valid EXCEPT !.protocol = p] : p \in Lists(2, {<<"a">>, <<"b">>, <<"other">>}) }
                 \union { [Valid EXCEPT !.method = "POST"], [Valid EXCEPT !.version = 0],
                          [Valid EXCEPT !.host = FALSE] },
  malformed  |-> { [Valid EXCEPT !.parses = FALSE] }]

Answer == [parses |-> TRUE, version |-> 1, code |-> 101, location |-> FALSE, upgrade |-> <<{"websocket"}>>,
           connection |-> <<{"upgrade"}>>, accept |-> <<[sha1 |-> 1]>>, extensions |-> <<>>, protocol |-> <<>>, attempt |-> 0]

\* Answers that differ in one thing.
Answers ==
  Deviations({Answer})
    \union { [Answer EXCEPT !.accept = a] : a \in Lists(2, {[sha1 |-> 0], [sha1 |-> 1]}) }
    \union { [Answer EXCEPT !.protocol = p, !.extensions = e] :
               p \in Lists(1, {<<"a">>, <<"b">>, <<"a", "b">>}),
               e \in {<<>>, <<Entry(<<Param("server_no_context_takeover", None)>>)>>, <<Garbled>>, <<Other>>} }
    \union { [Answer EXCEPT !.code = c, !.location = l] : c \in {200, 301, 304, 308, 401}, l \in BOOLEAN }
    \union { [Answer EXCEPT !.parses = FALSE], [Answer EXCEPT !.version = 0] }

\* Answers to the first or the second attempt.
Rejections  == { [Answer EXCEPT !.code = 401, !.upgrade = <<>>] }
Acceptances == { [Answer EXCEPT !.accept = <<[sha1 |-> n]>>] : n \in 1..2 }

Bursts == [
  extensions |-> { <<[Answer EXCEPT !.extensions = e]>> : e \in Lists(1, { Entry(ps) : ps \in Lists(2, Params) \union Lists(3, FewParams) }) },
  headers    |-> { <<a>> : a \in Answers },
  retries    |-> Lists(2, Rejections \union Acceptances)]

-----------------------------------------------------------------------------
(* Configurations                                                          *)

Setup(foreign, http, peer, clientProtocols, bounds) ==
  [foreign |-> foreign, http |-> http, peer |-> peer, clientProtocols |-> clientProtocols,
   serverProtocols |-> {"a", "b"}, clientDeflate |-> TRUE, serverDeflate |-> TRUE, left |-> bounds]

Left(sets, tries, data) == [server |-> sets, client |-> sets, attempts |-> tries, data |-> data]

Native == { [Setup("none", http, "none", protocols, bounds) EXCEPT !.clientDeflate = c, !.serverDeflate = s] :
              http \in BOOLEAN, protocols \in {<<>>, <<"a">>, <<"c">>}, c \in BOOLEAN, s \in BOOLEAN,
              bounds \in {Left(1, 1, 0), Left(0, 2, 2)} }

AllSetups ==
  Native
    \union { Setup("client", FALSE, peer, <<>>, Left(0, 1, 0)) : peer \in {"bytes", "extensions", "headers", "malformed"} }
    \union { Setup("client", TRUE, peer, <<>>, Left(0, 1, 0)) : peer \in {"extensions", "headers"} }
    \union { Setup("server", FALSE, "extensions", <<>>, Left(1, 1, 0)),
             Setup("server", FALSE, "headers", <<"a">>, Left(0, 1, 1)),
             Setup("server", FALSE, "retries", <<>>, Left(0, 2, 2)) }

\* A client that proposes two protocols.
TwoProtocols == { Setup("none", FALSE, "none", <<"a", "b">>, Left(0, 1, 0)) }

SomeCodes == {101, 200, 302, 401, 999}

=============================================================================
