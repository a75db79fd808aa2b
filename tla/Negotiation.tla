----------------------------- MODULE Negotiation -----------------------------
(***************************************************************************)
(* The permessage-deflate extension during the handshake: struct Deflate   *)
(* and Deflate::configure of src/extension/deflate.rs in both modes, and   *)
(* how configure_extensions and append_extensions of src/handshake.rs call *)
(* it.  Handshake has the steps between which this happens.                *)
(***************************************************************************)
EXTENDS Naturals, Sequences, SequencesExt

\* An offer or an answer has a sequence of parameters [name, value].  A value that is
\* not an u8 is None or Text.
None == 1000
Text == 1001

Param(name, value) == [name |-> name, value |-> value]
AnyParam ==
  [name : {"server_no_context_takeover", "client_no_context_takeover", "server_max_window_bits",
           "client_max_window_bits", "unknown"},
   value : Nat]

\* One element of a Sec-WebSocket-Extensions header, or a header whose value is not UTF-8.
Deflate == "permessage-deflate"
NotUtf8 == "not utf8"
Entry(params) == [name |-> Deflate, params |-> params]
AnyEntry == [name : {Deflate, NotUtf8, "x-other", ""}, params : Seq(AnyParam)]

\* Deflate::new
NewServer == [enabled |-> FALSE, params |-> <<>>, our_max_window_bits |-> 15, their_max_window_bits |-> 15]
NewClient == [NewServer EXCEPT !.params = <<Param("server_no_context_takeover", None),
                                            Param("client_no_context_takeover", None),
                                            Param("client_max_window_bits", None)>>]

-----------------------------------------------------------------------------
(* Deflate::configure                                                      *)

\* Mutant: 8 bits are taken as they are.
AnyBits(v) == v

AtLeast9(v)  == IF v < 9 THEN 9 ELSE v
Smaller(a, b) == IF a < b THEN a ELSE b

\* A configuration in progress: the extension, whether configure has returned early,
\* and whether server_no_context_takeover has been seen.
Start(ext)  == [ext |-> ext, stop |-> FALSE, noTakeover |-> FALSE]
Stopped(c)  == [c EXCEPT !.stop = TRUE]
Reply(c, p) == [c EXCEPT !.ext.params = Append(@, p)]

\* Mutant: a window larger than expected is taken.
SetTheirsAny(c, p, expected) ==
  IF p.value > 255 THEN c
  ELSE IF p.value < 8 \/ p.value > 15 THEN Stopped(c)
  ELSE [c EXCEPT !.ext.their_max_window_bits = AtLeast9(p.value)]

\* set_their_max_window_bits; a value that is no number is ignored.
SetTheirs(c, p, expected) ==
  IF p.value > 255 THEN c
  ELSE IF p.value < 8 \/ p.value > 15 \/ p.value > expected THEN Stopped(c)
  ELSE [c EXCEPT !.ext.their_max_window_bits = AtLeast9(p.value)]

\* Mutant: the server does not follow the window that it confirms.
ServerParamIgnores(c, p) ==
  CASE c.stop -> c
    [] ~c.stop /\ p.name = "client_max_window_bits" -> SetTheirs(c, p, 255)
    [] ~c.stop /\ p.name = "server_max_window_bits" -> IF p.value \in 9..15 THEN Reply(c, p) ELSE Stopped(c)
    [] ~c.stop /\ p.name \in {"client_no_context_takeover", "server_no_context_takeover"} -> Reply(c, Param(p.name, None))
    [] OTHER -> Stopped(c)

\* One parameter of an offer, on the server.
ServerParam(c, p) ==
  CASE c.stop -> c
    [] ~c.stop /\ p.name = "client_max_window_bits" -> SetTheirs(c, p, 255)
    [] ~c.stop /\ p.name = "server_max_window_bits" ->
         IF p.value \in 9..15 THEN [Reply(c, p) EXCEPT !.ext.our_max_window_bits = p.value] ELSE Stopped(c)
    [] ~c.stop /\ p.name \in {"client_no_context_takeover", "server_no_context_takeover"} -> Reply(c, Param(p.name, None))
    [] OTHER -> Stopped(c)

\* One parameter of an answer, on the client.
ClientParam(c, p) ==
  CASE c.stop -> c
    [] ~c.stop /\ p.name = "server_no_context_takeover" -> [c EXCEPT !.noTakeover = TRUE]
    [] ~c.stop /\ p.name = "client_no_context_takeover" -> c
    [] ~c.stop /\ p.name = "server_max_window_bits" -> SetTheirs(c, p, c.ext.their_max_window_bits)
    [] ~c.stop /\ p.name = "client_max_window_bits" ->
         IF p.value > 255 THEN c
         ELSE IF p.value \in 8..15 THEN [c EXCEPT !.ext.our_max_window_bits = Smaller(@, AtLeast9(p.value))]
         ELSE Stopped(c)
    [] OTHER -> Stopped(c)

\* The loop over the parameters: Rounds(...)[i] is where it stands behind the first i.
Rounds(mode, ext, params) ==
  LET c[i \in 0..Len(params)] ==
        IF i = 0 THEN Start(ext)
        ELSE IF mode = "Server" THEN ServerParam(c[i - 1], params[i]) ELSE ClientParam(c[i - 1], params[i])
  IN  c

\* Mutant: the extension is enabled without server_no_context_takeover.
ClientConfigureLax(ext, params) ==
  LET c == Rounds("Client", ext, params)[Len(params)]
  IN  [c.ext EXCEPT !.enabled = @ \/ ~c.stop]

ServerConfigure(ext, params) ==
  LET c == Rounds("Server", [ext EXCEPT !.params = <<>>], params)[Len(params)]
  IN  [c.ext EXCEPT !.enabled = @ \/ ~c.stop]

ClientConfigure(ext, params) ==
  LET c == Rounds("Client", ext, params)[Len(params)]
  IN  [c.ext EXCEPT !.enabled = @ \/ (~c.stop /\ c.noTakeover)]

Configure(mode, ext, params) == IF mode = "Server" THEN ServerConfigure(ext, params) ELSE ClientConfigure(ext, params)

-----------------------------------------------------------------------------
(* src/handshake.rs                                                        *)

\* configure_extensions is called for one header after the other until one is not UTF-8,
\* and ignores extensions that are not known.
IsConfigured(entries, i) == entries[i].name = Deflate /\ \A j \in 1..i : entries[j].name # NotUtf8

\* ConfigureEach(...)[i] is the extension behind the first i entries.
ConfigureEach(mode, ext, entries) ==
  LET x[i \in 0..Len(entries)] ==
        IF i = 0 THEN ext
        ELSE IF IsConfigured(entries, i) THEN Configure(mode, x[i - 1], entries[i].params) ELSE x[i - 1]
  IN  x

ConfigureExtensions(mode, ext, entries) == ConfigureEach(mode, ext, entries)[Len(entries)]

Unreadable(entries) == \E e \in ToSet(entries) : e.name = NotUtf8

\* The values of the parameters with this name.
Values(params, name) == { p.value : p \in { q \in ToSet(params) : q.name = name } }

=============================================================================
