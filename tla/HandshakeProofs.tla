--------------------------- MODULE HandshakeProofs ---------------------------
(***************************************************************************)
(* Proofs about RequestScan, Negotiation and Handshake, for every stream   *)
(* and all sizes, for all offers and answers, and for every configuration. *)
(***************************************************************************)
EXTENDS Handshake, Induction, SequenceTheorems

-----------------------------------------------------------------------------
(* Reading a request.                                                      *)

\* While the server looks for the end of the headers: what it skips holds no end,
\* and unless it skips nothing, an end that starts before skip would lie within the
\* bytes that it has.
Skipped ==
  pc \in {"read", "scan"} => /\ skip = 0 \/ skip + 4 <= got
                             /\ \A i \in 0..skip : i < skip => ~TailAt(i)

ScanInv == TypeOK /\ BufferBounded /\ Skipped /\ EndNotOverlooked

\* The constants are numbers and MAX_HEADERS_SIZE is positive.
LEMMA Sizes == MAX_HEADERS_SIZE \in Nat /\ BLOCK_SIZE \in Nat /\ BLOCK_SIZE > 0 /\ MAX_HEADERS_SIZE > 0
  BY RequestScanAssumption

\* receive_request starts with an empty buffer.
LEMMA ScanInit == Init => ScanInv
  BY RequestScanAssumption DEF Init, ScanInv, TypeOK, BufferBounded, Skipped, EndNotOverlooked, HasTail

\* Reading does not move skip, and there is no end in what was there before.
LEMMA ScanRead == ScanInv /\ Read => ScanInv'
<1> SUFFICES ASSUME ScanInv, Read PROVE ScanInv'
  OBVIOUS
<1>1. Len(stream) \in Nat
  BY RequestScanAssumption DEF ScanInv, TypeOK
<1>2. PICK k \in 1..BLOCK_SIZE : got + k <= Len(stream) /\ got' = got + k
  BY DEF Read
<1>3. TypeOK'
  BY <1>1, <1>2, Sizes DEF ScanInv, TypeOK, Read
<1>4. BufferBounded'
  BY <1>1, <1>2, Sizes DEF ScanInv, TypeOK, BufferBounded, Read
<1>5. Skipped'
  BY <1>1, <1>2, Sizes DEF ScanInv, TypeOK, Skipped, Read, TailAt
<1>6. EndNotOverlooked'
  BY DEF Read, EndNotOverlooked
<1> QED
  BY <1>3, <1>4, <1>5, <1>6 DEF ScanInv

\* If the search fails below the limit then it has covered the whole buffer.
LEMMA ScanScan == ScanInv /\ Scan => ScanInv'
<1> SUFFICES ASSUME ScanInv, Scan PROVE ScanInv'
  OBVIOUS
<1>1. Len(stream) \in Nat /\ got \in Nat /\ skip \in Nat /\ skip <= got
  BY RequestScanAssumption DEF ScanInv, TypeOK
<1>2. CASE HasTail(skip, limit) \/ AtLimit
  BY <1>1, <1>2 DEF ScanInv, TypeOK, BufferBounded, Skipped, EndNotOverlooked, Scan
<1>3. CASE ~(HasTail(skip, limit) \/ AtLimit)
  <2>1. pc' = "read" /\ skip' = BackOff(got) /\ stream' = stream /\ got' = got
    BY <1>3 DEF Scan
  <2>2. limit = got /\ got < MAX_HEADERS_SIZE
    BY <1>1, <1>3, Sizes DEF limit, AtLimit
  <2>3. \A i \in 0..got : i + 4 <= got => ~TailAt(i)
    <3> SUFFICES ASSUME NEW i \in 0..got, i + 4 <= got PROVE ~TailAt(i)
      OBVIOUS
    <3>1. CASE i < skip
      BY <1>1, <3>1 DEF ScanInv, Skipped, Scan
    <3>2. CASE i >= skip
      BY <1>1, <1>3, <2>2, <3>2 DEF HasTail
    <3> QED
      BY <1>1, <3>1, <3>2
  <2>4. skip' \in 0..got /\ (skip' = 0 \/ skip' + 4 <= got)
    BY <1>1, <2>1 DEF BackOff
  <2>5. TypeOK'
    BY <2>1, <2>4 DEF ScanInv, TypeOK
  <2>6. BufferBounded'
    BY <2>1, <2>2 DEF ScanInv, BufferBounded
  <2>7. Skipped'
    BY <1>1, <2>1, <2>3, <2>4 DEF Skipped, TailAt
  <2>8. EndNotOverlooked'
    BY <1>1, <2>1, <2>3 DEF EndNotOverlooked, HasTail, TailAt
  <2> QED
    BY <2>5, <2>6, <2>7, <2>8 DEF ScanInv
<1> QED
  BY <1>2, <1>3

\* Every step of receive_request preserves the invariant.
LEMMA ScanNext == ScanInv /\ [Next]_vars => ScanInv'
<1> SUFFICES ASSUME ScanInv, [Next]_vars PROVE ScanInv'
  OBVIOUS
<1>1. CASE Read
  BY <1>1, ScanRead
<1>2. CASE Scan
  BY <1>2, ScanScan
<1>3. CASE ReadEof
  BY <1>3 DEF ReadEof, ScanInv, TypeOK, BufferBounded, Skipped, EndNotOverlooked
<1>4. CASE DecodeRequest
  BY <1>4 DEF DecodeRequest, ScanInv, TypeOK, BufferBounded, Skipped, EndNotOverlooked
<1>5. CASE UNCHANGED vars
  BY <1>5 DEF vars, ScanInv, TypeOK, BufferBounded, Skipped, EndNotOverlooked, HasTail, TailAt
<1> QED
  BY <1>1, <1>2, <1>3, <1>4, <1>5 DEF Next

\* Skipping the bytes that have been searched, except for the last four, never makes
\* receive_request overlook the end of the headers, for any stream, in any pieces.
THEOREM NothingOverlooked == Spec => []EndNotOverlooked
<1>1. ScanInv => EndNotOverlooked
  BY DEF ScanInv
<1> QED
  BY <1>1, ScanInit, ScanNext, PTL DEF Spec

\* The request buffer of receive_request stays below MAX_HEADERS_SIZE + BLOCK_SIZE.
THEOREM RequestBounded == Spec => []BufferBounded
<1>1. ScanInv => BufferBounded
  BY DEF ScanInv
<1> QED
  BY <1>1, ScanInit, ScanNext, PTL DEF Spec

-----------------------------------------------------------------------------
(* The loops over headers, parameters and extensions.                      *)

States == {"Init", "Name", "Match", "Err"}

\* The states of expect_ascii_header follow from each other.
LEMMA HeaderStatesAre ==
  ASSUME NEW values \in Headers, NEW ours
  PROVE  LET f == HeaderStates(values, ours) IN
         /\ f \in [0..Len(values) -> States] /\ f[0] = "Init"
         /\ \A i \in 1..Len(values) : f[i] = IF f[i - 1] = "Match" THEN "Match" ELSE IF NotUtf8 \in values[i] THEN "Err" ELSE IF ours \in values[i] THEN "Match" ELSE "Name"
<1> DEFINE n == Len(values)
           a == "Init"
           step(v, i) == IF v = "Match" THEN "Match" ELSE IF NotUtf8 \in values[i] THEN "Err" ELSE IF ours \in values[i] THEN "Match" ELSE "Name"
           G == [x \in States \X (1..n) |-> step(x[1], x[2])]
           Is(f) == f = [i \in 0..n |-> IF i = 0 THEN a ELSE step(f[i - 1], i)]
<1>1. n \in Nat /\ a \in States
  BY DEF States, Headers
<1>2. ASSUME NEW v \in States, NEW i \in 1..n PROVE step(v, i) \in States
  BY DEF States
<1> HIDE DEF n, a, step
<1>3. G \in [States \X (1..n) -> States]
  BY <1>2
<1>4. PICK g \in [0..n -> States] : IsRecursive(g, n, a, G)
  <2> HIDE DEF G
  <2> QED
    BY <1>1, <1>3, RecursiveFunction
<1>5. Is(g)
  <2> DEFINE body(i) == IF i = 0 THEN a ELSE G[<<g[i - 1], i>>]
             want(i) == IF i = 0 THEN a ELSE step(g[i - 1], i)
  <2>1. g = [i \in 0..n |-> body(i)]
    BY <1>4 DEF IsRecursive
  <2>2. ASSUME NEW i \in 0..n PROVE body(i) = want(i)
    <3>1. CASE i = 0
      BY <3>1
    <3>2. CASE i # 0
      <4>1. i \in 1..n /\ g[i - 1] \in States
        BY <1>1, <3>2
      <4>2. G[<<g[i - 1], i>>] = step(g[i - 1], i)
        BY <4>1
      <4> QED
        BY <3>2, <4>2
    <3> QED
      BY <3>1, <3>2
  <2> HIDE DEF body, want
  <2>3. g = [i \in 0..n |-> want(i)]
    BY <2>1, <2>2
  <2> QED
    BY <2>3 DEF want
<1> DEFINE f == HeaderStates(values, ours)
<1>6. Is(f)
  <2>1. f = CHOOSE h : Is(h)
    BY DEF HeaderStates, n, a, step
  <2> HIDE DEF f, Is
  <2> QED
    BY <1>5, <2>1
<1> DEFINE val(i) == IF i = 0 THEN a ELSE step(f[i - 1], i)
<1> HIDE DEF f
<1>7. f = [i \in 0..n |-> val(i)]
  BY <1>6
<1> HIDE DEF val
<1>8. \A i \in 0..n : f[i] = val(i)
  BY <1>7
<1>9. f[0] = a /\ \A i \in 1..n : f[i] = step(f[i - 1], i)
  <2>1. 0 \in 0..n /\ \A i \in 1..n : i \in 0..n /\ i # 0
    BY <1>1
  <2> QED
    BY <1>8, <2>1 DEF val
<1>10. \A i \in 0..n : f[i] \in States
  <2> DEFINE S == {i \in 0..n : f[i] \in States}
  <2>1. 0 \in S
    BY <1>1, <1>9
  <2>2. ASSUME NEW i \in 1..n, i - 1 \in S PROVE i \in S
    <3>1. i \in 0..n /\ f[i - 1] \in States
      BY <1>1, <2>2
    <3>2. f[i] = step(f[i - 1], i) /\ step(f[i - 1], i) \in States
      BY <1>2, <1>9, <3>1
    <3> QED
      BY <3>1, <3>2
  <2> HIDE DEF S
  <2>3. \A i \in 0..n : i \in S
    BY <1>1, <2>1, <2>2, InductionTo
  <2> QED
    BY <2>3 DEF S
<1>11. f \in [0..n -> States]
  BY <1>7, <1>10
<1> QED
  BY <1>9, <1>11 DEF f, n, a, step

\* What an extension may be, and a configuration in progress.
Exts == [enabled : BOOLEAN, params : Seq(AnyParam), our_max_window_bits : 9..15, their_max_window_bits : 9..15]
Configs == [ext : Exts, stop : BOOLEAN, noTakeover : BOOLEAN]

\* set_their_max_window_bits keeps the window within 9..15.
LEMMA SetTheirsTyped ==
  ASSUME NEW c \in Configs, NEW p \in AnyParam, NEW expected
  PROVE  SetTheirs(c, p, expected) \in Configs
<1>1. p.value \in Nat
  BY DEF AnyParam
<1>2. Stopped(c) \in Configs
  BY DEF Stopped, Configs
<1>3. ASSUME ~(p.value < 8), ~(p.value > 15) PROVE [c EXCEPT !.ext.their_max_window_bits = AtLeast9(p.value)] \in Configs
  <2>1. AtLeast9(p.value) \in 9..15
    BY <1>1, <1>3 DEF AtLeast9
  <2> QED
    BY <2>1 DEF Configs, Exts
<1> QED
  BY <1>2, <1>3, Zenon DEF SetTheirs

\* A parameter more in the answer.
LEMMA ReplyTyped ==
  ASSUME NEW c \in Configs, NEW p \in AnyParam
  PROVE  Reply(c, p) \in Configs
<1>1. Append(c.ext.params, p) \in Seq(AnyParam)
  BY DEF Configs, Exts
<1> QED
  BY <1>1 DEF Reply, Configs, Exts

\* One parameter of an offer.
LEMMA ServerParamTyped ==
  ASSUME NEW c \in Configs, NEW p \in AnyParam
  PROVE  ServerParam(c, p) \in Configs
<1>1. SetTheirs(c, p, 255) \in Configs /\ Reply(c, p) \in Configs
  BY SetTheirsTyped, ReplyTyped
<1>2. Reply(c, Param(p.name, None)) \in Configs
  <2>1. Param(p.name, None) \in AnyParam
    BY DEF Param, None, AnyParam
  <2> QED
    BY <2>1, ReplyTyped
<1>3. Stopped(c) \in Configs
  BY DEF Stopped, Configs
<1>4. p.value \in 9..15 => [Reply(c, p) EXCEPT !.ext.our_max_window_bits = p.value] \in Configs
  BY <1>1 DEF Configs, Exts
<1> QED
  BY <1>1, <1>2, <1>3, <1>4 DEF ServerParam

\* One parameter of an answer.
LEMMA ClientParamTyped ==
  ASSUME NEW c \in Configs, NEW p \in AnyParam
  PROVE  ClientParam(c, p) \in Configs
<1>1. SetTheirs(c, p, c.ext.their_max_window_bits) \in Configs
  BY SetTheirsTyped
<1>2. Stopped(c) \in Configs /\ [c EXCEPT !.noTakeover = TRUE] \in Configs
  BY DEF Stopped, Configs
<1>3. p.value \in 8..15 => [c EXCEPT !.ext.our_max_window_bits = Smaller(@, AtLeast9(p.value))] \in Configs
  BY DEF Configs, Exts, Smaller, AtLeast9
<1> QED
  BY <1>1, <1>2, <1>3 DEF ClientParam

\* The loop of configure.
LEMMA RoundsAre ==
  ASSUME NEW mode, NEW ext \in Exts, NEW params \in Seq(AnyParam)
  PROVE  LET f == Rounds(mode, ext, params) IN
         /\ f \in [0..Len(params) -> Configs] /\ f[0] = Start(ext)
         /\ \A i \in 1..Len(params) : f[i] = IF mode = "Server" THEN ServerParam(f[i - 1], params[i]) ELSE ClientParam(f[i - 1], params[i])
<1> DEFINE n == Len(params)
           a == Start(ext)
           step(v, i) == IF mode = "Server" THEN ServerParam(v, params[i]) ELSE ClientParam(v, params[i])
           G == [x \in Configs \X (1..n) |-> step(x[1], x[2])]
           Is(f) == f = [i \in 0..n |-> IF i = 0 THEN a ELSE step(f[i - 1], i)]
<1>1. n \in Nat /\ a \in Configs
  BY DEF Start, Configs
<1>2. ASSUME NEW v \in Configs, NEW i \in 1..n PROVE step(v, i) \in Configs
  <2>1. params[i] \in AnyParam
    OBVIOUS
  <2> QED
    BY <2>1, ServerParamTyped, ClientParamTyped
<1> HIDE DEF n, a, step
<1>3. G \in [Configs \X (1..n) -> Configs]
  BY <1>2
<1>4. PICK g \in [0..n -> Configs] : IsRecursive(g, n, a, G)
  <2> HIDE DEF G
  <2> QED
    BY <1>1, <1>3, RecursiveFunction
<1>5. Is(g)
  <2> DEFINE body(i) == IF i = 0 THEN a ELSE G[<<g[i - 1], i>>]
             want(i) == IF i = 0 THEN a ELSE step(g[i - 1], i)
  <2>1. g = [i \in 0..n |-> body(i)]
    BY <1>4 DEF IsRecursive
  <2>2. ASSUME NEW i \in 0..n PROVE body(i) = want(i)
    <3>1. CASE i = 0
      BY <3>1
    <3>2. CASE i # 0
      <4>1. i \in 1..n /\ g[i - 1] \in Configs
        BY <1>1, <3>2
      <4>2. G[<<g[i - 1], i>>] = step(g[i - 1], i)
        BY <4>1
      <4> QED
        BY <3>2, <4>2
    <3> QED
      BY <3>1, <3>2
  <2> HIDE DEF body, want
  <2>3. g = [i \in 0..n |-> want(i)]
    BY <2>1, <2>2
  <2> QED
    BY <2>3 DEF want
<1> DEFINE f == Rounds(mode, ext, params)
<1>6. Is(f)
  <2>1. f = CHOOSE h : Is(h)
    BY DEF Rounds, n, a, step
  <2> HIDE DEF f, Is
  <2> QED
    BY <1>5, <2>1
<1> DEFINE val(i) == IF i = 0 THEN a ELSE step(f[i - 1], i)
<1> HIDE DEF f
<1>7. f = [i \in 0..n |-> val(i)]
  BY <1>6
<1> HIDE DEF val
<1>8. \A i \in 0..n : f[i] = val(i)
  BY <1>7
<1>9. f[0] = a /\ \A i \in 1..n : f[i] = step(f[i - 1], i)
  <2>1. 0 \in 0..n /\ \A i \in 1..n : i \in 0..n /\ i # 0
    BY <1>1
  <2> QED
    BY <1>8, <2>1 DEF val
<1>10. \A i \in 0..n : f[i] \in Configs
  <2> DEFINE S == {i \in 0..n : f[i] \in Configs}
  <2>1. 0 \in S
    BY <1>1, <1>9
  <2>2. ASSUME NEW i \in 1..n, i - 1 \in S PROVE i \in S
    <3>1. i \in 0..n /\ f[i - 1] \in Configs
      BY <1>1, <2>2
    <3>2. f[i] = step(f[i - 1], i) /\ step(f[i - 1], i) \in Configs
      BY <1>2, <1>9, <3>1
    <3> QED
      BY <3>1, <3>2
  <2> HIDE DEF S
  <2>3. \A i \in 0..n : i \in S
    BY <1>1, <2>1, <2>2, InductionTo
  <2> QED
    BY <2>3 DEF S
<1>11. f \in [0..n -> Configs]
  BY <1>7, <1>10
<1> QED
  BY <1>9, <1>11 DEF f, n, a, step

\* configure keeps the windows within 9..15, whatever the other end sends.
LEMMA ConfigureTyped ==
  ASSUME NEW mode, NEW ext \in Exts, NEW params \in Seq(AnyParam)
  PROVE  Configure(mode, ext, params) \in Exts
<1> DEFINE bare == [ext EXCEPT !.params = <<>>]
           s == Rounds("Server", bare, params)[Len(params)]
           c == Rounds("Client", ext, params)[Len(params)]
<1>1. bare \in Exts
  <2>1. <<>> \in Seq(AnyParam)
    OBVIOUS
  <2> QED
    BY <2>1 DEF Exts
<1>2. Len(params) \in 0..Len(params)
  OBVIOUS
<1>3. s \in Configs
  <2> HIDE DEF bare
  <2>1. Rounds("Server", bare, params) \in [0..Len(params) -> Configs]
    BY <1>1, RoundsAre
  <2> QED
    BY <1>2, <2>1
<1>4. c \in Configs
  <2>1. Rounds("Client", ext, params) \in [0..Len(params) -> Configs]
    BY RoundsAre
  <2> QED
    BY <1>2, <2>1
<1>5. Configure(mode, ext, params) \in {[s.ext EXCEPT !.enabled = @ \/ ~s.stop], [c.ext EXCEPT !.enabled = @ \/ (~c.stop /\ c.noTakeover)]}
  BY DEF Configure, ServerConfigure, ClientConfigure
<1> HIDE DEF s, c
<1> QED
  BY <1>3, <1>4, <1>5 DEF Configs, Exts

\* The loop of configure_extensions.
LEMMA ConfigureEachIs ==
  ASSUME NEW mode, NEW ext \in Exts, NEW entries \in Seq(AnyEntry)
  PROVE  LET f == ConfigureEach(mode, ext, entries) IN
         /\ f \in [0..Len(entries) -> Exts] /\ f[0] = ext
         /\ \A i \in 1..Len(entries) : f[i] = IF IsConfigured(entries, i) THEN Configure(mode, f[i - 1], entries[i].params) ELSE f[i - 1]
<1> DEFINE n == Len(entries)
           a == ext
           step(v, i) == IF IsConfigured(entries, i) THEN Configure(mode, v, entries[i].params) ELSE v
           G == [x \in Exts \X (1..n) |-> step(x[1], x[2])]
           Is(f) == f = [i \in 0..n |-> IF i = 0 THEN a ELSE step(f[i - 1], i)]
<1>1. n \in Nat /\ a \in Exts
  OBVIOUS
<1>2. ASSUME NEW v \in Exts, NEW i \in 1..n PROVE step(v, i) \in Exts
  <2>1. entries[i] \in AnyEntry
    OBVIOUS
  <2>2. entries[i].params \in Seq(AnyParam)
    BY <2>1 DEF AnyEntry
  <2> QED
    BY <2>2, ConfigureTyped
<1> HIDE DEF n, a, step
<1>3. G \in [Exts \X (1..n) -> Exts]
  BY <1>2
<1>4. PICK g \in [0..n -> Exts] : IsRecursive(g, n, a, G)
  <2> HIDE DEF G
  <2> QED
    BY <1>1, <1>3, RecursiveFunction
<1>5. Is(g)
  <2> DEFINE body(i) == IF i = 0 THEN a ELSE G[<<g[i - 1], i>>]
             want(i) == IF i = 0 THEN a ELSE step(g[i - 1], i)
  <2>1. g = [i \in 0..n |-> body(i)]
    BY <1>4 DEF IsRecursive
  <2>2. ASSUME NEW i \in 0..n PROVE body(i) = want(i)
    <3>1. CASE i = 0
      BY <3>1
    <3>2. CASE i # 0
      <4>1. i \in 1..n /\ g[i - 1] \in Exts
        BY <1>1, <3>2
      <4>2. G[<<g[i - 1], i>>] = step(g[i - 1], i)
        BY <4>1
      <4> QED
        BY <3>2, <4>2
    <3> QED
      BY <3>1, <3>2
  <2> HIDE DEF body, want
  <2>3. g = [i \in 0..n |-> want(i)]
    BY <2>1, <2>2
  <2> QED
    BY <2>3 DEF want
<1> DEFINE f == ConfigureEach(mode, ext, entries)
<1>6. Is(f)
  <2>1. f = CHOOSE h : Is(h)
    BY DEF ConfigureEach, n, a, step
  <2> HIDE DEF f, Is
  <2> QED
    BY <1>5, <2>1
<1> DEFINE val(i) == IF i = 0 THEN a ELSE step(f[i - 1], i)
<1> HIDE DEF f
<1>7. f = [i \in 0..n |-> val(i)]
  BY <1>6
<1> HIDE DEF val
<1>8. \A i \in 0..n : f[i] = val(i)
  BY <1>7
<1>9. f[0] = a /\ \A i \in 1..n : f[i] = step(f[i - 1], i)
  <2>1. 0 \in 0..n /\ \A i \in 1..n : i \in 0..n /\ i # 0
    BY <1>1
  <2> QED
    BY <1>8, <2>1 DEF val
<1>10. \A i \in 0..n : f[i] \in Exts
  <2> DEFINE S == {i \in 0..n : f[i] \in Exts}
  <2>1. 0 \in S
    BY <1>1, <1>9
  <2>2. ASSUME NEW i \in 1..n, i - 1 \in S PROVE i \in S
    <3>1. i \in 0..n /\ f[i - 1] \in Exts
      BY <1>1, <2>2
    <3>2. f[i] = step(f[i - 1], i) /\ step(f[i - 1], i) \in Exts
      BY <1>2, <1>9, <3>1
    <3> QED
      BY <3>1, <3>2
  <2> HIDE DEF S
  <2>3. \A i \in 0..n : i \in S
    BY <1>1, <2>1, <2>2, InductionTo
  <2> QED
    BY <2>3 DEF S
<1>11. f \in [0..n -> Exts]
  BY <1>7, <1>10
<1> QED
  BY <1>9, <1>11 DEF f, n, a, step

-----------------------------------------------------------------------------
(* Types.                                                                  *)

Piece   == {"head", "end", "data"} \X Nat
Results == [kind : {"none", "Accepted", "Redirect", "Rejected", "Err"}, code : Nat, protocol : Seq(STRING), answer : Nat]
Clients == [pc : {"idle", "waiting"}, nonce : Nat, buffer : Seq(Piece), ext : Exts, result : Results]
Outcomes == {"none", "Ok", "Http", "InvalidRequestMethod", "UnsupportedHttpVersion", "HeaderNotFound", "Upgrade", "Connection",
             "Sec-WebSocket-Version", "SecWebSocketKeyInvalidLength", "Utf8", "InvalidSecWebSocketAccept",
             "IncompleteHttpRequest"}
Servers == [ext : Exts, result : Outcomes, key : Nat, proposed : Seq(STRING), accepted : BOOLEAN, protocol : Seq(STRING),
            refused : Nat]
Builders == [made : BOOLEAN, buffer : Seq(Piece), rsv1 : BOOLEAN]
Lefts   == [server : Nat, client : Nat, attempts : Nat, data : Nat]

Known ==
  /\ setup \in Setups
  /\ left \in Lefts
  /\ attempts \in Nat /\ attempts + left.attempts <= setup.left.attempts
  /\ client \in Clients /\ server \in Servers
  /\ request \in AnyRequest
  /\ answers \in Seq(AnyResponse)
  /\ down \in Seq(Piece)
  /\ seen \in 0..Len(down)
  /\ hungup \in BOOLEAN
  /\ builder \in [{"client", "server"} -> Builders]
  /\ builder["server"].buffer = <<>>

\* The halves of responses are those of responses that have been sent.
PiecesSent == \A i \in 1..Len(down) : down[i][1] # "data" => down[i][2] \in 1..Len(answers)

\* buffer holds the pieces behind the first b, up to number s.
IsSlice(buffer, b, s) == Len(buffer) = s - b /\ \A i \in 1..s - b : buffer[i] = down[b + i]

\* The client's buffer holds the last pieces that it has read.
Buffered == \E b \in 0..seen : IsSlice(client.buffer, b, seen)

KnownInv == Known /\ PiecesSent /\ Buffered

\* What the configuration is.
LEMMA SetupIs ==
  ASSUME setup \in Setups
  PROVE  /\ setup \in AnySetup
         /\ setup.foreign \in {"none", "client", "server"} /\ setup.http \in BOOLEAN /\ setup.peer \in STRING
         /\ setup.clientProtocols \in Seq(STRING) /\ setup.serverProtocols \in SUBSET STRING
         /\ setup.clientDeflate \in BOOLEAN /\ setup.serverDeflate \in BOOLEAN /\ setup.left \in Lefts
<1>1. setup \in AnySetup
  BY HandshakeAssumption
<1> QED
  BY <1>1 DEF AnySetup, Lefts

\* The least of some numbers.
LEMMA MinIs ==
  ASSUME NEW S \in SUBSET Nat, S # {}
  PROVE  Min(S) \in S /\ \A k \in S : Min(S) <= k
<1>1. \E m \in S : \A k \in S : m <= k
  BY LeastMember
<1> QED
  BY <1>1 DEF Min

\* The first of the pieces that ends a response.
FirstEnd(s, o) ==
  \/ o = 0 /\ \A i \in 1..Len(s) : s[i][1] # "end"
  \/ o \in 1..Len(s) /\ s[o][1] = "end" /\ \A j \in 1..Len(s) : j < o => s[j][1] # "end"

LEMMA FirstEndIs ==
  ASSUME NEW s \in Seq(Piece)
  PROVE  FirstEnd(s, SelectInSeq(s, LAMBDA p : p[1] = "end"))
<1> DEFINE I == {i \in 1..Len(s) : s[i][1] = "end"}
           o == SelectInSeq(s, LAMBDA p : p[1] = "end")
<1>1. o = IF I # {} THEN Min(I) ELSE 0
  BY DEF SelectInSeq
<1>2. I \in SUBSET Nat
  OBVIOUS
<1> HIDE DEF o
<1>3. CASE I = {}
  BY <1>1, <1>3 DEF FirstEnd, o
<1>4. CASE I # {}
  <2> HIDE DEF I
  <2>1. o \in I /\ \A k \in I : o <= k
    BY <1>1, <1>2, <1>4, MinIs
  <2> USE DEF I
  <2>2. o \in 1..Len(s) /\ s[o][1] = "end"
    BY <2>1
  <2>3. ASSUME NEW j \in 1..Len(s), j < o PROVE s[j][1] # "end"
    BY <2>1, <2>2, <2>3
  <2> QED
    BY <2>2, <2>3 DEF FirstEnd, o
<1> QED
  BY <1>3, <1>4

\* The halves of n responses.
LEMMA PiecesAre ==
  ASSUME NEW i \in Nat, NEW n \in Nat
  PROVE  /\ Pieces(i, n) \in Seq(Piece) /\ Len(Pieces(i, n)) = 2 * n
         /\ \A k \in 1..2 * n : /\ Pieces(i, n)[k][1] # "data" /\ Pieces(i, n)[k][2] \in i..(i + n) - 1
                                /\ Pieces(i, n)[k] = <<IF k % 2 = 1 THEN "head" ELSE "end", i + (k - 1) \div 2>>
<1> DEFINE P == Pieces(i, n)
           kind(k) == IF k % 2 = 1 THEN "head" ELSE "end"
           number(k) == i + (k - 1) \div 2
<1>1. P = [k \in 1..2 * n |-> <<kind(k), number(k)>>]
  BY DEF Pieces
<1>2. ASSUME NEW k \in 1..2 * n PROVE number(k) \in Nat /\ number(k) \in i..(i + n) - 1
  <2>1. PICK h \in Nat : h = (k - 1) \div 2 /\ h < n
    <3>1. (k - 1) \div 2 \in Nat /\ (k - 1) \div 2 < n
      OBVIOUS
    <3> QED
      BY <3>1
  <2>2. number(k) = i + h
    BY <2>1
  <2> QED
    BY <2>1, <2>2
<1>3. ASSUME NEW k \in 1..2 * n PROVE kind(k) \in {"head", "end"} /\ kind(k) # "data"
  OBVIOUS
<1> HIDE DEF kind, number, P
<1>4. ASSUME NEW k \in 1..2 * n PROVE <<kind(k), number(k)>> \in Piece
  BY <1>2, <1>3 DEF Piece
<1>5. 2 * n \in Nat
  OBVIOUS
<1>6. P \in [1..2 * n -> Piece]
  BY <1>1, <1>4
<1>7. P \in Seq(Piece) /\ Len(P) = 2 * n
  BY <1>5, <1>6, SeqDef, LenProperties
<1>8. ASSUME NEW k \in 1..2 * n
      PROVE  P[k][1] # "data" /\ P[k][2] \in i..(i + n) - 1 /\ P[k] = <<kind(k), number(k)>>
  BY <1>1, <1>2, <1>3
<1> QED
  BY <1>7, <1>8 DEF P, kind, number

\* Two sequences, one behind the other.
LEMMA Joined ==
  ASSUME NEW S, NEW s \in Seq(S), NEW t \in Seq(S)
  PROVE  /\ s \o t \in Seq(S) /\ Len(s \o t) = Len(s) + Len(t)
         /\ \A i \in 1..Len(s) : (s \o t)[i] = s[i]
         /\ \A i \in 1..Len(t) : (s \o t)[Len(s) + i] = t[i]
<1>1. Len(s) \in Nat /\ Len(t) \in Nat
  OBVIOUS
<1>2. /\ s \o t \in Seq(S) /\ Len(s \o t) = Len(s) + Len(t)
      /\ \A i \in 1..Len(s) + Len(t) : (s \o t)[i] = IF i <= Len(s) THEN s[i] ELSE t[i - Len(s)]
  BY ConcatProperties
<1>3. ASSUME NEW i \in 1..Len(t) PROVE (s \o t)[Len(s) + i] = t[i]
  BY <1>1, <1>2
<1> QED
  BY <1>1, <1>2, <1>3

\* Nothing that has been sent to the client changes.
Grows ==
  /\ answers' \in Seq(AnyResponse) /\ down' \in Seq(Piece)
  /\ Len(answers) <= Len(answers') /\ Len(down) <= Len(down')
  /\ \A i \in 1..Len(answers) : answers'[i] = answers[i]
  /\ \A i \in 1..Len(down) : down'[i] = down[i]

\* What a response adds.
Adds(responses) ==
  /\ Len(answers') = Len(answers) + Len(responses)
  /\ \A i \in 1..Len(responses) : answers'[Len(answers) + i] = responses[i]
  /\ Len(down') = Len(down) + 2 * Len(responses)
  /\ \A k \in 1..2 * Len(responses) :
       down'[Len(down) + k] = <<IF k % 2 = 1 THEN "head" ELSE "end", (Len(answers) + 1) + (k - 1) \div 2>>

LEMMA Responds ==
  ASSUME Known, PiecesSent, NEW responses \in Seq(AnyResponse), Respond(responses)
  PROVE  Grows /\ Adds(responses) /\ PiecesSent'
<1> DEFINE P == Pieces(Len(answers) + 1, Len(responses))
<1>1. PICK m \in Nat, r \in Nat, d \in Nat : m = Len(answers) /\ r = Len(responses) /\ d = Len(down)
  BY DEF Known
<1>2. answers \in Seq(AnyResponse) /\ down \in Seq(Piece) /\ answers' = answers \o responses /\ down' = down \o P
  BY DEF Known, Respond
<1>3. /\ Pieces(m + 1, r) \in Seq(Piece) /\ Len(Pieces(m + 1, r)) = 2 * r
      /\ \A k \in 1..2 * r : /\ Pieces(m + 1, r)[k][1] # "data" /\ Pieces(m + 1, r)[k][2] \in m + 1..((m + 1) + r) - 1
                             /\ Pieces(m + 1, r)[k] = <<IF k % 2 = 1 THEN "head" ELSE "end", (m + 1) + (k - 1) \div 2>>
  <2>1. m + 1 \in Nat
    OBVIOUS
  <2> QED
    BY <2>1, PiecesAre
<1>4. /\ P \in Seq(Piece) /\ Len(P) = 2 * r
      /\ \A k \in 1..2 * r : /\ P[k][1] # "data" /\ P[k][2] \in m + 1..((m + 1) + r) - 1
                             /\ P[k] = <<IF k % 2 = 1 THEN "head" ELSE "end", (m + 1) + (k - 1) \div 2>>
  BY <1>1, <1>3, Zenon
<1> HIDE DEF P
<1>5. /\ answers' \in Seq(AnyResponse) /\ Len(answers') = m + r
      /\ \A i \in 1..m : answers'[i] = answers[i]
      /\ \A i \in 1..r : answers'[m + i] = responses[i]
  <2>1. /\ answers \o responses \in Seq(AnyResponse) /\ Len(answers \o responses) = Len(answers) + Len(responses)
        /\ \A i \in 1..Len(answers) : (answers \o responses)[i] = answers[i]
        /\ \A i \in 1..Len(responses) : (answers \o responses)[Len(answers) + i] = responses[i]
    BY <1>2, Joined
  <2> QED
    BY <1>1, <1>2, <2>1, Zenon
<1>6. /\ down' \in Seq(Piece) /\ Len(down') = d + 2 * r
      /\ \A i \in 1..d : down'[i] = down[i]
      /\ \A i \in 1..2 * r : down'[d + i] = P[i]
  <2>1. /\ down \o P \in Seq(Piece) /\ Len(down \o P) = Len(down) + Len(P)
        /\ \A i \in 1..Len(down) : (down \o P)[i] = down[i]
        /\ \A i \in 1..Len(P) : (down \o P)[Len(down) + i] = P[i]
    <3>1. down \in Seq(Piece) /\ P \in Seq(Piece)
      BY <1>2, <1>4
    <3> QED
      BY <3>1, Joined
  <2> QED
    BY <1>1, <1>2, <1>4, <2>1, Zenon
<1>7. Grows
  <2>1. m <= m + r /\ d <= d + 2 * r
    OBVIOUS
  <2> QED
    BY <1>1, <1>5, <1>6, <2>1, Zenon DEF Grows
<1>8. Adds(responses)
  <2>1. \A k \in 1..2 * r : down'[d + k] = <<IF k % 2 = 1 THEN "head" ELSE "end", (m + 1) + (k - 1) \div 2>>
    BY <1>4, <1>6, Zenon
  <2> QED
    BY <1>1, <1>5, <1>6, <2>1, Zenon DEF Adds
<1>9. ASSUME NEW i \in 1..d + 2 * r, down'[i][1] # "data" PROVE down'[i][2] \in 1..m + r
  <2>1. CASE i <= d
    <3>1. i \in 1..d
      BY <2>1
    <3>2. down'[i] = down[i] /\ i \in 1..Len(down)
      BY <1>1, <1>6, <3>1
    <3>3. down[i][2] \in 1..Len(answers)
      BY <1>9, <3>2 DEF PiecesSent
    <3>4. down[i][2] \in 1..m
      BY <1>1, <3>3, Zenon
    <3> QED
      BY <3>2, <3>4
  <2>2. CASE ~(i <= d)
    <3>1. PICK k \in 1..2 * r : i = d + k
      <4>1. i - d \in 1..2 * r /\ i = d + (i - d)
        BY <2>2
      <4> QED
        BY <4>1
    <3>2. down'[i] = P[k]
      BY <1>6, <3>1
    <3>3. P[k][2] \in m + 1..((m + 1) + r) - 1
      BY <1>4
    <3>4. P[k][2] \in 1..m + r
      BY <3>3
    <3> QED
      BY <3>2, <3>4
  <2> QED
    BY <2>1, <2>2
<1>10. PiecesSent'
  BY <1>5, <1>6, <1>9, Zenon DEF PiecesSent
<1> QED
  BY <1>7, <1>8, <1>10

\* What is in the client's buffer does not change either.
LEMMA SliceStays ==
  ASSUME Known, Grows, NEW buffer, NEW b \in Nat, b <= seen, IsSlice(buffer, b, seen)
  PROVE  Len(buffer) = seen - b /\ \A i \in 1..seen - b : buffer[i] = down'[b + i]
<1>1. PICK d \in Nat, s \in Nat : d = Len(down) /\ s = seen /\ s <= d
  BY DEF Known
<1>2. ASSUME NEW i \in 1..s - b PROVE down'[b + i] = down[b + i]
  <2>1. b + i \in 1..d
    BY <1>1
  <2> QED
    BY <1>1, <2>1, Zenon DEF Grows
<1> QED
  BY <1>1, <1>2, Zenon DEF IsSlice

LEMMA BufferStays ==
  ASSUME Known, Grows, Buffered, seen' = seen, client'.buffer = client.buffer
  PROVE  Buffered'
<1>1. PICK b \in 0..seen : IsSlice(client.buffer, b, seen)
  BY DEF Buffered
<1>2. seen \in Nat /\ b \in Nat /\ b <= seen
  BY <1>1 DEF Known
<1>3. Len(client.buffer) = seen - b /\ \A i \in 1..seen - b : client.buffer[i] = down'[b + i]
  BY <1>1, <1>2, SliceStays
<1>4. IsSlice(client.buffer, b, seen)'
  BY <1>3, Zenon DEF IsSlice
<1> QED
  BY <1>4 DEF Buffered

\* The states before the handshake.
LEMMA NewTyped == NewServer \in Exts /\ NewClient \in Exts /\ ClientNew \in Clients /\ ServerNew \in Servers
<1>1. <<>> \in Seq(AnyParam) /\ <<>> \in Seq(Piece) /\ <<>> \in Seq(STRING)
  OBVIOUS
<1>2. NewServer \in Exts
  BY <1>1 DEF NewServer, Exts
<1>3. <<Param("server_no_context_takeover", None), Param("client_no_context_takeover", None),
        Param("client_max_window_bits", None)>> \in Seq(AnyParam)
  BY DEF Param, None, AnyParam
<1>4. NewClient \in Exts
  BY <1>2, <1>3 DEF NewClient, Exts
<1>5. Result("none") \in Results
  BY <1>1 DEF Result, Results
<1>6. ClientNew \in Clients
  BY <1>1, <1>4, <1>5 DEF ClientNew, Clients
<1>7. ServerNew \in Servers
  BY <1>1, <1>2 DEF ServerNew, Servers, Outcomes
<1> QED
  BY <1>2, <1>4, <1>6, <1>7

LEMMA NoRequestTyped == NoRequest \in AnyRequest
<1>1. <<>> \in Streams
  BY HandshakeAssumption
<1>2. <<>> \in Headers /\ <<>> \in Seq(Nat) /\ <<>> \in Seq(AnyEntry) /\ <<>> \in Seq(Seq(STRING))
  BY DEF Headers
<1> QED
  BY <1>1, <1>2 DEF NoRequest, AnyRequest

LEMMA KnownInit == HandshakeInit => KnownInv
<1> SUFFICES ASSUME HandshakeInit PROVE KnownInv
  OBVIOUS
<1>1. /\ setup \in Setups /\ left = setup.left /\ client = ClientNew /\ server = ServerNew /\ attempts = 0 /\ seen = 0
      /\ request = NoRequest /\ answers = <<>> /\ down = <<>> /\ hungup = FALSE
      /\ builder = [end \in {"client", "server"} |-> NoBuilder]
  BY DEF HandshakeInit
<1>2. left \in Lefts /\ setup.left \in Lefts
  BY <1>1, SetupIs
<1>3. NoBuilder \in Builders
  BY DEF NoBuilder, Builders
<1>4. builder \in [{"client", "server"} -> Builders] /\ builder["server"].buffer = <<>>
  BY <1>1, <1>3 DEF NoBuilder
<1>5. attempts + left.attempts <= setup.left.attempts
  <2>1. left.attempts \in Nat
    BY <1>2 DEF Lefts
  <2> QED
    BY <1>1, <2>1
<1>6. Known
  <2>1. answers \in Seq(AnyResponse) /\ down \in Seq(Piece) /\ Len(down) = 0
    BY <1>1
  <2>2. attempts \in Nat /\ seen \in 0..Len(down) /\ hungup \in BOOLEAN
    <3>1. 0 \in Nat /\ 0 \in 0..0 /\ FALSE \in BOOLEAN
      OBVIOUS
    <3> QED
      BY <1>1, <2>1, <3>1, Zenon
  <2>3. client \in Clients /\ server \in Servers /\ request \in AnyRequest
    BY <1>1, NewTyped, NoRequestTyped
  <2> QED
    BY <1>1, <1>2, <1>4, <1>5, <2>1, <2>2, <2>3, Zenon DEF Known
<1>7. PiecesSent
  BY <1>1 DEF PiecesSent
<1>8. Buffered
  <2>1. client.buffer = <<>>
    BY <1>1 DEF ClientNew
  <2>2. IsSlice(client.buffer, 0, 0)
    BY <2>1 DEF IsSlice
  <2> QED
    BY <1>1, <2>2 DEF Buffered
<1> QED
  BY <1>6, <1>7, <1>8 DEF KnownInv

\* An action that sends nothing and reads nothing.
LEMMA QuietKnown ==
  ASSUME KnownInv, UNCHANGED <<answers, down, seen>>, client'.buffer = client.buffer
  PROVE  PiecesSent' /\ Buffered'
<1>1. PiecesSent'
  BY DEF KnownInv, PiecesSent
<1>2. PICK b \in 0..seen : IsSlice(client.buffer, b, seen)
  BY DEF KnownInv, Buffered
<1>3. IsSlice(client.buffer, b, seen)'
  BY <1>2 DEF IsSlice
<1> QED
  BY <1>1, <1>3 DEF Buffered

\* set_max_server_window_bits
LEMMA SetServerKnown ==
  ASSUME KnownInv, NEW max \in Bits, SetMaxServerWindowBits(max)
  PROVE  KnownInv'
<1>1. Known /\ max \in 9..15
  BY HandshakeAssumption DEF KnownInv
<1>2. UNCHANGED <<setup, attempts, server, request, answers, down, seen, hungup, builder>> /\ left.server > 0
  BY DEF SetMaxServerWindowBits
<1>3. left' = [left EXCEPT !.server = left.server - 1]
  BY DEF SetMaxServerWindowBits
<1>4. left' \in Lefts /\ left'.attempts = left.attempts
  <2>1. left \in Lefts /\ left.server \in Nat
    BY <1>1 DEF Known, Lefts
  <2>2. left.server - 1 \in Nat
    BY <1>2, <2>1
  <2> QED
    BY <1>3, <2>1, <2>2 DEF Lefts
<1> DEFINE params == Append(client.ext.params, Param("server_max_window_bits", max))
           ext == [client.ext EXCEPT !.their_max_window_bits = max, !.params = params]
<1>5. client' = [client EXCEPT !.ext = ext]
  BY <1>1 DEF SetMaxServerWindowBits, Known, Clients, Exts
<1>6. ext \in Exts
  <2>1. client.ext \in Exts
    BY <1>1 DEF Known, Clients
  <2>2. Param("server_max_window_bits", max) \in AnyParam
    BY <1>1 DEF Param, AnyParam
  <2>3. params \in Seq(AnyParam)
    BY <2>1, <2>2 DEF Exts
  <2> HIDE DEF params
  <2> QED
    BY <1>1, <2>1, <2>3 DEF Exts
<1> HIDE DEF ext
<1>7. client' \in Clients /\ client'.buffer = client.buffer
  BY <1>1, <1>5, <1>6 DEF Known, Clients
<1>8. Known'
  BY <1>1, <1>2, <1>4, <1>7 DEF Known
<1> QED
  BY <1>2, <1>7, <1>8, QuietKnown DEF KnownInv

\* set_max_client_window_bits
LEMMA WithClientBitsTyped ==
  ASSUME NEW params \in Seq(AnyParam), NEW max \in 9..15
  PROVE  WithClientBits(params, max) \in Seq(AnyParam)
<1> DEFINE value(i) == IF params[i].name = "client_max_window_bits" THEN Param(params[i].name, max) ELSE params[i]
<1>1. ASSUME NEW i \in 1..Len(params) PROVE value(i) \in AnyParam
  <2>1. params[i] \in AnyParam /\ max \in Nat
    OBVIOUS
  <2> QED
    BY <2>1 DEF Param, AnyParam
<1>2. WithClientBits(params, max) = [i \in 1..Len(params) |-> value(i)]
  BY DEF WithClientBits
<1> HIDE DEF value
<1>3. Len(params) \in Nat
  OBVIOUS
<1> QED
  BY <1>1, <1>2, <1>3, IsASeq

LEMMA SetClientKnown ==
  ASSUME KnownInv, NEW max \in Bits, SetMaxClientWindowBits(max)
  PROVE  KnownInv'
<1>1. Known /\ max \in 9..15
  BY HandshakeAssumption DEF KnownInv
<1>2. UNCHANGED <<setup, attempts, server, request, answers, down, seen, hungup, builder>> /\ left.client > 0
  BY DEF SetMaxClientWindowBits
<1>3. left' = [left EXCEPT !.client = left.client - 1]
  BY DEF SetMaxClientWindowBits
<1>4. left' \in Lefts /\ left'.attempts = left.attempts
  <2>1. left \in Lefts /\ left.client \in Nat
    BY <1>1 DEF Known, Lefts
  <2>2. left.client - 1 \in Nat
    BY <1>2, <2>1
  <2> QED
    BY <1>3, <2>1, <2>2 DEF Lefts
<1> DEFINE params == WithClientBits(client.ext.params, max)
           ext == [client.ext EXCEPT !.our_max_window_bits = max, !.params = params]
<1>5. client' = [client EXCEPT !.ext = ext]
  BY <1>1 DEF SetMaxClientWindowBits, Known, Clients, Exts
<1>6. ext \in Exts
  <2>1. client.ext \in Exts
    BY <1>1 DEF Known, Clients
  <2>2. client.ext.params \in Seq(AnyParam)
    BY <2>1 DEF Exts
  <2>3. params \in Seq(AnyParam)
    BY <1>1, <2>2, WithClientBitsTyped
  <2> HIDE DEF params
  <2> QED
    BY <1>1, <2>1, <2>3 DEF Exts
<1> HIDE DEF ext
<1>7. client' \in Clients /\ client'.buffer = client.buffer
  BY <1>1, <1>5, <1>6 DEF Known, Clients
<1>8. Known'
  BY <1>1, <1>2, <1>4, <1>7 DEF Known
<1> QED
  BY <1>2, <1>7, <1>8, QuietKnown DEF KnownInv

\* encode_request
LEMMA EncodeRequestTyped ==
  ASSUME Known, NEW nonce \in Nat
  PROVE  EncodeRequest(nonce) \in AnyRequest
<1> DEFINE extensions == IF setup.clientDeflate THEN <<Entry(client.ext.params)>> ELSE <<>>
           protocol == IF setup.clientProtocols = <<>> THEN <<>> ELSE <<setup.clientProtocols>>
<1>1. client.ext.params \in Seq(AnyParam) /\ setup.clientProtocols \in Seq(STRING)
  BY SetupIs DEF Known, Clients, Exts
<1>2. Entry(client.ext.params) \in AnyEntry
  BY <1>1 DEF Entry, AnyEntry
<1>3. extensions \in Seq(AnyEntry)
  BY <1>2
<1>4. protocol \in Seq(Seq(STRING))
  <2> DEFINE T == Seq(STRING)
  <2>1. setup.clientProtocols \in T
    BY <1>1
  <2> HIDE DEF T
  <2>2. <<>> \in Seq(T) /\ <<setup.clientProtocols>> \in Seq(T)
    BY <2>1
  <2> QED
    BY <2>2 DEF T
<1>5. <<{"websocket"}>> \in Headers /\ <<{"upgrade"}>> \in Headers /\ <<{"13"}>> \in Headers
  BY DEF Headers
<1>6. <<nonce>> \in Seq(Nat) /\ RequestBytes \in Streams
  BY HandshakeAssumption
<1>7. EncodeRequest(nonce) = [bytes |-> RequestBytes, parses |-> TRUE, method |-> "GET", version |-> 1, host |-> TRUE,
        upgrade |-> <<{"websocket"}>>, connection |-> <<{"upgrade"}>>, wsversion |-> <<{"13"}>>, key |-> <<nonce>>,
        extensions |-> extensions, protocol |-> protocol]
  BY DEF EncodeRequest
<1> HIDE DEF extensions, protocol
<1> QED
  BY <1>3, <1>4, <1>5, <1>6, <1>7 DEF AnyRequest

\* handshake, up to the flush
LEMMA SendRequestKnown ==
  ASSUME KnownInv, SendRequest
  PROVE  KnownInv'
<1>1. Known /\ PiecesSent
  BY DEF KnownInv
<1>2. UNCHANGED <<setup, server, answers, down, seen, hungup, builder>> /\ left.attempts > 0
  BY DEF SendRequest
<1>3. attempts \in Nat /\ attempts + 1 \in Nat /\ left.attempts \in Nat /\ attempts + left.attempts <= setup.left.attempts
  BY <1>1 DEF Known, Lefts
<1>4. /\ attempts' = attempts + 1 /\ request' = EncodeRequest(attempts + 1)
      /\ client' = [client EXCEPT !.pc = "waiting", !.nonce = attempts + 1, !.buffer = <<>>, !.result = Result("none")]
      /\ left' = [left EXCEPT !.attempts = left.attempts - 1]
  BY DEF SendRequest, FreshNonce
<1>5. left' \in Lefts /\ left'.attempts = left.attempts - 1
  <2>1. left \in Lefts
    BY <1>1 DEF Known
  <2>2. left.attempts - 1 \in Nat
    BY <1>2, <1>3
  <2> QED
    BY <1>4, <2>1, <2>2 DEF Lefts
<1>6. setup.left.attempts \in Nat
  BY <1>1, SetupIs DEF Known, Lefts
<1>7. attempts' + left'.attempts <= setup'.left.attempts
  <2>1. (attempts + 1) + (left.attempts - 1) <= setup.left.attempts
    BY <1>3, <1>6
  <2> QED
    BY <1>2, <1>4, <1>5, <2>1
<1>8. client' \in Clients /\ client'.buffer = <<>>
  <2>1. Result("none") \in Results /\ <<>> \in Seq(Piece)
    BY DEF Result, Results
  <2> QED
    BY <1>1, <1>3, <1>4, <2>1 DEF Known, Clients
<1>9. request' \in AnyRequest
  BY <1>1, <1>3, <1>4, EncodeRequestTyped
<1>10. Known'
  BY <1>1, <1>2, <1>3, <1>4, <1>5, <1>7, <1>8, <1>9 DEF Known
<1>11. PiecesSent'
  BY <1>1, <1>2 DEF PiecesSent
<1>12. Buffered'
  <2>1. PICK s \in Nat : s = seen
    BY <1>1 DEF Known
  <2>2. Len(<<>>) = s - s /\ \A i \in 1..s - s : FALSE
    OBVIOUS
  <2>3. IsSlice(client.buffer, seen, seen)'
    BY <1>2, <1>8, <2>1, <2>2, Zenon DEF IsSlice
  <2>4. s \in 0..s
    OBVIOUS
  <2>5. seen' \in 0..seen'
    BY <1>2, <2>1, <2>4, Zenon
  <2> QED
    BY <2>3, <2>5 DEF Buffered
<1> QED
  BY <1>10, <1>11, <1>12 DEF KnownInv

\* A response that has been sent.
LEMMA AnswerIs ==
  ASSUME Known, NEW i \in 1..Len(answers)
  PROVE  /\ answers[i] \in AnyResponse /\ answers[i].code \in Nat /\ answers[i].attempt \in Nat
         /\ answers[i].extensions \in Seq(AnyEntry) /\ answers[i].protocol \in Seq(Seq(STRING))
         /\ answers[i].accept \in Seq([sha1 : Nat])
         /\ answers[i].upgrade \in Headers /\ answers[i].connection \in Headers
<1>1. answers[i] \in AnyResponse
  BY DEF Known
<1> QED
  BY <1>1 DEF AnyResponse

\* configure_extensions keeps the windows within 9..15.
LEMMA ConfigureExtensionsTyped ==
  ASSUME NEW mode, NEW ext \in Exts, NEW entries \in Seq(AnyEntry)
  PROVE  ConfigureExtensions(mode, ext, entries) \in Exts
<1>1. ConfigureEach(mode, ext, entries) \in [0..Len(entries) -> Exts]
  BY ConfigureEachIs
<1>2. Len(entries) \in 0..Len(entries)
  OBVIOUS
<1> QED
  BY <1>1, <1>2 DEF ConfigureExtensions

\* The result of handshake.
IsResultOf(i) ==
  LET r == answers[i]
      result == ResultOf(i)
  IN  /\ result \in Results
      /\ result.kind \in {"Accepted", "Rejected", "Redirect", "Err"}
      /\ result.kind = "Accepted" <=> ResponseOutcome(r) = "Ok"
      /\ result.kind = "Rejected" <=> ResponseOutcome(r) = "Rejected"
      /\ result.kind = "Redirect" <=> ResponseOutcome(r) = "Redirect"
      /\ result.kind = "Accepted" => result.protocol = IF r.protocol = <<>> THEN <<>> ELSE Head(r.protocol)
      /\ result.kind # "Err" => result.answer = i /\ result.code = r.code

LEMMA ResultOfIs ==
  ASSUME Known, NEW i \in 1..Len(answers)
  PROVE  IsResultOf(i)
<1> DEFINE r == answers[i]
           o == ResponseOutcome(r)
           first == IF r.protocol = <<>> THEN <<>> ELSE Head(r.protocol)
<1>1. r.code \in Nat /\ r.protocol \in Seq(Seq(STRING)) /\ Len(answers) \in Nat /\ i \in Nat
  BY AnswerIs DEF Known
<1>2. first \in Seq(STRING)
  <2> DEFINE T == Seq(STRING)
  <2>1. r.protocol \in Seq(T) /\ <<>> \in T
    BY <1>1
  <2> HIDE DEF T
  <2>2. r.protocol # <<>> => Head(r.protocol) \in T
    BY <2>1
  <2> QED
    BY <2>1, <2>2 DEF T
<1>3. ResultOf(i) = CASE o = "Ok" -> [kind |-> "Accepted", code |-> r.code, answer |-> i, protocol |-> first]
                      [] o \in {"Rejected", "Redirect"} -> [Result(o) EXCEPT !.code = r.code, !.answer = i]
                      [] OTHER -> Result("Err")
  BY DEF ResultOf
<1> HIDE DEF r, o, first
<1>4. CASE o = "Ok"
  <2>1. ResultOf(i) = [kind |-> "Accepted", code |-> r.code, answer |-> i, protocol |-> first]
    BY <1>3, <1>4
  <2>2. ResultOf(i) \in Results
    BY <1>1, <1>2, <2>1 DEF Results
  <2> QED
    BY <1>4, <2>1, <2>2 DEF IsResultOf, r, o, first
<1>5. CASE o \in {"Rejected", "Redirect"}
  <2>1. ResultOf(i) = [kind |-> o, code |-> r.code, protocol |-> <<>>, answer |-> i]
    BY <1>3, <1>5 DEF Result
  <2>2. ResultOf(i) \in Results
    BY <1>1, <1>5, <2>1 DEF Results
  <2> QED
    BY <1>5, <2>1, <2>2 DEF IsResultOf, r, o, first
<1>6. CASE o \notin {"Ok", "Rejected", "Redirect"}
  <2>1. ResultOf(i) = [kind |-> "Err", code |-> 0, protocol |-> <<>>, answer |-> 0]
    BY <1>3, <1>6 DEF Result
  <2>2. ResultOf(i) \in Results
    BY <1>1, <1>6, <2>1 DEF Results
  <2> QED
    BY <1>6, <2>1, <2>2 DEF IsResultOf, r, o, first
<1> QED
  BY <1>4, <1>5, <1>6

\* A slice that is longer.
LEMMA SliceJoined ==
  ASSUME Known, NEW buffer \in Seq(Piece), NEW b \in Nat, NEW s \in Nat, NEW n \in Nat, b <= s, s + n <= Len(down),
         IsSlice(buffer, b, s)
  PROVE  LET all == buffer \o SubSeq(down, s + 1, s + n) IN all \in Seq(Piece) /\ IsSlice(all, b, s + n)
<1> DEFINE more == SubSeq(down, s + 1, s + n)
           all == buffer \o more
<1>1. down \in Seq(Piece) /\ Len(down) \in Nat
  BY DEF Known
<1>2. /\ more \in Seq(Piece) /\ Len(more) = n
      /\ \A i \in 1..n : more[i] = down[s + i]
  <2>1. \A i \in s + 1..s + n : down[i] \in Piece
    BY <1>1
  <2>2. s + 1 \in Int /\ s + n \in Int
    OBVIOUS
  <2>3. /\ more \in Seq(Piece)
        /\ Len(more) = IF s + 1 <= s + n THEN (s + n) - (s + 1) + 1 ELSE 0
        /\ \A i \in 1..(s + n) - (s + 1) + 1 : more[i] = down[(s + 1) + i - 1]
    BY <2>1, <2>2, SubSeqProperties
  <2>4. (s + n) - (s + 1) + 1 = n /\ (s + 1 <= s + n <=> n # 0) /\ \A i \in 1..n : (s + 1) + i - 1 = s + i
    OBVIOUS
  <2> HIDE DEF more
  <2>5. Len(more) = n
    BY <2>3, <2>4
  <2> QED
    BY <2>3, <2>4, <2>5, Zenon
<1> HIDE DEF more
<1>3. /\ all \in Seq(Piece) /\ Len(all) = Len(buffer) + Len(more)
      /\ \A i \in 1..Len(buffer) : all[i] = buffer[i]
      /\ \A i \in 1..Len(more) : all[Len(buffer) + i] = more[i]
  <2>1. more \in Seq(Piece)
    BY <1>2
  <2> QED
    BY <2>1, Joined
<1> HIDE DEF all
<1>4. PICK l \in Nat : l = Len(buffer) /\ l = s - b
  BY DEF IsSlice
<1>5. Len(all) = l + n /\ l + n = (s + n) - b
  BY <1>2, <1>3, <1>4
<1>6. ASSUME NEW i \in 1..(s + n) - b PROVE all[i] = down[b + i]
  <2>1. CASE i <= l
    <3>1. i \in 1..l /\ i \in 1..s - b
      BY <1>4, <2>1
    <3> QED
      BY <1>3, <1>4, <3>1 DEF IsSlice
  <2>2. CASE ~(i <= l)
    <3>1. PICK k \in 1..n : i = l + k
      <4>1. i - l \in 1..n /\ i = l + (i - l)
        BY <1>4, <2>2
      <4> QED
        BY <4>1
    <3>2. all[i] = more[k] /\ more[k] = down[s + k]
      BY <1>2, <1>3, <1>4, <3>1
    <3>3. s + k = b + i
      BY <1>4, <3>1
    <3> QED
      BY <3>2, <3>3
  <2> QED
    BY <2>1, <2>2
<1> QED
  BY <1>3, <1>5, <1>6 DEF IsSlice, all, more

\* One round of the loop of handshake: buffer is what has been read since number b, and
\* o is where the first response in it ends, if it does.
Reads(n, b, buffer, o) ==
  /\ client.pc = "waiting" /\ seen' = seen + n /\ seen + n <= Len(down)
  /\ UNCHANGED <<vars, setup, left, attempts, server, request, answers, down, hungup, builder>>
  /\ buffer \in Seq(Piece) /\ Len(buffer) > 0 /\ IsSlice(buffer, b, seen + n) /\ FirstEnd(buffer, o)
  /\ \/ /\ buffer[1][1] = "data"
        /\ client' = [client EXCEPT !.pc = "idle", !.buffer = buffer, !.result = Result("Err")]
     \/ /\ buffer[1][1] # "data" /\ o = 0
        /\ client' = [client EXCEPT !.buffer = buffer]
     \/ /\ buffer[1][1] # "data" /\ o # 0
        /\ LET i == buffer[o][2]
           IN  client' = [client EXCEPT !.pc = "idle", !.result = ResultOf(i),
                            !.buffer = IF ResultOf(i).kind = "Err" THEN buffer ELSE Advance(buffer, o),
                            !.ext = ConfiguredBy(answers[i])]

LEMMA ReadsIs ==
  ASSUME Known, NEW n \in 1..BLOCK_SIZE, ReadResponse(n), NEW b \in Nat, b <= seen, IsSlice(client.buffer, b, seen)
  PROVE  \E buffer, o : Reads(n, b, buffer, o)
<1> DEFINE buffer == client.buffer \o SubSeq(down, seen + 1, seen + n)
           o == SelectInSeq(buffer, LAMBDA p : p[1] = "end")
<1>1. /\ client.pc = "waiting" /\ seen' = seen + n /\ seen + n <= Len(down)
      /\ UNCHANGED <<vars, setup, left, attempts, server, request, answers, down, hungup, builder>>
  BY DEF ReadResponse
<1>2. client' = CASE buffer[1][1] = "data" ->
                       [client EXCEPT !.pc = "idle", !.buffer = buffer, !.result = Result("Err")]
                  [] buffer[1][1] # "data" /\ o = 0 ->
                       [client EXCEPT !.buffer = buffer]
                  [] buffer[1][1] # "data" /\ o # 0 ->
                       LET result == ResultOf(buffer[o][2])
                       IN  [client EXCEPT !.pc = "idle", !.result = result,
                              !.buffer = IF result.kind = "Err" THEN buffer ELSE Advance(buffer, o),
                              !.ext = ConfiguredBy(answers[buffer[o][2]])]
  BY DEF ReadResponse
<1>3. seen \in Nat /\ n \in Nat /\ client.buffer \in Seq(Piece) /\ 1 <= n
  BY Sizes DEF Known, Clients
<1>4. buffer \in Seq(Piece) /\ IsSlice(buffer, b, seen + n)
  BY <1>1, <1>3, SliceJoined
<1> HIDE DEF buffer
<1>5. FirstEnd(buffer, o)
  BY <1>4, FirstEndIs
<1> HIDE DEF o
<1>6. Len(buffer) > 0
  <2>1. Len(buffer) = (seen + n) - b
    BY <1>4 DEF IsSlice
  <2>2. (seen + n) - b > 0
    BY <1>3
  <2> QED
    BY <2>1, <2>2, Zenon
<1>7. CASE buffer[1][1] = "data"
  BY <1>1, <1>2, <1>4, <1>5, <1>6, <1>7, Zenon DEF Reads
<1>8. CASE buffer[1][1] # "data" /\ o = 0
  BY <1>1, <1>2, <1>4, <1>5, <1>6, <1>8, Zenon DEF Reads
<1>9. CASE buffer[1][1] # "data" /\ o # 0
  BY <1>1, <1>2, <1>4, <1>5, <1>6, <1>9, Zenon DEF Reads
<1> QED
  BY <1>7, <1>8, <1>9

\* What has been read ends at a piece that ends a response.
LEMMA EndRead ==
  ASSUME Known, PiecesSent, NEW n \in 1..BLOCK_SIZE, NEW b \in Nat, b <= seen, NEW buffer, NEW o, Reads(n, b, buffer, o), o # 0
  PROVE  /\ o \in 1..Len(buffer) /\ b + o \in 1..seen + n /\ down[b + o] = buffer[o]
         /\ buffer[o][2] \in 1..Len(answers) /\ buffer[o] = <<"end", buffer[o][2]>>
         /\ Advance(buffer, o) \in Seq(Piece) /\ IsSlice(Advance(buffer, o), b + o, seen + n)
<1>1. buffer \in Seq(Piece) /\ IsSlice(buffer, b, seen + n) /\ FirstEnd(buffer, o) /\ seen + n <= Len(down)
  BY DEF Reads
<1>2. o \in 1..Len(buffer) /\ buffer[o][1] = "end"
  BY <1>1 DEF FirstEnd
<1>3. PICK s \in Nat, d \in Nat, l \in Nat : s = seen + n /\ d = Len(down) /\ l = Len(buffer) /\ l = s - b /\ s <= d /\ b <= s
  <2>1. seen \in Nat /\ n \in Nat /\ Len(down) \in Nat
    BY Sizes DEF Known
  <2>2. seen + n \in Nat /\ b <= seen + n
    BY <2>1
  <2>3. Len(buffer) \in Nat /\ Len(buffer) = (seen + n) - b
    BY <1>1 DEF IsSlice
  <2> QED
    BY <1>1, <2>1, <2>2, <2>3, Zenon
<1>4. PICK k \in Nat : k = o /\ k >= 1 /\ k <= l
  BY <1>2, <1>3
<1>5. k \in 1..s - b /\ b + k \in 1..s /\ b + k \in 1..d
  BY <1>3, <1>4
<1>6. down[b + k] = buffer[k]
  BY <1>1, <1>3, <1>5 DEF IsSlice
<1>7. down[b + k] \in Piece /\ down[b + k][1] = "end"
  BY <1>2, <1>3, <1>4, <1>5, <1>6 DEF Known
<1>8. down[b + k][2] \in 1..Len(answers)
  <2>1. b + k \in 1..Len(down) /\ down[b + k][1] # "data"
    BY <1>3, <1>5, <1>7
  <2> QED
    BY <2>1 DEF PiecesSent
<1>9. buffer[k] = <<"end", buffer[k][2]>>
  BY <1>6, <1>7 DEF Piece
<1> DEFINE rest == Advance(buffer, k)
<1>10. /\ rest \in Seq(Piece) /\ Len(rest) = l - k
       /\ \A i \in 1..l - k : rest[i] = buffer[k + i]
  <2>1. rest = SubSeq(buffer, k + 1, l)
    BY <1>3 DEF Advance
  <2>2. \A i \in k + 1..l : buffer[i] \in Piece
    <3>1. \A i \in k + 1..l : i \in 1..l
      OBVIOUS
    <3>2. \A i \in 1..Len(buffer) : buffer[i] \in Piece
      BY <1>1
    <3> QED
      BY <1>3, <3>1, <3>2, Zenon
  <2>3. k + 1 \in Int /\ l \in Int
    OBVIOUS
  <2> DEFINE q == SubSeq(buffer, k + 1, l)
  <2>4. /\ q \in Seq(Piece)
        /\ Len(q) = IF k + 1 <= l THEN l - (k + 1) + 1 ELSE 0
        /\ \A i \in 1..l - (k + 1) + 1 : q[i] = buffer[(k + 1) + i - 1]
    BY <2>2, <2>3, SubSeqProperties
  <2>5. l - (k + 1) + 1 = l - k /\ (~(k + 1 <= l) => l - k = 0) /\ \A i \in 1..l - k : (k + 1) + i - 1 = k + i
    BY <1>4
  <2> HIDE DEF q
  <2>6. Len(q) = l - k
    BY <2>4, <2>5
  <2>7. rest = q
    BY <2>1 DEF q
  <2> QED
    BY <2>4, <2>5, <2>6, <2>7, Zenon
<1> HIDE DEF rest
<1>11. s - (b + k) = l - k
  BY <1>3, <1>4
<1>12. ASSUME NEW i \in 1..l - k PROVE rest[i] = down[(b + k) + i]
  <2>1. k + i \in 1..s - b /\ b + (k + i) = (b + k) + i
    BY <1>3, <1>4
  <2>2. buffer[k + i] = down[b + (k + i)]
    BY <1>1, <1>3, <2>1 DEF IsSlice
  <2> QED
    BY <1>10, <2>1, <2>2
<1>13. IsSlice(rest, b + k, s)
  BY <1>10, <1>11, <1>12, Zenon DEF IsSlice
<1> QED
  BY <1>2, <1>3, <1>4, <1>5, <1>6, <1>8, <1>9, <1>10, <1>13, Zenon DEF rest

\* What decode_response leaves in the extension.
LEMMA ConfiguredByTyped ==
  ASSUME Known, NEW i \in 1..Len(answers)
  PROVE  ConfiguredBy(answers[i]) \in Exts
<1>1. client.ext \in Exts /\ answers[i].extensions \in Seq(AnyEntry)
  BY AnswerIs DEF Known, Clients
<1>2. ConfigureExtensions("Client", client.ext, answers[i].extensions) \in Exts
  BY <1>1, ConfigureExtensionsTyped
<1> QED
  BY <1>1, <1>2 DEF ConfiguredBy

\* The client after one round.
LEMMA ReadResponseKnown ==
  ASSUME KnownInv, NEW n \in 1..BLOCK_SIZE, ReadResponse(n)
  PROVE  KnownInv'
<1>1. Known /\ PiecesSent /\ client \in Clients /\ seen \in Nat /\ n \in Nat /\ Len(down) \in Nat
  BY Sizes DEF KnownInv, Known
<1>2. PICK b \in 0..seen : IsSlice(client.buffer, b, seen)
  BY DEF KnownInv, Buffered
<1>3. b \in Nat /\ b <= seen
  BY <1>1
<1>4. PICK buffer, o : Reads(n, b, buffer, o)
  BY <1>1, <1>2, <1>3, ReadsIs
<1>5. /\ UNCHANGED <<setup, left, attempts, server, request, answers, down, hungup, builder>>
      /\ seen' = seen + n /\ seen + n <= Len(down) /\ buffer \in Seq(Piece) /\ IsSlice(buffer, b, seen + n)
  BY <1>4, Zenon DEF Reads
<1>6. seen' \in 0..Len(down) /\ b \in 0..seen + n
  BY <1>1, <1>3, <1>5
<1>7. PiecesSent'
  BY <1>1, <1>5 DEF PiecesSent
<1>8. ASSUME client' \in Clients PROVE Known'
  BY <1>1, <1>5, <1>6, <1>8 DEF Known
<1>9. ASSUME NEW c \in 0..seen + n, IsSlice(client'.buffer, c, seen + n) PROVE Buffered'
  <2>1. IsSlice(client.buffer, c, seen)'
    BY <1>5, <1>9 DEF IsSlice
  <2> QED
    BY <1>5, <1>9, <2>1 DEF Buffered
<1>10. Result("Err") \in Results
  BY DEF Result, Results
<1>11. CASE buffer[1][1] = "data"
  <2>1. client' = [client EXCEPT !.pc = "idle", !.buffer = buffer, !.result = Result("Err")]
    BY <1>4, <1>11 DEF Reads
  <2>2. client' \in Clients /\ client'.buffer = buffer
    BY <1>1, <1>5, <1>10, <2>1 DEF Clients
  <2> QED
    BY <1>5, <1>6, <1>7, <1>8, <1>9, <2>2 DEF KnownInv
<1>12. CASE buffer[1][1] # "data" /\ o = 0
  <2>1. client' = [client EXCEPT !.buffer = buffer]
    BY <1>4, <1>12 DEF Reads
  <2>2. client' \in Clients /\ client'.buffer = buffer
    BY <1>1, <1>5, <2>1 DEF Clients
  <2> QED
    BY <1>5, <1>6, <1>7, <1>8, <1>9, <2>2 DEF KnownInv
<1>13. CASE buffer[1][1] # "data" /\ o # 0
  <2> DEFINE i == buffer[o][2]
             rest == IF ResultOf(i).kind = "Err" THEN buffer ELSE Advance(buffer, o)
  <2>1. client' = [client EXCEPT !.pc = "idle", !.result = ResultOf(i), !.buffer = rest, !.ext = ConfiguredBy(answers[i])]
    BY <1>4, <1>13 DEF Reads
  <2>2. /\ b + o \in 1..seen + n /\ i \in 1..Len(answers)
        /\ Advance(buffer, o) \in Seq(Piece) /\ IsSlice(Advance(buffer, o), b + o, seen + n)
    BY <1>1, <1>3, <1>4, <1>13, EndRead
  <2>3. ResultOf(i) \in Results
    <3> HIDE DEF i
    <3>1. IsResultOf(i)
      BY <1>1, <2>2, ResultOfIs
    <3> QED
      BY <3>1 DEF IsResultOf
  <2>4. ConfiguredBy(answers[i]) \in Exts
    <3> HIDE DEF i
    <3> QED
      BY <1>1, <2>2, ConfiguredByTyped
  <2>5. rest \in Seq(Piece) /\ \E c \in 0..seen + n : IsSlice(rest, c, seen + n)
    <3>1. b + o \in 0..seen + n
      BY <1>1, <2>2
    <3> HIDE DEF i
    <3> QED
      BY <1>5, <1>6, <2>2, <3>1
  <2> HIDE DEF i, rest
  <2>6. client' \in Clients /\ client'.buffer = rest
    BY <1>1, <2>1, <2>3, <2>4, <2>5 DEF Clients
  <2> QED
    BY <1>7, <1>8, <1>9, <2>5, <2>6 DEF KnownInv
<1> QED
  BY <1>11, <1>12, <1>13

\* The server has gone.
LEMMA ReadResponseEofKnown ==
  ASSUME KnownInv, ReadResponseEof
  PROVE  KnownInv'
<1>1. Known /\ UNCHANGED <<setup, left, attempts, server, request, answers, down, seen, hungup, builder>>
      /\ client' = [client EXCEPT !.pc = "idle", !.result = Result("Err")]
  BY DEF KnownInv, ReadResponseEof
<1>2. Result("Err") \in Results
  BY DEF Result, Results
<1>3. client' \in Clients /\ client'.buffer = client.buffer
  BY <1>1, <1>2 DEF Known, Clients
<1>4. Known'
  BY <1>1, <1>3 DEF Known
<1> QED
  BY <1>1, <1>3, <1>4, QuietKnown DEF KnownInv

\* The protocols that the server finds in a request.
LEMMA FoundIs ==
  ASSUME NEW values \in Seq(Seq(STRING)), NEW supported
  PROVE  LET f == Found(values, supported) IN
         /\ f \in [0..Len(values) -> Seq(STRING)] /\ f[0] = <<>>
         /\ \A i \in 1..Len(values) : f[i] = IF \E p \in supported : values[i] = <<p>> THEN f[i - 1] \o values[i] ELSE f[i - 1]
<1> DEFINE n == Len(values)
           a == <<>>
           step(v, i) == IF \E p \in supported : values[i] = <<p>> THEN v \o values[i] ELSE v
           G == [x \in Seq(STRING) \X (1..n) |-> step(x[1], x[2])]
           Is(f) == f = [i \in 0..n |-> IF i = 0 THEN a ELSE step(f[i - 1], i)]
<1>1. n \in Nat /\ a \in Seq(STRING)
  <2> DEFINE T == Seq(STRING)
  <2>1. values \in Seq(T)
    OBVIOUS
  <2> HIDE DEF T
  <2>2. Len(values) \in Nat
    BY <2>1
  <2> QED
    BY <2>2
<1>2. ASSUME NEW v \in Seq(STRING), NEW i \in 1..n PROVE step(v, i) \in Seq(STRING)
  <2>1. values[i] \in Seq(STRING)
    <3> DEFINE T == Seq(STRING)
    <3>1. values \in Seq(T)
      OBVIOUS
    <3> HIDE DEF T
    <3>2. values[i] \in T
      BY <3>1
    <3> QED
      BY <3>2 DEF T
  <2>2. v \o values[i] \in Seq(STRING)
    BY <2>1
  <2> QED
    BY <2>2
<1> HIDE DEF n, a, step
<1>3. G \in [Seq(STRING) \X (1..n) -> Seq(STRING)]
  BY <1>2
<1>4. PICK g \in [0..n -> Seq(STRING)] : IsRecursive(g, n, a, G)
  <2> HIDE DEF G
  <2> QED
    BY <1>1, <1>3, RecursiveFunction
<1>5. Is(g)
  <2> DEFINE body(i) == IF i = 0 THEN a ELSE G[<<g[i - 1], i>>]
             want(i) == IF i = 0 THEN a ELSE step(g[i - 1], i)
  <2>1. g = [i \in 0..n |-> body(i)]
    BY <1>4 DEF IsRecursive
  <2>2. ASSUME NEW i \in 0..n PROVE body(i) = want(i)
    <3>1. CASE i = 0
      BY <3>1
    <3>2. CASE i # 0
      <4>1. i \in 1..n /\ g[i - 1] \in Seq(STRING)
        BY <1>1, <3>2
      <4>2. G[<<g[i - 1], i>>] = step(g[i - 1], i)
        BY <4>1
      <4> QED
        BY <3>2, <4>2
    <3> QED
      BY <3>1, <3>2
  <2> HIDE DEF body, want
  <2>3. g = [i \in 0..n |-> want(i)]
    BY <2>1, <2>2
  <2> QED
    BY <2>3 DEF want
<1> DEFINE f == Found(values, supported)
<1>6. Is(f)
  <2>1. f = CHOOSE h : Is(h)
    BY DEF Found, n, a, step
  <2> HIDE DEF f, Is
  <2> QED
    BY <1>5, <2>1
<1> DEFINE val(i) == IF i = 0 THEN a ELSE step(f[i - 1], i)
<1> HIDE DEF f
<1>7. f = [i \in 0..n |-> val(i)]
  BY <1>6
<1> HIDE DEF val
<1>8. \A i \in 0..n : f[i] = val(i)
  BY <1>7
<1>9. f[0] = a /\ \A i \in 1..n : f[i] = step(f[i - 1], i)
  <2>1. 0 \in 0..n /\ \A i \in 1..n : i \in 0..n /\ i # 0
    BY <1>1
  <2> QED
    BY <1>8, <2>1 DEF val
<1>10. \A i \in 0..n : f[i] \in Seq(STRING)
  <2> DEFINE S == {i \in 0..n : f[i] \in Seq(STRING)}
  <2>1. 0 \in S
    BY <1>1, <1>9
  <2>2. ASSUME NEW i \in 1..n, i - 1 \in S PROVE i \in S
    <3>1. i \in 0..n /\ f[i - 1] \in Seq(STRING)
      BY <1>1, <2>2
    <3>2. f[i] = step(f[i - 1], i) /\ step(f[i - 1], i) \in Seq(STRING)
      BY <1>2, <1>9, <3>1
    <3> QED
      BY <3>1, <3>2
  <2> HIDE DEF S
  <2>3. \A i \in 0..n : i \in S
    BY <1>1, <2>1, <2>2, InductionTo
  <2> QED
    BY <2>3 DEF S
<1>11. f \in [0..n -> Seq(STRING)]
  BY <1>7, <1>10
<1> QED
  BY <1>9, <1>11 DEF f, n, a, step

\* What ClientRequest::protocols returns.
LEMMA ProposedTyped ==
  ASSUME Known
  PROVE  Proposed(request) \in Seq(STRING)
<1> DEFINE T == Seq(STRING)
           v == request.protocol
           f == Found(v, setup.serverProtocols)
<1>1. v \in Seq(T)
  BY DEF Known, AnyRequest
<1>2. f \in [0..Len(v) -> T]
  BY <1>1, FoundIs
<1> HIDE DEF T, f, v
<1>3. Len(v) \in 0..Len(v)
  BY <1>1
<1>4. f[Len(v)] \in T
  BY <1>2, <1>3
<1> QED
  BY <1>4 DEF Proposed, f, v, T

\* receive_request of both servers
LEMMA DecodedTyped ==
  ASSUME Known, NEW outcome \in Outcomes, NEW configured, NEW proposed \in Seq(STRING)
  PROVE  Decoded(outcome, configured, proposed) \in Servers
<1> DEFINE key == IF request.key = <<>> THEN ShortKey ELSE Head(request.key)
           ext == IF configured /\ setup.serverDeflate
                  THEN ConfigureExtensions("Server", server.ext, request.extensions) ELSE server.ext
<1>1. server \in Servers /\ server.ext \in Exts /\ request.key \in Seq(Nat) /\ request.extensions \in Seq(AnyEntry)
  BY DEF Known, Servers, AnyRequest
<1>2. key \in Nat
  BY <1>1 DEF ShortKey
<1>3. ext \in Exts
  BY <1>1, ConfigureExtensionsTyped
<1>4. Decoded(outcome, configured, proposed) =
        [server EXCEPT !.result = outcome, !.proposed = proposed, !.key = key, !.ext = ext]
  BY DEF Decoded
<1> HIDE DEF key, ext
<1> QED
  BY <1>1, <1>2, <1>3, <1>4 DEF Servers

\* An action of the server that leaves everything to the client alone.
LEMMA ServerOnlyKnown ==
  ASSUME KnownInv, server' \in Servers, hungup' \in BOOLEAN,
         UNCHANGED <<setup, left, attempts, client, request, answers, down, seen, builder>>
  PROVE  KnownInv'
<1>1. Known'
  BY DEF KnownInv, Known
<1>2. PiecesSent' /\ Buffered'
  BY QuietKnown
<1> QED
  BY <1>1, <1>2 DEF KnownInv

LEMMA RequestOutcomeIs == \A r : RequestOutcome(r) \in Outcomes
  BY DEF RequestOutcome, Check, Outcomes

LEMMA HttpOutcomeIs == \A r : HttpOutcome(r) \in Outcomes
  BY DEF HttpOutcome, Check, Outcomes

LEMMA DecodeKnown ==
  ASSUME KnownInv, Decode
  PROVE  KnownInv'
<1> DEFINE outcome == IF pc' = "Complete" THEN RequestOutcome(request) ELSE "IncompleteHttpRequest"
<1>1. /\ server' = Decoded(outcome, outcome \in {"Ok", "Utf8"}, Proposed(request))
      /\ UNCHANGED <<setup, left, attempts, client, request, answers, down, seen, hungup, builder>>
  BY DEF Decode
<1>2. outcome \in Outcomes
  BY RequestOutcomeIs DEF Outcomes
<1> HIDE DEF outcome
<1>3. Known /\ hungup' \in BOOLEAN
  BY <1>1 DEF KnownInv, Known
<1>4. server' \in Servers
  BY <1>1, <1>2, <1>3, DecodedTyped, ProposedTyped
<1> QED
  BY <1>1, <1>3, <1>4, ServerOnlyKnown

LEMMA HttpReceiveKnown ==
  ASSUME KnownInv, HttpReceiveRequest
  PROVE  KnownInv'
<1>1. /\ server' = Decoded(HttpOutcome(request), HttpOutcome(request) = "Ok", <<>>)
      /\ UNCHANGED <<setup, left, attempts, client, request, answers, down, seen, hungup, builder>>
  BY DEF HttpReceiveRequest
<1>2. HttpOutcome(request) \in Outcomes /\ <<>> \in Seq(STRING)
  BY HttpOutcomeIs
<1>3. Known /\ hungup' \in BOOLEAN
  BY <1>1 DEF KnownInv, Known
<1>4. server' \in Servers
  BY <1>1, <1>2, <1>3, DecodedTyped
<1> QED
  BY <1>1, <1>3, <1>4, ServerOnlyKnown

LEMMA HangUpKnown ==
  ASSUME KnownInv, HangUp
  PROVE  KnownInv'
<1>1. /\ server' = [server EXCEPT !.result = "none"] /\ hungup' = TRUE
      /\ UNCHANGED <<setup, left, attempts, client, request, answers, down, seen, builder>>
  BY DEF HangUp
<1>2. server' \in Servers /\ hungup' \in BOOLEAN
  BY <1>1 DEF KnownInv, Known, Servers, Outcomes
<1> QED
  BY <1>1, <1>2, ServerOnlyKnown

\* A response of this library.
LEMMA PlainTyped ==
  ASSUME Known, NEW code \in Nat
  PROVE  Plain(code) \in AnyResponse
<1>1. <<>> \in Headers /\ <<>> \in Seq([sha1 : Nat]) /\ <<>> \in Seq(AnyEntry) /\ <<>> \in Seq(Seq(STRING)) /\ attempts \in Nat
  BY DEF Headers, Known
<1> QED
  BY <1>1 DEF Plain, AnyResponse

LEMMA AcceptResponseTyped ==
  ASSUME Known, NEW protocol \in Seq(STRING)
  PROVE  AcceptResponse(protocol) \in AnyResponse
<1> DEFINE protocols == IF protocol = <<>> THEN <<>> ELSE <<protocol>>
           extensions == IF setup.http THEN HttpExtensions ELSE ServerExtensions
<1>1. protocols \in Seq(Seq(STRING))
  <2> DEFINE T == Seq(STRING)
  <2>1. protocol \in T
    OBVIOUS
  <2> HIDE DEF T
  <2>2. <<>> \in Seq(T) /\ <<protocol>> \in Seq(T)
    BY <2>1
  <2> QED
    BY <2>2 DEF T
<1>2. extensions \in Seq(AnyEntry)
  <2>1. server.ext.params \in Seq(AnyParam)
    BY DEF Known, Servers, Exts
  <2>2. Entry(server.ext.params) \in AnyEntry /\ [name |-> "", params |-> <<>>] \in AnyEntry
    BY <2>1 DEF Entry, AnyEntry
  <2> DEFINE e == Entry(server.ext.params)
             none == [name |-> "", params |-> <<>>]
  <2>5. e \in AnyEntry /\ none \in AnyEntry
    BY <2>2
  <2> HIDE DEF e, none
  <2>6. <<e>> \in Seq(AnyEntry) /\ <<none>> \in Seq(AnyEntry) /\ <<>> \in Seq(AnyEntry)
    BY <2>5
  <2>3. ServerExtensions \in Seq(AnyEntry)
    BY <2>6, Zenon DEF ServerExtensions, e
  <2>4. HttpExtensions \in Seq(AnyEntry)
    BY <2>6, <2>3, Zenon DEF HttpExtensions, none
  <2> QED
    BY <2>3, <2>4
<1>3. <<{"websocket"}>> \in Headers /\ <<{"upgrade"}>> \in Headers
  BY DEF Headers
<1>4. <<AcceptKey(server.key)>> \in Seq([sha1 : Nat])
  BY DEF AcceptKey, Known, Servers
<1>5. Plain(101) \in AnyResponse
  BY PlainTyped
<1>6. AcceptResponse(protocol) =
        [Plain(101) EXCEPT !.upgrade = <<{"websocket"}>>, !.connection = <<{"upgrade"}>>, !.accept = <<AcceptKey(server.key)>>,
                           !.protocol = protocols, !.extensions = extensions]
  BY DEF AcceptResponse
<1> HIDE DEF protocols, extensions
<1> QED
  BY <1>1, <1>2, <1>3, <1>4, <1>5, <1>6 DEF AnyResponse

LEMMA RejectCodeTyped ==
  ASSUME NEW code \in Nat
  PROVE  RejectCode(code) \in Nat
  BY DEF RejectCode

\* A response, and what it does to the server.
LEMMA RespondKnown ==
  ASSUME KnownInv, NEW responses \in Seq(AnyResponse), Respond(responses), server' \in Servers, hungup' \in BOOLEAN,
         UNCHANGED <<setup, left, attempts, client, request, seen, builder>>
  PROVE  KnownInv'
<1>1. Known /\ PiecesSent /\ Buffered
  BY DEF KnownInv
<1>2. Grows /\ PiecesSent'
  BY <1>1, Responds
<1>3. Buffered'
  BY <1>1, <1>2, BufferStays
<1>4. seen' \in 0..Len(down') /\ answers' \in Seq(AnyResponse) /\ down' \in Seq(Piece)
  <2>1. answers' \in Seq(AnyResponse) /\ down' \in Seq(Piece) /\ Len(down) <= Len(down')
    BY <1>2 DEF Grows
  <2>2. PICK d \in Nat, e \in Nat, s \in Nat : d = Len(down) /\ e = Len(down') /\ s = seen /\ s <= d
    BY <1>1, <2>1 DEF Known
  <2>3. d <= e
    BY <2>1, <2>2
  <2>4. s \in 0..e
    BY <2>2, <2>3
  <2> QED
    BY <2>1, <2>2, <2>4, Zenon
<1>5. Known'
  BY <1>1, <1>4 DEF Known
<1> QED
  BY <1>2, <1>3, <1>5 DEF KnownInv

LEMMA AcceptKnown ==
  ASSUME KnownInv, NEW protocol \in Seq(STRING), Accept(protocol)
  PROVE  KnownInv'
<1>1. /\ Respond(<<AcceptResponse(protocol)>>)
      /\ server' = [server EXCEPT !.result = "none", !.accepted = TRUE, !.protocol = protocol]
      /\ UNCHANGED <<setup, left, attempts, client, request, seen, hungup, builder>>
  BY DEF Accept
<1>2. Known /\ hungup' \in BOOLEAN
  BY <1>1 DEF KnownInv, Known
<1>3. server' \in Servers
  BY <1>1, <1>2 DEF Known, Servers, Outcomes
<1>4. <<AcceptResponse(protocol)>> \in Seq(AnyResponse)
  BY <1>2, AcceptResponseTyped
<1> QED
  BY <1>1, <1>2, <1>3, <1>4, RespondKnown

LEMMA RejectKnown ==
  ASSUME KnownInv, NEW code \in Nat, NEW drop \in BOOLEAN, Reject(code, drop)
  PROVE  KnownInv'
<1>1. /\ Respond(<<Plain(RejectCode(code))>>)
      /\ server' = [server EXCEPT !.result = "none", !.refused = code] /\ hungup' = drop
      /\ UNCHANGED <<setup, left, attempts, client, request, seen, builder>>
  BY DEF Reject
<1>2. Known
  BY DEF KnownInv
<1>3. server' \in Servers
  BY <1>1, <1>2 DEF Known, Servers, Outcomes
<1>4. <<Plain(RejectCode(code))>> \in Seq(AnyResponse)
  BY <1>2, RejectCodeTyped, PlainTyped
<1> QED
  BY <1>1, <1>3, <1>4, RespondKnown

\* into_builder
LEMMA BuildKnown ==
  ASSUME KnownInv, NEW end \in {"client", "server"}, NEW buffer \in Seq(Piece), NEW deflate \in BOOLEAN, NEW ext \in Exts,
         Build(end, buffer, deflate, ext), end = "server" => buffer = <<>>
  PROVE  KnownInv'
<1> DEFINE b == [made |-> TRUE, buffer |-> buffer, rsv1 |-> deflate /\ ext.enabled]
<1>1. /\ builder' = [builder EXCEPT ![end] = b]
      /\ UNCHANGED <<setup, left, attempts, client, server, request, answers, down, seen, hungup>>
  BY DEF Build
<1>2. b \in Builders /\ b.buffer = buffer
  BY DEF Builders, Exts
<1> HIDE DEF b
<1>3. Known
  BY DEF KnownInv
<1>4. builder' \in [{"client", "server"} -> Builders] /\ builder'["server"].buffer = <<>>
  BY <1>1, <1>2, <1>3 DEF Known
<1>5. Known'
  BY <1>1, <1>3, <1>4 DEF Known
<1> QED
  BY <1>1, <1>5, QuietKnown DEF KnownInv

LEMMA IntoBuilderKnown ==
  ASSUME KnownInv, ClientIntoBuilder \/ ServerIntoBuilder
  PROVE  KnownInv'
<1>1. client.buffer \in Seq(Piece) /\ client.ext \in Exts /\ server.ext \in Exts /\ <<>> \in Seq(Piece)
  BY DEF KnownInv, Known, Clients, Servers
<1>2. setup.clientDeflate \in BOOLEAN /\ setup.serverDeflate \in BOOLEAN
  BY SetupIs DEF KnownInv, Known
<1>3. CASE ClientIntoBuilder
  <2>1. Build("client", client.buffer, setup.clientDeflate, client.ext)
    BY <1>3 DEF ClientIntoBuilder
  <2> QED
    BY <1>1, <1>2, <2>1, BuildKnown
<1>4. CASE ServerIntoBuilder
  <2>1. Build("server", <<>>, setup.serverDeflate, server.ext)
    BY <1>4 DEF ServerIntoBuilder
  <2> QED
    BY <1>1, <1>2, <2>1, BuildKnown
<1> QED
  BY <1>3, <1>4

\* What follows a response
LEMMA DataGrows ==
  ASSUME KnownInv, SendData
  PROVE  /\ Grows /\ answers' = answers /\ PiecesSent' /\ seen' \in 0..Len(down')
         /\ Len(down') = Len(down) + 1 /\ down'[Len(down) + 1] = <<"data", left.data>>
<1>1. Known /\ PiecesSent
  BY DEF KnownInv
<1>2. UNCHANGED <<setup, attempts, client, server, request, answers, seen, hungup, builder>> /\ left.data > 0
  BY DEF SendData
<1> DEFINE p == <<"data", left.data>>
<1>3. down' = Append(down, p)
  BY DEF SendData
<1>4. p \in Piece /\ p[1] = "data"
  BY <1>1 DEF Known, Lefts, Piece
<1>5. down \in Seq(Piece) /\ answers \in Seq(AnyResponse) /\ seen \in 0..Len(down)
  BY <1>1 DEF Known
<1> HIDE DEF p
<1>6. /\ down' \in Seq(Piece) /\ Len(down') = Len(down) + 1 /\ down'[Len(down) + 1] = p
      /\ \A i \in 1..Len(down) : down'[i] = down[i]
  BY <1>3, <1>4, <1>5, AppendProperties
<1>7. PICK d \in Nat, s \in Nat : d = Len(down) /\ s = seen /\ s <= d
  BY <1>5
<1>8. s \in 0..d + 1 /\ d <= d + 1
  BY <1>7
<1>9. Grows
  <2>1. Len(answers) <= Len(answers)
    BY <1>5
  <2> QED
    BY <1>2, <1>5, <1>6, <1>7, <1>8, <2>1, Zenon DEF Grows
<1>10. PiecesSent'
  <2>1. ASSUME NEW i \in 1..d + 1, down'[i][1] # "data" PROVE down'[i][2] \in 1..Len(answers)
    <3>1. i # d + 1
      BY <1>4, <1>6, <1>7, <2>1
    <3>2. i \in 1..d
      BY <3>1
    <3>3. i \in 1..Len(down) /\ down'[i] = down[i]
      BY <1>6, <1>7, <3>2
    <3> QED
      BY <1>1, <2>1, <3>3 DEF PiecesSent
  <2> QED
    BY <1>2, <1>6, <1>7, <2>1, Zenon DEF PiecesSent
<1>11. seen' \in 0..Len(down')
  BY <1>2, <1>6, <1>7, <1>8, Zenon
<1> QED
  BY <1>2, <1>6, <1>9, <1>10, <1>11 DEF p

LEMMA SendDataKnown ==
  ASSUME KnownInv, SendData
  PROVE  KnownInv'
<1>1. UNCHANGED <<setup, attempts, client, server, request, answers, seen, hungup, builder>> /\ left.data > 0
  BY DEF SendData
<1>2. Known /\ Buffered
  BY DEF KnownInv
<1>3. left' = [left EXCEPT !.data = left.data - 1]
  BY DEF SendData
<1>4. left' \in Lefts /\ left'.attempts = left.attempts
  <2>1. left \in Lefts /\ left.data \in Nat
    BY <1>2 DEF Known, Lefts
  <2>2. left.data - 1 \in Nat
    BY <1>1, <2>1
  <2> QED
    BY <1>3, <2>1, <2>2 DEF Lefts
<1>5. Grows /\ PiecesSent' /\ seen' \in 0..Len(down')
  BY DataGrows
<1>6. Known'
  BY <1>1, <1>2, <1>4, <1>5 DEF Known, Grows
<1>7. Buffered'
  BY <1>1, <1>2, <1>5, BufferStays
<1> QED
  BY <1>5, <1>6, <1>7 DEF KnownInv

\* Other implementations
LEMMA ForeignRequestKnown ==
  ASSUME KnownInv, ForeignRequest
  PROVE  KnownInv'
<1>1. /\ UNCHANGED <<setup, client, server, answers, down, seen, hungup, builder>> /\ setup.foreign = "client"
      /\ left.attempts > 0 /\ request' \in ForeignRequests[setup.peer]
      /\ attempts' = attempts + 1 /\ left' = [left EXCEPT !.attempts = 0]
  BY DEF ForeignRequest
<1>2. Known
  BY DEF KnownInv
<1>3. request' \in AnyRequest
  BY <1>1, <1>2, HandshakeAssumption DEF Known
<1>4. left' \in Lefts /\ left'.attempts = 0
  BY <1>1, <1>2 DEF Known, Lefts
<1>5. attempts' \in Nat /\ attempts' + left'.attempts <= setup'.left.attempts
  <2>1. attempts \in Nat /\ left.attempts \in Nat /\ attempts + left.attempts <= setup.left.attempts
    BY <1>2 DEF Known, Lefts
  <2>2. setup.left.attempts \in Nat
    BY <1>2, SetupIs DEF Known, Lefts
  <2>3. attempts + 1 \in Nat /\ (attempts + 1) + 0 <= setup.left.attempts
    BY <1>1, <2>1, <2>2
  <2> QED
    BY <1>1, <1>4, <2>3
<1>6. Known'
  BY <1>1, <1>2, <1>3, <1>4, <1>5 DEF Known
<1> QED
  BY <1>1, <1>6, QuietKnown DEF KnownInv

\* A burst, stamped with the attempt that it answers.
Stamped(burst) == [i \in 1..Len(burst) |-> [burst[i] EXCEPT !.attempt = attempts]]

LEMMA StampedIs ==
  ASSUME Known, NEW burst \in Seq(AnyResponse)
  PROVE  /\ Stamped(burst) \in Seq(AnyResponse) /\ Len(Stamped(burst)) = Len(burst)
         /\ \A i \in 1..Len(burst) : Stamped(burst)[i].attempt = attempts /\ Stamped(burst)[i].accept = burst[i].accept
<1> DEFINE r(i) == [burst[i] EXCEPT !.attempt = attempts]
<1>1. ASSUME NEW i \in 1..Len(burst) PROVE r(i) \in AnyResponse /\ r(i).attempt = attempts /\ r(i).accept = burst[i].accept
  <2>1. burst[i] \in AnyResponse /\ attempts \in Nat
    BY DEF Known
  <2> QED
    BY <2>1 DEF AnyResponse
<1>2. Stamped(burst) = [i \in 1..Len(burst) |-> r(i)] /\ Len(burst) \in Nat
  BY DEF Stamped
<1> HIDE DEF r
<1>3. Stamped(burst) \in [1..Len(burst) -> AnyResponse]
  BY <1>1, <1>2
<1>4. Stamped(burst) \in Seq(AnyResponse) /\ Len(Stamped(burst)) = Len(burst)
  BY <1>2, <1>3, SeqDef, LenProperties
<1>5. \A i \in 1..Len(burst) : Stamped(burst)[i] = r(i)
  BY <1>2
<1> QED
  BY <1>1, <1>4, <1>5

LEMMA ForeignAnswerIs ==
  ASSUME Known, ForeignAnswer
  PROVE  \E burst \in Seq(AnyResponse) : /\ Respond(Stamped(burst))
                                         /\ \A r \in ToSet(burst) : \A k \in ToSet(r.accept) : k.sha1 <= attempts
<1>1. PICK burst \in ForeignAnswers[setup.peer] :
         /\ \A r \in ToSet(burst) : \A k \in ToSet(r.accept) : k.sha1 <= attempts
         /\ Respond([i \in 1..Len(burst) |-> [burst[i] EXCEPT !.attempt = attempts]])
  BY DEF ForeignAnswer
<1>2. burst \in Seq(AnyResponse)
  BY HandshakeAssumption DEF ForeignAnswer, Known
<1> QED
  BY <1>1, <1>2 DEF Stamped

LEMMA ForeignAnswerKnown ==
  ASSUME KnownInv, ForeignAnswer
  PROVE  KnownInv'
<1>1. UNCHANGED <<setup, left, attempts, client, server, request, seen, hungup, builder>>
  BY DEF ForeignAnswer
<1>2. Known
  BY DEF KnownInv
<1>3. PICK burst \in Seq(AnyResponse) : Respond(Stamped(burst))
  BY <1>2, ForeignAnswerIs
<1>4. Stamped(burst) \in Seq(AnyResponse)
  BY <1>2, StampedIs
<1>5. server' \in Servers /\ hungup' \in BOOLEAN
  BY <1>1, <1>2 DEF Known
<1> QED
  BY <1>1, <1>3, <1>4, <1>5, RespondKnown

LEMMA ForeignHangUpKnown ==
  ASSUME KnownInv, ForeignHangUp
  PROVE  KnownInv'
<1>1. hungup' = TRUE /\ UNCHANGED <<setup, left, attempts, client, server, request, answers, down, seen, builder>>
  BY DEF ForeignHangUp
<1>2. server' \in Servers /\ hungup' \in BOOLEAN
  BY <1>1 DEF KnownInv, Known
<1> QED
  BY <1>1, <1>2, ServerOnlyKnown

\* receive_request, while it reads
LEMMA ReceiveKnown ==
  ASSUME KnownInv, UNCHANGED handshakeVars
  PROVE  KnownInv'
<1>1. UNCHANGED <<setup, left, attempts, client, server, request, answers, down, seen, hungup, builder>>
  BY DEF handshakeVars
<1>2. server' \in Servers /\ hungup' \in BOOLEAN
  BY <1>1 DEF KnownInv, Known
<1> QED
  BY <1>1, <1>2, ServerOnlyKnown

\* The protocols that the application may accept with.
LEMMA ProtocolIs ==
  ASSUME Known, NEW protocol \in {<<>>} \union { <<p>> : p \in ToSet(server.proposed) }
  PROVE  protocol \in Seq(STRING)
<1>1. server.proposed \in Seq(STRING)
  BY DEF Known, Servers
<1>2. \A p \in ToSet(server.proposed) : p \in STRING
  BY <1>1 DEF ToSet
<1>3. CASE protocol = <<>>
  BY <1>3
<1>4. CASE protocol # <<>>
  <2>1. PICK p \in ToSet(server.proposed) : protocol = <<p>>
    BY <1>4, Zenon
  <2>2. p \in STRING
    BY <1>2
  <2> QED
    BY <2>1, <2>2
<1> QED
  BY <1>3, <1>4

\* Every step is one of the actions.
HandshakeCases ==
  \/ \E max \in Bits : SetMaxServerWindowBits(max) \/ SetMaxClientWindowBits(max)
  \/ SendRequest \/ (\E n \in 1..BLOCK_SIZE : ReadResponse(n)) \/ ReadResponseEof
  \/ ReceiveRequest \/ Decode \/ HttpReceiveRequest
  \/ \E protocol \in {<<>>} \union { <<p>> : p \in ToSet(server.proposed) } : Accept(protocol)
  \/ \E code \in Codes \union {200}, drop \in BOOLEAN : Reject(code, drop)
  \/ HangUp \/ ClientIntoBuilder \/ ServerIntoBuilder
  \/ SendData \/ ForeignRequest \/ ForeignAnswer \/ ForeignHangUp \/ UNCHANGED allVars

LEMMA HandshakeSteps ==
  ASSUME [HandshakeNext]_allVars
  PROVE  HandshakeCases
  BY Zenon DEF HandshakeNext, ClientStep, ServerStep, Application, HandshakeCases

LEMMA KnownNext == KnownInv /\ [HandshakeNext]_allVars => KnownInv'
<1> SUFFICES ASSUME KnownInv, [HandshakeNext]_allVars PROVE KnownInv'
  OBVIOUS
<1>1. ASSUME NEW max \in Bits, SetMaxServerWindowBits(max) \/ SetMaxClientWindowBits(max) PROVE KnownInv'
  BY <1>1, SetServerKnown, SetClientKnown
<1>2. CASE SendRequest
  BY <1>2, SendRequestKnown
<1>3. ASSUME NEW n \in 1..BLOCK_SIZE, ReadResponse(n) PROVE KnownInv'
  BY <1>3, ReadResponseKnown
<1>4. CASE ReadResponseEof
  BY <1>4, ReadResponseEofKnown
<1>5. CASE ReceiveRequest
  BY <1>5, ReceiveKnown DEF ReceiveRequest
<1>6. CASE Decode
  BY <1>6, DecodeKnown
<1>7. CASE HttpReceiveRequest
  BY <1>7, HttpReceiveKnown
<1>8. ASSUME NEW protocol \in {<<>>} \union { <<p>> : p \in ToSet(server.proposed) }, Accept(protocol) PROVE KnownInv'
  <2>1. protocol \in Seq(STRING)
    BY ProtocolIs DEF KnownInv
  <2> QED
    BY <1>8, <2>1, AcceptKnown
<1>9. ASSUME NEW code \in Codes \union {200}, NEW drop \in BOOLEAN, Reject(code, drop) PROVE KnownInv'
  <2>1. code \in Nat
    BY HandshakeAssumption
  <2> QED
    BY <1>9, <2>1, RejectKnown
<1>10. CASE HangUp
  BY <1>10, HangUpKnown
<1>11. CASE ClientIntoBuilder \/ ServerIntoBuilder
  BY <1>11, IntoBuilderKnown
<1>12. CASE SendData
  BY <1>12, SendDataKnown
<1>13. CASE ForeignRequest
  BY <1>13, ForeignRequestKnown
<1>14. CASE ForeignAnswer
  BY <1>14, ForeignAnswerKnown
<1>15. CASE ForeignHangUp
  BY <1>15, ForeignHangUpKnown
<1>16. CASE UNCHANGED allVars
  BY <1>16, ReceiveKnown DEF allVars
<1> QED
  BY HandshakeSteps, <1>1, <1>2, <1>3, <1>4, <1>5, <1>6, <1>7, <1>8, <1>9, <1>10, <1>11, <1>12, <1>13, <1>14, <1>15, <1>16
     DEF HandshakeCases

-----------------------------------------------------------------------------
(* The server reads as it does alone.                                      *)

\* Another client sends one request, and there is no Client of this library then.
Fresh == setup.foreign = "client" => client = ClientNew /\ (left.attempts > 0 => stream = <<>>)

LEMMA FreshInit == HandshakeInit => Fresh
  BY DEF HandshakeInit, Fresh

\* What a Client does, it does not do in front of another client.
LEMMA ClientActs ==
  ASSUME Fresh,
         \/ \E max \in Bits : SetMaxServerWindowBits(max) \/ SetMaxClientWindowBits(max)
         \/ SendRequest \/ (\E n \in 1..BLOCK_SIZE : ReadResponse(n)) \/ ReadResponseEof \/ ClientIntoBuilder
         \/ ForeignAnswer \/ ForeignHangUp
  PROVE  setup.foreign # "client" /\ setup' = setup
<1>1. ClientNew.pc = "idle" /\ ClientNew.result.kind = "none"
  BY DEF ClientNew, Result
<1>2. CASE \E max \in Bits : SetMaxServerWindowBits(max) \/ SetMaxClientWindowBits(max)
  BY <1>2 DEF SetMaxServerWindowBits, SetMaxClientWindowBits
<1>3. CASE SendRequest
  BY <1>3 DEF SendRequest
<1>4. CASE \E n \in 1..BLOCK_SIZE : ReadResponse(n)
  <2>1. client.pc = "waiting" /\ setup' = setup
    BY <1>4 DEF ReadResponse
  <2> QED
    BY <1>1, <2>1 DEF Fresh
<1>5. CASE ReadResponseEof
  BY <1>1, <1>5 DEF ReadResponseEof, Fresh
<1>6. CASE ClientIntoBuilder
  BY <1>6 DEF ClientIntoBuilder, Build
<1>7. CASE ForeignAnswer
  BY <1>7 DEF ForeignAnswer
<1>8. CASE ForeignHangUp
  BY <1>8 DEF ForeignHangUp
<1> QED
  BY <1>2, <1>3, <1>4, <1>5, <1>6, <1>7, <1>8

LEMMA FreshNext == KnownInv /\ Fresh /\ [HandshakeNext]_allVars => Fresh'
<1> SUFFICES ASSUME KnownInv, Fresh, [HandshakeNext]_allVars PROVE Fresh'
  OBVIOUS
<1>1. left \in Lefts
  BY DEF KnownInv, Known
<1>2. CASE \/ \E max \in Bits : SetMaxServerWindowBits(max) \/ SetMaxClientWindowBits(max)
           \/ SendRequest \/ (\E n \in 1..BLOCK_SIZE : ReadResponse(n)) \/ ReadResponseEof \/ ClientIntoBuilder
           \/ ForeignAnswer \/ ForeignHangUp
  BY <1>2, ClientActs DEF Fresh
<1>3. CASE ForeignRequest
  <2>1. client' = client /\ setup' = setup /\ left'.attempts = 0
    BY <1>1, <1>3 DEF ForeignRequest, Lefts
  <2> QED
    BY <2>1 DEF Fresh
<1>4. CASE SendData
  <2>1. client' = client /\ setup' = setup /\ stream' = stream /\ left'.attempts = left.attempts
    BY <1>1, <1>4 DEF SendData, Lefts, vars
  <2> QED
    BY <2>1 DEF Fresh
<1>5. ASSUME UNCHANGED <<client, setup, left>>, stream' \in {stream, <<>>} PROVE Fresh'
  BY <1>5 DEF Fresh
<1>6. CASE ReceiveRequest
  BY <1>5, <1>6 DEF ReceiveRequest, handshakeVars, Read, Scan, ReadEof
<1>7. CASE Decode
  BY <1>5, <1>7 DEF Decode, DecodeRequest
<1>8. CASE HttpReceiveRequest
  BY <1>5, <1>8 DEF HttpReceiveRequest
<1>9. ASSUME NEW protocol, Accept(protocol) PROVE Fresh'
  BY <1>5, <1>9 DEF Accept, vars
<1>10. ASSUME NEW code, NEW drop, Reject(code, drop) PROVE Fresh'
  BY <1>5, <1>10 DEF Reject
<1>11. CASE HangUp
  BY <1>5, <1>11 DEF HangUp, vars
<1>12. CASE ServerIntoBuilder
  BY <1>5, <1>12 DEF ServerIntoBuilder, Build, vars
<1>13. CASE UNCHANGED allVars
  BY <1>5, <1>13 DEF allVars, handshakeVars, vars
<1> QED
  BY HandshakeSteps, <1>2, <1>3, <1>4, <1>6, <1>7, <1>8, <1>9, <1>10, <1>11, <1>12, <1>13 DEF HandshakeCases

\* A new request arrives at a server with an empty buffer.
LEMMA NewRequestScan ==
  ASSUME ScanInv, stream = <<>>, stream' \in Streams, UNCHANGED <<got, skip, pc>>
  PROVE  ScanInv'
<1>1. got = 0 /\ skip = 0
  BY DEF ScanInv, TypeOK
<1>2. Len(stream') \in Nat
  BY RequestScanAssumption
<1>3. TypeOK'
  BY <1>1, <1>2 DEF ScanInv, TypeOK
<1>4. BufferBounded'
  BY DEF ScanInv, BufferBounded
<1>5. Skipped' /\ EndNotOverlooked'
  BY <1>1 DEF Skipped, EndNotOverlooked, HasTail
<1> QED
  BY <1>3, <1>4, <1>5 DEF ScanInv

LEMMA ScanStep == ScanInv /\ KnownInv /\ Fresh /\ [HandshakeNext]_allVars => ScanInv'
<1> SUFFICES ASSUME ScanInv, KnownInv, Fresh, [HandshakeNext]_allVars PROVE ScanInv'
  OBVIOUS
<1>1. RequestBytes \in Streams /\ <<>> \in Streams
  BY HandshakeAssumption
<1>2. CASE UNCHANGED vars
  BY <1>2, ScanNext
<1>3. CASE SendRequest
  <2>1. stream = <<>> /\ stream' \in Streams /\ UNCHANGED <<got, skip, pc>>
    BY <1>1, <1>3 DEF SendRequest
  <2> QED
    BY <2>1, NewRequestScan
<1>4. CASE ForeignRequest
  <2>1. stream = <<>> /\ stream' = request'.bytes /\ UNCHANGED <<got, skip, pc>>
    BY <1>4 DEF ForeignRequest, Fresh
  <2>2. request' \in AnyRequest
    BY <1>4, HandshakeAssumption DEF KnownInv, Known, ForeignRequest
  <2>3. stream' \in Streams
    BY <2>1, <2>2 DEF AnyRequest
  <2> QED
    BY <2>1, <2>3, NewRequestScan
<1>5. CASE ReceiveRequest
  BY <1>5, ScanNext DEF ReceiveRequest, Next
<1>6. CASE Decode
  BY <1>6, ScanNext DEF Decode, Next
<1>7. CASE HttpReceiveRequest
  BY <1>7 DEF HttpReceiveRequest, ScanInv, TypeOK, BufferBounded, Skipped, EndNotOverlooked
<1>8. ASSUME NEW code, NEW drop, Reject(code, drop) PROVE ScanInv'
  <2>1. stream' = <<>> /\ got' = 0 /\ skip' = 0 /\ pc' = "read"
    BY <1>8 DEF Reject
  <2>2. TypeOK'
    BY <1>1, <2>1 DEF TypeOK
  <2>3. BufferBounded'
    BY <2>1, Sizes DEF BufferBounded
  <2>4. Skipped' /\ EndNotOverlooked'
    BY <2>1 DEF Skipped, EndNotOverlooked, HasTail
  <2> QED
    BY <2>2, <2>3, <2>4 DEF ScanInv
<1>9. ASSUME \/ \E max \in Bits : SetMaxServerWindowBits(max) \/ SetMaxClientWindowBits(max)
             \/ (\E n \in 1..BLOCK_SIZE : ReadResponse(n)) \/ ReadResponseEof \/ ClientIntoBuilder \/ ServerIntoBuilder
             \/ (\E protocol \in {<<>>} \union { <<p>> : p \in ToSet(server.proposed) } : Accept(protocol))
             \/ HangUp \/ SendData \/ ForeignAnswer \/ ForeignHangUp \/ UNCHANGED allVars
      PROVE  UNCHANGED vars
  BY <1>9, Zenon DEF SetMaxServerWindowBits, SetMaxClientWindowBits, ReadResponse, ReadResponseEof, ClientIntoBuilder,
     ServerIntoBuilder, Build, Accept, HangUp, SendData, ForeignAnswer, ForeignHangUp, allVars
<1> QED
  BY HandshakeSteps, <1>2, <1>3, <1>4, <1>5, <1>6, <1>7, <1>8, <1>9 DEF HandshakeCases

\* What every step needs to know.
BaseInv == KnownInv /\ Fresh /\ ScanInv

LEMMA BaseInit == HandshakeInit => BaseInv
<1> SUFFICES ASSUME HandshakeInit PROVE BaseInv
  OBVIOUS
<1>1. Init
  BY DEF HandshakeInit
<1> QED
  BY <1>1, KnownInit, FreshInit, ScanInit DEF BaseInv

LEMMA BaseNext == BaseInv /\ [HandshakeNext]_allVars => BaseInv'
  BY KnownNext, FreshNext, ScanStep DEF BaseInv

\* Both ends stay within their types, whatever the other one sends: the windows of the
\* extension within what zlib supports, the client within what has been sent, and the
\* server's connection starts with an empty buffer.
THEOREM HandshakeTypes == HandshakeSpec => []HandshakeTypeOK
<1>1. ASSUME BaseInv PROVE HandshakeTypeOK
  <2>1. TypeOK
    BY <1>1 DEF BaseInv, ScanInv
  <2>2. Known
    BY <1>1 DEF BaseInv, KnownInv
  <2>3. client.ext \in Exts /\ server.ext \in Exts
    BY <2>2 DEF Known, Clients, Servers
  <2>4. client.pc \in {"idle", "waiting"} /\ client.result.kind \in {"none", "Accepted", "Redirect", "Rejected", "Err"}
    BY <2>2 DEF Known, Clients, Results
  <2>5. \A ext \in {client.ext, server.ext} : /\ ext.enabled \in BOOLEAN
                                              /\ {ext.our_max_window_bits, ext.their_max_window_bits} \subseteq 9..15
    BY <2>3 DEF Exts
  <2>6. seen <= Len(down)
    BY <2>2 DEF Known
  <2> QED
    BY <2>1, <2>2, <2>4, <2>5, <2>6 DEF HandshakeTypeOK, Known
<1> QED
  BY <1>1, BaseInit, BaseNext, PTL DEF HandshakeSpec

\* Between reading, answering, rejecting and reading again the server never overlooks
\* the end of a request.
THEOREM HandshakeReads == HandshakeSpec => []EndNotOverlooked
<1>1. BaseInv => EndNotOverlooked
  BY DEF BaseInv, ScanInv
<1> QED
  BY <1>1, BaseInit, BaseNext, PTL DEF HandshakeSpec

\* Its buffer is bounded through all of them.
THEOREM HandshakeBounded == HandshakeSpec => []BufferBounded
<1>1. BaseInv => BufferBounded
  BY DEF BaseInv, ScanInv
<1> QED
  BY <1>1, BaseInit, BaseNext, PTL DEF HandshakeSpec

-----------------------------------------------------------------------------
(* No stale answer.                                                        *)

\* The keys of a response are not later than the attempt that it was written for.
KeysOf(r) == r.attempt <= attempts /\ \A k \in 1..Len(r.accept) : r.accept[k].sha1 <= r.attempt

\* Every attempt has its own key: the client and the request have the last one, and
\* nobody knows a later one.
Keys ==
  setup.foreign # "client" =>
    /\ client.nonce = attempts
    /\ \A k \in 1..Len(request.key) : request.key[k] = attempts
    /\ server.key <= attempts
    /\ \A i \in 1..Len(answers) : KeysOf(answers[i])

LEMMA KeysInit == HandshakeInit => Keys
<1> SUFFICES ASSUME HandshakeInit PROVE Keys
  OBVIOUS
<1>1. client = ClientNew /\ server = ServerNew /\ attempts = 0 /\ request = NoRequest /\ answers = <<>>
  BY DEF HandshakeInit
<1>2. client.nonce = 0 /\ server.key = 0 /\ request.key = <<>>
  BY <1>1 DEF ClientNew, ServerNew, NoRequest
<1> QED
  BY <1>1, <1>2 DEF Keys

\* An action that makes no key.
LEMMA KeysQuiet ==
  ASSUME Keys, UNCHANGED <<setup, attempts, answers, request>>, client'.nonce = client.nonce,
         setup.foreign # "client" => server'.key <= attempts
  PROVE  Keys'
  BY DEF Keys, KeysOf

\* An action that answers.
LEMMA KeysRespond ==
  ASSUME Known, Keys, UNCHANGED <<setup, attempts, client, request>>, server'.key = server.key,
         NEW responses \in Seq(AnyResponse), Grows, Adds(responses),
         setup.foreign # "client" => \A i \in 1..Len(responses) : KeysOf(responses[i])
  PROVE  Keys'
<1> SUFFICES ASSUME setup.foreign # "client" PROVE Keys'
  BY DEF Keys
<1>1. PICK m \in Nat, r \in Nat : m = Len(answers) /\ r = Len(responses)
  BY DEF Known
<1>2. ASSUME NEW i \in 1..m + r PROVE KeysOf(answers'[i])
  <2>1. CASE i <= m
    <3>1. i \in 1..Len(answers)
      BY <1>1, <2>1
    <3>2. answers'[i] = answers[i] /\ KeysOf(answers[i])
      BY <3>1 DEF Grows, Keys
    <3> QED
      BY <3>2
  <2>2. CASE ~(i <= m)
    <3>1. PICK k \in 1..r : i = m + k
      <4>1. i - m \in 1..r /\ i = m + (i - m)
        BY <2>2
      <4> QED
        BY <4>1
    <3>2. answers'[i] = responses[k] /\ KeysOf(responses[k])
      BY <1>1, <3>1 DEF Adds
    <3> QED
      BY <3>2
  <2> QED
    BY <2>1, <2>2
<1>3. Len(answers') = m + r
  BY <1>1, Zenon DEF Adds
<1>4. \A i \in 1..Len(answers') : KeysOf(answers'[i])
  BY <1>2, <1>3, Zenon
<1>5. \A i \in 1..Len(answers') : KeysOf(answers[i])'
  BY <1>4 DEF KeysOf
<1> QED
  BY <1>5 DEF Keys

LEMMA KeysDecoded ==
  ASSUME Known, Keys, NEW outcome, NEW configured, NEW proposed,
         server' = Decoded(outcome, configured, proposed), setup.foreign # "client"
  PROVE  server'.key <= attempts
<1>1. server'.key = IF request.key = <<>> THEN 0 ELSE Head(request.key)
  BY DEF Decoded, ShortKey, Known, Servers
<1>2. request.key \in Seq(Nat) /\ attempts \in Nat
  BY DEF Known, AnyRequest
<1>3. CASE request.key = <<>>
  BY <1>1, <1>2, <1>3
<1>4. CASE request.key # <<>>
  <2>1. Head(request.key) = request.key[1] /\ 1 \in 1..Len(request.key)
    BY <1>2, <1>4
  <2>2. Head(request.key) = attempts
    BY <2>1 DEF Keys
  <2> QED
    BY <1>1, <1>2, <1>4, <2>2
<1> QED
  BY <1>3, <1>4

LEMMA KeysSend ==
  ASSUME Known, Keys, SendRequest
  PROVE  Keys'
<1>1. /\ UNCHANGED <<setup, server, answers>> /\ setup.foreign # "client"
      /\ attempts' = attempts + 1 /\ request' = EncodeRequest(attempts + 1)
      /\ client' = [client EXCEPT !.pc = "waiting", !.nonce = attempts + 1, !.buffer = <<>>, !.result = Result("none")]
  BY DEF SendRequest, FreshNonce
<1>2. client'.nonce = attempts + 1
  BY <1>1 DEF Known, Clients
<1>3. request'.key = <<attempts + 1>>
  BY <1>1 DEF EncodeRequest
<1>4. \A k \in 1..Len(request'.key) : request'.key[k] = attempts + 1
  BY <1>3
<1>5. attempts \in Nat /\ server.key \in Nat /\ server.key <= attempts
  BY <1>1 DEF Known, Servers, Keys
<1>6. server'.key <= attempts'
  <2>1. server.key <= attempts + 1
    BY <1>5
  <2> QED
    BY <1>1, <2>1
<1>7. ASSUME NEW i \in 1..Len(answers) PROVE KeysOf(answers[i])'
  <2>1. KeysOf(answers[i]) /\ answers[i].attempt \in Nat
    BY <1>1, AnswerIs DEF Keys
  <2>2. answers[i].attempt <= attempts + 1
    BY <1>5, <2>1 DEF KeysOf
  <2> QED
    BY <1>1, <2>1, <2>2, Zenon DEF KeysOf
<1> QED
  BY <1>1, <1>2, <1>4, <1>6, <1>7, Zenon DEF Keys

LEMMA KeysNext == BaseInv /\ Keys /\ [HandshakeNext]_allVars => Keys'
<1> SUFFICES ASSUME BaseInv, Keys, [HandshakeNext]_allVars PROVE Keys'
  OBVIOUS
<1>1. Known /\ PiecesSent /\ Fresh /\ client \in Clients /\ server \in Servers /\ server.key \in Nat /\ attempts \in Nat
  BY DEF BaseInv, KnownInv, Known, Servers
<1>2. setup.foreign # "client" => server.key <= attempts
  BY DEF Keys
<1>3. ASSUME UNCHANGED <<setup, attempts, answers, request>>, client'.nonce = client.nonce, server'.key = server.key
      PROVE  Keys'
  BY <1>2, <1>3, KeysQuiet
<1>4. ASSUME NEW max \in Bits, SetMaxServerWindowBits(max) \/ SetMaxClientWindowBits(max) PROVE Keys'
  <2>1. client'.nonce = client.nonce
    BY <1>1, <1>4 DEF SetMaxServerWindowBits, SetMaxClientWindowBits, Clients
  <2> QED
    BY <1>3, <1>4, <2>1 DEF SetMaxServerWindowBits, SetMaxClientWindowBits
<1>5. CASE SendRequest
  BY <1>1, <1>5, KeysSend
<1>6. ASSUME NEW n \in 1..BLOCK_SIZE, ReadResponse(n) PROVE Keys'
  <2>1. PICK b \in 0..seen : IsSlice(client.buffer, b, seen)
    BY DEF BaseInv, KnownInv, Buffered
  <2>2. b \in Nat /\ b <= seen
    BY <1>1, <2>1 DEF Known
  <2>3. PICK buffer, o : Reads(n, b, buffer, o)
    BY <1>1, <1>6, <2>1, <2>2, ReadsIs
  <2>4. client'.nonce = client.nonce
    BY <1>1, <2>3 DEF Reads, Clients
  <2> QED
    BY <1>3, <1>6, <2>4 DEF ReadResponse
<1>7. CASE ReadResponseEof
  <2>1. client'.nonce = client.nonce
    BY <1>1, <1>7 DEF ReadResponseEof, Clients
  <2> QED
    BY <1>3, <1>7, <2>1 DEF ReadResponseEof
<1>8. CASE ReceiveRequest \/ ServerIntoBuilder \/ ClientIntoBuilder \/ SendData \/ ForeignHangUp \/ UNCHANGED allVars
  <2>1. UNCHANGED <<setup, attempts, answers, request, client, server>>
    BY <1>8 DEF ReceiveRequest, handshakeVars, ServerIntoBuilder, ClientIntoBuilder, Build, SendData, ForeignHangUp, allVars
  <2> QED
    BY <1>3, <2>1
<1>9. CASE Decode
  <2> DEFINE outcome == IF pc' = "Complete" THEN RequestOutcome(request) ELSE "IncompleteHttpRequest"
  <2>1. server' = Decoded(outcome, outcome \in {"Ok", "Utf8"}, Proposed(request)) /\ UNCHANGED <<setup, attempts, answers, request, client>>
    BY <1>9 DEF Decode
  <2> HIDE DEF outcome
  <2> QED
    BY <1>1, <2>1, KeysDecoded, KeysQuiet
<1>10. CASE HttpReceiveRequest
  <2>1. /\ server' = Decoded(HttpOutcome(request), HttpOutcome(request) = "Ok", <<>>)
        /\ UNCHANGED <<setup, attempts, answers, request, client>>
    BY <1>10 DEF HttpReceiveRequest
  <2> QED
    BY <1>1, <2>1, KeysDecoded, KeysQuiet
<1>11. ASSUME NEW protocol \in {<<>>} \union { <<p>> : p \in ToSet(server.proposed) }, Accept(protocol) PROVE Keys'
  <2> DEFINE R == AcceptResponse(protocol)
             responses == <<R>>
  <2>1. R \in AnyResponse
    BY <1>1, ProtocolIs, AcceptResponseTyped
  <2>2. R.attempt = attempts /\ R.accept = <<AcceptKey(server.key)>>
    BY DEF AcceptResponse, Plain
  <2>3. setup.foreign # "client" => KeysOf(R)
    <3>1. setup.foreign # "client" => \A k \in 1..1 : <<AcceptKey(server.key)>>[k].sha1 <= attempts
      BY <1>1, <1>2 DEF AcceptKey
    <3> QED
      BY <1>1, <2>2, <3>1 DEF KeysOf
  <2>4. /\ UNCHANGED <<setup, attempts, client, request>> /\ Respond(responses)
        /\ server' = [server EXCEPT !.result = "none", !.accepted = TRUE, !.protocol = protocol]
    BY <1>11 DEF Accept
  <2> HIDE DEF R
  <2>5. responses \in Seq(AnyResponse) /\ (setup.foreign # "client" => \A i \in 1..Len(responses) : KeysOf(responses[i]))
    BY <2>1, <2>3
  <2> HIDE DEF responses
  <2>6. Grows /\ Adds(responses)
    BY <1>1, <2>4, <2>5, Responds
  <2>7. server'.key = server.key
    BY <1>1, <2>4 DEF Servers
  <2> QED
    BY <1>1, <2>4, <2>5, <2>6, <2>7, KeysRespond
<1>12. ASSUME NEW code \in Codes \union {200}, NEW drop \in BOOLEAN, Reject(code, drop) PROVE Keys'
  <2> DEFINE R == Plain(RejectCode(code))
             responses == <<R>>
  <2>1. R \in AnyResponse
    <3>1. code \in Nat
      BY HandshakeAssumption
    <3> QED
      BY <1>1, <3>1, RejectCodeTyped, PlainTyped
  <2>2. KeysOf(R)
    BY <1>1 DEF Plain, KeysOf
  <2>3. /\ UNCHANGED <<setup, attempts, client, request>> /\ Respond(responses)
        /\ server' = [server EXCEPT !.result = "none", !.refused = code]
    BY <1>12 DEF Reject
  <2> HIDE DEF R
  <2>4. responses \in Seq(AnyResponse) /\ (setup.foreign # "client" => \A i \in 1..Len(responses) : KeysOf(responses[i]))
    BY <2>1, <2>2
  <2> HIDE DEF responses
  <2>5. Grows /\ Adds(responses)
    BY <1>1, <2>3, <2>4, Responds
  <2>6. server'.key = server.key
    BY <1>1, <2>3 DEF Servers
  <2> QED
    BY <1>1, <2>3, <2>4, <2>5, <2>6, KeysRespond
<1>13. CASE HangUp
  <2>1. UNCHANGED <<setup, attempts, answers, request, client>> /\ server' = [server EXCEPT !.result = "none"]
    BY <1>13 DEF HangUp
  <2>2. server'.key = server.key
    BY <1>1, <2>1 DEF Servers
  <2> QED
    BY <1>3, <2>1, <2>2
<1>14. CASE ForeignRequest
  BY <1>14 DEF ForeignRequest, Keys
<1>15. CASE ForeignAnswer
  <2>1. UNCHANGED <<setup, attempts, client, server, request>>
    BY <1>15 DEF ForeignAnswer
  <2>2. PICK burst \in Seq(AnyResponse) : /\ Respond(Stamped(burst))
                                          /\ \A r \in ToSet(burst) : \A k \in ToSet(r.accept) : k.sha1 <= attempts
    BY <1>1, <1>15, ForeignAnswerIs
  <2> DEFINE responses == Stamped(burst)
  <2>3. /\ responses \in Seq(AnyResponse) /\ Len(responses) = Len(burst)
        /\ \A i \in 1..Len(burst) : responses[i].attempt = attempts /\ responses[i].accept = burst[i].accept
    BY <1>1, StampedIs
  <2>4. Grows /\ Adds(responses)
    BY <1>1, <2>2, <2>3, Responds
  <2> HIDE DEF responses
  <2>5. ASSUME NEW i \in 1..Len(burst) PROVE KeysOf(responses[i])
    <3>1. burst[i] \in ToSet(burst)
      BY DEF ToSet
    <3>2. ASSUME NEW k \in 1..Len(burst[i].accept) PROVE burst[i].accept[k].sha1 <= attempts
      <4>1. burst[i].accept[k] \in ToSet(burst[i].accept)
        BY DEF ToSet
      <4> QED
        BY <2>2, <3>1, <4>1
    <3>3. attempts <= attempts
      BY <1>1
    <3> QED
      BY <2>3, <3>2, <3>3, Zenon DEF KeysOf
  <2>6. \A i \in 1..Len(responses) : KeysOf(responses[i])
    BY <2>3, <2>5, Zenon
  <2> QED
    BY <1>1, <2>1, <2>3, <2>4, <2>6, KeysRespond
<1> QED
  BY HandshakeSteps, <1>4, <1>5, <1>6, <1>7, <1>8, <1>9, <1>10, <1>11, <1>12, <1>13, <1>14, <1>15 DEF HandshakeCases

\* A client that was accepted: it has read the whole response, which was written for its
\* last attempt, and its buffer holds what it has read behind it.
AcceptedBy(i) ==
  /\ client.pc = "idle" /\ i \in 1..Len(answers) /\ answers[i].attempt = attempts
  /\ \E e \in 1..seen : down[e] = <<"end", i>> /\ IsSlice(client.buffer, e, seen)

Accepted == client.result.kind = "Accepted" => AcceptedBy(client.result.answer)

LEMMA AcceptedInit == HandshakeInit => Accepted
  BY DEF HandshakeInit, Accepted, ClientNew, Result

\* A response that passes decode_response has the key of the last request.
LEMMA OkHasKey ==
  ASSUME NEW r, ResponseOutcome(r) = "Ok"
  PROVE  /\ r.accept # <<>> /\ Head(r.accept) = AcceptKey(client.nonce) /\ ~Unreadable(r.extensions) /\ r.code = 101
         /\ r.protocol # <<>> => \E p \in ToSet(setup.clientProtocols) : Head(r.protocol) = <<p>>
  BY DEF ResponseOutcome, Check

\* Nothing that has been sent changes, so a client that was accepted stays it.
LEMMA AcceptedStays ==
  ASSUME Known, Accepted, Grows, seen' = seen, attempts' = attempts, client'.pc = client.pc,
         client'.result = client.result, client'.buffer = client.buffer
  PROVE  Accepted'
<1> SUFFICES ASSUME client.result.kind = "Accepted" PROVE AcceptedBy(client.result.answer)'
  BY DEF Accepted
<1>0. PICK i : i = client.result.answer
  OBVIOUS
<1>1. AcceptedBy(i)
  BY <1>0 DEF Accepted
<1>2. PICK e \in 1..seen : down[e] = <<"end", i>> /\ IsSlice(client.buffer, e, seen)
  BY <1>1 DEF AcceptedBy
<1>3. PICK s \in Nat, d \in Nat : s = seen /\ d = Len(down) /\ s <= d
  <2>1. Len(down) \in Nat /\ seen \in Nat /\ seen <= Len(down)
    BY DEF Known
  <2> QED
    BY <2>1
<1>4. e \in Nat /\ e <= seen /\ e \in 1..d
  BY <1>3
<1>5. IsSlice(client.buffer, e, seen)'
  <2>1. Len(client.buffer) = seen - e /\ \A k \in 1..seen - e : client.buffer[k] = down'[e + k]
    BY <1>2, <1>4, SliceStays
  <2> QED
    BY <2>1, Zenon DEF IsSlice
<1>6. down'[e] = <<"end", i>>
  <2>1. e \in 1..Len(down)
    BY <1>3, <1>4
  <2> QED
    BY <1>2, <2>1 DEF Grows
<1>7. i \in 1..Len(answers') /\ answers'[i] = answers[i]
  <2>1. i \in 1..Len(answers) /\ Len(answers) <= Len(answers') /\ Len(answers) \in Nat /\ Len(answers') \in Nat
    BY <1>1 DEF AcceptedBy, Grows, Known
  <2>2. answers'[i] = answers[i]
    BY <2>1 DEF Grows
  <2> QED
    BY <2>1, <2>2
<1>8. client'.pc = "idle" /\ answers'[i].attempt = attempts'
  BY <1>1, <1>7 DEF AcceptedBy
<1>9. AcceptedBy(i)'
  BY <1>5, <1>6, <1>7, <1>8, Zenon DEF AcceptedBy
<1> QED
  BY <1>0, <1>9

LEMMA NothingSent ==
  ASSUME Known, UNCHANGED <<answers, down>>
  PROVE  Grows
  BY DEF Known, Grows

LEMMA AcceptedRead ==
  ASSUME Known, PiecesSent, Buffered, Keys, Accepted, setup.foreign # "client", NEW n \in 1..BLOCK_SIZE, ReadResponse(n)
  PROVE  Accepted'
<1> SUFFICES ASSUME client'.result.kind = "Accepted" PROVE AcceptedBy(client.result.answer)'
  BY DEF Accepted
<1>1. client \in Clients /\ seen \in Nat /\ n \in Nat /\ attempts \in Nat
  BY Sizes DEF Known
<1>2. PICK b \in 0..seen : IsSlice(client.buffer, b, seen)
  BY DEF Buffered
<1>3. b \in Nat /\ b <= seen
  BY <1>1, <1>2
<1>4. PICK buffer, o : Reads(n, b, buffer, o)
  BY <1>2, <1>3, ReadsIs
<1> DEFINE i == buffer[o][2]
<1>5. client.result.kind # "Accepted"
  <2>1. client.pc = "waiting"
    BY <1>4 DEF Reads
  <2> QED
    BY <2>1 DEF Accepted, AcceptedBy
<1>6. o # 0 /\ buffer[1][1] # "data"
  <2>1. Result("Err").kind # "Accepted"
    BY DEF Result
  <2> QED
    BY <1>1, <1>4, <1>5, <2>1 DEF Reads, Clients
<1>7. client' = [client EXCEPT !.pc = "idle", !.result = ResultOf(i),
                            !.buffer = IF ResultOf(i).kind = "Err" THEN buffer ELSE Advance(buffer, o),
                            !.ext = ConfiguredBy(answers[i])]
  BY <1>4, <1>6 DEF Reads
<1>8. /\ b + o \in 1..seen + n /\ down[b + o] = buffer[o] /\ i \in 1..Len(answers) /\ buffer[o] = <<"end", i>>
      /\ IsSlice(Advance(buffer, o), b + o, seen + n)
  BY <1>3, <1>4, <1>6, EndRead
<1> HIDE DEF i
<1>9. client'.pc = "idle" /\ client'.result = ResultOf(i) /\ client'.result.kind = "Accepted"
  BY <1>1, <1>7 DEF Clients
<1>10. IsResultOf(i)
  BY <1>8, ResultOfIs
<1>11. ResponseOutcome(answers[i]) = "Ok" /\ ResultOf(i).answer = i
  BY <1>9, <1>10 DEF IsResultOf
<1>12. client'.buffer = Advance(buffer, o)
  BY <1>1, <1>7, <1>9 DEF Clients
<1>13. answers[i].attempt = attempts
  <2>1. answers[i].accept # <<>> /\ Head(answers[i].accept) = AcceptKey(client.nonce)
    BY <1>11, OkHasKey
  <2>2. answers[i].attempt \in Nat /\ answers[i].accept \in Seq([sha1 : Nat])
    BY <1>8, AnswerIs
  <2>3. 1 \in 1..Len(answers[i].accept) /\ answers[i].accept[1] = Head(answers[i].accept)
    BY <2>1, <2>2
  <2>4. answers[i].accept[1].sha1 = attempts
    BY <2>1, <2>3 DEF AcceptKey, Keys
  <2>5. KeysOf(answers[i])
    BY <1>8 DEF Keys
  <2>6. attempts <= answers[i].attempt /\ answers[i].attempt <= attempts
    BY <2>3, <2>4, <2>5 DEF KeysOf
  <2> QED
    BY <1>1, <2>2, <2>6
<1>14. seen' = seen + n /\ UNCHANGED <<answers, down, attempts>>
  BY <1>4 DEF Reads
<1>15. IsSlice(client.buffer, b + o, seen)'
  BY <1>3, <1>8, <1>12, <1>14, Zenon DEF IsSlice
<1>16. AcceptedBy(i)'
  BY <1>8, <1>9, <1>13, <1>14, <1>15, Zenon DEF AcceptedBy
<1> QED
  BY <1>9, <1>11, <1>16

\* Every response of either server.
LEMMA Answered ==
  ASSUME Known, PiecesSent,
         \/ \E protocol \in {<<>>} \union { <<p>> : p \in ToSet(server.proposed) } : Accept(protocol)
         \/ \E code \in Codes \union {200}, drop \in BOOLEAN : Reject(code, drop)
         \/ ForeignAnswer
  PROVE  /\ UNCHANGED <<setup, left, attempts, client, request, seen, builder>>
         /\ \E responses \in Seq(AnyResponse) : Grows /\ Adds(responses)
<1>1. ASSUME NEW responses \in Seq(AnyResponse), Respond(responses) PROVE Grows /\ Adds(responses)
  BY <1>1, Responds
<1>2. ASSUME NEW protocol \in {<<>>} \union { <<p>> : p \in ToSet(server.proposed) }, Accept(protocol)
      PROVE  /\ UNCHANGED <<setup, left, attempts, client, request, seen, builder>>
             /\ \E responses \in Seq(AnyResponse) : Grows /\ Adds(responses)
  <2>1. AcceptResponse(protocol) \in AnyResponse
    BY ProtocolIs, AcceptResponseTyped
  <2>2. <<AcceptResponse(protocol)>> \in Seq(AnyResponse)
    BY <2>1
  <2>3. Respond(<<AcceptResponse(protocol)>>)
    BY <1>2 DEF Accept
  <2> QED
    BY <1>1, <1>2, <2>2, <2>3 DEF Accept
<1>3. ASSUME NEW code \in Codes \union {200}, NEW drop \in BOOLEAN, Reject(code, drop)
      PROVE  /\ UNCHANGED <<setup, left, attempts, client, request, seen, builder>>
             /\ \E responses \in Seq(AnyResponse) : Grows /\ Adds(responses)
  <2>1. code \in Nat
    BY HandshakeAssumption
  <2>2. Plain(RejectCode(code)) \in AnyResponse
    BY <2>1, RejectCodeTyped, PlainTyped
  <2>3. <<Plain(RejectCode(code))>> \in Seq(AnyResponse)
    BY <2>2
  <2>4. Respond(<<Plain(RejectCode(code))>>)
    BY <1>3 DEF Reject
  <2>5. UNCHANGED <<setup, left, attempts, client, request, seen, builder>>
    BY <1>3 DEF Reject
  <2> QED
    BY <1>1, <2>3, <2>4, <2>5
<1>4. CASE ForeignAnswer
  <2>1. PICK burst \in Seq(AnyResponse) : Respond(Stamped(burst))
    BY <1>4, ForeignAnswerIs
  <2>2. Stamped(burst) \in Seq(AnyResponse)
    BY StampedIs
  <2> QED
    BY <1>1, <1>4, <2>1, <2>2 DEF ForeignAnswer
<1> QED
  BY <1>2, <1>3, <1>4

LEMMA AcceptedNext == BaseInv /\ Keys /\ Accepted /\ [HandshakeNext]_allVars => Accepted'
<1> SUFFICES ASSUME BaseInv, Keys, Accepted, [HandshakeNext]_allVars PROVE Accepted'
  OBVIOUS
<1>1. Known /\ PiecesSent /\ Buffered /\ Fresh /\ client \in Clients
  BY DEF BaseInv, KnownInv, Known
<1>2. ASSUME UNCHANGED <<answers, down, seen, attempts>>, client'.pc = client.pc, client'.result = client.result,
             client'.buffer = client.buffer
      PROVE  Accepted'
  BY <1>1, <1>2, AcceptedStays, NothingSent
<1>3. ASSUME NEW max \in Bits, SetMaxServerWindowBits(max) \/ SetMaxClientWindowBits(max) PROVE Accepted'
  <2>1. client'.pc = client.pc /\ client'.result = client.result /\ client'.buffer = client.buffer
    BY <1>1, <1>3 DEF SetMaxServerWindowBits, SetMaxClientWindowBits, Clients
  <2> QED
    BY <1>2, <1>3, <2>1 DEF SetMaxServerWindowBits, SetMaxClientWindowBits
<1>4. CASE SendRequest
  <2>1. client'.result = Result("none")
    BY <1>1, <1>4 DEF SendRequest, Clients
  <2> QED
    BY <2>1 DEF Accepted, Result
<1>5. ASSUME NEW n \in 1..BLOCK_SIZE, ReadResponse(n) PROVE Accepted'
  <2>1. setup.foreign # "client"
    BY <1>1, <1>5, ClientActs
  <2> QED
    BY <1>1, <1>5, <2>1, AcceptedRead
<1>6. CASE ReadResponseEof
  <2>1. client'.result = Result("Err")
    BY <1>1, <1>6 DEF ReadResponseEof, Clients
  <2> QED
    BY <2>1 DEF Accepted, Result
<1>7. CASE ReceiveRequest \/ Decode \/ HttpReceiveRequest \/ HangUp \/ ServerIntoBuilder \/ ClientIntoBuilder \/ ForeignHangUp
           \/ UNCHANGED allVars
  <2>1. UNCHANGED <<answers, down, seen, attempts, client>>
    BY <1>7 DEF ReceiveRequest, Decode, HttpReceiveRequest, HangUp, handshakeVars, ServerIntoBuilder, ClientIntoBuilder, Build,
       ForeignHangUp, allVars
  <2> QED
    BY <1>2, <2>1
<1>8. CASE \/ \E protocol \in {<<>>} \union { <<p>> : p \in ToSet(server.proposed) } : Accept(protocol)
           \/ \E code \in Codes \union {200}, drop \in BOOLEAN : Reject(code, drop)
           \/ ForeignAnswer
  <2>1. UNCHANGED <<attempts, client, seen>> /\ Grows
    BY <1>1, <1>8, Answered
  <2> QED
    BY <1>1, <2>1, AcceptedStays
<1>9. CASE SendData
  <2>1. UNCHANGED <<attempts, client, seen>> /\ Grows
    BY <1>9, DataGrows DEF SendData, BaseInv
  <2> QED
    BY <1>1, <2>1, AcceptedStays
<1>10. CASE ForeignRequest
  <2>1. client' = ClientNew
    BY <1>1, <1>10 DEF ForeignRequest, Fresh
  <2> QED
    BY <2>1 DEF Accepted, ClientNew, Result
<1> QED
  BY HandshakeSteps, <1>3, <1>4, <1>5, <1>6, <1>7, <1>8, <1>9, <1>10 DEF HandshakeCases

\* A client never takes a response that was written for an earlier attempt, however many
\* responses a server sends for each: the nonce of every request is new.
THEOREM StaleAnswersRefused == HandshakeSpec => []NoStaleAnswer
<1> DEFINE Inv == BaseInv /\ Keys /\ Accepted
<1>1. HandshakeInit => Inv
  BY BaseInit, KeysInit, AcceptedInit
<1>2. Inv /\ [HandshakeNext]_allVars => Inv'
  BY BaseNext, KeysNext, AcceptedNext
<1>3. Inv => NoStaleAnswer
  BY DEF Accepted, AcceptedBy, NoStaleAnswer
<1> HIDE DEF Inv
<1> QED
  BY <1>1, <1>2, <1>3, PTL DEF HandshakeSpec

-----------------------------------------------------------------------------
(* What follows the response.                                              *)

\* Every response ends once.
UniqueEnds == \A i, j \in 1..Len(down) : down[i][1] = "end" /\ down[i] = down[j] => i = j

\* into_builder has left the buffer to the connection.
Made == builder["client"].made => client.result.kind = "Accepted" /\ builder["client"].buffer = client.buffer

LEMMA MadeInit == HandshakeInit => UniqueEnds /\ Made
  BY DEF HandshakeInit, UniqueEnds, Made, NoBuilder

\* New responses have new numbers.
LEMMA UniqueRespond ==
  ASSUME Known, PiecesSent, UniqueEnds, NEW responses \in Seq(AnyResponse), Grows, Adds(responses)
  PROVE  UniqueEnds'
<1>1. PICK m \in Nat, r \in Nat, d \in Nat : m = Len(answers) /\ r = Len(responses) /\ d = Len(down)
  <2>1. Len(answers) \in Nat /\ Len(responses) \in Nat /\ Len(down) \in Nat
    BY DEF Known
  <2> QED
    BY <2>1
<1>2. /\ Len(down') = d + 2 * r
      /\ \A k \in 1..2 * r : down'[d + k] = <<IF k % 2 = 1 THEN "head" ELSE "end", (m + 1) + (k - 1) \div 2>>
  BY <1>1, Zenon DEF Adds
<1>3. \A k \in 1..d : down'[k] = down[k] /\ (down[k][1] # "data" => down[k][2] \in 1..m)
  BY <1>1 DEF Grows, PiecesSent
<1>4. ASSUME NEW i \in 1..d + 2 * r PROVE i \in 1..d \/ \E k \in 1..2 * r : i = d + k
  <2>1. CASE i <= d
    BY <2>1
  <2>2. CASE ~(i <= d)
    <3>1. i - d \in 1..2 * r /\ i = d + (i - d)
      BY <2>2
    <3> QED
      BY <3>1
  <2> QED
    BY <2>1, <2>2
<1>5. ASSUME NEW i \in 1..d, NEW k \in 1..2 * r, down'[i] = down'[d + k] PROVE FALSE
  <2>1. down'[d + k][1] # "data" /\ down'[d + k][2] = (m + 1) + (k - 1) \div 2
    BY <1>2
  <2>2. down[i][2] \in 1..m
    BY <1>3, <1>5, <2>1
  <2>3. (k - 1) \div 2 \in Nat
    OBVIOUS
  <2> QED
    BY <1>3, <1>5, <2>1, <2>2, <2>3
<1>6. ASSUME NEW k \in 1..2 * r, NEW l \in 1..2 * r, down'[d + k][1] = "end", down'[d + k] = down'[d + l] PROVE k = l
  <2>1. /\ k % 2 # 1 /\ l % 2 # 1
        /\ (m + 1) + (k - 1) \div 2 = (m + 1) + (l - 1) \div 2
    BY <1>2, <1>6
  <2>2. (k - 1) \div 2 \in Nat /\ (l - 1) \div 2 \in Nat
    OBVIOUS
  <2>3. (k - 1) \div 2 = (l - 1) \div 2
    BY <2>1, <2>2
  <2> QED
    BY <2>1, <2>3
<1>7. ASSUME NEW i \in 1..d + 2 * r, NEW j \in 1..d + 2 * r, down'[i][1] = "end", down'[i] = down'[j] PROVE i = j
  <2>1. CASE i \in 1..d /\ j \in 1..d
    <3>1. i \in 1..Len(down) /\ j \in 1..Len(down) /\ down[i][1] = "end" /\ down[i] = down[j]
      BY <1>1, <1>3, <1>7, <2>1
    <3> QED
      BY <3>1 DEF UniqueEnds
  <2>2. ASSUME i \in 1..d, NEW l \in 1..2 * r, j = d + l PROVE FALSE
    BY <1>5, <1>7, <2>2
  <2>3. ASSUME j \in 1..d, NEW k \in 1..2 * r, i = d + k PROVE FALSE
    BY <1>5, <1>7, <2>3
  <2>4. ASSUME NEW k \in 1..2 * r, i = d + k, NEW l \in 1..2 * r, j = d + l PROVE i = j
    BY <1>6, <1>7, <2>4
  <2> QED
    BY <1>4, <2>1, <2>2, <2>3, <2>4
<1> QED
  BY <1>2, <1>7, Zenon DEF UniqueEnds

LEMMA MadeNext == BaseInv /\ Keys /\ Accepted /\ UniqueEnds /\ Made /\ [HandshakeNext]_allVars => UniqueEnds' /\ Made'
<1> SUFFICES ASSUME BaseInv, Keys, Accepted, UniqueEnds, Made, [HandshakeNext]_allVars PROVE UniqueEnds' /\ Made'
  OBVIOUS
<1>1. Known /\ PiecesSent /\ client \in Clients /\ builder \in [{"client", "server"} -> Builders]
  BY DEF BaseInv, KnownInv, Known
<1>2. down' = down => UniqueEnds'
  BY DEF UniqueEnds
<1>3. ASSUME builder' = builder, client'.result = client.result, client'.buffer = client.buffer PROVE Made'
  BY <1>3 DEF Made
<1>4. ASSUME client.result.kind # "Accepted", builder' = builder PROVE Made'
  BY <1>4 DEF Made
<1>5. client.pc = "waiting" => client.result.kind # "Accepted"
  BY DEF Accepted, AcceptedBy
<1>6. ASSUME NEW max \in Bits, SetMaxServerWindowBits(max) \/ SetMaxClientWindowBits(max) PROVE UniqueEnds' /\ Made'
  <2>1. client'.result = client.result /\ client'.buffer = client.buffer
    BY <1>1, <1>6 DEF SetMaxServerWindowBits, SetMaxClientWindowBits, Clients
  <2> QED
    BY <1>2, <1>3, <1>6, <2>1 DEF SetMaxServerWindowBits, SetMaxClientWindowBits
<1>7. CASE SendRequest
  BY <1>2, <1>4, <1>7 DEF SendRequest
<1>8. CASE (\E n \in 1..BLOCK_SIZE : ReadResponse(n)) \/ ReadResponseEof
  <2>1. client.pc = "waiting" /\ down' = down /\ builder' = builder
    BY <1>8 DEF ReadResponse, ReadResponseEof
  <2> QED
    BY <1>2, <1>4, <1>5, <2>1
<1>9. CASE ReceiveRequest \/ Decode \/ HttpReceiveRequest \/ HangUp \/ ForeignRequest \/ ForeignHangUp \/ UNCHANGED allVars
  <2>1. UNCHANGED <<down, builder, client>>
    BY <1>9 DEF ReceiveRequest, Decode, HttpReceiveRequest, HangUp, handshakeVars, ForeignRequest, ForeignHangUp, allVars
  <2> QED
    BY <1>2, <1>3, <2>1
<1>10. CASE \/ \E protocol \in {<<>>} \union { <<p>> : p \in ToSet(server.proposed) } : Accept(protocol)
            \/ \E code \in Codes \union {200}, drop \in BOOLEAN : Reject(code, drop)
            \/ ForeignAnswer
  <2>1. UNCHANGED <<client, builder>> /\ \E responses \in Seq(AnyResponse) : Grows /\ Adds(responses)
    BY <1>1, <1>10, Answered
  <2> QED
    BY <1>1, <1>3, <2>1, UniqueRespond
<1>11. CASE SendData
  <2>1. UNCHANGED <<client, builder>>
    BY <1>11 DEF SendData
  <2>2. Grows /\ Len(down') = Len(down) + 1 /\ down'[Len(down) + 1] = <<"data", left.data>>
    BY <1>11, DataGrows DEF BaseInv
  <2>3. PICK d \in Nat : d = Len(down)
    BY <1>1 DEF Known
  <2>4. down'[d + 1][1] = "data" /\ \A i \in 1..d : down'[i] = down[i]
    BY <2>2, <2>3 DEF Grows
  <2>5. ASSUME NEW i \in 1..d + 1, NEW j \in 1..d + 1, down'[i][1] = "end", down'[i] = down'[j] PROVE i = j
    <3>1. i # d + 1 /\ j # d + 1
      BY <2>4, <2>5
    <3>2. i \in 1..d /\ j \in 1..d
      BY <3>1
    <3>3. down[i][1] = "end" /\ down[i] = down[j]
      BY <2>4, <2>5, <3>2
    <3> QED
      BY <2>3, <3>2, <3>3 DEF UniqueEnds
  <2>6. UniqueEnds'
    BY <2>2, <2>3, <2>5, Zenon DEF UniqueEnds
  <2> QED
    BY <1>3, <2>1, <2>6
<1>12. CASE ClientIntoBuilder
  <2>1. /\ client.result.kind = "Accepted" /\ UNCHANGED <<down, client>>
        /\ builder' = [builder EXCEPT !["client"] = [made |-> TRUE, buffer |-> client.buffer, rsv1 |-> setup.clientDeflate /\ client.ext.enabled]]
    BY <1>12 DEF ClientIntoBuilder, Build
  <2>2. builder'["client"].buffer = client.buffer
    BY <1>1, <2>1
  <2> QED
    BY <1>2, <2>1, <2>2 DEF Made
<1>13. CASE ServerIntoBuilder
  <2>1. /\ UNCHANGED <<down, client>>
        /\ builder' = [builder EXCEPT !["server"] = [made |-> TRUE, buffer |-> <<>>, rsv1 |-> setup.serverDeflate /\ server.ext.enabled]]
    BY <1>13 DEF ServerIntoBuilder, Build
  <2>2. builder'["client"] = builder["client"]
    BY <1>1, <2>1
  <2> QED
    BY <1>2, <2>1, <2>2 DEF Made
<1> QED
  BY HandshakeSteps, <1>6, <1>7, <1>8, <1>9, <1>10, <1>11, <1>12, <1>13 DEF HandshakeCases

\* Two buffers with the same pieces.
LEMMA SameSlice ==
  ASSUME NEW x \in Seq(Piece), NEW y \in Seq(Piece), NEW b \in Nat, NEW s \in Nat, IsSlice(x, b, s), IsSlice(y, b, s)
  PROVE  x = y
<1>1. Len(x) = Len(y) /\ \A i \in 1..Len(x) : x[i] = y[i]
  BY DEF IsSlice
<1> QED
  BY <1>1, SeqEqual

\* Whatever follows the response, and however it is cut into reads, the connection of
\* the client starts with exactly the bytes behind the response.
THEOREM NothingLostBehind == HandshakeSpec => []KeepsWhatFollows
<1> DEFINE Inv == BaseInv /\ Keys /\ Accepted /\ UniqueEnds /\ Made
<1>1. HandshakeInit => Inv
  BY BaseInit, KeysInit, AcceptedInit, MadeInit
<1>2. Inv /\ [HandshakeNext]_allVars => Inv'
  BY BaseNext, KeysNext, AcceptedNext, MadeNext
<1>3. ASSUME Inv PROVE KeepsWhatFollows
  <2> SUFFICES ASSUME builder["client"].made PROVE KeepsWhatFollows
    BY DEF KeepsWhatFollows
  <2>1. Known /\ UniqueEnds
    BY <1>3 DEF BaseInv, KnownInv
  <2>2. client.result.kind = "Accepted" /\ builder["client"].buffer = client.buffer
    BY <1>3 DEF Made
  <2> DEFINE i == client.result.answer
             E == {k \in 1..Len(down) : down[k] = <<"end", i>>}
             end == SelectInSeq(down, LAMBDA p : p = <<"end", i>>)
  <2>3. PICK e \in 1..seen : down[e] = <<"end", i>> /\ IsSlice(client.buffer, e, seen)
    BY <1>3, <2>2 DEF Accepted, AcceptedBy
  <2>4. PICK s \in Nat, d \in Nat : s = seen /\ d = Len(down) /\ s <= d
    <3>1. seen \in Nat /\ Len(down) \in Nat /\ seen <= Len(down)
      BY <2>1 DEF Known
    <3> QED
      BY <3>1
  <2>5. e \in Nat /\ e <= s /\ e \in 1..Len(down)
    BY <2>4
  <2>6. end = e
    <3>1. end = IF E # {} THEN Min(E) ELSE 0
      BY DEF SelectInSeq
    <3>2. e \in E /\ E \in SUBSET Nat
      BY <2>3, <2>5
    <3>3. \A k \in E : k = e
      <4> SUFFICES ASSUME NEW k \in E PROVE k = e
        OBVIOUS
      <4>1. k \in 1..Len(down) /\ down[k] = <<"end", i>> /\ down[k][1] = "end"
        OBVIOUS
      <4> QED
        BY <2>1, <2>3, <2>5, <4>1 DEF UniqueEnds
    <3> HIDE DEF E, end
    <3>4. Min(E) \in E
      BY <3>2, MinIs
    <3> QED
      BY <3>1, <3>2, <3>3, <3>4
  <2> DEFINE all == client.buffer \o SubSeq(down, s + 1, s + (d - s))
             rest == <<>> \o SubSeq(down, e + 1, e + (d - e))
  <2>7. all \in Seq(Piece) /\ IsSlice(all, e, s + (d - s))
    <3>1. client.buffer \in Seq(Piece)
      BY <2>1 DEF Known, Clients
    <3>2. d - s \in Nat /\ e <= s /\ s + (d - s) <= Len(down)
      BY <2>4, <2>5
    <3> QED
      BY <2>1, <2>3, <2>4, <2>5, <3>1, <3>2, SliceJoined
  <2>8. rest \in Seq(Piece) /\ IsSlice(rest, e, e + (d - e))
    <3>1. <<>> \in Seq(Piece) /\ e <= e
      BY <2>5
    <3>2. d - e \in Nat /\ e + (d - e) <= Len(down)
      BY <2>4, <2>5
    <3>3. IsSlice(<<>>, e, e)
      BY <2>5 DEF IsSlice
    <3> QED
      BY <2>1, <2>5, <3>1, <3>2, <3>3, SliceJoined
  <2>9. s + (d - s) = d /\ e + (d - e) = d
    BY <2>4, <2>5
  <2>10. rest = SubSeq(down, e + 1, d) /\ all = client.buffer \o SubSeq(down, s + 1, d)
    <3>1. SubSeq(down, e + 1, d) \in Seq(Piece)
      <4>1. \A k \in e + 1..d : down[k] \in Piece
        BY <2>1, <2>4, <2>5 DEF Known
      <4>2. e + 1 \in Int /\ d \in Int
        BY <2>5
      <4> QED
        BY <4>1, <4>2, SubSeqProperties
    <3>2. <<>> \o SubSeq(down, e + 1, d) = SubSeq(down, e + 1, d)
      BY <3>1, ConcatEmptySeq
    <3> QED
      BY <2>9, <3>2
  <2> HIDE DEF all, rest
  <2>11. all = rest
    BY <2>5, <2>7, <2>8, <2>9, SameSlice
  <2>12. client.buffer \o SubSeq(down, seen + 1, Len(down)) = SubSeq(down, end + 1, Len(down))
    BY <2>4, <2>6, <2>10, <2>11
  <2> QED
    BY <2>2, <2>12 DEF KeepsWhatFollows
<1> HIDE DEF Inv
<1> QED
  BY <1>1, <1>2, <1>3, PTL DEF HandshakeSpec

-----------------------------------------------------------------------------
(* What the server makes of a request.                                     *)

\* The server has read something before it decodes it.
Pos == pc \in {"scan", "decode"} => got > 0

\* What receive_request returned is about the current request, which is still in the
\* buffer.
Current ==
  /\ server.result # "none" => stream # <<>>
  /\ ~setup.http /\ server.result \notin {"none", "IncompleteHttpRequest"} =>
       server.result = RequestOutcome(request) /\ server.proposed = Proposed(request)

CurrentInv == Pos /\ Current

LEMMA CurrentInit == HandshakeInit => CurrentInv
  BY DEF HandshakeInit, Init, CurrentInv, Pos, Current, ServerNew

\* The parts of what receive_request returns.
LEMMA DecodedIs ==
  ASSUME Known, NEW outcome, NEW configured, NEW proposed
  PROVE  LET new == Decoded(outcome, configured, proposed) IN
         /\ new.result = outcome /\ new.proposed = proposed
         /\ new.key = IF request.key = <<>> THEN 0 ELSE Head(request.key)
         /\ new.ext = IF configured /\ setup.serverDeflate
                      THEN ConfigureExtensions("Server", server.ext, request.extensions) ELSE server.ext
         /\ new.accepted = server.accepted /\ new.protocol = server.protocol /\ new.refused = server.refused
<1>1. server \in Servers
  BY DEF Known
<1> QED
  BY <1>1 DEF Decoded, Servers, ShortKey

LEMMA CurrentNext == BaseInv /\ CurrentInv /\ [HandshakeNext]_allVars => CurrentInv'
<1> SUFFICES ASSUME BaseInv, CurrentInv, [HandshakeNext]_allVars PROVE CurrentInv'
  OBVIOUS
<1>1. Known /\ Fresh /\ TypeOK /\ server \in Servers /\ Pos /\ Current
  BY DEF BaseInv, KnownInv, Known, ScanInv, CurrentInv
<1>2. stream \in Seq(STRING) /\ got \in 0..Len(stream) /\ Len(stream) \in Nat
  BY <1>1, RequestScanAssumption DEF TypeOK
<1>3. ASSUME UNCHANGED <<setup, request, server>>, Pos', stream' = stream PROVE CurrentInv'
  BY <1>1, <1>3 DEF CurrentInv, Current, Proposed
<1>4. ASSUME setup' = setup, server'.result = "none", Pos' PROVE CurrentInv'
  BY <1>4 DEF CurrentInv, Current
<1>5. UNCHANGED vars => Pos' /\ stream' = stream
  BY <1>1 DEF vars, Pos
<1>6. CASE \/ \E max \in Bits : SetMaxServerWindowBits(max) \/ SetMaxClientWindowBits(max)
           \/ (\E n \in 1..BLOCK_SIZE : ReadResponse(n)) \/ ReadResponseEof \/ ClientIntoBuilder \/ ServerIntoBuilder
           \/ SendData \/ ForeignAnswer \/ ForeignHangUp \/ UNCHANGED allVars
  <2>1. UNCHANGED <<vars, setup, request, server>>
    BY <1>6, Zenon DEF SetMaxServerWindowBits, SetMaxClientWindowBits, ReadResponse, ReadResponseEof, ClientIntoBuilder,
       ServerIntoBuilder, Build, SendData, ForeignAnswer, ForeignHangUp, allVars, handshakeVars
  <2> QED
    BY <1>3, <1>5, <2>1
<1>7. CASE SendRequest \/ ForeignRequest
  <2>1. UNCHANGED <<got, pc, setup, server>> /\ stream = <<>>
    BY <1>1, <1>7 DEF SendRequest, ForeignRequest, Fresh
  <2>2. server'.result = "none" /\ Pos'
    BY <1>1, <2>1 DEF Current, Pos
  <2> QED
    BY <1>4, <2>1, <2>2
<1>8. CASE ReceiveRequest
  <2>1. UNCHANGED <<setup, request, server, stream>>
    BY <1>8 DEF ReceiveRequest, handshakeVars, Read, Scan, ReadEof
  <2>2. CASE Read
    <3>1. PICK k \in 1..BLOCK_SIZE : got' = got + k
      BY <2>2 DEF Read
    <3>2. got + k > 0
      BY <1>2, Sizes
    <3> QED
      BY <1>3, <2>1, <3>1, <3>2 DEF Pos
  <2>3. CASE Scan
    <3>1. got > 0 /\ got' = got
      BY <1>1, <2>3 DEF Scan, Pos
    <3> QED
      BY <1>3, <2>1, <3>1 DEF Pos
  <2>4. CASE ReadEof
    BY <1>3, <2>1, <2>4 DEF ReadEof, Pos
  <2> QED
    BY <1>8, <2>2, <2>3, <2>4 DEF ReceiveRequest
<1>9. CASE Decode
  <2> DEFINE outcome == IF pc' = "Complete" THEN RequestOutcome(request) ELSE "IncompleteHttpRequest"
  <2>1. /\ server' = Decoded(outcome, outcome \in {"Ok", "Utf8"}, Proposed(request))
        /\ UNCHANGED <<setup, request, stream>> /\ pc = "decode" /\ pc' \in {"Complete", "Partial"}
    BY <1>9 DEF Decode, DecodeRequest
  <2>2. stream # <<>>
    BY <1>1, <1>2, <2>1 DEF Pos
  <2>3. outcome \in {RequestOutcome(request), "IncompleteHttpRequest"}
    OBVIOUS
  <2> HIDE DEF outcome
  <2>4. server'.result = outcome /\ server'.proposed = Proposed(request)
    BY <1>1, <2>1, DecodedIs
  <2>5. RequestOutcome(request)' = RequestOutcome(request) /\ Proposed(request)' = Proposed(request)
    BY <2>1 DEF RequestOutcome, Proposed
  <2> QED
    BY <2>1, <2>2, <2>3, <2>4, <2>5 DEF CurrentInv, Current, Pos
<1>10. CASE HttpReceiveRequest
  <2>1. /\ setup.http = TRUE /\ UNCHANGED <<setup, stream>> /\ HasTail(0, Len(stream)) /\ pc' = "Complete"
    BY <1>10 DEF HttpReceiveRequest, Serving
  <2>2. stream # <<>>
    BY <1>2, <2>1 DEF HasTail
  <2> QED
    BY <2>1, <2>2 DEF CurrentInv, Current, Pos
<1>11. ASSUME NEW protocol, Accept(protocol) PROVE CurrentInv'
  <2>1. setup' = setup /\ server'.result = "none" /\ UNCHANGED vars
    BY <1>1, <1>11 DEF Accept, Servers
  <2> QED
    BY <1>4, <1>5, <2>1
<1>12. ASSUME NEW code, NEW drop, Reject(code, drop) PROVE CurrentInv'
  <2>1. setup' = setup /\ server'.result = "none" /\ pc' = "read"
    BY <1>1, <1>12 DEF Reject, Servers
  <2> QED
    BY <1>4, <2>1 DEF Pos
<1>13. CASE HangUp
  <2>1. setup' = setup /\ server'.result = "none" /\ UNCHANGED vars
    BY <1>1, <1>13 DEF HangUp, Servers
  <2> QED
    BY <1>4, <1>5, <2>1
<1> QED
  BY HandshakeSteps, <1>6, <1>7, <1>8, <1>9, <1>10, <1>11, <1>12, <1>13 DEF HandshakeCases

\* One header with the right part is enough, whatever other headers there are.
LEMMA OneHeaderMatches ==
  ASSUME NEW values \in Headers, NEW ours, NEW v \in ToSet(values), ours \in v, NotUtf8 \notin v
  PROVE  ExpectAsciiHeader(values, ours)
<1> DEFINE f == HeaderStates(values, ours)
           n == Len(values)
<1>1. /\ f[0] = "Init"
      /\ \A i \in 1..n : f[i] = IF f[i - 1] = "Match" THEN "Match" ELSE IF NotUtf8 \in values[i] THEN "Err"
                                ELSE IF ours \in values[i] THEN "Match" ELSE "Name"
  BY HeaderStatesAre
<1>2. n \in Nat
  BY DEF Headers
<1>3. PICK j \in 1..n : values[j] = v
  BY DEF ToSet
<1> HIDE DEF f, n
<1> DEFINE S == {i \in 0..n : i >= j => f[i] = "Match"}
<1>4. 0 \in S
  BY <1>2, <1>3
<1>5. ASSUME NEW i \in 1..n, i - 1 \in S PROVE i \in S
  <2>1. CASE i < j
    BY <1>2, <1>3, <2>1
  <2>2. CASE i = j
    BY <1>1, <1>2, <1>3, <2>2
  <2>3. CASE i > j
    <3>1. i - 1 >= j
      BY <1>2, <1>3, <2>3
    <3>2. f[i - 1] = "Match"
      BY <1>5, <3>1
    <3> QED
      BY <1>1, <1>2, <3>2
  <2> QED
    BY <1>2, <1>3, <2>1, <2>2, <2>3
<1>6. \A i \in 0..n : i \in S
  <2> HIDE DEF S
  <2> QED
    BY <1>2, <1>4, <1>5, InductionTo
<1>7. f[n] = "Match"
  BY <1>2, <1>3, <1>6
<1> QED
  BY <1>7 DEF ExpectAsciiHeader, f, n

\* A valid opening handshake is decoded, whatever else its headers hold.
THEOREM ValidRequestDecoded == HandshakeSpec => []ValidAccepted
<1> DEFINE Inv == BaseInv /\ CurrentInv
<1>1. HandshakeInit => Inv
  BY BaseInit, CurrentInit
<1>2. Inv /\ [HandshakeNext]_allVars => Inv'
  BY BaseNext, CurrentNext
<1>3. ASSUME Inv PROVE ValidAccepted
  <2> SUFFICES ASSUME ~setup.http, server.result \notin {"none", "Ok", "Utf8", "IncompleteHttpRequest"},
                      request.parses, request.method = "GET", request.version = 1, request.host,
                      \E v \in ToSet(request.upgrade) : "websocket" \in v /\ NotUtf8 \notin v,
                      \E v \in ToSet(request.connection) : "upgrade" \in v /\ NotUtf8 \notin v,
                      \E v \in ToSet(request.wsversion) : "13" \in v /\ NotUtf8 \notin v,
                      request.key # <<>>, Head(request.key) # ShortKey
               PROVE  FALSE
    BY DEF ValidAccepted
  <2>1. request \in AnyRequest
    BY <1>3 DEF BaseInv, KnownInv, Known
  <2>2. request.upgrade \in Headers /\ request.connection \in Headers /\ request.wsversion \in Headers
    BY <2>1 DEF AnyRequest
  <2>3. /\ ExpectAsciiHeader(request.upgrade, "websocket") /\ ExpectAsciiHeader(request.connection, "upgrade")
        /\ ExpectAsciiHeader(request.wsversion, "13")
    BY <2>2, OneHeaderMatches
  <2>4. RequestOutcome(request) \in {"Ok", "Utf8"}
    BY <2>3 DEF RequestOutcome, Check, Is24
  <2>5. server.result = RequestOutcome(request)
    BY <1>3 DEF CurrentInv, Current
  <2> QED
    BY <2>4, <2>5
<1> HIDE DEF Inv
<1> QED
  BY <1>1, <1>2, <1>3, PTL DEF HandshakeSpec

\* A client that sends one protocol in each header.
OneEach(r) == \A i \in 1..Len(r.protocol) : Len(r.protocol[i]) <= 1

SingleProtocols ==
  \A s \in Setups : /\ Len(s.clientProtocols) <= 1
                    /\ s.foreign = "client" => \A r \in ForeignRequests[s.peer] : OneEach(r)

\* What is in either of two sequences is in both together.
LEMMA InJoined ==
  ASSUME NEW S, NEW x \in Seq(S), NEW y \in Seq(S), NEW p, p \in ToSet(x) \/ p \in ToSet(y)
  PROVE  p \in ToSet(x \o y)
<1>1. /\ Len(x) \in Nat /\ Len(y) \in Nat /\ Len(x \o y) = Len(x) + Len(y)
      /\ \A k \in 1..Len(x) : (x \o y)[k] = x[k]
      /\ \A k \in 1..Len(y) : (x \o y)[Len(x) + k] = y[k]
  BY Joined
<1>2. ASSUME NEW k \in 1..Len(x \o y), p = (x \o y)[k] PROVE p \in ToSet(x \o y)
  BY <1>2 DEF ToSet
<1>3. CASE p \in ToSet(x)
  <2>1. PICK k \in 1..Len(x) : p = x[k]
    BY <1>3 DEF ToSet
  <2>2. k \in 1..Len(x \o y)
    BY <1>1
  <2> QED
    BY <1>1, <1>2, <2>1, <2>2
<1>4. CASE p \in ToSet(y)
  <2>1. PICK k \in 1..Len(y) : p = y[k]
    BY <1>4 DEF ToSet
  <2>2. Len(x) + k \in 1..Len(x \o y)
    BY <1>1
  <2> QED
    BY <1>1, <1>2, <2>1, <2>2
<1> QED
  BY <1>3, <1>4

\* The elements of a sequence.
LEMMA ElementIs ==
  ASSUME NEW S, NEW x \in Seq(S), NEW p \in ToSet(x)
  PROVE  p \in S /\ \E i \in 1..Len(x) : x[i] = p
<1>1. PICK i \in 1..Len(x) : x[i] = p
  BY DEF ToSet
<1> QED
  BY <1>1

\* A sequence with one element.
LEMMA IsSingle ==
  ASSUME NEW S, NEW x \in Seq(S), Len(x) <= 1, NEW p \in ToSet(x)
  PROVE  x = <<p>>
<1>1. PICK k \in 1..Len(x) : x[k] = p
  BY DEF ToSet
<1>2. PICK l \in Nat : l = Len(x)
  OBVIOUS
<1>3. l = 1 /\ k = 1
  <2>1. l <= 1 /\ k \in 1..l
    BY <1>2
  <2> QED
    BY <2>1
<1>4. Len(x) = 1 /\ x[1] = p
  BY <1>1, <1>2, <1>3
<1> QED
  BY <1>4

\* What has been found stays found.
LEMMA StaysFound ==
  ASSUME NEW S, NEW n \in Nat, NEW f \in [0..n -> Seq(S)], NEW values \in [1..n -> Seq(S)], NEW j \in 1..n, NEW p,
         p \in ToSet(values[j]), f[j] = f[j - 1] \o values[j], \A i \in 1..n : f[i] \in {f[i - 1] \o values[i], f[i - 1]}
  PROVE  p \in ToSet(f[n])
<1> DEFINE G == {i \in 0..n : i >= j => p \in ToSet(f[i])}
<1>1. 0 \in G
  OBVIOUS
<1>2. ASSUME NEW i \in 1..n, i - 1 \in G PROVE i \in G
  <2>1. f[i - 1] \in Seq(S) /\ values[i] \in Seq(S)
    OBVIOUS
  <2>2. ASSUME p \in ToSet(f[i - 1]) \/ p \in ToSet(values[i]) PROVE p \in ToSet(f[i - 1] \o values[i])
    BY <2>1, <2>2, InJoined
  <2>3. CASE i < j
    BY <2>3
  <2>4. CASE i = j
    <3>1. p \in ToSet(f[i])
      BY <2>2, <2>4, Zenon
    <3> QED
      BY <3>1
  <2>5. CASE i > j
    <3>1. p \in ToSet(f[i - 1])
      BY <1>2, <2>5
    <3>2. p \in ToSet(f[i])
      BY <2>2, <3>1, Zenon
    <3> QED
      BY <3>2
  <2> QED
    BY <2>3, <2>4, <2>5
<1>3. \A i \in 0..n : i \in G
  <2> HIDE DEF G
  <2> QED
    BY <1>1, <1>2, InductionTo
<1> QED
  BY <1>3

\* The server finds each protocol that it supports and that has a header of its own.
LEMMA FoundAll ==
  ASSUME NEW T, T = Seq(STRING), NEW values \in Seq(T), NEW supported, NEW j \in 1..Len(values), NEW p \in supported,
         p \in ToSet(values[j]), Len(values[j]) <= 1
  PROVE  p \in ToSet(Found(values, supported)[Len(values)])
<1> DEFINE f == Found(values, supported)
<1>1. /\ f \in [0..Len(values) -> T]
      /\ \A i \in 1..Len(values) : f[i] = IF \E q \in supported : values[i] = <<q>> THEN f[i - 1] \o values[i] ELSE f[i - 1]
  <2>1. values \in Seq(Seq(STRING))
    BY Zenon
  <2> QED
    BY <2>1, FoundIs, Zenon
<1> HIDE DEF f
<1>2. PICK n \in Nat : n = Len(values)
  OBVIOUS
<1>3. values \in [1..n -> T] /\ j \in 1..n
  BY <1>2
<1>4. values[j] = <<p>>
  <2>1. values[j] \in Seq(STRING)
    BY <1>3, Zenon
  <2> QED
    BY <2>1, IsSingle
<1>5. f[j] = f[j - 1] \o values[j]
  BY <1>1, <1>4, Zenon
<1>6. \A i \in 1..n : f[i] \in {f[i - 1] \o values[i], f[i - 1]}
  BY <1>1, <1>2, Zenon
<1>7. f \in [0..n -> Seq(STRING)] /\ values \in [1..n -> Seq(STRING)]
  BY <1>1, <1>2, <1>3, Zenon
<1>8. p \in ToSet(f[n])
  BY <1>3, <1>5, <1>6, <1>7, StaysFound
<1> QED
  BY <1>2, <1>8, Zenon DEF f

\* Every request keeps to that.
LEMMA OneEachNext ==
  ASSUME SingleProtocols
  PROVE  Known /\ OneEach(request) /\ [HandshakeNext]_allVars => OneEach(request)'
<1> SUFFICES ASSUME Known, OneEach(request), [HandshakeNext]_allVars PROVE OneEach(request)'
  OBVIOUS
<1>1. ASSUME request' = request PROVE OneEach(request)'
  BY <1>1 DEF OneEach
<1>2. CASE SendRequest
  <2>1. request'.protocol = IF setup.clientProtocols = <<>> THEN <<>> ELSE <<setup.clientProtocols>>
    BY <1>2 DEF SendRequest, EncodeRequest
  <2>2. Len(setup.clientProtocols) <= 1
    BY DEF SingleProtocols, Known
  <2> QED
    BY <2>1, <2>2 DEF OneEach
<1>3. CASE ForeignRequest
  <2>1. OneEach(request')
    BY <1>3 DEF ForeignRequest, SingleProtocols, Known
  <2> QED
    BY <2>1 DEF OneEach
<1>4. CASE \/ \E max \in Bits : SetMaxServerWindowBits(max) \/ SetMaxClientWindowBits(max)
           \/ (\E n \in 1..BLOCK_SIZE : ReadResponse(n)) \/ ReadResponseEof \/ ClientIntoBuilder \/ ServerIntoBuilder
           \/ ReceiveRequest \/ Decode \/ HttpReceiveRequest
           \/ \E protocol \in {<<>>} \union { <<p>> : p \in ToSet(server.proposed) } : Accept(protocol)
           \/ \E code \in Codes \union {200}, drop \in BOOLEAN : Reject(code, drop)
           \/ HangUp \/ SendData \/ ForeignAnswer \/ ForeignHangUp \/ UNCHANGED allVars
  <2>1. request' = request
    BY <1>4, Zenon DEF SetMaxServerWindowBits, SetMaxClientWindowBits, ReadResponse, ReadResponseEof, ClientIntoBuilder,
       ServerIntoBuilder, Build, ReceiveRequest, Decode, HttpReceiveRequest, Accept, Reject, HangUp, SendData, ForeignAnswer,
       ForeignHangUp, allVars, handshakeVars
  <2> QED
    BY <1>1, <2>1
<1> QED
  BY HandshakeSteps, <1>2, <1>3, <1>4 DEF HandshakeCases

\* If clients send one protocol in each header then ClientRequest::protocols has every
\* protocol that the client proposes and the server supports.
THEOREM SingleProtocolsSeen ==
  ASSUME SingleProtocols
  PROVE  HandshakeSpec => []ProtocolsSeen
<1> DEFINE Inv == BaseInv /\ CurrentInv /\ OneEach(request)
<1>1. HandshakeInit => Inv
  <2>1. ASSUME HandshakeInit PROVE OneEach(request)
    <3>1. request.protocol = <<>>
      BY <2>1 DEF HandshakeInit, NoRequest
    <3> QED
      BY <3>1 DEF OneEach
  <2> QED
    BY <2>1, BaseInit, CurrentInit
<1>2. Inv /\ [HandshakeNext]_allVars => Inv'
  <2>1. BaseInv => Known
    BY DEF BaseInv, KnownInv
  <2> QED
    BY <2>1, BaseNext, CurrentNext, OneEachNext
<1>3. ASSUME Inv PROVE ProtocolsSeen
  <2> SUFFICES ASSUME ~setup.http, server.result = "Ok", NEW v \in ToSet(request.protocol), NEW p \in ToSet(v),
                      p \in setup.serverProtocols
               PROVE  p \in ToSet(server.proposed)
    BY DEF ProtocolsSeen
  <2> DEFINE values == request.protocol
  <2>1. Known
    BY <1>3 DEF BaseInv, KnownInv
  <2>2. values \in Seq(Seq(STRING))
    BY <2>1 DEF Known, AnyRequest
  <2>3. PICK j \in 1..Len(values) : values[j] = v
    BY <2>2, ElementIs, Zenon
  <2>4. Len(values[j]) <= 1
    BY <1>3 DEF OneEach
  <2>5. server.proposed = Found(values, setup.serverProtocols)[Len(values)]
    BY <1>3 DEF CurrentInv, Current, Proposed
  <2> HIDE DEF values
  <2>6. p \in ToSet(Found(values, setup.serverProtocols)[Len(values)])
    BY <2>2, <2>3, <2>4, FoundAll
  <2> QED
    BY <2>5, <2>6
<1> HIDE DEF Inv
<1> QED
  BY <1>1, <1>2, <1>3, PTL DEF HandshakeSpec

-----------------------------------------------------------------------------
(* What a client lets the server do.                                       *)

\* A parameter never makes the client let the server use a larger window, use a larger
\* one itself, or send other parameters.
Narrower(d, c) ==
  /\ d.params = c.params /\ d.enabled = c.enabled
  /\ d.their_max_window_bits <= c.their_max_window_bits /\ d.our_max_window_bits <= c.our_max_window_bits

\* A parameter of an answer that a client follows which has asked for the windows T and
\* uses the window ours.
Followed(p, T, ours) ==
  /\ p.name # "unknown"
  /\ p.name = "server_max_window_bits" => p.value > 255 \/ \A v \in T : p.value <= v
  /\ p.name = "client_max_window_bits" => p.value > 255 \/ ours <= AtLeast9(p.value)

LEMMA FollowedBySmaller ==
  ASSUME NEW p \in AnyParam, NEW T, NEW a \in 9..15, NEW b \in 9..15, b <= a, Followed(p, T, a)
  PROVE  Followed(p, T, b)
<1>1. p.value \in Nat
  BY DEF AnyParam
<1>2. a <= AtLeast9(p.value) => b <= AtLeast9(p.value)
  BY <1>1 DEF AtLeast9
<1> QED
  BY <1>2 DEF Followed

\* Windows that are asked for.
Bounds(T, t) == T \subseteq Nat /\ \A v \in T : t <= v

LEMMA SetTheirsNarrows ==
  ASSUME NEW c \in Configs, NEW p \in AnyParam
  PROVE  LET d == SetTheirs(c, p, c.ext.their_max_window_bits) IN
         /\ Narrower(d.ext, c.ext) /\ d.noTakeover = c.noTakeover
         /\ ~d.stop => ~c.stop /\ (p.value > 255 \/ p.value <= c.ext.their_max_window_bits)
<1>1. c.ext \in Exts /\ p.value \in Nat
  BY DEF Configs, AnyParam
<1>2. PICK t \in 9..15 : t = c.ext.their_max_window_bits
  BY <1>1 DEF Exts
<1>3. Narrower(c.ext, c.ext)
  BY <1>1 DEF Narrower, Exts
<1>4. Stopped(c).ext = c.ext /\ Stopped(c).noTakeover = c.noTakeover /\ Stopped(c).stop
  BY DEF Stopped, Configs
<1>5. ASSUME ~(p.value < 8), ~(p.value > 15), ~(p.value > t)
      PROVE  LET d == [c EXCEPT !.ext.their_max_window_bits = AtLeast9(p.value)] IN
             Narrower(d.ext, c.ext) /\ d.noTakeover = c.noTakeover /\ d.stop = c.stop
  <2>1. AtLeast9(p.value) <= t
    BY <1>1, <1>5 DEF AtLeast9
  <2> DEFINE d == [c EXCEPT !.ext.their_max_window_bits = AtLeast9(p.value)]
  <2>2. /\ d.ext.their_max_window_bits = AtLeast9(p.value) /\ d.ext.params = c.ext.params /\ d.ext.enabled = c.ext.enabled
        /\ d.ext.our_max_window_bits = c.ext.our_max_window_bits /\ d.noTakeover = c.noTakeover /\ d.stop = c.stop
    BY <1>1 DEF Configs, Exts
  <2> HIDE DEF d
  <2>3. /\ d.ext.their_max_window_bits <= c.ext.their_max_window_bits
        /\ d.ext.our_max_window_bits <= c.ext.our_max_window_bits
    BY <1>1, <1>2, <2>1, <2>2 DEF Exts
  <2>4. Narrower(d.ext, c.ext) /\ d.noTakeover = c.noTakeover /\ d.stop = c.stop
    BY <2>2, <2>3 DEF Narrower
  <2> QED
    BY <2>4 DEF d
<1> DEFINE d == SetTheirs(c, p, c.ext.their_max_window_bits)
<1>6. CASE p.value > 255
  <2>1. d = c
    BY <1>6 DEF SetTheirs
  <2> QED
    BY <1>3, <1>6, <2>1
<1>7. CASE ~(p.value > 255) /\ (p.value < 8 \/ p.value > 15 \/ p.value > t)
  <2>1. d = Stopped(c)
    BY <1>2, <1>7, Zenon DEF SetTheirs
  <2> QED
    BY <1>3, <1>4, <2>1, Zenon
<1>8. CASE ~(p.value > 255) /\ ~(p.value < 8 \/ p.value > 15 \/ p.value > t)
  <2>1. d = [c EXCEPT !.ext.their_max_window_bits = AtLeast9(p.value)]
    BY <1>2, <1>8, Zenon DEF SetTheirs
  <2>2. p.value <= c.ext.their_max_window_bits
    BY <1>1, <1>2, <1>8
  <2> QED
    BY <1>5, <1>8, <2>1, <2>2, Zenon
<1> QED
  BY <1>6, <1>7, <1>8

LEMMA ClientParamNarrows ==
  ASSUME NEW c \in Configs, NEW p \in AnyParam, NEW T, Bounds(T, c.ext.their_max_window_bits)
  PROVE  LET d == ClientParam(c, p) IN
         /\ Narrower(d.ext, c.ext) /\ (d.noTakeover => c.noTakeover \/ p.name = "server_no_context_takeover")
         /\ ~d.stop => ~c.stop /\ Followed(p, T, d.ext.our_max_window_bits)
<1>1. /\ c.ext \in Exts /\ p.value \in Nat
      /\ p.name \in {"server_no_context_takeover", "client_no_context_takeover", "server_max_window_bits",
                     "client_max_window_bits", "unknown"}
  BY DEF Configs, AnyParam
<1>2. c.ext.their_max_window_bits \in 9..15 /\ c.ext.our_max_window_bits \in 9..15
  BY <1>1 DEF Exts
<1>3. Narrower(c.ext, c.ext)
  BY <1>2 DEF Narrower
<1>4. Stopped(c).ext = c.ext /\ Stopped(c).noTakeover = c.noTakeover /\ Stopped(c).stop
  BY DEF Stopped, Configs
<1> DEFINE d == ClientParam(c, p)
           s == SetTheirs(c, p, c.ext.their_max_window_bits)
           x == [c EXCEPT !.noTakeover = TRUE]
           y == [c EXCEPT !.ext.our_max_window_bits = Smaller(@, AtLeast9(p.value))]
<1>5. CASE c.stop
  <2>1. d = c
    BY <1>5 DEF ClientParam
  <2> QED
    BY <1>3, <1>5, <2>1, Zenon
<1>6. CASE ~c.stop /\ p.name = "server_no_context_takeover"
  <2>1. d = x
    BY <1>6 DEF ClientParam
  <2>2. x.ext = c.ext
    BY DEF Configs
  <2>3. Followed(p, T, d.ext.our_max_window_bits)
    BY <1>6 DEF Followed
  <2> HIDE DEF d, x
  <2>4. Narrower(d.ext, c.ext)
    BY <1>3, <2>1, <2>2
  <2> QED
    BY <1>6, <2>3, <2>4 DEF d
<1>7. CASE ~c.stop /\ p.name = "client_no_context_takeover"
  <2>1. d = c
    BY <1>7 DEF ClientParam
  <2>2. Followed(p, T, d.ext.our_max_window_bits)
    BY <1>7 DEF Followed
  <2> QED
    BY <1>3, <1>7, <2>1, <2>2, Zenon
<1>8. CASE ~c.stop /\ p.name = "server_max_window_bits"
  <2>1. d = s
    BY <1>8 DEF ClientParam
  <2>2. /\ Narrower(s.ext, c.ext) /\ s.noTakeover = c.noTakeover
        /\ ~s.stop => p.value > 255 \/ p.value <= c.ext.their_max_window_bits
    BY SetTheirsNarrows
  <2>3. p.value <= c.ext.their_max_window_bits => \A v \in T : p.value <= v
    <3> SUFFICES ASSUME p.value <= c.ext.their_max_window_bits, NEW v \in T PROVE p.value <= v
      OBVIOUS
    <3>1. v \in Nat /\ c.ext.their_max_window_bits <= v
      BY DEF Bounds
    <3> QED
      BY <1>1, <1>2, <3>1
  <2> HIDE DEF s
  <2>4. ~s.stop => Followed(p, T, s.ext.our_max_window_bits)
    BY <1>8, <2>2, <2>3 DEF Followed
  <2> QED
    BY <1>8, <2>1, <2>2, <2>4, Zenon
<1>9. CASE ~c.stop /\ p.name = "client_max_window_bits"
  <2>1. d = IF p.value > 255 THEN c ELSE IF p.value \in 8..15 THEN y ELSE Stopped(c)
    BY <1>9 DEF ClientParam
  <2>2. /\ y.ext.params = c.ext.params /\ y.ext.enabled = c.ext.enabled /\ y.noTakeover = c.noTakeover /\ y.stop = c.stop
        /\ y.ext.their_max_window_bits = c.ext.their_max_window_bits
        /\ y.ext.our_max_window_bits = Smaller(c.ext.our_max_window_bits, AtLeast9(p.value))
    BY <1>1 DEF Configs, Exts
  <2>3. /\ Smaller(c.ext.our_max_window_bits, AtLeast9(p.value)) <= c.ext.our_max_window_bits
        /\ Smaller(c.ext.our_max_window_bits, AtLeast9(p.value)) <= AtLeast9(p.value)
    BY <1>1, <1>2 DEF Smaller, AtLeast9
  <2> HIDE DEF d, y
  <2>4. Narrower(y.ext, c.ext)
    BY <1>2, <2>2, <2>3 DEF Narrower
  <2>5. Followed(p, T, y.ext.our_max_window_bits)
    BY <1>9, <2>2, <2>3 DEF Followed
  <2>6. CASE p.value > 255
    <3>1. Followed(p, T, c.ext.our_max_window_bits)
      BY <1>9, <2>6 DEF Followed
    <3> QED
      BY <1>3, <1>9, <2>1, <2>6, <3>1 DEF d
  <2>7. CASE ~(p.value > 255) /\ p.value \in 8..15
    <3>1. d = y
      BY <2>1, <2>7
    <3> QED
      BY <1>9, <2>2, <2>4, <2>5, <3>1 DEF d
  <2>8. CASE ~(p.value > 255) /\ p.value \notin 8..15
    <3>1. d = Stopped(c)
      BY <2>1, <2>8
    <3> QED
      BY <1>3, <1>4, <3>1 DEF d
  <2> QED
    BY <2>6, <2>7, <2>8
<1>10. CASE ~c.stop /\ p.name = "unknown"
  <2>1. d = Stopped(c)
    BY <1>10 DEF ClientParam
  <2> QED
    BY <1>3, <1>4, <2>1, Zenon
<1> QED
  BY <1>1, <1>5, <1>6, <1>7, <1>8, <1>9, <1>10

LEMMA BoundsSmaller ==
  ASSUME NEW T, NEW a \in 9..15, NEW b \in 9..15, b <= a, Bounds(T, a)
  PROVE  Bounds(T, b)
<1> SUFFICES ASSUME NEW v \in T PROVE b <= v
  BY DEF Bounds
<1>1. v \in Nat /\ a <= v
  BY DEF Bounds
<1> QED
  BY <1>1

\* All parameters of an answer.
FollowedAll(params, T, ours) ==
  /\ \E p \in ToSet(params) : p.name = "server_no_context_takeover"
  /\ \A p \in ToSet(params) : Followed(p, T, ours)

LEMMA ClientConfigureNarrows ==
  ASSUME NEW ext \in Exts, NEW params \in Seq(AnyParam), NEW T, Bounds(T, ext.their_max_window_bits)
  PROVE  LET d == Configure("Client", ext, params) IN
         /\ d.params = ext.params /\ d.their_max_window_bits <= ext.their_max_window_bits
         /\ d.our_max_window_bits <= ext.our_max_window_bits
         /\ d.enabled => ext.enabled \/ FollowedAll(params, T, d.our_max_window_bits)
<1> DEFINE f == Rounds("Client", ext, params)
           n == Len(params)
           Seen(i) == \E k \in 1..n : k <= i /\ params[k].name = "server_no_context_takeover"
           Heeded(i) == \A k \in 1..n : k <= i => Followed(params[k], T, f[i].ext.our_max_window_bits)
           S == {i \in 0..n : Narrower(f[i].ext, ext) /\ (f[i].noTakeover => Seen(i)) /\ (~f[i].stop => Heeded(i))}
<1>1. /\ f \in [0..n -> Configs] /\ f[0] = Start(ext)
      /\ \A i \in 1..n : f[i] = ClientParam(f[i - 1], params[i])
  BY RoundsAre
<1>2. n \in Nat /\ \A i \in 1..n : params[i] \in AnyParam
  OBVIOUS
<1> HIDE DEF f, n
<1>3. ext.their_max_window_bits \in 9..15 /\ ext.our_max_window_bits \in 9..15
  BY DEF Exts
<1>4. 0 \in S
  <2>1. f[0].ext = ext /\ f[0].noTakeover = FALSE
    BY <1>1 DEF Start
  <2>2. Narrower(ext, ext)
    BY <1>3 DEF Narrower
  <2>3. Heeded(0)
    BY <1>2
  <2> HIDE DEF Heeded
  <2> QED
    BY <1>2, <2>1, <2>2, <2>3
<1>5. ASSUME NEW i \in 1..n, i - 1 \in S PROVE i \in S
  <2>1. i - 1 \in 0..n /\ i \in 0..n
    BY <1>2
  <2>2. f[i - 1] \in Configs /\ f[i] = ClientParam(f[i - 1], params[i]) /\ params[i] \in AnyParam /\ f[i] \in Configs
    BY <1>1, <1>2, <2>1
  <2>3. Narrower(f[i - 1].ext, ext) /\ (f[i - 1].noTakeover => Seen(i - 1)) /\ (~f[i - 1].stop => Heeded(i - 1))
    BY <1>5
  <2> HIDE DEF Heeded, Seen
  <2>4. /\ f[i].ext.their_max_window_bits \in 9..15 /\ f[i - 1].ext.their_max_window_bits \in 9..15
        /\ f[i].ext.our_max_window_bits \in 9..15 /\ f[i - 1].ext.our_max_window_bits \in 9..15
    BY <2>2 DEF Configs, Exts
  <2>5. Bounds(T, f[i - 1].ext.their_max_window_bits)
    <3>1. f[i - 1].ext.their_max_window_bits <= ext.their_max_window_bits
      BY <2>3 DEF Narrower
    <3> QED
      BY <1>3, <2>4, <3>1, BoundsSmaller
  <2>6. /\ Narrower(f[i].ext, f[i - 1].ext)
        /\ f[i].noTakeover => f[i - 1].noTakeover \/ params[i].name = "server_no_context_takeover"
        /\ ~f[i].stop => ~f[i - 1].stop /\ Followed(params[i], T, f[i].ext.our_max_window_bits)
    <3>1. PICK c \in Configs, p \in AnyParam : c = f[i - 1] /\ p = params[i]
      BY <2>2
    <3>2. Bounds(T, c.ext.their_max_window_bits) /\ f[i] = ClientParam(c, p)
      BY <2>2, <2>5, <3>1
    <3> DEFINE d == ClientParam(c, p)
    <3>3. /\ Narrower(d.ext, c.ext) /\ (d.noTakeover => c.noTakeover \/ p.name = "server_no_context_takeover")
          /\ ~d.stop => ~c.stop /\ Followed(p, T, d.ext.our_max_window_bits)
      BY <3>2, ClientParamNarrows, Zenon
    <3> QED
      BY <3>1, <3>2, <3>3, Zenon
  <2>7. Narrower(f[i].ext, ext)
    <3>1. /\ f[i].ext.their_max_window_bits <= f[i - 1].ext.their_max_window_bits
          /\ f[i - 1].ext.their_max_window_bits <= ext.their_max_window_bits
          /\ f[i].ext.our_max_window_bits <= f[i - 1].ext.our_max_window_bits
          /\ f[i - 1].ext.our_max_window_bits <= ext.our_max_window_bits
      BY <2>3, <2>6 DEF Narrower
    <3>2. \A u, v, w \in 9..15 : u <= v /\ v <= w => u <= w
      OBVIOUS
    <3>3. /\ f[i].ext.their_max_window_bits <= ext.their_max_window_bits
          /\ f[i].ext.our_max_window_bits <= ext.our_max_window_bits
      BY <1>3, <2>4, <3>1, <3>2
    <3> QED
      BY <2>3, <2>6, <3>3 DEF Narrower
  <2>8. f[i].noTakeover => Seen(i)
    <3>1. Seen(i - 1) => Seen(i)
      BY <1>2 DEF Seen
    <3>2. params[i].name = "server_no_context_takeover" => Seen(i)
      BY <1>2 DEF Seen
    <3> QED
      BY <2>3, <2>6, <3>1, <3>2
  <2>9. ASSUME ~f[i].stop PROVE Heeded(i)
    <3>1. Heeded(i - 1) /\ Followed(params[i], T, f[i].ext.our_max_window_bits)
      BY <2>3, <2>6, <2>9
    <3>2. ASSUME NEW k \in 1..n, k <= i PROVE Followed(params[k], T, f[i].ext.our_max_window_bits)
      <4>1. CASE k = i
        BY <3>1, <4>1
      <4>2. CASE k # i
        <5>1. k <= i - 1
          BY <1>2, <3>2, <4>2
        <5>2. Followed(params[k], T, f[i - 1].ext.our_max_window_bits)
          BY <3>1, <5>1 DEF Heeded
        <5>3. f[i].ext.our_max_window_bits <= f[i - 1].ext.our_max_window_bits
          BY <2>6 DEF Narrower
        <5> QED
          BY <1>2, <2>4, <5>2, <5>3, FollowedBySmaller
      <4> QED
        BY <4>1, <4>2
    <3> QED
      BY <3>2 DEF Heeded
  <2> QED
    BY <2>1, <2>7, <2>8, <2>9
<1>6. \A i \in 0..n : i \in S
  <2> HIDE DEF S
  <2> QED
    BY <1>2, <1>4, <1>5, InductionTo
<1>7. n \in 0..n
  BY <1>2
<1> DEFINE c == f[n]
<1>8. Configure("Client", ext, params) = [c.ext EXCEPT !.enabled = @ \/ (~c.stop /\ c.noTakeover)]
  BY DEF Configure, ClientConfigure, f, n
<1>9. c \in Configs /\ Narrower(c.ext, ext) /\ (c.noTakeover => Seen(n)) /\ (~c.stop => Heeded(n))
  BY <1>1, <1>6, <1>7
<1>10. Seen(n) => \E p \in ToSet(params) : p.name = "server_no_context_takeover"
  <2> SUFFICES ASSUME NEW k \in 1..n, params[k].name = "server_no_context_takeover"
               PROVE  \E p \in ToSet(params) : p.name = "server_no_context_takeover"
    OBVIOUS
  <2>1. params[k] \in ToSet(params)
    BY DEF ToSet, n
  <2> QED
    BY <2>1
<1>11. Heeded(n) => \A p \in ToSet(params) : Followed(p, T, c.ext.our_max_window_bits)
  <2> SUFFICES ASSUME Heeded(n), NEW p \in ToSet(params) PROVE Followed(p, T, c.ext.our_max_window_bits)
    OBVIOUS
  <2>1. PICK k \in 1..n : params[k] = p
    BY ElementIs DEF n
  <2> QED
    BY <1>2, <2>1
<1> DEFINE d == Configure("Client", ext, params)
<1> HIDE DEF c, Seen, Heeded
<1>12. /\ d.params = c.ext.params /\ d.their_max_window_bits = c.ext.their_max_window_bits
       /\ d.our_max_window_bits = c.ext.our_max_window_bits
       /\ d.enabled = (c.ext.enabled \/ (~c.stop /\ c.noTakeover))
  BY <1>8, <1>9 DEF Configs, Exts
<1> HIDE DEF d
<1>13. /\ d.params = ext.params /\ d.their_max_window_bits <= ext.their_max_window_bits
       /\ d.our_max_window_bits <= ext.our_max_window_bits
  BY <1>9, <1>12 DEF Narrower
<1>14. d.enabled => ext.enabled \/ FollowedAll(params, T, d.our_max_window_bits)
  BY <1>9, <1>10, <1>11, <1>12 DEF Narrower, FollowedAll
<1> QED
  BY <1>13, <1>14 DEF d

\* An answer that confirms server_no_context_takeover, with parameters that are followed.
Confirms(entries, T, ours) == \E e \in ToSet(entries) : FollowedAll(e.params, T, ours)

LEMMA ConfirmsSmaller ==
  ASSUME NEW entries \in Seq(AnyEntry), NEW T, NEW a \in 9..15, NEW b \in 9..15, b <= a, Confirms(entries, T, a)
  PROVE  Confirms(entries, T, b)
<1>1. PICK e \in ToSet(entries) : FollowedAll(e.params, T, a)
  BY DEF Confirms
<1>2. e.params \in Seq(AnyParam)
  <2>1. e \in AnyEntry
    BY ElementIs
  <2> QED
    BY <2>1 DEF AnyEntry
<1>3. ASSUME NEW p \in ToSet(e.params) PROVE Followed(p, T, b)
  <2>1. p \in AnyParam
    BY <1>2, ElementIs
  <2>2. Followed(p, T, a)
    BY <1>1 DEF FollowedAll
  <2> QED
    BY <2>1, <2>2, FollowedBySmaller
<1>4. FollowedAll(e.params, T, b)
  BY <1>1, <1>3 DEF FollowedAll
<1> QED
  BY <1>4 DEF Confirms

\* All extensions of an answer.
LEMMA ClientEachIs ==
  ASSUME NEW ext \in Exts, NEW entries \in Seq(AnyEntry)
  PROVE  LET f == ConfigureEach("Client", ext, entries) IN
         /\ f \in [0..Len(entries) -> Exts] /\ f[0] = ext
         /\ \A i \in 1..Len(entries) : f[i] \in {f[i - 1], Configure("Client", f[i - 1], entries[i].params)}
<1> DEFINE f == ConfigureEach("Client", ext, entries)
<1>1. /\ f \in [0..Len(entries) -> Exts] /\ f[0] = ext
      /\ \A i \in 1..Len(entries) : f[i] = IF IsConfigured(entries, i) THEN Configure("Client", f[i - 1], entries[i].params) ELSE f[i - 1]
  BY ConfigureEachIs
<1> HIDE DEF f
<1>2. \A i \in 1..Len(entries) : f[i] \in {f[i - 1], Configure("Client", f[i - 1], entries[i].params)}
  BY <1>1, Zenon
<1> QED
  BY <1>1, <1>2 DEF f

LEMMA ClientExtensionsNarrow ==
  ASSUME NEW ext \in Exts, NEW entries \in Seq(AnyEntry), NEW T, Bounds(T, ext.their_max_window_bits)
  PROVE  LET d == ConfigureExtensions("Client", ext, entries) IN
         /\ d.params = ext.params /\ d.their_max_window_bits <= ext.their_max_window_bits
         /\ d.enabled => ext.enabled \/ Confirms(entries, T, d.our_max_window_bits)
<1> DEFINE f == ConfigureEach("Client", ext, entries)
           n == Len(entries)
           Good(d) == /\ d.params = ext.params /\ d.their_max_window_bits <= ext.their_max_window_bits
                      /\ d.enabled => ext.enabled \/ Confirms(entries, T, d.our_max_window_bits)
           S == {i \in 0..n : Good(f[i])}
<1>1. /\ f \in [0..n -> Exts] /\ f[0] = ext
      /\ \A i \in 1..n : f[i] \in {f[i - 1], Configure("Client", f[i - 1], entries[i].params)}
  BY ClientEachIs, Zenon
<1>2. n \in Nat
  OBVIOUS
<1> HIDE DEF f
<1>3. ext.their_max_window_bits \in 9..15
  BY DEF Exts
<1>4. 0 \in S
  <2>1. Good(ext)
    BY <1>3
  <2> HIDE DEF Good
  <2> QED
    BY <1>1, <1>2, <2>1
<1>5. ASSUME NEW i \in 1..n, i - 1 \in S PROVE i \in S
  <2>1. i - 1 \in 0..n /\ i \in 0..n
    BY <1>2
  <2>2. f[i - 1] \in Exts /\ f[i] \in Exts /\ Good(f[i - 1])
    BY <1>1, <1>5, <2>1
  <2> DEFINE e == entries[i]
             d == Configure("Client", f[i - 1], e.params)
  <2>3. e \in ToSet(entries) /\ e.params \in Seq(AnyParam)
    <3>1. e \in AnyEntry /\ i \in DOMAIN entries
      OBVIOUS
    <3>2. e.params \in Seq(AnyParam)
      BY <3>1 DEF AnyEntry
    <3> QED
      BY <3>1, <3>2, Zenon DEF ToSet
  <2>4. /\ f[i - 1].their_max_window_bits \in 9..15 /\ f[i - 1].our_max_window_bits \in 9..15
        /\ Bounds(T, f[i - 1].their_max_window_bits)
    <3>1. f[i - 1].their_max_window_bits \in 9..15 /\ f[i - 1].our_max_window_bits \in 9..15
      BY <2>2 DEF Exts
    <3> QED
      BY <1>3, <2>2, <3>1, BoundsSmaller
  <2>5. /\ d.params = f[i - 1].params /\ d.their_max_window_bits <= f[i - 1].their_max_window_bits
        /\ d.our_max_window_bits <= f[i - 1].our_max_window_bits
        /\ d.enabled => f[i - 1].enabled \/ FollowedAll(e.params, T, d.our_max_window_bits)
    BY <2>2, <2>3, <2>4, ClientConfigureNarrows
  <2>6. d \in Exts
    BY <2>2, <2>3, ConfigureTyped
  <2>7. f[i] \in {f[i - 1], d}
    BY <1>1
  <2> HIDE DEF e, d
  <2>8. d.their_max_window_bits \in 9..15 /\ d.our_max_window_bits \in 9..15
    BY <2>6 DEF Exts
  <2>9. d.their_max_window_bits <= ext.their_max_window_bits
    BY <1>3, <2>2, <2>4, <2>5, <2>8
  <2>10. FollowedAll(e.params, T, d.our_max_window_bits) => Confirms(entries, T, d.our_max_window_bits)
    BY <2>3 DEF Confirms
  <2>11. Confirms(entries, T, f[i - 1].our_max_window_bits) => Confirms(entries, T, d.our_max_window_bits)
    BY <2>4, <2>5, <2>8, ConfirmsSmaller
  <2>12. Good(d)
    BY <2>2, <2>5, <2>9, <2>10, <2>11, Zenon
  <2> HIDE DEF Good
  <2> QED
    BY <2>1, <2>2, <2>7, <2>12
<1>6. \A i \in 0..n : i \in S
  <2> HIDE DEF S
  <2> QED
    BY <1>2, <1>4, <1>5, InductionTo
<1>7. Good(f[n])
  <2>1. n \in S
    BY <1>2, <1>6
  <2> HIDE DEF Good
  <2> QED
    BY <2>1
<1> QED
  BY <1>7, Zenon DEF ConfigureExtensions, f

\* Applications set the server's window once.
SetOnce == \A s \in Setups : s.left.server <= 1

\* The windows that the client asks for.
Asked == Values(client.ext.params, "server_max_window_bits")

AskedFor ==
  /\ left.server <= setup.left.server
  /\ left.server = setup.left.server => Asked = {}
  /\ \A v \in Asked : client.ext.their_max_window_bits <= v

\* The extension is enabled by an answer that is accepted, or by one that fails behind
\* the extensions, and then the Client cannot be used again.
Enabled ==
  /\ attempts = 0 => client.pc # "waiting" /\ client.result.kind = "none"
  /\ client.pc = "waiting" => client.result.kind = "none"
  /\ client.ext.enabled => client.result.kind \in {"Accepted", "Err"}
  /\ client.ext.enabled /\ client.result.kind = "Accepted" =>
       Confirms(answers[client.result.answer].extensions, Asked, client.ext.our_max_window_bits)
  /\ builder["client"].rsv1 => builder["client"].made /\ client.ext.enabled

LEMMA ProtectedInit == HandshakeInit => AskedFor /\ Enabled
<1> SUFFICES ASSUME HandshakeInit PROVE AskedFor /\ Enabled
  OBVIOUS
<1>1. /\ setup \in Setups /\ left = setup.left /\ client = ClientNew
      /\ builder = [end \in {"client", "server"} |-> NoBuilder]
  BY DEF HandshakeInit
<1>2. setup.left.server \in Nat
  BY <1>1, SetupIs DEF Lefts
<1>3. /\ client.pc = "idle" /\ client.result.kind = "none" /\ client.ext.enabled = FALSE
      /\ client.ext.params = <<Param("server_no_context_takeover", None), Param("client_no_context_takeover", None),
                               Param("client_max_window_bits", None)>>
  BY <1>1 DEF ClientNew, NewClient, NewServer, Result
<1>4. Asked = {}
  <2> DEFINE ps == <<Param("server_no_context_takeover", None), Param("client_no_context_takeover", None),
                     Param("client_max_window_bits", None)>>
  <2>1. \A i \in 1..3 : ps[i].name # "server_max_window_bits"
    BY DEF Param
  <2>2. \A q \in ToSet(ps) : q.name # "server_max_window_bits"
    BY <2>1 DEF ToSet
  <2> HIDE DEF ps
  <2>3. Values(ps, "server_max_window_bits") = {}
    BY <2>2 DEF Values
  <2> QED
    BY <1>3, <2>3 DEF Asked, ps
<1>5. builder["client"].rsv1 = FALSE
  BY <1>1 DEF NoBuilder
<1> QED
  BY <1>1, <1>2, <1>3, <1>4, <1>5 DEF AskedFor, Enabled

\* Another parameter.
LEMMA ValuesAppend ==
  ASSUME NEW params \in Seq(AnyParam), NEW p \in AnyParam, NEW name
  PROVE  Values(Append(params, p), name) = Values(params, name) \union (IF p.name = name THEN {p.value} ELSE {})
<1> DEFINE all == Append(params, p)
<1>1. /\ Len(params) \in Nat /\ all \in Seq(AnyParam) /\ Len(all) = Len(params) + 1 /\ all[Len(params) + 1] = p
      /\ \A i \in 1..Len(params) : all[i] = params[i]
  BY AppendProperties
<1> HIDE DEF all
<1>2. ToSet(all) = ToSet(params) \union {p}
  <2>1. ASSUME NEW q \in ToSet(all) PROVE q \in ToSet(params) \union {p}
    <3>1. PICK i \in 1..Len(params) + 1 : all[i] = q
      BY <1>1, <2>1, ElementIs
    <3>2. CASE i = Len(params) + 1
      BY <1>1, <3>1, <3>2
    <3>3. CASE i # Len(params) + 1
      <4>1. i \in 1..Len(params)
        BY <1>1, <3>3
      <4>2. q = params[i] /\ i \in DOMAIN params
        BY <1>1, <3>1, <4>1
      <4> QED
        BY <4>2, Zenon DEF ToSet
    <3> QED
      BY <3>2, <3>3
  <2>2. ASSUME NEW q \in ToSet(params) PROVE q \in ToSet(all)
    <3>1. PICK i \in 1..Len(params) : params[i] = q
      BY <2>2, ElementIs
    <3>2. all[i] = q /\ i \in DOMAIN all
      BY <1>1, <3>1
    <3> QED
      BY <3>2, Zenon DEF ToSet
  <2>3. p \in ToSet(all)
    <3>1. Len(params) + 1 \in DOMAIN all
      BY <1>1
    <3> QED
      BY <1>1, <3>1, Zenon DEF ToSet
  <2> QED
    BY <2>1, <2>2, <2>3
<1>3. Values(all, name) = { r.value : r \in { q \in ToSet(params) \union {p} : q.name = name } }
  BY <1>2 DEF Values
<1>4. CASE p.name = name
  BY <1>3, <1>4 DEF Values, all
<1>5. CASE p.name # name
  <2>1. { q \in ToSet(params) \union {p} : q.name = name } = { q \in ToSet(params) : q.name = name }
    BY <1>5
  <2> QED
    BY <1>3, <1>5, <2>1 DEF Values, all
<1> QED
  BY <1>4, <1>5

\* Only the values of client_max_window_bits change.
LEMMA ValuesWithClientBits ==
  ASSUME NEW params \in Seq(AnyParam), NEW max \in 9..15, NEW name, name # "client_max_window_bits"
  PROVE  Values(WithClientBits(params, max), name) = Values(params, name)
<1> DEFINE new == WithClientBits(params, max)
<1>1. /\ DOMAIN new = 1..Len(params) /\ DOMAIN params = 1..Len(params)
      /\ \A i \in 1..Len(params) : new[i] = IF params[i].name = "client_max_window_bits" THEN Param(params[i].name, max) ELSE params[i]
  BY DEF WithClientBits
<1> HIDE DEF new
<1>2. \A i \in 1..Len(params) : params[i].name = "client_max_window_bits" => new[i].name = "client_max_window_bits"
  BY <1>1 DEF Param
<1>3. ASSUME NEW q, q.name = name PROVE q \in ToSet(new) <=> q \in ToSet(params)
  <2>1. ASSUME NEW i \in 1..Len(params), new[i] = q PROVE params[i] = q
    BY <1>1, <1>2, <1>3, <2>1
  <2>2. ASSUME NEW i \in 1..Len(params), params[i] = q PROVE new[i] = q
    BY <1>1, <1>3, <2>2
  <2> QED
    BY <1>1, <2>1, <2>2, Zenon DEF ToSet
<1>4. { q \in ToSet(new) : q.name = name } = { q \in ToSet(params) : q.name = name }
  BY <1>3
<1> QED
  BY <1>4 DEF Values, new

\* What decode_response does to the extension.
LEMMA ConfiguredByIs ==
  ASSUME Known, AskedFor, NEW i \in 1..Len(answers)
  PROVE  LET d == ConfiguredBy(answers[i]) IN
         /\ d.params = client.ext.params /\ d.their_max_window_bits <= client.ext.their_max_window_bits
         /\ d.enabled => client.ext.enabled \/ Confirms(answers[i].extensions, Asked, d.our_max_window_bits)
         /\ d = client.ext \/ ResponseOutcome(answers[i]) \in {"Ok", "Utf8", "UnsolicitedProtocol"}
<1>1. client.ext \in Exts /\ answers[i].extensions \in Seq(AnyEntry)
  BY AnswerIs DEF Known, Clients
<1>2. client.ext.their_max_window_bits <= client.ext.their_max_window_bits
  BY <1>1 DEF Exts
<1>3. LET d == ConfigureExtensions("Client", client.ext, answers[i].extensions) IN
      /\ d.params = client.ext.params /\ d.their_max_window_bits <= client.ext.their_max_window_bits
      /\ d.enabled => client.ext.enabled \/ Confirms(answers[i].extensions, Asked, d.our_max_window_bits)
  <2>1. Asked \subseteq Nat
    <3> SUFFICES ASSUME NEW v \in Asked PROVE v \in Nat
      OBVIOUS
    <3>1. PICK p \in ToSet(client.ext.params) : v = p.value
      BY DEF Asked, Values
    <3>2. p \in AnyParam
      BY <1>1, ElementIs DEF Exts
    <3> QED
      BY <3>1, <3>2 DEF AnyParam
  <2>2. Bounds(Asked, client.ext.their_max_window_bits)
    BY <2>1 DEF AskedFor, Bounds
  <2> QED
    BY <1>1, <2>2, ClientExtensionsNarrow
<1>4. CASE setup.clientDeflate /\ ResponseOutcome(answers[i]) \in {"Ok", "Utf8", "UnsolicitedProtocol"}
  <2>1. ConfiguredBy(answers[i]) = ConfigureExtensions("Client", client.ext, answers[i].extensions)
    BY <1>4 DEF ConfiguredBy
  <2> QED
    BY <1>3, <1>4, <2>1, Zenon
<1>5. CASE ~(setup.clientDeflate /\ ResponseOutcome(answers[i]) \in {"Ok", "Utf8", "UnsolicitedProtocol"})
  <2>1. ConfiguredBy(answers[i]) = client.ext
    BY <1>5 DEF ConfiguredBy
  <2> QED
    BY <1>2, <2>1, Zenon
<1> QED
  BY <1>4, <1>5

LEMMA AskedNext ==
  ASSUME SetOnce
  PROVE  BaseInv /\ AskedFor /\ [HandshakeNext]_allVars => AskedFor'
<1> SUFFICES ASSUME BaseInv, AskedFor, [HandshakeNext]_allVars PROVE AskedFor'
  OBVIOUS
<1>1. /\ Known /\ PiecesSent /\ Buffered /\ client \in Clients /\ client.ext \in Exts /\ client.ext.params \in Seq(AnyParam)
      /\ client.ext.their_max_window_bits \in 9..15
  BY DEF BaseInv, KnownInv, Known, Clients, Exts
<1>2. left \in Lefts /\ setup.left \in Lefts /\ setup.left.server <= 1
  BY <1>1, SetupIs DEF Known, SetOnce
<1>3. ASSUME setup' = setup, left'.server = left.server, client'.ext.params = client.ext.params,
             client'.ext.their_max_window_bits <= client.ext.their_max_window_bits, client'.ext \in Exts
      PROVE  AskedFor'
  <2>1. Asked' = Asked
    BY <1>3 DEF Asked
  <2>2. ASSUME NEW v \in Asked PROVE client'.ext.their_max_window_bits <= v
    <3>1. PICK p \in ToSet(client.ext.params) : v = p.value
      BY DEF Asked, Values
    <3>2. p \in AnyParam
      BY <1>1, ElementIs
    <3>3. v \in Nat /\ client.ext.their_max_window_bits <= v /\ client'.ext.their_max_window_bits \in Nat
      BY <1>3, <3>1, <3>2 DEF AnyParam, AskedFor, Exts
    <3> QED
      BY <1>1, <1>3, <3>3
  <2> QED
    BY <1>3, <2>1, <2>2 DEF AskedFor
<1>4. ASSUME setup' = setup, left'.server = left.server, client' = client PROVE AskedFor'
  BY <1>4 DEF AskedFor, Asked
<1>5. ASSUME NEW max \in Bits, SetMaxServerWindowBits(max) PROVE AskedFor'
  <2>1. max \in 9..15 /\ max \in Nat
    BY HandshakeAssumption
  <2>2. left.server > 0 /\ setup' = setup /\ left' = [left EXCEPT !.server = left.server - 1]
    BY <1>5 DEF SetMaxServerWindowBits
  <2>3. left.server \in Nat /\ setup.left.server \in Nat /\ left.server <= setup.left.server
    BY <1>2 DEF Lefts, AskedFor
  <2>4. left.server = 1 /\ setup.left.server = 1
    BY <1>2, <2>2, <2>3
  <2>5. left'.server = 0
    <3>1. left'.server = left.server - 1
      BY <1>2, <2>2 DEF Lefts
    <3> QED
      BY <2>4, <3>1
  <2>6. Asked = {}
    BY <2>4 DEF AskedFor
  <2> DEFINE p == Param("server_max_window_bits", max)
  <2>7. client'.ext.params = Append(client.ext.params, p) /\ client'.ext.their_max_window_bits = max
    BY <1>1, <1>5 DEF SetMaxServerWindowBits, Clients, Exts
  <2>8. p \in AnyParam /\ p.name = "server_max_window_bits" /\ p.value = max
    BY <2>1 DEF Param, AnyParam
  <2> HIDE DEF p
  <2>9. Values(Append(client.ext.params, p), "server_max_window_bits") = Values(client.ext.params, "server_max_window_bits") \union {max}
    BY <1>1, <2>8, ValuesAppend
  <2>10. Asked' = {max}
    <3>1. Asked' = Values(Append(client.ext.params, p), "server_max_window_bits")
      BY <2>7, Zenon DEF Asked
    <3> QED
      BY <2>6, <2>9, <3>1 DEF Asked
  <2> QED
    BY <2>1, <2>2, <2>4, <2>5, <2>7, <2>10 DEF AskedFor
<1>6. ASSUME NEW max \in Bits, SetMaxClientWindowBits(max) PROVE AskedFor'
  <2>1. max \in 9..15
    BY HandshakeAssumption
  <2>2. setup' = setup /\ left' = [left EXCEPT !.client = left.client - 1]
    BY <1>6 DEF SetMaxClientWindowBits
  <2>3. left'.server = left.server
    BY <1>2, <2>2 DEF Lefts
  <2>4. /\ client'.ext.params = WithClientBits(client.ext.params, max)
        /\ client'.ext.their_max_window_bits = client.ext.their_max_window_bits
    BY <1>1, <1>6 DEF SetMaxClientWindowBits, Clients, Exts
  <2>5. Values(WithClientBits(client.ext.params, max), "server_max_window_bits") = Asked
    BY <1>1, <2>1, ValuesWithClientBits DEF Asked
  <2>6. Asked' = Asked
    BY <2>4, <2>5, Zenon DEF Asked
  <2> QED
    BY <2>2, <2>3, <2>4, <2>6 DEF AskedFor
<1>7. CASE SendRequest
  <2>1. setup' = setup /\ left'.server = left.server /\ client'.ext = client.ext
    BY <1>1, <1>2, <1>7 DEF SendRequest, Lefts, Clients
  <2> QED
    BY <2>1 DEF AskedFor, Asked
<1>8. ASSUME NEW n \in 1..BLOCK_SIZE, ReadResponse(n) PROVE AskedFor'
  <2>1. PICK b \in 0..seen : IsSlice(client.buffer, b, seen)
    BY <1>1 DEF Buffered
  <2>2. b \in Nat /\ b <= seen
    BY <1>1, <2>1 DEF Known
  <2>3. PICK buffer, o : Reads(n, b, buffer, o)
    BY <1>1, <1>8, <2>1, <2>2, ReadsIs
  <2>4. setup' = setup /\ left' = left
    BY <2>3 DEF Reads
  <2>5. CASE o # 0 /\ buffer[1][1] # "data"
    <3>1. buffer[o][2] \in 1..Len(answers)
      BY <1>1, <2>2, <2>3, <2>5, EndRead
    <3>2. PICK i \in 1..Len(answers) : i = buffer[o][2]
      BY <3>1
    <3>3. client'.ext = ConfiguredBy(answers[i])
      BY <1>1, <2>3, <2>5, <3>2 DEF Reads, Clients
    <3>4. /\ client'.ext.params = client.ext.params
          /\ client'.ext.their_max_window_bits <= client.ext.their_max_window_bits /\ client'.ext \in Exts
      BY <1>1, <3>3, ConfiguredByIs, ConfiguredByTyped
    <3> QED
      BY <1>3, <2>4, <3>4
  <2>6. CASE o = 0 \/ buffer[1][1] = "data"
    <3>1. client'.ext = client.ext
      BY <1>1, <2>3, <2>6 DEF Reads, Clients
    <3> QED
      BY <2>4, <3>1 DEF AskedFor, Asked
  <2> QED
    BY <2>5, <2>6
<1>9. CASE ReadResponseEof
  <2>1. setup' = setup /\ left' = left /\ client'.ext = client.ext
    BY <1>1, <1>9 DEF ReadResponseEof, Clients
  <2> QED
    BY <2>1 DEF AskedFor, Asked
<1>10. CASE ForeignRequest \/ SendData
  <2>1. setup' = setup /\ left'.server = left.server /\ client' = client
    BY <1>2, <1>10 DEF ForeignRequest, SendData, Lefts
  <2> QED
    BY <1>4, <2>1
<1>11. CASE \/ ClientIntoBuilder \/ ServerIntoBuilder \/ ReceiveRequest \/ Decode \/ HttpReceiveRequest
            \/ \E protocol \in {<<>>} \union { <<p>> : p \in ToSet(server.proposed) } : Accept(protocol)
            \/ \E code \in Codes \union {200}, drop \in BOOLEAN : Reject(code, drop)
            \/ HangUp \/ ForeignAnswer \/ ForeignHangUp \/ UNCHANGED allVars
  <2>1. setup' = setup /\ left' = left /\ client' = client
    BY <1>11, Zenon DEF ClientIntoBuilder, ServerIntoBuilder, Build, ReceiveRequest, Decode, HttpReceiveRequest, Accept, Reject,
       HangUp, ForeignAnswer, ForeignHangUp, allVars, handshakeVars
  <2> QED
    BY <1>4, <2>1
<1> QED
  BY HandshakeSteps, <1>5, <1>6, <1>7, <1>8, <1>9, <1>10, <1>11 DEF HandshakeCases

LEMMA EnabledNext == BaseInv /\ Accepted /\ Made /\ AskedFor /\ Enabled /\ [HandshakeNext]_allVars => Enabled'
<1> SUFFICES ASSUME BaseInv, Accepted, Made, AskedFor, Enabled, [HandshakeNext]_allVars PROVE Enabled'
  OBVIOUS
<1>1. /\ Known /\ PiecesSent /\ Buffered /\ client \in Clients /\ client.ext \in Exts /\ attempts \in Nat
      /\ builder \in [{"client", "server"} -> Builders]
  BY DEF BaseInv, KnownInv, Known, Clients
<1>2. ASSUME client' = client, attempts' = attempts \/ attempts' # 0, builder'["client"] = builder["client"], Grows
      PROVE  Enabled'
  <2>1. client.result.kind = "Accepted" => answers'[client.result.answer] = answers[client.result.answer]
    BY <1>2 DEF Accepted, AcceptedBy, Grows
  <2>2. Asked' = Asked
    BY <1>2 DEF Asked
  <2> QED
    BY <1>2, <2>1, <2>2 DEF Enabled
<1>3. UNCHANGED <<answers, down>> => Grows
  BY <1>1, NothingSent
<1>4. ASSUME NEW max \in Bits, SetMaxServerWindowBits(max) \/ SetMaxClientWindowBits(max) PROVE Enabled'
  <2>1. client'.pc = client.pc /\ client'.result = client.result /\ client'.ext.enabled = client.ext.enabled
    <3>1. CASE SetMaxServerWindowBits(max)
      <4>1. client' = [client EXCEPT !.ext.their_max_window_bits = max,
                                     !.ext.params = Append(@, Param("server_max_window_bits", max))]
        BY <3>1 DEF SetMaxServerWindowBits
      <4> QED
        BY <1>1, <4>1 DEF Clients, Exts
    <3>2. CASE SetMaxClientWindowBits(max)
      <4>1. client' = [client EXCEPT !.ext.our_max_window_bits = max, !.ext.params = WithClientBits(@, max)]
        BY <3>2 DEF SetMaxClientWindowBits
      <4> QED
        BY <1>1, <4>1 DEF Clients, Exts
    <3> QED
      BY <1>4, <3>1, <3>2
  <2>2. attempts = 0 /\ UNCHANGED <<attempts, builder>>
    BY <1>4 DEF SetMaxServerWindowBits, SetMaxClientWindowBits
  <2>3. client.result.kind = "none" /\ ~client.ext.enabled
    BY <2>2 DEF Enabled
  <2> QED
    BY <2>1, <2>2, <2>3 DEF Enabled
<1>5. CASE SendRequest
  <2>1. client.result.kind \in {"none", "Rejected"} /\ builder' = builder /\ attempts' = attempts + 1
    BY <1>5 DEF SendRequest
  <2>2. client'.ext = client.ext /\ client'.result.kind = "none"
    BY <1>1, <1>5 DEF SendRequest, Clients, Result
  <2>3. ~client.ext.enabled
    BY <2>1 DEF Enabled
  <2> QED
    BY <1>1, <2>1, <2>2, <2>3 DEF Enabled
<1>6. ASSUME client.pc = "waiting"
      PROVE  client.result.kind = "none" /\ ~client.ext.enabled /\ ~builder["client"].rsv1 /\ attempts # 0
  BY <1>6 DEF Enabled
<1>7. ASSUME NEW n \in 1..BLOCK_SIZE, ReadResponse(n) PROVE Enabled'
  <2>1. PICK b \in 0..seen : IsSlice(client.buffer, b, seen)
    BY <1>1 DEF Buffered
  <2>2. b \in Nat /\ b <= seen
    BY <1>1, <2>1 DEF Known
  <2>3. PICK buffer, o : Reads(n, b, buffer, o)
    BY <1>1, <1>7, <2>1, <2>2, ReadsIs
  <2>4. /\ client.result.kind = "none" /\ ~client.ext.enabled /\ ~builder["client"].rsv1 /\ attempts # 0
        /\ UNCHANGED <<answers, builder, attempts>>
    BY <1>6, <2>3 DEF Reads
  <2>5. CASE o # 0 /\ buffer[1][1] # "data"
    <3>1. buffer[o][2] \in 1..Len(answers)
      BY <1>1, <2>2, <2>3, <2>5, EndRead
    <3>2. PICK i \in 1..Len(answers) : i = buffer[o][2]
      BY <3>1
    <3>3. client'.ext = ConfiguredBy(answers[i]) /\ client'.result = ResultOf(i) /\ client'.pc = "idle"
      BY <1>1, <2>3, <2>5, <3>2 DEF Reads, Clients
    <3>4. IsResultOf(i)
      BY <1>1, ResultOfIs
    <3>5. ASSUME client'.ext.enabled
          PROVE  /\ Confirms(answers[i].extensions, Asked', client'.ext.our_max_window_bits)
                 /\ ResponseOutcome(answers[i]) \in {"Ok", "Utf8", "UnsolicitedProtocol"}
      <4> DEFINE d == ConfiguredBy(answers[i])
      <4>1. /\ d.enabled => client.ext.enabled \/ Confirms(answers[i].extensions, Asked, d.our_max_window_bits)
            /\ d.params = client.ext.params
            /\ d = client.ext \/ ResponseOutcome(answers[i]) \in {"Ok", "Utf8", "UnsolicitedProtocol"}
        BY <1>1, ConfiguredByIs
      <4> HIDE DEF d
      <4>2. d.enabled /\ client'.ext = d
        BY <3>3, <3>5 DEF d
      <4>3. Asked' = Asked
        BY <4>1, <4>2 DEF Asked
      <4> QED
        BY <2>4, <4>1, <4>2, <4>3
    <3>6. client'.ext.enabled => ResultOf(i).kind \in {"Accepted", "Err"}
      BY <3>4, <3>5 DEF IsResultOf
    <3>7. ResultOf(i).kind = "Accepted" => ResultOf(i).answer = i
      BY <3>4 DEF IsResultOf
    <3> QED
      BY <2>4, <3>3, <3>5, <3>6, <3>7 DEF Enabled
  <2>6. CASE o = 0 \/ buffer[1][1] = "data"
    <3>1. client'.ext = client.ext /\ (client'.pc = "waiting" => client'.result = client.result)
      BY <1>1, <2>3, <2>6 DEF Reads, Clients
    <3> QED
      BY <2>4, <3>1 DEF Enabled
  <2> QED
    BY <2>5, <2>6
<1>8. CASE ReadResponseEof
  <2>1. /\ client.pc = "waiting" /\ client'.pc = "idle" /\ client'.ext = client.ext
        /\ UNCHANGED <<builder, attempts>>
    BY <1>1, <1>8 DEF ReadResponseEof, Clients
  <2>2. /\ ~client'.ext.enabled /\ ~builder'["client"].rsv1 /\ attempts' # 0 /\ client'.pc # "waiting"
    BY <1>6, <2>1
  <2> QED
    BY <2>2 DEF Enabled
<1>9. CASE ReceiveRequest \/ Decode \/ HttpReceiveRequest \/ HangUp \/ ForeignRequest \/ ForeignHangUp \/ UNCHANGED allVars
  <2>1. UNCHANGED <<client, answers, down, builder>> /\ attempts' \in {attempts, attempts + 1}
    BY <1>9 DEF ReceiveRequest, Decode, HttpReceiveRequest, HangUp, ForeignRequest, ForeignHangUp, allVars, handshakeVars
  <2>2. attempts' = attempts \/ attempts' # 0
    BY <1>1, <2>1
  <2> QED
    BY <1>2, <1>3, <2>1, <2>2
<1>10. CASE \/ \E protocol \in {<<>>} \union { <<p>> : p \in ToSet(server.proposed) } : Accept(protocol)
            \/ \E code \in Codes \union {200}, drop \in BOOLEAN : Reject(code, drop)
            \/ ForeignAnswer
  <2>1. UNCHANGED <<client, builder>> /\ Grows
    BY <1>1, <1>10, Answered
  <2>2. attempts' = attempts
    BY <1>10, Zenon DEF Accept, Reject, ForeignAnswer
  <2> QED
    BY <1>2, <2>1, <2>2
<1>11. CASE SendData
  <2>1. UNCHANGED <<client, builder, attempts>> /\ Grows
    BY <1>11, DataGrows DEF SendData, BaseInv
  <2> QED
    BY <1>2, <2>1
<1>12. CASE ServerIntoBuilder
  <2>1. UNCHANGED <<client, answers, down, attempts>> /\ builder'["client"] = builder["client"]
    BY <1>1, <1>12 DEF ServerIntoBuilder, Build
  <2> QED
    BY <1>2, <1>3, <2>1
<1>13. CASE ClientIntoBuilder
  <2>1. /\ client.result.kind = "Accepted" /\ UNCHANGED <<client, answers, attempts>>
        /\ builder' = [builder EXCEPT !["client"] = [made |-> TRUE, buffer |-> client.buffer, rsv1 |-> setup.clientDeflate /\ client.ext.enabled]]
    BY <1>13 DEF ClientIntoBuilder, Build
  <2>2. builder'["client"] = [made |-> TRUE, buffer |-> client.buffer, rsv1 |-> setup.clientDeflate /\ client.ext.enabled]
    BY <1>1, <2>1
  <2>3. builder'["client"].made /\ builder'["client"].rsv1 = (setup.clientDeflate /\ client.ext.enabled)
    BY <2>2
  <2>4. Asked' = Asked
    BY <2>1 DEF Asked
  <2> QED
    BY <2>1, <2>3, <2>4 DEF Enabled
<1> QED
  BY HandshakeSteps, <1>4, <1>5, <1>7, <1>8, <1>9, <1>10, <1>11, <1>12, <1>13 DEF HandshakeCases

\* If applications set the server's window once then, whatever a server answers, a
\* client that compresses has been promised that the server does not take over its
\* context; it has understood all that the answer asks, its own window is within what
\* the answer gives it, and a server's window that the answer gives is not larger than
\* the client asked for.
THEOREM ClientIsProtected ==
  ASSUME SetOnce
  PROVE  HandshakeSpec => []ClientProtected
<1> DEFINE Inv == BaseInv /\ Keys /\ Accepted /\ UniqueEnds /\ Made /\ AskedFor /\ Enabled
<1>1. HandshakeInit => Inv
  BY BaseInit, KeysInit, AcceptedInit, MadeInit, ProtectedInit
<1>2. Inv /\ [HandshakeNext]_allVars => Inv'
  BY BaseNext, KeysNext, AcceptedNext, MadeNext, AskedNext, EnabledNext
<1>3. Inv => ClientProtected
  <2> SUFFICES ASSUME Inv, builder["client"].rsv1
               PROVE  \E e \in ToSet(answers[client.result.answer].extensions) :
                        /\ Values(e.params, "server_no_context_takeover") # {}
                        /\ Values(e.params, "unknown") = {}
                        /\ \A v \in Asked, w \in Values(e.params, "server_max_window_bits") : w > 255 \/ w <= v
                        /\ \A w \in Values(e.params, "client_max_window_bits") : w > 255 \/ client.ext.our_max_window_bits <= AtLeast9(w)
    BY Zenon DEF ClientProtected, Asked
  <2>1. Confirms(answers[client.result.answer].extensions, Asked, client.ext.our_max_window_bits)
    BY DEF Enabled, Made
  <2>2. PICK e \in ToSet(answers[client.result.answer].extensions) : FollowedAll(e.params, Asked, client.ext.our_max_window_bits)
    BY <2>1 DEF Confirms
  <2>3. /\ \E p \in ToSet(e.params) : p.name = "server_no_context_takeover"
        /\ \A p \in ToSet(e.params) : Followed(p, Asked, client.ext.our_max_window_bits)
    BY <2>2 DEF FollowedAll
  <2>4. \A name, w : w \in Values(e.params, name) <=> \E p \in ToSet(e.params) : p.name = name /\ p.value = w
    BY DEF Values
  <2>5. Values(e.params, "server_no_context_takeover") # {}
    BY <2>3, <2>4
  <2>6. Values(e.params, "unknown") = {}
    BY <2>3, <2>4 DEF Followed
  <2>7. \A v \in Asked, w \in Values(e.params, "server_max_window_bits") : w > 255 \/ w <= v
    <3> SUFFICES ASSUME NEW v \in Asked, NEW w \in Values(e.params, "server_max_window_bits") PROVE w > 255 \/ w <= v
      OBVIOUS
    <3>1. PICK p \in ToSet(e.params) : p.name = "server_max_window_bits" /\ p.value = w
      BY <2>4
    <3>2. Followed(p, Asked, client.ext.our_max_window_bits)
      BY <2>3
    <3> QED
      BY <3>1, <3>2 DEF Followed
  <2>8. \A w \in Values(e.params, "client_max_window_bits") : w > 255 \/ client.ext.our_max_window_bits <= AtLeast9(w)
    <3> SUFFICES ASSUME NEW w \in Values(e.params, "client_max_window_bits")
                 PROVE  w > 255 \/ client.ext.our_max_window_bits <= AtLeast9(w)
      OBVIOUS
    <3>1. PICK p \in ToSet(e.params) : p.name = "client_max_window_bits" /\ p.value = w
      BY <2>4
    <3>2. Followed(p, Asked, client.ext.our_max_window_bits)
      BY <2>3
    <3> QED
      BY <3>1, <3>2 DEF Followed
  <2> QED
    BY <2>5, <2>6, <2>7, <2>8
<1> HIDE DEF Inv
<1> QED
  BY <1>1, <1>2, <1>3, PTL DEF HandshakeSpec

-----------------------------------------------------------------------------
(* Two ends of this library agree how the handshake ended.                 *)

\* A protocol that the server answers with: none, or one that both ends have.
Common(protocol) ==
  \/ protocol = <<>>
  \/ \E p \in ToSet(setup.clientProtocols) \intersect setup.serverProtocols : protocol = <<p>>

\* A server that has a request, or has accepted one, is about the last one and does not
\* read on.
Served ==
  /\ request.protocol \in {<<>>, <<setup.clientProtocols>>}
  /\ server.result # "none" \/ server.accepted => pc \in {"Complete", "Partial"} /\ ~hungup /\ stream # <<>>
  /\ server.result # "none" => ~server.accepted
  /\ server.result = "Ok" => server.key = attempts /\ \A p \in ToSet(server.proposed) : Common(<<p>>)
  /\ server.accepted => server.key = attempts /\ Common(server.protocol)

\* There is one response for each request but perhaps the last, and data only behind an
\* acceptance.
Matched ==
  /\ attempts = Len(answers) \/ attempts = Len(answers) + 1
  /\ server.accepted => attempts = Len(answers)
  /\ ~server.accepted => Len(down) = 2 * Len(answers) /\ ~builder["server"].made
  /\ stream # <<>> /\ ~server.accepted /\ ~hungup => client.pc = "waiting" /\ attempts = Len(answers) + 1

\* The response r passes every check of decode_response.
Good(r) ==
  /\ r.parses /\ r.version = 1 /\ r.code = 101
  /\ r.upgrade = <<{"websocket"}>> /\ r.connection = <<{"upgrade"}>> /\ r.accept = <<AcceptKey(attempts)>>
  /\ ~Unreadable(r.extensions)
  /\ r.protocol = IF server.protocol = <<>> THEN <<>> ELSE <<server.protocol>>

\* The last request has been answered: response number k, in two pieces.
Answering(k) ==
  /\ 2 * k <= Len(down) /\ down[2 * k - 1] = <<"head", k>> /\ down[2 * k] = <<"end", k>>
  /\ server.accepted => Good(answers[k])
  /\ ~server.accepted => answers[k] = Plain(RejectCode(server.refused))

Responded == attempts = Len(answers) /\ attempts > 0 => Answering(attempts)

\* While it waits, the client has read a part of the last response, and no more.
Listening ==
  client.pc = "waiting" =>
    /\ attempts > 0 /\ 2 * (attempts - 1) <= seen /\ seen < 2 * attempts
    /\ IsSlice(client.buffer, 2 * (attempts - 1), seen)

\* What the client was told.
Told ==
  client.pc = "idle" =>
    /\ client.result.kind = "Accepted" <=> server.accepted
    /\ server.accepted => client.result.protocol = server.protocol
    /\ client.result.kind = "Rejected" =>
         attempts = Len(answers) /\ seen = Len(down) /\ client.result.code = RejectCode(server.refused)
    /\ client.result.kind = "none" => attempts = 0 /\ seen = 0

Flow == setup.foreign = "none" => Served /\ Matched /\ Responded /\ Listening /\ Told

LEMMA FlowInit == HandshakeInit => Flow
<1> SUFFICES ASSUME HandshakeInit PROVE Served /\ Matched /\ Responded /\ Listening /\ Told
  BY DEF Flow
<1>1. /\ client = ClientNew /\ server = ServerNew /\ attempts = 0 /\ seen = 0 /\ request = NoRequest /\ answers = <<>>
      /\ down = <<>> /\ stream = <<>> /\ builder = [end \in {"client", "server"} |-> NoBuilder]
  BY DEF HandshakeInit
<1>2. /\ client.pc = "idle" /\ client.result.kind = "none" /\ server.result = "none" /\ server.accepted = FALSE
      /\ request.protocol = <<>>
  BY <1>1 DEF ClientNew, ServerNew, NoRequest, Result
<1>3. Served
  BY <1>2 DEF Served
<1>4. Matched
  BY <1>1, <1>2 DEF Matched, NoBuilder
<1>5. Responded /\ Listening /\ Told
  BY <1>1, <1>2 DEF Responded, Listening, Told
<1> QED
  BY <1>3, <1>4, <1>5

\* What two ends of this library know of each other in front of a step.
Native == setup.foreign = "none" /\ BaseInv /\ Keys /\ CurrentInv /\ Served /\ Matched /\ Responded /\ Listening /\ Told

\* A step that sends nothing, and of which the server, the client and the counters know
\* nothing.
LEMMA FlowQuiet ==
  ASSUME Native, UNCHANGED <<setup, attempts, answers, down, seen, server, hungup, stream, request>>,
         server.result # "none" \/ server.accepted => pc' = pc,
         client'.pc = client.pc, client'.result = client.result, client'.buffer = client.buffer,
         ~server.accepted => builder'["server"] = builder["server"]
  PROVE  Flow'
<1>1. Served'
  BY DEF Native, Served, Common
<1>2. Matched'
  BY DEF Native, Matched
<1>3. Responded'
  BY DEF Native, Responded, Answering, Good, Plain
<1>4. Listening'
  BY DEF Native, Listening, IsSlice
<1>5. Told'
  BY DEF Native, Told
<1> QED
  BY <1>1, <1>2, <1>3, <1>4, <1>5 DEF Flow

LEMMA Numbers ==
  ASSUME Known
  PROVE  attempts \in Nat /\ Len(answers) \in Nat /\ seen \in Nat /\ Len(down) \in Nat /\ seen <= Len(down)
<1>1. attempts \in Nat /\ answers \in Seq(AnyResponse) /\ down \in Seq(Piece) /\ seen \in 0..Len(down)
  BY DEF Known
<1>2. Len(answers) \in Nat /\ Len(down) \in Nat
  BY <1>1
<1> QED
  BY <1>1, <1>2

\* A request is sent when everything before it has been answered and read.
LEMMA FlowSend ==
  ASSUME Native, SendRequest
  PROVE  Flow'
<1>1. /\ UNCHANGED <<setup, server, answers, down, seen, hungup, builder, pc>> /\ client.pc = "idle" /\ stream = <<>>
      /\ client.result.kind \in {"none", "Rejected"} /\ attempts' = attempts + 1 /\ request' = EncodeRequest(attempts + 1)
      /\ client' = [client EXCEPT !.pc = "waiting", !.nonce = attempts + 1, !.buffer = <<>>, !.result = Result("none")]
  BY DEF SendRequest, FreshNonce
<1>2. client'.pc = "waiting" /\ client'.buffer = <<>>
  BY <1>1 DEF Native, BaseInv, KnownInv, Known, Clients
<1>3. ~server.accepted /\ server.result = "none"
  BY <1>1 DEF Native, Served
<1>4. PICK a \in Nat, m \in Nat, s \in Nat, d \in Nat : a = attempts /\ m = Len(answers) /\ s = seen /\ d = Len(down)
  BY Numbers DEF Native, BaseInv, KnownInv
<1>5. d = 2 * m /\ (a = m \/ a = m + 1)
  BY <1>3, <1>4 DEF Native, Matched
<1>6. s = 2 * a /\ a = m
  <2>1. CASE client.result.kind = "none"
    BY <1>1, <1>4, <1>5, <2>1 DEF Native, Told
  <2>2. CASE client.result.kind = "Rejected"
    BY <1>1, <1>4, <1>5, <2>2 DEF Native, Told
  <2> QED
    BY <1>1, <2>1, <2>2
<1>7. Served'
  <2>1. request'.protocol \in {<<>>, <<setup.clientProtocols>>}
    BY <1>1 DEF EncodeRequest
  <2> QED
    BY <1>1, <1>3, <2>1 DEF Served
<1>8. Matched'
  <2>1. attempts' = Len(answers') + 1
    BY <1>1, <1>4, <1>6
  <2> QED
    BY <1>1, <1>2, <1>3, <2>1 DEF Native, Matched
<1>9. Responded'
  <2>1. attempts' # Len(answers')
    BY <1>1, <1>4, <1>6
  <2> QED
    BY <2>1 DEF Responded
<1>10. Listening'
  <2>1. attempts' = a + 1 /\ seen' = 2 * a
    BY <1>1, <1>4, <1>6
  <2>2. a + 1 > 0 /\ 2 * ((a + 1) - 1) = 2 * a /\ 2 * a < 2 * (a + 1) /\ 2 * a <= 2 * a
    OBVIOUS
  <2>3. IsSlice(client.buffer, 2 * a, 2 * a)'
    BY <1>2 DEF IsSlice
  <2> QED
    BY <2>1, <2>2, <2>3, Zenon DEF Listening
<1>11. Told'
  BY <1>2 DEF Told
<1> QED
  BY <1>7, <1>8, <1>9, <1>10, <1>11 DEF Flow

\* One header with one part.
LEMMA OneHeader ==
  ASSUME NEW v \in {"websocket", "upgrade"}
  PROVE  ExpectAsciiHeader(<<{v}>>, v)
<1>1. <<{v}>> \in Headers
  BY DEF Headers
<1>2. {v} \in ToSet(<<{v}>>)
  BY DEF ToSet
<1>3. v \in {v} /\ NotUtf8 \notin {v}
  BY DEF NotUtf8
<1> QED
  BY <1>1, <1>2, <1>3, OneHeaderMatches

\* An acceptance passes all checks.
LEMMA AcceptanceOk ==
  ASSUME Native, attempts = Len(answers), attempts > 0, server.accepted
  PROVE  Good(answers[attempts]) /\ ResponseOutcome(answers[attempts]) = "Ok"
<1> DEFINE r == answers[attempts]
<1>1. Good(r) /\ client.nonce = attempts
  BY DEF Native, Responded, Answering, Keys
<1>2. ExpectAsciiHeader(r.upgrade, "websocket") /\ ExpectAsciiHeader(r.connection, "upgrade")
  BY <1>1, OneHeader DEF Good
<1>3. r.accept # <<>> /\ Head(r.accept) = AcceptKey(client.nonce)
  BY <1>1 DEF Good
<1>4. r.protocol # <<>> => \E p \in ToSet(setup.clientProtocols) : Head(r.protocol) = <<p>>
  BY <1>1 DEF Good, Native, Served, Common
<1>5. ResponseOutcome(r) = "Ok"
  BY <1>1, <1>2, <1>3, <1>4 DEF Good, ResponseOutcome, Check
<1> QED
  BY <1>1, <1>5

\* The client makes of a response what the server meant.
LEMMA ResponseUnderstood ==
  ASSUME Native, attempts = Len(answers), attempts > 0
  PROVE  LET result == ResultOf(attempts) IN
         /\ result.kind = "Accepted" <=> server.accepted
         /\ server.accepted => result.protocol = server.protocol
         /\ result.kind = "Rejected" => result.code = RejectCode(server.refused)
         /\ result.kind # "none"
<1> DEFINE r == answers[attempts]
           result == ResultOf(attempts)
<1>1. Known /\ attempts \in 1..Len(answers) /\ client.nonce = attempts
  BY DEF Native, BaseInv, KnownInv, Known, Keys
<1>2. IsResultOf(attempts)
  BY <1>1, ResultOfIs
<1>3. Answering(attempts)
  BY DEF Native, Responded
<1>4. CASE server.accepted
  <2>1. Good(r) /\ ResponseOutcome(r) = "Ok"
    BY <1>4, AcceptanceOk
  <2>2. result.kind = "Accepted" /\ result.protocol = IF r.protocol = <<>> THEN <<>> ELSE Head(r.protocol)
    BY <1>2, <2>1 DEF IsResultOf
  <2>3. (IF r.protocol = <<>> THEN <<>> ELSE Head(r.protocol)) = server.protocol
    BY <2>1 DEF Good
  <2> QED
    BY <1>4, <2>2, <2>3
<1>5. CASE ~server.accepted
  <2>1. r = Plain(RejectCode(server.refused))
    BY <1>3, <1>5 DEF Answering
  <2>2. r.accept = <<>> /\ r.code = RejectCode(server.refused)
    BY <2>1 DEF Plain
  <2>3. ResponseOutcome(r) # "Ok"
    BY <2>2, OkHasKey
  <2> QED
    BY <1>2, <1>5, <2>2, <2>3 DEF IsResultOf
<1> QED
  BY <1>4, <1>5

\* The client reads the response to its last request, and stops behind it.
ReadsAnswer(n) ==
  /\ attempts = Len(answers) /\ attempts > 0 /\ client.pc = "waiting" /\ n \in Nat /\ seen + n <= Len(down)
  /\ seen' = seen + n /\ UNCHANGED <<vars, setup, left, attempts, server, request, answers, down, hungup, builder>>
  /\ \E buffer :
       \/ /\ seen + n < 2 * attempts /\ IsSlice(buffer, 2 * (attempts - 1), seen + n) /\ 2 * (attempts - 1) <= seen + n
          /\ client' = [client EXCEPT !.buffer = buffer]
       \/ /\ ~(seen + n < 2 * attempts)
          /\ client' = [client EXCEPT !.pc = "idle", !.result = ResultOf(attempts), !.buffer = buffer,
                                      !.ext = ConfiguredBy(answers[attempts])]

LEMMA AnswerRead ==
  ASSUME Native, NEW n \in 1..BLOCK_SIZE, ReadResponse(n)
  PROVE  ReadsAnswer(n)
<1>1. Known /\ PiecesSent /\ client \in Clients /\ n \in Nat /\ 1 <= n /\ client.pc = "waiting"
  BY Sizes DEF Native, BaseInv, KnownInv, Known, ReadResponse
<1>2. PICK a \in Nat, m \in Nat, s \in Nat, d \in Nat : a = attempts /\ m = Len(answers) /\ s = seen /\ d = Len(down)
  BY <1>1, Numbers
<1>3. PICK b \in Nat : b = 2 * (a - 1) /\ b <= s /\ s < 2 * a /\ a > 0
  <2>1. a > 0 /\ 2 * (a - 1) <= s /\ s < 2 * a
    BY <1>1, <1>2 DEF Native, Listening
  <2>2. 2 * (a - 1) \in Nat
    BY <2>1
  <2> QED
    BY <2>1, <2>2
<1>4. IsSlice(client.buffer, b, seen)
  <2>1. IsSlice(client.buffer, 2 * (attempts - 1), seen)
    BY <1>1 DEF Native, Listening
  <2> QED
    BY <1>2, <1>3, <2>1
<1>5. PICK buffer, o : Reads(n, b, buffer, o)
  BY <1>1, <1>2, <1>3, <1>4, ReadsIs
<1>6. s + n <= d /\ seen' = s + n /\ UNCHANGED <<vars, setup, left, attempts, server, request, answers, down, hungup, builder>>
  BY <1>2, <1>5 DEF Reads
<1>7. a = m
  <2>1. ASSUME ~server.accepted PROVE d = 2 * m
    BY <1>2, <2>1 DEF Native, Matched
  <2>2. server.accepted => a = m
    BY <1>2 DEF Native, Matched
  <2>3. a = m \/ a = m + 1
    BY <1>2 DEF Native, Matched
  <2> QED
    BY <1>1, <1>3, <1>6, <2>1, <2>2, <2>3
<1>8. Answering(attempts) /\ attempts = Len(answers) /\ attempts > 0
  BY <1>2, <1>3, <1>7 DEF Native, Responded
<1>9. 2 * a <= d /\ down[b + 1] = <<"head", a>> /\ down[b + 2] = <<"end", a>>
  <2>1. 2 * a <= d /\ down[2 * a - 1] = <<"head", a>> /\ down[2 * a] = <<"end", a>>
    BY <1>2, <1>8 DEF Answering
  <2>2. 2 * a - 1 = b + 1 /\ 2 * a = b + 2
    BY <1>3
  <2> QED
    BY <2>1, <2>2
<1>10. /\ buffer \in Seq(Piece) /\ Len(buffer) = (s + n) - b /\ FirstEnd(buffer, o)
       /\ \A i \in 1..(s + n) - b : buffer[i] = down[b + i]
  BY <1>2, <1>5 DEF Reads, IsSlice
<1>11. buffer[1] = <<"head", a>>
  <2>1. 1 \in 1..(s + n) - b
    BY <1>1, <1>3
  <2> QED
    BY <1>9, <1>10, <2>1
<1>12. CASE s + n < 2 * a
  <2>1. (s + n) - b = 1
    BY <1>1, <1>3, <1>12
  <2>2. o = 0
    <3>1. Len(buffer) = 1
      BY <1>10, <2>1
    <3>2. \A i \in 1..Len(buffer) : buffer[i][1] # "end"
      BY <1>11, <3>1
    <3> QED
      BY <1>10, <3>2 DEF FirstEnd
  <2>3. client' = [client EXCEPT !.buffer = buffer]
    BY <1>5, <1>11, <2>2 DEF Reads
  <2>4. IsSlice(buffer, b, s + n) /\ b <= s + n
    BY <1>1, <1>3, <1>10 DEF IsSlice
  <2>5. seen + n < 2 * attempts /\ IsSlice(buffer, 2 * (attempts - 1), seen + n) /\ 2 * (attempts - 1) <= seen + n
    BY <1>2, <1>3, <1>12, <2>4
  <2> QED
    BY <1>1, <1>2, <1>6, <1>8, <2>3, <2>5, Zenon DEF ReadsAnswer
<1>13. CASE ~(s + n < 2 * a)
  <2>1. 2 \in 1..(s + n) - b /\ 1 \in 1..(s + n) - b
    BY <1>1, <1>3, <1>13
  <2>2. buffer[2] = <<"end", a>>
    BY <1>9, <1>10, <2>1
  <2>3. o = 2
    <3>1. 1 \in 1..Len(buffer) /\ 2 \in 1..Len(buffer) /\ buffer[1][1] # "end" /\ buffer[2][1] = "end"
      BY <1>10, <1>11, <2>1, <2>2
    <3>2. o \in 1..Len(buffer) /\ buffer[o][1] = "end" /\ \A j \in 1..Len(buffer) : j < o => buffer[j][1] # "end"
      BY <1>10, <3>1 DEF FirstEnd
    <3>3. ~(2 < o) /\ o # 1
      BY <3>1, <3>2
    <3>4. o \in Nat /\ o >= 1
      BY <1>10, <3>2
    <3> QED
      BY <3>3, <3>4
  <2>4. client' = [client EXCEPT !.pc = "idle", !.result = ResultOf(a),
                            !.buffer = IF ResultOf(a).kind = "Err" THEN buffer ELSE Advance(buffer, o),
                            !.ext = ConfiguredBy(answers[a])]
    <3>1. buffer[1][1] # "data" /\ o # 0 /\ buffer[o][2] = a
      BY <1>11, <2>2, <2>3
    <3> QED
      BY <1>5, <3>1, Zenon DEF Reads
  <2>5. PICK rest : client' = [client EXCEPT !.pc = "idle", !.result = ResultOf(attempts), !.buffer = rest,
                                             !.ext = ConfiguredBy(answers[attempts])]
    BY <1>2, <2>4, Zenon
  <2>6. ~(seen + n < 2 * attempts)
    BY <1>2, <1>13
  <2> QED
    BY <1>1, <1>2, <1>6, <1>8, <2>5, <2>6, Zenon DEF ReadsAnswer
<1> QED
  BY <1>12, <1>13

LEMMA FlowRead ==
  ASSUME Native, NEW n \in 1..BLOCK_SIZE, ReadResponse(n)
  PROVE  Flow'
<1>1. ReadsAnswer(n) /\ Known /\ client \in Clients
  BY AnswerRead DEF Native, BaseInv, KnownInv, Known
<1>2. PICK a \in Nat, s \in Nat, d \in Nat : a = attempts /\ a = Len(answers) /\ s = seen /\ d = Len(down)
  BY <1>1, Numbers DEF ReadsAnswer
<1>3. /\ a > 0 /\ n \in Nat /\ s + n <= d /\ seen' = s + n
      /\ UNCHANGED <<vars, setup, left, attempts, server, request, answers, down, hungup, builder>>
  BY <1>1, <1>2 DEF ReadsAnswer
<1>4. Served' /\ Matched' /\ Responded'
  <2>1. client'.pc = client.pc \/ attempts # Len(answers) + 1
    BY <1>2
  <2>2. Served'
    BY <1>3 DEF Native, Served, Common, vars
  <2>3. Matched'
    BY <1>3, <2>1 DEF Native, Matched, vars
  <2>4. Responded'
    BY <1>3 DEF Native, Responded, Answering, Good, Plain
  <2> QED
    BY <2>2, <2>3, <2>4
<1>5. PICK buffer :
        \/ /\ seen + n < 2 * attempts /\ IsSlice(buffer, 2 * (attempts - 1), seen + n) /\ 2 * (attempts - 1) <= seen + n
           /\ client' = [client EXCEPT !.buffer = buffer]
        \/ /\ ~(seen + n < 2 * attempts)
           /\ client' = [client EXCEPT !.pc = "idle", !.result = ResultOf(attempts), !.buffer = buffer,
                                       !.ext = ConfiguredBy(answers[attempts])]
  BY <1>1 DEF ReadsAnswer
<1>6. CASE seen + n < 2 * attempts
  <2>1. client' = [client EXCEPT !.buffer = buffer] /\ IsSlice(buffer, 2 * (attempts - 1), seen + n) /\ 2 * (attempts - 1) <= seen + n
    BY <1>5, <1>6
  <2>2. client'.pc = "waiting" /\ client'.buffer = buffer
    BY <1>1, <2>1 DEF Clients, ReadsAnswer
  <2>3. Told'
    BY <2>2 DEF Told
  <2>4. IsSlice(client.buffer, 2 * (attempts - 1), seen)'
    BY <1>2, <1>3, <2>1, <2>2 DEF IsSlice
  <2>5. Listening'
    BY <1>2, <1>3, <1>6, <2>1, <2>4 DEF Listening
  <2> QED
    BY <1>4, <2>3, <2>5 DEF Flow
<1>7. CASE ~(seen + n < 2 * attempts)
  <2>1. client'.pc = "idle" /\ client'.result = ResultOf(attempts)
    BY <1>1, <1>5, <1>7 DEF Clients
  <2>2. /\ ResultOf(attempts).kind = "Accepted" <=> server.accepted
        /\ server.accepted => ResultOf(attempts).protocol = server.protocol
        /\ ResultOf(attempts).kind = "Rejected" => ResultOf(attempts).code = RejectCode(server.refused)
        /\ ResultOf(attempts).kind # "none"
    BY <1>1, ResponseUnderstood DEF ReadsAnswer
  <2>3. ResultOf(attempts).kind = "Rejected" => seen' = Len(down)
    <3>1. ASSUME ~server.accepted PROVE s + n = d
      <4>1. d = 2 * a
        BY <1>2, <3>1 DEF Native, Matched
      <4> QED
        BY <1>2, <1>3, <1>7, <4>1
    <3> QED
      BY <1>2, <1>3, <2>2, <3>1
  <2>4. Told'
    BY <1>1, <1>3, <2>1, <2>2, <2>3 DEF Told, ReadsAnswer
  <2>5. Listening'
    BY <2>1 DEF Listening
  <2> QED
    BY <1>4, <2>4, <2>5 DEF Flow
<1> QED
  BY <1>6, <1>7

\* The socket is closed: the server has not accepted.
LEMMA FlowEof ==
  ASSUME Native, ReadResponseEof
  PROVE  Flow'
<1>1. /\ UNCHANGED <<vars, setup, left, attempts, server, request, answers, down, seen, hungup, builder>>
      /\ hungup /\ client.pc = "waiting" /\ client' = [client EXCEPT !.pc = "idle", !.result = Result("Err")]
  BY DEF ReadResponseEof
<1>2. client'.pc = "idle" /\ client'.result.kind = "Err"
  BY <1>1 DEF Native, BaseInv, KnownInv, Known, Clients, Result
<1>3. ~server.accepted
  BY <1>1 DEF Native, Served
<1>4. Served'
  BY <1>1 DEF Native, Served, Common, vars
<1>5. Matched'
  BY <1>1 DEF Native, Matched, vars
<1>6. Responded'
  BY <1>1 DEF Native, Responded, Answering, Good, Plain
<1>7. Listening' /\ Told'
  BY <1>1, <1>2, <1>3 DEF Listening, Told
<1> QED
  BY <1>4, <1>5, <1>6, <1>7 DEF Flow

\* receive_request returns.
LEMMA FlowDecoded ==
  ASSUME Native, NEW outcome, NEW configured, NEW proposed, server' = Decoded(outcome, configured, proposed),
         UNCHANGED <<stream, setup, attempts, client, request, answers, down, seen, hungup, builder>>,
         pc \notin {"Complete", "Partial"}, pc' \in {"Complete", "Partial"}, ~hungup, stream # <<>>,
         outcome = "Ok" => request.key # <<>>, \A p \in ToSet(proposed) : Common(<<p>>)
  PROVE  Flow'
<1>1. ~server.accepted /\ server.result = "none"
  BY DEF Native, Served
<1>2. Known
  BY DEF Native, BaseInv, KnownInv
<1>3. /\ server'.result = outcome /\ server'.proposed = proposed
      /\ server'.key = IF request.key = <<>> THEN 0 ELSE Head(request.key)
      /\ server'.accepted = server.accepted /\ server'.protocol = server.protocol /\ server'.refused = server.refused
  BY <1>2, DecodedIs
<1>4. request.key # <<>> => Head(request.key) = attempts
  <2>1. request.key \in Seq(Nat)
    BY <1>2 DEF Known, AnyRequest
  <2>2. request.key # <<>> => 1 \in 1..Len(request.key) /\ Head(request.key) = request.key[1]
    BY <2>1
  <2> QED
    BY <2>2 DEF Native, Keys
<1>5. Served'
  <2>1. outcome = "Ok" => server'.key = attempts
    BY <1>3, <1>4
  <2> QED
    BY <1>1, <1>3, <2>1 DEF Native, Served, Common
<1>6. Matched'
  BY <1>3 DEF Native, Matched
<1>7. Responded'
  BY <1>3 DEF Native, Responded, Answering, Good, Plain
<1>8. Listening' /\ Told'
  BY <1>3 DEF Native, Listening, Told, IsSlice
<1> QED
  BY <1>5, <1>6, <1>7, <1>8 DEF Flow

\* What the server finds in a request of this library is a protocol of both ends.
LEMMA ProposedCommon ==
  ASSUME Native, NEW p \in ToSet(Proposed(request))
  PROVE  Common(<<p>>)
<1> DEFINE T == Seq(STRING)
           values == request.protocol
           f == Found(values, setup.serverProtocols)
<1>1. setup.clientProtocols \in T /\ values \in {<<>>, <<setup.clientProtocols>>} /\ values \in Seq(T)
  BY SetupIs DEF Native, BaseInv, KnownInv, Known, Served, AnyRequest
<1>2. /\ f[0] = <<>>
      /\ \A i \in 1..Len(values) : f[i] = IF \E q \in setup.serverProtocols : values[i] = <<q>> THEN f[i - 1] \o values[i]
                                          ELSE f[i - 1]
  BY <1>1, FoundIs
<1>3. p \in ToSet(f[Len(values)])
  BY DEF Proposed
<1>4. ToSet(<<>>) = {}
  BY DEF ToSet
<1> HIDE DEF f, values, T
<1>5. values = <<setup.clientProtocols>>
  <2>1. CASE values = <<>>
    <3>1. Len(values) = 0
      BY <2>1
    <3> QED
      BY <1>2, <1>3, <1>4, <3>1
  <2> QED
    BY <1>1, <2>1
<1>6. Len(values) = 1 /\ values[1] = setup.clientProtocols
  BY <1>5
<1>7. f[1] = IF \E q \in setup.serverProtocols : setup.clientProtocols = <<q>> THEN f[0] \o setup.clientProtocols ELSE f[0]
  <2>1. 1 \in 1..Len(values) /\ 1 - 1 = 0
    BY <1>6
  <2> QED
    BY <1>2, <1>6, <2>1
<1>8. PICK q \in setup.serverProtocols : setup.clientProtocols = <<q>>
  BY <1>2, <1>3, <1>4, <1>6, <1>7
<1>9. f[1] = <<q>>
  <2>1. <<>> \o <<q>> = <<q>>
    OBVIOUS
  <2> QED
    BY <1>2, <1>7, <1>8, <2>1
<1>10. p = q /\ q \in ToSet(setup.clientProtocols)
  <2>1. ToSet(<<q>>) = {q}
    BY DEF ToSet
  <2> QED
    BY <1>3, <1>6, <1>8, <1>9, <2>1
<1> QED
  BY <1>10 DEF Common

LEMMA FlowDecode ==
  ASSUME Native, Decode \/ HttpReceiveRequest
  PROVE  Flow'
<1>1. Known /\ TypeOK /\ CurrentInv
  BY DEF Native, BaseInv, KnownInv, ScanInv
<1>2. stream \in Seq(STRING) /\ Len(stream) \in Nat /\ got \in 0..Len(stream)
  BY <1>1, RequestScanAssumption DEF TypeOK
<1>3. CASE Decode
  <2> DEFINE outcome == IF pc' = "Complete" THEN RequestOutcome(request) ELSE "IncompleteHttpRequest"
  <2>1. /\ server' = Decoded(outcome, outcome \in {"Ok", "Utf8"}, Proposed(request)) /\ ~hungup
        /\ UNCHANGED <<stream, setup, attempts, client, request, answers, down, seen, hungup, builder>>
        /\ pc = "decode" /\ pc' \in {"Complete", "Partial"}
    BY <1>3 DEF Decode, DecodeRequest, Serving
  <2>2. stream # <<>>
    BY <1>1, <1>2, <2>1 DEF CurrentInv, Pos
  <2>3. outcome = "Ok" => request.key # <<>>
    BY DEF RequestOutcome, Check
  <2>4. \A p \in ToSet(Proposed(request)) : Common(<<p>>)
    BY ProposedCommon
  <2> HIDE DEF outcome
  <2> QED
    BY <2>1, <2>2, <2>3, <2>4, FlowDecoded
<1>4. CASE HttpReceiveRequest
  <2>1. /\ server' = Decoded(HttpOutcome(request), HttpOutcome(request) = "Ok", <<>>) /\ ~hungup
        /\ UNCHANGED <<stream, setup, attempts, client, request, answers, down, seen, hungup, builder>>
        /\ pc = "read" /\ pc' = "Complete" /\ HasTail(0, Len(stream))
    BY <1>4 DEF HttpReceiveRequest, Serving
  <2>2. stream # <<>>
    BY <1>2, <2>1 DEF HasTail
  <2>3. HttpOutcome(request) = "Ok" => request.key # <<>>
    BY DEF HttpOutcome, Check
  <2>4. \A p \in ToSet(<<>>) : Common(<<p>>)
    BY DEF ToSet
  <2> QED
    BY <2>1, <2>2, <2>3, <2>4, FlowDecoded
<1> QED
  BY <1>3, <1>4

\* The server answers the last request.
LEMMA OneResponse ==
  ASSUME Native, server.result # "none", NEW r \in AnyResponse, Respond(<<r>>)
  PROVE  /\ ~server.accepted /\ ~builder["server"].made /\ client.pc = "waiting" /\ stream # <<>>
         /\ attempts > 0 /\ Len(answers') = attempts /\ answers'[attempts] = r
         /\ Len(down') = 2 * attempts /\ down'[2 * attempts - 1] = <<"head", attempts>> /\ down'[2 * attempts] = <<"end", attempts>>
         /\ 2 * (attempts - 1) <= seen /\ seen < 2 * attempts
         /\ Len(client.buffer) = seen - 2 * (attempts - 1)
         /\ \A i \in 1..seen - 2 * (attempts - 1) : client.buffer[i] = down'[2 * (attempts - 1) + i]
<1>1. Known /\ PiecesSent /\ attempts \in Nat
  BY DEF Native, BaseInv, KnownInv, Known
<1>2. ~server.accepted /\ ~hungup /\ stream # <<>>
  BY DEF Native, Served
<1>3. client.pc = "waiting" /\ attempts = Len(answers) + 1 /\ Len(down) = 2 * Len(answers) /\ ~builder["server"].made
  BY <1>2 DEF Native, Matched
<1>4. PICK m \in Nat : m = Len(answers)
  BY <1>1, Numbers
<1>5. attempts = m + 1 /\ Len(down) = 2 * m /\ 2 * (attempts - 1) = 2 * m
  BY <1>3, <1>4
<1>6. <<r>> \in Seq(AnyResponse) /\ Len(<<r>>) = 1 /\ <<r>>[1] = r
  OBVIOUS
<1>7. Grows /\ Adds(<<r>>)
  BY <1>1, <1>6, Responds
<1>8. Len(answers') = m + 1 /\ answers'[m + 1] = r
  <2>1. 1 \in 1..1
    OBVIOUS
  <2> QED
    BY <1>4, <1>6, <1>7, <2>1 DEF Adds
<1>9. Len(down') = 2 * m + 2 /\ down'[2 * m + 1] = <<"head", m + 1>> /\ down'[2 * m + 2] = <<"end", m + 1>>
  <2>1. /\ Len(down') = 2 * m + 2 * 1
        /\ \A k \in 1..2 * 1 : down'[2 * m + k] = <<IF k % 2 = 1 THEN "head" ELSE "end", (m + 1) + (k - 1) \div 2>>
    BY <1>4, <1>5, <1>6, <1>7, Zenon DEF Adds
  <2>2. 1 \in 1..2 * 1 /\ 2 \in 1..2 * 1 /\ 1 % 2 = 1 /\ 2 % 2 = 0 /\ (1 - 1) \div 2 = 0 /\ (2 - 1) \div 2 = 0 /\ 2 * 1 = 2
    OBVIOUS
  <2>3. down'[2 * m + 1] = <<"head", (m + 1) + 0>> /\ down'[2 * m + 2] = <<"end", (m + 1) + 0>>
    BY <2>1, <2>2
  <2> QED
    BY <2>1, <2>2, <2>3
<1>10. 2 * (attempts - 1) <= seen /\ seen < 2 * attempts /\ IsSlice(client.buffer, 2 * (attempts - 1), seen)
  BY <1>3 DEF Native, Listening
<1>11. /\ Len(client.buffer) = seen - 2 * (attempts - 1)
       /\ \A i \in 1..seen - 2 * (attempts - 1) : client.buffer[i] = down'[2 * (attempts - 1) + i]
  <2>1. 2 * (attempts - 1) \in Nat
    BY <1>5
  <2> QED
    BY <1>1, <1>7, <1>10, <2>1, SliceStays
<1>12. 2 * attempts = 2 * m + 2 /\ 2 * attempts - 1 = 2 * m + 1 /\ attempts > 0
  BY <1>5
<1> QED
  BY <1>2, <1>3, <1>5, <1>8, <1>9, <1>10, <1>11, <1>12

\* The parts of the flow that do not depend on what is answered.
LEMMA FlowAnswered ==
  ASSUME Native, server.result # "none", NEW r \in AnyResponse, Respond(<<r>>),
         UNCHANGED <<setup, attempts, client, request, seen, builder>>, server'.result = "none",
         server'.accepted => hungup' = FALSE /\ UNCHANGED vars, ~server'.accepted => stream' = <<>>
  PROVE  /\ Matched' /\ Listening' /\ Told' /\ attempts' = Len(answers') /\ attempts > 0 /\ answers'[attempts'] = r
         /\ 2 * attempts' <= Len(down') /\ down'[2 * attempts' - 1] = <<"head", attempts'>>
         /\ down'[2 * attempts'] = <<"end", attempts'>>
<1>1. /\ ~server.accepted /\ ~builder["server"].made /\ client.pc = "waiting" /\ stream # <<>>
      /\ attempts > 0 /\ Len(answers') = attempts /\ answers'[attempts] = r
      /\ Len(down') = 2 * attempts /\ down'[2 * attempts - 1] = <<"head", attempts>> /\ down'[2 * attempts] = <<"end", attempts>>
      /\ 2 * (attempts - 1) <= seen /\ seen < 2 * attempts
      /\ Len(client.buffer) = seen - 2 * (attempts - 1)
      /\ \A i \in 1..seen - 2 * (attempts - 1) : client.buffer[i] = down'[2 * (attempts - 1) + i]
  BY OneResponse
<1>2. attempts \in Nat
  BY DEF Native, BaseInv, KnownInv, Known
<1>3. Matched'
  BY <1>1 DEF Matched
<1>4. Listening'
  BY <1>1 DEF Listening, IsSlice
<1>5. Told'
  BY <1>1 DEF Told
<1>6. 2 * attempts <= 2 * attempts
  BY <1>2
<1> QED
  BY <1>1, <1>3, <1>4, <1>5, <1>6

LEMMA FlowAccept ==
  ASSUME Native, NEW protocol \in {<<>>} \union { <<p>> : p \in ToSet(server.proposed) }, Accept(protocol)
  PROVE  Flow'
<1>0. PICK r : r = AcceptResponse(protocol)
  OBVIOUS
<1>1. /\ server.result = "Ok" /\ Respond(<<r>>) /\ ~hungup
      /\ server' = [server EXCEPT !.result = "none", !.accepted = TRUE, !.protocol = protocol]
      /\ UNCHANGED <<vars, setup, left, attempts, client, request, seen, hungup, builder>>
  BY <1>0 DEF Accept
<1>2. Known /\ server \in Servers /\ hungup \in BOOLEAN
  BY DEF Native, BaseInv, KnownInv, Known
<1>3. /\ server'.result = "none" /\ server'.accepted = TRUE /\ server'.protocol = protocol /\ server'.key = server.key
  BY <1>1, <1>2 DEF Servers
<1>4. r \in AnyResponse
  BY <1>0, <1>2, ProtocolIs, AcceptResponseTyped
<1>5. /\ Matched' /\ Listening' /\ Told' /\ attempts' = Len(answers') /\ attempts > 0 /\ answers'[attempts'] = r
      /\ 2 * attempts' <= Len(down') /\ down'[2 * attempts' - 1] = <<"head", attempts'>>
      /\ down'[2 * attempts'] = <<"end", attempts'>>
  BY <1>1, <1>2, <1>3, <1>4, FlowAnswered
<1>6. server.key = attempts /\ Common(protocol)
  <2>1. server.key = attempts /\ \A p \in ToSet(server.proposed) : Common(<<p>>)
    BY <1>1 DEF Native, Served
  <2>2. CASE protocol = <<>>
    BY <2>1, <2>2 DEF Common
  <2>3. CASE protocol # <<>>
    BY <2>1, <2>3
  <2> QED
    BY <2>2, <2>3
<1>7. Served'
  BY <1>1, <1>2, <1>3, <1>6 DEF Native, Served, Common, vars
<1>8. Good(r)'
  <2>1. /\ r.parses = TRUE /\ r.version = 1 /\ r.code = 101 /\ r.upgrade = <<{"websocket"}>> /\ r.connection = <<{"upgrade"}>>
        /\ r.accept = <<AcceptKey(server.key)>> /\ r.protocol = (IF protocol = <<>> THEN <<>> ELSE <<protocol>>)
        /\ r.extensions = IF setup.http THEN HttpExtensions ELSE ServerExtensions
    BY <1>0 DEF AcceptResponse, Plain
  <2>2. ~Unreadable(r.extensions)
    <3>1. \A ps : Entry(ps).name # NotUtf8
      BY DEF Entry, Deflate, NotUtf8
    <3>2. \A e : ToSet(<<e>>) = {e}
      BY DEF ToSet
    <3>3. ToSet(<<>>) = {}
      BY DEF ToSet
    <3>4. ~Unreadable(ServerExtensions)
      BY <3>1, <3>2, <3>3 DEF Unreadable, ServerExtensions
    <3>5. ~Unreadable(HttpExtensions)
      <4>1. PICK blank : blank = [name |-> "", params |-> <<>>]
        OBVIOUS
      <4>2. blank.name # NotUtf8
        BY <4>1 DEF NotUtf8
      <4>3. ~Unreadable(<<blank>>)
        <5>1. ToSet(<<blank>>) = {blank}
          BY <3>2
        <5> QED
          BY <4>2, <5>1, Zenon DEF Unreadable
      <4> QED
        BY <3>4, <4>1, <4>3 DEF HttpExtensions
    <3> QED
      BY <2>1, <3>4, <3>5
  <2> QED
    BY <1>1, <1>3, <1>6, <2>1, <2>2 DEF Good
<1>9. Responded'
  <2>1. Answering(attempts)'
    BY <1>3, <1>5, <1>8 DEF Answering
  <2> QED
    BY <2>1 DEF Responded
<1> QED
  BY <1>5, <1>7, <1>9 DEF Flow

LEMMA FlowReject ==
  ASSUME Native, NEW code \in Codes \union {200}, NEW drop \in BOOLEAN, Reject(code, drop)
  PROVE  Flow'
<1> DEFINE r == Plain(RejectCode(code))
<1>1. /\ server.result # "none" /\ Respond(<<r>>)
      /\ server' = [server EXCEPT !.result = "none", !.refused = code] /\ stream' = <<>>
      /\ UNCHANGED <<setup, left, attempts, client, request, seen, builder>>
  BY DEF Reject
<1>2. Known /\ server \in Servers /\ ~server.accepted
  BY <1>1 DEF Native, BaseInv, KnownInv, Known, Served
<1>3. server'.result = "none" /\ ~server'.accepted /\ server'.refused = code
  BY <1>1, <1>2 DEF Servers
<1>4. r \in AnyResponse
  <2>1. code \in Nat
    BY HandshakeAssumption
  <2> QED
    BY <1>2, <2>1, RejectCodeTyped, PlainTyped
<1> HIDE DEF r
<1>5. /\ Matched' /\ Listening' /\ Told' /\ attempts' = Len(answers') /\ attempts > 0 /\ answers'[attempts'] = r
      /\ 2 * attempts' <= Len(down') /\ down'[2 * attempts' - 1] = <<"head", attempts'>>
      /\ down'[2 * attempts'] = <<"end", attempts'>>
  BY <1>1, <1>2, <1>3, <1>4, FlowAnswered
<1>6. Served'
  BY <1>1, <1>3 DEF Native, Served
<1>7. Responded'
  <2>1. r = Plain(RejectCode(server.refused))'
    BY <1>1, <1>3 DEF r, Plain
  <2>2. Answering(attempts)'
    BY <1>3, <1>5, <2>1 DEF Answering
  <2> QED
    BY <2>2 DEF Responded
<1> QED
  BY <1>5, <1>6, <1>7 DEF Flow

\* The application drops a request: it has not accepted it.
LEMMA FlowHangUp ==
  ASSUME Native, HangUp
  PROVE  Flow'
<1>1. /\ UNCHANGED <<vars, setup, left, attempts, client, request, answers, down, seen, builder>>
      /\ server.result # "none" \/ pc = "Err"
      /\ hungup' = TRUE /\ server' = [server EXCEPT !.result = "none"]
  BY DEF HangUp
<1>2. ~server.accepted
  BY <1>1 DEF Native, Served
<1>3. server'.result = "none" /\ ~server'.accepted /\ server'.refused = server.refused /\ server'.protocol = server.protocol
  BY <1>1, <1>2 DEF Native, BaseInv, KnownInv, Known, Servers
<1>4. Served'
  BY <1>1, <1>3 DEF Native, Served
<1>5. Matched'
  BY <1>1, <1>2, <1>3 DEF Native, Matched, vars
<1>6. Responded'
  BY <1>1, <1>2, <1>3 DEF Native, Responded, Answering, Plain
<1>7. Listening' /\ Told'
  BY <1>1, <1>2, <1>3 DEF Native, Listening, Told, IsSlice
<1> QED
  BY <1>4, <1>5, <1>6, <1>7 DEF Flow

\* What follows a response: it has been accepted.
LEMMA FlowData ==
  ASSUME Native, SendData
  PROVE  Flow'
<1>1. /\ UNCHANGED <<vars, setup, attempts, client, server, request, answers, seen, hungup, builder>> /\ builder["server"].made
  BY DEF SendData, Native
<1>2. server.accepted
  BY <1>1 DEF Native, Matched
<1>3. Known /\ Grows /\ Len(down') = Len(down) + 1
  BY DataGrows DEF Native, BaseInv, KnownInv
<1>4. PICK a \in Nat, d \in Nat : a = attempts /\ d = Len(down)
  BY <1>3, Numbers
<1>5. Served'
  BY <1>1 DEF Native, Served, Common, vars
<1>6. Matched'
  BY <1>1, <1>2 DEF Native, Matched, vars
<1>7. Responded'
  <2> SUFFICES ASSUME attempts = Len(answers), attempts > 0 PROVE Answering(attempts)'
    BY <1>1 DEF Responded
  <2>1. Answering(attempts)
    BY DEF Native, Responded
  <2>2. 2 * a <= d + 1 /\ 2 * a \in 1..Len(down) /\ 2 * a - 1 \in 1..Len(down)
    BY <1>4, <2>1 DEF Answering
  <2>3. down'[2 * a] = down[2 * a] /\ down'[2 * a - 1] = down[2 * a - 1]
    BY <1>3, <2>2 DEF Grows
  <2> QED
    BY <1>1, <1>2, <1>3, <1>4, <2>1, <2>2, <2>3 DEF Answering, Good
<1>8. Listening'
  <2> SUFFICES ASSUME client.pc = "waiting"
               PROVE  /\ attempts > 0 /\ 2 * (attempts - 1) <= seen /\ seen < 2 * attempts
                      /\ IsSlice(client.buffer, 2 * (attempts - 1), seen)'
    BY <1>1 DEF Listening
  <2>1. /\ attempts > 0 /\ 2 * (attempts - 1) <= seen /\ seen < 2 * attempts
        /\ IsSlice(client.buffer, 2 * (attempts - 1), seen)
    BY DEF Native, Listening
  <2>2. 2 * (attempts - 1) \in Nat
    BY <1>4, <2>1
  <2>3. /\ Len(client.buffer) = seen - 2 * (attempts - 1)
        /\ \A i \in 1..seen - 2 * (attempts - 1) : client.buffer[i] = down'[2 * (attempts - 1) + i]
    BY <1>3, <2>1, <2>2, SliceStays
  <2> QED
    BY <1>1, <2>1, <2>3 DEF IsSlice
<1>9. Told'
  BY <1>1, <1>2 DEF Native, Told
<1> QED
  BY <1>5, <1>6, <1>7, <1>8, <1>9 DEF Flow

LEMMA FlowNext == BaseInv /\ Keys /\ CurrentInv /\ Flow /\ [HandshakeNext]_allVars => Flow'
<1> SUFFICES ASSUME BaseInv, Keys, CurrentInv, Flow, [HandshakeNext]_allVars PROVE Flow'
  OBVIOUS
<1>1. Known /\ client \in Clients
  BY DEF BaseInv, KnownInv, Known
<1>2. setup' = setup
  BY HandshakeSteps DEF HandshakeCases, SetMaxServerWindowBits, SetMaxClientWindowBits, SendRequest, ReadResponse, ReadResponseEof,
     ReceiveRequest, handshakeVars, Decode, HttpReceiveRequest, Accept, Reject, HangUp, ClientIntoBuilder, ServerIntoBuilder, Build,
     SendData, ForeignRequest, ForeignAnswer, ForeignHangUp, allVars
<1>3. CASE setup.foreign # "none"
  BY <1>2, <1>3 DEF Flow
<1>4. CASE setup.foreign = "none"
  <2>1. Native
    BY <1>4 DEF Flow, Native
  <2>2. ASSUME NEW max \in Bits, SetMaxServerWindowBits(max) \/ SetMaxClientWindowBits(max) PROVE Flow'
    <3>1. client'.pc = client.pc /\ client'.result = client.result /\ client'.buffer = client.buffer
      BY <1>1, <2>2 DEF SetMaxServerWindowBits, SetMaxClientWindowBits, Clients
    <3> QED
      BY <2>1, <2>2, <3>1, FlowQuiet DEF SetMaxServerWindowBits, SetMaxClientWindowBits, vars
  <2>3. CASE SendRequest
    BY <2>1, <2>3, FlowSend
  <2>4. ASSUME NEW n \in 1..BLOCK_SIZE, ReadResponse(n) PROVE Flow'
    BY <2>1, <2>4, FlowRead
  <2>5. CASE ReadResponseEof
    BY <2>1, <2>5, FlowEof
  <2>6. CASE ReceiveRequest
    <3>1. stream' = stream /\ pc \notin {"Complete", "Partial"} /\ UNCHANGED handshakeVars
      BY <2>6 DEF ReceiveRequest, Read, Scan, ReadEof
    <3>2. ~(server.result # "none" \/ server.accepted)
      BY <2>1, <3>1 DEF Native, Served
    <3> QED
      BY <2>1, <3>1, <3>2, FlowQuiet DEF handshakeVars
  <2>7. CASE Decode \/ HttpReceiveRequest
    BY <2>1, <2>7, FlowDecode
  <2>8. ASSUME NEW protocol \in {<<>>} \union { <<p>> : p \in ToSet(server.proposed) }, Accept(protocol) PROVE Flow'
    BY <2>1, <2>8, FlowAccept
  <2>9. ASSUME NEW code \in Codes \union {200}, NEW drop \in BOOLEAN, Reject(code, drop) PROVE Flow'
    BY <2>1, <2>9, FlowReject
  <2>10. CASE HangUp
    BY <2>1, <2>10, FlowHangUp
  <2>11. CASE ClientIntoBuilder \/ ServerIntoBuilder \/ UNCHANGED allVars
    <3>1. UNCHANGED <<vars, setup, attempts, answers, down, seen, server, client, hungup, request>>
      BY <2>11 DEF ClientIntoBuilder, ServerIntoBuilder, Build, allVars, handshakeVars
    <3>2. ~server.accepted => builder'["server"] = builder["server"]
      <4>1. CASE ClientIntoBuilder
        BY <1>1, <4>1 DEF ClientIntoBuilder, Build, Known
      <4>2. CASE ServerIntoBuilder
        BY <4>2 DEF ServerIntoBuilder
      <4>3. CASE UNCHANGED allVars
        BY <4>3 DEF allVars, handshakeVars
      <4> QED
        BY <2>11, <4>1, <4>2, <4>3
    <3> QED
      BY <2>1, <3>1, <3>2, FlowQuiet DEF vars
  <2>12. CASE SendData
    BY <2>1, <2>12, FlowData
  <2>13. ~ForeignRequest /\ ~ForeignAnswer /\ ~ForeignHangUp
    BY <1>4 DEF ForeignRequest, ForeignAnswer, ForeignHangUp
  <2> QED
    BY HandshakeSteps, <2>2, <2>3, <2>4, <2>5, <2>6, <2>7, <2>8, <2>9, <2>10, <2>11, <2>12, <2>13 DEF HandshakeCases
<1> QED
  BY <1>3, <1>4

\* Two ends of this library, with either server, agree how the handshake ended, whatever
\* the chunking, the number of attempts and the answers of the application.
THEOREM EndsAgree == HandshakeSpec => []SameOutcome
<1> DEFINE Inv == BaseInv /\ Keys /\ CurrentInv /\ Flow
<1>1. HandshakeInit => Inv
  BY BaseInit, KeysInit, CurrentInit, FlowInit
<1>2. Inv /\ [HandshakeNext]_allVars => Inv'
  BY BaseNext, KeysNext, CurrentNext, FlowNext
<1>3. ASSUME Inv PROVE SameOutcome
  <2> SUFFICES ASSUME setup.foreign = "none", client.pc = "idle"
               PROVE  /\ (client.result.kind = "Accepted") = server.accepted
                      /\ server.accepted =>
                           /\ server.key = client.nonce
                           /\ client.result.protocol = server.protocol
                           /\ ToSet(server.protocol) \subseteq ToSet(setup.clientProtocols) \intersect setup.serverProtocols
                      /\ client.result.kind = "Rejected" => client.result.code = RejectCode(server.refused)
    BY DEF SameOutcome
  <2>1. Served /\ Told /\ client.nonce = attempts
    BY <1>3 DEF Flow, Keys
  <2>2. server.accepted \in BOOLEAN
    BY <1>3 DEF BaseInv, KnownInv, Known, Servers
  <2>3. ASSUME server.accepted
        PROVE  ToSet(server.protocol) \subseteq ToSet(setup.clientProtocols) \intersect setup.serverProtocols
    <3>1. ToSet(<<>>) = {} /\ \A p : ToSet(<<p>>) = {p}
      BY DEF ToSet
    <3>2. CASE server.protocol = <<>>
      <4>1. ToSet(server.protocol) = {}
        BY <3>1, <3>2
      <4> QED
        BY <4>1
    <3>3. CASE server.protocol # <<>>
      <4>1. PICK p \in ToSet(setup.clientProtocols) \intersect setup.serverProtocols : server.protocol = <<p>>
        BY <2>1, <2>3, <3>3 DEF Served, Common
      <4>2. ToSet(server.protocol) = {p}
        BY <3>1, <4>1
      <4> QED
        BY <4>2
    <3> QED
      BY <3>2, <3>3
  <2> QED
    BY <2>1, <2>2, <2>3 DEF Served, Told
<1> HIDE DEF Inv
<1> QED
  BY <1>1, <1>2, <1>3, PTL DEF HandshakeSpec

-----------------------------------------------------------------------------
(* Two ends of this library agree on compression.                          *)

\* What a client of this library offers, when these are its windows.
Offers(params, ours, theirs) ==
  /\ params \in Seq(AnyParam)
  /\ Len(params) \in {3, 4}
  /\ params[1] = Param("server_no_context_takeover", None)
  /\ params[2] = Param("client_no_context_takeover", None)
  /\ \/ params[3] = Param("client_max_window_bits", ours)
     \/ params[3] = Param("client_max_window_bits", None) /\ ours = 15
  /\ Len(params) = 3 => theirs = 15
  /\ Len(params) = 4 => params[4] = Param("server_max_window_bits", theirs)

\* What a server answers to this: k is the length of the answer.
Confirming(params, k, theirs) ==
  /\ params \in Seq(AnyParam)
  /\ k \in {2, 3} /\ Len(params) = k
  /\ params[1] = Param("server_no_context_takeover", None)
  /\ params[2] = Param("client_no_context_takeover", None)
  /\ k = 3 => params[3] = Param("server_max_window_bits", theirs)

\* The server's extension is configured by the offer of the extension c of a client.
Configured(x, c) ==
  /\ x.enabled = TRUE
  /\ x.our_max_window_bits = c.their_max_window_bits /\ x.their_max_window_bits = c.our_max_window_bits
  /\ Confirming(x.params, Len(c.params) - 1, c.their_max_window_bits)

\* The server's extension is as new.
Unused(x) == x.enabled = FALSE /\ x.our_max_window_bits = 15 /\ x.their_max_window_bits = 15

BothDeflate == setup.clientDeflate /\ setup.serverDeflate

\* The client's windows are those of its offer.
Offered ==
  /\ Offers(client.ext.params, client.ext.our_max_window_bits, client.ext.their_max_window_bits)
  /\ Len(client.ext.params) + left.server <= 4
  /\ attempts > 0 => request.extensions = IF setup.clientDeflate THEN <<Entry(client.ext.params)>> ELSE <<>>
  /\ client.ext.enabled <=> (client.result.kind = "Accepted" /\ BothDeflate)
  /\ client.pc = "waiting" => client.result.kind # "Accepted"

\* The server's windows are its own or those of the offer.
Negotiated ==
  /\ Unused(server.ext) \/ (BothDeflate /\ attempts > 0 /\ Configured(server.ext, client.ext))
  /\ BothDeflate /\ (server.result = "Ok" \/ server.accepted) => Configured(server.ext, client.ext)

\* The answer is made of the server's extension, and so are both connections.
Confirmed ==
  /\ server.accepted => answers[attempts].extensions = IF setup.http THEN HttpExtensions ELSE ServerExtensions
  /\ builder["client"].made => client.result.kind = "Accepted" /\ (builder["client"].rsv1 <=> client.ext.enabled)
  /\ builder["server"].made => server.accepted /\ (builder["server"].rsv1 <=> server.ext.enabled)

Compression == setup.foreign = "none" => Offered /\ Negotiated /\ Confirmed

\* A parameter that the server confirms.
LEMMA Replies ==
  ASSUME NEW c \in Configs, ~c.stop, NEW p \in AnyParam
  PROVE  LET d == Reply(c, p) IN
         /\ ~d.stop /\ d.ext.params = Append(c.ext.params, p) /\ d.ext.enabled = c.ext.enabled
         /\ d.ext.our_max_window_bits = c.ext.our_max_window_bits /\ d.ext.their_max_window_bits = c.ext.their_max_window_bits
  BY DEF Reply, Configs, Exts

\* Whether it needs a context or not.
LEMMA TakeoverParam ==
  ASSUME NEW c \in Configs, ~c.stop, NEW name \in {"server_no_context_takeover", "client_no_context_takeover"},
         NEW p, p = Param(name, None), NEW d, d = ServerParam(c, p)
  PROVE  /\ ~d.stop /\ d.ext.params = Append(c.ext.params, p) /\ d.ext.enabled = c.ext.enabled
         /\ d.ext.our_max_window_bits = c.ext.our_max_window_bits /\ d.ext.their_max_window_bits = c.ext.their_max_window_bits
<1>1. p \in AnyParam /\ p.name = name
  BY DEF Param, AnyParam, None
<1>2. d = Reply(c, p)
  BY <1>1 DEF ServerParam
<1> QED
  BY <1>1, <1>2, Replies

\* The window of the client, in an offer.
LEMMA ClientBitsParam ==
  ASSUME NEW c \in Configs, ~c.stop, NEW value \in (9..15) \union {None}
  PROVE  LET d == ServerParam(c, Param("client_max_window_bits", value)) IN
         /\ ~d.stop /\ d.ext.params = c.ext.params /\ d.ext.enabled = c.ext.enabled
         /\ d.ext.our_max_window_bits = c.ext.our_max_window_bits
         /\ d.ext.their_max_window_bits = IF value = None THEN c.ext.their_max_window_bits ELSE value
<1> DEFINE p == Param("client_max_window_bits", value)
<1>1. p.name = "client_max_window_bits" /\ p.value = value
  BY DEF Param
<1> HIDE DEF p
<1>2. ServerParam(c, p) = SetTheirs(c, p, 255)
  BY <1>1 DEF ServerParam
<1>3. CASE value = None
  <2>1. SetTheirs(c, p, 255) = c
    BY <1>1, <1>3 DEF SetTheirs, None
  <2> QED
    BY <1>2, <1>3, <2>1 DEF p
<1>4. CASE value \in 9..15
  <2>1. ~(value > 255) /\ ~(value < 8) /\ ~(value > 15) /\ AtLeast9(value) = value /\ value # None
    BY <1>4 DEF AtLeast9, None
  <2>2. SetTheirs(c, p, 255) = [c EXCEPT !.ext.their_max_window_bits = value]
    BY <1>1, <2>1 DEF SetTheirs
  <2> QED
    BY <1>2, <2>1, <2>2 DEF p, Configs, Exts
<1> QED
  BY <1>3, <1>4

\* The window of the server, in an offer.
LEMMA ServerBitsParam ==
  ASSUME NEW c \in Configs, ~c.stop, NEW p \in AnyParam, p.name = "server_max_window_bits", p.value \in 9..15,
         NEW d, d = ServerParam(c, p)
  PROVE  /\ ~d.stop /\ d.ext.params = Append(c.ext.params, p) /\ d.ext.enabled = c.ext.enabled
         /\ d.ext.our_max_window_bits = p.value /\ d.ext.their_max_window_bits = c.ext.their_max_window_bits
<1>2. d = [Reply(c, p) EXCEPT !.ext.our_max_window_bits = p.value]
  BY DEF ServerParam
<1>3. Reply(c, p) \in Configs
  BY ReplyTyped
<1>4. LET e == Reply(c, p) IN
      /\ ~e.stop /\ e.ext.params = Append(c.ext.params, p) /\ e.ext.enabled = c.ext.enabled
      /\ e.ext.our_max_window_bits = c.ext.our_max_window_bits /\ e.ext.their_max_window_bits = c.ext.their_max_window_bits
  BY Replies
<1> QED
  BY <1>2, <1>3, <1>4 DEF Configs, Exts

\* These are the parameters of an answer.
Begins(params, k, p1, p2) ==
  params \in Seq(AnyParam) /\ Len(params) = k /\ (k > 0 => params[1] = p1) /\ (k > 1 => params[2] = p2)

LEMMA Longer ==
  ASSUME NEW params \in Seq(AnyParam), NEW p \in AnyParam, NEW k \in Nat, Len(params) = k
  PROVE  /\ Append(params, p) \in Seq(AnyParam) /\ Len(Append(params, p)) = k + 1 /\ Append(params, p)[k + 1] = p
         /\ \A i \in 1..k : Append(params, p)[i] = params[i]
  BY AppendProperties

\* The server accepts what a client of this library offers, with the windows that the
\* client has.
LEMMA OfferConfigures ==
  ASSUME NEW ext \in Exts, NEW params, NEW ours \in 9..15, NEW theirs \in 9..15, Offers(params, ours, theirs),
         ext.our_max_window_bits \in {15, theirs}, ext.their_max_window_bits \in {15, ours}
  PROVE  LET d == Configure("Server", ext, params) IN
         /\ d.enabled = TRUE /\ d.our_max_window_bits = theirs /\ d.their_max_window_bits = ours
         /\ Confirming(d.params, Len(params) - 1, theirs)
<1>1. PICK bare : bare = [ext EXCEPT !.params = <<>>]
  OBVIOUS
<1>2. /\ bare \in Exts /\ bare.params = <<>> /\ bare.our_max_window_bits = ext.our_max_window_bits
      /\ bare.their_max_window_bits = ext.their_max_window_bits
  <2>1. <<>> \in Seq(AnyParam)
    OBVIOUS
  <2> QED
    BY <1>1, <2>1 DEF Exts
<1>3. PICK f : f = Rounds("Server", bare, params)
  OBVIOUS
<1>4. params \in Seq(AnyParam) /\ Len(params) \in {3, 4}
  BY DEF Offers
<1>5. /\ f \in [0..Len(params) -> Configs] /\ f[0] = Start(bare)
      /\ \A i \in 1..Len(params) : f[i] = ServerParam(f[i - 1], params[i])
  BY <1>2, <1>3, <1>4, RoundsAre
<1>6. /\ f[0] \in Configs /\ f[1] \in Configs /\ f[2] \in Configs /\ f[3] \in Configs
      /\ f[1] = ServerParam(f[0], params[1]) /\ f[2] = ServerParam(f[1], params[2]) /\ f[3] = ServerParam(f[2], params[3])
  <2>1. /\ 0 \in 0..Len(params) /\ 1 \in 0..Len(params) /\ 2 \in 0..Len(params) /\ 3 \in 0..Len(params)
        /\ 1 \in 1..Len(params) /\ 2 \in 1..Len(params) /\ 3 \in 1..Len(params) /\ 1 - 1 = 0 /\ 2 - 1 = 1 /\ 3 - 1 = 2
    <3>1. PICK n \in Nat : n = Len(params) /\ n \in {3, 4}
      BY <1>4
    <3>2. /\ 0 \in 0..n /\ 1 \in 0..n /\ 2 \in 0..n /\ 3 \in 0..n /\ 1 \in 1..n /\ 2 \in 1..n /\ 3 \in 1..n
          /\ 1 - 1 = 0 /\ 2 - 1 = 1 /\ 3 - 1 = 2
      BY <3>1
    <3> QED
      BY <3>1, <3>2
  <2>2. f[0] \in Configs /\ f[1] \in Configs /\ f[2] \in Configs /\ f[3] \in Configs
    BY <1>5, <2>1
  <2>3. f[1] = ServerParam(f[1 - 1], params[1]) /\ f[2] = ServerParam(f[2 - 1], params[2]) /\ f[3] = ServerParam(f[3 - 1], params[3])
    BY <1>5, <2>1, Zenon
  <2> QED
    BY <2>1, <2>2, <2>3
<1>7. PICK p1, p2 : p1 = Param("server_no_context_takeover", None) /\ p2 = Param("client_no_context_takeover", None)
  OBVIOUS
<1>8. params[1] = p1 /\ params[2] = p2 /\ p1 \in AnyParam /\ p2 \in AnyParam
  BY <1>7 DEF Offers, Param, AnyParam, None
<1>9. ~f[0].stop /\ f[0].ext = bare
  BY <1>5 DEF Start
<1>10. /\ ~f[1].stop /\ Begins(f[1].ext.params, 1, p1, p2)
       /\ f[1].ext.our_max_window_bits = ext.our_max_window_bits /\ f[1].ext.their_max_window_bits = ext.their_max_window_bits
  <2>1. <<>> \in Seq(AnyParam) /\ Len(<<>>) = 0 /\ 0 + 1 = 1
    OBVIOUS
  <2>2. Begins(Append(<<>>, p1), 1, p1, p2)
    BY <1>8, <2>1, Longer DEF Begins
  <2>3. /\ ~f[1].stop /\ f[1].ext.params = Append(f[0].ext.params, p1)
        /\ f[1].ext.our_max_window_bits = f[0].ext.our_max_window_bits /\ f[1].ext.their_max_window_bits = f[0].ext.their_max_window_bits
    BY <1>6, <1>7, <1>8, <1>9, TakeoverParam
  <2> QED
    BY <1>2, <1>9, <2>2, <2>3
<1>11. /\ ~f[2].stop /\ Begins(f[2].ext.params, 2, p1, p2)
       /\ f[2].ext.our_max_window_bits = ext.our_max_window_bits /\ f[2].ext.their_max_window_bits = ext.their_max_window_bits
  <2>1. PICK s \in Seq(AnyParam) : s = f[1].ext.params /\ Len(s) = 1 /\ s[1] = p1
    BY <1>10 DEF Begins
  <2>2. /\ Append(s, p2) \in Seq(AnyParam) /\ Len(Append(s, p2)) = 1 + 1 /\ Append(s, p2)[1 + 1] = p2
        /\ \A i \in 1..1 : Append(s, p2)[i] = s[i]
    BY <1>8, <2>1, Longer
  <2>3. Begins(Append(s, p2), 2, p1, p2)
    BY <2>1, <2>2 DEF Begins
  <2>4. /\ ~f[2].stop /\ f[2].ext.params = Append(f[1].ext.params, p2)
        /\ f[2].ext.our_max_window_bits = f[1].ext.our_max_window_bits /\ f[2].ext.their_max_window_bits = f[1].ext.their_max_window_bits
    BY <1>6, <1>7, <1>8, <1>10, TakeoverParam
  <2> QED
    BY <1>10, <2>1, <2>3, <2>4
<1>12. /\ ~f[3].stop /\ Begins(f[3].ext.params, 2, p1, p2)
       /\ f[3].ext.our_max_window_bits = ext.our_max_window_bits /\ f[3].ext.their_max_window_bits = ours
  <2>1. CASE params[3] = Param("client_max_window_bits", ours)
    <3>1. ours # None
      BY DEF None
    <3> QED
      BY <1>6, <1>11, <2>1, <3>1, ClientBitsParam
  <2>2. CASE params[3] = Param("client_max_window_bits", None) /\ ours = 15
    BY <1>6, <1>11, <2>2, ClientBitsParam
  <2> QED
    BY <2>1, <2>2 DEF Offers
<1>13. Configure("Server", ext, params) = [f[Len(params)].ext EXCEPT !.enabled = @ \/ ~f[Len(params)].stop]
  BY <1>1, <1>3 DEF Configure, ServerConfigure
<1>14. CASE Len(params) = 3
  <2>1. Configure("Server", ext, params) = [f[3].ext EXCEPT !.enabled = TRUE]
    BY <1>12, <1>13, <1>14
  <2>2. theirs = 15 /\ ext.our_max_window_bits = theirs
    BY <1>14 DEF Offers
  <2>3. Confirming(f[3].ext.params, 2, theirs)
    BY <1>7, <1>12 DEF Confirming, Begins
  <2>4. Len(params) - 1 = 2
    BY <1>14
  <2> QED
    BY <1>6, <1>12, <2>1, <2>2, <2>3, <2>4 DEF Configs, Exts
<1>15. CASE Len(params) = 4
  <2>1. PICK p4 : p4 = Param("server_max_window_bits", theirs)
    OBVIOUS
  <2>2. params[4] = p4 /\ p4 \in AnyParam /\ p4.name = "server_max_window_bits" /\ p4.value = theirs
    BY <1>15, <2>1 DEF Offers, Param, AnyParam
  <2>3. f[4] \in Configs /\ f[4] = ServerParam(f[3], p4)
    <3>1. 4 \in 0..Len(params) /\ 4 \in 1..Len(params) /\ 4 - 1 = 3
      BY <1>15
    <3>2. f[4] = ServerParam(f[4 - 1], params[4])
      BY <1>5, <3>1, Zenon
    <3> QED
      BY <1>5, <2>2, <3>1, <3>2
  <2>4. /\ ~f[4].stop /\ f[4].ext.params = Append(f[3].ext.params, p4)
        /\ f[4].ext.our_max_window_bits = theirs /\ f[4].ext.their_max_window_bits = ours
    <3>1. /\ ~f[4].stop /\ f[4].ext.params = Append(f[3].ext.params, p4)
          /\ f[4].ext.our_max_window_bits = theirs /\ f[4].ext.their_max_window_bits = f[3].ext.their_max_window_bits
      <4>1. PICK c \in Configs, d \in Configs : c = f[3] /\ d = f[4]
        BY <1>6, <2>3
      <4>2. ~c.stop /\ d = ServerParam(c, p4) /\ theirs \in 9..15
        BY <1>12, <2>3, <4>1
      <4>3. /\ ~d.stop /\ d.ext.params = Append(c.ext.params, p4) /\ d.ext.enabled = c.ext.enabled
            /\ d.ext.our_max_window_bits = p4.value /\ d.ext.their_max_window_bits = c.ext.their_max_window_bits
        BY <2>2, <4>2, ServerBitsParam
      <4> QED
        BY <2>2, <4>1, <4>3
    <3> QED
      BY <1>12, <3>1
  <2>5. Configure("Server", ext, params) = [f[4].ext EXCEPT !.enabled = TRUE]
    BY <1>13, <1>15, <2>4
  <2>6. Confirming(f[4].ext.params, 3, theirs)
    <3>1. PICK s \in Seq(AnyParam) : s = f[3].ext.params /\ Len(s) = 2 /\ s[1] = p1 /\ s[2] = p2
      BY <1>12 DEF Begins
    <3>2. /\ Append(s, p4) \in Seq(AnyParam) /\ Len(Append(s, p4)) = 2 + 1 /\ Append(s, p4)[2 + 1] = p4
          /\ \A i \in 1..2 : Append(s, p4)[i] = s[i]
      BY <2>2, <3>1, Longer
    <3> QED
      BY <1>7, <2>1, <2>4, <3>1, <3>2 DEF Confirming
  <2>7. Len(params) - 1 = 3
    BY <1>15
  <2> QED
    BY <2>3, <2>4, <2>5, <2>6, <2>7 DEF Configs, Exts
<1> QED
  BY <1>4, <1>14, <1>15

\* The client accepts what a server of this library answers, and nothing but enabled
\* changes.
LEMMA AnswerConfigures ==
  ASSUME NEW ext \in Exts, NEW params, NEW k, Confirming(params, k, ext.their_max_window_bits)
  PROVE  LET d == Configure("Client", ext, params) IN
         /\ d.enabled = TRUE /\ d.params = ext.params
         /\ d.our_max_window_bits = ext.our_max_window_bits /\ d.their_max_window_bits = ext.their_max_window_bits
<1>1. params \in Seq(AnyParam) /\ k \in {2, 3} /\ Len(params) = k
  BY DEF Confirming
<1>2. PICK f : f = Rounds("Client", ext, params)
  OBVIOUS
<1>3. /\ f \in [0..k -> Configs] /\ f[0] = Start(ext)
      /\ \A i \in 1..k : f[i] = ClientParam(f[i - 1], params[i])
  BY <1>1, <1>2, RoundsAre
<1>4. PICK p1, p2 : p1 = Param("server_no_context_takeover", None) /\ p2 = Param("client_no_context_takeover", None)
  OBVIOUS
<1>5. params[1] = p1 /\ params[2] = p2 /\ p1.name = "server_no_context_takeover" /\ p2.name = "client_no_context_takeover"
  BY <1>4 DEF Confirming, Param
<1>6. /\ 0 \in 0..k /\ 1 \in 0..k /\ 2 \in 0..k /\ 1 \in 1..k /\ 2 \in 1..k /\ 1 - 1 = 0 /\ 2 - 1 = 1
  BY <1>1
<1>7. f[1] = ClientParam(f[1 - 1], params[1]) /\ f[2] = ClientParam(f[2 - 1], params[2])
  BY <1>3, <1>6, Zenon
<1>8. f[0] \in Configs /\ f[1] \in Configs /\ f[2] \in Configs /\ ~f[0].stop /\ f[0].ext = ext
  <2>1. f[0] \in Configs /\ f[1] \in Configs /\ f[2] \in Configs
    BY <1>3, <1>6
  <2>2. ~f[0].stop /\ f[0].ext = ext
    BY <1>3 DEF Start
  <2> QED
    BY <2>1, <2>2
<1>9. f[1] = [f[0] EXCEPT !.noTakeover = TRUE]
  BY <1>5, <1>6, <1>7, <1>8 DEF ClientParam
<1>10. ~f[1].stop /\ f[1].ext = ext /\ f[1].noTakeover = TRUE
  BY <1>8, <1>9 DEF Configs
<1>11. f[2] = f[1]
  BY <1>5, <1>6, <1>7, <1>10 DEF ClientParam
<1>12. Configure("Client", ext, params) = [f[k].ext EXCEPT !.enabled = @ \/ (~f[k].stop /\ f[k].noTakeover)]
  BY <1>1, <1>2 DEF Configure, ClientConfigure
<1>13. CASE k = 2
  <2>1. Configure("Client", ext, params) = [ext EXCEPT !.enabled = TRUE]
    BY <1>10, <1>11, <1>12, <1>13
  <2> QED
    BY <2>1 DEF Exts
<1>14. CASE k = 3
  <2>1. 3 \in 1..k /\ 3 - 1 = 2
    BY <1>14
  <2>2. f[3] = ClientParam(f[3 - 1], params[3])
    BY <1>3, <2>1, Zenon
  <2>3. PICK v \in 9..15, p \in AnyParam : p = params[3] /\ v = ext.their_max_window_bits /\ p.name = "server_max_window_bits" /\ p.value = v
    BY <1>14 DEF Confirming, Param, Exts
  <2>4. f[3] = SetTheirs(f[2], p, v)
    BY <1>10, <1>11, <2>1, <2>2, <2>3 DEF ClientParam
  <2>5. ~(v > 255) /\ ~(v < 8) /\ ~(v > 15) /\ ~(v > v) /\ AtLeast9(v) = v
    BY DEF AtLeast9
  <2>6. f[3] = [f[2] EXCEPT !.ext.their_max_window_bits = v]
    BY <2>3, <2>4, <2>5 DEF SetTheirs
  <2>7. PICK c \in Configs : c = f[2] /\ c.ext = ext /\ ~c.stop /\ c.noTakeover = TRUE
    BY <1>8, <1>10, <1>11
  <2>8. f[3].ext = [ext EXCEPT !.their_max_window_bits = v] /\ ~f[3].stop /\ f[3].noTakeover = TRUE
    BY <2>6, <2>7 DEF Configs
  <2>9. [ext EXCEPT !.their_max_window_bits = v] = ext
    BY <2>3 DEF Exts
  <2>10. Configure("Client", ext, params) = [ext EXCEPT !.enabled = TRUE]
    BY <1>12, <1>14, <2>8, <2>9
  <2> QED
    BY <2>10 DEF Exts
<1> QED
  BY <1>1, <1>13, <1>14

\* What there is to configure: one extension, an empty element, or nothing.
LEMMA OneEntry ==
  ASSUME NEW e \in AnyEntry
  PROVE  <<e>> \in Seq(AnyEntry) /\ Len(<<e>>) = 1 /\ <<e>>[1] = e
  OBVIOUS

LEMMA ConfigureFirst ==
  ASSUME NEW mode, NEW ext \in Exts, NEW entries \in Seq(AnyEntry), Len(entries) = 1
  PROVE  ConfigureExtensions(mode, ext, entries) =
           IF entries[1].name = Deflate THEN Configure(mode, ext, entries[1].params) ELSE ext
<1> DEFINE f == ConfigureEach(mode, ext, entries)
<1>2. /\ f \in [0..Len(entries) -> Exts] /\ f[0] = ext
      /\ \A i \in 1..Len(entries) : f[i] = IF IsConfigured(entries, i) THEN Configure(mode, f[i - 1], entries[i].params) ELSE f[i - 1]
  BY ConfigureEachIs
<1>6. ConfigureExtensions(mode, ext, entries) = f[1]
  BY DEF ConfigureExtensions
<1> HIDE DEF f
<1>3. 1 \in 1..Len(entries) /\ 1 - 1 = 0
  OBVIOUS
<1>4. f[1] = IF IsConfigured(entries, 1) THEN Configure(mode, f[1 - 1], entries[1].params) ELSE f[1 - 1]
  BY <1>2, <1>3, Zenon
<1>5. IsConfigured(entries, 1) <=> entries[1].name = Deflate
  <2>1. Deflate # NotUtf8
    BY DEF Deflate, NotUtf8
  <2>2. \A j \in 1..1 : j = 1
    OBVIOUS
  <2> QED
    BY <2>1, <2>2, Zenon DEF IsConfigured
<1> QED
  BY <1>2, <1>3, <1>4, <1>5, <1>6

LEMMA ConfigureOne ==
  ASSUME NEW mode, NEW ext \in Exts, NEW params \in Seq(AnyParam), NEW entries, entries = <<Entry(params)>>
  PROVE  ConfigureExtensions(mode, ext, entries) = Configure(mode, ext, params)
<1>1. Entry(params) \in AnyEntry /\ Entry(params).name = Deflate /\ Entry(params).params = params
  BY DEF Entry, AnyEntry, Deflate
<1>2. entries \in Seq(AnyEntry) /\ Len(entries) = 1 /\ entries[1] = Entry(params)
  BY <1>1
<1>3. entries[1].name = Deflate /\ entries[1].params = params
  BY <1>1, <1>2
<1> QED
  BY <1>2, <1>3, ConfigureFirst

LEMMA ConfigureBlank ==
  ASSUME NEW mode, NEW ext \in Exts, NEW e, e = [name |-> "", params |-> <<>>], NEW entries, entries = <<e>>
  PROVE  ConfigureExtensions(mode, ext, entries) = ext
<1>1. e \in AnyEntry /\ e.name # Deflate
  <2>1. <<>> \in Seq(AnyParam)
    BY EmptySeq
  <2> QED
    BY <2>1 DEF AnyEntry, Deflate
<1>2. entries \in Seq(AnyEntry) /\ Len(entries) = 1 /\ entries[1] = e
  BY <1>1, OneEntry, Zenon
<1> QED
  BY <1>1, <1>2, ConfigureFirst

LEMMA ConfigureNone ==
  ASSUME NEW mode, NEW ext \in Exts
  PROVE  ConfigureExtensions(mode, ext, <<>>) = ext
<1>1. PICK entries \in Seq(AnyEntry) : entries = <<>> /\ Len(entries) = 0
  BY EmptySeq
<1>2. PICK f : f = ConfigureEach(mode, ext, entries)
  OBVIOUS
<1>3. f[0] = ext
  BY <1>2, ConfigureEachIs
<1> QED
  BY <1>1, <1>2, <1>3 DEF ConfigureExtensions

\* What is known of compression in front of a step.
Compressing == Native /\ Offered /\ Negotiated /\ Confirmed

LEMMA ThreeParams ==
  ASSUME NEW p1 \in AnyParam, NEW p2 \in AnyParam, NEW p3 \in AnyParam
  PROVE  LET params == <<p1, p2, p3>> IN
         params \in Seq(AnyParam) /\ Len(params) = 3 /\ params[1] = p1 /\ params[2] = p2 /\ params[3] = p3
  OBVIOUS

LEMMA CompressionInit == ASSUME SetOnce PROVE HandshakeInit => Compression
<1> SUFFICES ASSUME HandshakeInit PROVE Offered /\ Negotiated /\ Confirmed
  BY DEF Compression
<1>1. /\ client = ClientNew /\ server = ServerNew /\ attempts = 0 /\ left = setup.left /\ setup \in Setups
      /\ builder = [end \in {"client", "server"} |-> NoBuilder]
  BY DEF HandshakeInit
<1>2. left.server \in Nat /\ left.server <= 1
  BY <1>1, SetupIs DEF SetOnce, Lefts
<1>3. PICK p1, p2, p3 : /\ p1 = Param("server_no_context_takeover", None) /\ p2 = Param("client_no_context_takeover", None)
                        /\ p3 = Param("client_max_window_bits", None)
  OBVIOUS
<1>4. p1 \in AnyParam /\ p2 \in AnyParam /\ p3 \in AnyParam
  BY <1>3 DEF Param, AnyParam, None
<1>5. /\ client.ext.params = <<p1, p2, p3>> /\ client.ext.our_max_window_bits = 15 /\ client.ext.their_max_window_bits = 15
      /\ client.ext.enabled = FALSE /\ client.result.kind = "none"
  BY <1>1, <1>3 DEF ClientNew, NewClient, NewServer, Result
<1>6. PICK params \in Seq(AnyParam) : params = client.ext.params /\ Len(params) = 3 /\ params[1] = p1 /\ params[2] = p2 /\ params[3] = p3
  <2>1. PICK params : params = <<p1, p2, p3>>
    OBVIOUS
  <2>2. params \in Seq(AnyParam) /\ Len(params) = 3 /\ params[1] = p1 /\ params[2] = p2 /\ params[3] = p3
    BY <1>4, <2>1, ThreeParams
  <2> QED
    BY <1>5, <2>1, <2>2
<1>7. Offers(params, 15, 15)
  BY <1>3, <1>6 DEF Offers
<1>8. Offered
  BY <1>1, <1>2, <1>5, <1>6, <1>7 DEF Offered
<1>9. server.ext.enabled = FALSE /\ server.ext.our_max_window_bits = 15 /\ server.ext.their_max_window_bits = 15
      /\ server.result = "none" /\ server.accepted = FALSE
  BY <1>1 DEF ServerNew, NewServer
<1>10. Negotiated
  BY <1>9 DEF Negotiated, Unused
<1>11. Confirmed
  BY <1>1, <1>9 DEF Confirmed, NoBuilder
<1> QED
  BY <1>8, <1>10, <1>11

\* What leaves the parts alone.
LEMMA OfferedStays ==
  ASSUME Offered, UNCHANGED <<setup, attempts, request>>, left'.server = left.server,
         client'.ext = client.ext, client'.result = client.result, client'.pc = client.pc
  PROVE  Offered'
  BY DEF Offered, BothDeflate

LEMMA NegotiatedStays ==
  ASSUME Negotiated, UNCHANGED setup, server'.ext = server.ext, attempts > 0 => attempts' > 0,
         client'.ext.params = client.ext.params, client'.ext.our_max_window_bits = client.ext.our_max_window_bits,
         client'.ext.their_max_window_bits = client.ext.their_max_window_bits,
         server'.result = "Ok" \/ server'.accepted => server.result = "Ok" \/ server.accepted
  PROVE  Negotiated'
  BY DEF Negotiated, BothDeflate, Unused, Configured

LEMMA ConfirmedStays ==
  ASSUME Confirmed, UNCHANGED <<setup, attempts, answers, builder>>, server'.ext = server.ext, server'.accepted = server.accepted,
         client'.ext.enabled = client.ext.enabled, client'.result = client.result
  PROVE  Confirmed'
  BY DEF Confirmed, HttpExtensions, ServerExtensions

\* Steps that do not touch the extensions.
LEMMA CompressionQuiet ==
  ASSUME Compressing, UNCHANGED <<setup, attempts, request, client, answers, builder>>, left'.server = left.server,
         server'.ext = server.ext, server'.accepted = server.accepted, server'.result = "Ok" => server.result = "Ok"
  PROVE  Compression'
  BY OfferedStays, NegotiatedStays, ConfirmedStays DEF Compressing, Compression

\* set_max_server_window_bits, for the first time
LEMMA CompressionSetServer ==
  ASSUME Compressing, NEW max \in Bits, SetMaxServerWindowBits(max)
  PROVE  Compression'
<1>1. /\ attempts = 0 /\ left.server > 0 /\ UNCHANGED <<setup, attempts, server, request, answers, builder>>
      /\ left' = [left EXCEPT !.server = @ - 1]
      /\ client' = [client EXCEPT !.ext.their_max_window_bits = max,
                              !.ext.params = Append(@, Param("server_max_window_bits", max))]
  BY DEF SetMaxServerWindowBits
<1>2. Known /\ client \in Clients /\ left \in Lefts /\ left.server \in Nat /\ max \in 9..15
  BY HandshakeAssumption DEF Compressing, Native, BaseInv, KnownInv, Known, Lefts
<1>3. PICK p \in AnyParam : p = Param("server_max_window_bits", max)
  <2>1. max \in Nat
    BY <1>2
  <2>2. Param("server_max_window_bits", max) \in AnyParam
    BY <2>1 DEF Param, AnyParam
  <2> QED
    BY <2>2, Zenon
<1>4. PICK params \in Seq(AnyParam) : params = client.ext.params
  BY <1>2 DEF Clients, Exts
<1>5. /\ client'.ext.params = Append(params, p) /\ client'.ext.their_max_window_bits = max
      /\ client'.ext.our_max_window_bits = client.ext.our_max_window_bits /\ client'.ext.enabled = client.ext.enabled
      /\ client'.result = client.result /\ client'.pc = client.pc /\ left'.server = left.server - 1
  BY <1>1, <1>2, <1>3, <1>4 DEF Clients, Exts, Lefts
<1>6. PICK ours, theirs : ours = client.ext.our_max_window_bits /\ theirs = client.ext.their_max_window_bits /\ Offers(params, ours, theirs)
  BY <1>4 DEF Compressing, Offered
<1>7. Len(params) = 3 /\ left.server = 1
  <2>1. Len(params) + left.server <= 4 /\ Len(params) \in {3, 4}
    BY <1>4, <1>6 DEF Compressing, Offered, Offers
  <2>2. PICK n \in Nat, l \in Nat : n = Len(params) /\ l = left.server
    BY <1>2
  <2>3. l > 0 /\ n + l <= 4 /\ n \in {3, 4}
    BY <1>1, <2>1, <2>2
  <2>4. n = 3 /\ l = 1
    BY <2>3
  <2> QED
    BY <2>2, <2>4
<1>8. PICK new \in Seq(AnyParam) : /\ new = Append(params, p) /\ Len(new) = 4 /\ new[4] = p
                                   /\ new[1] = params[1] /\ new[2] = params[2] /\ new[3] = params[3]
  <2>1. /\ Append(params, p) \in Seq(AnyParam) /\ Len(Append(params, p)) = 3 + 1 /\ Append(params, p)[3 + 1] = p
        /\ \A i \in 1..3 : Append(params, p)[i] = params[i]
    <3>1. /\ Append(params, p) \in Seq(AnyParam) /\ Len(Append(params, p)) = Len(params) + 1
          /\ Append(params, p)[Len(params) + 1] = p /\ \A i \in 1..Len(params) : Append(params, p)[i] = params[i]
      BY AppendProperties
    <3> QED
      BY <1>7, <3>1
  <2>2. 3 + 1 = 4 /\ 1 \in 1..3 /\ 2 \in 1..3 /\ 3 \in 1..3
    OBVIOUS
  <2> QED
    BY <2>1, <2>2
<1>9. Offers(new, ours, max)
  BY <1>3, <1>6, <1>8 DEF Offers
<1>10. Offered'
  <2>1. Len(new) + left'.server <= 4
    BY <1>5, <1>7, <1>8
  <2>2. Offers(client.ext.params, client.ext.our_max_window_bits, client.ext.their_max_window_bits)'
    BY <1>5, <1>6, <1>8, <1>9
  <2>3. ~(attempts' > 0) /\ client'.ext.params = new
    BY <1>1, <1>5, <1>8
  <2> QED
    BY <1>1, <1>5, <2>1, <2>2, <2>3, Zenon DEF Compressing, Offered, BothDeflate
<1>11. Negotiated'
  <2>1. ~(attempts > 0)
    BY <1>1
  <2> QED
    BY <1>1, <2>1 DEF Compressing, Negotiated, Unused, BothDeflate, Configured
<1>12. Confirmed'
  BY <1>1, <1>5, ConfirmedStays DEF Compressing
<1> QED
  BY <1>10, <1>11, <1>12 DEF Compression

\* set_max_client_window_bits
LEMMA CompressionSetClient ==
  ASSUME Compressing, NEW max \in Bits, SetMaxClientWindowBits(max)
  PROVE  Compression'
<1>1. /\ attempts = 0 /\ UNCHANGED <<setup, attempts, server, request, answers, builder>>
      /\ left' = [left EXCEPT !.client = @ - 1]
      /\ client' = [client EXCEPT !.ext.our_max_window_bits = max, !.ext.params = WithClientBits(@, max)]
  BY DEF SetMaxClientWindowBits
<1>2. Known /\ client \in Clients /\ left \in Lefts /\ left.server \in Nat /\ max \in 9..15
  BY HandshakeAssumption DEF Compressing, Native, BaseInv, KnownInv, Known, Lefts
<1>3. PICK params \in Seq(AnyParam) : params = client.ext.params
  BY <1>2 DEF Clients, Exts
<1>4. /\ client'.ext.params = WithClientBits(params, max) /\ client'.ext.our_max_window_bits = max
      /\ client'.ext.their_max_window_bits = client.ext.their_max_window_bits /\ client'.ext.enabled = client.ext.enabled
      /\ client'.result = client.result /\ client'.pc = client.pc /\ left'.server = left.server
  BY <1>1, <1>2, <1>3 DEF Clients, Exts, Lefts
<1>5. PICK ours, theirs : ours = client.ext.our_max_window_bits /\ theirs = client.ext.their_max_window_bits /\ Offers(params, ours, theirs)
  BY <1>3 DEF Compressing, Offered
<1>6. PICK new \in Seq(AnyParam) : new = WithClientBits(params, max) /\ Len(new) = Len(params)
  <2>1. WithClientBits(params, max) \in Seq(AnyParam)
    BY <1>2, WithClientBitsTyped
  <2>2. Len(WithClientBits(params, max)) = Len(params)
    BY DEF WithClientBits
  <2> QED
    BY <2>1, <2>2
<1>7. \A i \in 1..Len(params) : new[i] = IF params[i].name = "client_max_window_bits" THEN Param(params[i].name, max) ELSE params[i]
  BY <1>6 DEF WithClientBits
<1>8. /\ Len(params) \in {3, 4} /\ params[1] = Param("server_no_context_takeover", None)
      /\ params[2] = Param("client_no_context_takeover", None) /\ params[3].name = "client_max_window_bits"
      /\ Len(params) = 3 => theirs = 15
      /\ Len(params) = 4 => params[4] = Param("server_max_window_bits", theirs)
  BY <1>5 DEF Offers, Param
<1>9. new[1] = params[1] /\ new[2] = params[2] /\ new[3] = Param("client_max_window_bits", max)
  <2>1. 1 \in 1..Len(params) /\ 2 \in 1..Len(params) /\ 3 \in 1..Len(params)
    BY <1>8
  <2>2. params[1].name # "client_max_window_bits" /\ params[2].name # "client_max_window_bits"
    BY <1>8 DEF Param
  <2> QED
    BY <1>7, <1>8, <2>1, <2>2
<1>10. Len(params) = 4 => new[4] = params[4]
  BY <1>7, <1>8 DEF Param
<1>11. Offers(new, max, theirs)
  BY <1>6, <1>8, <1>9, <1>10 DEF Offers
<1>12. Offered'
  BY <1>1, <1>3, <1>4, <1>5, <1>6, <1>11 DEF Compressing, Offered, BothDeflate
<1>13. Negotiated'
  <2>1. ~(attempts > 0)
    BY <1>1
  <2> QED
    BY <1>1, <2>1 DEF Compressing, Negotiated, Unused, BothDeflate, Configured
<1>14. Confirmed'
  BY <1>1, <1>4, ConfirmedStays DEF Compressing
<1> QED
  BY <1>12, <1>13, <1>14 DEF Compression

\* A request carries the offer.
LEMMA CompressionSend ==
  ASSUME Compressing, SendRequest
  PROVE  Compression'
<1>1. /\ UNCHANGED <<setup, server, answers, builder>> /\ attempts' = attempts + 1 /\ stream = <<>>
      /\ client.result.kind \in {"none", "Rejected"} /\ left' = [left EXCEPT !.attempts = @ - 1]
      /\ request' = EncodeRequest(attempts + 1)
      /\ client' = [client EXCEPT !.pc = "waiting", !.nonce = attempts + 1, !.buffer = <<>>, !.result = Result("none")]
  BY DEF SendRequest, FreshNonce
<1>2. client \in Clients /\ left \in Lefts /\ attempts \in Nat
  BY DEF Compressing, Native, BaseInv, KnownInv, Known
<1>3. /\ client'.ext = client.ext /\ client'.result.kind = "none" /\ client'.pc = "waiting" /\ left'.server = left.server
      /\ attempts' > 0
  BY <1>1, <1>2 DEF Clients, Lefts, Result
<1>4. ~server.accepted /\ server.result = "none"
  BY <1>1 DEF Compressing, Native, Served
<1>5. request'.extensions = IF setup.clientDeflate THEN <<Entry(client.ext.params)>> ELSE <<>>
  BY <1>1 DEF EncodeRequest
<1>6. Offered'
  BY <1>1, <1>3, <1>5 DEF Compressing, Offered, BothDeflate
<1>7. Negotiated'
  BY <1>1, <1>3, NegotiatedStays DEF Compressing
<1>8. Confirmed'
  BY <1>1, <1>4 DEF Compressing, Confirmed
<1> QED
  BY <1>6, <1>7, <1>8 DEF Compression

\* An acceptance enables the client's extension if the server has one.
LEMMA AcceptanceConfigures ==
  ASSUME Compressing, server.accepted, client.pc = "waiting", attempts = Len(answers), attempts > 0
  PROVE  LET d == ConfiguredBy(answers[attempts]) IN
         /\ d.enabled <=> BothDeflate
         /\ d.params = client.ext.params
         /\ d.our_max_window_bits = client.ext.our_max_window_bits /\ d.their_max_window_bits = client.ext.their_max_window_bits
<1>1. client.ext \in Exts /\ server.ext \in Exts /\ setup.clientDeflate \in BOOLEAN /\ setup.serverDeflate \in BOOLEAN
  BY SetupIs DEF Compressing, Native, BaseInv, KnownInv, Known, Clients, Servers
<1>2. ~client.ext.enabled
  BY DEF Compressing, Offered
<1>3. PICK entries : entries = answers[attempts].extensions
  OBVIOUS
<1>4. entries = IF setup.http THEN HttpExtensions ELSE ServerExtensions
  BY <1>3 DEF Compressing, Confirmed
<1>5. CASE BothDeflate
  <2>1. Configured(server.ext, client.ext)
    BY <1>5 DEF Compressing, Negotiated
  <2>2. /\ server.ext.enabled = TRUE
        /\ Confirming(server.ext.params, Len(client.ext.params) - 1, client.ext.their_max_window_bits)
    BY <2>1 DEF Configured
  <2>3. entries = <<Entry(server.ext.params)>>
    BY <1>4, <2>2 DEF HttpExtensions, ServerExtensions
  <2>4. server.ext.params \in Seq(AnyParam)
    BY <1>1 DEF Exts
  <2>5. ConfigureExtensions("Client", client.ext, entries) = Configure("Client", client.ext, server.ext.params)
    BY <1>1, <2>3, <2>4, ConfigureOne
  <2>6. LET d == Configure("Client", client.ext, server.ext.params) IN
        /\ d.enabled = TRUE /\ d.params = client.ext.params
        /\ d.our_max_window_bits = client.ext.our_max_window_bits /\ d.their_max_window_bits = client.ext.their_max_window_bits
    BY <1>1, <2>2, AnswerConfigures
  <2>7. ResponseOutcome(answers[attempts]) = "Ok"
    BY AcceptanceOk DEF Compressing
  <2>8. ConfiguredBy(answers[attempts]) = Configure("Client", client.ext, server.ext.params)
    BY <1>3, <1>5, <2>5, <2>7 DEF ConfiguredBy, BothDeflate
  <2> QED
    BY <1>5, <2>6, <2>8
<1>6. CASE ~BothDeflate /\ ~setup.serverDeflate
  <2>1. ~server.ext.enabled
    BY <1>6 DEF Compressing, Negotiated, Unused
  <2>2. entries = <<>>
    BY <1>4, <1>6, <2>1 DEF HttpExtensions, ServerExtensions
  <2>3. ConfigureExtensions("Client", client.ext, entries) = client.ext
    BY <1>1, <2>2, ConfigureNone
  <2>4. ConfiguredBy(answers[attempts]) = client.ext
    BY <1>3, <2>3 DEF ConfiguredBy
  <2> QED
    BY <1>2, <1>6, <2>4
<1>7. CASE ~BothDeflate /\ ~setup.clientDeflate
  <2>1. ConfiguredBy(answers[attempts]) = client.ext
    BY <1>7 DEF ConfiguredBy
  <2> QED
    BY <1>2, <1>7, <2>1
<1> QED
  BY <1>5, <1>6, <1>7 DEF BothDeflate

\* A rejection does not reach the extensions.
LEMMA RejectionSkips ==
  ASSUME Native, ~server.accepted, attempts = Len(answers), attempts > 0
  PROVE  ConfiguredBy(answers[attempts]) = client.ext
<1>1. answers[attempts] = Plain(RejectCode(server.refused))
  BY DEF Native, Responded, Answering
<1>2. answers[attempts].accept = <<>>
  BY <1>1 DEF Plain
<1>3. ResponseOutcome(answers[attempts]) \notin {"Ok", "Utf8", "UnsolicitedProtocol"}
  BY <1>2 DEF ResponseOutcome, Check
<1> QED
  BY <1>3 DEF ConfiguredBy

LEMMA CompressionRead ==
  ASSUME Compressing, NEW n \in 1..BLOCK_SIZE, ReadResponse(n)
  PROVE  Compression'
<1>1. ReadsAnswer(n) /\ client \in Clients /\ client.pc = "waiting" /\ attempts = Len(answers) /\ attempts > 0
  BY AnswerRead DEF Compressing, Native, BaseInv, KnownInv, Known, ReadsAnswer
<1>2. UNCHANGED <<setup, left, attempts, server, request, answers, builder>>
  BY <1>1 DEF ReadsAnswer
<1>3. client.result.kind # "Accepted" /\ ~builder["client"].made /\ ~client.ext.enabled
  BY <1>1 DEF Compressing, Offered, Confirmed
<1>4. PICK buffer :
        \/ client' = [client EXCEPT !.buffer = buffer]
        \/ client' = [client EXCEPT !.pc = "idle", !.result = ResultOf(attempts), !.buffer = buffer,
                                    !.ext = ConfiguredBy(answers[attempts])]
  BY <1>1 DEF ReadsAnswer
<1>5. CASE client' = [client EXCEPT !.buffer = buffer]
  <2>1. client'.ext = client.ext /\ client'.result = client.result /\ client'.pc = client.pc
    BY <1>1, <1>5 DEF Clients
  <2> QED
    BY <1>2, <2>1, OfferedStays, NegotiatedStays, ConfirmedStays DEF Compressing, Compression
<1>6. CASE client' = [client EXCEPT !.pc = "idle", !.result = ResultOf(attempts), !.buffer = buffer,
                                    !.ext = ConfiguredBy(answers[attempts])]
  <2>1. client'.pc = "idle" /\ client'.result = ResultOf(attempts) /\ client'.ext = ConfiguredBy(answers[attempts])
    BY <1>1, <1>6 DEF Clients
  <2>2. client'.result.kind = "Accepted" <=> server.accepted
    BY <1>1, <2>1, ResponseUnderstood DEF Compressing
  <2>3. /\ client'.ext.enabled <=> (server.accepted /\ BothDeflate)
        /\ client'.ext.params = client.ext.params
        /\ client'.ext.our_max_window_bits = client.ext.our_max_window_bits
        /\ client'.ext.their_max_window_bits = client.ext.their_max_window_bits
    <3>1. CASE server.accepted
      BY <1>1, <2>1, <3>1, AcceptanceConfigures
    <3>2. CASE ~server.accepted
      BY <1>1, <1>3, <2>1, <3>2, RejectionSkips DEF Compressing
    <3> QED
      BY <3>1, <3>2
  <2>4. Offered'
    BY <1>2, <2>1, <2>2, <2>3 DEF Compressing, Offered, BothDeflate
  <2>5. Negotiated'
    BY <1>2, <2>3, NegotiatedStays DEF Compressing
  <2>6. Confirmed'
    BY <1>2, <1>3 DEF Compressing, Confirmed, HttpExtensions, ServerExtensions
  <2> QED
    BY <2>4, <2>5, <2>6 DEF Compression
<1> QED
  BY <1>4, <1>5, <1>6

LEMMA CompressionEof ==
  ASSUME Compressing, ReadResponseEof
  PROVE  Compression'
<1>1. /\ UNCHANGED <<setup, left, attempts, server, request, answers, builder>>
      /\ client.pc = "waiting" /\ client' = [client EXCEPT !.pc = "idle", !.result = Result("Err")]
  BY DEF ReadResponseEof
<1>2. client'.ext = client.ext /\ client'.result.kind = "Err" /\ client'.pc = "idle"
  BY <1>1 DEF Compressing, Native, BaseInv, KnownInv, Known, Clients, Result
<1>3. client.result.kind # "Accepted" /\ ~builder["client"].made
  BY <1>1 DEF Compressing, Offered, Confirmed
<1>4. Offered'
  BY <1>1, <1>2, <1>3 DEF Compressing, Offered, BothDeflate
<1>5. Negotiated'
  BY <1>1, <1>2, NegotiatedStays DEF Compressing
<1>6. Confirmed'
  BY <1>1, <1>3 DEF Compressing, Confirmed, HttpExtensions, ServerExtensions
<1> QED
  BY <1>4, <1>5, <1>6 DEF Compression

\* The server makes of an offer what the client has.
LEMMA OfferAccepted ==
  ASSUME Compressing, attempts > 0, setup.serverDeflate,
         NEW d, d = ConfigureExtensions("Server", server.ext, request.extensions)
  PROVE  IF setup.clientDeflate THEN Configured(d, client.ext) ELSE d = server.ext
<1>1. client.ext \in Exts /\ server.ext \in Exts
  BY DEF Compressing, Native, BaseInv, KnownInv, Known, Clients, Servers
<1>2. PICK c \in Exts, x \in Exts : c = client.ext /\ x = server.ext
  BY <1>1
<1>3. CASE setup.clientDeflate
  <2>1. request.extensions = <<Entry(c.params)>> /\ Offers(c.params, c.our_max_window_bits, c.their_max_window_bits)
    BY <1>2, <1>3 DEF Compressing, Offered
  <2>2. d = Configure("Server", x, c.params)
    <3>1. c.params \in Seq(AnyParam)
      BY DEF Exts
    <3> QED
      BY <1>2, <2>1, <3>1, ConfigureOne
  <2>3. x.our_max_window_bits \in {15, c.their_max_window_bits} /\ x.their_max_window_bits \in {15, c.our_max_window_bits}
    BY <1>2 DEF Compressing, Negotiated, Unused, Configured
  <2>4. c.our_max_window_bits \in 9..15 /\ c.their_max_window_bits \in 9..15
    BY DEF Exts
  <2>5. LET e == Configure("Server", x, c.params) IN
        /\ e.enabled = TRUE /\ e.our_max_window_bits = c.their_max_window_bits /\ e.their_max_window_bits = c.our_max_window_bits
        /\ Confirming(e.params, Len(c.params) - 1, c.their_max_window_bits)
    BY <2>1, <2>3, <2>4, OfferConfigures
  <2> QED
    BY <1>2, <1>3, <2>2, <2>5 DEF Configured
<1>4. CASE ~setup.clientDeflate
  <2>1. request.extensions = <<>>
    BY <1>4 DEF Compressing, Offered
  <2> QED
    BY <1>1, <1>4, <2>1, ConfigureNone
<1> QED
  BY <1>3, <1>4

LEMMA CompressionDecoded ==
  ASSUME Compressing, NEW outcome, NEW configured \in BOOLEAN, NEW proposed, server' = Decoded(outcome, configured, proposed),
         UNCHANGED <<setup, left, attempts, client, request, answers, builder>>,
         pc \notin {"Complete", "Partial"}, ~hungup, stream # <<>>, outcome = "Ok" => configured
  PROVE  Compression'
<1>1. ~server.accepted /\ server.result = "none"
  BY DEF Compressing, Native, Served
<1>2. attempts > 0
  <2>1. client.pc = "waiting"
    BY <1>1 DEF Compressing, Native, Matched
  <2> QED
    BY <2>1 DEF Compressing, Native, Listening
<1>3. /\ server'.result = outcome /\ server'.accepted = server.accepted
      /\ server'.ext = IF configured /\ setup.serverDeflate
                       THEN ConfigureExtensions("Server", server.ext, request.extensions) ELSE server.ext
  BY DecodedIs DEF Compressing, Native, BaseInv, KnownInv
<1>4. setup.clientDeflate \in BOOLEAN /\ setup.serverDeflate \in BOOLEAN
  BY SetupIs DEF Compressing, Native, BaseInv, KnownInv, Known
<1>5. Offered'
  BY OfferedStays DEF Compressing
<1>6. Negotiated'
  <2>1. CASE configured /\ BothDeflate
    <3>1. Configured(server'.ext, client.ext)
      BY <1>2, <1>3, <2>1, OfferAccepted DEF BothDeflate
    <3> QED
      BY <1>2, <2>1, <3>1 DEF Negotiated, BothDeflate, Configured
  <2>2. CASE ~(configured /\ BothDeflate)
    <3>1. server'.ext = server.ext
      BY <1>2, <1>3, <1>4, <2>2, OfferAccepted DEF BothDeflate
    <3>2. BothDeflate => outcome # "Ok"
      BY <2>2
    <3> QED
      BY <1>1, <1>3, <3>1, <3>2 DEF Compressing, Negotiated, BothDeflate, Unused, Configured
  <2> QED
    BY <2>1, <2>2
<1>7. Confirmed'
  BY <1>1, <1>3 DEF Compressing, Confirmed
<1> QED
  BY <1>5, <1>6, <1>7 DEF Compression

LEMMA CompressionDecode ==
  ASSUME Compressing, Decode \/ HttpReceiveRequest
  PROVE  Compression'
<1>1. TypeOK /\ CurrentInv
  BY DEF Compressing, Native, BaseInv, ScanInv
<1>2. stream \in Seq(STRING) /\ Len(stream) \in Nat /\ got \in 0..Len(stream)
  BY <1>1, RequestScanAssumption DEF TypeOK
<1>3. CASE Decode
  <2> DEFINE outcome == IF pc' = "Complete" THEN RequestOutcome(request) ELSE "IncompleteHttpRequest"
             configured == outcome \in {"Ok", "Utf8"}
  <2>1. /\ server' = Decoded(outcome, configured, Proposed(request)) /\ ~hungup
        /\ UNCHANGED <<setup, left, attempts, client, request, answers, builder>> /\ pc = "decode"
    BY <1>3 DEF Decode, DecodeRequest, Serving
  <2>2. stream # <<>>
    BY <1>1, <1>2, <2>1 DEF CurrentInv, Pos
  <2>3. configured \in BOOLEAN /\ (outcome = "Ok" => configured)
    OBVIOUS
  <2> HIDE DEF outcome, configured
  <2> QED
    BY <2>1, <2>2, <2>3, CompressionDecoded
<1>4. CASE HttpReceiveRequest
  <2> DEFINE outcome == HttpOutcome(request)
             configured == outcome = "Ok"
  <2>1. /\ server' = Decoded(outcome, configured, <<>>) /\ ~hungup
        /\ UNCHANGED <<setup, left, attempts, client, request, answers, builder>>
        /\ pc = "read" /\ HasTail(0, Len(stream))
    BY <1>4 DEF HttpReceiveRequest, Serving
  <2>2. stream # <<>>
    BY <1>2, <2>1 DEF HasTail
  <2>3. configured \in BOOLEAN /\ (outcome = "Ok" => configured)
    OBVIOUS
  <2> HIDE DEF outcome, configured
  <2> QED
    BY <2>1, <2>2, <2>3, CompressionDecoded
<1> QED
  BY <1>3, <1>4

\* The answer of the server's extension
LEMMA CompressionAccept ==
  ASSUME Compressing, NEW protocol \in {<<>>} \union { <<p>> : p \in ToSet(server.proposed) }, Accept(protocol)
  PROVE  Compression'
<1>1. PICK r : r = AcceptResponse(protocol)
  OBVIOUS
<1>2. /\ server.result = "Ok" /\ Respond(<<r>>)
      /\ server' = [server EXCEPT !.result = "none", !.accepted = TRUE, !.protocol = protocol]
      /\ UNCHANGED <<vars, setup, left, attempts, client, request, seen, hungup, builder>>
  BY <1>1 DEF Accept
<1>3. Known /\ server \in Servers
  BY DEF Compressing, Native, BaseInv, KnownInv, Known
<1>4. r \in AnyResponse
  BY <1>1, <1>3, ProtocolIs, AcceptResponseTyped
<1>5. ~server.accepted /\ answers'[attempts] = r
  BY <1>2, <1>4, OneResponse DEF Compressing
<1>6. server'.ext = server.ext /\ server'.accepted = TRUE /\ server'.result = "none"
  BY <1>2, <1>3 DEF Servers
<1>7. r.extensions = IF setup.http THEN HttpExtensions ELSE ServerExtensions
  BY <1>1 DEF AcceptResponse, Plain
<1>8. Offered'
  BY <1>2, OfferedStays DEF Compressing
<1>9. Negotiated'
  BY <1>2, <1>6, NegotiatedStays DEF Compressing
<1>10. Confirmed'
  <2>1. answers'[attempts'].extensions = (IF setup.http THEN HttpExtensions ELSE ServerExtensions)'
    BY <1>2, <1>5, <1>6, <1>7 DEF HttpExtensions, ServerExtensions
  <2>2. ~builder["server"].made
    BY <1>5 DEF Compressing, Confirmed
  <2> QED
    BY <1>2, <2>1, <2>2 DEF Compressing, Confirmed
<1> QED
  BY <1>8, <1>9, <1>10 DEF Compression

\* The application rejects or drops a request.
LEMMA CompressionReject ==
  ASSUME Compressing, UNCHANGED <<setup, left, attempts, client, request, builder>>, ~server.accepted,
         server'.ext = server.ext, server'.accepted = server.accepted, server'.result = "none"
  PROVE  Compression'
<1>1. Offered'
  BY OfferedStays DEF Compressing
<1>2. Negotiated'
  BY NegotiatedStays DEF Compressing
<1>3. Confirmed'
  BY DEF Compressing, Confirmed
<1> QED
  BY <1>1, <1>2, <1>3 DEF Compression

\* into_builder, at either end
LEMMA CompressionBuild ==
  ASSUME Compressing, ClientIntoBuilder \/ ServerIntoBuilder
  PROVE  Compression'
<1>1. UNCHANGED <<setup, left, attempts, client, server, request, answers>>
  BY DEF ClientIntoBuilder, ServerIntoBuilder, Build
<1>2. Offered' /\ Negotiated'
  BY <1>1, OfferedStays, NegotiatedStays DEF Compressing
<1>3. builder \in [{"client", "server"} -> Builders]
  BY DEF Compressing, Native, BaseInv, KnownInv, Known
<1>4. Confirmed'
  <2>1. CASE ClientIntoBuilder
    <3>1. /\ client.result.kind = "Accepted" /\ builder'["server"] = builder["server"]
          /\ builder'["client"].rsv1 = (setup.clientDeflate /\ client.ext.enabled)
      BY <1>3, <2>1 DEF ClientIntoBuilder, Build
    <3>2. client.ext.enabled => setup.clientDeflate
      BY DEF Compressing, Offered, BothDeflate
    <3> QED
      BY <1>1, <3>1, <3>2 DEF Compressing, Confirmed, HttpExtensions, ServerExtensions
  <2>2. CASE ServerIntoBuilder
    <3>1. /\ server.accepted /\ builder'["client"] = builder["client"]
          /\ builder'["server"].rsv1 = (setup.serverDeflate /\ server.ext.enabled)
      BY <1>3, <2>2 DEF ServerIntoBuilder, Build
    <3>2. server.ext.enabled => setup.serverDeflate
      BY DEF Compressing, Negotiated, Unused, BothDeflate
    <3> QED
      BY <1>1, <3>1, <3>2 DEF Compressing, Confirmed, HttpExtensions, ServerExtensions
  <2> QED
    BY <2>1, <2>2
<1> QED
  BY <1>2, <1>4 DEF Compression

LEMMA CompressionNext == BaseInv /\ Keys /\ CurrentInv /\ Flow /\ Compression /\ [HandshakeNext]_allVars => Compression'
<1> SUFFICES ASSUME BaseInv, Keys, CurrentInv, Flow, Compression, [HandshakeNext]_allVars PROVE Compression'
  OBVIOUS
<1>1. Known /\ server \in Servers /\ left \in Lefts
  BY DEF BaseInv, KnownInv, Known
<1>2. setup' = setup
  BY HandshakeSteps DEF HandshakeCases, SetMaxServerWindowBits, SetMaxClientWindowBits, SendRequest, ReadResponse, ReadResponseEof,
     ReceiveRequest, handshakeVars, Decode, HttpReceiveRequest, Accept, Reject, HangUp, ClientIntoBuilder, ServerIntoBuilder, Build,
     SendData, ForeignRequest, ForeignAnswer, ForeignHangUp, allVars
<1>3. CASE setup.foreign # "none"
  BY <1>2, <1>3 DEF Compression
<1>4. CASE setup.foreign = "none"
  <2>1. Compressing
    BY <1>4 DEF Flow, Native, Compression, Compressing
  <2>2. ASSUME NEW max \in Bits, SetMaxServerWindowBits(max) \/ SetMaxClientWindowBits(max) PROVE Compression'
    BY <2>1, <2>2, CompressionSetServer, CompressionSetClient
  <2>3. CASE SendRequest
    BY <2>1, <2>3, CompressionSend
  <2>4. ASSUME NEW n \in 1..BLOCK_SIZE, ReadResponse(n) PROVE Compression'
    BY <2>1, <2>4, CompressionRead
  <2>5. CASE ReadResponseEof
    BY <2>1, <2>5, CompressionEof
  <2>6. CASE ReceiveRequest \/ UNCHANGED allVars
    <3>1. UNCHANGED handshakeVars
      BY <2>6 DEF ReceiveRequest, allVars
    <3> QED
      BY <2>1, <3>1, CompressionQuiet DEF handshakeVars
  <2>7. CASE Decode \/ HttpReceiveRequest
    BY <2>1, <2>7, CompressionDecode
  <2>8. ASSUME NEW protocol \in {<<>>} \union { <<p>> : p \in ToSet(server.proposed) }, Accept(protocol) PROVE Compression'
    BY <2>1, <2>8, CompressionAccept
  <2>9. ASSUME NEW code \in Codes \union {200}, NEW drop \in BOOLEAN, Reject(code, drop) PROVE Compression'
    <3>1. /\ server' = [server EXCEPT !.result = "none", !.refused = code] /\ server.result # "none"
          /\ UNCHANGED <<setup, left, attempts, client, request, builder>>
      BY <2>9 DEF Reject
    <3>2. ~server.accepted
      BY <2>1, <3>1 DEF Compressing, Native, Served
    <3>3. server'.ext = server.ext /\ server'.accepted = server.accepted /\ server'.result = "none"
      BY <1>1, <3>1 DEF Servers
    <3> QED
      BY <2>1, <3>1, <3>2, <3>3, CompressionReject
  <2>10. CASE HangUp
    <3>1. /\ server' = [server EXCEPT !.result = "none"] /\ (server.result # "none" \/ pc = "Err")
          /\ UNCHANGED <<setup, left, attempts, client, request, builder>>
      BY <2>10 DEF HangUp
    <3>2. ~server.accepted
      BY <2>1, <3>1 DEF Compressing, Native, Served
    <3>3. server'.ext = server.ext /\ server'.accepted = server.accepted /\ server'.result = "none"
      BY <1>1, <3>1 DEF Servers
    <3> QED
      BY <2>1, <3>1, <3>2, <3>3, CompressionReject
  <2>11. CASE ClientIntoBuilder \/ ServerIntoBuilder
    BY <2>1, <2>11, CompressionBuild
  <2>12. CASE SendData
    <3>1. UNCHANGED <<setup, attempts, request, client, server, answers, builder>> /\ left'.server = left.server
      BY <1>1, <2>12 DEF SendData, Lefts
    <3> QED
      BY <2>1, <3>1, CompressionQuiet
  <2>13. ~ForeignRequest /\ ~ForeignAnswer /\ ~ForeignHangUp
    BY <1>4 DEF ForeignRequest, ForeignAnswer, ForeignHangUp
  <2> QED
    BY HandshakeSteps, <2>2, <2>3, <2>4, <2>5, <2>6, <2>7, <2>8, <2>9, <2>10, <2>11, <2>12, <2>13 DEF HandshakeCases
<1> QED
  BY <1>3, <1>4

\* Two ends of this library agree whether messages are compressed, and neither uses a
\* larger window than the other has agreed to, whatever windows the client was configured
\* with (set_max_server_window_bits at most once: a second call leaves the parameter of
\* the first in the offer).
THEOREM CompressionAgrees ==
  ASSUME SetOnce
  PROVE  HandshakeSpec => []Agreement
<1> DEFINE Inv == BaseInv /\ Keys /\ CurrentInv /\ Flow /\ Compression
<1>1. HandshakeInit => Inv
  BY BaseInit, KeysInit, CurrentInit, FlowInit, CompressionInit
<1>2. Inv /\ [HandshakeNext]_allVars => Inv'
  BY BaseNext, KeysNext, CurrentNext, FlowNext, CompressionNext
<1>3. ASSUME Inv PROVE Agreement
  <2> SUFFICES ASSUME setup.foreign = "none", builder["client"].made, builder["server"].made
               PROVE  /\ builder["client"].rsv1 = builder["server"].rsv1
                      /\ builder["client"].rsv1 => /\ server.ext.our_max_window_bits <= client.ext.their_max_window_bits
                                                   /\ client.ext.our_max_window_bits <= server.ext.their_max_window_bits
    BY DEF Agreement
  <2>1. Offered /\ Negotiated /\ Confirmed
    BY <1>3 DEF Compression
  <2>2. client.result.kind = "Accepted" /\ server.accepted
    BY <2>1 DEF Confirmed
  <2>3. builder["client"].rsv1 <=> BothDeflate
    BY <2>1, <2>2 DEF Confirmed, Offered
  <2>4. BothDeflate => Configured(server.ext, client.ext)
    BY <2>1, <2>2 DEF Negotiated
  <2>5. builder["server"].rsv1 <=> BothDeflate
    BY <2>1, <2>2, <2>4 DEF Negotiated, Confirmed, Configured, Unused
  <2>6. builder["client"].rsv1 \in BOOLEAN /\ builder["server"].rsv1 \in BOOLEAN /\ client.ext \in Exts
    BY <1>3 DEF BaseInv, KnownInv, Known, Builders, Clients
  <2>7. BothDeflate => /\ server.ext.our_max_window_bits <= client.ext.their_max_window_bits
                       /\ client.ext.our_max_window_bits <= server.ext.their_max_window_bits
    BY <2>4, <2>6 DEF Configured, Exts
  <2> QED
    BY <2>3, <2>5, <2>6, <2>7
<1> HIDE DEF Inv
<1> QED
  BY <1>1, <1>2, <1>3, PTL DEF HandshakeSpec

-----------------------------------------------------------------------------
(* The server's answer accepts one of the offers.                          *)

Names == {"server_max_window_bits", "server_no_context_takeover", "client_no_context_takeover"}

\* The server accepts a parameter, and an offer.
Acceptable(p) ==
  \/ p.name = "server_max_window_bits" /\ p.value \in 9..15
  \/ p.name = "client_max_window_bits" /\ (p.value > 255 \/ p.value \in 8..15)
  \/ p.name \in {"server_no_context_takeover", "client_no_context_takeover"}
Takes(params) == \A i \in 1..Len(params) : Acceptable(params[i])

\* Offers of RFC 7692: there is one window for the server, and no value where there is
\* none to give.
WellFormed(params) ==
  /\ \A i, j \in 1..Len(params) : params[i].name = "server_max_window_bits" /\ params[j].name = "server_max_window_bits"
                                    => params[i].value = params[j].value
  /\ \A i \in 1..Len(params) : params[i].name \in {"server_no_context_takeover", "client_no_context_takeover"}
                                 => params[i].value = None

\* No offer that the server accepts is followed by one that it does not.
Orderly(entries) ==
  \A i \in 1..Len(entries) : entries[i].name = Deflate =>
    /\ WellFormed(entries[i].params)
    /\ Takes(entries[i].params) => \A j \in 1..Len(entries) : j > i /\ entries[j].name = Deflate => Takes(entries[j].params)

OrderlyOffers == \A s \in Setups : s.foreign = "client" => \A r \in ForeignRequests[s.peer] : Orderly(r.extensions)

\* What an accepted offer has made of the extension.
Answers(x, params) ==
  /\ Values(params, "unknown") = {}
  /\ \A name \in Names : Values(x.params, name) = Values(params, name)
  /\ \A v \in Values(params, "server_max_window_bits") : x.our_max_window_bits <= v

\* One parameter of an offer.
LEMMA ServerParamIs ==
  ASSUME NEW c \in Configs, NEW p \in AnyParam, NEW d, d = ServerParam(c, p),
         p.name \in {"server_no_context_takeover", "client_no_context_takeover"} => p.value = None
  PROVE  /\ d.stop <=> c.stop \/ ~Acceptable(p)
         /\ d.ext.enabled = c.ext.enabled
         /\ ~d.stop => /\ d.ext.params = IF p.name \in Names THEN Append(c.ext.params, p) ELSE c.ext.params
                       /\ d.ext.our_max_window_bits = IF p.name = "server_max_window_bits" THEN p.value ELSE c.ext.our_max_window_bits
<1>1. /\ p.value \in Nat /\ p = Param(p.name, p.value)
      /\ p.name \in {"server_no_context_takeover", "client_no_context_takeover", "server_max_window_bits",
                     "client_max_window_bits", "unknown"}
  BY DEF AnyParam, Param
<1>2. Stopped(c).stop = TRUE /\ Stopped(c).ext = c.ext
  BY DEF Stopped, Configs
<1>3. CASE c.stop
  BY <1>3 DEF ServerParam
<1>4. CASE ~c.stop /\ p.name = "client_max_window_bits"
  <2>1. d = SetTheirs(c, p, 255)
    BY <1>4 DEF ServerParam
  <2>2. CASE p.value > 255
    BY <1>4, <2>1, <2>2 DEF SetTheirs, Acceptable, Names
  <2>3. CASE ~(p.value > 255) /\ (p.value < 8 \/ p.value > 15)
    <3>1. d = Stopped(c) /\ ~Acceptable(p)
      BY <1>1, <1>4, <2>1, <2>3 DEF SetTheirs, Acceptable
    <3> QED
      BY <1>2, <3>1
  <2>4. CASE ~(p.value > 255) /\ ~(p.value < 8) /\ ~(p.value > 15)
    <3>1. ~(p.value > 255 /\ p.value > 15) /\ p.value \in 8..15 /\ ~(p.value > 255)
      BY <1>1, <2>4
    <3>2. d = [c EXCEPT !.ext.their_max_window_bits = AtLeast9(p.value)] /\ Acceptable(p)
      BY <1>4, <2>1, <2>4, <3>1 DEF SetTheirs, Acceptable
    <3> QED
      BY <1>4, <3>2 DEF Configs, Exts, Names
  <2> QED
    BY <2>2, <2>3, <2>4
<1>5. CASE ~c.stop /\ p.name = "server_max_window_bits"
  <2>1. CASE p.value \in 9..15
    <3>1. d = [Reply(c, p) EXCEPT !.ext.our_max_window_bits = p.value]
      BY <1>5, <2>1 DEF ServerParam
    <3>2. Reply(c, p) \in Configs
      BY ReplyTyped
    <3>3. LET e == Reply(c, p) IN ~e.stop /\ e.ext.params = Append(c.ext.params, p) /\ e.ext.enabled = c.ext.enabled
      BY <1>5, Replies
    <3> QED
      BY <1>5, <2>1, <3>1, <3>2, <3>3 DEF Configs, Exts, Acceptable, Names
  <2>2. CASE p.value \notin 9..15
    <3>1. d = Stopped(c) /\ ~Acceptable(p)
      BY <1>5, <2>2 DEF ServerParam, Acceptable
    <3> QED
      BY <1>2, <3>1
  <2> QED
    BY <2>1, <2>2
<1>6. CASE ~c.stop /\ p.name \in {"server_no_context_takeover", "client_no_context_takeover"}
  <2>1. d = Reply(c, p)
    BY <1>1, <1>6 DEF ServerParam
  <2>2. LET e == Reply(c, p) IN /\ ~e.stop /\ e.ext.params = Append(c.ext.params, p) /\ e.ext.enabled = c.ext.enabled
                                /\ e.ext.our_max_window_bits = c.ext.our_max_window_bits
    BY <1>6, Replies
  <2> QED
    BY <1>6, <2>1, <2>2 DEF Acceptable, Names
<1>7. CASE ~c.stop /\ p.name = "unknown"
  <2>1. d = Stopped(c) /\ ~Acceptable(p)
    BY <1>7 DEF ServerParam, Acceptable
  <2> QED
    BY <1>2, <2>1
<1> QED
  BY <1>1, <1>3, <1>4, <1>5, <1>6, <1>7

\* The values of a parameter.
LEMMA ValuesAre ==
  ASSUME NEW params \in Seq(AnyParam), NEW name, NEW v
  PROVE  v \in Values(params, name) <=> \E i \in 1..Len(params) : params[i].name = name /\ params[i].value = v
<1>1. \A q : q \in ToSet(params) <=> \E i \in 1..Len(params) : params[i] = q
  <2>1. DOMAIN params = 1..Len(params)
    OBVIOUS
  <2> QED
    BY <2>1 DEF ToSet
<1>2. v \in Values(params, name) <=> \E q \in ToSet(params) : q.name = name /\ q.value = v
  BY DEF Values
<1> QED
  BY <1>1, <1>2, Zenon

\* All parameters of an offer.
LEMMA ServerConfigureIs ==
  ASSUME NEW ext \in Exts, NEW params \in Seq(AnyParam), WellFormed(params), NEW d, d = Configure("Server", ext, params)
  PROVE  /\ Takes(params) => Answers(d, params)
         /\ ~Takes(params) => d.enabled = ext.enabled
<1> DEFINE bare == [ext EXCEPT !.params = <<>>]
           f == Rounds("Server", bare, params)
           n == Len(params)
           Refused(i) == \E j \in 1..n : j <= i /\ ~Acceptable(params[j])
           Given(i, name, v) == \E j \in 1..n : j <= i /\ params[j].name = name /\ params[j].value = v
           Replied(i) == \A name \in Names : \A v : v \in Values(f[i].ext.params, name) <=> Given(i, name, v)
           Used(i) == \A v : Given(i, "server_max_window_bits", v) => f[i].ext.our_max_window_bits = v
           Stands(i) == /\ f[i].stop <=> Refused(i)
                        /\ f[i].ext.enabled = ext.enabled
                        /\ ~f[i].stop => Replied(i) /\ Used(i)
           S == {i \in 0..n : Stands(i)}
<1>1. bare \in Exts /\ bare.enabled = ext.enabled /\ bare.params = <<>>
  <2>1. <<>> \in Seq(AnyParam)
    OBVIOUS
  <2> QED
    BY <2>1 DEF Exts
<1> HIDE DEF bare
<1>2. /\ f \in [0..n -> Configs] /\ f[0] = Start(bare)
      /\ \A i \in 1..n : f[i] = ServerParam(f[i - 1], params[i])
  BY <1>1, RoundsAre
<1>3. n \in Nat /\ \A i \in 1..n : params[i] \in AnyParam
  OBVIOUS
<1>4. /\ \A i, j \in 1..n : params[i].name = "server_max_window_bits" /\ params[j].name = "server_max_window_bits"
                               => params[i].value = params[j].value
      /\ \A i \in 1..n : params[i].name \in {"server_no_context_takeover", "client_no_context_takeover"} => params[i].value = None
  BY DEF WellFormed
<1>5. d = [f[n].ext EXCEPT !.enabled = @ \/ ~f[n].stop]
  BY DEF Configure, ServerConfigure, bare
<1>6. \A name, v : v \in Values(params, name) <=> Given(n, name, v)
  <2>1. \A i \in 1..n : i <= n
    BY <1>3
  <2> QED
    <3> SUFFICES ASSUME NEW name, NEW v PROVE v \in Values(params, name) <=> Given(n, name, v)
      OBVIOUS
    <3>1. v \in Values(params, name) <=> \E i \in 1..Len(params) : params[i].name = name /\ params[i].value = v
      BY ValuesAre
    <3> QED
      BY <2>1, <3>1, Zenon
<1>7. Takes(params) <=> ~Refused(n)
  <2>1. \A i \in 1..n : i <= n
    BY <1>3
  <2> QED
    BY <2>1, Zenon DEF Takes
<1> HIDE DEF f, n
<1>8. 0 \in S
  <2>1. f[0].ext = bare /\ f[0].stop = FALSE
    BY <1>2 DEF Start
  <2>2. \A j \in 1..n : ~(j <= 0)
    BY <1>3
  <2>3. ~Refused(0) /\ \A name, v : ~Given(0, name, v)
    BY <2>2, Zenon
  <2>4. \A name : Values(<<>>, name) = {}
    BY DEF Values, ToSet
  <2>5. \A name, v : v \notin Values(f[0].ext.params, name)
    BY <1>1, <2>1, <2>4
  <2> HIDE DEF Refused, Given
  <2>6. Stands(0)
    BY <1>1, <2>1, <2>3, <2>5, Zenon
  <2> HIDE DEF Stands
  <2> QED
    BY <1>3, <2>6
<1>9. ASSUME NEW i \in 1..n, i - 1 \in S PROVE i \in S
  <2>1. i - 1 \in 0..n /\ i \in 0..n
    BY <1>3
  <2>2. PICK c \in Configs, e \in Configs, p \in AnyParam : c = f[i - 1] /\ e = f[i] /\ p = params[i] /\ e = ServerParam(c, p)
    BY <1>2, <1>3, <2>1
  <2>3. p.name \in {"server_no_context_takeover", "client_no_context_takeover"} => p.value = None
    BY <1>4, <2>2
  <2>4. /\ e.stop <=> c.stop \/ ~Acceptable(p)
        /\ e.ext.enabled = c.ext.enabled
        /\ ~e.stop => /\ e.ext.params = IF p.name \in Names THEN Append(c.ext.params, p) ELSE c.ext.params
                      /\ e.ext.our_max_window_bits = IF p.name = "server_max_window_bits" THEN p.value ELSE c.ext.our_max_window_bits
    BY <2>2, <2>3, ServerParamIs
  <2>5. /\ c.stop <=> Refused(i - 1)
        /\ c.ext.enabled = ext.enabled
        /\ ~c.stop => Replied(i - 1) /\ Used(i - 1)
    BY <1>9, <2>2
  <2>6. \A j \in 1..n : j <= i <=> (j <= i - 1 \/ j = i)
    BY <1>3
  <2>7. Refused(i) <=> Refused(i - 1) \/ ~Acceptable(p)
    BY <2>2, <2>6, Zenon
  <2>8. \A name, v : Given(i, name, v) <=> Given(i - 1, name, v) \/ (p.name = name /\ p.value = v)
    BY <2>2, <2>6, Zenon
  <2>9. ASSUME ~e.stop PROVE Replied(i)
    <3>1. c.ext.params \in Seq(AnyParam)
      BY DEF Configs, Exts
    <3> SUFFICES ASSUME NEW name \in Names, NEW v PROVE v \in Values(f[i].ext.params, name) <=> Given(i, name, v)
      OBVIOUS
    <3>2. v \in Values(c.ext.params, name) <=> Given(i - 1, name, v)
      BY <2>2, <2>4, <2>5, <2>9
    <3>3. v \in Values(e.ext.params, name) <=> v \in Values(c.ext.params, name) \/ (p.name = name /\ p.value = v)
      <4>1. CASE p.name \in Names
        <5>1. Values(Append(c.ext.params, p), name) = Values(c.ext.params, name) \union (IF p.name = name THEN {p.value} ELSE {})
          BY <3>1, ValuesAppend
        <5> QED
          BY <2>4, <2>9, <4>1, <5>1
      <4>2. CASE p.name \notin Names
        BY <2>4, <2>9, <4>2
      <4> QED
        BY <4>1, <4>2
    <3> HIDE DEF Given
    <3> QED
      BY <2>2, <2>8, <3>2, <3>3
  <2>10. ASSUME ~e.stop PROVE Used(i)
    <3> SUFFICES ASSUME NEW v, Given(i, "server_max_window_bits", v) PROVE e.ext.our_max_window_bits = v
      BY <2>2
    <3>1. CASE p.name = "server_max_window_bits"
      <4>1. p.value = v
        BY <1>4, <2>2, <3>1
      <4> QED
        BY <2>4, <2>10, <3>1, <4>1
    <3>2. CASE p.name # "server_max_window_bits"
      <4>1. Given(i - 1, "server_max_window_bits", v)
        BY <2>8, <3>2
      <4>2. c.ext.our_max_window_bits = v
        BY <2>2, <2>4, <2>5, <2>10, <4>1
      <4> QED
        BY <2>4, <2>10, <3>2, <4>2
    <3> QED
      BY <3>1, <3>2
  <2> HIDE DEF Refused, Given, Replied, Used
  <2> QED
    BY <2>1, <2>2, <2>4, <2>5, <2>7, <2>9, <2>10
<1>10. \A i \in 0..n : i \in S
  <2> HIDE DEF S
  <2> QED
    BY <1>3, <1>8, <1>9, InductionTo
<1>11. PICK c \in Configs : c = f[n] /\ Stands(n)
  <2>1. n \in 0..n
    BY <1>3
  <2> QED
    BY <1>2, <1>10, <2>1
<1>12. /\ d.enabled = (c.ext.enabled \/ ~c.stop) /\ d.params = c.ext.params /\ d.our_max_window_bits = c.ext.our_max_window_bits
  BY <1>5, <1>11 DEF Configs, Exts
<1>13. ASSUME ~Takes(params) PROVE d.enabled = ext.enabled
  BY <1>7, <1>11, <1>12, <1>13 DEF Exts
<1>14. ASSUME Takes(params) PROVE Answers(d, params)
  <2> HIDE DEF Refused, Given
  <2>1. ~c.stop /\ Replied(n) /\ Used(n)
    BY <1>7, <1>11, <1>14
  <2>2. \A name \in Names : Values(d.params, name) = Values(params, name)
    <3> SUFFICES ASSUME NEW name \in Names, NEW v PROVE v \in Values(c.ext.params, name) <=> v \in Values(params, name)
      BY <1>12
    <3>1. v \in Values(c.ext.params, name) <=> Given(n, name, v)
      BY <1>11, <2>1
    <3> QED
      BY <1>6, <3>1, Zenon
  <2>3. \A v \in Values(params, "server_max_window_bits") : d.our_max_window_bits <= v
    <3> SUFFICES ASSUME NEW v \in Values(params, "server_max_window_bits") PROVE d.our_max_window_bits <= v
      OBVIOUS
    <3>1. d.our_max_window_bits = v
      BY <1>6, <1>11, <1>12, <2>1
    <3>2. d.our_max_window_bits \in 9..15
      BY <1>12 DEF Configs, Exts
    <3> QED
      BY <3>1, <3>2
  <2>4. Values(params, "unknown") = {}
    <3> SUFFICES ASSUME NEW v \in Values(params, "unknown") PROVE FALSE
      OBVIOUS
    <3>1. PICK i \in 1..Len(params) : params[i].name = "unknown"
      BY ValuesAre
    <3> QED
      BY <1>14, <3>1 DEF Takes, Acceptable
  <2> QED
    BY <2>2, <2>3, <2>4 DEF Answers
<1> QED
  BY <1>13, <1>14

\* All offers.
LEMMA OffersAnswered ==
  ASSUME NEW ext \in Exts, ~ext.enabled, NEW entries \in Seq(AnyEntry), Orderly(entries),
         NEW d, d = ConfigureExtensions("Server", ext, entries), d.enabled
  PROVE  \E e \in ToSet(entries) : Answers(d, e.params)
<1> DEFINE f == ConfigureEach("Server", ext, entries)
           n == Len(entries)
           By(i, j) == j <= i /\ entries[j].name = Deflate /\ Takes(entries[j].params) /\ Answers(f[i], entries[j].params)
           S == {i \in 0..n : f[i].enabled => \E j \in 1..n : By(i, j)}
<1>1. /\ f \in [0..n -> Exts] /\ f[0] = ext
      /\ \A i \in 1..n : f[i] = IF IsConfigured(entries, i) THEN Configure("Server", f[i - 1], entries[i].params) ELSE f[i - 1]
  BY ConfigureEachIs
<1>2. d = f[n]
  BY DEF ConfigureExtensions
<1>3. n \in Nat
  OBVIOUS
<1> HIDE DEF f
<1>4. 0 \in S
  BY <1>1, <1>3
<1>5. ASSUME NEW i \in 1..n, i - 1 \in S PROVE i \in S
  <2>1. i - 1 \in 0..n /\ i \in 0..n /\ i <= i
    BY <1>3
  <2>2. PICK x \in Exts, y \in Exts : x = f[i - 1] /\ y = f[i] /\ y = IF IsConfigured(entries, i) THEN Configure("Server", x, entries[i].params) ELSE x
    BY <1>1, <2>1
  <2>3. x.enabled => \E j \in 1..n : By(i - 1, j)
    BY <1>5, <2>2
  <2>4. entries[i].params \in Seq(AnyParam)
    <3>1. entries[i] \in AnyEntry
      OBVIOUS
    <3> QED
      BY <3>1 DEF AnyEntry
  <2>5. CASE IsConfigured(entries, i) /\ Takes(entries[i].params)
    <3>1. entries[i].name = Deflate /\ WellFormed(entries[i].params)
      BY <2>5 DEF IsConfigured, Orderly
    <3>2. Answers(y, entries[i].params)
      BY <2>2, <2>4, <2>5, <3>1, ServerConfigureIs
    <3>3. By(i, i)
      BY <2>1, <2>2, <2>5, <3>1, <3>2
    <3> HIDE DEF By
    <3> QED
      BY <2>1, <3>3
  <2>6. CASE IsConfigured(entries, i) /\ ~Takes(entries[i].params)
    <3>1. entries[i].name = Deflate /\ WellFormed(entries[i].params)
      BY <2>6 DEF IsConfigured, Orderly
    <3>2. y.enabled = x.enabled
      BY <2>2, <2>4, <2>6, <3>1, ServerConfigureIs
    <3>3. ASSUME NEW j \in 1..n, By(i - 1, j) PROVE FALSE
      <4>1. j < i
        BY <1>3, <3>3
      <4> QED
        BY <2>6, <3>1, <3>3, <4>1 DEF Orderly
    <3>4. ~y.enabled
      BY <2>3, <3>2, <3>3
    <3> QED
      BY <2>1, <2>2, <3>4
  <2>7. CASE ~IsConfigured(entries, i)
    <3>1. f[i] = f[i - 1]
      BY <2>2, <2>7
    <3>2. \A j \in 1..n : j <= i - 1 => j <= i
      BY <1>3
    <3>3. \A j \in 1..n : By(i - 1, j) => By(i, j)
      BY <3>1, <3>2, Zenon
    <3> HIDE DEF By
    <3> QED
      BY <2>1, <2>2, <2>3, <3>1, <3>3
  <2> QED
    BY <2>5, <2>6, <2>7
<1>6. \A i \in 0..n : i \in S
  <2> HIDE DEF S
  <2> QED
    BY <1>3, <1>4, <1>5, InductionTo
<1>7. PICK j \in 1..n : Answers(d, entries[j].params)
  <2>1. n \in S
    BY <1>3, <1>6
  <2> QED
    BY <1>2, <2>1
<1>8. entries[j] \in ToSet(entries)
  <2>1. j \in DOMAIN entries
    OBVIOUS
  <2> QED
    BY <2>1, Zenon DEF ToSet
<1> QED
  BY <1>7, <1>8

\* A Server meets another client with a new extension, and configures it once.
ConfiguredOnce == server.result = "Ok" => server.ext = IF setup.serverDeflate THEN ConfigureExtensions("Server", NewServer, request.extensions) ELSE NewServer
Pending ==
  /\ setup.foreign = "server" => server.result = "none"
  /\ setup.foreign = "client" =>
       /\ stream # <<>> => request \in ForeignRequests[setup.peer]
       /\ ~hungup /\ pc \notin {"Complete", "Partial"} => server.ext = NewServer /\ server.result = "none"
       /\ ConfiguredOnce

LEMMA PendingInit == HandshakeInit => Pending
  BY DEF HandshakeInit, Pending, ServerNew, ConfiguredOnce

LEMMA PendingNext == BaseInv /\ CurrentInv /\ Pending /\ [HandshakeNext]_allVars => Pending'
<1> SUFFICES ASSUME BaseInv, CurrentInv, Pending, [HandshakeNext]_allVars PROVE Pending'
  OBVIOUS
<1>1. Known /\ Fresh /\ Current /\ server \in Servers
  BY DEF BaseInv, KnownInv, Known, CurrentInv
<1>2. ASSUME UNCHANGED <<setup, request, server, stream, hungup>>, pc' \in {"Complete", "Partial"} <=> pc \in {"Complete", "Partial"}
      PROVE  Pending'
  BY <1>2 DEF Pending, ConfiguredOnce
<1>3. CASE \/ \E max \in Bits : SetMaxServerWindowBits(max) \/ SetMaxClientWindowBits(max)
           \/ (\E n \in 1..BLOCK_SIZE : ReadResponse(n)) \/ ReadResponseEof \/ ClientIntoBuilder \/ ServerIntoBuilder
           \/ SendData \/ ForeignAnswer \/ UNCHANGED allVars
  <2>1. UNCHANGED <<vars, setup, request, server, hungup>>
    BY <1>3, Zenon DEF SetMaxServerWindowBits, SetMaxClientWindowBits, ReadResponse, ReadResponseEof, ClientIntoBuilder,
       ServerIntoBuilder, Build, SendData, ForeignAnswer, allVars, handshakeVars
  <2> QED
    BY <1>2, <2>1 DEF vars
<1>4. CASE SendRequest
  BY <1>4 DEF SendRequest, Pending
<1>5. CASE ForeignHangUp
  BY <1>5 DEF ForeignHangUp, Pending, vars
<1>6. CASE ForeignRequest
  <2>1. /\ UNCHANGED <<setup, server, hungup, pc>> /\ setup.foreign = "client" /\ stream = <<>>
        /\ request' \in ForeignRequests[setup.peer]
    BY <1>1, <1>6 DEF ForeignRequest, Fresh
  <2>2. server.result = "none"
    BY <1>1, <2>1 DEF Current
  <2> QED
    BY <2>1, <2>2 DEF Pending, ConfiguredOnce
<1>7. CASE ReceiveRequest
  <2>1. UNCHANGED <<setup, request, server, stream, hungup>> /\ pc \notin {"Complete", "Partial"}
        /\ setup.foreign # "server" /\ ~hungup
    BY <1>7 DEF ReceiveRequest, handshakeVars, Read, Scan, ReadEof, Serving
  <2> QED
    BY <2>1 DEF Pending, ConfiguredOnce
<1>8. ASSUME NEW outcome, NEW configured \in BOOLEAN, NEW proposed, server' = Decoded(outcome, configured, proposed),
             UNCHANGED <<setup, request, stream, hungup>>, ~hungup, setup.foreign # "server",
             pc \notin {"Complete", "Partial"}, pc' \in {"Complete", "Partial"}, outcome = "Ok" => configured
      PROVE  Pending'
  <2> SUFFICES ASSUME setup.foreign = "client" PROVE (stream # <<>> => request \in ForeignRequests[setup.peer])' /\ ConfiguredOnce'
    BY <1>8 DEF Pending
  <2>1. server.ext = NewServer
    BY <1>8 DEF Pending
  <2>2. /\ server'.result = outcome
        /\ server'.ext = IF configured /\ setup.serverDeflate
                         THEN ConfigureExtensions("Server", server.ext, request.extensions) ELSE server.ext
    BY <1>1, <1>8, DecodedIs
  <2> QED
    BY <1>8, <2>1, <2>2 DEF Pending, ConfiguredOnce
<1>9. CASE Decode
  <2> DEFINE outcome == IF pc' = "Complete" THEN RequestOutcome(request) ELSE "IncompleteHttpRequest"
             configured == outcome \in {"Ok", "Utf8"}
  <2>1. /\ server' = Decoded(outcome, configured, Proposed(request)) /\ ~hungup /\ setup.foreign # "server"
        /\ UNCHANGED <<setup, request, stream, hungup>> /\ pc = "decode" /\ pc' \in {"Complete", "Partial"}
    BY <1>9 DEF Decode, DecodeRequest, Serving
  <2>2. configured \in BOOLEAN /\ (outcome = "Ok" => configured)
    OBVIOUS
  <2> HIDE DEF outcome, configured
  <2> QED
    BY <1>8, <2>1, <2>2
<1>10. CASE HttpReceiveRequest
  <2> DEFINE outcome == HttpOutcome(request)
             configured == outcome = "Ok"
  <2>1. /\ server' = Decoded(outcome, configured, <<>>) /\ ~hungup /\ setup.foreign # "server"
        /\ UNCHANGED <<setup, request, stream, hungup>> /\ pc = "read" /\ pc' = "Complete"
    BY <1>10 DEF HttpReceiveRequest, Serving
  <2>2. configured \in BOOLEAN /\ (outcome = "Ok" => configured)
    OBVIOUS
  <2> HIDE DEF outcome, configured
  <2> QED
    BY <1>8, <2>1, <2>2
<1>11. ASSUME NEW protocol, Accept(protocol) PROVE Pending'
  <2>1. server'.result = "none" /\ UNCHANGED <<stream, pc, setup, request, hungup>> /\ ~hungup /\ server.result = "Ok"
    BY <1>1, <1>11 DEF Accept, Servers, vars
  <2> QED
    BY <2>1 DEF Pending, ConfiguredOnce
<1>12. ASSUME NEW code, NEW drop \in BOOLEAN, Reject(code, drop) PROVE Pending'
  <2>1. /\ server'.result = "none" /\ setup' = setup /\ stream' = <<>> /\ hungup' = drop
        /\ drop \/ setup.foreign # "client"
    BY <1>1, <1>12 DEF Reject, Servers
  <2> QED
    BY <2>1 DEF Pending, ConfiguredOnce
<1>13. CASE HangUp
  <2>1. server'.result = "none" /\ UNCHANGED <<setup, request, stream>> /\ hungup' = TRUE
    BY <1>1, <1>13 DEF HangUp, Servers, vars
  <2> QED
    BY <2>1 DEF Pending, ConfiguredOnce
<1> QED
  BY HandshakeSteps, <1>3, <1>4, <1>5, <1>6, <1>7, <1>9, <1>10, <1>11, <1>12, <1>13 DEF HandshakeCases

\* What a client of this library offers is answered.
LEMMA OwnOfferAnswered ==
  ASSUME NEW c \in Exts, NEW x \in Exts, Offers(c.params, c.our_max_window_bits, c.their_max_window_bits), Configured(x, c)
  PROVE  Answers(x, c.params)
<1>1. PICK a \in Seq(AnyParam), b \in Seq(AnyParam), t \in 9..15 :
        a = c.params /\ b = x.params /\ t = c.their_max_window_bits /\ x.our_max_window_bits = t
  BY DEF Exts, Configured
<1>2. /\ Len(a) \in {3, 4} /\ a[1] = Param("server_no_context_takeover", None) /\ a[2] = Param("client_no_context_takeover", None)
      /\ a[3].name = "client_max_window_bits"
      /\ Len(a) = 4 => a[4] = Param("server_max_window_bits", t)
  BY <1>1 DEF Offers, Param
<1>3. /\ Len(b) = Len(a) - 1 /\ b[1] = Param("server_no_context_takeover", None) /\ b[2] = Param("client_no_context_takeover", None)
      /\ Len(b) = 3 => b[3] = Param("server_max_window_bits", t)
  <2>1. Confirming(x.params, Len(c.params) - 1, c.their_max_window_bits)
    BY DEF Configured
  <2> QED
    BY <1>1, <2>1 DEF Confirming
<1>4. /\ a[1].name = "server_no_context_takeover" /\ a[1].value = None /\ a[2].name = "client_no_context_takeover" /\ a[2].value = None
      /\ b[1].name = "server_no_context_takeover" /\ b[1].value = None /\ b[2].name = "client_no_context_takeover" /\ b[2].value = None
      /\ Len(a) = 4 => a[4].name = "server_max_window_bits" /\ a[4].value = t
      /\ Len(b) = 3 => b[3].name = "server_max_window_bits" /\ b[3].value = t
  BY <1>2, <1>3 DEF Param
<1>5. \A name, v : v \in Values(a, name) <=> \E i \in 1..Len(a) : a[i].name = name /\ a[i].value = v
  BY ValuesAre
<1>6. \A name, v : v \in Values(b, name) <=> \E i \in 1..Len(b) : b[i].name = name /\ b[i].value = v
  BY ValuesAre
<1>7. CASE Len(a) = 3
  <2>1. Len(b) = 2 /\ 1..Len(a) = {1, 2, 3} /\ 1..Len(b) = {1, 2}
    BY <1>3, <1>7
  <2>2. \A name, v : v \in Values(a, name) <=>
              \/ a[1].name = name /\ a[1].value = v
              \/ a[2].name = name /\ a[2].value = v
              \/ a[3].name = name /\ a[3].value = v
    <3> SUFFICES ASSUME NEW name, NEW v
                 PROVE  (\E i \in {1, 2, 3} : a[i].name = name /\ a[i].value = v)
                        <=> ((a[1].name = name /\ a[1].value = v) \/ (a[2].name = name /\ a[2].value = v) \/ (a[3].name = name /\ a[3].value = v))
      BY <1>5, <2>1
    <3> QED
      BY SMT
  <2>3. \A name, v : v \in Values(b, name) <=>
              \/ b[1].name = name /\ b[1].value = v
              \/ b[2].name = name /\ b[2].value = v
    <3> SUFFICES ASSUME NEW name, NEW v
                 PROVE  (\E i \in {1, 2} : b[i].name = name /\ b[i].value = v)
                        <=> ((b[1].name = name /\ b[1].value = v) \/ (b[2].name = name /\ b[2].value = v))
      BY <1>6, <2>1
    <3> QED
      BY SMT
  <2>4. Values(a, "unknown") = {}
    BY <1>2, <1>4, <2>2
  <2>5. Values(a, "server_max_window_bits") = {}
    BY <1>2, <1>4, <2>2
  <2>6. Values(b, "server_max_window_bits") = {}
    BY <1>2, <1>4, <2>3
  <2>7. Values(a, "server_no_context_takeover") = {None}
    BY <1>2, <1>4, <2>2
  <2>8. Values(b, "server_no_context_takeover") = {None}
    BY <1>2, <1>4, <2>3
  <2>9. Values(a, "client_no_context_takeover") = {None}
    BY <1>2, <1>4, <2>2
  <2>10. Values(b, "client_no_context_takeover") = {None}
    BY <1>2, <1>4, <2>3
  <2>11. \A name \in Names : Values(b, name) = Values(a, name)
    BY <2>5, <2>6, <2>7, <2>8, <2>9, <2>10 DEF Names
  <2>12. \A v \in Values(a, "server_max_window_bits") : x.our_max_window_bits <= v
    BY <1>1, <2>5
  <2> QED
    BY <1>1, <2>4, <2>11, <2>12 DEF Answers
<1>8. CASE Len(a) = 4
  <2>1. Len(b) = 3 /\ 1..Len(a) = {1, 2, 3, 4} /\ 1..Len(b) = {1, 2, 3}
    BY <1>3, <1>8
  <2>2. \A name, v : v \in Values(a, name) <=>
              \/ a[1].name = name /\ a[1].value = v
              \/ a[2].name = name /\ a[2].value = v
              \/ a[3].name = name /\ a[3].value = v
              \/ a[4].name = name /\ a[4].value = v
    <3> SUFFICES ASSUME NEW name, NEW v
                 PROVE  (\E i \in {1, 2, 3, 4} : a[i].name = name /\ a[i].value = v)
                        <=> ((a[1].name = name /\ a[1].value = v) \/ (a[2].name = name /\ a[2].value = v) \/ (a[3].name = name /\ a[3].value = v) \/ (a[4].name = name /\ a[4].value = v))
      BY <1>5, <2>1
    <3> QED
      BY SMT
  <2>3. \A name, v : v \in Values(b, name) <=>
              \/ b[1].name = name /\ b[1].value = v
              \/ b[2].name = name /\ b[2].value = v
              \/ b[3].name = name /\ b[3].value = v
    <3> SUFFICES ASSUME NEW name, NEW v
                 PROVE  (\E i \in {1, 2, 3} : b[i].name = name /\ b[i].value = v)
                        <=> ((b[1].name = name /\ b[1].value = v) \/ (b[2].name = name /\ b[2].value = v) \/ (b[3].name = name /\ b[3].value = v))
      BY <1>6, <2>1
    <3> QED
      BY SMT
  <2>4. Values(a, "unknown") = {}
    BY <1>2, <1>4, <2>2, <1>8, <2>1
  <2>5. Values(a, "server_max_window_bits") = {t}
    BY <1>2, <1>4, <2>2, <1>8, <2>1
  <2>6. Values(b, "server_max_window_bits") = {t}
    BY <1>2, <1>4, <2>3, <1>8, <2>1
  <2>7. Values(a, "server_no_context_takeover") = {None}
    BY <1>2, <1>4, <2>2, <1>8, <2>1
  <2>8. Values(b, "server_no_context_takeover") = {None}
    BY <1>2, <1>4, <2>3, <1>8, <2>1
  <2>9. Values(a, "client_no_context_takeover") = {None}
    BY <1>2, <1>4, <2>2, <1>8, <2>1
  <2>10. Values(b, "client_no_context_takeover") = {None}
    BY <1>2, <1>4, <2>3, <1>8, <2>1
  <2>11. \A name \in Names : Values(b, name) = Values(a, name)
    BY <2>5, <2>6, <2>7, <2>8, <2>9, <2>10 DEF Names
  <2>12. \A v \in Values(a, "server_max_window_bits") : x.our_max_window_bits <= v
    BY <1>1, <2>5
  <2> QED
    BY <1>1, <2>4, <2>11, <2>12 DEF Answers
<1> QED
  BY <1>2, <1>7, <1>8

\* The server's answer accepts an offer, of any client whose offers are those of RFC 7692
\* and do not put one that the server declines behind one that it accepts, and of this
\* library's client.
THEOREM AnswersAnOffer ==
  ASSUME SetOnce, OrderlyOffers
  PROVE  HandshakeSpec => []AcceptsAnOffer
<1> DEFINE Inv == BaseInv /\ Keys /\ CurrentInv /\ Flow /\ Compression /\ Pending
<1>1. HandshakeInit => Inv
  BY BaseInit, KeysInit, CurrentInit, FlowInit, CompressionInit, PendingInit
<1>2. Inv /\ [HandshakeNext]_allVars => Inv'
  BY BaseNext, KeysNext, CurrentNext, FlowNext, CompressionNext, PendingNext
<1>3. ASSUME Inv PROVE AcceptsAnOffer
  <2> SUFFICES ASSUME server.result = "Ok", server.ext.enabled
               PROVE  \E e \in ToSet(request.extensions) : Answers(server.ext, e.params)
    BY Zenon DEF AcceptsAnOffer, Answers, Names
  <2>1. /\ Known /\ Current /\ Pending /\ client.ext \in Exts /\ server.ext \in Exts /\ request.extensions \in Seq(AnyEntry)
    BY <1>3 DEF BaseInv, KnownInv, Known, CurrentInv, Clients, Servers, AnyRequest
  <2>2. setup.foreign \in {"none", "client"} /\ setup \in Setups /\ stream # <<>>
    BY <2>1, SetupIs DEF Known, Pending, Current
  <2>3. CASE setup.foreign = "none"
    <3>1. Offered /\ Negotiated
      BY <1>3, <2>3 DEF Compression
    <3>2. BothDeflate /\ attempts > 0 /\ Configured(server.ext, client.ext)
      BY <3>1 DEF Negotiated, Unused
    <3>3. request.extensions = <<Entry(client.ext.params)>>
      BY <3>1, <3>2 DEF Offered, BothDeflate
    <3>4. Answers(server.ext, client.ext.params)
      BY <2>1, <3>1, <3>2, OwnOfferAnswered DEF Offered
    <3>5. Entry(client.ext.params) \in ToSet(request.extensions) /\ Entry(client.ext.params).params = client.ext.params
      BY <3>3 DEF ToSet, Entry
    <3> QED
      BY <3>4, <3>5
  <2>4. CASE setup.foreign = "client"
    <3>1. ~NewServer.enabled /\ NewServer \in Exts
      BY NewTyped DEF NewServer
    <3>2. server.ext = ConfigureExtensions("Server", NewServer, request.extensions)
      BY <2>1, <2>4, <3>1 DEF Pending, ConfiguredOnce
    <3>3. Orderly(request.extensions)
      BY <2>1, <2>2, <2>4 DEF Pending, OrderlyOffers
    <3> QED
      BY <2>1, <3>1, <3>2, <3>3, OffersAnswered
  <2> QED
    BY <2>2, <2>3, <2>4
<1> HIDE DEF Inv
<1> QED
  BY <1>1, <1>2, <1>3, PTL DEF HandshakeSpec

=============================================================================
