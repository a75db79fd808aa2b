---------------------------- MODULE AssemblyProofs ----------------------------
(***************************************************************************)
(* What receive makes of the frames of a peer, for any number of frames:   *)
(* that it never takes a payload for a header, that it tells its callers   *)
(* what the frames mean, and that control frames are answered.  Each holds *)
(* for the inputs said here; Receiver_discard and Receiver_pong show what  *)
(* happens to others.                                                      *)
(***************************************************************************)
EXTENDS ReceiverProofs

-----------------------------------------------------------------------------
(* Where frames are among the tokens.                                      *)

\* Where frame h ends.
End(h) == Len(TokensUpTo(input)[h])

\* Where frames end in the tokens.
LEMMA FrameEnds ==
  ASSUME Known
  PROVE  /\ Len(input) \in Nat /\ Len(input) > 0 /\ End(0) = 0 /\ End(Len(input)) = Len(T)
         /\ \A h \in 0..Len(input) : End(h) \in Nat /\ End(h) <= Len(T)
         /\ \A h \in 1..Len(input) : input[h] \in Frames /\ input[h].len \in Nat /\ End(h) = End(h - 1) + 1 + input[h].len
<1>1. input \in Seq(Frames) /\ Len(input) \in Nat /\ input # <<>>
  BY Setup
<1>2. Len(input) > 0
  BY <1>1, EmptySeq
<1>3. End(0) = 0
  BY <1>1, UpTo DEF End
<1>4. End(Len(input)) = Len(T)
  BY DEF End, T, Tokens
<1>5. ASSUME NEW h \in 0..Len(input) PROVE End(h) \in Nat /\ End(h) <= Len(T)
  <2>1. End(h) \in Nat
    BY <1>1, FramePlace DEF End
  <2>2. Len(input) \in 0..Len(input) /\ h <= Len(input)
    BY <1>1
  <2>3. End(h) <= End(Len(input))
    BY <1>1, <2>2, Beginning DEF End
  <2> QED
    BY <1>4, <2>1, <2>3
<1>6. ASSUME NEW h \in 1..Len(input) PROVE input[h] \in Frames /\ input[h].len \in Nat /\ End(h) = End(h - 1) + 1 + input[h].len
  <2>1. h \in 0..Len(input) /\ h > 0
    OBVIOUS
  <2> QED
    BY <1>1, <2>1, FramePlace DEF End
<1> QED
  BY <1>1, <1>2, <1>3, <1>4, <1>5, <1>6

\* The tokens of frame h.
LEMMA FrameTokens ==
  ASSUME Known, NEW h \in 1..Len(input)
  PROVE  /\ T[End(h - 1) + 1] = <<h, 0, 0>>
         /\ \A p \in 1..input[h].len : T[End(h - 1) + 1 + p] = <<h, p, 0>>
<1> DEFINE U == TokensUpTo(input)
<1>1. input \in Seq(Frames) /\ Len(input) \in Nat
  BY Setup
<1>2. h \in Nat /\ h \in 0..Len(input) /\ h > 0 /\ h - 1 \in 0..Len(input) /\ Len(input) \in 0..Len(input) /\ h <= Len(input)
  BY <1>1
<1>3. U[h - 1] \in Seq(Token) /\ input[h] \in Frames /\ U[h] = WithFrame(U[h - 1], h, input[h])
  BY <1>1, <1>2, FramePlace
<1>4. Len(U[h]) <= Len(U[Len(input)]) /\ \A p \in 1..Len(U[h]) : U[Len(input)][p] = U[h][p]
  BY <1>1, <1>2, Beginning
<1>5. T = U[Len(input)] /\ End(h - 1) = Len(U[h - 1])
  BY DEF T, Tokens, End
<1> HIDE DEF U
<1>6. PICK s \in Seq(Token), frame \in Frames : s = U[h - 1] /\ frame = input[h] /\ U[h] = WithFrame(s, h, frame)
  BY <1>3
<1>7. LET r == WithFrame(s, h, frame) IN
      /\ frame.len \in Nat /\ Len(r) = Len(s) + 1 + frame.len
      /\ r[Len(s) + 1] = <<h, 0, 0>>
      /\ \A j \in 1..frame.len : r[Len(s) + 1 + j] = <<h, j, 0>>
  BY <1>2, AddFrame
<1>8. PICK a \in Nat, l \in Nat : a = Len(s) /\ l = frame.len
  BY <1>7
<1>9. /\ Len(U[h]) = a + 1 + l /\ U[h][a + 1] = <<h, 0, 0>>
      /\ \A j \in 1..l : U[h][a + 1 + j] = <<h, j, 0>>
  BY <1>6, <1>7, <1>8
<1>10. a + 1 \in 1..Len(U[h]) /\ \A j \in 1..l : a + 1 + j \in 1..Len(U[h])
  BY <1>9
<1>11. T[a + 1] = <<h, 0, 0>> /\ \A j \in 1..l : T[a + 1 + j] = <<h, j, 0>>
  BY <1>4, <1>5, <1>9, <1>10
<1> QED
  BY <1>5, <1>6, <1>8, <1>11

-----------------------------------------------------------------------------
(* The length of the message that is open.                                 *)

\* How much of a message the first i frames leave open, for every i.
OpenLength(frames) ==
  LET upTo[i \in 0..Len(frames)] ==
        IF i = 0 THEN 0
        ELSE IF is_control(frames[i].opcode) THEN upTo[i - 1]
        ELSE IF frames[i].fin THEN 0
        ELSE upTo[i - 1] + frames[i].len
  IN  upTo

\* OpenLength step by step.
LEMMA OpenLengths ==
  ASSUME NEW frames \in Seq(Frames)
  PROVE  /\ \A i \in 0..Len(frames) : OpenLength(frames)[i] \in Nat
         /\ \A i \in 1..Len(frames) :
              OpenLength(frames)[i] = IF is_control(frames[i].opcode) THEN OpenLength(frames)[i - 1]
                                      ELSE IF frames[i].fin THEN 0
                                      ELSE OpenLength(frames)[i - 1] + frames[i].len
<1> DEFINE n == Len(frames)
           step(v, i) == IF is_control(frames[i].opcode) THEN v ELSE IF frames[i].fin THEN 0 ELSE v + frames[i].len
           G == [x \in Nat \X (1..n) |-> step(x[1], x[2])]
           IsOpen(f) == f = [i \in 0..n |-> IF i = 0 THEN 0 ELSE IF is_control(frames[i].opcode) THEN f[i - 1]
                                            ELSE IF frames[i].fin THEN 0 ELSE f[i - 1] + frames[i].len]
<1>1. n \in Nat /\ 0 \in Nat
  OBVIOUS
<1>2. ASSUME NEW v \in Nat, NEW i \in 1..n PROVE step(v, i) \in Nat
  <2>1. frames[i] \in Frames
    BY ElementOfSeq
  <2>2. frames[i].len \in Nat
    BY <2>1 DEF Frames
  <2> QED
    BY <2>2
<1>3. G \in [Nat \X (1..n) -> Nat]
  <2> HIDE DEF step
  <2> QED
    BY <1>2
<1>4. PICK f \in [0..n -> Nat] : IsRecursive(f, n, 0, G)
  <2> HIDE DEF G, n
  <2> QED
    BY <1>1, <1>3, RecursiveFunction
<1>5. IsOpen(f)
  <2> DEFINE body(i) == IF i = 0 THEN 0 ELSE G[<<f[i - 1], i>>]
             want(i) == IF i = 0 THEN 0 ELSE step(f[i - 1], i)
  <2>1. f = [i \in 0..n |-> body(i)]
    BY <1>4 DEF IsRecursive
  <2>2. ASSUME NEW i \in 0..n PROVE body(i) = want(i)
    <3>1. CASE i = 0
      BY <3>1
    <3>2. CASE i # 0
      <4>1. i \in 1..n /\ f[i - 1] \in Nat
        BY <1>1, <3>2
      <4> HIDE DEF step
      <4>2. G[<<f[i - 1], i>>] = step(f[i - 1], i)
        BY <4>1
      <4> QED
        BY <3>2, <4>2
    <3> QED
      BY <3>1, <3>2
  <2> HIDE DEF body, want
  <2>3. f = [i \in 0..n |-> want(i)]
    BY <2>1, <2>2
  <2> QED
    BY <2>3 DEF want
<1> DEFINE O == OpenLength(frames)
<1>6. IsOpen(O)
  BY <1>5 DEF OpenLength
<1> DEFINE val(i) == IF i = 0 THEN 0 ELSE step(O[i - 1], i)
<1> HIDE DEF O
<1>7. O = [i \in 0..n |-> val(i)]
  BY <1>6
<1> HIDE DEF val
<1>8. \A i \in 0..n : O[i] = val(i)
  BY <1>7
<1>9. \A i \in 1..n : O[i] = step(O[i - 1], i)
  <2> HIDE DEF step
  <2>1. \A i \in 1..n : i \in 0..n /\ i # 0
    BY <1>1
  <2> QED
    BY <1>8, <2>1 DEF val
<1>10. \A i \in 0..n : O[i] \in Nat
  <2> DEFINE S == {i \in 0..n : O[i] \in Nat}
  <2>1. 0 \in S
    <3>1. 0 \in 0..n
      BY <1>1
    <3> QED
      BY <1>8, <3>1 DEF val
  <2>2. ASSUME NEW i \in 1..n, i - 1 \in S PROVE i \in S
    <3>1. i \in 0..n
      BY <1>1
    <3> HIDE DEF step
    <3> QED
      BY <1>2, <1>9, <2>2, <3>1
  <2> HIDE DEF S
  <2>3. \A i \in 0..n : i \in S
    BY <1>1, <2>1, <2>2, InductionTo
  <2> QED
    BY <2>3 DEF S
<1> QED
  BY <1>9, <1>10 DEF O
-----------------------------------------------------------------------------
(* In step.                                                                *)

\* discard_bytes skips as many bytes behind those in the buffer as the message has.
\* Those are the ones of the payload if nothing has been received of the message
\* before and the buffer is always empty.
Skippable(frames, s) ==
  \A i \in 1..Len(frames) :
    \/ is_control(frames[i].opcode)
    \/ OpenLength(frames)[i - 1] + frames[i].len <= s.max_message_size
    \/ s.MaxLeft = 0 /\ OpenLength(frames)[i - 1] = 0

Kinds == {"Data", "Pong", "Closed", "Err"}
Whats == {"none", "Continue", "Text", "Binary", "Close", "Ping", "Pong", "good", "corrupt", "short", "utf8", "code",
          "Codec", "MessageTooLarge", "UnexpectedOpCode", "Extension", "Utf8", "Closed"}
Outcome == [kind : Kinds, what : Whats, data : Seq(Token)]

\* What is left of the stream are the tokens behind the first base, but for lost at
\* the end.
Ahead(base, lost) ==
  /\ \/ Len(stream) + base + lost = cur + Len(T)
     \/ cur = Len(stream) /\ base = Len(T)
  /\ \A p \in 1..Len(stream) - cur : stream[cur + p] = T[base + p]

\* receive is between two frames, or behind the header of one.
Between == pc = "loop" \/ (pc = "idle" /\ ~GaveUp)
Within  == pc \in {"control", "data"}

Sync(lost) ==
  /\ results \in Seq(Outcome)
  /\ lost = 1 => input[Len(input)].len > 0
  /\ setup.MaxLeft = 0 => sock = cur
  /\ pc # "misread"
  /\ Between => header \in 0..Len(input) /\ Ahead(End(header), lost)
  /\ Within => header \in 1..Len(input) /\ Ahead(End(header - 1) + 1, lost)
  /\ pc = "loop" => length <= OpenLength(input)[header]
  /\ Within => length <= OpenLength(input)[header - 1]

\* The last of the results.
LEMMA LastResult ==
  ASSUME results \in Seq(Outcome), NEW r \in Outcome, results' = Append(results, r)
  PROVE  /\ results' \in Seq(Outcome) /\ GaveUp' = (r.kind = "Err" /\ r.what # "MessageTooLarge")
         /\ Len(results') = Len(results) + 1 /\ results'[Len(results) + 1] = r
         /\ \A i \in 1..Len(results) : results'[i] = results[i]
<1>1. Len(results) \in Nat
  OBVIOUS
<1>2. /\ results' \in Seq(Outcome) /\ Len(results') = Len(results) + 1 /\ results'[Len(results) + 1] = r
      /\ \A i \in 1..Len(results) : results'[i] = results[i]
  BY AppendProperties
<1>3. results' # <<>> /\ Last(results') = r
  BY <1>1, <1>2 DEF Last
<1> QED
  BY <1>2, <1>3 DEF GaveUp

\* The results that calls return.
LEMMA Outcomes ==
  ASSUME NEW kind \in Kinds, NEW what \in Whats, NEW data \in Seq(Token)
  PROVE  /\ Result(kind, what, data) \in Outcome /\ Err(what) \in Outcome
         /\ Result(kind, what, data).kind = kind /\ Result(kind, what, data).what = what
         /\ Err(what).kind = "Err" /\ Err(what).what = what
<1>1. <<>> \in Seq(Token) /\ "Err" \in Kinds
  BY DEF Kinds
<1> QED
  BY <1>1 DEF Outcome, Result, Err

\* The end of a frame and the place behind its header.
LEMMA Places ==
  ASSUME Inv, NEW lost \in {0, 1}, Sync(lost), Within
  PROVE  /\ header \in 1..Len(input) /\ header \in 0..Len(input) /\ header - 1 \in 0..Len(input)
         /\ input[header] \in Frames /\ input[header].len \in Nat
         /\ End(header - 1) \in Nat /\ End(header) \in Nat /\ End(header) = End(header - 1) + 1 + input[header].len
         /\ End(header) <= Len(T) /\ Len(T) \in Nat
         /\ Len(stream) + End(header - 1) + 1 + lost = cur + Len(T)
         /\ cur + input[header].len <= Len(stream) <=> (lost = 0 \/ header < Len(input))
<1>1. Known /\ header \in 1..Len(input) /\ Ahead(End(header - 1) + 1, lost)
  BY DEF Inv, Typed, Sync
<1>2. /\ Len(input) \in Nat /\ End(Len(input)) = Len(T)
      /\ \A h \in 0..Len(input) : End(h) \in Nat /\ End(h) <= Len(T)
      /\ \A h \in 1..Len(input) : input[h] \in Frames /\ input[h].len \in Nat /\ End(h) = End(h - 1) + 1 + input[h].len
  BY <1>1, FrameEnds
<1>3. header \in 0..Len(input) /\ header - 1 \in 0..Len(input) /\ Len(T) \in Nat
  BY <1>1, <1>2, TokensTyped
<1>4. PICK a \in Nat, l \in Nat, e \in Nat, t \in Nat :
        a = End(header - 1) /\ l = input[header].len /\ e = End(header) /\ t = Len(T) /\ e = a + 1 + l /\ e <= t
  BY <1>1, <1>2, <1>3
<1>5. cur \in Nat /\ Len(stream) \in Nat /\ cur <= Len(stream)
  BY DEF Inv, Typed
<1>6. lost = 1 => input[Len(input)].len > 0
  BY DEF Sync
<1>7. header = Len(input) => e = t
  BY <1>2, <1>4
<1>8. header < Len(input) => e < t
  <2> SUFFICES ASSUME header < Len(input) PROVE e < t
    OBVIOUS
  <2>1. header + 1 \in 1..Len(input) /\ header + 1 \in 0..Len(input)
    BY <1>1, <1>2
  <2>2. PICK k \in 1..Len(input) : k = header + 1 /\ k - 1 = header /\ k \in 0..Len(input)
    BY <1>1, <2>1
  <2>3. End(k) <= t /\ End(k) = e + 1 + input[k].len /\ input[k].len \in Nat
    BY <1>2, <1>4, <2>2
  <2> QED
    BY <1>4, <2>3
<1>9. lost \in Nat
  OBVIOUS
<1>10. Len(stream) + (a + 1) + lost = cur + t
  <2>1. Len(stream) + (a + 1) + lost = cur + t \/ (cur = Len(stream) /\ a + 1 = t)
    BY <1>1, <1>4 DEF Ahead
  <2>2. CASE cur = Len(stream) /\ a + 1 = t
    <3>1. l = 0 /\ e = t
      BY <1>4, <2>2
    <3>2. header = Len(input)
      BY <1>1, <1>2, <1>8, <3>1
    <3>3. lost = 0
      <4>1. input[Len(input)].len = 0
        BY <1>4, <3>1, <3>2
      <4>2. lost # 1
        BY <1>6, <4>1
      <4> QED
        BY <4>2
    <3> QED
      BY <1>9, <2>2, <3>3
  <2> QED
    BY <2>1, <2>2
<1>11. cur + l <= Len(stream) <=> (lost = 0 \/ header < Len(input))
  <2>1. CASE lost = 0
    <3>1. PICK c \in Nat, m \in Nat : c = cur /\ m = Len(stream)
      BY <1>5
    <3>2. m + (a + 1) + 0 = c + t /\ a + 1 + l <= t
      BY <1>4, <1>10, <2>1, <3>1
    <3>3. c + l <= m
      BY <3>2
    <3> QED
      BY <2>1, <3>1, <3>3
  <2>2. CASE lost = 1 /\ header < Len(input)
    <3>1. e < t
      BY <1>8, <2>2
    <3>2. cur + l <= Len(stream)
      <4>1. PICK c \in Nat, m \in Nat : c = cur /\ m = Len(stream)
        BY <1>5
      <4>2. m + (a + 1) + 1 = c + t /\ a + 1 + l < t
        BY <1>4, <1>10, <2>2, <3>1, <4>1
      <4>3. c + l <= m
        BY <4>2
      <4> QED
        BY <4>1, <4>3
    <3> QED
      BY <2>2, <3>2
  <2>3. CASE lost = 1 /\ header = Len(input)
    <3>1. PICK c \in Nat, m \in Nat : c = cur /\ m = Len(stream)
      BY <1>5
    <3>2. m + (a + 1) + 1 = c + t /\ a + 1 + l = t
      BY <1>4, <1>7, <1>10, <2>3, <3>1
    <3>3. ~(c + l <= m)
      BY <3>2
    <3>4. ~(header < Len(input))
      BY <1>2, <2>3
    <3> QED
      BY <2>3, <3>1, <3>3, <3>4
  <2> QED
    BY <1>1, <1>2, <2>1, <2>2, <2>3
<1> QED
  BY <1>1, <1>2, <1>3, <1>4, <1>9, <1>10, <1>11

\* The payload is that of the frame.
LEMMA PayloadIs ==
  ASSUME Inv, NEW lost \in {0, 1}, Sync(lost), Within, cur + input[header].len <= Len(stream)
  PROVE  SubSeq(stream, cur + 1, cur + input[header].len) = Payload(header, input[header])
<1> DEFINE l == input[header].len
           s == SubSeq(stream, cur + 1, cur + l)
<1>1. Known /\ header \in 1..Len(input) /\ Ahead(End(header - 1) + 1, lost) /\ l \in Nat /\ End(header - 1) \in Nat
  BY Places DEF Inv, Typed, Sync
<1>2. stream \in Seq(Token) /\ cur \in Nat /\ Len(stream) \in Nat /\ cur <= Len(stream)
  BY DEF Inv, Typed
<1>3. \A p \in 1..l : T[End(header - 1) + 1 + p] = <<header, p, 0>>
  BY <1>1, FrameTokens
<1> HIDE DEF l
<1>4. cur + l <= Len(stream)
  BY DEF l
<1>5. cur + 1 \in Nat /\ cur + l \in Nat /\ 1 <= cur + 1 /\ cur + 1 <= (cur + l) + 1
  BY <1>1, <1>2
<1>6. /\ s \in Seq(Token) /\ Len(s) = ((cur + l) - (cur + 1)) + 1
      /\ \A i \in 1..((cur + l) - (cur + 1)) + 1 : s[i] = stream[(cur + 1) + i - 1]
  BY <1>2, <1>4, <1>5, Slice
<1> HIDE DEF s
<1>7. Len(s) = l /\ \A i \in 1..l : s[i] = stream[cur + i]
  <2>1. ((cur + l) - (cur + 1)) + 1 = l /\ \A i \in 1..l : (cur + 1) + i - 1 = cur + i
    BY <1>1, <1>2
  <2> QED
    BY <1>6, <2>1
<1>8. \A i \in 1..l : stream[cur + i] = T[End(header - 1) + 1 + i]
  <2>1. \A i \in 1..l : i \in 1..Len(stream) - cur
    BY <1>1, <1>2, <1>4
  <2> QED
    BY <1>1, <2>1 DEF Ahead
<1>9. \A i \in 1..l : s[i] = <<header, i, 0>>
  BY <1>3, <1>7, <1>8
<1>10. s = [i \in 1..l |-> <<header, i, 0>>]
  <2>1. s = [i \in 1..Len(s) |-> s[i]]
    BY <1>6
  <2> QED
    BY <1>7, <1>9, <2>1
<1> QED
  BY <1>10 DEF s, l, Payload

\* With an empty buffer only what is taken is read.
LEMMA TakeFromSocket ==
  ASSUME Typed, NEW n \in Nat, TakeTokens(n), sock = cur
  PROVE  sock' = cur'
BY DEF Typed, TakeTokens, Larger

\* Behind the payload.
LEMMA Behind ==
  ASSUME Inv, NEW lost \in {0, 1}, Sync(lost), Within, UNCHANGED <<peer, stream, header>>,
         cur + input[header].len <= Len(stream), TakeTokens(input[header].len)
  PROVE  header' \in 0..Len(input') /\ Ahead(End(header), lost)' /\ (setup.MaxLeft = 0 => sock = cur)'
<1> DEFINE l == input[header].len
<1>1. Known /\ Typed /\ Ahead(End(header - 1) + 1, lost)
  BY DEF Inv, Typed, Sync
<1>2. /\ header \in 0..Len(input) /\ l \in Nat /\ End(header - 1) \in Nat
      /\ End(header) = End(header - 1) + 1 + l /\ Len(T) \in Nat
      /\ Len(stream) + End(header - 1) + 1 + lost = cur + Len(T)
  BY Places
<1>3. setup' = setup /\ input' = input /\ stream' = stream /\ header' = header /\ T' = T /\ End(header)' = End(header)
  BY DEF peer, T, End
<1>4. cur \in Nat /\ cur' = cur + l /\ Len(stream) \in Nat
  BY DEF Inv, Typed, TakeTokens
<1> HIDE DEF l
<1>5. PICK a \in Nat, c \in Nat, m \in Nat, t \in Nat : a = End(header - 1) /\ c = cur /\ m = Len(stream) /\ t = Len(T)
  BY <1>2, <1>4
<1>6. m + (a + 1 + l) + lost = (c + l) + t
  <2>1. m + a + 1 + lost = c + t
    BY <1>2, <1>5
  <2> QED
    BY <1>2, <2>1
<1>7. ASSUME NEW p \in 1..m - (c + l) PROVE stream[(c + l) + p] = T[(a + 1 + l) + p]
  <2>1. l + p \in 1..m - c /\ c + (l + p) = (c + l) + p /\ (a + 1) + (l + p) = (a + 1 + l) + p
    BY <1>2
  <2>2. \A r \in 1..m - c : stream[c + r] = T[(a + 1) + r]
    BY <1>1, <1>5 DEF Ahead
  <2>3. stream[c + (l + p)] = T[(a + 1) + (l + p)]
    BY <2>1, <2>2
  <2> QED
    BY <2>1, <2>3
<1>8. Ahead(End(header), lost)'
  <2>1. cur' = c + l /\ Len(stream') = m /\ Len(T') = t /\ End(header)' = a + 1 + l
    BY <1>2, <1>3, <1>4, <1>5
  <2> QED
    BY <1>3, <1>6, <1>7, <2>1 DEF Ahead
<1>9. (setup.MaxLeft = 0 => sock = cur)'
  <2> SUFFICES ASSUME setup.MaxLeft = 0 PROVE sock' = cur'
    BY <1>3
  <2>1. sock = cur
    BY DEF Sync
  <2> QED
    BY <1>1, <1>2, <2>1, TakeFromSocket DEF l
<1> QED
  BY <1>2, <1>3, <1>8, <1>9

\* A step that leaves the positions alone.
LEMMA StaysInStep ==
  ASSUME NEW lost \in {0, 1}, Sync(lost), UNCHANGED <<peer, stream, sock, cur, header>>
  PROVE  /\ setup' = setup /\ input' = input
         /\ (lost = 1 => input[Len(input)].len > 0)' /\ (setup.MaxLeft = 0 => sock = cur)'
         /\ OpenLength(input)' = OpenLength(input)
         /\ Ahead(End(header), lost)' = Ahead(End(header), lost)
BY DEF Sync, peer, Ahead, T, End

\* Every action keeps in step.  A call begins between two frames.
LEMMA ReceiveInStep ==
  ASSUME Inv, NEW lost \in {0, 1}, Sync(lost), Receive
  PROVE  Sync(lost)'
<1>1. UNCHANGED <<peer, stream, sock, cur, header>> /\ pc = "idle" /\ ~GaveUp /\ pc' = "loop" /\ length' = 0 /\ results' = results
  BY DEF Receive
<1>2. /\ setup' = setup /\ input' = input
      /\ (lost = 1 => input[Len(input)].len > 0)' /\ (setup.MaxLeft = 0 => sock = cur)'
      /\ OpenLength(input)' = OpenLength(input)
      /\ Ahead(End(header), lost)' = Ahead(End(header), lost)
  BY <1>1, StaysInStep
<1>3. header \in 0..Len(input) /\ Ahead(End(header), lost) /\ results \in Seq(Outcome)
  BY <1>1 DEF Sync, Between
<1>4. input \in Seq(Frames)
  BY Setup DEF Inv, Typed
<1>5. OpenLength(input)[header] \in Nat
  BY <1>3, <1>4, OpenLengths
<1>6. 0 <= OpenLength(input)[header]
  BY <1>5
<1> QED
  BY <1>1, <1>2, <1>3, <1>6 DEF Sync, Between, Within

\* receive fails.
LEMMA Fails ==
  ASSUME NEW lost \in {0, 1}, Sync(lost), NEW error \in Whats, Return(Err(error))
  PROVE  pc' = "idle" /\ results' \in Seq(Outcome) /\ GaveUp' = (error # "MessageTooLarge")
<1>1. "Data" \in Kinds /\ <<>> \in Seq(Token) /\ results \in Seq(Outcome) /\ results' = Append(results, Err(error))
  BY DEF Kinds, Sync, Return
<1>2. Err(error) \in Outcome /\ Err(error).kind = "Err" /\ Err(error).what = error
  BY <1>1, Outcomes
<1>3. results' \in Seq(Outcome) /\ GaveUp' = (Err(error).kind = "Err" /\ Err(error).what # "MessageTooLarge")
  BY <1>1, <1>2, LastResult
<1> QED
  BY <1>2, <1>3 DEF Return

\* Nothing is read from a closed connection.
LEMMA ReceiveClosedInStep ==
  ASSUME Inv, NEW lost \in {0, 1}, Sync(lost), ReceiveClosed
  PROVE  Sync(lost)'
<1>1. UNCHANGED <<peer, stream, sock, cur, header>> /\ pc' = "idle" /\ results' = Append(results, Err("Closed"))
  BY DEF ReceiveClosed, Return
<1>2. /\ setup' = setup /\ input' = input
      /\ (lost = 1 => input[Len(input)].len > 0)' /\ (setup.MaxLeft = 0 => sock = cur)'
      /\ OpenLength(input)' = OpenLength(input)
      /\ Ahead(End(header), lost)' = Ahead(End(header), lost)
  BY <1>1, StaysInStep
<1>3. results' \in Seq(Outcome) /\ GaveUp'
  <2>1. "Closed" \in Whats
    BY DEF Whats
  <2> QED
    BY <2>1, Fails DEF ReceiveClosed
<1> QED
  BY <1>1, <1>2, <1>3 DEF Sync, Between, Within

\* The token that is taken is the next header.
LEMMA ReceiveHeaderInStep ==
  ASSUME Inv, NEW lost \in {0, 1}, Sync(lost), ReceiveHeader
  PROVE  /\ Sync(lost)' /\ header' = header + 1 /\ header' \in 1..Len(input)
         /\ pc' = IF input[header'].rsv1 /\ ~has_extensions THEN "idle"
                  ELSE IF is_control(input[header'].opcode) THEN "control" ELSE "data"
         /\ results' = IF input[header'].rsv1 /\ ~has_extensions THEN Append(results, Err("Codec")) ELSE results
<1>1. Known /\ Typed /\ cur \in Nat /\ Len(stream) \in Nat /\ cur < Len(stream) /\ pc = "loop"
  BY DEF Inv, Typed, ReceiveHeader, StillOpen
<1>2. header \in 0..Len(input) /\ Ahead(End(header), lost) /\ length <= OpenLength(input)[header]
  BY <1>1 DEF Sync, Between
<1>3. /\ Len(input) \in Nat /\ End(Len(input)) = Len(T)
      /\ \A h \in 0..Len(input) : End(h) \in Nat /\ End(h) <= Len(T)
  BY <1>1, FrameEnds
<1>4. Len(T) \in Nat
  BY <1>1, TokensTyped
<1>5. PICK a \in Nat, c \in Nat, m \in Nat, t \in Nat :
        a = End(header) /\ c = cur /\ m = Len(stream) /\ t = Len(T) /\ c < m
  BY <1>1, <1>2, <1>3, <1>4
<1>6. m + a + lost = c + t
  BY <1>1, <1>2, <1>5 DEF Ahead
<1>7. a < t
  BY <1>5, <1>6
<1>8. header # Len(input)
  BY <1>3, <1>5, <1>7
<1>9. PICK h \in 1..Len(input) : h = header + 1 /\ h - 1 = header
  <2>1. header + 1 \in 1..Len(input) /\ (header + 1) - 1 = header
    BY <1>2, <1>3, <1>8
  <2> QED
    BY <2>1
<1>10. T[a + 1] = <<h, 0, 0>>
  BY <1>1, <1>5, <1>9, FrameTokens
<1>11. stream[c + 1] = T[a + 1]
  <2>1. 1 \in 1..m - c
    BY <1>5
  <2> QED
    BY <1>2, <1>5, <2>1 DEF Ahead
<1>12. header' = h /\ ~Misread
  BY <1>5, <1>10, <1>11 DEF ReceiveHeader, Misread
<1>13. /\ pc' = IF input[h].rsv1 /\ ~has_extensions THEN "idle"
                ELSE IF is_control(input[h].opcode) THEN "control" ELSE "data"
       /\ results' = IF input[h].rsv1 /\ ~has_extensions THEN Append(results, Err("Codec")) ELSE results
  BY <1>12 DEF ReceiveHeader, Return
<1>14. setup' = setup /\ input' = input /\ stream' = stream /\ length' = length /\ T' = T /\ End(h - 1)' = End(h - 1)
       /\ OpenLength(input)' = OpenLength(input)
  BY DEF ReceiveHeader, peer, local, T, End
<1>15. cur' = cur + 1 /\ (setup.MaxLeft = 0 => sock = cur)'
  <2>1. TakeTokens(1) /\ 1 \in Nat
    BY DEF ReceiveHeader
  <2>2. setup.MaxLeft = 0 => sock' = cur'
    BY <1>1, <2>1, TakeFromSocket DEF Sync
  <2> QED
    BY <1>14, <2>1, <2>2 DEF TakeTokens
<1>16. Ahead(End(h - 1) + 1, lost)'
  <2>1. m + (a + 1) + lost = (c + 1) + t
    BY <1>6
  <2>2. ASSUME NEW p \in 1..m - (c + 1) PROVE stream[(c + 1) + p] = T[(a + 1) + p]
    <3>1. 1 + p \in 1..m - c /\ c + (1 + p) = (c + 1) + p /\ a + (1 + p) = (a + 1) + p
      OBVIOUS
    <3>2. \A r \in 1..m - c : stream[c + r] = T[a + r]
      BY <1>2, <1>5 DEF Ahead
    <3>3. stream[c + (1 + p)] = T[a + (1 + p)]
      BY <3>1, <3>2
    <3> QED
      BY <3>1, <3>3
  <2>3. cur' = c + 1 /\ Len(stream') = m /\ Len(T') = t /\ End(h - 1)' = a
    BY <1>5, <1>9, <1>14, <1>15
  <2> QED
    BY <1>14, <2>1, <2>2, <2>3 DEF Ahead
<1>17. results' \in Seq(Outcome) /\ (pc' = "idle" => GaveUp')
  <2>1. CASE input[h].rsv1 /\ ~has_extensions
    <3>1. Return(Err("Codec"))
      BY <1>13, <2>1 DEF Return
    <3>2. "Codec" \in Whats
      BY DEF Whats
    <3> QED
      BY <3>1, <3>2, Fails
  <2>2. CASE ~(input[h].rsv1 /\ ~has_extensions)
    BY <1>13, <2>2 DEF Sync
  <2> QED
    BY <2>1, <2>2
<1>18. Sync(lost)'
  <2>1. pc' \in {"idle", "control", "data"}
    BY <1>13
  <2>2. (lost = 1 => input[Len(input)].len > 0)'
    BY <1>14 DEF Sync
  <2>3. ~Between'
    BY <1>17, <2>1 DEF Between
  <2>4. length' <= OpenLength(input')[header' - 1]
    BY <1>2, <1>9, <1>12, <1>14
  <2>5. header' \in 1..Len(input') /\ Ahead(End(header - 1) + 1, lost)'
    BY <1>12, <1>14, <1>16 DEF Ahead, End
  <2> QED
    BY <1>15, <1>17, <2>1, <2>2, <2>3, <2>4, <2>5 DEF Sync
<1> QED
  BY <1>9, <1>12, <1>13, <1>18

\* The end of the stream.
LEMMA EofInStep ==
  ASSUME Inv, NEW lost \in {0, 1}, Sync(lost), Eof
  PROVE  Sync(lost)'
<1>1. cur' = sock' /\ UNCHANGED peer
  BY DEF Eof
<1>2. pc' = "idle" /\ results' \in Seq(Outcome) /\ GaveUp'
  <2>1. "Closed" \in Whats
    BY DEF Whats
  <2> QED
    BY <2>1, Fails DEF Eof
<1>3. (lost = 1 => input[Len(input)].len > 0)'
  BY <1>1 DEF Sync, peer
<1> QED
  BY <1>1, <1>2, <1>3 DEF Sync, Between, Within

\* A frame has been received.
LEMMA FrameInStep ==
  ASSUME Inv, NEW lost \in {0, 1}, Sync(lost), Within, UNCHANGED <<peer, stream, header>>,
         cur + input[header].len <= Len(stream), TakeTokens(input[header].len),
         results' \in Seq(Outcome), pc' \in {"idle", "loop"},
         pc' = "loop" => length' <= OpenLength(input)[header]
  PROVE  Sync(lost)'
<1>1. header' \in 0..Len(input') /\ Ahead(End(header), lost)' /\ (setup.MaxLeft = 0 => sock = cur)'
  BY Behind
<1>2. input' = input /\ header' = header
  BY DEF peer
<1>3. (lost = 1 => input[Len(input)].len > 0)'
  BY <1>2 DEF Sync
<1> QED
  BY <1>1, <1>2, <1>3 DEF Sync, Between, Within

\* What receive returns.
LEMMA Returns ==
  ASSUME NEW lost \in {0, 1}, Sync(lost), NEW r \in Outcome, Return(r)
  PROVE  results' \in Seq(Outcome)
BY LastResult DEF Sync, Return

\* The payload of a control frame is taken whole.
LEMMA ControlsInStep ==
  ASSUME Inv, NEW lost \in {0, 1}, Sync(lost), OnPong \/ OnPing \/ OnCloseUtf8 \/ OnClose
  PROVE  Sync(lost)'
<1>1. /\ pc = "control" /\ cur + input[header].len <= Len(stream) /\ TakeTokens(input[header].len)
      /\ UNCHANGED <<peer, stream, header, length>> /\ is_control(input[header].opcode)
  BY DEF OnPong, OnPing, OnCloseUtf8, OnClose, ReadBuffer, is_control, local
<1>2. Within
  BY <1>1 DEF Within
<1>3. pc' \in {"idle", "loop"}
  BY DEF OnPong, OnPing, OnCloseUtf8, OnClose, Return
<1>4. input[header] \in Frames /\ input[header].len \in Nat /\ header \in 1..Len(input)
  BY <1>2, Places
<1>5. results' \in Seq(Outcome)
  <2>1. CASE OnPong
    <3>1. CtrlBuffer \in Seq(Token)
      <4>1. Typed /\ cur' = cur + input[header].len
        BY <1>1 DEF Inv, TakeTokens
      <4> QED
        BY <1>1, <1>4, <4>1, Taking DEF CtrlBuffer
    <3>2. "Pong" \in Kinds /\ "Pong" \in Whats
      BY DEF Kinds, Whats
    <3>3. Result("Pong", "Pong", CtrlBuffer) \in Outcome
      BY <3>1, <3>2, Outcomes
    <3> QED
      BY <2>1, <3>3, Returns DEF OnPong
  <2>2. CASE OnPing
    BY <2>2 DEF OnPing, Sync
  <2>3. CASE OnCloseUtf8
    <3>1. "Utf8" \in Whats
      BY DEF Whats
    <3> QED
      BY <2>3, <3>1, Fails DEF OnCloseUtf8
  <2>4. CASE OnClose
    <3>1. "Closed" \in Kinds /\ input[header].body \in Whats /\ <<>> \in Seq(Token)
      BY <1>4 DEF Kinds, Whats, Frames
    <3>2. Result("Closed", input[header].body, <<>>) \in Outcome
      BY <3>1, Outcomes
    <3>3. Return(Result("Closed", input[header].body, <<>>)) \/ results' = results
      BY <2>4 DEF OnClose
    <3> QED
      BY <3>2, <3>3, Returns DEF Sync
  <2> QED
    BY <2>1, <2>2, <2>3, <2>4
<1>6. length' <= OpenLength(input)[header]
  <2>1. length <= OpenLength(input)[header - 1] /\ input \in Seq(Frames)
    BY <1>2, Setup DEF Sync, Inv, Typed
  <2>2. OpenLength(input)[header] = OpenLength(input)[header - 1]
    BY <1>1, <1>4, <2>1, OpenLengths
  <2> QED
    BY <1>1, <2>1, <2>2
<1> QED
  BY <1>1, <1>2, <1>3, <1>5, <1>6, FrameInStep

\* Discarding.
LEMMA DiscardInStep ==
  ASSUME Inv, NEW lost \in {0, 1}, Sync(lost), TooLarge, Skippable(input, setup)
  PROVE  Sync(lost)' /\ length = 0
<1> DEFINE l == input[header].len
           buf == SubSeq(stream, 1, sock)
           behind == Skip(stream, sock)
           rest == Skip(behind, l)
<1>1. pc = "data" /\ Within /\ length + l > max_message_size
  BY DEF TooLarge, Within
<1>2. /\ header \in 1..Len(input) /\ header \in 0..Len(input) /\ header - 1 \in 0..Len(input)
      /\ l \in Nat /\ End(header - 1) \in Nat /\ End(header) = End(header - 1) + 1 + l
      /\ Len(T) \in Nat /\ End(header) <= Len(T)
      /\ Len(stream) + End(header - 1) + 1 + lost = cur + Len(T)
      /\ cur + l <= Len(stream) <=> (lost = 0 \/ header < Len(input))
  BY <1>1, Places
<1>3. Known /\ length \in Nat /\ max_message_size \in Nat /\ input \in Seq(Frames)
  BY Setup DEF Inv, Typed
<1>4. OpenLength(input)[header - 1] \in Nat /\ length <= OpenLength(input)[header - 1]
  BY <1>1, <1>2, <1>3, OpenLengths DEF Sync
<1>5. ~is_control(input[header].opcode)
  BY <1>1 DEF Inv, AtFrame
<1>6. setup.MaxLeft = 0 /\ length = 0
  <2>1. ~(OpenLength(input)[header - 1] + l <= max_message_size)
    <3> HIDE DEF l
    <3>1. PICK o \in Nat, max \in Nat : o = OpenLength(input)[header - 1] /\ max = max_message_size
      BY <1>3, <1>4
    <3>2. length <= o /\ length + l > max
      BY <1>1, <1>4, <3>1
    <3>3. ~(o + l <= max)
      BY <1>2, <1>3, <3>2
    <3> QED
      BY <3>1, <3>3
  <2>2. setup.MaxLeft = 0 /\ OpenLength(input)[header - 1] = 0
    BY <1>2, <1>5, <2>1 DEF Skippable, max_message_size
  <2> QED
    BY <1>3, <1>4, <2>2
<1>7. sock = cur /\ length' = l
  BY <1>2, <1>6 DEF Sync, TooLarge
<1>8. stream \in Seq(Token) /\ sock \in Nat /\ cur \in Nat /\ sock <= Len(stream) /\ Len(stream) \in Nat
  BY DEF Inv, Typed
<1>9. buf \in Seq(Token) /\ Len(buf) = sock
  <2>1. 1 \in Nat /\ 1 <= 1 /\ 1 <= sock + 1
    BY <1>8
  <2>2. buf \in Seq(Token) /\ Len(buf) = (sock - 1) + 1
    BY <1>8, <2>1, Slice
  <2> QED
    BY <1>8, <2>2
<1>10. /\ behind \in Seq(Token) /\ Len(behind) = IF sock <= Len(stream) THEN Len(stream) - sock ELSE 0
       /\ \A p \in 1..Len(behind) : p + sock \in 1..Len(stream) /\ behind[p] = stream[p + sock]
  BY <1>8, Skipping
<1> HIDE DEF behind
<1>11. /\ rest \in Seq(Token) /\ Len(rest) = IF l <= Len(behind) THEN Len(behind) - l ELSE 0
       /\ \A p \in 1..Len(rest) : p + l \in 1..Len(behind) /\ rest[p] = behind[p + l]
  BY <1>2, <1>10, Skipping
<1>12. stream' = buf \o rest
  BY <1>7 DEF TooLarge, behind
<1> HIDE DEF buf, rest
<1>13. /\ stream' \in Seq(Token) /\ Len(stream') = sock + Len(rest)
       /\ \A i \in 1..Len(rest) : stream'[sock + i] = rest[i]
  BY <1>9, <1>11, <1>12, Concat
<1>14. setup' = setup /\ input' = input /\ header' = header /\ cur' = cur /\ sock' = sock /\ T' = T /\ End(header)' = End(header)
  BY DEF TooLarge, peer, T, End
<1> HIDE DEF l
<1>15. PICK a \in Nat, c \in Nat, m \in Nat, t \in Nat, k \in Nat :
         a = End(header - 1) /\ c = cur /\ m = Len(stream) /\ t = Len(T) /\ k = Len(rest) /\ c <= m
  <2>1. Len(rest) \in Nat
    BY <1>11
  <2>2. cur <= Len(stream)
    BY <1>7, <1>8
  <2> QED
    BY <1>2, <1>8, <2>1, <2>2, Zenon
<1>16. k = (IF c + l <= m THEN m - (c + l) ELSE 0) /\ m + a + 1 + lost = c + t /\ (a + 1 + l) <= t
  <2>1. Len(behind) = m - c
    BY <1>7, <1>8, <1>10, <1>15
  <2>2. k = IF l <= m - c THEN (m - c) - l ELSE 0
    BY <1>11, <1>15, <2>1
  <2>3. (l <= m - c) <=> (c + l <= m)
    BY <1>2, <1>15
  <2>4. (m - c) - l = m - (c + l)
    BY <1>2, <1>15
  <2>5. k = IF c + l <= m THEN m - (c + l) ELSE 0
    BY <2>2, <2>3, <2>4
  <2>6. m + a + 1 + lost = c + t /\ a + 1 + l <= t
    BY <1>2, <1>15
  <2> QED
    BY <2>5, <2>6
<1>17. Len(stream') = c + k /\ cur' = c /\ Len(T') = t /\ End(header)' = a + 1 + l
  BY <1>2, <1>7, <1>13, <1>14, <1>15
<1>18. (c + k) + (a + 1 + l) + lost = c + t \/ (c = c + k /\ a + 1 + l = t)
  <2>1. CASE c + l <= m
    BY <1>2, <1>15, <1>16, <2>1, SMTT(30)
  <2>2. CASE ~(c + l <= m)
    <3>1. k = 0 /\ lost = 1
      BY <1>2, <1>15, <1>16, <2>2
    <3>2. a + 1 + l = t
      <4>1. l \in Nat
        BY <1>2
      <4>2. m + a + 1 + 1 = c + t /\ a + 1 + l <= t
        BY <1>16, <3>1
      <4> QED
        BY <2>2, <4>1, <4>2
    <3> QED
      BY <1>15, <3>1, <3>2
  <2> QED
    BY <2>1, <2>2
<1>19. ASSUME NEW p \in 1..(c + k) - c PROVE stream'[c + p] = T[(a + 1 + l) + p]
  <2>1. p \in 1..Len(rest) /\ p \in 1..k
    BY <1>15
  <2>2. stream'[c + p] = rest[p] /\ p + l \in 1..Len(behind) /\ rest[p] = behind[p + l]
    BY <1>7, <1>11, <1>13, <1>15, <2>1
  <2>3. behind[p + l] = stream[(p + l) + c]
    BY <1>7, <1>10, <1>15, <2>2
  <2>4. p + l \in 1..m - c /\ (p + l) + c = c + (p + l) /\ (a + 1) + (p + l) = (a + 1 + l) + p
    BY <1>2, <1>15, <1>16, <2>1, SMTT(30)
  <2>5. \A r \in 1..m - c : stream[c + r] = T[(a + 1) + r]
    BY <1>1, <1>15 DEF Sync, Ahead
  <2>6. stream[c + (p + l)] = T[(a + 1) + (p + l)]
    BY <2>4, <2>5
  <2> QED
    BY <2>2, <2>3, <2>4, <2>6
<1>20. Ahead(End(header), lost)'
  BY <1>14, <1>17, <1>18, <1>19 DEF Ahead
<1>21. pc' = "idle" /\ results' \in Seq(Outcome)
  <2>1. "MessageTooLarge" \in Whats
    BY DEF Whats
  <2> QED
    BY <2>1, Fails DEF TooLarge
<1>22. (lost = 1 => input[Len(input)].len > 0)'
  BY <1>14 DEF Sync
<1> QED
  BY <1>2, <1>6, <1>7, <1>14, <1>20, <1>21, <1>22 DEF Sync, Between, Within

\* The payload of a data frame is taken whole.
LEMMA DataInStep ==
  ASSUME Inv, NEW lost \in {0, 1}, Sync(lost), OnUnexpected \/ OnFragment \/ OnLast \/ OnLastCorrupt
  PROVE  Sync(lost)'
<1> DEFINE frame == input[header]
<1>1. Fragment(frame) /\ UNCHANGED <<peer, stream, header, given>>
  BY DEF OnUnexpected, OnFragment, OnLast, OnLastCorrupt, Complete
<1>2. pc = "data" /\ Within /\ cur + frame.len <= Len(stream) /\ TakeTokens(frame.len) /\ length' = length + frame.len
  BY <1>1 DEF Fragment, ReadPayload, Within
<1>3. pc' \in {"idle", "loop"}
  BY DEF OnUnexpected, OnFragment, OnLast, OnLastCorrupt, Return
<1>4. header \in 1..Len(input) /\ header - 1 \in 0..Len(input) /\ frame.len \in Nat
  BY <1>2, Places
<1>5. results' \in Seq(Outcome)
  <2>1. CASE OnUnexpected
    <3>1. "UnexpectedOpCode" \in Whats
      BY DEF Whats
    <3> QED
      BY <2>1, <3>1, Fails DEF OnUnexpected
  <2>2. CASE OnFragment
    BY <2>2 DEF OnFragment, Sync
  <2>3. CASE OnLastCorrupt
    <3>1. "Extension" \in Whats
      BY DEF Whats
    <3> QED
      BY <2>3, <3>1, Fails DEF OnLastCorrupt
  <2>4. CASE OnLast
    <3> DEFINE kind == IF frame.opcode = "Continue" THEN first_fragment_opcode ELSE frame.opcode
    <3>1. frame.opcode \in {"Continue", "Text", "Binary"} /\ first_fragment_opcode \in {"none", "Text", "Binary"}
      BY <1>1, FragmentRead DEF Inv, Typed
    <3>2. "Data" \in Kinds /\ kind \in Whats
      BY <3>1 DEF Kinds, Whats
    <3>3. Typed' /\ given \in Seq(Token)
      BY <2>4, DataFramesKeep DEF Inv, Typed
    <3>4. message' \in Seq(Token) /\ Len(given) \in Nat
      BY <3>3 DEF Typed
    <3>5. Skip(message', Len(given)) \in Seq(Token)
      BY <3>4, Skipping
    <3> HIDE DEF kind
    <3>6. Result("Data", kind, Skip(message', Len(given))) \in Outcome
      BY <3>2, <3>5, Outcomes
    <3> QED
      BY <2>4, <3>6, Returns DEF OnLast, kind
  <2> QED
    BY <2>1, <2>2, <2>3, <2>4
<1>6. ASSUME pc' = "loop" PROVE length' <= OpenLength(input)[header]
  <2>1. ~frame.fin /\ ~is_control(frame.opcode)
    BY <1>2, <1>6 DEF OnUnexpected, OnFragment, OnLast, OnLastCorrupt, Return, Inv, AtFrame
  <2>2. input \in Seq(Frames)
    BY Setup DEF Inv, Typed
  <2>3. /\ OpenLength(input)[header - 1] \in Nat
        /\ OpenLength(input)[header] = OpenLength(input)[header - 1] + frame.len
    BY <1>4, <2>1, <2>2, OpenLengths
  <2>4. length <= OpenLength(input)[header - 1] /\ length \in Nat
    BY <1>2 DEF Sync, Inv, Typed
  <2> QED
    BY <1>2, <1>4, <2>3, <2>4
<1> QED
  BY <1>1, <1>2, <1>3, <1>5, <1>6, FrameInStep

\* At the start, with all tokens or without the last.
LEMMA StartsInStep ==
  ASSUME Init
  PROVE  \E lost \in {0, 1} : Sync(lost) /\ expected = Expected(input, lost = 1)
<1>1. Inv /\ Known
  BY InvInit DEF Inv, Typed
<1>2. T \in Seq(Token) /\ Len(T) \in Nat
  BY <1>1, TokensTyped
<1>3. /\ Len(input) \in Nat /\ Len(input) > 0 /\ End(0) = 0 /\ End(Len(input)) = Len(T)
      /\ \A h \in 0..Len(input) : End(h) \in Nat /\ End(h) <= Len(T)
      /\ \A h \in 1..Len(input) : input[h] \in Frames /\ input[h].len \in Nat /\ End(h) = End(h - 1) + 1 + input[h].len
  BY <1>1, FrameEnds
<1>4. cur = 0 /\ header = 0 /\ pc = "idle" /\ results = <<>> /\ results \in Seq(Outcome) /\ 0 \in 0..Len(input)
  BY <1>3 DEF Init
<1>5. setup.MaxLeft = 0 => sock = cur
  BY <1>4 DEF Init
<1>6. ASSUME NEW lost \in {0, 1}, Ahead(0, lost), lost = 1 => input[Len(input)].len > 0
      PROVE  Sync(lost)
  BY <1>3, <1>4, <1>5, <1>6 DEF Sync, Between, Within
<1>7. CASE stream = Tokens(input) /\ expected = Expected(input, FALSE)
  <2>1. Ahead(0, 0)
    <3>1. stream = T
      BY <1>7 DEF T
    <3>2. Len(stream) + 0 + 0 = cur + Len(T) /\ Len(stream) - cur = Len(T)
      BY <1>2, <1>4, <3>1
    <3>3. \A p \in 1..Len(T) : 0 + p = p
      BY <1>2
    <3> QED
      BY <1>4, <3>1, <3>2, <3>3 DEF Ahead
  <2>2. Sync(0)
    BY <1>6, <2>1
  <2>3. expected = Expected(input, 0 = 1)
    <3>1. (0 = 1) = FALSE
      OBVIOUS
    <3> QED
      BY <1>7, <3>1
  <2> QED
    BY <2>2, <2>3
<1>8. CASE Last(input).len > 0 /\ stream = Front(Tokens(input)) /\ expected = Expected(input, TRUE)
  <2>1. input[Len(input)].len > 0
    BY <1>8 DEF Last
  <2>2. Len(T) > 0
    <3>1. Len(input) \in 1..Len(input) /\ Len(input) - 1 \in 0..Len(input)
      BY <1>3
    <3>2. PICK a \in Nat, l \in Nat : End(Len(input)) = a + 1 + l
      BY <1>3, <3>1
    <3> QED
      BY <1>3, <3>2
  <2>3. 1 \in Nat /\ Len(T) - 1 \in Nat /\ 1 <= 1 /\ 1 <= (Len(T) - 1) + 1 /\ Len(T) - 1 <= Len(T)
    BY <1>2, <2>2
  <2>4. stream = SubSeq(T, 1, Len(T) - 1)
    BY <1>8 DEF Front, T
  <2>5. /\ stream \in Seq(Token) /\ Len(stream) = ((Len(T) - 1) - 1) + 1
        /\ \A i \in 1..((Len(T) - 1) - 1) + 1 : stream[i] = T[1 + i - 1]
    BY <1>2, <2>3, <2>4, Slice
  <2>6. Ahead(0, 1)
    <3>1. Len(stream) + 0 + 1 = cur + Len(T) /\ Len(stream) - cur = Len(T) - 1 /\ ((Len(T) - 1) - 1) + 1 = Len(T) - 1
      BY <1>2, <1>4, <2>5
    <3>2. \A p \in 1..Len(T) - 1 : cur + p = p /\ 0 + p = p /\ 1 + p - 1 = p
      BY <1>2, <1>4
    <3>3. \A p \in 1..Len(T) - 1 : stream[cur + p] = T[0 + p]
      BY <2>5, <3>1, <3>2
    <3> QED
      BY <3>1, <3>3 DEF Ahead
  <2>7. Sync(1)
    BY <1>6, <2>1, <2>6
  <2>8. expected = Expected(input, 1 = 1)
    <3>1. (1 = 1) = TRUE
      OBVIOUS
    <3> QED
      BY <1>8, <3>1
  <2> QED
    BY <2>7, <2>8
<1> QED
  BY <1>7, <1>8 DEF Init

\* Every step keeps receive in step.
LEMMA StepInStep ==
  ASSUME Inv, NEW lost \in {0, 1}, Sync(lost), [Next]_vars, Skippable(input, setup)
  PROVE  Sync(lost)'
<1>1. CASE UNCHANGED vars
  BY <1>1 DEF vars, Sync, Ahead, Between, Within, GaveUp, T, End
<1>2. CASE Next
  BY <1>2, ReceiveInStep, ReceiveClosedInStep, ReceiveHeaderInStep, EofInStep, ControlsInStep, DiscardInStep, DataInStep
     DEF Next
<1> QED
  BY <1>1, <1>2

\* receive takes no payload for a header, unless a message is too large of which
\* fragments have been received before, or which is partly in the buffer after the
\* handshake.
THEOREM StaysInSync ==
  ASSUME \A c \in Cases : \A frames \in c.Inputs : Skippable(frames, c.setup)
  PROVE  Spec => []InSync
<1> DEFINE Synced == \E lost \in {0, 1} : Sync(lost)
<1>1. Init => Synced
  BY StartsInStep
<1>2. Inv /\ Synced /\ [Next]_vars => Synced'
  <2> SUFFICES ASSUME Inv, Synced, [Next]_vars PROVE Synced'
    OBVIOUS
  <2>1. PICK lost \in {0, 1} : Sync(lost)
    OBVIOUS
  <2>2. Skippable(input, setup)
    BY DEF Inv, Typed, Known
  <2>3. Sync(lost)'
    BY <2>1, <2>2, StepInStep
  <2> QED
    BY <2>3
<1>3. Synced => InSync
  BY DEF Sync, InSync
<1> HIDE DEF Synced
<1> QED
  BY <1>1, <1>2, <1>3, Invariant, PTL DEF Spec
-----------------------------------------------------------------------------
(* What the frames mean.                                                   *)

\* Have the first k frames begun a message, and not ended it?
OpenAfter(frames, k) ==
  \E i \in 1..k : /\ ~is_control(frames[i].opcode) /\ ~frames[i].fin
                  /\ \A j \in i+1..k : is_control(frames[j].opcode)

\* Inputs that receive is up to: a PONG comes between messages, the first fragment of a
\* compressed message is not empty, and messages that are too large can be skipped.
Readable(frames, s) ==
  /\ Skippable(frames, s) /\ Cleared(s)
  /\ \A i \in 1..Len(frames) :
       /\ frames[i].opcode = "Pong" => ~OpenAfter(frames, i - 1)
       /\ frames[i].rsv1 /\ ~frames[i].fin /\ frames[i].opcode \in {"Text", "Binary"} => frames[i].len > 0

\* What the first i frames call for.
Meaning(lost) == ExpectedUpTo(input, lost = 1)

\* How many frames have been dealt with.
Done == IF Within THEN header - 1 ELSE header

\* Is there more to be received?
Live == Within \/ (Between /\ ~is_closed)

Extends(s, t) == Len(s) <= Len(t) /\ \A k \in 1..Len(s) : t[k] = s[k]

\* receive has told what s says, and has what is open in s.
Agrees(s) ==
  /\ ~s.stop /\ results = s.results /\ replies = s.replies
  /\ IF pc = "idle" THEN s.open = NoMessage
     ELSE message = given \o s.open.data /\ first_fragment_opcode = s.open.opcode
  /\ await_last_fragment <=> s.open.opcode # "none" /\ Compressed(input, Done)
  /\ await_last_fragment => has_extensions /\ length > 0

\* Nothing is missing, but for the Closed that receive is about to return.
Concluded ==
  /\ replies = expected.replies
  /\ \/ Extends(expected.results, results)
     \/ pc = "loop" /\ is_closed /\ Append(results, Err("Closed")) = expected.results

Follows(lost) ==
  /\ expected = Expected(input, lost = 1)
  /\ pc # "idle" => ~GaveUp
  /\ Within => (input[header].rsv1 => has_extensions) /\ (pc = "control" => is_control(input[header].opcode))
  /\ IF Live THEN Agrees(Meaning(lost)[Done]) ELSE Concluded

-----------------------------------------------------------------------------
(* Interpret.                                                              *)

Answer  == [opcode : {"Pong", "Close"}, code : Whats, data : Seq(Token)]
Opening == [opcode : {"none", "Text", "Binary"}, data : Seq(Token)]
Partial == [open : Opening, results : Seq(Outcome), replies : Seq(Answer), stop : BOOLEAN]

\* The fields of what Interpret is made of.
LEMMA PartialFields ==
  ASSUME NEW s \in Partial
  PROVE  /\ s.open \in Opening /\ s.open.opcode \in {"none", "Text", "Binary"} /\ s.open.data \in Seq(Token)
         /\ s.results \in Seq(Outcome) /\ s.replies \in Seq(Answer) /\ s.stop \in BOOLEAN
BY DEF Partial, Opening

\* A result is told.
LEMMA TellFields ==
  ASSUME NEW s \in Partial, NEW r \in Outcome
  PROVE  /\ Tell(s, r) \in Partial /\ Tell(s, r).results = Append(s.results, r)
         /\ Tell(s, r).open = s.open /\ Tell(s, r).replies = s.replies /\ Tell(s, r).stop = s.stop
<1>1. s.results \in Seq(Outcome)
  BY PartialFields
<1>2. Append(s.results, r) \in Seq(Outcome)
  BY <1>1, AppendProperties
<1>3. PICK x \in Seq(Outcome) : x = Append(s.results, r) /\ Tell(s, r) = [s EXCEPT !.results = x]
  BY <1>2 DEF Tell
<1>4. /\ [s EXCEPT !.results = x] \in Partial /\ [s EXCEPT !.results = x].results = x
      /\ [s EXCEPT !.results = x].open = s.open /\ [s EXCEPT !.results = x].replies = s.replies
      /\ [s EXCEPT !.results = x].stop = s.stop
  BY DEF Partial
<1> QED
  BY <1>3, <1>4

\* Nothing more is told.
LEMMA StopFields ==
  ASSUME NEW s \in Partial
  PROVE  /\ Stop(s) \in Partial /\ Stop(s).stop = TRUE
         /\ Stop(s).open = s.open /\ Stop(s).results = s.results /\ Stop(s).replies = s.replies
BY DEF Partial, Stop

\* The open message changes.
LEMMA OpenFields ==
  ASSUME NEW s \in Partial, NEW o \in Opening
  PROVE  LET r == [s EXCEPT !.open = o] IN
         /\ r \in Partial /\ r.open = o
         /\ r.results = s.results /\ r.replies = s.replies /\ r.stop = s.stop
BY DEF Partial

\* The replies change.
LEMMA RepliesFields ==
  ASSUME NEW s \in Partial, NEW x \in Seq(Answer)
  PROVE  LET r == [s EXCEPT !.replies = x] IN
         /\ r \in Partial /\ r.replies = x
         /\ r.open = s.open /\ r.results = s.results /\ r.stop = s.stop
BY DEF Partial

\* No message.
LEMMA NoMessageOpens == NoMessage \in Opening /\ NoMessage.opcode = "none" /\ NoMessage.data = <<>>
<1>1. <<>> \in Seq(Token)
  OBVIOUS
<1> QED
  BY <1>1 DEF NoMessage, Opening

\* Errors and answers.
LEMMA ErrorTyped ==
  ASSUME NEW error \in Whats
  PROVE  Err(error) \in Outcome
<1>1. "Err" \in Kinds /\ <<>> \in Seq(Token)
  BY DEF Kinds
<1> QED
  BY <1>1, Outcomes

\* A payload.
LEMMA PayloadTyped ==
  ASSUME NEW i \in Nat, NEW frame \in Frames
  PROVE  /\ Payload(i, frame) \in Seq(Token) /\ Len(Payload(i, frame)) = frame.len /\ frame.len \in Nat
         /\ \A k \in 1..frame.len : Payload(i, frame)[k] = <<i, k, 0>>
<1> DEFINE n == frame.len
           w == Payload(i, frame)
<1>1. n \in Nat
  BY DEF Frames
<1>2. \A j \in 1..n : <<i, j, 0>> \in Token
  BY <1>1 DEF Token
<1>3. w = [j \in 1..n |-> <<i, j, 0>>]
  BY DEF Payload
<1>4. w \in [1..n -> Token]
  BY <1>2, <1>3
<1> HIDE DEF n
<1>5. w \in Seq(Token) /\ Len(w) = n
  BY <1>1, <1>3, <1>4
<1> QED
  BY <1>1, <1>3, <1>5 DEF n

\* The answer to a CLOSE and what is said of it.
LEMMA CloseTyped ==
  ASSUME NEW frame \in Frames
  PROVE  /\ CloseReplies(frame) \in Seq(Answer) /\ CloseResult(frame) \in Outcome
         /\ Reply("Close", frame.body, <<>>) \in Answer
<1>1. frame.body \in {"good", "corrupt", "short", "utf8", "code"} /\ <<>> \in Seq(Token) /\ <<>> \in Seq(Answer)
  BY DEF Frames
<1>2. frame.body \in Whats /\ "Closed" \in Kinds /\ "Utf8" \in Whats /\ "Closed" \in Whats
  BY <1>1 DEF Whats, Kinds
<1>3. Reply("Close", frame.body, <<>>) \in Answer
  BY <1>1, <1>2 DEF Reply, Answer
<1>4. CloseReplies(frame) \in Seq(Answer)
  <2>1. <<Reply("Close", frame.body, <<>>)>> \in Seq(Answer)
    BY <1>3
  <2> QED
    BY <1>1, <2>1 DEF CloseReplies
<1>5. /\ Err("Utf8") \in Outcome /\ Err("Closed") \in Outcome
      /\ Result("Closed", frame.body, <<>>) \in Outcome
  BY <1>1, <1>2, ErrorTyped, Outcomes
<1>6. CloseResult(frame) \in Outcome
  BY <1>5 DEF CloseResult
<1> QED
  BY <1>3, <1>4, <1>6

\* What a frame adds: the results and replies so far stay.
LEMMA ExtendsAppend ==
  ASSUME NEW S, NEW s \in Seq(S), NEW x \in S
  PROVE  Extends(s, Append(s, x))
<1>1. Len(s) \in Nat
  OBVIOUS
<1>2. Append(s, x) \in Seq(S) /\ Len(Append(s, x)) = Len(s) + 1 /\ \A k \in 1..Len(s) : Append(s, x)[k] = s[k]
  BY AppendProperties
<1> QED
  BY <1>1, <1>2 DEF Extends

\* What is put behind a sequence extends it.
LEMMA ExtendsConcat ==
  ASSUME NEW S, NEW s \in Seq(S), NEW t \in Seq(S)
  PROVE  Extends(s, s \o t)
<1>1. Len(s) \in Nat /\ Len(t) \in Nat
  OBVIOUS
<1>2. Len(s \o t) = Len(s) + Len(t) /\ \A i \in 1..Len(s) + Len(t) : (s \o t)[i] = IF i <= Len(s) THEN s[i] ELSE t[i - Len(s)]
  BY ConcatProperties
<1> QED
  BY <1>1, <1>2 DEF Extends

\* Every sequence extends itself.
LEMMA ExtendsSelf ==
  ASSUME NEW S, NEW s \in Seq(S)
  PROVE  Extends(s, s)
<1>1. Len(s) \in Nat
  OBVIOUS
<1> QED
  BY <1>1 DEF Extends

\* Extends is transitive.
LEMMA ExtendsTransitive ==
  ASSUME NEW S, NEW s \in Seq(S), NEW t \in Seq(S), NEW u \in Seq(S), Extends(s, t), Extends(t, u)
  PROVE  Extends(s, u)
<1>1. Len(s) \in Nat /\ Len(t) \in Nat /\ Len(u) \in Nat
  OBVIOUS
<1> QED
  BY <1>1 DEF Extends

\* A frame adds to the results and the replies and takes nothing back.
LEMMA Interpreted ==
  ASSUME NEW frames \in Seq(Frames), NEW i \in 1..Len(frames), NEW s \in Partial, NEW whole \in BOOLEAN
  PROVE  LET r == Interpret(s, frames, i, whole) IN
         r \in Partial /\ Extends(s.results, r.results) /\ Extends(s.replies, r.replies)
<1> DEFINE r == Interpret(s, frames, i, whole)
           f == frames[i]
           mine == Payload(i, f)
           data == s.open.data \o mine
           kind == IF f.opcode = "Continue" THEN s.open.opcode ELSE f.opcode
           Fine(x) == x \in Partial /\ Extends(s.results, x.results) /\ Extends(s.replies, x.replies)
<1>1. f \in Frames /\ i \in Nat
  BY ElementOfSeq
<1>2. f.opcode \in {"Continue", "Text", "Binary", "Close", "Ping", "Pong"}
  BY <1>1 DEF Frames
<1>3. mine \in Seq(Token)
  BY <1>1, PayloadTyped
<1>4. /\ s.open.opcode \in {"none", "Text", "Binary"} /\ s.open.data \in Seq(Token)
      /\ s.results \in Seq(Outcome) /\ s.replies \in Seq(Answer)
  BY PartialFields
<1> HIDE DEF mine
<1>5. data \in Seq(Token)
  BY <1>3, <1>4, Concat
<1>6. Inflate(data) \in Seq(Token)
  BY <1>5, Inflated
<1>7. Fine(s)
  BY <1>4, ExtendsSelf
<1>8. ASSUME NEW x \in Outcome PROVE Fine(Tell(s, x))
  <2>1. Tell(s, x) \in Partial /\ Tell(s, x).results = Append(s.results, x) /\ Tell(s, x).replies = s.replies
    BY TellFields
  <2>2. Extends(s.results, Append(s.results, x)) /\ Extends(s.replies, s.replies)
    BY <1>4, ExtendsAppend, ExtendsSelf
  <2> QED
    BY <2>1, <2>2
<1>9. ASSUME NEW x \in Outcome PROVE Fine(Stop(Tell(s, x)))
  <2>1. Tell(s, x) \in Partial /\ Fine(Tell(s, x))
    BY <1>8
  <2> HIDE DEF Fine
  <2>2. PICK t \in Partial : t = Tell(s, x)
    BY <2>1
  <2>3. Stop(t) \in Partial /\ Stop(t).results = t.results /\ Stop(t).replies = t.replies
    BY StopFields
  <2> QED
    BY <2>1, <2>2, <2>3 DEF Fine
<1>10. ASSUME NEW x \in Outcome PROVE Fine(Tell([s EXCEPT !.open = NoMessage], x))
  <2>1. PICK t \in Partial : t = [s EXCEPT !.open = NoMessage] /\ t.results = s.results /\ t.replies = s.replies
    BY NoMessageOpens, OpenFields
  <2>2. Tell(t, x) \in Partial /\ Tell(t, x).results = Append(t.results, x) /\ Tell(t, x).replies = t.replies
    BY TellFields
  <2>3. Extends(s.results, Append(s.results, x)) /\ Extends(s.replies, s.replies)
    BY <1>4, ExtendsAppend, ExtendsSelf
  <2> QED
    BY <2>1, <2>2, <2>3
<1>11. ASSUME NEW o \in Opening PROVE Fine([s EXCEPT !.open = o])
  BY <1>4, OpenFields, ExtendsSelf
<1>12. ASSUME NEW x \in Answer PROVE Fine([s EXCEPT !.replies = Append(@, x)])
  <2>1. PICK y \in Seq(Answer) : y = Append(s.replies, x)
    BY <1>4, AppendProperties
  <2>2. LET t == [s EXCEPT !.replies = y] IN t \in Partial /\ t.replies = y /\ t.results = s.results
    BY RepliesFields
  <2>3. Extends(s.results, s.results) /\ Extends(s.replies, y)
    BY <1>4, <2>1, ExtendsAppend, ExtendsSelf
  <2>4. Fine([s EXCEPT !.replies = y])
    BY <2>2, <2>3
  <2> QED
    BY <2>1, <2>4
<1>13. Fine(Stop(Tell([s EXCEPT !.replies = @ \o CloseReplies(f)], CloseResult(f))))
  <2>1. CloseReplies(f) \in Seq(Answer) /\ CloseResult(f) \in Outcome
    BY <1>1, CloseTyped
  <2>2. PICK x \in Outcome, y \in Seq(Answer) : x = CloseResult(f) /\ y = s.replies \o CloseReplies(f)
    BY <1>4, <2>1, ConcatProperties
  <2>3. PICK t \in Partial : t = [s EXCEPT !.replies = y] /\ t.results = s.results /\ t.replies = y
    BY RepliesFields
  <2>4. PICK u \in Partial : u = Tell(t, x) /\ u.results = Append(t.results, x) /\ u.replies = t.replies
    BY TellFields
  <2>5. Stop(u) \in Partial /\ Stop(u).results = u.results /\ Stop(u).replies = u.replies
    BY StopFields
  <2>6. Extends(s.results, Append(s.results, x)) /\ Extends(s.replies, y)
    BY <1>4, <2>1, <2>2, ExtendsAppend, ExtendsConcat
  <2>7. Fine(Stop(u))
    BY <2>3, <2>4, <2>5, <2>6
  <2> QED
    BY <2>2, <2>3, <2>4, <2>7
<1> HIDE DEF Fine
<1>14. /\ "Codec" \in Whats /\ "MessageTooLarge" \in Whats /\ "UnexpectedOpCode" \in Whats /\ "Extension" \in Whats
       /\ "none" \in Whats /\ "Pong" \in Whats /\ "Pong" \in Kinds /\ "Data" \in Kinds /\ kind \in Whats
  BY <1>2, <1>4 DEF Whats, Kinds
<1>15. /\ Err("Codec") \in Outcome /\ Err("MessageTooLarge") \in Outcome
       /\ Err("UnexpectedOpCode") \in Outcome /\ Err("Extension") \in Outcome
  BY <1>14, ErrorTyped
<1>16. Result("Pong", "Pong", mine) \in Outcome
  BY <1>3, <1>14, Outcomes
<1>17. Reply("Pong", "none", mine) \in Answer
  BY <1>3, <1>14 DEF Reply, Answer
<1>18. ASSUME ~is_control(f.opcode), (f.opcode = "Continue") = (s.open.opcode # "none")
       PROVE  [opcode |-> kind, data |-> data] \in Opening
  <2>1. kind \in {"none", "Text", "Binary"}
    BY <1>2, <1>4, <1>18 DEF is_control
  <2> HIDE DEF kind, data
  <2> QED
    BY <1>5, <2>1 DEF Opening
<1> HIDE DEF kind, data
<1>19. Result("Data", kind, IF Compressed(frames, i) THEN Inflate(data) ELSE data) \in Outcome
  <2>1. (IF Compressed(frames, i) THEN Inflate(data) ELSE data) \in Seq(Token)
    BY <1>5, <1>6
  <2> QED
    BY <1>14, <2>1, Outcomes
<1>20. r = IF f.rsv1 /\ ~has_extensions THEN Stop(Tell(s, Err("Codec")))
           ELSE IF ~is_control(f.opcode) /\ Len(data) > max_message_size
                THEN Tell([s EXCEPT !.open = NoMessage], Err("MessageTooLarge"))
           ELSE IF ~whole             THEN s
           ELSE IF f.opcode = "Pong"  THEN Tell(s, Result("Pong", "Pong", mine))
           ELSE IF f.opcode = "Ping"  THEN [s EXCEPT !.replies = Append(@, Reply("Pong", "none", mine))]
           ELSE IF f.opcode = "Close" THEN Stop(Tell([s EXCEPT !.replies = @ \o CloseReplies(f)], CloseResult(f)))
           ELSE IF (f.opcode = "Continue") # (s.open.opcode # "none") THEN Stop(Tell(s, Err("UnexpectedOpCode")))
           ELSE IF ~f.fin             THEN [s EXCEPT !.open = [opcode |-> kind, data |-> data]]
           ELSE IF Compressed(frames, i) /\ Undecodable(frames, data) THEN Stop(Tell(s, Err("Extension")))
           ELSE Tell([s EXCEPT !.open = NoMessage],
                     Result("Data", kind, IF Compressed(frames, i) THEN Inflate(data) ELSE data))
  BY DEF Interpret, kind, data, mine
<1> HIDE DEF r, f
<1>21. is_control(f.opcode) => f.opcode \in {"Close", "Ping", "Pong"}
  BY DEF is_control
<1>22. Fine(r)
  <2>1. CASE f.rsv1 /\ ~has_extensions
    BY <1>9, <1>15, <1>20, <2>1
  <2>2. CASE ~(f.rsv1 /\ ~has_extensions) /\ ~is_control(f.opcode) /\ Len(data) > max_message_size
    BY <1>10, <1>15, <1>20, <2>2
  <2>3. CASE ~(f.rsv1 /\ ~has_extensions) /\ ~(~is_control(f.opcode) /\ Len(data) > max_message_size)
    <3>1. CASE ~whole
      BY <1>7, <1>20, <2>3, <3>1
    <3>2. CASE whole /\ f.opcode = "Pong"
      BY <1>8, <1>16, <1>20, <2>3, <3>2
    <3>3. CASE whole /\ f.opcode = "Ping"
      BY <1>12, <1>17, <1>20, <2>3, <3>3
    <3>4. CASE whole /\ f.opcode = "Close"
      BY <1>13, <1>20, <2>3, <3>4
    <3>5. CASE whole /\ f.opcode \notin {"Close", "Ping", "Pong"} /\ (f.opcode = "Continue") # (s.open.opcode # "none")
      BY <1>9, <1>15, <1>20, <2>3, <3>5
    <3>6. CASE whole /\ f.opcode \notin {"Close", "Ping", "Pong"} /\ (f.opcode = "Continue") = (s.open.opcode # "none") /\ ~f.fin
      BY <1>11, <1>18, <1>20, <1>21, <2>3, <3>6
    <3>7. CASE whole /\ f.opcode \notin {"Close", "Ping", "Pong"} /\ (f.opcode = "Continue") = (s.open.opcode # "none") /\ f.fin
      BY <1>9, <1>10, <1>15, <1>19, <1>20, <2>3, <3>7
    <3> QED
      BY <3>1, <3>2, <3>3, <3>4, <3>5, <3>6, <3>7
  <2> QED
    BY <2>1, <2>2, <2>3
<1> QED
  BY <1>22 DEF Fine, r
-----------------------------------------------------------------------------
(* ExpectedUpTo.                                                           *)

Start == [open |-> NoMessage, results |-> <<>>, replies |-> <<>>, stop |-> FALSE]

Step(s, i, lost) == IF s.stop THEN s ELSE Interpret(s, input, i, ~(lost = 1) \/ i < Len(input))

\* It is the function that its definition says.
LEMMA Meanings ==
  ASSUME Known, NEW lost \in {0, 1}
  PROVE  /\ Meaning(lost)[0] = Start
         /\ \A i \in 0..Len(input) : Meaning(lost)[i] \in Partial
         /\ \A i \in 1..Len(input) : Meaning(lost)[i] = Step(Meaning(lost)[i - 1], i, lost)
<1> DEFINE n == Len(input)
           G == [x \in Partial \X (1..n) |-> Step(x[1], x[2], lost)]
           IsMeaning(f) == f = [i \in 0..n |-> IF i = 0 THEN [open |-> NoMessage, results |-> <<>>, replies |-> <<>>, stop |-> FALSE]
                                               ELSE IF f[i - 1].stop THEN f[i - 1]
                                               ELSE Interpret(f[i - 1], input, i, ~(lost = 1) \/ i < n)]
<1>1. n \in Nat /\ input \in Seq(Frames)
  BY Setup
<1>2. Start \in Partial
  <2>1. <<>> \in Seq(Outcome) /\ <<>> \in Seq(Answer) /\ FALSE \in BOOLEAN
    OBVIOUS
  <2> QED
    BY <2>1, NoMessageOpens DEF Start, Partial
<1>3. ASSUME NEW s \in Partial, NEW i \in 1..n PROVE Step(s, i, lost) \in Partial
  <2>1. PICK whole \in BOOLEAN : whole = (~(lost = 1) \/ i < n)
    OBVIOUS
  <2>2. Interpret(s, input, i, whole) \in Partial
    BY <1>1, Interpreted
  <2> QED
    BY <2>1, <2>2 DEF Step
<1>4. G \in [Partial \X (1..n) -> Partial]
  BY <1>3
<1>5. PICK f \in [0..n -> Partial] : IsRecursive(f, n, Start, G)
  <2> HIDE DEF G, n
  <2> QED
    BY <1>1, <1>2, <1>4, RecursiveFunction
<1>6. IsMeaning(f)
  <2> DEFINE body(i) == IF i = 0 THEN Start ELSE G[<<f[i - 1], i>>]
             want(i) == IF i = 0 THEN Start ELSE Step(f[i - 1], i, lost)
  <2>1. f = [i \in 0..n |-> body(i)]
    BY <1>5 DEF IsRecursive
  <2>2. ASSUME NEW i \in 0..n PROVE body(i) = want(i)
    <3>1. CASE i = 0
      BY <3>1
    <3>2. CASE i # 0
      <4>1. i \in 1..n /\ f[i - 1] \in Partial
        BY <1>1, <3>2
      <4>2. G[<<f[i - 1], i>>] = Step(f[i - 1], i, lost)
        BY <4>1
      <4> QED
        BY <3>2, <4>2
    <3> QED
      BY <3>1, <3>2
  <2> HIDE DEF body, want
  <2>3. f = [i \in 0..n |-> want(i)]
    BY <2>1, <2>2
  <2> QED
    BY <2>3 DEF want, Step, Start
<1> DEFINE E == Meaning(lost)
<1>7. IsMeaning(E)
  BY <1>6 DEF Meaning, ExpectedUpTo
<1> DEFINE val(i) == IF i = 0 THEN Start ELSE Step(E[i - 1], i, lost)
<1> HIDE DEF E
<1>8. E = [i \in 0..n |-> val(i)]
  BY <1>7 DEF Step, Start
<1> HIDE DEF val
<1>9. \A i \in 0..n : E[i] = val(i)
  BY <1>8
<1>10. E[0] = Start
  <2>1. 0 \in 0..n
    BY <1>1
  <2> QED
    BY <1>9, <2>1 DEF val
<1>11. ASSUME NEW i \in 1..n PROVE E[i] = Step(E[i - 1], i, lost)
  <2>1. i \in 0..n /\ i # 0
    BY <1>1
  <2> QED
    BY <1>9, <2>1 DEF val
<1>12. \A i \in 0..n : E[i] \in Partial
  <2> DEFINE S == {i \in 0..n : E[i] \in Partial}
  <2>1. 0 \in S
    BY <1>1, <1>2, <1>10
  <2>2. ASSUME NEW i \in 1..n, i - 1 \in S PROVE i \in S
    <3>1. i \in 0..n
      BY <1>1
    <3> QED
      BY <1>3, <1>11, <2>2, <3>1
  <2> HIDE DEF S
  <2>3. \A i \in 0..n : i \in S
    BY <1>1, <2>1, <2>2, InductionTo
  <2> QED
    BY <2>3 DEF S
<1> QED
  BY <1>10, <1>11, <1>12 DEF E

\* A frame adds to what is to be told and answered, and nothing does behind a frame that
\* ends it.
LEMMA MeaningGrows ==
  ASSUME Known, NEW lost \in {0, 1}, NEW k \in 0..Len(input), NEW m \in 0..Len(input), k <= m
  PROVE  LET E == Meaning(lost) IN
         /\ Extends(E[k].results, E[m].results) /\ Extends(E[k].replies, E[m].replies)
         /\ E[k].stop => E[m] = E[k]
<1> DEFINE n == Len(input)
           E == Meaning(lost)
           Fine(i) == /\ Extends(E[k].results, E[i].results) /\ Extends(E[k].replies, E[i].replies)
                      /\ E[k].stop => E[i] = E[k]
           S == {i \in 0..n : i >= k => Fine(i)}
<1>1. n \in Nat /\ input \in Seq(Frames)
  BY Setup
<1>2. (\A i \in 0..n : E[i] \in Partial) /\ \A i \in 1..n : E[i] = Step(E[i - 1], i, lost)
  BY Meanings
<1> HIDE DEF E, n
<1>3. \A i \in 0..n : E[i].results \in Seq(Outcome) /\ E[i].replies \in Seq(Answer)
  BY <1>2, PartialFields
<1>4. k \in 0..n /\ m \in 0..n
  BY DEF n
<1>5. Fine(k)
  BY <1>3, <1>4, ExtendsSelf
<1>6. ASSUME NEW i \in 1..n, i - 1 \in S PROVE i \in S
  <2>1. i \in 0..n /\ i - 1 \in 0..n
    BY <1>1
  <2>2. SUFFICES ASSUME i >= k PROVE Fine(i)
    BY <2>1
  <2>3. CASE i = k
    BY <1>5, <2>3
  <2>4. CASE i # k
    <3>1. i - 1 >= k
      BY <1>4, <2>1, <2>2, <2>4
    <3>2. Fine(i - 1)
      BY <1>6, <3>1
    <3>3. PICK s \in Partial, t \in Partial : s = E[i - 1] /\ t = E[i] /\ t = Step(s, i, lost)
      BY <1>2, <2>1
    <3>4. CASE s.stop
      <4>1. E[i] = E[i - 1]
        BY <3>3, <3>4 DEF Step
      <4> QED
        BY <3>2, <4>1
    <3>5. CASE ~s.stop
      <4>1. PICK whole \in BOOLEAN : whole = (~(lost = 1) \/ i < n)
        OBVIOUS
      <4>2. t = Interpret(s, input, i, whole)
        BY <3>3, <3>5, <4>1 DEF Step, n
      <4>3. Extends(s.results, t.results) /\ Extends(s.replies, t.replies)
        BY <1>1, <4>2, Interpreted DEF n
      <4>4. ~E[k].stop
        BY <3>2, <3>3, <3>5
      <4>5. Extends(E[k].results, E[i].results)
        BY <1>3, <1>4, <2>1, <3>2, <3>3, <4>3, ExtendsTransitive
      <4>6. Extends(E[k].replies, E[i].replies)
        BY <1>3, <1>4, <2>1, <3>2, <3>3, <4>3, ExtendsTransitive
      <4> QED
        BY <4>4, <4>5, <4>6
    <3> QED
      BY <3>4, <3>5
  <2> QED
    BY <2>3, <2>4
<1>7. 0 \in S
  <2>1. 0 >= k => k = 0
    BY <1>4
  <2>2. 0 \in 0..n
    BY <1>1
  <2> QED
    BY <1>5, <2>1, <2>2
<1>8. m \in S
  <2> HIDE DEF S
  <2> QED
    BY <1>1, <1>4, <1>6, <1>7, InductionTo
<1> QED
  BY <1>8 DEF E

\* All that the caller should be told.
LEMMA Conclusion ==
  ASSUME Known, NEW lost \in {0, 1}, NEW k \in 0..Len(input), expected = Expected(input, lost = 1)
  PROVE  LET s == Meaning(lost)[k] IN
         /\ s \in Partial /\ expected \in Partial
         /\ s.stop => expected = s
         /\ ~s.stop /\ k = Len(input) => expected = Tell(s, Err("Closed"))
         /\ Extends(s.results, expected.results) /\ Extends(s.replies, expected.replies)
<1> DEFINE n == Len(input)
           E == Meaning(lost)
           e == IF E[n].stop THEN E[n] ELSE Tell(E[n], Err("Closed"))
<1>1. expected = e
  BY DEF Expected, Meaning
<1>2. n \in Nat /\ n \in 0..n /\ k <= n
  BY Setup
<1>3. E[k] \in Partial /\ E[n] \in Partial
  BY <1>2, Meanings
<1>4. /\ Extends(E[k].results, E[n].results) /\ Extends(E[k].replies, E[n].replies)
      /\ E[k].stop => E[n] = E[k]
  BY <1>2, MeaningGrows
<1> HIDE DEF E, n
<1>5. PICK s \in Partial, t \in Partial : s = E[k] /\ t = E[n]
  BY <1>3
<1>6. Err("Closed") \in Outcome
  <2>1. "Closed" \in Whats
    BY DEF Whats
  <2> QED
    BY <2>1, ErrorTyped
<1>7. /\ Tell(t, Err("Closed")) \in Partial /\ Tell(t, Err("Closed")).results = Append(t.results, Err("Closed"))
      /\ Tell(t, Err("Closed")).replies = t.replies
  BY <1>6, TellFields
<1>8. s.results \in Seq(Outcome) /\ t.results \in Seq(Outcome) /\ s.replies \in Seq(Answer) /\ t.replies \in Seq(Answer)
  BY PartialFields
<1>9. Extends(s.results, t.results) /\ Extends(s.replies, t.replies) /\ (s.stop => t = s)
  BY <1>4, <1>5
<1>10. Extends(t.results, Append(t.results, Err("Closed"))) /\ Append(t.results, Err("Closed")) \in Seq(Outcome)
  BY <1>6, <1>8, ExtendsAppend, AppendProperties
<1>11. Extends(s.results, Append(t.results, Err("Closed")))
  BY <1>8, <1>9, <1>10, ExtendsTransitive
<1>12. expected = IF t.stop THEN t ELSE Tell(t, Err("Closed"))
  BY <1>1, <1>5
<1>13. expected \in Partial /\ Extends(s.results, expected.results) /\ Extends(s.replies, expected.replies)
  BY <1>7, <1>9, <1>11, <1>12
<1>14. s.stop => expected = s
  BY <1>9, <1>12
<1>15. ~s.stop /\ k = n => expected = Tell(s, Err("Closed"))
  BY <1>5, <1>12
<1> QED
  BY <1>5, <1>13, <1>14, <1>15 DEF E, n

\* A message is compressed if its first frame says so.
LEMMA CompressedStep ==
  ASSUME Known, NEW i \in 1..Len(input)
  PROVE  /\ input[i].opcode \in {"Text", "Binary"} => (Compressed(input, i) <=> input[i].rsv1)
         /\ input[i].opcode \notin {"Text", "Binary"} => (Compressed(input, i) <=> Compressed(input, i - 1))
<1>1. Len(input) \in Nat /\ i \in Nat /\ i > 0 /\ i \in 1..i
  BY Setup
<1> DEFINE First(k) == input[k].rsv1 /\ input[k].opcode \in {"Text", "Binary"}
           Later(m) == input[m].opcode \notin {"Text", "Binary"}
<1>2. \A k \in Nat : Compressed(input, k) <=> k > 0 /\ \E j \in 1..k : First(j) /\ \A m \in j+1..k : Later(m)
  BY DEF Compressed
<1> HIDE DEF First
<1>3. ASSUME input[i].opcode \in {"Text", "Binary"} PROVE Compressed(input, i) <=> input[i].rsv1
  <2>1. ~Later(i)
    BY <1>3
  <2> HIDE DEF Later
  <2>2. ASSUME Compressed(input, i) PROVE input[i].rsv1
    <3>1. PICK j \in 1..i : First(j) /\ \A m \in j+1..i : Later(m)
      BY <1>1, <1>2, <2>2
    <3>2. i \notin j+1..i
      BY <2>1, <3>1
    <3>3. j = i
      BY <1>1, <3>2
    <3> QED
      BY <3>1, <3>3 DEF First
  <2>3. ASSUME input[i].rsv1 PROVE Compressed(input, i)
    <3>1. First(i)
      BY <1>3, <2>3 DEF First
    <3>2. \A m \in i+1..i : Later(m)
      BY <1>1
    <3> QED
      BY <1>1, <1>2, <3>1, <3>2
  <2> QED
    BY <2>2, <2>3
<1>4. ASSUME input[i].opcode \notin {"Text", "Binary"} PROVE Compressed(input, i) <=> Compressed(input, i - 1)
  <2>1. Later(i) /\ ~First(i)
    BY <1>4 DEF First
  <2> HIDE DEF Later
  <2>2. i - 1 \in Nat
    BY <1>1
  <2>3. ASSUME Compressed(input, i) PROVE Compressed(input, i - 1)
    <3>1. PICK j \in 1..i : First(j) /\ \A m \in j+1..i : Later(m)
      BY <1>1, <1>2, <2>3
    <3>2. j # i
      BY <2>1, <3>1
    <3>3. j \in 1..(i - 1) /\ i - 1 > 0 /\ \A m \in j+1..(i - 1) : m \in j+1..i
      BY <1>1, <3>2
    <3> QED
      BY <1>2, <2>2, <3>1, <3>3
  <2>4. ASSUME Compressed(input, i - 1) PROVE Compressed(input, i)
    <3>1. PICK j \in 1..(i - 1) : First(j) /\ \A m \in j+1..(i - 1) : Later(m)
      BY <1>2, <2>2, <2>4
    <3>2. j \in 1..i /\ \A m \in j+1..i : m \in j+1..(i - 1) \/ m = i
      BY <1>1
    <3> QED
      BY <1>1, <1>2, <2>1, <3>1, <3>2
  <2> QED
    BY <2>3, <2>4
<1> QED
  BY <1>3, <1>4

\* A message stays open over control frames.
LEMMA OpenStep ==
  ASSUME Known, NEW i \in 1..Len(input)
  PROVE  /\ is_control(input[i].opcode) /\ OpenAfter(input, i - 1) => OpenAfter(input, i)
         /\ ~is_control(input[i].opcode) /\ ~input[i].fin => OpenAfter(input, i)
<1>1. Len(input) \in Nat /\ i \in Nat /\ i > 0 /\ i \in 1..i
  BY Setup
<1>2. ASSUME is_control(input[i].opcode), OpenAfter(input, i - 1) PROVE OpenAfter(input, i)
  <2>1. PICK k \in 1..(i - 1) : /\ ~is_control(input[k].opcode) /\ ~input[k].fin
                                /\ \A j \in k+1..(i - 1) : is_control(input[j].opcode)
    BY <1>2 DEF OpenAfter
  <2>2. k \in 1..i /\ \A j \in k+1..i : j \in k+1..(i - 1) \/ j = i
    BY <1>1
  <2> QED
    BY <1>2, <2>1, <2>2 DEF OpenAfter
<1>3. ASSUME ~is_control(input[i].opcode), ~input[i].fin PROVE OpenAfter(input, i)
  <2>1. \A j \in i+1..i : is_control(input[j].opcode)
    BY <1>1
  <2> QED
    BY <1>1, <1>3, <2>1 DEF OpenAfter
<1> QED
  BY <1>2, <1>3

\* What frame i is, when s is the meaning of those before it.
Gathered(s, i) == s.open.data \o Payload(i, input[i])
KindOf(s, i)   == IF input[i].opcode = "Continue" THEN s.open.opcode ELSE input[i].opcode
Refused(i)     == input[i].rsv1 /\ ~has_extensions
Exceeds(s, i)  == ~is_control(input[i].opcode) /\ Len(Gathered(s, i)) > max_message_size
Accepted(s, i) == ~Refused(i) /\ ~Exceeds(s, i)
OutOfTurn(s, i) == (input[i].opcode = "Continue") # (s.open.opcode # "none")
InTurn(s, i)   == Accepted(s, i) /\ ~is_control(input[i].opcode) /\ ~OutOfTurn(s, i)
Unpacked(s, i) == IF Compressed(input, i) THEN Inflate(Gathered(s, i)) ELSE Gathered(s, i)

\* Its meaning then.
LEMMA Readings ==
  ASSUME Known, NEW i \in 1..Len(input), NEW s \in Partial, ~s.stop, NEW whole \in BOOLEAN
  PROVE  LET r    == Interpret(s, input, i, whole)
             f    == input[i]
             mine == Payload(i, f)
         IN  /\ Refused(i) => r.stop /\ r.results = Append(s.results, Err("Codec")) /\ r.replies = s.replies
             /\ ~Refused(i) /\ Exceeds(s, i) =>
                  ~r.stop /\ r.results = Append(s.results, Err("MessageTooLarge")) /\ r.replies = s.replies /\ r.open = NoMessage
             /\ Accepted(s, i) /\ ~whole => r = s
             /\ Accepted(s, i) /\ whole /\ f.opcode = "Pong" =>
                  ~r.stop /\ r.results = Append(s.results, Result("Pong", "Pong", mine)) /\ r.replies = s.replies /\ r.open = s.open
             /\ Accepted(s, i) /\ whole /\ f.opcode = "Ping" =>
                  ~r.stop /\ r.results = s.results /\ r.replies = Append(s.replies, Reply("Pong", "none", mine)) /\ r.open = s.open
             /\ Accepted(s, i) /\ whole /\ f.opcode = "Close" =>
                  r.stop /\ r.results = Append(s.results, CloseResult(f)) /\ r.replies = s.replies \o CloseReplies(f)
             /\ Accepted(s, i) /\ whole /\ ~is_control(f.opcode) /\ OutOfTurn(s, i) =>
                  r.stop /\ r.results = Append(s.results, Err("UnexpectedOpCode")) /\ r.replies = s.replies
             /\ InTurn(s, i) /\ whole /\ ~f.fin =>
                  ~r.stop /\ r.results = s.results /\ r.replies = s.replies
                  /\ r.open = [opcode |-> KindOf(s, i), data |-> Gathered(s, i)]
             /\ InTurn(s, i) /\ whole /\ f.fin /\ Compressed(input, i) /\ Undecodable(input, Gathered(s, i)) =>
                  r.stop /\ r.results = Append(s.results, Err("Extension")) /\ r.replies = s.replies
             /\ InTurn(s, i) /\ whole /\ f.fin /\ ~(Compressed(input, i) /\ Undecodable(input, Gathered(s, i))) =>
                  ~r.stop /\ r.results = Append(s.results, Result("Data", KindOf(s, i), Unpacked(s, i)))
                  /\ r.replies = s.replies /\ r.open = NoMessage
<1> DEFINE r == Interpret(s, input, i, whole)
           f == input[i]
           mine == Payload(i, f)
           data == Gathered(s, i)
           kind == KindOf(s, i)
<1>1. input \in Seq(Frames) /\ f \in Frames /\ i \in Nat
  BY Setup, ElementOfSeq
<1>2. f.opcode \in {"Continue", "Text", "Binary", "Close", "Ping", "Pong"}
  BY <1>1 DEF Frames
<1>3. mine \in Seq(Token)
  BY <1>1, PayloadTyped
<1>4. /\ s.open.opcode \in {"none", "Text", "Binary"} /\ s.open.data \in Seq(Token)
      /\ s.results \in Seq(Outcome) /\ s.replies \in Seq(Answer)
  BY PartialFields
<1>5. r = IF Refused(i) THEN Stop(Tell(s, Err("Codec")))
          ELSE IF Exceeds(s, i) THEN Tell([s EXCEPT !.open = NoMessage], Err("MessageTooLarge"))
          ELSE IF ~whole             THEN s
          ELSE IF f.opcode = "Pong"  THEN Tell(s, Result("Pong", "Pong", mine))
          ELSE IF f.opcode = "Ping"  THEN [s EXCEPT !.replies = Append(@, Reply("Pong", "none", mine))]
          ELSE IF f.opcode = "Close" THEN Stop(Tell([s EXCEPT !.replies = @ \o CloseReplies(f)], CloseResult(f)))
          ELSE IF OutOfTurn(s, i)    THEN Stop(Tell(s, Err("UnexpectedOpCode")))
          ELSE IF ~f.fin             THEN [s EXCEPT !.open = [opcode |-> kind, data |-> data]]
          ELSE IF Compressed(input, i) /\ Undecodable(input, data) THEN Stop(Tell(s, Err("Extension")))
          ELSE Tell([s EXCEPT !.open = NoMessage], Result("Data", kind, Unpacked(s, i)))
  BY DEF Interpret, Gathered, KindOf, Refused, Exceeds, OutOfTurn, Unpacked
<1>6. data \in Seq(Token)
  BY <1>3, <1>4, Concat DEF Gathered
<1>7. Unpacked(s, i) \in Seq(Token)
  BY <1>6, Inflated DEF Unpacked
<1>8. kind \in Whats /\ "Data" \in Kinds /\ "Pong" \in Kinds /\ "Pong" \in Whats /\ "none" \in Whats
      /\ "Codec" \in Whats /\ "MessageTooLarge" \in Whats /\ "UnexpectedOpCode" \in Whats /\ "Extension" \in Whats
  BY <1>2, <1>4 DEF KindOf, Whats, Kinds
<1> HIDE DEF data, kind, mine
<1>9. /\ Err("Codec") \in Outcome /\ Err("MessageTooLarge") \in Outcome
      /\ Err("UnexpectedOpCode") \in Outcome /\ Err("Extension") \in Outcome
      /\ Result("Pong", "Pong", mine) \in Outcome /\ Result("Data", kind, Unpacked(s, i)) \in Outcome
  BY <1>3, <1>7, <1>8, ErrorTyped, Outcomes
<1>10. Reply("Pong", "none", mine) \in Answer
  BY <1>3, <1>8 DEF Reply, Answer
<1>11. ASSUME NEW x \in Outcome
       PROVE  LET t == Stop(Tell(s, x)) IN t.stop /\ t.results = Append(s.results, x) /\ t.replies = s.replies
  <2>1. PICK t \in Partial : t = Tell(s, x) /\ t.results = Append(s.results, x) /\ t.replies = s.replies
    BY TellFields
  <2>2. Stop(t).stop = TRUE /\ Stop(t).results = t.results /\ Stop(t).replies = t.replies
    BY StopFields
  <2> QED
    BY <2>1, <2>2
<1>12. ASSUME NEW x \in Outcome
       PROVE  LET t == Tell([s EXCEPT !.open = NoMessage], x) IN
              ~t.stop /\ t.results = Append(s.results, x) /\ t.replies = s.replies /\ t.open = NoMessage
  <2>1. PICK t \in Partial : /\ t = [s EXCEPT !.open = NoMessage] /\ t.open = NoMessage
                             /\ t.results = s.results /\ t.replies = s.replies /\ t.stop = s.stop
    BY NoMessageOpens, OpenFields
  <2>2. /\ Tell(t, x).results = Append(t.results, x) /\ Tell(t, x).replies = t.replies
        /\ Tell(t, x).stop = t.stop /\ Tell(t, x).open = t.open
    BY TellFields
  <2> QED
    BY <2>1, <2>2
<1>13. LET t == Tell(s, Result("Pong", "Pong", mine)) IN
       ~t.stop /\ t.results = Append(s.results, Result("Pong", "Pong", mine)) /\ t.replies = s.replies /\ t.open = s.open
  BY <1>9, TellFields
<1>14. LET t == [s EXCEPT !.replies = Append(@, Reply("Pong", "none", mine))] IN
       ~t.stop /\ t.results = s.results /\ t.replies = Append(s.replies, Reply("Pong", "none", mine)) /\ t.open = s.open
  <2>1. PICK y \in Seq(Answer) : y = Append(s.replies, Reply("Pong", "none", mine))
    BY <1>4, <1>10, AppendProperties
  <2>2. LET t == [s EXCEPT !.replies = y] IN t.stop = s.stop /\ t.results = s.results /\ t.replies = y /\ t.open = s.open
    BY RepliesFields
  <2> QED
    BY <2>1, <2>2
<1>15. LET t == Stop(Tell([s EXCEPT !.replies = @ \o CloseReplies(f)], CloseResult(f))) IN
       t.stop /\ t.results = Append(s.results, CloseResult(f)) /\ t.replies = s.replies \o CloseReplies(f)
  <2>1. CloseReplies(f) \in Seq(Answer) /\ CloseResult(f) \in Outcome
    BY <1>1, CloseTyped
  <2>2. PICK x \in Outcome, y \in Seq(Answer) : x = CloseResult(f) /\ y = s.replies \o CloseReplies(f)
    BY <1>4, <2>1, ConcatProperties
  <2>3. PICK t \in Partial : t = [s EXCEPT !.replies = y] /\ t.results = s.results /\ t.replies = y
    BY RepliesFields
  <2>4. PICK u \in Partial : u = Tell(t, x) /\ u.results = Append(t.results, x) /\ u.replies = t.replies
    BY TellFields
  <2>5. Stop(u).stop = TRUE /\ Stop(u).results = u.results /\ Stop(u).replies = u.replies
    BY StopFields
  <2> QED
    BY <2>2, <2>3, <2>4, <2>5
<1>16. ASSUME ~is_control(f.opcode), ~OutOfTurn(s, i)
       PROVE  LET t == [s EXCEPT !.open = [opcode |-> kind, data |-> data]] IN
              ~t.stop /\ t.results = s.results /\ t.replies = s.replies /\ t.open = [opcode |-> kind, data |-> data]
  <2>1. kind \in {"none", "Text", "Binary"}
    BY <1>2, <1>4, <1>16 DEF is_control, OutOfTurn, kind, KindOf
  <2>2. PICK o \in Opening : o = [opcode |-> kind, data |-> data]
    BY <1>6, <2>1 DEF Opening
  <2>3. LET t == [s EXCEPT !.open = o] IN t.stop = s.stop /\ t.results = s.results /\ t.replies = s.replies /\ t.open = o
    BY OpenFields
  <2> QED
    BY <2>2, <2>3
<1>17. /\ Accepted(s, i) <=> ~Refused(i) /\ ~Exceeds(s, i)
       /\ InTurn(s, i) <=> Accepted(s, i) /\ ~is_control(f.opcode) /\ ~OutOfTurn(s, i)
       /\ ~is_control(f.opcode) <=> f.opcode \notin {"Close", "Ping", "Pong"}
  BY DEF Accepted, InTurn, is_control
<1> HIDE DEF r, f
<1>18. Refused(i) => r.stop /\ r.results = Append(s.results, Err("Codec")) /\ r.replies = s.replies
  BY <1>5, <1>9, <1>11
<1>19. ~Refused(i) /\ Exceeds(s, i) =>
         ~r.stop /\ r.results = Append(s.results, Err("MessageTooLarge")) /\ r.replies = s.replies /\ r.open = NoMessage
  BY <1>5, <1>9, <1>12
<1>20. Accepted(s, i) /\ ~whole => r = s
  BY <1>5, <1>17
<1>21. Accepted(s, i) /\ whole /\ f.opcode = "Pong" =>
         ~r.stop /\ r.results = Append(s.results, Result("Pong", "Pong", mine)) /\ r.replies = s.replies /\ r.open = s.open
  BY <1>5, <1>13, <1>17
<1>22. Accepted(s, i) /\ whole /\ f.opcode = "Ping" =>
         ~r.stop /\ r.results = s.results /\ r.replies = Append(s.replies, Reply("Pong", "none", mine)) /\ r.open = s.open
  BY <1>5, <1>14, <1>17
<1>23. Accepted(s, i) /\ whole /\ f.opcode = "Close" =>
         r.stop /\ r.results = Append(s.results, CloseResult(f)) /\ r.replies = s.replies \o CloseReplies(f)
  BY <1>5, <1>15, <1>17
<1>24. Accepted(s, i) /\ whole /\ ~is_control(f.opcode) /\ OutOfTurn(s, i) =>
         r.stop /\ r.results = Append(s.results, Err("UnexpectedOpCode")) /\ r.replies = s.replies
  BY <1>5, <1>9, <1>11, <1>17
<1>25. InTurn(s, i) /\ whole /\ ~f.fin =>
         ~r.stop /\ r.results = s.results /\ r.replies = s.replies /\ r.open = [opcode |-> kind, data |-> data]
  BY <1>5, <1>16, <1>17
<1>26. InTurn(s, i) /\ whole /\ f.fin /\ Compressed(input, i) /\ Undecodable(input, data) =>
         r.stop /\ r.results = Append(s.results, Err("Extension")) /\ r.replies = s.replies
  BY <1>5, <1>9, <1>11, <1>17
<1>27. InTurn(s, i) /\ whole /\ f.fin /\ ~(Compressed(input, i) /\ Undecodable(input, data)) =>
         ~r.stop /\ r.results = Append(s.results, Result("Data", kind, Unpacked(s, i)))
         /\ r.replies = s.replies /\ r.open = NoMessage
  BY <1>5, <1>9, <1>12, <1>17
<1> QED
  BY <1>18, <1>19, <1>20, <1>21, <1>22, <1>23, <1>24, <1>25, <1>26, <1>27 DEF r, f, mine, data, kind

\* An open message is one of frames that are all compressed, or all not.
Opened(o, i) ==
  /\ o.opcode = "none" => o = NoMessage
  /\ o.opcode # "none" => OpenAfter(input, i)
  /\ \A k \in 1..Len(o.data) : Compressed(input, o.data[k][1]) <=> Compressed(input, i)

\* It stays so when a frame is added to it.
LEMMA GatheredUniform ==
  ASSUME Known, NEW i \in 1..Len(input), NEW s \in Partial, Opened(s.open, i - 1), ~is_control(input[i].opcode), ~OutOfTurn(s, i)
  PROVE  /\ Gathered(s, i) \in Seq(Token)
         /\ \A k \in 1..Len(Gathered(s, i)) : Compressed(input, Gathered(s, i)[k][1]) <=> Compressed(input, i)
<1> DEFINE f == input[i]
           w == Payload(i, f)
           d == s.open.data
<1>1. f \in Frames /\ i \in Nat
  BY Setup, ElementOfSeq
<1>2. w \in Seq(Token) /\ Len(w) = f.len /\ f.len \in Nat /\ \A k \in 1..f.len : w[k] = <<i, k, 0>>
  BY <1>1, PayloadTyped
<1>3. d \in Seq(Token) /\ s.open.opcode \in {"none", "Text", "Binary"}
  BY PartialFields
<1>4. f.opcode \in {"Continue", "Text", "Binary"}
  BY <1>1 DEF Frames, is_control
<1>5. ASSUME NEW k \in 1..Len(d) PROVE Compressed(input, d[k][1]) <=> Compressed(input, i)
  <2>1. CASE f.opcode = "Continue"
    <3>1. Compressed(input, i) <=> Compressed(input, i - 1)
      BY <2>1, CompressedStep
    <3> QED
      BY <3>1 DEF Opened
  <2>2. CASE f.opcode # "Continue"
    <3>1. s.open = NoMessage
      BY <2>2 DEF OutOfTurn, Opened
    <3>2. d = <<>>
      BY <3>1, NoMessageOpens
    <3>3. Len(d) = 0
      BY <3>2
    <3> QED
      BY <3>3
  <2> QED
    BY <2>1, <2>2
<1>6. Gathered(s, i) = d \o w
  BY DEF Gathered
<1> HIDE DEF d, w, f
<1>7. /\ d \o w \in Seq(Token) /\ Len(d \o w) = Len(d) + Len(w)
      /\ \A k \in 1..Len(d) : (d \o w)[k] = d[k]
      /\ \A k \in 1..Len(w) : (d \o w)[Len(d) + k] = w[k]
  BY <1>2, <1>3, Concat
<1>8. Len(d) \in Nat
  BY <1>3
<1>9. ASSUME NEW k \in 1..Len(d \o w) PROVE Compressed(input, (d \o w)[k][1]) <=> Compressed(input, i)
  <2>1. CASE k \in 1..Len(d)
    BY <1>5, <1>7, <2>1
  <2>2. CASE k \notin 1..Len(d)
    <3>1. k - Len(d) \in 1..Len(w) /\ Len(d) + (k - Len(d)) = k
      BY <1>2, <1>7, <1>8, <2>2
    <3>2. PICK j \in 1..Len(w) : k = Len(d) + j
      BY <3>1
    <3>3. (d \o w)[k] = <<i, j, 0>>
      BY <1>2, <1>7, <3>2
    <3>4. (d \o w)[k][1] = i
      BY <3>3
    <3> QED
      BY <3>4
  <2> QED
    BY <2>1, <2>2
<1> QED
  BY <1>6, <1>7, <1>9

\* So it is for the message open after any number of frames.
LEMMA OpenFacts ==
  ASSUME Known, NEW lost \in {0, 1}, NEW m \in 0..Len(input) - 1, ~Meaning(lost)[m].stop
  PROVE  Opened(Meaning(lost)[m].open, m)
<1> DEFINE n == Len(input)
           E == Meaning(lost)
           S == {i \in 0..n - 1 : ~E[i].stop => Opened(E[i].open, i)}
<1>1. n \in Nat /\ n > 0 /\ m \in 0..n - 1
  BY FrameEnds
<1>2. E[0] = Start /\ (\A i \in 0..n : E[i] \in Partial) /\ \A i \in 1..n : E[i] = Step(E[i - 1], i, lost)
  BY Meanings
<1>3. ASSUME NEW i PROVE Opened(NoMessage, i)
  <2>1. Len(NoMessage.data) = 0
    BY NoMessageOpens
  <2> QED
    BY <2>1, NoMessageOpens DEF Opened
<1> HIDE DEF E
<1>4. 0 \in S
  <2>1. E[0].open = NoMessage
    BY <1>2 DEF Start
  <2> QED
    BY <1>1, <1>3, <2>1
<1>5. ASSUME NEW i \in 1..n - 1, i - 1 \in S PROVE i \in S
  <2>1. i \in 1..n /\ i \in 0..n - 1 /\ i \in 0..n /\ i - 1 \in 0..n /\ i < n
    BY <1>1
  <2>2. SUFFICES ASSUME ~E[i].stop PROVE Opened(E[i].open, i)
    BY <2>1
  <2>3. PICK s \in Partial, r \in Partial : s = E[i - 1] /\ r = E[i] /\ r = Step(s, i, lost)
    BY <1>2, <2>1
  <2>4. ~s.stop
    BY <2>2, <2>3 DEF Step
  <2>5. Opened(s.open, i - 1)
    BY <1>5, <2>3, <2>4
  <2>6. r = Interpret(s, input, i, TRUE)
    <3>1. (~(lost = 1) \/ i < n) = TRUE
      BY <2>1
    <3> QED
      BY <2>3, <2>4, <3>1 DEF Step
  <2>7. TRUE \in BOOLEAN /\ ~r.stop
    BY <2>2, <2>3
  <2>8. input[i] \in Frames /\ input[i].opcode \in {"Continue", "Text", "Binary", "Close", "Ping", "Pong"}
    <3>1. input[i] \in Frames
      BY <2>1, FrameEnds
    <3> QED
      BY <3>1 DEF Frames
  <2>9. Accepted(s, i) <=> ~Refused(i) /\ ~Exceeds(s, i)
    BY DEF Accepted
  <2>10. CASE is_control(input[i].opcode)
    <3>1. r.open = s.open
      <4>1. input[i].opcode \in {"Close", "Ping", "Pong"} /\ ~Exceeds(s, i)
        BY <2>10 DEF is_control, Exceeds
      <4> QED
        BY <2>1, <2>4, <2>6, <2>7, <2>9, <4>1, Readings
    <3>2. Compressed(input, i) <=> Compressed(input, i - 1)
      <4>1. input[i].opcode \notin {"Text", "Binary"}
        BY <2>10 DEF is_control
      <4> QED
        BY <2>1, <4>1, CompressedStep
    <3>3. OpenAfter(input, i - 1) => OpenAfter(input, i)
      BY <2>1, <2>10, OpenStep
    <3>4. Opened(r.open, i)
      BY <2>5, <3>1, <3>2, <3>3 DEF Opened
    <3> QED
      BY <2>3, <3>4
  <2>11. CASE ~is_control(input[i].opcode)
    <3>1. CASE r.open = NoMessage
      BY <1>3, <2>3, <3>1
    <3>2. CASE r.open # NoMessage
      <4>1. InTurn(s, i) /\ ~input[i].fin /\ r.open = [opcode |-> KindOf(s, i), data |-> Gathered(s, i)]
        BY <2>1, <2>4, <2>6, <2>7, <2>9, <2>11, <3>2, Readings DEF InTurn
      <4>2. ~OutOfTurn(s, i)
        BY <4>1 DEF InTurn
      <4>3. KindOf(s, i) # "none"
        BY <2>8, <2>11, <4>2 DEF is_control, OutOfTurn, KindOf
      <4>4. OpenAfter(input, i)
        BY <2>1, <2>11, <4>1, OpenStep
      <4>5. \A k \in 1..Len(Gathered(s, i)) : Compressed(input, Gathered(s, i)[k][1]) <=> Compressed(input, i)
        BY <2>1, <2>5, <2>11, <4>2, GatheredUniform
      <4>6. Opened(r.open, i)
        BY <4>1, <4>3, <4>4, <4>5 DEF Opened
      <4> QED
        BY <2>3, <4>6
    <3> QED
      BY <3>1, <3>2
  <2> QED
    BY <2>10, <2>11
<1>6. \A i \in 0..n - 1 : i \in S
  <2>1. n - 1 \in Nat
    BY <1>1
  <2> HIDE DEF S, n
  <2> QED
    BY <1>4, <1>5, <2>1, InductionTo
<1> QED
  BY <1>1, <1>6 DEF E
-----------------------------------------------------------------------------
(* Every step follows the meaning of the frames.                           *)

\* The peer does not change its mind.
LEMMA SameMeaning ==
  ASSUME NEW lost \in {0, 1}, UNCHANGED peer
  PROVE  /\ setup' = setup /\ input' = input /\ expected' = expected
         /\ Meaning(lost)' = Meaning(lost) /\ Expected(input, lost = 1)' = Expected(input, lost = 1)
         /\ has_extensions' = has_extensions
         /\ \A i : Compressed(input, i)' = Compressed(input, i)
<1>1. setup' = setup /\ input' = input /\ expected' = expected
  BY DEF peer
<1>2. has_extensions' = has_extensions /\ max_message_size' = max_message_size
  BY <1>1 DEF has_extensions, max_message_size
<1>3. ExpectedUpTo(input, lost = 1)' = ExpectedUpTo(input, lost = 1)
  BY <1>1, <1>2 DEF ExpectedUpTo, Interpret
<1>4. \A i : Compressed(input, i)' = Compressed(input, i)
  BY <1>1 DEF Compressed
<1> QED
  BY <1>1, <1>2, <1>3, <1>4 DEF Meaning, Expected

\* The frames say no more.
LEMMA Concludes ==
  ASSUME Known, NEW lost \in {0, 1}, Follows(lost), UNCHANGED peer, NEW k \in 0..Len(input),
         Meaning(lost)[k].stop, replies' = Meaning(lost)[k].replies, results' = Meaning(lost)[k].results
  PROVE  Concluded'
<1>1. expected' = expected /\ expected = Expected(input, lost = 1)
  BY DEF peer, Follows
<1>2. expected = Meaning(lost)[k] /\ expected \in Partial
  BY <1>1, Conclusion
<1>3. results' = expected.results /\ expected.results \in Seq(Outcome)
  BY <1>2, PartialFields
<1>4. Extends(expected.results, results')
  BY <1>3, ExtendsSelf
<1> QED
  BY <1>1, <1>2, <1>4 DEF Concluded

\* Where receive is behind a header: what it has, and what the frame will mean.
LEMMA Situation ==
  ASSUME Inv, NEW lost \in {0, 1}, Sync(lost), Follows(lost), Within
  PROVE  LET s == Meaning(lost)[header - 1]
             f == input[header]
         IN  /\ s \in Partial /\ ~s.stop /\ results = s.results /\ replies = s.replies
             /\ message = given \o s.open.data /\ first_fragment_opcode = s.open.opcode
             /\ (await_last_fragment <=> s.open.opcode # "none" /\ Compressed(input, header - 1))
             /\ (await_last_fragment => has_extensions /\ length > 0)
             /\ ~is_closed /\ ~Refused(header) /\ f \in Frames /\ header \in 1..Len(input) /\ header \in 0..Len(input)
             /\ Len(Gathered(s, header)) = length + f.len /\ Gathered(s, header) \in Seq(Token)
             /\ Opened(s.open, header - 1)
             /\ Meaning(lost)[header] = Interpret(s, input, header, cur + f.len <= Len(stream))
             /\ (cur + f.len <= Len(stream)) \in BOOLEAN
<1> DEFINE s == Meaning(lost)[header - 1]
           f == input[header]
<1>1. Known
  BY DEF Inv, Typed
<1>2. /\ header \in 1..Len(input) /\ header \in 0..Len(input) /\ header - 1 \in 0..Len(input) /\ f \in Frames /\ f.len \in Nat
      /\ cur + f.len <= Len(stream) <=> (lost = 0 \/ header < Len(input))
  BY Places
<1>3. s \in Partial /\ Meaning(lost)[header] = Step(s, header, lost)
  BY <1>1, <1>2, Meanings
<1>4. Live /\ Done = header - 1 /\ pc \in {"control", "data"}
  BY DEF Live, Done, Within
<1>5. Agrees(s)
  BY <1>4 DEF Follows
<1>6. /\ ~s.stop /\ results = s.results /\ replies = s.replies
      /\ message = given \o s.open.data /\ first_fragment_opcode = s.open.opcode
      /\ (await_last_fragment <=> s.open.opcode # "none" /\ Compressed(input, header - 1))
      /\ (await_last_fragment => has_extensions /\ length > 0)
  BY <1>4, <1>5 DEF Agrees
<1>7. ~is_closed /\ ~Refused(header)
  BY <1>4 DEF Inv, Closing, Follows, Refused
<1>8. Opened(s.open, header - 1)
  <2>1. header - 1 \in 0..Len(input) - 1
    BY <1>2
  <2> QED
    BY <1>1, <1>6, <2>1, OpenFacts
<1> HIDE DEF s, f
<1>9. Len(Gathered(s, header)) = length + f.len /\ Gathered(s, header) \in Seq(Token)
  <2>1. s.open.data \in Seq(Token) /\ given \in Seq(Token) /\ length \in Nat
    BY <1>3, PartialFields DEF Inv, Typed
  <2>2. header \in Nat
    BY <1>2
  <2>3. Payload(header, f) \in Seq(Token) /\ Len(Payload(header, f)) = f.len
    BY <1>2, <2>2, PayloadTyped
  <2>4. PICK d \in Seq(Token), w \in Seq(Token) : d = s.open.data /\ w = Payload(header, f)
    BY <2>1, <2>3
  <2>5. Len(given \o d) = Len(given) + Len(d) /\ Len(d \o w) = Len(d) + Len(w) /\ d \o w \in Seq(Token)
    BY <2>1, Concat
  <2>6. Len(message) = Len(given) + length
    BY <1>4 DEF Inv, Counted
  <2>7. Len(d) \in Nat /\ Len(given) \in Nat
    BY <2>1
  <2>8. Len(d) = length
    BY <1>6, <2>1, <2>4, <2>5, <2>6, <2>7
  <2>9. Gathered(s, header) = d \o w /\ Len(w) = f.len
    BY <2>3, <2>4 DEF Gathered, f
  <2> QED
    BY <2>5, <2>8, <2>9
<1>10. Meaning(lost)[header] = Interpret(s, input, header, cur + f.len <= Len(stream))
  <2>1. (~(lost = 1) \/ header < Len(input)) = (cur + f.len <= Len(stream))
    BY <1>2
  <2> QED
    BY <1>3, <1>6, <2>1 DEF Step
<1> QED
  BY <1>2, <1>3, <1>6, <1>7, <1>8, <1>9, <1>10 DEF s, f

\* Every action follows the meaning of the frames.  A call begins.
LEMMA ReceiveFollows ==
  ASSUME Inv, NEW lost \in {0, 1}, Sync(lost), Follows(lost), Receive
  PROVE  Follows(lost)'
<1> DEFINE s == Meaning(lost)[header]
<1>1. /\ UNCHANGED <<peer, header, is_closed, await_last_fragment, results, replies>>
      /\ pc = "idle" /\ ~GaveUp /\ pc' = "loop" /\ given' = message' /\ first_fragment_opcode' = "none"
  BY DEF Receive
<1>2. /\ input' = input /\ expected' = expected /\ has_extensions' = has_extensions
      /\ Meaning(lost)' = Meaning(lost) /\ Expected(input, lost = 1)' = Expected(input, lost = 1)
  BY <1>1, SameMeaning
<1>3. ~GaveUp' /\ ~Within' /\ ~Within /\ Between /\ Between' /\ (expected = Expected(input, lost = 1))'
  BY <1>1, <1>2 DEF GaveUp, Within, Between, Follows
<1>4. CASE is_closed
  <2>1. ~Live /\ ~Live'
    BY <1>1, <1>3, <1>4 DEF Live
  <2>2. Concluded'
    BY <1>1, <1>2, <2>1 DEF Follows, Concluded
  <2> QED
    BY <1>3, <2>1, <2>2 DEF Follows
<1>5. CASE ~is_closed
  <2>1. Live /\ Live' /\ Done = header /\ Done' = header
    BY <1>1, <1>3, <1>5 DEF Live, Done
  <2>2. Agrees(s)
    BY <2>1 DEF Follows
  <2>3. ~s.stop /\ results = s.results /\ replies = s.replies /\ s.open = NoMessage /\ ~await_last_fragment
    BY <1>1, <2>2, NoMessageOpens DEF Agrees
  <2>4. given' \in Seq(Token)
    BY ReceiveKeeps DEF Inv, Typed
  <2>5. message' = given' \o s.open.data
    <3>1. given' \o <<>> = given'
      BY <2>4, ConcatEmptySeq
    <3> QED
      BY <1>1, <2>3, <3>1, NoMessageOpens
  <2> HIDE DEF s
  <2>6. ~s.stop /\ results' = s.results /\ replies' = s.replies /\ first_fragment_opcode' = s.open.opcode /\ s.open.opcode = "none"
    BY <1>1, <2>3, NoMessageOpens
  <2>7. Agrees(Meaning(lost)[Done])'
    <3>1. (Meaning(lost)[Done])' = s
      BY <1>2, <2>1 DEF s
    <3> QED
      BY <1>1, <2>3, <2>5, <2>6, <3>1 DEF Agrees
  <2> QED
    BY <1>3, <2>1, <2>7 DEF Follows
<1> QED
  BY <1>4, <1>5

\* A closed connection: the CLOSE without a reason is told.
LEMMA ReceiveClosedFollows ==
  ASSUME Inv, NEW lost \in {0, 1}, Sync(lost), Follows(lost), ReceiveClosed
  PROVE  Follows(lost)'
<1>1. /\ UNCHANGED <<peer, is_closed, replies>> /\ pc = "loop" /\ is_closed
      /\ pc' = "idle" /\ results' = Append(results, Err("Closed")) /\ Return(Err("Closed"))
  BY DEF ReceiveClosed, Return
<1>2. expected' = expected /\ Expected(input, lost = 1)' = Expected(input, lost = 1)
  BY <1>1, SameMeaning
<1>3. "Closed" \in Whats
  BY DEF Whats
<1>4. Err("Closed") \in Outcome /\ results' \in Seq(Outcome) /\ results \in Seq(Outcome)
  BY <1>1, <1>3, ErrorTyped, Fails DEF Sync
<1>5. ~Live /\ ~Live' /\ ~Within'
  BY <1>1 DEF Live, Within
<1>6. Known /\ Len(input) \in 0..Len(input) /\ expected = Expected(input, lost = 1)
  BY FrameEnds DEF Inv, Typed, Follows
<1>7. expected \in Partial
  BY <1>6, Conclusion
<1>8. expected.results \in Seq(Outcome)
  BY <1>7, PartialFields
<1>9. Extends(expected.results, results')
  <2>1. CASE Extends(expected.results, results)
    <3>1. Extends(results, results')
      BY <1>1, <1>4, ExtendsAppend
    <3> QED
      BY <1>4, <1>8, <2>1, <3>1, ExtendsTransitive
  <2>2. CASE Append(results, Err("Closed")) = expected.results
    BY <1>1, <1>8, <2>2, ExtendsSelf
  <2> QED
    BY <1>5, <2>1, <2>2 DEF Follows, Concluded
<1>10. Concluded'
  BY <1>1, <1>2, <1>5, <1>9 DEF Follows, Concluded
<1> QED
  BY <1>1, <1>2, <1>5, <1>6, <1>10 DEF Follows

\* A header is accepted, or refused for its reserved bit.
LEMMA ReceiveHeaderFollows ==
  ASSUME Inv, NEW lost \in {0, 1}, Sync(lost), Follows(lost), ReceiveHeader
  PROVE  Follows(lost)'
<1> DEFINE s == Meaning(lost)[header]
           h == header'
<1>1. /\ h = header + 1 /\ h \in 1..Len(input)
      /\ pc' = IF input[h].rsv1 /\ ~has_extensions THEN "idle"
               ELSE IF is_control(input[h].opcode) THEN "control" ELSE "data"
      /\ results' = IF input[h].rsv1 /\ ~has_extensions THEN Append(results, Err("Codec")) ELSE results
  BY ReceiveHeaderInStep
<1>2. /\ UNCHANGED <<peer, given, first_fragment_opcode, length, message, is_closed, await_last_fragment, replies>>
      /\ pc = "loop" /\ ~is_closed
  BY DEF ReceiveHeader, StillOpen, local
<1>3. /\ input' = input /\ expected' = expected /\ has_extensions' = has_extensions
      /\ Meaning(lost)' = Meaning(lost) /\ Expected(input, lost = 1)' = Expected(input, lost = 1)
      /\ \A i : Compressed(input, i)' = Compressed(input, i)
  BY <1>2, SameMeaning
<1>4. Live /\ Done = header /\ Known /\ header \in 0..Len(input) /\ header \in Nat /\ h - 1 = header
  <2>1. Live /\ Between /\ Done = header /\ Known
    BY <1>2 DEF Live, Between, Done, Within, Inv, Typed
  <2>2. header \in 0..Len(input)
    BY <2>1 DEF Sync
  <2> QED
    BY <1>1, <2>1, <2>2
<1>5. Agrees(s) /\ ~GaveUp /\ expected = Expected(input, lost = 1)
  BY <1>2, <1>4 DEF Follows
<1>6. /\ ~s.stop /\ results = s.results /\ replies = s.replies
      /\ message = given \o s.open.data /\ first_fragment_opcode = s.open.opcode
      /\ (await_last_fragment <=> s.open.opcode # "none" /\ Compressed(input, header))
      /\ (await_last_fragment => has_extensions /\ length > 0)
  BY <1>2, <1>4, <1>5 DEF Agrees
<1>7. CASE input[h].rsv1 /\ ~has_extensions
  <2>1. pc' = "idle" /\ results' = Append(results, Err("Codec")) /\ Return(Err("Codec"))
    BY <1>1, <1>7 DEF Return
  <2>2. GaveUp'
    <3>1. "Codec" \in Whats
      BY DEF Whats
    <3> QED
      BY <2>1, <3>1, Fails
  <2>3. ~Live' /\ ~Within'
    BY <2>1, <2>2 DEF Live, Within, Between
  <2>4. s \in Partial /\ Meaning(lost)[h] = Step(s, h, lost) /\ h \in 0..Len(input)
    BY <1>1, <1>4, Meanings
  <2>5. PICK whole \in BOOLEAN : whole = (~(lost = 1) \/ h < Len(input))
    OBVIOUS
  <2>6. Meaning(lost)[h] = Interpret(s, input, h, whole)
    BY <1>6, <2>4, <2>5 DEF Step
  <2>7. Refused(h)
    BY <1>7 DEF Refused
  <2> HIDE DEF s, h
  <2>8. LET r == Interpret(s, input, h, whole) IN r.stop /\ r.results = Append(s.results, Err("Codec")) /\ r.replies = s.replies
    BY <1>1, <1>4, <1>6, <2>4, <2>7, Readings
  <2>9. Meaning(lost)[h].stop /\ replies' = Meaning(lost)[h].replies /\ results' = Meaning(lost)[h].results
    BY <1>2, <1>6, <2>1, <2>6, <2>8
  <2>10. Concluded'
    BY <1>2, <1>4, <2>4, <2>9, Concludes
  <2> QED
    BY <1>3, <1>5, <2>1, <2>3, <2>10 DEF Follows
<1>8. CASE ~(input[h].rsv1 /\ ~has_extensions)
  <2>1. /\ pc' = (IF is_control(input[h].opcode) THEN "control" ELSE "data") /\ results' = results
    BY <1>1, <1>8
  <2>2. ~GaveUp' /\ Within' /\ Live' /\ Done' = header
    BY <1>4, <1>5, <2>1 DEF GaveUp, Within, Live, Done
  <2>3. (input[header].rsv1 => has_extensions)' /\ (pc = "control" => is_control(input[header].opcode))'
    <3>1. (input[header])' = input[h]
      BY <1>3
    <3> QED
      BY <1>3, <1>8, <2>1, <3>1
  <2>4. (Meaning(lost)[Done])' = s
    BY <1>3, <2>2
  <2>5. Compressed(input, Done)' <=> Compressed(input, header)
    BY <1>3, <2>2 DEF Compressed
  <2> HIDE DEF s
  <2>6. Agrees(Meaning(lost)[Done])'
    BY <1>2, <1>3, <1>6, <2>1, <2>4, <2>5 DEF Agrees
  <2> QED
    BY <1>3, <1>5, <2>1, <2>2, <2>3, <2>6 DEF Follows
<1> QED
  BY <1>7, <1>8

\* Only the last frame ends where all tokens do.
LEMMA AtTheEnd ==
  ASSUME Inv, NEW lost \in {0, 1}, Sync(lost), pc = "loop", cur = Len(stream)
  PROVE  header = Len(input)
<1>1. Known /\ header \in 0..Len(input) /\ Ahead(End(header), lost)
  BY DEF Inv, Typed, Sync, Between
<1>2. /\ Len(input) \in Nat /\ End(Len(input)) = Len(T)
      /\ \A h \in 0..Len(input) : End(h) \in Nat /\ End(h) <= Len(T)
      /\ \A h \in 1..Len(input) : input[h] \in Frames /\ input[h].len \in Nat /\ End(h) = End(h - 1) + 1 + input[h].len
  BY <1>1, FrameEnds
<1>3. Len(T) \in Nat /\ Len(stream) \in Nat
  BY <1>1, TokensTyped DEF Inv, Typed
<1>4. SUFFICES ASSUME header # Len(input) PROVE FALSE
  OBVIOUS
<1>5. PICK k \in 1..Len(input) : k - 1 = header /\ k \in 0..Len(input)
  <2>1. header + 1 \in 1..Len(input) /\ (header + 1) - 1 = header /\ header + 1 \in 0..Len(input)
    BY <1>1, <1>2, <1>4
  <2> QED
    BY <2>1
<1>6. PICK a \in Nat, b \in Nat, t \in Nat, l \in Nat :
        a = End(header) /\ b = End(k) /\ t = Len(T) /\ l = input[k].len /\ b = a + 1 + l /\ b <= t
  BY <1>1, <1>2, <1>3, <1>5
<1>7. a + lost = t \/ a = t
  <2>1. PICK m \in Nat : m = Len(stream)
    BY <1>3
  <2>2. cur = m /\ a \in Nat /\ t \in Nat /\ lost \in Nat
    BY <2>1
  <2>3. End(header) = a /\ Len(T) = t
    BY <1>6
  <2>4. m + a + lost = m + t \/ a = t
    BY <1>1, <2>1, <2>2, <2>3 DEF Ahead
  <2> QED
    BY <2>2, <2>4
<1>8. lost = 1 /\ l = 0 /\ b = t
  BY <1>6, <1>7, SMTT(30)
<1>9. k = Len(input)
  <2> SUFFICES ASSUME k # Len(input) PROVE FALSE
    OBVIOUS
  <2>1. PICK m \in 1..Len(input) : m - 1 = k /\ m \in 0..Len(input)
    <3>1. k + 1 \in 1..Len(input) /\ (k + 1) - 1 = k /\ k + 1 \in 0..Len(input)
      BY <1>2
    <3> QED
      BY <3>1
  <2>2. PICK e \in Nat, j \in Nat : e = End(m) /\ j = input[m].len /\ e = b + 1 + j /\ e <= t
    BY <1>2, <1>6, <2>1
  <2> QED
    BY <1>6, <1>8, <2>2, SMTT(30)
<1>10. input[Len(input)].len > 0
  BY <1>8 DEF Sync
<1>11. input[Len(input)].len = 0
  BY <1>6, <1>8, <1>9
<1> QED
  BY <1>10, <1>11

\* The stream ends: between two frames, or within the last.
LEMMA EofFollows ==
  ASSUME Inv, NEW lost \in {0, 1}, Sync(lost), Follows(lost), Eof
  PROVE  Follows(lost)'
<1> DEFINE n == Len(input)
           e == Meaning(lost)[n]
<1>1. /\ UNCHANGED <<peer, is_closed, replies>>
      /\ pc' = "idle" /\ results' = Append(results, Err("Closed")) /\ Return(Err("Closed"))
  BY DEF Eof, Return
<1>2. expected' = expected /\ Expected(input, lost = 1)' = Expected(input, lost = 1)
  BY <1>1, SameMeaning
<1>3. "Closed" \in Whats
  BY DEF Whats
<1>4. GaveUp' /\ Err("Closed") \in Outcome
  BY <1>1, <1>3, Fails, ErrorTyped
<1>5. ~Live' /\ ~Within'
  BY <1>1, <1>4 DEF Live, Within, Between
<1>6. Known /\ n \in Nat /\ n \in 0..n /\ expected = Expected(input, lost = 1)
  BY FrameEnds DEF Inv, Typed, Follows
<1>7. ~e.stop /\ results = e.results /\ replies = e.replies
  <2>1. CASE StillOpen /\ cur = Len(stream)
    <3>1. header = n /\ Live /\ Done = n
      BY <2>1, AtTheEnd DEF StillOpen, Live, Between, Done, Within
    <3>2. Agrees(e)
      BY <3>1 DEF Follows
    <3> QED
      BY <3>2 DEF Agrees
  <2>2. CASE pc \in {"control", "data"} /\ cur + input[header].len > Len(stream)
             /\ (pc = "data" => length + input[header].len <= max_message_size)
    <3> DEFINE s == Meaning(lost)[header - 1]
               f == input[header]
    <3>1. Within
      BY <2>2 DEF Within
    <3>2. /\ s \in Partial /\ ~s.stop /\ results = s.results /\ replies = s.replies
          /\ ~Refused(header) /\ f \in Frames /\ header \in 1..n
          /\ Len(Gathered(s, header)) = length + f.len
          /\ Meaning(lost)[header] = Interpret(s, input, header, cur + f.len <= Len(stream))
          /\ (cur + f.len <= Len(stream)) \in BOOLEAN
      BY <3>1, Situation
    <3>3. f.len \in Nat /\ (cur + f.len <= Len(stream) <=> (lost = 0 \/ header < n))
      BY <3>1, Places
    <3>4. cur \in Nat /\ Len(stream) \in Nat
      BY DEF Inv, Typed
    <3>4a. ~(cur + f.len <= Len(stream))
      BY <2>2, <3>3, <3>4
    <3>5. header = n
      <4>1. header \in 1..n /\ ~(header < n)
        BY <3>2, <3>3, <3>4a
      <4> HIDE DEF n
      <4> QED
        BY <1>6, <4>1
    <3>6. Accepted(s, header)
      <4>1. CASE pc = "control"
        BY <3>1, <3>2, <4>1 DEF Follows, Accepted, Exceeds
      <4>2. CASE pc = "data"
        <5>1. Len(Gathered(s, header)) <= max_message_size
          BY <2>2, <3>2, <4>2
        <5>2. max_message_size \in Nat /\ Len(Gathered(s, header)) \in Nat
          BY <1>6, <3>1, Setup, Situation
        <5>3. ~(Len(Gathered(s, header)) > max_message_size)
          BY <5>1, <5>2
        <5> QED
          BY <3>2, <5>3 DEF Accepted, Exceeds
      <4> QED
        BY <2>2, <4>1, <4>2
    <3> HIDE DEF s
    <3>7. Meaning(lost)[header] = Interpret(s, input, header, FALSE)
      BY <3>2, <3>4a
    <3>8. Interpret(s, input, header, FALSE) = s
      BY <1>6, <3>2, <3>6, Readings
    <3>9. e = s
      BY <3>5, <3>7, <3>8
    <3> QED
      BY <3>2, <3>9
  <2> QED
    BY <2>1, <2>2 DEF Eof
<1>8. expected = Tell(e, Err("Closed")) /\ e \in Partial
  BY <1>6, <1>7, Conclusion
<1> HIDE DEF e
<1>9. expected.results = Append(e.results, Err("Closed")) /\ expected.replies = e.replies /\ expected \in Partial
  BY <1>4, <1>8, TellFields
<1>10. expected.results \in Seq(Outcome) /\ expected.results = results' /\ expected.replies = replies'
  BY <1>1, <1>7, <1>9, PartialFields
<1>11. Extends(expected.results, results')
  BY <1>10, ExtendsSelf
<1>12. Concluded'
  BY <1>2, <1>10, <1>11 DEF Concluded
<1> QED
  BY <1>1, <1>2, <1>5, <1>6, <1>12 DEF Follows

\* A frame has been dealt with and more is to come.
LEMMA GoesOn ==
  ASSUME NEW lost \in {0, 1}, Follows(lost), UNCHANGED <<peer, header>>,
         pc' \in {"idle", "loop"}, ~is_closed', ~GaveUp',
         NEW s, s = Meaning(lost)[header], ~s.stop, results' = s.results, replies' = s.replies,
         pc' = "idle" => s.open = NoMessage,
         pc' = "loop" => message' = given' \o s.open.data /\ first_fragment_opcode' = s.open.opcode,
         await_last_fragment' <=> s.open.opcode # "none" /\ Compressed(input, header),
         await_last_fragment' => has_extensions /\ length' > 0
  PROVE  Follows(lost)'
<1>1. /\ input' = input /\ expected' = expected /\ has_extensions' = has_extensions /\ header' = header
      /\ Meaning(lost)' = Meaning(lost) /\ Expected(input, lost = 1)' = Expected(input, lost = 1)
      /\ \A i : Compressed(input, i)' = Compressed(input, i)
  BY SameMeaning
<1>2. ~Within' /\ Live' /\ Done' = header
  BY <1>1 DEF Within, Live, Between, Done
<1>3. (expected = Expected(input, lost = 1))'
  BY <1>1 DEF Follows
<1>4. (Meaning(lost)[Done])' = s
  BY <1>1, <1>2
<1>5. Compressed(input, Done)' <=> Compressed(input, header)
  BY <1>1, <1>2 DEF Compressed
<1>6. Agrees(Meaning(lost)[Done])'
  BY <1>1, <1>4, <1>5 DEF Agrees
<1> QED
  BY <1>2, <1>3, <1>6 DEF Follows

\* A frame has been dealt with and is the last.
LEMMA ComesToAnEnd ==
  ASSUME Known, NEW lost \in {0, 1}, Follows(lost), UNCHANGED peer, header \in 0..Len(input),
         pc' = "idle", GaveUp' \/ is_closed',
         Meaning(lost)[header].stop, replies' = Meaning(lost)[header].replies, results' = Meaning(lost)[header].results
  PROVE  Follows(lost)'
<1>1. expected' = expected /\ Expected(input, lost = 1)' = Expected(input, lost = 1)
  BY SameMeaning
<1>2. ~Within' /\ ~Live'
  BY DEF Within, Live, Between
<1>3. (expected = Expected(input, lost = 1))'
  BY <1>1 DEF Follows
<1>4. Concluded'
  BY Concludes
<1> QED
  BY <1>2, <1>3, <1>4 DEF Follows

\* The whole of a frame is there.
LEMMA WholeFrame ==
  ASSUME Inv, NEW lost \in {0, 1}, Sync(lost), Follows(lost), Within, cur + input[header].len <= Len(stream)
  PROVE  Meaning(lost)[header] = Interpret(Meaning(lost)[header - 1], input, header, TRUE)
<1>1. Meaning(lost)[header] = Interpret(Meaning(lost)[header - 1], input, header, cur + input[header].len <= Len(stream))
  BY Situation
<1>2. (cur + input[header].len <= Len(stream)) = TRUE
  OBVIOUS
<1> QED
  BY <1>1, <1>2

\* Control frames leave a message as it is.
LEMMA PongFollows ==
  ASSUME Inv, NEW lost \in {0, 1}, Sync(lost), Follows(lost), OnPong, Readable(input, setup)
  PROVE  Follows(lost)'
<1> DEFINE s == Meaning(lost)[header - 1]
           r == Meaning(lost)[header]
           mine == Payload(header, input[header])
<1>1. /\ UNCHANGED <<peer, local, header, message, is_closed, await_last_fragment, replies>>
      /\ pc = "control" /\ cur + input[header].len <= Len(stream) /\ cur' = cur + input[header].len
      /\ input[header].opcode = "Pong" /\ Return(Result("Pong", "Pong", CtrlBuffer))
  BY DEF OnPong, ReadBuffer, TakeTokens
<1>2. Within /\ Known
  BY <1>1 DEF Within, Inv, Typed
<1>3. /\ s \in Partial /\ ~s.stop /\ results = s.results /\ replies = s.replies /\ ~is_closed /\ ~Refused(header)
      /\ (await_last_fragment <=> s.open.opcode # "none" /\ Compressed(input, header - 1))
      /\ (await_last_fragment => has_extensions /\ length > 0)
      /\ header \in 1..Len(input) /\ input[header] \in Frames /\ Opened(s.open, header - 1)
  BY <1>2, Situation
<1>4. r = Interpret(s, input, header, TRUE)
  BY <1>1, <1>2, WholeFrame
<1>5. Accepted(s, header)
  BY <1>1, <1>3 DEF Accepted, Exceeds, is_control
<1>6. CtrlBuffer = mine
  BY <1>1, <1>2, PayloadIs DEF CtrlBuffer
<1>7. s.open = NoMessage
  <2>1. ~OpenAfter(input, header - 1)
    BY <1>1, <1>3 DEF Readable
  <2> QED
    BY <1>3, <2>1 DEF Opened
<1> HIDE DEF s, mine
<1>8. ~r.stop /\ r.results = Append(s.results, Result("Pong", "Pong", mine)) /\ r.replies = s.replies /\ r.open = s.open
  BY <1>1, <1>2, <1>3, <1>4, <1>5, Readings DEF mine
<1>9. results' = r.results /\ replies' = r.replies /\ r.open = NoMessage /\ pc' = "idle"
  BY <1>1, <1>3, <1>6, <1>7, <1>8 DEF Return
<1>10. ~GaveUp'
  <2>1. header \in Nat
    BY <1>3
  <2>2. mine \in Seq(Token)
    BY <1>3, <2>1, PayloadTyped DEF mine
  <2>3. "Pong" \in Kinds /\ "Pong" \in Whats
    BY DEF Kinds, Whats
  <2>4. Result("Pong", "Pong", mine) \in Outcome /\ Result("Pong", "Pong", mine).kind = "Pong"
    BY <2>2, <2>3, Outcomes
  <2>5. results \in Seq(Outcome) /\ results' = Append(results, Result("Pong", "Pong", mine))
    BY <1>1, <1>6 DEF Sync, Return
  <2> HIDE DEF r
  <2> QED
    BY <2>4, <2>5, LastResult
<1>11. ~await_last_fragment'
  BY <1>1, <1>3, <1>7, NoMessageOpens
<1> HIDE DEF r
<1>12. r.open.opcode = "none"
  BY <1>9, NoMessageOpens
<1> QED
  BY <1>1, <1>3, <1>8, <1>9, <1>10, <1>11, <1>12, GoesOn DEF r

\* A PING is answered.
LEMMA PingFollows ==
  ASSUME Inv, NEW lost \in {0, 1}, Sync(lost), Follows(lost), OnPing
  PROVE  Follows(lost)'
<1> DEFINE s == Meaning(lost)[header - 1]
           r == Meaning(lost)[header]
           mine == Payload(header, input[header])
<1>1. /\ UNCHANGED <<peer, local, header, message, is_closed, await_last_fragment, results>>
      /\ pc = "control" /\ cur + input[header].len <= Len(stream) /\ cur' = cur + input[header].len
      /\ input[header].opcode = "Ping" /\ replies' = Append(replies, Reply("Pong", "none", CtrlBuffer)) /\ pc' = "loop"
  BY DEF OnPing, ReadBuffer, TakeTokens
<1>2. Within /\ Known /\ ~GaveUp
  BY <1>1 DEF Within, Inv, Typed, Follows
<1>3. /\ s \in Partial /\ ~s.stop /\ results = s.results /\ replies = s.replies /\ ~is_closed /\ ~Refused(header)
      /\ message = given \o s.open.data /\ first_fragment_opcode = s.open.opcode
      /\ (await_last_fragment <=> s.open.opcode # "none" /\ Compressed(input, header - 1))
      /\ (await_last_fragment => has_extensions /\ length > 0)
      /\ header \in 1..Len(input)
  BY <1>2, Situation
<1>4. r = Interpret(s, input, header, TRUE)
  BY <1>1, <1>2, WholeFrame
<1>5. Accepted(s, header)
  BY <1>1, <1>3 DEF Accepted, Exceeds, is_control
<1>6. CtrlBuffer = mine
  BY <1>1, <1>2, PayloadIs DEF CtrlBuffer
<1> HIDE DEF s, mine
<1>7. ~r.stop /\ r.results = s.results /\ r.replies = Append(s.replies, Reply("Pong", "none", mine)) /\ r.open = s.open
  BY <1>1, <1>2, <1>3, <1>4, <1>5, Readings, ZenonT(30) DEF mine
<1>8. Compressed(input, header) <=> Compressed(input, header - 1)
  BY <1>1, <1>2, <1>3, CompressedStep
<1>9. results' = r.results /\ replies' = r.replies /\ ~GaveUp' /\ given' = given /\ length' = length
  BY <1>1, <1>2, <1>3, <1>6, <1>7 DEF GaveUp, local
<1>10. message' = given' \o r.open.data /\ first_fragment_opcode' = r.open.opcode
  BY <1>1, <1>3, <1>7, <1>9 DEF local
<1>11. await_last_fragment' <=> r.open.opcode # "none" /\ Compressed(input, header)
  BY <1>1, <1>3, <1>7, <1>8
<1>12. await_last_fragment' => has_extensions /\ length' > 0
  BY <1>1, <1>3, <1>9
<1> HIDE DEF r
<1> QED
  BY <1>1, <1>3, <1>7, <1>9, <1>10, <1>11, <1>12, GoesOn DEF r

\* The CLOSE is answered unless its reason is not UTF-8.
LEMMA CloseFollows ==
  ASSUME Inv, NEW lost \in {0, 1}, Sync(lost), Follows(lost), OnCloseUtf8 \/ OnClose
  PROVE  Follows(lost)'
<1> DEFINE s == Meaning(lost)[header - 1]
           r == Meaning(lost)[header]
           f == input[header]
<1>1. /\ UNCHANGED <<peer, header>> /\ pc = "control" /\ cur + f.len <= Len(stream) /\ f.opcode = "Close"
  BY DEF OnCloseUtf8, OnClose, ReadBuffer
<1>2. Within /\ Known /\ ~GaveUp
  BY <1>1 DEF Within, Inv, Typed, Follows
<1>3. /\ s \in Partial /\ ~s.stop /\ results = s.results /\ replies = s.replies /\ ~Refused(header)
      /\ header \in 1..Len(input) /\ header \in 0..Len(input) /\ f \in Frames
  BY <1>2, Situation
<1>4. r = Interpret(s, input, header, TRUE)
  BY <1>1, <1>2, WholeFrame
<1>5. Accepted(s, header)
  BY <1>1, <1>3 DEF Accepted, Exceeds, is_control
<1> HIDE DEF s
<1>6. r.stop /\ r.results = Append(s.results, CloseResult(f)) /\ r.replies = s.replies \o CloseReplies(f)
  BY <1>1, <1>2, <1>3, <1>4, <1>5, Readings
<1>7. s.replies \in Seq(Answer) /\ Reply("Close", f.body, <<>>) \in Answer /\ f.body \in {"good", "corrupt", "short", "utf8", "code"}
  BY <1>3, PartialFields, CloseTyped DEF Frames
<1>8. CASE OnCloseUtf8
  <2>1. f.body = "utf8" /\ Return(Err("Utf8")) /\ replies' = replies
    BY <1>8 DEF OnCloseUtf8
  <2>2. CloseReplies(f) = <<>> /\ CloseResult(f) = Err("Utf8")
    BY <2>1 DEF CloseReplies, CloseResult
  <2>3. s.replies \o <<>> = s.replies
    BY <1>7, ConcatEmptySeq
  <2>4. replies' = r.replies /\ results' = r.results
    BY <1>3, <1>6, <2>1, <2>2, <2>3 DEF Return
  <2>5. "Utf8" \in Whats /\ "Utf8" # "MessageTooLarge"
    BY DEF Whats
  <2>6. pc' = "idle" /\ GaveUp'
    BY <2>1, <2>5, Fails
  <2> QED
    BY <1>1, <1>2, <1>3, <1>6, <2>4, <2>6, ComesToAnEnd
<1>9. CASE OnClose
  <2>1. /\ f.body # "utf8" /\ replies' = Append(replies, Reply("Close", f.body, <<>>)) /\ is_closed'
        /\ IF f.body = "short" THEN pc' = "loop" /\ results' = results
           ELSE Return(Result("Closed", f.body, <<>>))
    BY <1>9 DEF OnClose, Acknowledge
  <2>2. replies' = r.replies
    <3>1. CloseReplies(f) = <<Reply("Close", f.body, <<>>)>>
      BY <2>1 DEF CloseReplies
    <3>2. PICK a \in Answer : a = Reply("Close", f.body, <<>>)
      BY <1>7
    <3>3. s.replies \o <<a>> = Append(s.replies, a)
      BY <1>7, AppendIsConcat
    <3> QED
      BY <1>3, <1>6, <2>1, <3>1, <3>2, <3>3
  <2>3. CASE f.body # "short"
    <3>1. CloseResult(f) = Result("Closed", f.body, <<>>)
      BY <2>1, <2>3 DEF CloseResult
    <3>2. results' = r.results /\ pc' = "idle"
      BY <1>3, <1>6, <2>1, <2>3, <3>1 DEF Return
    <3> QED
      BY <1>1, <1>2, <1>3, <1>6, <2>1, <2>2, <3>2, ComesToAnEnd
  <2>4. CASE f.body = "short"
    <3>1. CloseResult(f) = Err("Closed")
      BY <2>4 DEF CloseResult
    <3>2. r.results = Append(results', Err("Closed")) /\ pc' = "loop" /\ results' = results
      BY <1>3, <1>6, <2>1, <2>4, <3>1
    <3>3. expected = Expected(input, lost = 1)
      BY DEF Follows
    <3>4. expected = r
      BY <1>2, <1>3, <1>6, <3>3, Conclusion
    <3>5. expected' = expected /\ Expected(input, lost = 1)' = Expected(input, lost = 1)
      BY <1>1, SameMeaning
    <3>6. Concluded'
      BY <2>1, <2>2, <3>2, <3>4, <3>5 DEF Concluded
    <3>7. ~Within' /\ ~Live' /\ ~GaveUp'
      BY <1>2, <2>1, <3>2 DEF Within, Live, Between, GaveUp
    <3> QED
      BY <3>3, <3>5, <3>6, <3>7 DEF Follows
  <2> QED
    BY <2>3, <2>4
<1> QED
  BY <1>8, <1>9

\* A message that is too large is discarded, and told so.
LEMMA DiscardFollows ==
  ASSUME Inv, NEW lost \in {0, 1}, Sync(lost), Follows(lost), TooLarge, Readable(input, setup)
  PROVE  Follows(lost)'
<1> DEFINE s == Meaning(lost)[header - 1]
           r == Meaning(lost)[header]
           f == input[header]
<1>1. /\ UNCHANGED <<peer, header, is_closed, await_last_fragment, replies>>
      /\ pc = "data" /\ length + f.len > max_message_size /\ Return(Err("MessageTooLarge"))
  BY DEF TooLarge
<1>2. Within /\ Known /\ ~is_control(f.opcode)
  BY <1>1 DEF Within, Inv, Typed, AtFrame
<1>3. length = 0
  BY DiscardInStep DEF Readable
<1>4. /\ s \in Partial /\ ~s.stop /\ results = s.results /\ replies = s.replies /\ ~is_closed /\ ~Refused(header)
      /\ (await_last_fragment => has_extensions /\ length > 0)
      /\ header \in 1..Len(input) /\ Len(Gathered(s, header)) = length + f.len
      /\ r = Interpret(s, input, header, cur + f.len <= Len(stream))
      /\ (cur + f.len <= Len(stream)) \in BOOLEAN
  BY <1>2, Situation
<1>5. ~Refused(header) /\ Exceeds(s, header)
  BY <1>1, <1>2, <1>4 DEF Exceeds
<1>6. PICK whole \in BOOLEAN : r = Interpret(s, input, header, whole)
  BY <1>4
<1> HIDE DEF s
<1>7. ~r.stop /\ r.results = Append(s.results, Err("MessageTooLarge")) /\ r.replies = s.replies /\ r.open = NoMessage
  <2>1. s \in Partial /\ ~s.stop /\ header \in 1..Len(input)
    BY <1>4
  <2>2. LET q == Interpret(s, input, header, whole) IN
        ~q.stop /\ q.results = Append(s.results, Err("MessageTooLarge")) /\ q.replies = s.replies /\ q.open = NoMessage
    BY <1>2, <1>5, <2>1, Readings
  <2> HIDE DEF r
  <2> QED
    BY <1>6, <2>2
<1>8. "MessageTooLarge" \in Whats
  BY DEF Whats
<1>9. pc' = "idle" /\ ~GaveUp'
  BY <1>1, <1>8, Fails
<1>10. results' = r.results /\ replies' = r.replies
  BY <1>1, <1>4, <1>7 DEF Return
<1>11. ~await_last_fragment'
  BY <1>1, <1>3, <1>4
<1>12. ~is_closed'
  BY <1>1, <1>4
<1> HIDE DEF r
<1>13. r.open.opcode = "none"
  BY <1>7, NoMessageOpens
<1> QED
  BY <1>1, <1>7, <1>9, <1>10, <1>11, <1>12, <1>13, GoesOn DEF r

\* A data frame of which the whole payload is read.
LEMMA DataSituation ==
  ASSUME Inv, NEW lost \in {0, 1}, Sync(lost), Follows(lost), Fragment(input[header])
  PROVE  LET s == Meaning(lost)[header - 1]
             f == input[header]
             g == Gathered(s, header)
         IN  /\ Within /\ Known /\ ~is_control(f.opcode) /\ f.opcode \in {"Continue", "Text", "Binary"} /\ f.len \in Nat
             /\ Meaning(lost)[header] = Interpret(s, input, header, TRUE) /\ Accepted(s, header)
             /\ Unexpected(f) <=> OutOfTurn(s, header)
             /\ given \in Seq(Token) /\ g \in Seq(Token) /\ Extended(f) = given \o g
             /\ length \in Nat /\ length' = length + f.len /\ Len(g) = length'
<1> DEFINE s == Meaning(lost)[header - 1]
           f == input[header]
           w == Payload(header, f)
<1>1. /\ pc = "data" /\ length + f.len <= max_message_size /\ length' = length + f.len /\ cur + f.len <= Len(stream)
  BY DEF Fragment, ReadPayload
<1>2. Within /\ Known /\ ~is_control(f.opcode) /\ given \in Seq(Token) /\ length \in Nat
  BY <1>1 DEF Within, Inv, Typed, AtFrame
<1>3. /\ s \in Partial /\ ~Refused(header) /\ f \in Frames /\ header \in 1..Len(input)
      /\ message = given \o s.open.data /\ first_fragment_opcode = s.open.opcode
      /\ Len(Gathered(s, header)) = length + f.len /\ Gathered(s, header) \in Seq(Token)
  BY <1>2, Situation
<1>4. Meaning(lost)[header] = Interpret(s, input, header, TRUE)
  BY <1>1, <1>2, WholeFrame
<1>5. f.opcode \in {"Continue", "Text", "Binary"} /\ f.len \in Nat /\ header \in Nat
  BY <1>2, <1>3 DEF Frames, is_control
<1>6. Accepted(s, header)
  <2>1. max_message_size \in Nat
    BY <1>2, Setup
  <2>2. ~(length + f.len > max_message_size)
    BY <1>1, <1>2, <1>5, <2>1
  <2> QED
    BY <1>3, <2>2 DEF Accepted, Exceeds
<1>7. Unexpected(f) <=> OutOfTurn(s, header)
  BY <1>3 DEF Unexpected, OutOfTurn
<1>8. SubSeq(stream, cur + 1, cur + f.len) = w /\ w \in Seq(Token)
  <2>1. SubSeq(stream, cur + 1, cur + f.len) = w
    BY <1>1, <1>2, PayloadIs
  <2>2. w \in Seq(Token)
    BY <1>3, <1>5, PayloadTyped
  <2> QED
    BY <2>1, <2>2
<1>9. s.open.data \in Seq(Token)
  BY <1>3, PartialFields
<1>10. Extended(f) = (given \o s.open.data) \o w /\ Gathered(s, header) = s.open.data \o w
  BY <1>3, <1>8 DEF Extended, Gathered
<1> HIDE DEF s, w
<1>11. (given \o s.open.data) \o w = given \o (s.open.data \o w)
  <2>1. PICK x \in Seq(Token), y \in Seq(Token), z \in Seq(Token) : x = given /\ y = s.open.data /\ z = w
    BY <1>2, <1>8, <1>9
  <2>2. (x \o y) \o z = x \o (y \o z)
    OBVIOUS
  <2> QED
    BY <2>1, <2>2
<1> QED
  BY <1>1, <1>2, <1>3, <1>4, <1>5, <1>6, <1>7, <1>10, <1>11 DEF s

\* A frame whose opcode is not allowed.
LEMMA UnexpectedFollows ==
  ASSUME Inv, NEW lost \in {0, 1}, Sync(lost), Follows(lost), OnUnexpected
  PROVE  Follows(lost)'
<1> DEFINE s == Meaning(lost)[header - 1]
           r == Meaning(lost)[header]
           f == input[header]
<1>1. UNCHANGED <<peer, replies>> /\ Fragment(f) /\ Unexpected(f) /\ Return(Err("UnexpectedOpCode"))
  BY DEF OnUnexpected
<1>2. Within /\ Known /\ ~is_control(f.opcode) /\ r = Interpret(s, input, header, TRUE) /\ Accepted(s, header) /\ OutOfTurn(s, header)
  BY <1>1, DataSituation
<1>3. s \in Partial /\ ~s.stop /\ results = s.results /\ replies = s.replies /\ header \in 1..Len(input) /\ header \in 0..Len(input)
  BY <1>2, Situation
<1> HIDE DEF s
<1>4. r.stop /\ r.results = Append(s.results, Err("UnexpectedOpCode")) /\ r.replies = s.replies
  BY <1>2, <1>3, Readings, ZenonT(30)
<1>5. replies' = r.replies /\ results' = r.results
  BY <1>1, <1>3, <1>4 DEF Return
<1>6. "UnexpectedOpCode" \in Whats
  BY DEF Whats
<1>7. pc' = "idle" /\ GaveUp'
  BY <1>1, <1>6, Fails
<1> QED
  BY <1>1, <1>2, <1>3, <1>4, <1>5, <1>7, ComesToAnEnd

\* A fragment that is not the last.
LEMMA FragmentFollows ==
  ASSUME Inv, NEW lost \in {0, 1}, Sync(lost), Follows(lost), OnFragment, Readable(input, setup)
  PROVE  Follows(lost)'
<1> DEFINE s == Meaning(lost)[header - 1]
           r == Meaning(lost)[header]
           f == input[header]
           g == Gathered(s, header)
<1>1. /\ UNCHANGED <<peer, header, given, is_closed, results, replies>>
      /\ Fragment(f) /\ ~Unexpected(f) /\ ~f.fin /\ pc' = "loop" /\ message' = Extended(f)
      /\ first_fragment_opcode' = IF f.opcode = "Continue" THEN first_fragment_opcode ELSE f.opcode
      /\ await_last_fragment' = (await_last_fragment \/ StartsCompressed(f, message'))
  BY DEF OnFragment
<1>2. /\ Within /\ Known /\ ~is_control(f.opcode) /\ f.opcode \in {"Continue", "Text", "Binary"} /\ f.len \in Nat
      /\ r = Interpret(s, input, header, TRUE) /\ Accepted(s, header) /\ ~OutOfTurn(s, header)
      /\ given \in Seq(Token) /\ g \in Seq(Token) /\ message' = given \o g
      /\ length \in Nat /\ length' = length + f.len /\ Len(g) = length'
  BY <1>1, DataSituation
<1>3. /\ s \in Partial /\ ~s.stop /\ results = s.results /\ replies = s.replies /\ ~is_closed /\ ~Refused(header)
      /\ first_fragment_opcode = s.open.opcode
      /\ (await_last_fragment <=> s.open.opcode # "none" /\ Compressed(input, header - 1))
      /\ (await_last_fragment => has_extensions /\ length > 0)
      /\ header \in 1..Len(input)
  BY <1>2, Situation
<1>4. ~GaveUp'
  BY <1>1, <1>2 DEF Within, Follows, GaveUp
<1>5. InTurn(s, header)
  BY <1>2 DEF InTurn
<1>6. f.rsv1 /\ f.opcode \in {"Text", "Binary"} => f.len > 0
  BY <1>1, <1>3 DEF Readable
<1> HIDE DEF s, g
<1>7. /\ ~r.stop /\ r.results = s.results /\ r.replies = s.replies
      /\ r.open = [opcode |-> KindOf(s, header), data |-> g]
  BY <1>1, <1>2, <1>3, <1>5, Readings DEF g
<1>8. r.open.opcode = KindOf(s, header) /\ r.open.data = g
  BY <1>7
<1> HIDE DEF r
<1>9. KindOf(s, header) # "none" /\ first_fragment_opcode' = KindOf(s, header)
  BY <1>1, <1>2, <1>3 DEF KindOf, OutOfTurn
<1>10. (await_last_fragment' <=> Compressed(input, header)) /\ (await_last_fragment' => has_extensions /\ length' > 0)
  <2>1. CASE f.opcode = "Continue"
    <3>1. Compressed(input, header) <=> Compressed(input, header - 1)
      BY <1>2, <1>3, <2>1, CompressedStep
    <3>2. s.open.opcode # "none"
      BY <1>2, <2>1 DEF OutOfTurn
    <3>3. await_last_fragment' = await_last_fragment
      BY <1>1, <2>1 DEF StartsCompressed, Inv, Typed
    <3>4. length > 0 => length' > 0
      BY <1>2
    <3> QED
      BY <1>3, <3>1, <3>2, <3>3, <3>4
  <2>2. CASE f.opcode # "Continue"
    <3>1. Compressed(input, header) <=> f.rsv1
      BY <1>2, <1>3, <2>2, CompressedStep
    <3>2. ~await_last_fragment
      BY <1>2, <1>3, <2>2 DEF OutOfTurn
    <3>3. f.rsv1 => has_extensions /\ f.len > 0
      BY <1>2, <1>3, <1>6, <2>2 DEF Refused
    <3>4. f.rsv1 => length' > 0
      BY <1>2, <3>3
    <3>5. f.rsv1 => message' # <<>>
      <4>1. Len(given \o g) = Len(given) + Len(g)
        BY <1>2, Concat
      <4>2. Len(given) \in Nat /\ Len(g) \in Nat
        BY <1>2
      <4>3. f.rsv1 => Len(given \o g) > 0
        BY <1>2, <3>4, <4>1, <4>2
      <4>4. Len(<<>>) = 0
        OBVIOUS
      <4> QED
        BY <1>2, <4>3, <4>4
    <3>6. await_last_fragment' = StartsCompressed(f, message')
      BY <1>1, <3>2 DEF StartsCompressed
    <3>7. StartsCompressed(f, message') <=> f.rsv1
      BY <1>1, <1>2, <2>2, <3>3, <3>5 DEF StartsCompressed
    <3> QED
      BY <3>1, <3>3, <3>4, <3>6, <3>7
  <2> QED
    BY <2>1, <2>2
<1>11. /\ ~is_closed' /\ results' = r.results /\ replies' = r.replies
       /\ message' = given' \o r.open.data /\ first_fragment_opcode' = r.open.opcode
       /\ (await_last_fragment' <=> r.open.opcode # "none" /\ Compressed(input, header))
  BY <1>1, <1>2, <1>3, <1>7, <1>8, <1>9, <1>10
<1> QED
  BY <1>1, <1>4, <1>7, <1>10, <1>11, GoesOn DEF r

\* Without what was in front of it.
LEMMA SkipFront ==
  ASSUME NEW x \in Seq(Token), NEW y \in Seq(Token)
  PROVE  Skip(x \o y, Len(x)) = y
<1> DEFINE z == x \o y
           k == Skip(z, Len(x))
<1>1. z \in Seq(Token) /\ Len(z) = Len(x) + Len(y) /\ \A i \in 1..Len(y) : z[Len(x) + i] = y[i]
  BY Concat
<1>2. Len(x) \in Nat /\ Len(y) \in Nat
  OBVIOUS
<1> HIDE DEF z
<1>3. /\ k \in Seq(Token) /\ Len(k) = IF Len(x) <= Len(z) THEN Len(z) - Len(x) ELSE 0
      /\ \A p \in 1..Len(k) : k[p] = z[p + Len(x)]
  BY <1>1, <1>2, Skipping
<1> HIDE DEF k
<1>4. Len(k) = Len(y)
  BY <1>1, <1>2, <1>3
<1>5. ASSUME NEW p \in 1..Len(k) PROVE k[p] = y[p]
  <2>1. p \in 1..Len(y) /\ p + Len(x) = Len(x) + p
    BY <1>2, <1>4
  <2> QED
    BY <1>1, <1>3, <2>1
<1>6. k = y
  BY <1>3, <1>4, <1>5, SeqEqual
<1> QED
  BY <1>6 DEF k, z

\* Nothing is inflated to nothing, and can be.
LEMMA InflateNothing == Inflate(<<>>) = <<>> /\ ~Undecodable(input, <<>>)
<1>1. Len(<<>>) = 0 /\ 2 * 0 = 0 /\ 1..0 = {}
  OBVIOUS
<1>2. ~Undecodable(input, <<>>)
  BY <1>1 DEF Undecodable
<1>3. Inflate(<<>>) \in Seq(Token)
  <2>1. <<>> \in Seq(Token)
    OBVIOUS
  <2>2. \A none \in Seq(Token) : Inflate(none) \in Seq(Token)
    BY Inflated
  <2> QED
    BY <2>1, <2>2, Zenon
<1>4. DOMAIN Inflate(<<>>) = {}
  <2>1. DOMAIN Inflate(<<>>) = 1..2 * Len(<<>>)
    BY Zenon DEF Inflate
  <2>2. 2 * Len(<<>>) = 0
    BY <1>1
  <2> QED
    BY <1>1, <2>1, <2>2
<1>5. PICK e \in Seq(Token) : e = Inflate(<<>>)
  BY <1>3
<1>6. Len(e) \in Nat /\ 1..Len(e) = {}
  BY <1>4, <1>5
<1>7. Len(e) = 0
  <2>1. 1 \notin 1..Len(e)
    BY <1>6
  <2> QED
    BY <1>6, <2>1
<1>8. e = <<>>
  BY <1>7
<1> QED
  BY <1>2, <1>5, <1>8

\* The last fragment of a message: decode inflates it if the message is compressed and
\* not empty, and no longer waits for it.
LEMMA LastFragment ==
  ASSUME Inv, Kept, NEW lost \in {0, 1}, Sync(lost), Follows(lost), Complete(input[header]), Readable(input, setup)
  PROVE  LET s == Meaning(lost)[header - 1]
             f == input[header]
             g == Gathered(s, header)
         IN  /\ InTurn(s, header) /\ f.fin
             /\ Inflates(f, Extended(f)) <=> Compressed(input, header) /\ Extended(f) # <<>>
             /\ Inflates(f, Extended(f)) => Extended(f) = g /\ given = <<>>
             /\ Extended(f) = <<>> => g = <<>>
             /\ ~await_last_fragment'
<1> DEFINE s == Meaning(lost)[header - 1]
           f == input[header]
           g == Gathered(s, header)
           d == Extended(f)
<1>1. /\ Fragment(f) /\ ~Unexpected(f) /\ f.fin
      /\ await_last_fragment' = (await_last_fragment /\ ~(f.opcode = "Continue" /\ Inflates(f, d)))
  BY DEF Complete
<1>2. /\ Within /\ Known /\ ~is_control(f.opcode) /\ f.opcode \in {"Continue", "Text", "Binary"} /\ f.len \in Nat
      /\ Accepted(s, header) /\ ~OutOfTurn(s, header)
      /\ given \in Seq(Token) /\ g \in Seq(Token) /\ d = given \o g
      /\ length \in Nat /\ length' = length + f.len /\ Len(g) = length'
  BY <1>1, DataSituation
<1>3. /\ ~Refused(header) /\ header \in 1..Len(input)
      /\ (await_last_fragment <=> s.open.opcode # "none" /\ Compressed(input, header - 1))
      /\ (await_last_fragment => has_extensions /\ length > 0)
  BY <1>2, Situation
<1>4. InTurn(s, header)
  BY <1>2 DEF InTurn
<1> HIDE DEF s, g, d
<1>5. Compressed(input, header) <=> IF f.opcode = "Continue" THEN await_last_fragment ELSE f.rsv1
  <2>1. CASE f.opcode = "Continue"
    <3>1. Compressed(input, header) <=> Compressed(input, header - 1)
      BY <1>2, <1>3, <2>1, CompressedStep
    <3>2. s.open.opcode # "none"
      BY <1>2, <2>1 DEF OutOfTurn
    <3> QED
      BY <1>3, <2>1, <3>1, <3>2
  <2>2. CASE f.opcode # "Continue"
    <3>1. Compressed(input, header) <=> f.rsv1
      BY <1>2, <1>3, <2>2, CompressedStep
    <3> QED
      BY <2>2, <3>1
  <2> QED
    BY <2>1, <2>2
<1>6. Compressed(input, header) => has_extensions
  BY <1>3, <1>5 DEF Refused
<1>7. Inflates(f, d) <=> Compressed(input, header) /\ d # <<>>
  BY <1>1, <1>5, <1>6 DEF Inflates
<1>8. Len(d) = Len(given) + Len(g) /\ Len(given) \in Nat /\ Len(g) \in Nat
  <2>1. Len(given \o g) = Len(given) + Len(g)
    BY <1>2, Concat
  <2> QED
    BY <1>2, <2>1
<1>9. Inflates(f, d) => d = g /\ given = <<>>
  <2> SUFFICES ASSUME Inflates(f, d) PROVE d = g /\ given = <<>>
    OBVIOUS
  <2>1. setup.ClearsMessage
    BY DEF Inflates, Readable, Cleared, has_extensions
  <2>2. given = <<>>
    BY <2>1 DEF Kept
  <2>3. <<>> \o g = g
    BY <1>2, ConcatEmptySeq
  <2> QED
    BY <1>2, <2>2, <2>3
<1>10. d = <<>> => g = <<>>
  <2> SUFFICES ASSUME d = <<>> PROVE g = <<>>
    OBVIOUS
  <2>1. Len(d) = 0
    OBVIOUS
  <2>2. Len(g) = 0
    BY <1>8, <2>1
  <2> QED
    BY <1>2, <2>2
<1>11. ~await_last_fragment'
  <2> SUFFICES ASSUME await_last_fragment PROVE f.opcode = "Continue" /\ Inflates(f, d)
    BY <1>1
  <2>1. f.opcode = "Continue"
    BY <1>2, <1>3 DEF OutOfTurn
  <2>2. Len(d) > 0
    <3>1. length > 0
      BY <1>3
    <3>2. Len(g) > 0
      BY <1>2, <3>1
    <3> QED
      BY <1>8, <3>2
  <2>3. Len(<<>>) = 0
    OBVIOUS
  <2>4. d # <<>>
    BY <2>2, <2>3
  <2> QED
    BY <1>5, <1>7, <2>1, <2>4
<1> QED
  BY <1>1, <1>4, <1>7, <1>9, <1>10, <1>11 DEF s, g, d

\* A message that cannot be inflated.
LEMMA CorruptFollows ==
  ASSUME Inv, Kept, NEW lost \in {0, 1}, Sync(lost), Follows(lost), OnLastCorrupt, Readable(input, setup)
  PROVE  Follows(lost)'
<1> DEFINE s == Meaning(lost)[header - 1]
           r == Meaning(lost)[header]
           f == input[header]
           g == Gathered(s, header)
           d == Extended(f)
<1>1. /\ Complete(f) /\ Inflates(f, d) /\ Return(Err("Extension"))
      /\ Undecodable(input, d) \/ \E k \in 1..Len(d) : ~Compressed(input, d[k][1])
  BY DEF OnLastCorrupt
<1>2. UNCHANGED <<peer, replies>> /\ Fragment(f)
  BY <1>1 DEF Complete
<1>3. Within /\ Known /\ r = Interpret(s, input, header, TRUE)
  BY <1>2, DataSituation
<1>4. /\ s \in Partial /\ ~s.stop /\ results = s.results /\ replies = s.replies /\ header \in 1..Len(input) /\ header \in 0..Len(input)
      /\ Opened(s.open, header - 1)
  BY <1>3, Situation
<1>5. InTurn(s, header) /\ f.fin /\ Compressed(input, header) /\ d = g
  BY <1>1, LastFragment
<1> HIDE DEF s, d
<1>6. ~is_control(f.opcode) /\ ~OutOfTurn(s, header)
  BY <1>5 DEF InTurn
<1>7. \A k \in 1..Len(g) : Compressed(input, g[k][1])
  BY <1>3, <1>4, <1>5, <1>6, GatheredUniform
<1>8. Undecodable(input, g)
  <2> HIDE DEF g
  <2> QED
    BY <1>1, <1>5, <1>7
<1>9. r.stop /\ r.results = Append(s.results, Err("Extension")) /\ r.replies = s.replies
  BY <1>3, <1>4, <1>5, <1>8, Readings
<1>10. replies' = r.replies /\ results' = r.results
  BY <1>1, <1>2, <1>4, <1>9 DEF Return
<1>11. "Extension" \in Whats
  BY DEF Whats
<1>12. pc' = "idle" /\ GaveUp'
  BY <1>1, <1>11, Fails
<1> QED
  BY <1>2, <1>3, <1>4, <1>9, <1>10, <1>12, ComesToAnEnd

\* A message is complete.
LEMMA LastFollows ==
  ASSUME Inv, Kept, NEW lost \in {0, 1}, Sync(lost), Follows(lost), OnLast, Readable(input, setup)
  PROVE  Follows(lost)'
<1> DEFINE s == Meaning(lost)[header - 1]
           r == Meaning(lost)[header]
           f == input[header]
           g == Gathered(s, header)
           d == Extended(f)
           kind == IF f.opcode = "Continue" THEN first_fragment_opcode ELSE f.opcode
<1>1. /\ Complete(f) /\ Return(Result("Data", kind, Skip(message', Len(given))))
      /\ IF Inflates(f, d) THEN ~Undecodable(input, d) /\ message' = Inflate(d) ELSE message' = d
  BY DEF OnLast
<1>2. UNCHANGED <<peer, header, given, is_closed, replies>> /\ Fragment(f)
  BY <1>1 DEF Complete
<1>3. /\ Within /\ Known /\ r = Interpret(s, input, header, TRUE) /\ given \in Seq(Token) /\ g \in Seq(Token) /\ d = given \o g
      /\ f.opcode \in {"Continue", "Text", "Binary"}
  BY <1>2, DataSituation
<1>4. /\ s \in Partial /\ ~s.stop /\ results = s.results /\ replies = s.replies /\ header \in 1..Len(input)
      /\ first_fragment_opcode = s.open.opcode /\ ~is_closed
  BY <1>3, Situation
<1>5. /\ InTurn(s, header) /\ f.fin /\ (Inflates(f, d) <=> Compressed(input, header) /\ d # <<>>)
      /\ (Inflates(f, d) => d = g /\ given = <<>>) /\ (d = <<>> => g = <<>>) /\ ~await_last_fragment'
  BY <1>1, LastFragment
<1> HIDE DEF s, g, d
<1>6. kind = KindOf(s, header) /\ kind \in Whats
  <2>1. s.open.opcode \in {"none", "Text", "Binary"}
    BY <1>4, PartialFields
  <2> QED
    BY <1>3, <1>4, <2>1 DEF KindOf, Whats
<1>7. Skip(message', Len(given)) = Unpacked(s, header) /\ ~(Compressed(input, header) /\ Undecodable(input, g))
  <2>1. CASE Inflates(f, d)
    <3>1. given = <<>> /\ Len(given) = 0 /\ message' = Inflate(g) /\ ~Undecodable(input, g) /\ Compressed(input, header)
      BY <1>1, <1>5, <2>1
    <3>2. PICK m \in Seq(Token) : m = Inflate(g)
      BY <1>3, Inflated
    <3>3. Skip(<<>> \o m, Len(<<>>)) = m
      <4>1. <<>> \in Seq(Token)
        OBVIOUS
      <4> QED
        BY <4>1, SkipFront
    <3>4. <<>> \o m = m
      BY ConcatEmptySeq
    <3> QED
      BY <3>1, <3>2, <3>3, <3>4 DEF Unpacked, g
  <2>2. CASE ~Inflates(f, d)
    <3>1. message' = given \o g
      BY <1>1, <1>3, <2>2
    <3>2. Skip(message', Len(given)) = g
      BY <1>3, <3>1, SkipFront
    <3>3. CASE Compressed(input, header)
      <4>1. g = <<>>
        BY <1>5, <2>2, <3>3
      <4> QED
        BY <3>2, <3>3, <4>1, InflateNothing DEF Unpacked, g
    <3>4. CASE ~Compressed(input, header)
      BY <3>2, <3>4 DEF Unpacked, g
    <3> QED
      BY <3>3, <3>4
  <2> QED
    BY <2>1, <2>2
<1> HIDE DEF kind
<1>8. /\ ~r.stop /\ r.results = Append(s.results, Result("Data", KindOf(s, header), Unpacked(s, header)))
      /\ r.replies = s.replies /\ r.open = NoMessage
  BY <1>3, <1>4, <1>5, <1>7, Readings DEF g
<1>9. replies' = r.replies /\ results' = r.results /\ pc' = "idle" /\ ~is_closed'
  BY <1>1, <1>2, <1>4, <1>6, <1>7, <1>8 DEF Return
<1>10. ~GaveUp'
  <2>1. Skip(message', Len(given)) \in Seq(Token)
    <3>1. message' \in Seq(Token)
      BY DataFramesKeep DEF Inv, Typed
    <3>2. Len(given) \in Nat
      BY <1>3
    <3> QED
      BY <3>1, <3>2, Skipping
  <2>2. PICK data \in Seq(Token) : data = Skip(message', Len(given))
    BY <2>1
  <2>3. "Data" \in Kinds
    BY DEF Kinds
  <2>4. Result("Data", kind, data) \in Outcome /\ Result("Data", kind, data).kind = "Data"
    BY <1>6, <2>3, Outcomes
  <2>5. results \in Seq(Outcome) /\ results' = Append(results, Result("Data", kind, data))
    BY <1>1, <2>2 DEF Sync, Return
  <2> HIDE DEF r
  <2> QED
    BY <2>4, <2>5, LastResult
<1> HIDE DEF r
<1>11. r.open.opcode = "none"
  BY <1>8, NoMessageOpens
<1> QED
  BY <1>2, <1>5, <1>8, <1>9, <1>10, <1>11, GoesOn DEF r
-----------------------------------------------------------------------------
(* The theorems.                                                           *)

\* At the beginning nothing has been told.
LEMMA FollowsInit ==
  ASSUME Init
  PROVE  \E lost \in {0, 1} : Sync(lost) /\ Follows(lost)
<1>1. PICK lost \in {0, 1} : Sync(lost) /\ expected = Expected(input, lost = 1)
  BY StartsInStep
<1>2. Known
  BY InvInit DEF Inv, Typed
<1>3. /\ pc = "idle" /\ header = 0 /\ ~is_closed /\ ~await_last_fragment /\ results = <<>> /\ replies = <<>>
  BY DEF Init
<1>4. ~GaveUp
  BY <1>3 DEF GaveUp
<1>5. ~Within /\ Live /\ Done = 0
  BY <1>3, <1>4 DEF Within, Live, Between, Done
<1>6. Meaning(lost)[0] = Start
  BY <1>2, Meanings
<1>7. ~Start.stop /\ Start.results = <<>> /\ Start.replies = <<>> /\ Start.open = NoMessage
  BY DEF Start
<1>8. Start.open.opcode = "none"
  BY <1>7, NoMessageOpens
<1>9. Agrees(Start)
  BY <1>3, <1>7, <1>8 DEF Agrees
<1>10. Follows(lost)
  BY <1>1, <1>3, <1>5, <1>6, <1>9 DEF Follows
<1> QED
  BY <1>1, <1>10

\* Every step.
LEMMA FollowsNext ==
  ASSUME Inv, Kept, NEW lost \in {0, 1}, Sync(lost), Follows(lost), [Next]_vars, Readable(input, setup)
  PROVE  Follows(lost)'
<1>1. CASE Receive
  BY <1>1, ReceiveFollows
<1>2. CASE ReceiveClosed
  BY <1>2, ReceiveClosedFollows
<1>3. CASE ReceiveHeader
  BY <1>3, ReceiveHeaderFollows
<1>4. CASE Eof
  BY <1>4, EofFollows
<1>5. CASE OnPong
  BY <1>5, PongFollows
<1>6. CASE OnPing
  BY <1>6, PingFollows
<1>7. CASE OnCloseUtf8 \/ OnClose
  BY <1>7, CloseFollows
<1>8. CASE TooLarge
  BY <1>8, DiscardFollows
<1>9. CASE OnUnexpected
  BY <1>9, UnexpectedFollows
<1>10. CASE OnFragment
  BY <1>10, FragmentFollows
<1>11. CASE OnLast
  BY <1>11, LastFollows
<1>12. CASE OnLastCorrupt
  BY <1>12, CorruptFollows
<1>13. CASE UNCHANGED vars
  <2>1. UNCHANGED peer
    BY <1>13 DEF vars, peer
  <2>2. /\ Meaning(lost)' = Meaning(lost) /\ Expected(input, lost = 1)' = Expected(input, lost = 1)
        /\ has_extensions' = has_extensions
    BY <2>1, SameMeaning
  <2>3. /\ UNCHANGED <<input, expected, pc, header, given, message, first_fragment_opcode, length, is_closed,
                       await_last_fragment, results, replies>>
    BY <1>13 DEF vars
  <2>4. GaveUp' = GaveUp /\ Within' = Within /\ Live' = Live /\ Done' = Done
    BY <2>3 DEF GaveUp, Within, Live, Between, Done
  <2>5. (expected = Expected(input, lost = 1))' /\ (pc # "idle" => ~GaveUp)'
        /\ (Within => (input[header].rsv1 => has_extensions) /\ (pc = "control" => is_control(input[header].opcode)))'
    BY <2>2, <2>3, <2>4 DEF Follows
  <2>6. CASE Live
    <3>1. Compressed(input, Done)' = Compressed(input, Done)
      BY <2>3, <2>4 DEF Compressed
    <3>2. PICK s : s = Meaning(lost)[Done]
      OBVIOUS
    <3>3. (Meaning(lost)[Done])' = s
      BY <2>2, <2>4, <3>2
    <3>4. Agrees(s)
      BY <2>6, <3>2 DEF Follows
    <3>5. Agrees(Meaning(lost)[Done])'
      BY <2>2, <2>3, <3>1, <3>3, <3>4 DEF Agrees
    <3> QED
      BY <2>4, <2>5, <2>6, <3>5 DEF Follows
  <2>7. CASE ~Live
    <3>1. Concluded'
      BY <2>3, <2>7 DEF Follows, Concluded
    <3> QED
      BY <2>4, <2>5, <2>7, <3>1 DEF Follows
  <2> QED
    BY <2>6, <2>7
<1> QED
  BY <1>1, <1>2, <1>3, <1>4, <1>5, <1>6, <1>7, <1>8, <1>9, <1>10, <1>11, <1>12, <1>13 DEF Next

\* What the invariant says of results and replies.
LEMMA Told ==
  ASSUME Inv, NEW lost \in {0, 1}, Sync(lost), Follows(lost)
  PROVE  /\ results \in Seq(Outcome) /\ expected \in Partial
         /\ Extends(results, expected.results) \/ Extends(expected.results, results)
         /\ Extends(replies, expected.replies) /\ replies \in Seq(Answer)
         /\ GaveUp => Extends(expected.results, results) /\ replies = expected.replies
<1>1. Known /\ expected = Expected(input, lost = 1) /\ results \in Seq(Outcome)
  BY DEF Inv, Typed, Follows, Sync
<1>2. CASE Live
  <2> DEFINE s == Meaning(lost)[Done]
  <2>1. Done \in 0..Len(input)
    <3>1. CASE Within
      BY <3>1, Places DEF Done
    <3>2. CASE ~Within
      BY <1>2, <3>2 DEF Live, Done, Sync
    <3> QED
      BY <3>1, <3>2
  <2>2. results = s.results /\ replies = s.replies
    BY <1>2 DEF Follows, Agrees
  <2>3. /\ s \in Partial /\ expected \in Partial
        /\ Extends(s.results, expected.results) /\ Extends(s.replies, expected.replies)
    BY <1>1, <2>1, Conclusion
  <2> HIDE DEF s
  <2>4. s.replies \in Seq(Answer)
    BY <2>3, PartialFields
  <2>5. ~GaveUp
    BY <1>2 DEF Live, Within, Between, Follows
  <2> QED
    BY <1>1, <2>2, <2>3, <2>4, <2>5
<1>3. CASE ~Live
  <2>1. Concluded
    BY <1>3 DEF Follows
  <2>2. expected \in Partial
    <3>1. 0 \in 0..Len(input)
      BY <1>1, FrameEnds
    <3> QED
      BY <1>1, <3>1, Conclusion
  <2>3. expected.replies \in Seq(Answer) /\ expected.results \in Seq(Outcome)
    BY <2>2, PartialFields
  <2>4. replies = expected.replies /\ Extends(replies, expected.replies)
    <3>1. replies = expected.replies
      BY <2>1 DEF Concluded
    <3>2. PICK a \in Seq(Answer) : a = replies /\ a = expected.replies
      BY <2>3, <3>1
    <3> QED
      BY <3>2, ExtendsSelf
  <2>5. CASE Extends(expected.results, results)
    BY <1>1, <2>2, <2>3, <2>4, <2>5
  <2>6. CASE pc = "loop" /\ Append(results, Err("Closed")) = expected.results
    <3>1. "Closed" \in Whats
      BY DEF Whats
    <3>2. Err("Closed") \in Outcome
      BY <3>1, ErrorTyped
    <3>3. Extends(results, expected.results)
      BY <1>1, <2>6, <3>2, ExtendsAppend
    <3>4. ~GaveUp
      BY <2>6 DEF Follows
    <3> QED
      BY <1>1, <2>2, <2>3, <2>4, <3>3, <3>4
  <2> QED
    BY <2>1, <2>5, <2>6 DEF Concluded
<1> QED
  BY <1>2, <1>3

\* That is what Reassembles and Answers say.
LEMMA ToldIsRight ==
  ASSUME Inv, NEW lost \in {0, 1}, Sync(lost), Follows(lost)
  PROVE  Reassembles /\ Answers
<1>1. /\ results \in Seq(Outcome) /\ expected \in Partial
      /\ Extends(results, expected.results) \/ Extends(expected.results, results)
      /\ Extends(replies, expected.replies) /\ replies \in Seq(Answer)
      /\ GaveUp => Extends(expected.results, results) /\ replies = expected.replies
  BY Told
<1>2. PICK e \in Seq(Outcome), a \in Seq(Answer) : e = expected.results /\ a = expected.replies
  BY <1>1, PartialFields
<1>3. Len(results) \in Nat /\ Len(e) \in Nat
  BY <1>1
<1>4. ASSUME NEW i \in 1..Len(results), i <= Len(e) PROVE results[i] = e[i]
  <2>1. i \in 1..Len(e)
    BY <1>3, <1>4
  <2>2. CASE Extends(results, e)
    BY <2>2 DEF Extends
  <2>3. CASE Extends(e, results)
    BY <2>1, <2>3 DEF Extends
  <2> QED
    BY <1>1, <1>2, <2>2, <2>3
<1>5. GaveUp => Len(results) >= Len(e)
  BY <1>1, <1>2, <1>3 DEF Extends
<1>6. Reassembles
  BY <1>2, <1>4, <1>5 DEF Reassembles
<1>7. IsPrefix(replies, a)
  <2>1. Len(replies) \in Nat /\ Len(a) \in Nat /\ Len(replies) <= Len(a) /\ \A k \in 1..Len(replies) : a[k] = replies[k]
    BY <1>1, <1>2 DEF Extends
  <2> DEFINE n == Len(replies)
             x == SubSeq(replies, 1, n)
             y == SubSeq(a, 1, n)
  <2>2. x \in Seq(Answer) /\ Len(x) = n /\ \A k \in 1..n : x[k] = replies[k]
    BY <1>1, <2>1, SubSeqProperties
  <2>3. y \in Seq(Answer) /\ Len(y) = n /\ \A k \in 1..n : y[k] = a[k]
    BY <2>1, SubSeqProperties
  <2> HIDE DEF x, y
  <2>4. \A k \in 1..Len(x) : x[k] = y[k]
    BY <2>1, <2>2, <2>3
  <2>5. Len(x) = Len(y)
    BY <2>2, <2>3
  <2>6. x = y
    BY <2>2, <2>3, <2>4, <2>5, SeqEqual
  <2> QED
    BY <2>1, <2>6 DEF IsPrefix, x, y
<1>8. Answers
  BY <1>1, <1>2, <1>7 DEF Answers
<1> QED
  BY <1>6, <1>8

\* All that is known of a Receiver whose peer's frames it can read.
Right == Inv /\ Kept /\ Readable(input, setup) /\ \E lost \in {0, 1} : Sync(lost) /\ Follows(lost)

\* It holds at the beginning.
LEMMA RightInit ==
  ASSUME \A c \in Cases : \A frames \in c.Inputs : Readable(frames, c.setup), Init
  PROVE  Right
<1>1. Readable(input, setup)
  BY InvInit DEF Inv, Typed, Known
<1> QED
  BY <1>1, InvInit, KeptInit, FollowsInit DEF Right

\* It is kept by every step.
LEMMA RightNext ==
  ASSUME \A c \in Cases : \A frames \in c.Inputs : Readable(frames, c.setup), Right, [Next]_vars
  PROVE  Right'
<1>1. Inv /\ Kept /\ Readable(input, setup)
  BY DEF Right
<1>2. PICK lost \in {0, 1} : Sync(lost) /\ Follows(lost)
  BY DEF Right
<1>3. Inv'
  BY <1>1, InvNext
<1>4. Kept'
  BY <1>1, KeptNext DEF Readable
<1>5. Readable(input, setup)'
  BY <1>3 DEF Inv, Typed, Known
<1>6. Sync(lost)'
  BY <1>1, <1>2, StepInStep DEF Readable
<1>7. Follows(lost)'
  BY <1>1, <1>2, FollowsNext
<1> QED
  BY <1>3, <1>4, <1>5, <1>6, <1>7 DEF Right

\* For frames that receive can read, its callers are told what they mean and all of it.
\* The frames it cannot read are those that Readable excludes: messages that are too
\* large and cannot be skipped, data with the extension appended to a message that is
\* not empty, a PONG between the fragments of a message (receive returns, and forgets
\* that it is within a message), and a compressed message whose first fragment is empty.
THEOREM CallersAreTold ==
  ASSUME \A c \in Cases : \A frames \in c.Inputs : Readable(frames, c.setup)
  PROVE  Spec => []Reassembles
<1>1. Init => Right
  BY RightInit
<1>2. Right /\ [Next]_vars => Right'
  BY RightNext
<1>3. Right => Reassembles
  BY ToldIsRight DEF Right
<1> QED
  BY <1>1, <1>2, <1>3, PTL DEF Spec

\* For such frames every PING and the CLOSE are answered, in their order, and nothing
\* else is written.
THEOREM ControlsAnswered ==
  ASSUME \A c \in Cases : \A frames \in c.Inputs : Readable(frames, c.setup)
  PROVE  Spec => []Answers
<1>1. Init => Right
  BY RightInit
<1>2. Right /\ [Next]_vars => Right'
  BY RightNext
<1>3. Right => Answers
  BY ToldIsRight DEF Right
<1> QED
  BY <1>1, <1>2, <1>3, PTL DEF Spec

=============================================================================
