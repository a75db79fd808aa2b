---------------------------- MODULE ReceiverProofs ----------------------------
(***************************************************************************)
(* Proofs about Receiver, for any frames and any setup: its types, the     *)
(* limit on the size of a message and the silence after a CLOSE; and, for  *)
(* uses of receive that are said below, that the message passed in is      *)
(* appended to and that no payload is taken for a header.                  *)
(***************************************************************************)
EXTENDS Receiver, Induction, SequenceTheorems, TLAPS

-----------------------------------------------------------------------------
(* The tokens of a sequence of frames.                                     *)

Token == Nat \X Nat \X Nat

\* Two sequences of tokens, one behind the other.
LEMMA Concat ==
  ASSUME NEW s \in Seq(Token), NEW t \in Seq(Token)
  PROVE  /\ s \o t \in Seq(Token) /\ Len(s \o t) = Len(s) + Len(t)
         /\ \A i \in 1..Len(s) : (s \o t)[i] = s[i]
         /\ \A i \in 1..Len(t) : (s \o t)[Len(s) + i] = t[i]
<1>1. Len(s) \in Nat /\ Len(t) \in Nat
  OBVIOUS
<1>2. /\ s \o t \in Seq(Token) /\ Len(s \o t) = Len(s) + Len(t)
      /\ \A i \in 1..Len(s) + Len(t) : (s \o t)[i] = IF i <= Len(s) THEN s[i] ELSE t[i - Len(s)]
  BY ConcatProperties
<1>3. ASSUME NEW i \in 1..Len(t) PROVE (s \o t)[Len(s) + i] = t[i]
  BY <1>1, <1>2
<1> QED
  BY <1>1, <1>2, <1>3

\* A part of a sequence of tokens.
LEMMA Slice ==
  ASSUME NEW s \in Seq(Token), NEW m \in Nat, NEW n \in Nat, 1 <= m, m <= n + 1, n <= Len(s)
  PROVE  /\ SubSeq(s, m, n) \in Seq(Token)
         /\ Len(SubSeq(s, m, n)) = (n - m) + 1
         /\ \A i \in 1..(n - m) + 1 : SubSeq(s, m, n)[i] = s[m + i - 1]
<1>1. \A i \in m..n : s[i] \in Token
  OBVIOUS
<1>2. /\ SubSeq(s, m, n) \in Seq(Token)
      /\ Len(SubSeq(s, m, n)) = IF m <= n THEN n - m + 1 ELSE 0
      /\ \A i \in 1..n - m + 1 : SubSeq(s, m, n)[i] = s[m + i - 1]
  BY <1>1, SubSeqProperties
<1> QED
  BY <1>2

\* What a frame adds to the tokens before it.
WithFrame(s, i, frame) == s \o <<<<i, 0, 0>>>> \o Payload(i, frame)

\* The tokens of one more frame.
LEMMA AddFrame ==
  ASSUME NEW s \in Seq(Token), NEW i \in Nat, NEW frame \in Frames
  PROVE  LET r == WithFrame(s, i, frame) IN
         /\ frame.len \in Nat
         /\ r \in Seq(Token) /\ Len(r) = Len(s) + 1 + frame.len
         /\ \A p \in 1..Len(s) : r[p] = s[p]
         /\ r[Len(s) + 1] = <<i, 0, 0>>
         /\ \A j \in 1..frame.len : r[Len(s) + 1 + j] = <<i, j, 0>>
<1> DEFINE h == <<<<i, 0, 0>>>>
           t == s \o h
           w == Payload(i, frame)
           r == t \o w
           n == frame.len
<1>1. n \in Nat
  BY DEF Frames
<1>2. <<i, 0, 0>> \in Token
  BY DEF Token
<1>3. h \in Seq(Token) /\ Len(h) = 1 /\ h[1] = <<i, 0, 0>>
  BY <1>2
<1>4. w \in Seq(Token) /\ Len(w) = n /\ \A j \in 1..n : w[j] = <<i, j, 0>>
  <2>1. \A j \in 1..n : <<i, j, 0>> \in Token
    BY <1>1 DEF Token
  <2>2. w = [j \in 1..n |-> <<i, j, 0>>]
    BY DEF Payload
  <2>3. w \in [1..n -> Token]
    BY <2>1, <2>2
  <2> HIDE DEF n
  <2>4. w \in Seq(Token) /\ Len(w) = n
    BY <1>1, <2>2, <2>3
  <2> QED
    BY <2>2, <2>4
<1> HIDE DEF h, w, n
<1>5. t \in Seq(Token) /\ Len(t) = Len(s) + 1 /\ (\A p \in 1..Len(s) : t[p] = s[p]) /\ t[Len(s) + 1] = <<i, 0, 0>>
  <2>1. /\ t \in Seq(Token) /\ Len(t) = Len(s) + Len(h) /\ (\A p \in 1..Len(s) : t[p] = s[p])
        /\ \A p \in 1..Len(h) : t[Len(s) + p] = h[p]
    BY <1>3, Concat
  <2>2. 1 \in 1..Len(h)
    BY <1>3
  <2> QED
    BY <1>3, <2>1, <2>2
<1> HIDE DEF t
<1>6. Len(s) \in Nat
  OBVIOUS
<1>7. /\ r \in Seq(Token) /\ Len(r) = Len(t) + n
      /\ \A p \in 1..Len(t) : r[p] = t[p]
      /\ \A j \in 1..n : r[Len(t) + j] = w[j]
  BY <1>4, <1>5, Concat
<1> HIDE DEF r
<1>8. Len(r) = Len(s) + 1 + n /\ (\A p \in 1..Len(s) : r[p] = s[p]) /\ r[Len(s) + 1] = <<i, 0, 0>>
  BY <1>1, <1>5, <1>6, <1>7
<1>9. ASSUME NEW j \in 1..n PROVE r[Len(s) + 1 + j] = <<i, j, 0>>
  <2>1. Len(t) + j = Len(s) + 1 + j
    BY <1>5
  <2> QED
    BY <1>4, <1>7, <2>1
<1> QED
  BY <1>1, <1>7, <1>8, <1>9 DEF r, t, h, w, n, WithFrame

\* TokensUpTo is the function that its definition says.
LEMMA UpTo ==
  ASSUME NEW frames \in Seq(Frames)
  PROVE  /\ Len(frames) \in Nat
         /\ TokensUpTo(frames)[0] = <<>>
         /\ \A i \in 1..Len(frames) : TokensUpTo(frames)[i] = WithFrame(TokensUpTo(frames)[i - 1], i, frames[i])
<1> DEFINE n == Len(frames)
           V == Seq(Token)
           G == [x \in V \X (1..n) |-> WithFrame(x[1], x[2], frames[x[2]])]
           IsUpTo(f) == f = [i \in 0..n |-> IF i = 0 THEN <<>> ELSE f[i - 1] \o <<<<i, 0, 0>>>> \o Payload(i, frames[i])]
<1>1. n \in Nat /\ <<>> \in V
  OBVIOUS
<1>2. \A x \in V \X (1..n) : WithFrame(x[1], x[2], frames[x[2]]) \in V
  <2>1. SUFFICES ASSUME NEW s \in V, NEW i \in 1..n PROVE WithFrame(s, i, frames[i]) \in V
    OBVIOUS
  <2>2. frames[i] \in Frames /\ i \in Nat
    BY ElementOfSeq
  <2> QED
    BY <2>2, AddFrame
<1>3. G \in [V \X (1..n) -> V]
  BY <1>2
<1>4. PICK f \in [0..n -> V] : IsRecursive(f, n, <<>>, G)
  <2> HIDE DEF G, V, n
  <2> QED
    BY <1>1, <1>3, RecursiveFunction
<1>5. IsUpTo(f)
  <2> DEFINE body(i) == IF i = 0 THEN <<>> ELSE G[<<f[i - 1], i>>]
             want(i) == IF i = 0 THEN <<>> ELSE f[i - 1] \o <<<<i, 0, 0>>>> \o Payload(i, frames[i])
  <2>1. f = [i \in 0..n |-> body(i)]
    BY <1>4 DEF IsRecursive
  <2>2. ASSUME NEW i \in 0..n PROVE body(i) = want(i)
    <3>1. CASE i = 0
      BY <3>1
    <3>2. CASE i # 0
      <4>1. i \in 1..n /\ f[i - 1] \in V
        BY <1>1, <3>2
      <4>2. G[<<f[i - 1], i>>] = WithFrame(f[i - 1], i, frames[i])
        BY <4>1
      <4> QED
        BY <3>2, <4>2 DEF WithFrame
    <3> QED
      BY <3>1, <3>2
  <2> HIDE DEF body, want
  <2>3. f = [i \in 0..n |-> want(i)]
    BY <2>1, <2>2
  <2> QED
    BY <2>3 DEF want
<1> DEFINE U == TokensUpTo(frames)
           val(i) == IF i = 0 THEN <<>> ELSE WithFrame(U[i - 1], i, frames[i])
<1>6. U = [i \in 0..n |-> val(i)]
  <2>1. IsUpTo(U)
    BY <1>5 DEF TokensUpTo
  <2> HIDE DEF U
  <2> QED
    BY <2>1 DEF WithFrame
<1> HIDE DEF U, val
<1>7. \A i \in 0..n : U[i] = val(i)
  BY <1>6
<1>8. U[0] = <<>>
  BY <1>1, <1>7 DEF val
<1>9. ASSUME NEW i \in 1..n PROVE U[i] = WithFrame(U[i - 1], i, frames[i])
  <2>1. i \in 0..n /\ i # 0
    BY <1>1
  <2> QED
    BY <1>7, <2>1 DEF val
<1> QED
  BY <1>1, <1>8, <1>9 DEF U

\* Where frame i stands: behind the tokens of the frames before it.
LEMMA FramePlace ==
  ASSUME NEW frames \in Seq(Frames)
  PROVE  LET U == TokensUpTo(frames) IN
         \A i \in 0..Len(frames) : /\ U[i] \in Seq(Token) /\ Len(U[i]) \in Nat
                                   /\ i > 0 => /\ frames[i] \in Frames /\ frames[i].len \in Nat
                                               /\ U[i] = WithFrame(U[i - 1], i, frames[i])
                                               /\ Len(U[i]) = Len(U[i - 1]) + 1 + frames[i].len
<1> DEFINE U == TokensUpTo(frames)
           n == Len(frames)
           S == {i \in 0..n : U[i] \in Seq(Token)}
<1>1. n \in Nat /\ U[0] = <<>> /\ \A i \in 1..n : U[i] = WithFrame(U[i - 1], i, frames[i])
  BY UpTo
<1>2. \A i \in 1..n : frames[i] \in Frames
  BY ElementOfSeq
<1> HIDE DEF U, n
<1>3. 0 \in S
  <2>1. <<>> \in Seq(Token) /\ 0 \in 0..n
    BY <1>1
  <2> QED
    BY <1>1, <2>1
<1>4. ASSUME NEW i \in 1..n, i - 1 \in S PROVE i \in S
  <2>1. i \in Nat /\ i \in 0..n
    BY <1>1
  <2> QED
    BY <1>1, <1>2, <1>4, <2>1, AddFrame, ZenonT(30)
<1>5. \A i \in 0..n : i \in S
  <2> HIDE DEF S
  <2> QED
    BY <1>1, <1>3, <1>4, InductionTo
<1>6. \A i \in 0..n : U[i] \in Seq(Token) /\ Len(U[i]) \in Nat
  BY <1>5
<1>7. ASSUME NEW i \in 0..n, i > 0
      PROVE  /\ frames[i] \in Frames /\ frames[i].len \in Nat
             /\ U[i] = WithFrame(U[i - 1], i, frames[i])
             /\ Len(U[i]) = Len(U[i - 1]) + 1 + frames[i].len
  <2>1. i \in 1..n /\ i \in Nat /\ i - 1 \in 0..n
    BY <1>1, <1>7
  <2>2. frames[i] \in Frames /\ U[i - 1] \in Seq(Token) /\ U[i] = WithFrame(U[i - 1], i, frames[i])
    BY <1>1, <1>2, <1>6, <2>1
  <2>3. PICK s \in Seq(Token), frame \in Frames : s = U[i - 1] /\ frame = frames[i]
    BY <2>2
  <2>4. frame.len \in Nat /\ Len(WithFrame(s, i, frame)) = Len(s) + 1 + frame.len
    BY <2>1, AddFrame
  <2> QED
    BY <2>2, <2>3, <2>4
<1> QED
  BY <1>6, <1>7 DEF U, n

\* The tokens of the first frames are the beginning of all.
LEMMA Beginning ==
  ASSUME NEW frames \in Seq(Frames), NEW k \in 0..Len(frames), NEW m \in 0..Len(frames), k <= m
  PROVE  LET U == TokensUpTo(frames) IN
         Len(U[k]) <= Len(U[m]) /\ \A p \in 1..Len(U[k]) : U[m][p] = U[k][p]
<1> DEFINE U == TokensUpTo(frames)
           n == Len(frames)
           S == {i \in 0..n : i >= k => Len(U[k]) <= Len(U[i]) /\ \A p \in 1..Len(U[k]) : U[i][p] = U[k][p]}
<1>1. n \in Nat
  OBVIOUS
<1>2. \A i \in 0..n : /\ U[i] \in Seq(Token) /\ Len(U[i]) \in Nat
                      /\ i > 0 => frames[i] \in Frames /\ U[i] = WithFrame(U[i - 1], i, frames[i])
  BY FramePlace
<1> HIDE DEF U, n
<1>3. k \in 0..n /\ m \in 0..n
  BY DEF n
<1>4. 0 \in S
  BY <1>1, <1>2, <1>3
<1>5. ASSUME NEW i \in 1..n, i - 1 \in S PROVE i \in S
  <2>1. i \in Nat /\ i \in 0..n /\ i > 0 /\ i - 1 \in 0..n
    BY <1>1
  <2>2. SUFFICES ASSUME i >= k PROVE Len(U[k]) <= Len(U[i]) /\ \A p \in 1..Len(U[k]) : U[i][p] = U[k][p]
    BY <2>1
  <2>3. CASE i = k
    BY <1>2, <1>3, <2>3
  <2>4. CASE i # k
    <3>1. i - 1 >= k
      BY <1>3, <2>1, <2>2, <2>4
    <3>2. Len(U[k]) <= Len(U[i - 1]) /\ \A p \in 1..Len(U[k]) : U[i - 1][p] = U[k][p]
      BY <1>5, <3>1
    <3>3. U[i - 1] \in Seq(Token) /\ Len(U[i - 1]) \in Nat /\ Len(U[k]) \in Nat /\ frames[i] \in Frames
          /\ U[i] = WithFrame(U[i - 1], i, frames[i])
      BY <1>2, <1>3, <2>1
    <3>4. /\ frames[i].len \in Nat /\ Len(U[i]) = Len(U[i - 1]) + 1 + frames[i].len
          /\ \A p \in 1..Len(U[i - 1]) : U[i][p] = U[i - 1][p]
      <4>1. PICK s \in Seq(Token), frame \in Frames : s = U[i - 1] /\ frame = frames[i]
        BY <3>3
      <4>2. /\ frame.len \in Nat /\ Len(WithFrame(s, i, frame)) = Len(s) + 1 + frame.len
            /\ \A p \in 1..Len(s) : WithFrame(s, i, frame)[p] = s[p]
        BY <2>1, AddFrame
      <4> QED
        BY <3>3, <4>1, <4>2
    <3>5. PICK a \in Nat, b \in Nat, l \in Nat : a = Len(U[k]) /\ b = Len(U[i - 1]) /\ l = frames[i].len
      BY <3>3, <3>4
    <3>6. a <= b /\ Len(U[i]) = b + 1 + l
      BY <3>2, <3>4, <3>5
    <3>7. a <= b + 1 + l /\ \A p \in 1..a : p \in 1..b
      BY <3>6
    <3>8. \A p \in 1..a : U[i][p] = U[k][p]
      BY <3>2, <3>4, <3>5, <3>7
    <3> QED
      BY <3>5, <3>6, <3>7, <3>8
  <2> QED
    BY <2>3, <2>4
<1>6. m \in S
  <2> HIDE DEF S
  <2> QED
    BY <1>1, <1>3, <1>4, <1>5, InductionTo
<1> QED
  BY <1>6 DEF U

\* Every token belongs to a frame, whose header stands before it and whose payload
\* ends behind it.
LEMMA TokenPlace ==
  ASSUME NEW frames \in Seq(Frames), NEW q \in 1..Len(Tokens(frames))
  PROVE  LET T == Tokens(frames) IN
         \E i \in 1..Len(frames) : \E j \in 0..frames[i].len :
            /\ T[q] = <<i, j, 0>>
            /\ q = Len(TokensUpTo(frames)[i - 1]) + 1 + j
            /\ q + frames[i].len <= Len(T) + j
<1> DEFINE U == TokensUpTo(frames)
           n == Len(frames)
           Found(x) == \E i \in 1..n : \E j \in 0..frames[i].len : x = Len(U[i - 1]) + 1 + j
           S == {i \in 0..n : \A x \in 1..Len(U[i]) : Found(x)}
<1>1. n \in Nat /\ U[0] = <<>>
  BY UpTo
<1>2. \A i \in 0..n : /\ U[i] \in Seq(Token) /\ Len(U[i]) \in Nat
                      /\ i > 0 => /\ frames[i] \in Frames /\ frames[i].len \in Nat
                                  /\ U[i] = WithFrame(U[i - 1], i, frames[i])
                                  /\ Len(U[i]) = Len(U[i - 1]) + 1 + frames[i].len
  BY FramePlace
<1>3. Tokens(frames) = U[n] /\ q \in 1..Len(U[n])
  BY DEF Tokens
<1> HIDE DEF U, n
<1>4. 0 \in S
  <2>1. Len(U[0]) = 0
    BY <1>1
  <2> QED
    BY <1>1, <2>1
<1>5. ASSUME NEW i \in 1..n, i - 1 \in S PROVE i \in S
  <2>1. i \in 0..n /\ i > 0 /\ i - 1 \in 0..n
    BY <1>1
  <2>2. /\ frames[i].len \in Nat /\ Len(U[i]) = Len(U[i - 1]) + 1 + frames[i].len /\ Len(U[i - 1]) \in Nat
    BY <1>2, <2>1
  <2>3. ASSUME NEW x \in 1..Len(U[i]) PROVE Found(x)
    <3>1. CASE x <= Len(U[i - 1])
      <4>1. x \in 1..Len(U[i - 1])
        BY <2>2, <3>1
      <4> QED
        BY <1>5, <4>1
    <3>2. CASE ~(x <= Len(U[i - 1]))
      <4>1. PICK j \in 0..frames[i].len : x = Len(U[i - 1]) + 1 + j
        <5>1. PICK a \in Nat, l \in Nat : a = Len(U[i - 1]) /\ l = frames[i].len
          BY <2>2
        <5>2. x \in Nat /\ x <= a + 1 + l /\ x > a
          BY <2>2, <3>2, <5>1
        <5>3. x - (a + 1) \in 0..l /\ x = a + 1 + (x - (a + 1))
          BY <5>2
        <5> QED
          BY <5>1, <5>3
      <4> QED
        BY <4>1
    <3> QED
      BY <3>1, <3>2
  <2> HIDE DEF Found
  <2> QED
    BY <2>1, <2>3
<1>6. n \in S
  <2>1. n \in 0..n
    BY <1>1
  <2> HIDE DEF S
  <2> QED
    BY <1>1, <1>4, <1>5, <2>1, InductionTo
<1>7. PICK i \in 1..n : \E j \in 0..frames[i].len : q = Len(U[i - 1]) + 1 + j
  BY <1>3, <1>6
<1>8. PICK j \in 0..frames[i].len : q = Len(U[i - 1]) + 1 + j
  BY <1>7
<1>9. i \in Nat /\ i \in 0..n /\ i > 0 /\ i - 1 \in 0..n /\ n \in 0..n /\ i <= n
  BY <1>1
<1>10. PICK s \in Seq(Token), frame \in Frames : s = U[i - 1] /\ frame = frames[i] /\ U[i] = WithFrame(s, i, frame)
  BY <1>2, <1>9
<1>11. /\ frame.len \in Nat /\ Len(U[i]) = Len(s) + 1 + frame.len /\ Len(s) \in Nat
       /\ U[i][Len(s) + 1] = <<i, 0, 0>>
       /\ \A k \in 1..frame.len : U[i][Len(s) + 1 + k] = <<i, k, 0>>
  <2>1. /\ frame.len \in Nat /\ Len(WithFrame(s, i, frame)) = Len(s) + 1 + frame.len
        /\ WithFrame(s, i, frame)[Len(s) + 1] = <<i, 0, 0>>
        /\ \A k \in 1..frame.len : WithFrame(s, i, frame)[Len(s) + 1 + k] = <<i, k, 0>>
    BY <1>9, AddFrame
  <2>2. Len(s) \in Nat
    OBVIOUS
  <2> QED
    BY <1>10, <2>1, <2>2
<1>12. Len(U[i]) <= Len(U[n]) /\ \A p \in 1..Len(U[i]) : U[n][p] = U[i][p]
  BY <1>9, Beginning DEF U, n
<1>13. q \in 1..Len(U[i]) /\ j \in 0..frame.len /\ q = Len(s) + 1 + j
  <2>1. j \in 0..frame.len /\ q = Len(s) + 1 + j
    BY <1>8, <1>10
  <2>2. PICK a \in Nat, l \in Nat : a = Len(s) /\ l = frame.len /\ Len(U[i]) = a + 1 + l
    BY <1>11
  <2>3. q \in 1..(a + 1 + l)
    BY <2>1, <2>2
  <2> QED
    BY <2>1, <2>2, <2>3
<1>14. U[i][q] = <<i, j, 0>>
  <2>1. CASE j = 0
    <3>1. q = Len(s) + 1
      BY <1>11, <1>13, <2>1
    <3> QED
      BY <1>11, <2>1, <3>1
  <2>2. CASE j # 0
    <3>1. j \in 1..frame.len
      BY <1>11, <1>13, <2>2
    <3> QED
      BY <1>11, <1>13, <3>1
  <2> QED
    BY <2>1, <2>2
<1>15. U[n][q] = <<i, j, 0>>
  BY <1>12, <1>13, <1>14
<1>16. q + frame.len <= Len(U[n]) + j
  <2>1. Len(U[n]) \in Nat
    BY <1>2, <1>9
  <2> QED
    BY <1>11, <1>12, <1>13, <2>1, SMTT(30)
<1> QED
  BY <1>3, <1>8, <1>10, <1>15, <1>16 DEF U, n
-----------------------------------------------------------------------------
(* The invariant.                                                          *)

T == Tokens(input)

\* The Receiver and its peer are those of one of the cases.
Known == \E c \in Cases : setup = c.setup /\ input \in c.Inputs

Typed ==
  /\ Known
  /\ stream \in Seq(Token) /\ sock \in Nat /\ cur \in Nat /\ cur <= sock /\ sock <= Len(stream)
  /\ pc \in {"idle", "loop", "control", "data", "misread"} /\ header \in Nat
  /\ given \in Seq(Token) /\ message \in Seq(Token) /\ length \in Nat
  /\ first_fragment_opcode \in {"none", "Text", "Binary"}
  /\ is_closed \in BOOLEAN /\ await_last_fragment \in BOOLEAN

\* What discard_bytes leaves of the stream has only moved towards its beginning.
Arrived == \A p \in 1..Len(stream) : \E q \in p..Len(T) : stream[p] = T[q]

\* A header that has been received is that of a frame of the input, whose end is no
\* closer than where receive is.
AtFrame ==
  /\ pc \in {"control", "data"} => \E q \in 1..Len(T) : cur <= q /\ T[q] = <<header, 0, 0>>
  /\ pc = "data" => ~is_control(input[header].opcode)

\* length counts what receive has appended to message.
Counted ==
  /\ length <= Len(T) /\ (pc # "idle" => length <= cur)
  /\ pc \in {"loop", "control", "data"} => Len(message) = Len(given) + length /\ length <= max_message_size

\* Once a CLOSE has been answered no header is received.
Closing == is_closed => pc \in {"idle", "loop"}

Inv == Typed /\ Arrived /\ AtFrame /\ Counted /\ Closing

\* What is known of the case.
LEMMA Setup ==
  ASSUME Known
  PROVE  /\ has_extensions \in BOOLEAN /\ setup.ClearsMessage \in BOOLEAN
         /\ setup.MaxLeft \in Nat /\ max_message_size \in Nat /\ setup.Prior \in Nat
         /\ input \in Seq(Frames) /\ input # <<>> /\ Len(input) \in Nat
<1>1. PICK c \in Cases : setup = c.setup /\ input \in c.Inputs
  BY DEF Known
<1>2. /\ c.setup.has_extensions \in BOOLEAN /\ c.setup.ClearsMessage \in BOOLEAN
      /\ c.setup.MaxLeft \in Nat /\ c.setup.max_message_size \in Nat /\ c.setup.Prior \in Nat
      /\ \A frames \in c.Inputs : frames \in Seq(Frames) /\ frames # <<>>
  BY ReceiverAssumption
<1>3. input \in Seq(Frames) /\ input # <<>>
  BY <1>1, <1>2
<1>4. Len(input) \in Nat
  BY <1>3
<1> QED
  BY <1>1, <1>2, <1>3, <1>4 DEF has_extensions, max_message_size

\* The tokens of the input.
LEMMA TokensTyped ==
  ASSUME Known
  PROVE  T \in Seq(Token) /\ Len(T) \in Nat
<1>1. input \in Seq(Frames) /\ Len(input) \in 0..Len(input)
  BY Setup
<1>2. TokensUpTo(input)[Len(input)] \in Seq(Token) /\ Len(TokensUpTo(input)[Len(input)]) \in Nat
  BY <1>1, FramePlace
<1> QED
  BY <1>2 DEF T, Tokens

\* A header token is that of a frame of the input, and its payload follows.
LEMMA HeaderToken ==
  ASSUME Known, NEW q \in 1..Len(T), NEW h, T[q] = <<h, 0, 0>>
  PROVE  h \in 1..Len(input) /\ input[h] \in Frames /\ input[h].len \in Nat /\ q + input[h].len <= Len(T)
<1>1. input \in Seq(Frames)
  BY Setup
<1>2. PICK i \in 1..Len(input) : \E j \in 0..input[i].len : T[q] = <<i, j, 0>> /\ q + input[i].len <= Len(T) + j
  BY <1>1, TokenPlace DEF T
<1>3. PICK j \in 0..input[i].len : T[q] = <<i, j, 0>> /\ q + input[i].len <= Len(T) + j
  BY <1>2
<1>4. i = h /\ j = 0
  BY <1>3
<1>5. input[i] \in Frames /\ Len(T) \in Nat
  BY <1>1, ElementOfSeq, TokensTyped
<1>6. input[i].len \in Nat
  BY <1>5 DEF Frames
<1> QED
  BY <1>3, <1>4, <1>5, <1>6

\* The frame that is being received.
LEMMA CurrentFrame ==
  ASSUME Inv, pc \in {"control", "data"}
  PROVE  /\ header \in 1..Len(input) /\ input[header] \in Frames /\ input[header].len \in Nat
         /\ length + input[header].len <= Len(T)
<1>1. PICK q \in 1..Len(T) : cur <= q /\ T[q] = <<header, 0, 0>>
  BY DEF Inv, AtFrame
<1>2. cur \in Nat /\ length \in Nat /\ length <= cur /\ Known
  BY DEF Inv, Typed, Counted
<1>3. Len(T) \in Nat
  BY <1>2, TokensTyped
<1>7. header \in 1..Len(input) /\ input[header] \in Frames /\ input[header].len \in Nat /\ q + input[header].len <= Len(T)
  BY <1>1, <1>2, HeaderToken
<1> QED
  BY <1>1, <1>2, <1>3, <1>7

\* Taking n tokens that are there.
LEMMA Taking ==
  ASSUME Typed, NEW n \in Nat, cur + n <= Len(stream), TakeTokens(n)
  PROVE  /\ cur' \in Nat /\ sock' \in Nat /\ cur <= cur' /\ cur' <= sock' /\ sock' <= Len(stream) /\ cur' = cur + n
         /\ SubSeq(stream, cur + 1, cur + n) \in Seq(Token) /\ Len(SubSeq(stream, cur + 1, cur + n)) = n
<1>1. stream \in Seq(Token) /\ sock \in Nat /\ cur \in Nat /\ cur <= sock /\ sock <= Len(stream)
  BY DEF Typed
<1>2. Len(stream) \in Nat /\ cur + 1 \in Nat /\ cur + n \in Nat /\ 1 <= cur + 1 /\ cur + 1 <= (cur + n) + 1
  BY <1>1
<1>3. /\ SubSeq(stream, cur + 1, cur + n) \in Seq(Token)
      /\ Len(SubSeq(stream, cur + 1, cur + n)) = ((cur + n) - (cur + 1)) + 1
  BY <1>1, <1>2, Slice
<1>4. ((cur + n) - (cur + 1)) + 1 = n
  BY <1>1
<1>5. cur' = cur + n /\ sock' = IF sock > cur + n THEN sock ELSE cur + n
  BY DEF TakeTokens, Larger
<1> QED
  BY <1>1, <1>2, <1>3, <1>4, <1>5

\* The peer and the stream stay as they are.
LEMMA SamePeer ==
  ASSUME Inv, UNCHANGED <<peer, stream>>
  PROVE  Known' /\ T' = T /\ Arrived' /\ max_message_size' = max_message_size
<1>1. setup' = setup /\ input' = input /\ stream' = stream
  BY DEF peer
<1>2. T' = T
  BY <1>1 DEF T
<1>3. Known'
  BY <1>1 DEF Inv, Typed, Known
<1>4. Arrived'
  BY <1>1, <1>2 DEF Inv, Arrived
<1> QED
  BY <1>1, <1>2, <1>3, <1>4 DEF max_message_size

\* Every action keeps the invariant.  A call begins.
LEMMA ReceiveKeeps ==
  ASSUME Inv, Receive
  PROVE  Inv'
<1>1. Known' /\ T' = T /\ Arrived' /\ max_message_size' = max_message_size
  BY SamePeer DEF Receive
<1>2. message' \in Seq(Token) /\ given' = message'
  BY DEF Inv, Typed, Receive
<1>3. Typed'
  BY <1>1, <1>2 DEF Inv, Typed, Receive, local
<1>4. AtFrame'
  BY DEF AtFrame, Receive
<1>5. Counted'
  <2>1. Len(T) \in Nat /\ max_message_size \in Nat /\ cur \in Nat
    BY TokensTyped, Setup DEF Inv, Typed
  <2>2. Len(message') \in Nat
    BY <1>2
  <2>3. length' = 0 /\ cur' = cur /\ pc' = "loop"
    BY DEF Receive
  <2> QED
    BY <1>1, <1>2, <2>1, <2>2, <2>3 DEF Counted
<1>6. Closing'
  BY DEF Closing, Receive
<1> QED
  BY <1>1, <1>3, <1>4, <1>5, <1>6 DEF Inv

\* The connection is closed.
LEMMA ReceiveClosedKeeps ==
  ASSUME Inv, ReceiveClosed
  PROVE  Inv'
<1>1. Known' /\ T' = T /\ Arrived' /\ max_message_size' = max_message_size
  BY SamePeer DEF ReceiveClosed
<1>2. Typed'
  BY <1>1 DEF Inv, Typed, ReceiveClosed, Return, local
<1>3. AtFrame' /\ Closing' /\ Counted'
  BY <1>1 DEF Inv, AtFrame, Closing, Counted, ReceiveClosed, Return, local
<1> QED
  BY <1>1, <1>2, <1>3 DEF Inv

\* A header is received.
LEMMA ReceiveHeaderKeeps ==
  ASSUME Inv, ReceiveHeader
  PROVE  Inv'
<1>1. Known' /\ T' = T /\ Arrived' /\ max_message_size' = max_message_size /\ input' = input
  BY SamePeer DEF ReceiveHeader, peer
<1>2. Typed /\ Known /\ cur \in Nat /\ stream \in Seq(Token) /\ Len(stream) \in Nat /\ cur < Len(stream) /\ TakeTokens(1)
  BY DEF Inv, Typed, ReceiveHeader
<1>3. cur + 1 <= Len(stream) /\ cur + 1 \in 1..Len(stream) /\ 1 \in Nat
  BY <1>2
<1>4. cur' \in Nat /\ sock' \in Nat /\ cur <= cur' /\ cur' <= sock' /\ sock' <= Len(stream) /\ cur' = cur + 1
  BY <1>2, <1>3, Taking
<1>5. stream[cur + 1] \in Token
  BY <1>2, <1>3
<1>6. header' \in Nat
  BY <1>5 DEF ReceiveHeader, Token
<1>7. PICK q \in (cur + 1)..Len(T) : stream[cur + 1] = T[q]
  BY <1>3 DEF Inv, Arrived
<1>8. Len(T) \in Nat
  BY <1>2, TokensTyped
<1>9. q \in 1..Len(T) /\ cur' <= q
  BY <1>2, <1>4, <1>7, <1>8
<1>10. pc = "loop" /\ is_closed = FALSE
  BY DEF ReceiveHeader, StillOpen, Inv, Typed
<1>11. pc' \in {"idle", "misread", "control", "data"}
  BY DEF ReceiveHeader, Return
<1>12. Typed'
  BY <1>1, <1>4, <1>6, <1>11 DEF Inv, Typed, ReceiveHeader, local
<1>13. AtFrame'
  <2>1. ASSUME pc' \in {"control", "data"} PROVE T[q] = <<header', 0, 0>> /\ (pc' = "data" => ~is_control(input[header'].opcode))
    <3>1. ~Misread
      BY <2>1 DEF ReceiveHeader, Return
    <3>2. stream[cur + 1][2] = 0 /\ header' = stream[cur + 1][1]
      BY <3>1 DEF Misread, ReceiveHeader
    <3>3. PICK i \in 1..Len(input) : \E j \in 0..input[i].len : T[q] = <<i, j, 0>>
      <4>1. input \in Seq(Frames)
        BY <1>2, Setup
      <4> QED
        BY <1>9, <4>1, TokenPlace, SMTT(30) DEF T
    <3>4. PICK j \in 0..input[i].len : T[q] = <<i, j, 0>>
      BY <3>3
    <3>5. j = 0 /\ i = header'
      BY <1>7, <3>2, <3>4
    <3>6. pc' = "data" => ~is_control(input[header'].opcode)
      BY <2>1, <3>1 DEF ReceiveHeader, Return
    <3> QED
      BY <3>4, <3>5, <3>6
  <2>2. pc' = "data" => pc' \in {"control", "data"}
    OBVIOUS
  <2> QED
    BY <1>1, <1>9, <2>1, <2>2 DEF AtFrame
<1>14. Counted'
  <2>1. message' = message /\ given' = given /\ length' = length
    BY DEF ReceiveHeader, local
  <2>2. length \in Nat /\ length <= Len(T) /\ length <= cur /\ Len(message) = Len(given) + length /\ length <= max_message_size
    BY <1>10 DEF Inv, Typed, Counted
  <2>3. length <= cur'
    BY <1>2, <1>4, <2>2
  <2> QED
    BY <1>1, <2>1, <2>2, <2>3 DEF Counted
<1>15. Closing'
  BY <1>10 DEF Closing, ReceiveHeader
<1> QED
  BY <1>1, <1>12, <1>13, <1>14, <1>15 DEF Inv

\* The stream ends.
LEMMA EofKeeps ==
  ASSUME Inv, Eof
  PROVE  Inv'
<1>1. Known' /\ T' = T /\ Arrived' /\ max_message_size' = max_message_size
  BY SamePeer DEF Eof
<1>2. Len(stream) \in Nat /\ cur' = Len(stream) /\ sock' = Len(stream) /\ stream' = stream
  BY DEF Inv, Typed, Eof
<1>3. Typed'
  BY <1>1, <1>2 DEF Inv, Typed, Eof, Return, local
<1>4. AtFrame' /\ Closing' /\ Counted'
  BY <1>1 DEF Inv, AtFrame, Closing, Counted, Eof, Return, local
<1> QED
  BY <1>1, <1>3, <1>4 DEF Inv

\* What the handlers of control frames have in common.
LEMMA ControlKeeps ==
  ASSUME Inv, ReadBuffer, UNCHANGED <<peer, local, stream, header, message, await_last_fragment>>,
         pc' \in {"idle", "loop"}, is_closed' \in BOOLEAN
  PROVE  Inv'
<1>1. Known' /\ T' = T /\ Arrived' /\ max_message_size' = max_message_size
  BY SamePeer
<1>2. Typed /\ pc = "control" /\ input[header].len \in Nat
  BY CurrentFrame DEF Inv, ReadBuffer
<1>3. cur' \in Nat /\ sock' \in Nat /\ cur <= cur' /\ cur' <= sock' /\ sock' <= Len(stream)
  BY <1>2, Taking DEF ReadBuffer
<1>4. Typed'
  BY <1>1, <1>3 DEF Inv, Typed, local
<1>5. Counted'
  <2>1. message' = message /\ given' = given /\ length' = length
    BY DEF local
  <2>2. length \in Nat /\ cur \in Nat /\ length <= Len(T) /\ length <= cur /\ Len(message) = Len(given) + length /\ length <= max_message_size
    BY <1>2 DEF Inv, Typed, Counted
  <2>3. length <= cur'
    BY <1>3, <2>2
  <2> QED
    BY <1>1, <2>1, <2>2, <2>3 DEF Counted
<1>6. AtFrame' /\ Closing'
  BY DEF AtFrame, Closing
<1> QED
  BY <1>1, <1>4, <1>5, <1>6 DEF Inv

\* Pongs, PINGs and CLOSE frames.
LEMMA ControlsKeep ==
  ASSUME Inv, OnPong \/ OnPing \/ OnCloseUtf8 \/ OnClose
  PROVE  Inv'
<1>1. ReadBuffer /\ UNCHANGED <<peer, local, stream, header, message, await_last_fragment>>
  BY DEF OnPong, OnPing, OnCloseUtf8, OnClose
<1>2. pc' \in {"idle", "loop"}
  BY DEF OnPong, OnPing, OnCloseUtf8, OnClose, Return
<1>3. is_closed' \in BOOLEAN
  BY DEF Inv, Typed, OnPong, OnPing, OnCloseUtf8, OnClose, Acknowledge
<1> QED
  BY <1>1, <1>2, <1>3, ControlKeeps

\* Without its first n elements; what is left has moved by n.
LEMMA Skipping ==
  ASSUME NEW s \in Seq(Token), NEW n \in Nat
  PROVE  /\ Skip(s, n) \in Seq(Token) /\ Len(Skip(s, n)) = IF n <= Len(s) THEN Len(s) - n ELSE 0
         /\ \A p \in 1..Len(Skip(s, n)) : p + n \in 1..Len(s) /\ Skip(s, n)[p] = s[p + n]
<1>1. Len(s) \in Nat
  OBVIOUS
<1>2. CASE n <= Len(s)
  <2>1. n + 1 \in Nat /\ 1 <= n + 1 /\ n + 1 <= Len(s) + 1 /\ Len(s) <= Len(s)
    BY <1>1, <1>2
  <2>2. /\ Skip(s, n) \in Seq(Token)
        /\ Len(Skip(s, n)) = (Len(s) - (n + 1)) + 1
        /\ \A i \in 1..(Len(s) - (n + 1)) + 1 : Skip(s, n)[i] = s[n + 1 + i - 1]
    BY <1>1, <2>1, Slice DEF Skip
  <2>3. ASSUME NEW p \in 1..Len(Skip(s, n)) PROVE p + n \in 1..Len(s) /\ Skip(s, n)[p] = s[p + n]
    <3>1. p + n \in 1..Len(s) /\ p \in 1..(Len(s) - (n + 1)) + 1 /\ n + 1 + p - 1 = p + n
      BY <1>1, <1>2, <2>2
    <3> QED
      BY <2>2, <3>1
  <2>4. Len(Skip(s, n)) = Len(s) - n
    BY <1>1, <2>2
  <2> QED
    BY <1>2, <2>2, <2>3, <2>4
<1>3. CASE ~(n <= Len(s))
  <2>1. Len(s) < n + 1 /\ \A i \in n+1..Len(s) : s[i] \in Token
    BY <1>1, <1>3
  <2>2. n + 1 \in Int /\ Len(s) \in Int
    BY <1>1
  <2>3. SubSeq(s, n + 1, Len(s)) \in Seq(Token) /\ Len(SubSeq(s, n + 1, Len(s))) = 0
    BY <1>1, <2>1
  <2> QED
    BY <1>3, <2>3 DEF Skip
<1> QED
  BY <1>2, <1>3

\* discard_bytes drops a part of the stream.
LEMMA DiscardKeeps ==
  ASSUME Inv, TooLarge
  PROVE  Inv'
<1> DEFINE len == input[header].len
           buf == SubSeq(stream, 1, sock)
           behind == Skip(stream, sock)
           rest == Skip(behind, length')
<1>1. setup' = setup /\ input' = input /\ T' = T /\ Known' /\ Known
  BY DEF TooLarge, peer, T, Known, Inv, Typed
<1>2. pc = "data" /\ len \in Nat /\ length + len <= Len(T)
  BY CurrentFrame DEF TooLarge
<1>3. stream \in Seq(Token) /\ sock \in Nat /\ cur \in Nat /\ cur <= sock /\ sock <= Len(stream) /\ Len(stream) \in Nat /\ length \in Nat
  BY DEF Inv, Typed
<1>4. length' = length + len /\ length' \in Nat /\ length' <= Len(T)
  BY <1>2, <1>3 DEF TooLarge
<1>5. buf \in Seq(Token) /\ Len(buf) = sock /\ \A i \in 1..sock : buf[i] = stream[i]
  <2>1. 1 \in Nat /\ 1 <= 1 /\ 1 <= sock + 1
    BY <1>3
  <2>2. buf \in Seq(Token) /\ Len(buf) = (sock - 1) + 1 /\ \A i \in 1..(sock - 1) + 1 : buf[i] = stream[1 + i - 1]
    BY <1>3, <2>1, Slice
  <2> QED
    BY <1>3, <2>2
<1>6. behind \in Seq(Token) /\ \A p \in 1..Len(behind) : p + sock \in 1..Len(stream) /\ behind[p] = stream[p + sock]
  BY <1>3, Skipping
<1> HIDE DEF behind
<1>7. rest \in Seq(Token) /\ \A p \in 1..Len(rest) : p + length' \in 1..Len(behind) /\ rest[p] = behind[p + length']
  BY <1>4, <1>6, Skipping
<1>8. stream' = buf \o rest
  BY DEF TooLarge, behind
<1> HIDE DEF buf, rest
<1>9. /\ stream' \in Seq(Token) /\ Len(stream') = sock + Len(rest)
      /\ \A i \in 1..sock : stream'[i] = buf[i]
      /\ \A i \in 1..Len(rest) : stream'[sock + i] = rest[i]
  BY <1>5, <1>7, <1>8, Concat
<1>10. Len(rest) \in Nat
  BY <1>7
<1>11. Typed'
  <2>1. sock' = sock /\ cur' = cur /\ pc' = "idle" /\ header' = header /\ given' = given /\ message' = message
        /\ first_fragment_opcode' = first_fragment_opcode /\ is_closed' = is_closed /\ await_last_fragment' = await_last_fragment
    BY DEF TooLarge, Return
  <2>2. sock <= Len(stream')
    BY <1>3, <1>9, <1>10
  <2> QED
    BY <1>1, <1>4, <1>9, <2>1, <2>2 DEF Inv, Typed
<1>12. Arrived'
  <2>1. SUFFICES ASSUME NEW p \in 1..Len(stream') PROVE \E q \in p..Len(T) : stream'[p] = T[q]
    BY <1>1 DEF Arrived
  <2>2. CASE p <= sock
    <3>1. p \in 1..sock /\ p \in 1..Len(stream)
      BY <1>3, <2>2
    <3>2. stream'[p] = stream[p]
      BY <1>5, <1>9, <3>1
    <3> QED
      BY <3>1, <3>2 DEF Inv, Arrived
  <2>3. CASE ~(p <= sock)
    <3>1. p - sock \in 1..Len(rest) /\ sock + (p - sock) = p
      BY <1>3, <1>9, <1>10, <2>3
    <3>2. PICK o \in 1..Len(rest) : o = p - sock /\ p = sock + o
      BY <3>1
    <3>3. stream'[p] = rest[o] /\ o + length' \in 1..Len(behind) /\ rest[o] = behind[o + length']
      BY <1>7, <1>9, <3>2
    <3>4. (o + length') + sock \in 1..Len(stream) /\ behind[o + length'] = stream[(o + length') + sock]
      BY <1>6, <3>3
    <3>5. PICK r \in 1..Len(stream) : r = (o + length') + sock
      BY <3>4
    <3>6. stream'[p] = stream[r] /\ p <= r
      BY <1>3, <1>4, <3>2, <3>3, <3>4, <3>5, SMTT(30)
    <3>7. PICK q \in r..Len(T) : stream[r] = T[q]
      BY DEF Inv, Arrived
    <3>8. q \in p..Len(T)
      <4>1. Len(T) \in Nat
        BY <1>1, TokensTyped
      <4> QED
        BY <3>6, <4>1
    <3> QED
      BY <3>6, <3>7, <3>8
  <2> QED
    BY <2>2, <2>3
<1>13. Counted'
  BY <1>1, <1>4 DEF Counted, TooLarge, Return
<1>14. AtFrame' /\ Closing'
  BY DEF AtFrame, Closing, TooLarge, Return
<1> QED
  BY <1>11, <1>12, <1>13, <1>14 DEF Inv

\* The payload of a data frame is read.
LEMMA FragmentRead ==
  ASSUME Inv, Fragment(input[header])
  PROVE  /\ input[header] \in Frames /\ input[header].opcode \in {"Continue", "Text", "Binary"}
         /\ cur' \in Nat /\ sock' \in Nat /\ cur' <= sock' /\ sock' <= Len(stream)
         /\ length' \in Nat /\ length' <= Len(T) /\ length' <= cur' /\ length' <= max_message_size
         /\ Extended(input[header]) \in Seq(Token) /\ Len(Extended(input[header])) = Len(given) + length'
         /\ \A i \in 1..Len(message) : Extended(input[header])[i] = message[i]
         /\ Len(message) <= Len(Extended(input[header]))
<1> DEFINE len == input[header].len
           payload == SubSeq(stream, cur + 1, cur + len)
<1>1. pc = "data" /\ length + len <= max_message_size /\ length' = length + len /\ cur + len <= Len(stream) /\ TakeTokens(len)
  BY DEF Fragment, ReadPayload
<1>2. input[header] \in Frames /\ len \in Nat /\ length + len <= Len(T)
  BY <1>1, CurrentFrame
<1>3. input[header].opcode \in {"Continue", "Text", "Binary"}
  BY <1>1, <1>2 DEF Frames, Inv, AtFrame, is_control
<1>4. Typed /\ cur \in Nat /\ length \in Nat /\ length <= cur /\ Len(message) = Len(given) + length
      /\ message \in Seq(Token) /\ given \in Seq(Token)
  BY <1>1 DEF Inv, Typed, Counted
<1>5. /\ cur' \in Nat /\ sock' \in Nat /\ cur' <= sock' /\ sock' <= Len(stream) /\ cur' = cur + len
      /\ payload \in Seq(Token) /\ Len(payload) = len
  BY <1>1, <1>2, <1>4, Taking
<1>6. Extended(input[header]) = message \o payload
  BY DEF Extended
<1> HIDE DEF payload, len
<1>7. /\ message \o payload \in Seq(Token) /\ Len(message \o payload) = Len(message) + len
      /\ \A i \in 1..Len(message) : (message \o payload)[i] = message[i]
  BY <1>4, <1>5, Concat
<1>8. Len(given) \in Nat /\ Len(message) \in Nat
  BY <1>4
<1>9. length' \in Nat /\ length' <= Len(T) /\ length' <= cur' /\ length' <= max_message_size
  BY <1>1, <1>2, <1>4, <1>5
<1>10. Len(message) + len = Len(given) + length' /\ Len(message) <= Len(message) + len
  BY <1>1, <1>2, <1>4, <1>8
<1> QED
  BY <1>2, <1>3, <1>5, <1>6, <1>7, <1>9, <1>10

\* What the handlers of data frames have in common.
LEMMA DataKeeps ==
  ASSUME Inv, Fragment(input[header]), UNCHANGED <<peer, stream, header, given, is_closed>>,
         pc' \in {"idle", "loop"}, message' \in Seq(Token), pc' = "loop" => message' = Extended(input[header]),
         first_fragment_opcode' \in {"none", "Text", "Binary"}, await_last_fragment' \in BOOLEAN
  PROVE  Inv'
<1>1. Known' /\ T' = T /\ Arrived' /\ max_message_size' = max_message_size
  BY SamePeer
<1>2. /\ cur' \in Nat /\ sock' \in Nat /\ cur' <= sock' /\ sock' <= Len(stream)
      /\ length' \in Nat /\ length' <= Len(T) /\ length' <= cur' /\ length' <= max_message_size
      /\ Len(Extended(input[header])) = Len(given) + length'
  BY FragmentRead
<1>3. Typed'
  BY <1>1, <1>2 DEF Inv, Typed
<1>4. Counted'
  BY <1>1, <1>2 DEF Counted
<1>5. AtFrame' /\ Closing'
  BY DEF AtFrame, Closing
<1> QED
  BY <1>1, <1>3, <1>4, <1>5 DEF Inv

\* Inflated tokens are tokens.
LEMMA Inflated ==
  ASSUME NEW data \in Seq(Token)
  PROVE  Inflate(data) \in Seq(Token)
<1> DEFINE n == 2 * Len(data)
           item(k) == <<data[(k + 1) \div 2][1], data[(k + 1) \div 2][2], 1 + (k % 2)>>
<1>1. Len(data) \in Nat /\ n \in Nat
  OBVIOUS
<1>2. ASSUME NEW k \in 1..n PROVE item(k) \in Token
  <2>1. (k + 1) \div 2 \in 1..Len(data) /\ 1 + (k % 2) \in Nat
    BY <1>1
  <2>2. PICK x \in Token : x = data[(k + 1) \div 2]
    BY <2>1
  <2>3. x[1] \in Nat /\ x[2] \in Nat
    BY DEF Token
  <2> QED
    BY <2>1, <2>2, <2>3 DEF Token
<1>3. Inflate(data) = [k \in 1..n |-> item(k)]
  BY DEF Inflate
<1> HIDE DEF item, n
<1>4. Inflate(data) \in [1..n -> Token]
  BY <1>2, <1>3
<1> QED
  BY <1>1, <1>4

\* Data frames: a fragment that is not expected, the fragments of a message but the last,
\* and the last.
LEMMA DataFramesKeep ==
  ASSUME Inv, OnUnexpected \/ OnFragment \/ OnLast \/ OnLastCorrupt
  PROVE  Inv'
<1> DEFINE frame == input[header]
<1>1. Fragment(frame) /\ UNCHANGED <<peer, stream, header, given, is_closed>>
  BY DEF OnUnexpected, OnFragment, OnLast, OnLastCorrupt, Complete
<1>2. pc' \in {"idle", "loop"} /\ (pc' = "loop" => message' = Extended(frame))
  BY DEF OnUnexpected, OnFragment, OnLast, OnLastCorrupt, Return
<1>3. Extended(frame) \in Seq(Token) /\ frame.opcode \in {"Continue", "Text", "Binary"}
  BY <1>1, FragmentRead
<1>4. Inflate(Extended(frame)) \in Seq(Token)
  BY <1>3, Inflated
<1>5. message' = Extended(frame) \/ message' = Inflate(Extended(frame))
  BY DEF OnUnexpected, OnFragment, OnLast, OnLastCorrupt
<1>6. first_fragment_opcode \in {"none", "Text", "Binary"} /\ await_last_fragment \in BOOLEAN
  BY DEF Inv, Typed
<1>7. first_fragment_opcode' \in {"none", "Text", "Binary"}
  BY <1>3, <1>6 DEF OnUnexpected, OnFragment, OnLast, OnLastCorrupt, Complete
<1>8. await_last_fragment' \in BOOLEAN
  <2>1. CASE OnUnexpected
    BY <1>6, <2>1 DEF OnUnexpected
  <2>2. CASE OnFragment
    BY <2>2 DEF OnFragment
  <2>3. CASE OnLast \/ OnLastCorrupt
    BY <2>3 DEF OnLast, OnLastCorrupt, Complete
  <2> QED
    BY <2>1, <2>2, <2>3
<1> HIDE DEF frame
<1>9. message' \in Seq(Token)
  BY <1>3, <1>4, <1>5
<1> QED
  BY <1>1, <1>2, <1>7, <1>8, <1>9, DataKeeps DEF frame

\* The invariant holds at the start.
LEMMA InvInit ==
  ASSUME Init
  PROVE  Inv
<1>1. Known
  BY DEF Init, Known
<1>2. T \in Seq(Token) /\ Len(T) \in Nat
  BY <1>1, TokensTyped
<1>3. /\ setup.MaxLeft \in Nat /\ setup.Prior \in Nat
  BY <1>1, Setup
<1>4. stream \in Seq(Token) /\ Len(stream) \in Nat /\ Arrived
  <2>1. CASE stream = T
    <3>1. stream \in Seq(Token) /\ Len(stream) \in Nat
      BY <1>2, <2>1
    <3>2. ASSUME NEW p \in 1..Len(stream) PROVE \E q \in p..Len(T) : stream[p] = T[q]
      <4>1. p \in p..Len(T)
        BY <1>2, <2>1
      <4> QED
        BY <2>1, <4>1
    <3> QED
      BY <3>1, <3>2 DEF Arrived
  <2>2. CASE stream = Front(T)
    <3>1. stream = SubSeq(T, 1, Len(T) - 1)
      BY <2>2 DEF Front
    <3>2. T # <<>>
      <4>1. input \in Seq(Frames) /\ Len(input) \in Nat /\ Len(input) # 0
        BY <1>1, Setup, EmptySeq
      <4>2. Len(input) \in 0..Len(input) /\ Len(input) > 0 /\ Len(input) - 1 \in 0..Len(input)
        BY <4>1
      <4>3. /\ input[Len(input)].len \in Nat
            /\ Len(TokensUpTo(input)[Len(input)]) = Len(TokensUpTo(input)[Len(input) - 1]) + 1 + input[Len(input)].len
            /\ Len(TokensUpTo(input)[Len(input) - 1]) \in Nat
        BY <4>1, <4>2, FramePlace
      <4>4. Len(T) > 0
        BY <4>3 DEF T, Tokens
      <4> QED
        BY <4>4
    <3>3. Len(T) > 0
      BY <1>2, <3>2, EmptySeq
    <3>4. 1 \in Nat /\ Len(T) - 1 \in Nat /\ 1 <= 1 /\ 1 <= (Len(T) - 1) + 1 /\ Len(T) - 1 <= Len(T)
      BY <1>2, <3>3
    <3>5. /\ stream \in Seq(Token) /\ Len(stream) = ((Len(T) - 1) - 1) + 1
          /\ \A i \in 1..((Len(T) - 1) - 1) + 1 : stream[i] = T[1 + i - 1]
      BY <1>2, <3>1, <3>4, Slice
    <3>6. Len(stream) \in Nat /\ Len(stream) = Len(T) - 1
      BY <1>2, <3>4, <3>5
    <3>7. ASSUME NEW p \in 1..Len(stream) PROVE \E q \in p..Len(T) : stream[p] = T[q]
      <4>1. p \in p..Len(T) /\ p \in 1..((Len(T) - 1) - 1) + 1 /\ 1 + p - 1 = p
        BY <1>2, <3>6
      <4> QED
        BY <3>5, <4>1
    <3> QED
      BY <3>5, <3>6, <3>7 DEF Arrived
  <2> QED
    BY <2>1, <2>2 DEF Init, T
<1>5. message \in Seq(Token)
  <2> DEFINE n == setup.Prior
  <2>1. \A j \in 1..n : <<0, j, 0>> \in Token
    BY <1>3 DEF Token
  <2>2. message = [j \in 1..n |-> <<0, j, 0>>]
    BY DEF Init
  <2> HIDE DEF n
  <2>3. message \in [1..n -> Token]
    BY <2>1, <2>2
  <2> QED
    BY <1>3, <2>3 DEF n
<1>6. sock \in Nat /\ sock <= Len(stream)
  BY <1>3, <1>4 DEF Init
<1>7. Typed
  <2>1. <<>> \in Seq(Token)
    OBVIOUS
  <2>2. /\ cur = 0 /\ pc = "idle" /\ header = 0 /\ given = <<>> /\ first_fragment_opcode = "none" /\ length = 0
        /\ is_closed = FALSE /\ await_last_fragment = FALSE
    BY DEF Init
  <2>3. cur <= sock
    BY <1>6, <2>2
  <2> QED
    BY <1>1, <1>4, <1>5, <1>6, <2>1, <2>2, <2>3 DEF Typed
<1>8. AtFrame /\ Closing /\ Counted
  BY <1>2 DEF Init, AtFrame, Closing, Counted
<1> QED
  BY <1>4, <1>7, <1>8 DEF Inv

\* Every step preserves it.
LEMMA InvNext ==
  ASSUME Inv, [Next]_vars
  PROVE  Inv'
<1>1. CASE UNCHANGED vars
  <2>1. UNCHANGED <<peer, stream>> /\ UNCHANGED vars
    BY <1>1 DEF vars, peer
  <2>2. Known' /\ T' = T /\ Arrived' /\ max_message_size' = max_message_size /\ input' = input
    BY <2>1, SamePeer DEF peer
  <2>3. Typed'
    BY <2>1, <2>2 DEF Inv, Typed, vars
  <2>4. AtFrame' /\ Closing' /\ Counted'
    BY <2>1, <2>2 DEF Inv, AtFrame, Closing, Counted, vars
  <2> QED
    BY <2>2, <2>3, <2>4 DEF Inv
<1>2. CASE Next
  BY <1>2, ReceiveKeeps, ReceiveClosedKeeps, ReceiveHeaderKeeps, EofKeeps, ControlsKeep, DiscardKeeps, DataFramesKeep DEF Next
<1> QED
  BY <1>1, <1>2

\* The invariant holds always: positions, tokens and the length of the message agree,
\* whatever frames the peer sends.
THEOREM Invariant == Spec => []Inv
<1>1. Init => Inv
  BY InvInit
<1>2. Inv /\ [Next]_vars => Inv'
  BY InvNext
<1> QED
  BY <1>1, <1>2, PTL DEF Spec

\* receive keeps its positions within what has arrived, and a message is open only
\* while it is being received.
THEOREM ReceiverTypes == Spec => []TypeOK
<1>1. Inv => TypeOK
  <2> SUFFICES ASSUME Inv PROVE TypeOK
    OBVIOUS
  <2>1. pc \in {"control", "data"} => header \in 1..Len(input)
    BY CurrentFrame
  <2>2. length <= Len(Tokens(input))
    BY DEF Inv, Counted, T
  <2> QED
    BY <2>1, <2>2 DEF Inv, Typed, TypeOK
<1> QED
  BY <1>1, Invariant, PTL

\* Whatever the fragments of a message, and whatever interrupts them, receive never
\* collects more than max_message_size for a caller.
THEOREM LimitEnforced == Spec => []SizeLimit
<1>1. Inv => SizeLimit
  <2> SUFFICES ASSUME Inv, pc \in {"loop", "data"} PROVE Len(message) - Len(given) <= max_message_size
    BY DEF SizeLimit
  <2>1. Len(message) = Len(given) + length /\ length <= max_message_size /\ length \in Nat /\ max_message_size \in Nat
    BY Setup DEF Inv, Typed, Counted
  <2>2. Len(given) \in Nat
    BY DEF Inv, Typed
  <2> QED
    BY <2>1, <2>2
<1> QED
  BY <1>1, Invariant, PTL

\* Once a CLOSE has been answered, receive neither reads nor writes nor touches the
\* message of its caller.
THEOREM SilentAfterClose == Spec => QuietAfterClose
<1> DEFINE Quiet == is_closed => UNCHANGED <<sock, cur, message, replies>> \/ pc = "idle"
<1>1. ASSUME Inv, [Next]_vars PROVE [Quiet]_vars
  <2>1. SUFFICES ASSUME is_closed, pc # "idle", Next PROVE UNCHANGED <<sock, cur, message, replies>>
    BY <1>1 DEF vars
  <2>2. pc = "loop"
    BY <1>1, <2>1 DEF Inv, Closing
  <2>3. ReceiveClosed
    BY <2>1, <2>2 DEF Next, Receive, ReceiveHeader, Eof, StillOpen, OnPong, OnPing, OnCloseUtf8, OnClose, ReadBuffer,
                      TooLarge, OnUnexpected, OnFragment, OnLast, OnLastCorrupt, Complete, Fragment
  <2> QED
    BY <2>3 DEF ReceiveClosed
<1> HIDE DEF Quiet
<1>2. Spec => [][Quiet]_vars
  BY <1>1, Invariant, PTL DEF Spec
<1> QED
  BY <1>2 DEF QuietAfterClose, Quiet
-----------------------------------------------------------------------------
(* The message is appended to.  Deflate::decode inflates all that is in    *)
(* the message, so this is so unless a caller of a Receiver with the       *)
(* extension passes a message that is not empty.                           *)

Cleared(s) == s.ClearsMessage \/ ~s.has_extensions

\* What was passed is still in front, and nothing was if messages are cleared.
Kept ==
  /\ Len(given) <= Len(message)
  /\ \A i \in 1..Len(given) : message[i] = given[i]
  /\ setup.ClearsMessage => given = <<>>

\* A beginning in terms of SubSeq.
LEMMA KeptInFront ==
  ASSUME Typed, Kept
  PROVE  MessageAppended
<1>1. given \in Seq(Token) /\ message \in Seq(Token) /\ Len(given) \in Nat /\ Len(message) \in Nat /\ Len(given) <= Len(message)
  BY DEF Typed, Kept
<1> DEFINE n == Len(given)
           s == SubSeq(message, 1, n)
<1>2. 1 \in Nat /\ n \in Nat /\ 1 <= 1 /\ 1 <= n + 1 /\ n <= Len(message)
  BY <1>1
<1>3. s \in Seq(Token) /\ Len(s) = (n - 1) + 1 /\ \A i \in 1..(n - 1) + 1 : s[i] = message[1 + i - 1]
  BY <1>1, <1>2, Slice
<1>4. Len(s) = n
  BY <1>2, <1>3
<1>5. ASSUME NEW i \in 1..n PROVE s[i] = given[i]
  <2>1. i \in 1..(n - 1) + 1 /\ 1 + i - 1 = i
    BY <1>2
  <2> QED
    BY <1>3, <2>1 DEF Kept
<1> HIDE DEF s
<1>6. s = given
  BY <1>1, <1>3, <1>4, <1>5, SeqEqual
<1> QED
  BY <1>6 DEF MessageAppended, s

\* Nothing has been passed at first.
LEMMA KeptInit ==
  ASSUME Init
  PROVE  Kept
<1>1. Typed
  BY InvInit DEF Inv
<1>2. given = <<>> /\ Len(given) = 0
  BY DEF Init
<1>3. Len(message) \in Nat
  BY <1>1 DEF Typed
<1> QED
  BY <1>2, <1>3 DEF Kept

\* Every step keeps what was passed.
LEMMA KeptNext ==
  ASSUME Cleared(setup), Inv, Kept, [Next]_vars
  PROVE  Kept'
<1>1. setup' = setup
  BY DEF Next, vars, Receive, ReceiveClosed, ReceiveHeader, Eof, OnPong, OnPing, OnCloseUtf8, OnClose,
         TooLarge, OnUnexpected, OnFragment, OnLast, OnLastCorrupt, Complete, peer
<1>2. CASE UNCHANGED <<given, message>>
  BY <1>1, <1>2 DEF Kept
<1>3. CASE Receive
  <2>1. message \in Seq(Token) /\ Len(message) \in Nat
    BY DEF Inv, Typed
  <2>2. message' \in Seq(Token) /\ given' = message' /\ (setup.ClearsMessage => message' = <<>>)
    BY <1>3, <2>1 DEF Receive
  <2>3. Len(message') \in Nat
    BY <2>2
  <2> QED
    BY <1>1, <2>2, <2>3 DEF Kept
<1>4. CASE OnUnexpected \/ OnFragment \/ OnLast \/ OnLastCorrupt
  <2> DEFINE frame == input[header]
             data == Extended(frame)
  <2>1. Fragment(frame) /\ given' = given
    BY <1>4 DEF OnUnexpected, OnFragment, OnLast, OnLastCorrupt, Complete
  <2>2. data \in Seq(Token) /\ (\A i \in 1..Len(message) : data[i] = message[i]) /\ Len(message) <= Len(data)
    BY <2>1, FragmentRead
  <2>3. message' = data \/ (has_extensions /\ message' = Inflate(data))
    BY <1>4 DEF OnUnexpected, OnFragment, OnLast, OnLastCorrupt, Inflates
  <2> HIDE DEF data
  <2>4. given \in Seq(Token) /\ Len(given) \in Nat /\ Len(message) \in Nat
    BY DEF Inv, Typed
  <2>5. CASE message' = data
    <3>1. Len(data) \in Nat
      BY <2>2
    <3>2. Len(given) <= Len(data) /\ \A i \in 1..Len(given) : data[i] = given[i]
      BY <2>2, <2>4, <3>1 DEF Kept
    <3> QED
      BY <1>1, <2>1, <2>5, <3>2 DEF Kept
  <2>6. CASE has_extensions /\ message' = Inflate(data)
    <3>1. setup.ClearsMessage
      BY <2>6 DEF Cleared, has_extensions
    <3>2. given = <<>> /\ Len(given) = 0
      BY <3>1 DEF Kept
    <3>3. Inflate(data) \in Seq(Token)
      BY <2>2, Inflated
    <3>4. Len(message') \in Nat
      BY <2>6, <3>3
    <3> QED
      BY <1>1, <2>1, <3>2, <3>4 DEF Kept
  <2> QED
    BY <2>3, <2>5, <2>6
<1> QED
  BY <1>2, <1>3, <1>4 DEF Next, vars, local, ReceiveClosed, ReceiveHeader, Eof, OnPong, OnPing, OnCloseUtf8, OnClose, TooLarge

\* Without the extension, or with a message that is empty at every call, receive only
\* ever appends to what its caller passed.
THEOREM OnlyAppends ==
  ASSUME \A c \in Cases : Cleared(c.setup)
  PROVE  Spec => []MessageAppended
<1>1. Init => Kept
  BY KeptInit
<1>2. Inv /\ Kept /\ [Next]_vars => Kept'
  <2>1. Inv => Cleared(setup)
    BY DEF Inv, Typed, Known
  <2> QED
    BY <2>1, KeptNext
<1>3. Inv /\ Kept => MessageAppended
  BY KeptInFront DEF Inv
<1> QED
  BY <1>1, <1>2, <1>3, Invariant, PTL DEF Spec

=============================================================================
