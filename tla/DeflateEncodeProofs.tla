------------------------- MODULE DeflateEncodeProofs -------------------------
(***************************************************************************)
(* Proofs about DeflateEncode, for payloads and vectors of any size.       *)
(***************************************************************************)
EXTENDS DeflateEncode, SequenceTheorems, TLAPS

-----------------------------------------------------------------------------
(* Sequences of bytes.                                                     *)

Byte == {"h", "c", "x", "0", "F"}

\* Two sequences of bytes, one behind the other.
LEMMA Concat ==
  ASSUME NEW s \in Seq(Byte), NEW t \in Seq(Byte)
  PROVE  /\ s \o t \in Seq(Byte) /\ Len(s \o t) = Len(s) + Len(t)
         /\ \A i \in 1..Len(s) : (s \o t)[i] = s[i]
         /\ \A i \in 1..Len(t) : (s \o t)[Len(s) + i] = t[i]
<1>1. Len(s) \in Nat /\ Len(t) \in Nat
  OBVIOUS
<1>2. /\ s \o t \in Seq(Byte) /\ Len(s \o t) = Len(s) + Len(t)
      /\ \A i \in 1..Len(s) + Len(t) : (s \o t)[i] = IF i <= Len(s) THEN s[i] ELSE t[i - Len(s)]
  BY ConcatProperties
<1>3. ASSUME NEW i \in 1..Len(t) PROVE (s \o t)[Len(s) + i] = t[i]
  BY <1>1, <1>2
<1> QED
  BY <1>1, <1>2, <1>3

\* Three sequences of bytes.
LEMMA Associative ==
  ASSUME NEW s \in Seq(Byte), NEW t \in Seq(Byte), NEW u \in Seq(Byte)
  PROVE  (s \o t) \o u = s \o (t \o u)
OBVIOUS

\* A part of a sequence of bytes.
LEMMA Slice ==
  ASSUME NEW s \in Seq(Byte), NEW m \in Nat, NEW n \in Nat, 1 <= m, m <= n + 1, n <= Len(s)
  PROVE  /\ SubSeq(s, m, n) \in Seq(Byte)
         /\ Len(SubSeq(s, m, n)) = (n - m) + 1
         /\ \A i \in 1..(n - m) + 1 : SubSeq(s, m, n)[i] = s[m + i - 1]
<1>1. \A i \in m..n : s[i] \in Byte
  OBVIOUS
<1>2. /\ SubSeq(s, m, n) \in Seq(Byte)
      /\ Len(SubSeq(s, m, n)) = IF m <= n THEN n - m + 1 ELSE 0
      /\ \A i \in 1..n - m + 1 : SubSeq(s, m, n)[i] = s[m + i - 1]
  BY <1>1, SubSeqProperties
<1> QED
  BY <1>2

\* A sequence that is cut in two.
LEMMA CutInTwo ==
  ASSUME NEW s \in Seq(Byte), NEW w \in Nat, w <= Len(s)
  PROVE  /\ SubSeq(s, 1, w) \in Seq(Byte) /\ Len(SubSeq(s, 1, w)) = w
         /\ SubSeq(s, w + 1, Len(s)) \in Seq(Byte) /\ Len(SubSeq(s, w + 1, Len(s))) = Len(s) - w
         /\ SubSeq(s, 1, w) \o SubSeq(s, w + 1, Len(s)) = s
<1>1. Len(s) \in Nat
  OBVIOUS
<1>2. SubSeq(s, 1, w) \in Seq(Byte) /\ Len(SubSeq(s, 1, w)) = (w - 1) + 1
  BY <1>1, Slice
<1>3. w + 1 \in Nat /\ 1 <= w + 1 /\ w + 1 <= Len(s) + 1
  BY <1>1
<1>4. SubSeq(s, w + 1, Len(s)) \in Seq(Byte) /\ Len(SubSeq(s, w + 1, Len(s))) = (Len(s) - (w + 1)) + 1
  BY <1>1, <1>3, Slice
<1>5. 1 \in 1..Len(s) + 1 /\ w \in 1 - 1..Len(s) /\ Len(s) \in w..Len(s)
  BY <1>1
<1>6. SubSeq(s, 1, w) \o SubSeq(s, w + 1, Len(s)) = SubSeq(s, 1, Len(s))
  BY <1>5, ConcatAdjacentSubSeq
<1>7. SubSeq(s, 1, Len(s)) = s
  BY SubSeqFull
<1>8. (w - 1) + 1 = w /\ (Len(s) - (w + 1)) + 1 = Len(s) - w
  BY <1>1
<1>9. SubSeq(s, 1, w) \o SubSeq(s, w + 1, Len(s)) = s
  BY <1>6, <1>7, Zenon
<1> QED
  BY <1>2, <1>4, <1>8, <1>9, Zenon

\* The four bytes from i on are those that encode looks for.
Has4(s, i) == s[i] = "0" /\ s[i + 1] = "0" /\ s[i + 2] = "F" /\ s[i + 3] = "F"

\* What encode looks for at the end of its buffer.
LEMMA SuffixIs ==
  ASSUME NEW s \in Seq(Byte)
  PROVE  IsSuffix(Tail4, s) <=> Len(s) >= 4 /\ Has4(s, Len(s) - 3)
<1> DEFINE n == Len(s)
           r == Reverse(s)
           t == Reverse(Tail4)
<1>1. n \in Nat /\ Len(Tail4) = 4
  BY DEF Tail4
<1>2. r = [i \in 1..n |-> s[(n - i) + 1]]
  BY DEF Reverse
<1>3. r \in Seq(Byte) /\ Len(r) = n
  <2>1. \A i \in 1..n : (n - i) + 1 \in 1..n
    BY <1>1
  <2>2. \A i \in 1..n : s[(n - i) + 1] \in Byte
    BY <2>1
  <2> QED
    BY <1>1, <1>2, <2>2, IsASeq, LenProperties
<1>4. t \in Seq(Byte) /\ Len(t) = 4 /\ t[1] = "F" /\ t[2] = "F" /\ t[3] = "0" /\ t[4] = "0"
  <2>1. t = [i \in 1..4 |-> Tail4[(4 - i) + 1]]
    BY <1>1 DEF Reverse
  <2>2. Tail4[1] = "0" /\ Tail4[2] = "0" /\ Tail4[3] = "F" /\ Tail4[4] = "F"
    BY DEF Tail4
  <2>3. \A i \in 1..4 : Tail4[(4 - i) + 1] \in Byte
    BY <2>2 DEF Byte
  <2>4. t \in Seq(Byte) /\ Len(t) = 4
    BY <2>1, <2>3, IsASeq, LenProperties
  <2> QED
    BY <2>1, <2>2, <2>4
<1>5. SubSeq(t, 1, Len(t)) = t
  BY <1>4, SubSeqFull
<1>6. IsSuffix(Tail4, s) <=> 4 <= n /\ t = SubSeq(r, 1, 4)
  BY <1>3, <1>4, <1>5 DEF IsSuffix, IsPrefix
<1>7. CASE ~(4 <= n)
  BY <1>1, <1>6, <1>7
<1>8. CASE 4 <= n
  <2>1. /\ SubSeq(r, 1, 4) \in Seq(Byte) /\ Len(SubSeq(r, 1, 4)) = 4
        /\ \A i \in 1..4 : SubSeq(r, 1, 4)[i] = r[i]
    BY <1>1, <1>3, <1>8, Slice
  <2>2. r[1] = s[n] /\ r[2] = s[n - 1] /\ r[3] = s[n - 2] /\ r[4] = s[n - 3]
    <3>1. 1 \in 1..n /\ 2 \in 1..n /\ 3 \in 1..n /\ 4 \in 1..n
      BY <1>1, <1>8
    <3>2. (n - 1) + 1 = n /\ (n - 2) + 1 = n - 1 /\ (n - 3) + 1 = n - 2 /\ (n - 4) + 1 = n - 3
      BY <1>1
    <3> QED
      BY <1>2, <3>1, <3>2
  <2> DEFINE q == SubSeq(r, 1, 4)
  <2>3. q[1] = s[n] /\ q[2] = s[n - 1] /\ q[3] = s[n - 2] /\ q[4] = s[n - 3]
    BY <2>1, <2>2
  <2> HIDE DEF q, t
  <2>4. t = q <=> t[1] = q[1] /\ t[2] = q[2] /\ t[3] = q[3] /\ t[4] = q[4]
    <3>1. q \in Seq(Byte) /\ Len(q) = 4
      BY <2>1 DEF q
    <3>2. ASSUME t[1] = q[1], t[2] = q[2], t[3] = q[3], t[4] = q[4] PROVE t = q
      <4>1. \A i \in 1..4 : t[i] = q[i]
        BY <3>2
      <4> QED
        BY <1>4, <3>1, <4>1, SeqEqual
    <3> QED
      BY <3>2
  <2>5. (n - 3) + 1 = n - 2 /\ (n - 3) + 2 = n - 1 /\ (n - 3) + 3 = n
    BY <1>1
  <2>6. t = q <=> Has4(s, n - 3)
    BY <1>4, <2>3, <2>4, <2>5 DEF Has4
  <2> QED
    BY <1>1, <1>6, <1>8, <2>6 DEF q
<1> QED
  BY <1>7, <1>8

-----------------------------------------------------------------------------
(* The inductive invariant.                                                *)

Zlibs == [total_in : Nat, held : Seq(Byte), pending : Seq(Byte), markers : Nat, wrote : Seq(Byte)]

Types ==
  /\ pc \in {"idle", "compress", "flush"}
  /\ header \in [opcode : {"Text", "Ping"}, rsv1 : BOOLEAN]
  /\ data \in [bytes : Seq(Byte), cap : Nat, owned : BOOLEAN, plain : Nat]
  /\ buffer \in Seq(Byte) /\ cap \in Nat
  /\ zlib \in Zlibs
  /\ calls \in 0..MaxCalls

\* All that the compressor has produced.
Output == zlib.wrote \o zlib.pending

\* In the loops of encode the buffer holds what the compressor has written, and the
\* first loop does not flush.
Progress == pc # "idle" =>
  /\ buffer = zlib.wrote
  /\ data.plain = Len(data.bytes) /\ zlib.total_in <= Len(data.bytes)
  /\ pc = "compress" => zlib.markers = 0
  /\ pc = "flush" => zlib.total_in = Len(data.bytes)

\* An empty block has been begun: there is nothing else left, and it ends the output.
Ended(z) ==
  /\ z.held = <<>> /\ Len(z.pending) <= 4
  /\ LET out == z.wrote \o z.pending
     IN  Len(out) >= 5 /\ \A i \in 1..5 : out[(Len(out) - 5) + i] = Empty[i]

\* The vector grows with each empty block, so the third one fits.
Marked ==
  /\ zlib.markers <= 3
  /\ pc # "idle" /\ zlib.markers > 0 =>
       /\ Ended(zlib)
       /\ zlib.pending # <<>> => Len(buffer) = cap
       /\ cap >= 5 /\ (zlib.markers = 2 => cap >= 10)
       /\ zlib.markers = 3 => zlib.pending = <<>>

\* What is in the vectors fits.
Fits == Len(buffer) <= cap /\ Len(data.bytes) <= data.cap

TypesInv == Types /\ Fits /\ Progress /\ Marked

-----------------------------------------------------------------------------
(* The compressor.                                                         *)

\* What compress_vec does to the buffer and the compressor.
Wrote(room, n, rest, out, m) ==
  /\ buffer' \in Seq(Byte) /\ zlib' \in Zlibs /\ buffer' = zlib'.wrote
  /\ Len(buffer') = Len(buffer) + (IF room < Len(out) THEN room ELSE Len(out))
  /\ Len(zlib'.pending) = (IF room < Len(out) THEN Len(out) - room ELSE 0)
  /\ zlib'.total_in = zlib.total_in + n /\ zlib'.held = rest /\ zlib'.markers = zlib.markers + m
  /\ Output' = zlib.wrote \o out

\* compress_vec writes as much as there is room for and keeps the rest.
LEMMA AfterIs ==
  ASSUME Types, buffer = zlib.wrote, NEW room \in Nat, NEW n \in Nat, NEW rest \in Seq(Byte),
         NEW out \in Seq(Byte), NEW m \in Nat, After(room, n, rest, out, m)
  PROVE  Wrote(room, n, rest, out, m)
<1> DEFINE w == IF room < Len(out) THEN room ELSE Len(out)
           a == SubSeq(out, 1, w)
           b == SubSeq(out, w + 1, Len(out))
<1>1. Len(out) \in Nat /\ w \in Nat /\ w <= Len(out)
  OBVIOUS
<1>2. /\ buffer' = buffer \o a
      /\ zlib' = [total_in |-> zlib.total_in + n, held |-> rest, pending |-> b,
                  markers |-> zlib.markers + m, wrote |-> zlib.wrote \o a]
  BY DEF After, Smaller
<1> HIDE DEF w
<1>3. a \in Seq(Byte) /\ Len(a) = w /\ b \in Seq(Byte) /\ Len(b) = Len(out) - w /\ a \o b = out
  BY <1>1, CutInTwo
<1> HIDE DEF a, b
<1>4. /\ zlib.wrote \in Seq(Byte) /\ zlib.total_in \in Nat /\ zlib.markers \in Nat
      /\ zlib.total_in + n \in Nat /\ zlib.markers + m \in Nat
  BY DEF Types, Zlibs
<1>5. zlib.wrote \o a \in Seq(Byte) /\ Len(zlib.wrote \o a) = Len(zlib.wrote) + w
  BY <1>3, <1>4, Concat
<1>6. zlib' \in Zlibs
  BY <1>2, <1>3, <1>4, <1>5 DEF Zlibs
<1>7. /\ zlib'.total_in = zlib.total_in + n /\ zlib'.held = rest /\ zlib'.pending = b
      /\ zlib'.markers = zlib.markers + m /\ zlib'.wrote = zlib.wrote \o a
  BY <1>2
<1>8. (zlib.wrote \o a) \o b = zlib.wrote \o (a \o b)
  BY <1>3, <1>4, Associative
<1>9. Output' = zlib.wrote \o out
  BY <1>3, <1>7, <1>8, Zenon DEF Output
<1>10. Len(b) = IF room < Len(out) THEN Len(out) - room ELSE 0
  BY <1>1, <1>3 DEF w
<1>11. Len(buffer') = Len(buffer) + w
  BY <1>2, <1>5
<1>12. buffer' \in Seq(Byte) /\ buffer' = zlib'.wrote
  BY <1>2, <1>5, <1>7
<1>13. Len(zlib'.pending) = (IF room < Len(out) THEN Len(out) - room ELSE 0)
  BY <1>7, <1>10
<1>14. Len(buffer') = Len(buffer) + (IF room < Len(out) THEN room ELSE Len(out))
  BY <1>11 DEF w
<1> QED
  BY <1>6, <1>7, <1>9, <1>12, <1>13, <1>14 DEF Wrote

\* The empty sequence, and those of one byte.
LEMMA OneByte ==
  /\ <<>> \in Seq(Byte) /\ Len(<<>>) = 0
  /\ <<"h">> \in Seq(Byte) /\ Len(<<"h">>) = 1 /\ <<"h">>[1] = "h"
BY DEF Byte

\* The empty block.
LEMMA EmptyIs ==
  /\ Empty \in Seq(Byte) /\ Len(Empty) = 5
  /\ Empty[1] = "h" /\ Empty[2] = "0" /\ Empty[3] = "0" /\ Empty[4] = "F" /\ Empty[5] = "F"
BY DEF Empty, Byte

\* A block is a sequence of bytes, and there is none without input.
LEMMA BlockIs ==
  ASSUME NEW bytes \in Seq(Byte), NEW block \in Blocks(bytes)
  PROVE  block \in Seq(Byte) /\ (bytes = <<>> => block = <<>>)
<1>1. <<"h">> \o bytes \in Seq(Byte)
  BY OneByte, Concat
<1>2. Coded \subseteq Seq(Byte)
  <2>1. {"c", "0", "F"} \subseteq Byte
    BY DEF Byte
  <2>2. Seq({"c", "0", "F"}) \subseteq Seq(Byte)
    BY <2>1, SeqMonotonic
  <2> QED
    BY <2>2, DeflateEncodeAssumption
<1> QED
  BY <1>1, <1>2, OneByte DEF Blocks

\* Vec::reserve makes room, and at least doubles the capacity if it has to grow.
LEMMA ReserveIs ==
  ASSUME NEW len \in Nat, NEW capacity \in Nat, NEW n \in Nat, len <= capacity
  PROVE  LET r == Reserve(len, capacity, n) IN
         /\ r \in Nat /\ r >= capacity /\ r >= len + n
         /\ r = capacity \/ r >= 2 * capacity
BY DEF Reserve, Larger

\* A round of the first loop: the compressor takes no more than there is.
LEMMA CompressNoneIs ==
  ASSUME Types, Progress, pc = "compress", NEW room \in Nat,
         CompressNone(room, SubSeq(data.bytes, zlib.total_in + 1, Len(data.bytes)))
  PROVE  \E n \in Nat, rest \in Seq(Byte), out \in Seq(Byte) :
           After(room, n, rest, out, 0) /\ zlib.total_in + n <= Len(data.bytes)
<1> DEFINE d == data.bytes
           taken == zlib.total_in
           held == zlib.held
           input == SubSeq(d, taken + 1, Len(d))
<1>1. /\ d \in Seq(Byte) /\ Len(d) \in Nat /\ taken \in Nat /\ taken <= Len(d) /\ held \in Seq(Byte) /\ Len(held) \in Nat
      /\ zlib.pending \in Seq(Byte)
  BY DEF Types, Zlibs, Progress
<1>2. PICK n \in 0..Len(input) :
        \E j \in 0..Len(held \o SubSeq(input, 1, n)) :
        \E block \in Blocks(SubSeq(held \o SubSeq(input, 1, n), 1, j)) :
          After(room, n, SubSeq(held \o SubSeq(input, 1, n), j + 1, Len(held \o SubSeq(input, 1, n))), zlib.pending \o block, 0)
  BY DEF CompressNone
<1>3. input \in Seq(Byte) /\ Len(input) = Len(d) - taken
  BY <1>1, CutInTwo
<1> HIDE DEF input
<1>4. n \in Nat /\ n <= Len(input) /\ taken + n <= Len(d)
  BY <1>1, <1>2, <1>3
<1> DEFINE part == SubSeq(input, 1, n)
<1>5. part \in Seq(Byte) /\ Len(part) = n
  BY <1>3, <1>4, CutInTwo
<1> DEFINE all == held \o part
<1>6. PICK j \in 0..Len(all) : \E block \in Blocks(SubSeq(all, 1, j)) :
        After(room, n, SubSeq(all, j + 1, Len(all)), zlib.pending \o block, 0)
  BY <1>2
<1> HIDE DEF part
<1>7. all \in Seq(Byte) /\ Len(all) \in Nat
  BY <1>1, <1>5, Concat
<1>8. PICK block \in Blocks(SubSeq(all, 1, j)) : After(room, n, SubSeq(all, j + 1, Len(all)), zlib.pending \o block, 0)
  BY <1>6
<1> DEFINE pre == SubSeq(all, 1, j)
           rest == SubSeq(all, j + 1, Len(all))
           out == zlib.pending \o block
<1>9. j \in Nat /\ j <= Len(all)
  BY <1>6, <1>7
<1>10. pre \in Seq(Byte) /\ rest \in Seq(Byte)
  <2> HIDE DEF all
  <2> QED
    BY <1>7, <1>9, CutInTwo
<1>11. block \in Seq(Byte)
  <2> HIDE DEF pre
  <2>1. block \in Blocks(pre)
    BY <1>8 DEF pre
  <2> QED
    BY <1>10, <2>1, BlockIs
<1>12. out \in Seq(Byte)
  BY <1>1, <1>11, Concat
<1> HIDE DEF rest, out, all, pre
<1>13. After(room, n, rest, out, 0)
  BY <1>8 DEF rest, out
<1> QED
  BY <1>4, <1>10, <1>12, <1>13

\* A round of the second loop: an empty block is begun or not, and behind an empty block
\* there is nothing but another one.
LEMMA CompressSyncIs ==
  ASSUME Types, Progress, Marked, pc = "flush", NEW room \in Nat, room >= 5, CompressSync(room)
  PROVE  \E rest \in Seq(Byte), out \in Seq(Byte), m \in {0, 1} :
           /\ After(room, 0, rest, out, m)
           /\ m = 0 => zlib.markers = 0
           /\ m = 1 => /\ rest = <<>>
                       /\ \E pre \in Seq(Byte) : /\ out = pre \o Empty /\ Len(pre) < room
                                                 /\ zlib.markers > 0 => pre = zlib.pending
<1> DEFINE p == zlib.pending
           held == zlib.held
           Is(rest, o, m) ==
             /\ After(room, 0, rest, o, m)
             /\ m = 0 => zlib.markers = 0
             /\ m = 1 => /\ rest = <<>>
                         /\ \E pre \in Seq(Byte) : /\ o = pre \o Empty /\ Len(pre) < room
                                                   /\ zlib.markers > 0 => pre = zlib.pending
<1> SUFFICES \E rest \in Seq(Byte), o \in Seq(Byte), m \in {0, 1} : Is(rest, o, m)
  OBVIOUS
<1>1. /\ zlib.wrote \in Seq(Byte) /\ p \in Seq(Byte) /\ Len(p) \in Nat /\ held \in Seq(Byte) /\ Len(held) \in Nat
      /\ zlib.markers \in Nat /\ zlib.total_in \in Nat /\ data.bytes \in Seq(Byte)
  BY DEF Types, Zlibs
<1>2. zlib.markers > 0 => held = <<>> /\ Len(p) <= 4
  BY DEF Marked, Ended
<1>3. CASE Len(p) >= room
  <2>1. After(room, 0, held, p, 0)
    BY <1>3 DEF CompressSync
  <2>2. zlib.markers = 0
    <3>1. ~(zlib.markers > 0)
      BY <1>1, <1>2, <1>3
    <3> QED
      BY <1>1, <3>1
  <2>3. Is(held, p, 0)
    BY <2>1, <2>2
  <2> HIDE DEF Is
  <2> QED
    BY <1>1, <2>3
<1>4. CASE ~(Len(p) >= room)
  <2>1. PICK block \in Blocks(held) :
          IF block # <<>> /\ Len(p \o block) >= room THEN After(room, 0, <<>>, p \o block, 0)
          ELSE After(room, 0, <<>>, (p \o block) \o Empty, 1)
    BY <1>4 DEF CompressSync
  <2> DEFINE out == p \o block
  <2>2. block \in Seq(Byte) /\ (held = <<>> => block = <<>>)
    BY <1>1, <2>1, BlockIs
  <2>3. out \in Seq(Byte) /\ Len(out) = Len(p) + Len(block) /\ Len(out) \in Nat
    BY <1>1, <2>2, Concat
  <2>4. CASE block # <<>> /\ Len(out) >= room
    <3>1. After(room, 0, <<>>, out, 0)
      BY <2>1, <2>4
    <3>2. zlib.markers = 0
      <4>1. ~(zlib.markers > 0)
        BY <1>2, <2>2, <2>4
      <4> QED
        BY <1>1, <4>1
    <3>3. <<>> \in Seq(Byte)
      OBVIOUS
    <3> HIDE DEF out
    <3>4. Is(<<>>, out, 0)
      BY <3>1, <3>2
    <3> HIDE DEF Is
    <3> QED
      BY <2>3, <3>3, <3>4
  <2>5. CASE ~(block # <<>> /\ Len(out) >= room)
    <3>1. After(room, 0, <<>>, out \o Empty, 1)
      BY <2>1, <2>5
    <3>2. block = <<>> => out = p
      BY <1>1, ConcatEmptySeq
    <3>3. Len(out) < room
      <4>1. CASE block = <<>>
        BY <1>1, <1>4, <3>2, <4>1
      <4>2. CASE block # <<>>
        BY <2>3, <2>5, <4>2
      <4> QED
        BY <4>1, <4>2
    <3>4. zlib.markers > 0 => out = p
      BY <1>2, <2>2, <3>2
    <3>5. out \o Empty \in Seq(Byte)
      BY <2>3, EmptyIs, Concat
    <3>6. <<>> \in Seq(Byte)
      OBVIOUS
    <3> HIDE DEF out
    <3>7. Is(<<>>, out \o Empty, 1)
      BY <2>3, <3>1, <3>3, <3>4
    <3> HIDE DEF Is
    <3> QED
      BY <3>5, <3>6, <3>7
  <2> QED
    BY <2>4, <2>5
<1> QED
  BY <1>3, <1>4

\* When the output ends with an empty block, the buffer ends with the marker exactly if
\* all of it has been written.
LEMMA MarkerWritten ==
  ASSUME Types, Ended(zlib)
  PROVE  IsSuffix(Tail4, zlib.wrote) <=> zlib.pending = <<>>
<1> DEFINE a == zlib.wrote
           b == zlib.pending
           out == a \o b
<1>1. a \in Seq(Byte) /\ b \in Seq(Byte)
  BY DEF Types, Zlibs
<1>2. /\ out \in Seq(Byte) /\ Len(out) = Len(a) + Len(b)
      /\ \A i \in 1..Len(a) : out[i] = a[i]
  BY <1>1, Concat
<1>3. Len(b) <= 4 /\ Len(out) >= 5 /\ \A i \in 1..5 : out[(Len(out) - 5) + i] = Empty[i]
  BY DEF Ended
<1>4. PICK n \in Nat, k \in Nat : n = Len(a) /\ k = Len(b)
  BY <1>1
<1> HIDE DEF out, a, b
<1>5. Len(out) = n + k /\ k <= 4 /\ n + k >= 5
  BY <1>2, <1>3, <1>4
<1>6. \A i \in 1..5 : out[((n + k) - 5) + i] = Empty[i]
  BY <1>3, <1>5
<1>7. IsSuffix(Tail4, a) <=> n >= 4 /\ Has4(a, n - 3)
  BY <1>1, <1>4, SuffixIs
<1>8. CASE k = 0
  <2>1. b = <<>>
    BY <1>1, <1>4, <1>8, EmptySeq
  <2>2. (n - 5) + 2 = n - 3 /\ (n - 5) + 3 = (n - 3) + 1 /\ (n - 5) + 4 = (n - 3) + 2 /\ (n - 5) + 5 = (n - 3) + 3
    OBVIOUS
  <2>3. (n + k) - 5 = n - 5 /\ n >= 4
    BY <1>5, <1>8
  <2>4. out[(n - 5) + 2] = "0" /\ out[(n - 5) + 3] = "0" /\ out[(n - 5) + 4] = "F" /\ out[(n - 5) + 5] = "F"
    BY <1>6, <2>3, EmptyIs
  <2>5. n - 3 \in 1..n /\ (n - 3) + 1 \in 1..n /\ (n - 3) + 2 \in 1..n /\ (n - 3) + 3 \in 1..n
    BY <2>3
  <2>6. out[n - 3] = a[n - 3] /\ out[(n - 3) + 1] = a[(n - 3) + 1] /\ out[(n - 3) + 2] = a[(n - 3) + 2]
        /\ out[(n - 3) + 3] = a[(n - 3) + 3]
    BY <1>2, <1>4, <2>5
  <2>7. Has4(a, n - 3)
    BY <2>2, <2>4, <2>6 DEF Has4
  <2> QED
    BY <1>7, <2>1, <2>3, <2>7 DEF a, b
<1>9. CASE k > 0
  <2>1. b # <<>>
    BY <1>1, <1>4, <1>9, EmptySeq
  <2>2. ASSUME n >= 4, Has4(a, n - 3) PROVE FALSE
    <3>1. n - 3 \in 1..n /\ (n - 3) + 3 \in 1..n
      BY <2>2
    <3>2. out[(n - 3) + 3] = "F" /\ out[n - 3] = "0"
      BY <1>2, <1>4, <2>2, <3>1 DEF Has4
    <3>3. 5 - k \in 1..5 /\ ((n + k) - 5) + (5 - k) = (n - 3) + 3
      BY <1>5, <1>9
    <3>4. Empty[5 - k] = "F"
      BY <1>6, <3>2, <3>3
    <3>5. k = 1
      <4>1. 5 - k = 1 \/ 5 - k = 2 \/ 5 - k = 3 \/ 5 - k = 4
        BY <1>5, <1>9
      <4>2. 5 - k = 4
        BY <3>4, <4>1, EmptyIs
      <4> QED
        BY <4>2
    <3>6. ((n + k) - 5) + 1 = n - 3
      BY <3>5
    <3>7. out[((n + k) - 5) + 1] = Empty[1]
      BY <1>6
    <3> QED
      BY <3>2, <3>6, <3>7, EmptyIs
  <2> QED
    BY <1>7, <2>1, <2>2 DEF a, b
<1> QED
  BY <1>8, <1>9

\* An output that ends with another empty block.
LEMMA EndsWithEmpty ==
  ASSUME NEW s \in Seq(Byte)
  PROVE  LET out == s \o Empty
         IN  out \in Seq(Byte) /\ Len(out) >= 5 /\ \A i \in 1..5 : out[(Len(out) - 5) + i] = Empty[i]
<1> DEFINE out == s \o Empty
<1>1. out \in Seq(Byte) /\ Len(out) = Len(s) + 5 /\ \A i \in 1..5 : out[Len(s) + i] = Empty[i]
  BY EmptyIs, Concat
<1> HIDE DEF out
<1>2. Len(s) \in Nat
  OBVIOUS
<1>3. (Len(out) - 5) = Len(s) /\ Len(out) >= 5
  BY <1>1, <1>2
<1>4. out \in Seq(Byte) /\ Len(out) >= 5 /\ \A i \in 1..5 : out[(Len(out) - 5) + i] = Empty[i]
  BY <1>1, <1>3
<1> QED
  BY <1>4 DEF out

-----------------------------------------------------------------------------
(* The invariant holds.                                                    *)

\* Payloads are bytes.
LEMMA DataBytes == Datas \subseteq Seq(Byte)
<1>1. {"x", "0", "F"} \subseteq Byte
  BY DEF Byte
<1>2. Seq({"x", "0", "F"}) \subseteq Seq(Byte)
  BY <1>1, SeqMonotonic
<1> QED
  BY <1>2, DeflateEncodeAssumption

\* Deflate::new
LEMMA InvInit == Init => TypesInv /\ FlushedIsWhole
<1> SUFFICES ASSUME Init PROVE TypesInv /\ FlushedIsWhole
  OBVIOUS
<1>1. MaxCalls \in Nat /\ <<>> \in Seq(Byte) /\ Len(<<>>) = 0
  BY DeflateEncodeAssumption
<1>2. NewZlib \in Zlibs /\ NewZlib.markers = 0
  BY <1>1 DEF NewZlib, Zlibs
<1>3. Types
  BY <1>1, <1>2 DEF Init, Types
<1>4. Fits
  BY <1>1 DEF Init, Fits
<1>5. Progress /\ FlushedIsWhole
  BY DEF Init, Progress, FlushedIsWhole
<1>6. Marked
  BY <1>2 DEF Init, Marked
<1> QED
  BY <1>3, <1>4, <1>5, <1>6 DEF TypesInv

\* This gives the type invariant that the run checks.
LEMMA TypesGiveTypeOK == TypesInv => TypeOK
<1> SUFFICES ASSUME TypesInv PROVE TypeOK
  OBVIOUS
<1>1. MaxCalls \in Nat
  BY DeflateEncodeAssumption
<1>2. header.opcode \in {"Text", "Ping"} /\ header.rsv1 \in BOOLEAN /\ calls <= MaxCalls
  BY <1>1 DEF TypesInv, Types
<1> QED
  BY <1>2 DEF TypesInv, Types, Fits, Progress, TypeOK

\* The beginning of encode.
LEMMA EncodeKeeps ==
  ASSUME TypesInv, NEW opcode \in {"Text", "Ping"}, NEW bytes \in Datas, NEW spare \in Spares, NEW owned \in BOOLEAN,
         Encode(opcode, bytes, spare, owned)
  PROVE  TypesInv' /\ FlushedIsWhole'
<1>1. /\ bytes \in Seq(Byte) /\ Len(bytes) \in Nat /\ spare \in Nat /\ MaxCalls \in Nat /\ calls \in Nat /\ calls < MaxCalls
      /\ buffer \in Seq(Byte) /\ cap \in Nat /\ Len(buffer) <= cap
  BY DataBytes, DeflateEncodeAssumption DEF TypesInv, Types, Fits, Encode
<1>2. /\ calls' = calls + 1 /\ calls' \in 0..MaxCalls
      /\ header' = [opcode |-> opcode, rsv1 |-> FALSE]
      /\ header' \in [opcode : {"Text", "Ping"}, rsv1 : BOOLEAN] /\ header'.rsv1 = FALSE
      /\ data' = [bytes |-> bytes, cap |-> Len(bytes) + spare, owned |-> owned, plain |-> Len(bytes)]
  BY <1>1 DEF Encode
<1>3. /\ data' \in [bytes : Seq(Byte), cap : Nat, owned : BOOLEAN, plain : Nat]
      /\ data'.bytes = bytes /\ data'.plain = Len(bytes) /\ Len(data'.bytes) <= data'.cap
  BY <1>1, <1>2
<1>4. FlushedIsWhole'
  BY <1>2 DEF FlushedIsWhole
<1>5. CASE bytes = <<>> \/ opcode # "Text"
  <2>1. pc' = "idle" /\ buffer' = buffer /\ cap' = cap /\ zlib' = zlib
    BY <1>5 DEF Encode
  <2>2. Types'
    BY <1>2, <1>3, <2>1 DEF TypesInv, Types
  <2>3. Progress'
    BY <2>1 DEF Progress
  <2>4. Marked'
    BY <2>1 DEF TypesInv, Marked
  <2>5. Fits'
    BY <1>1, <1>3, <2>1 DEF Fits
  <2> QED
    BY <1>4, <2>2, <2>3, <2>4, <2>5 DEF TypesInv
<1>6. CASE ~(bytes = <<>> \/ opcode # "Text")
  <2>1. pc' = "compress" /\ buffer' = <<>> /\ cap' = Reserve(0, cap, Len(bytes)) /\ zlib' = NewZlib
    <3>1. Len(<<>>) = 0
      OBVIOUS
    <3> QED
      BY <1>6, <3>1 DEF Encode, Cleared, Encoder
  <2>2. cap' \in Nat /\ <<>> \in Seq(Byte) /\ Len(<<>>) = 0
    BY <1>1, <2>1, ReserveIs
  <2>3. /\ zlib' \in Zlibs /\ zlib'.wrote = <<>> /\ zlib'.pending = <<>> /\ zlib'.held = <<>>
        /\ zlib'.markers = 0 /\ zlib'.total_in = 0
    BY <2>1, <2>2 DEF NewZlib, Zlibs
  <2>4. Types'
    BY <1>2, <1>3, <2>1, <2>2, <2>3 DEF Types
  <2>5. Progress'
    BY <1>1, <1>3, <2>1, <2>3 DEF Progress
  <2>6. Marked'
    BY <2>3 DEF Marked
  <2>7. Fits'
    BY <1>3, <2>1, <2>2 DEF Fits
  <2> QED
    BY <1>4, <2>4, <2>5, <2>6, <2>7 DEF TypesInv
<1> QED
  BY <1>5, <1>6

\* The first loop.
LEMMA CompressKeeps ==
  ASSUME TypesInv, Compress
  PROVE  TypesInv' /\ FlushedIsWhole'
<1>1. /\ Types /\ Fits /\ Progress /\ Marked /\ pc = "compress" /\ pc' = "compress"
      /\ header' = header /\ data' = data /\ calls' = calls
  BY DEF TypesInv, Compress
<1>2. /\ buffer \in Seq(Byte) /\ Len(buffer) \in Nat /\ cap \in Nat /\ Len(buffer) <= cap /\ Len(data.bytes) <= data.cap
      /\ zlib.markers = 0 /\ zlib.markers \in Nat /\ buffer = zlib.wrote /\ data.plain = Len(data.bytes)
      /\ zlib.total_in \in Nat
  BY <1>1 DEF Types, Zlibs, Fits, Progress
<1>3. FlushedIsWhole'
  BY <1>1 DEF FlushedIsWhole
<1>4. CASE cap = Len(buffer)
  <2>1. cap' = Reserve(Len(buffer), cap, RESERVE) /\ buffer' = buffer /\ zlib' = zlib
    BY <1>4 DEF Compress
  <2>2. cap' \in Nat /\ cap' >= cap
    BY <1>2, <2>1, ReserveIs, DeflateEncodeAssumption
  <2>3. Types'
    BY <1>1, <2>1, <2>2 DEF Types
  <2>4. Progress'
    BY <1>1, <2>1 DEF Progress
  <2>5. Marked'
    BY <1>2, <2>1 DEF Marked
  <2>6. Len(buffer') <= cap' /\ Len(data'.bytes) <= data'.cap
    BY <1>1, <1>2, <2>1, <2>2
  <2>7. Fits'
    BY <2>6 DEF Fits
  <2> QED
    BY <1>3, <2>3, <2>4, <2>5, <2>7 DEF TypesInv
<1>5. CASE cap # Len(buffer)
  <2>1. cap' = cap /\ CompressNone(cap - Len(buffer), SubSeq(data.bytes, zlib.total_in + 1, Len(data.bytes)))
    BY <1>5 DEF Compress
  <2>2. PICK room \in Nat : room = cap - Len(buffer)
    <3>1. cap - Len(buffer) \in Nat
      BY <1>2
    <3> QED
      BY <3>1
  <2>3. PICK n \in Nat, rest \in Seq(Byte), out \in Seq(Byte) :
          After(room, n, rest, out, 0) /\ zlib.total_in + n <= Len(data.bytes)
    BY <1>1, <2>1, <2>2, CompressNoneIs
  <2>4. /\ buffer' \in Seq(Byte) /\ zlib' \in Zlibs /\ buffer' = zlib'.wrote
        /\ Len(buffer') = Len(buffer) + (IF room < Len(out) THEN room ELSE Len(out))
        /\ zlib'.total_in = zlib.total_in + n /\ zlib'.held = rest /\ zlib'.markers = zlib.markers + 0
        /\ Output' = zlib.wrote \o out
    <3>1. 0 \in Nat /\ After(room, n, rest, out, 0) /\ buffer = zlib.wrote /\ Types
      BY <1>1, <1>2, <2>3
    <3>2. Wrote(room, n, rest, out, 0)
      BY <3>1, AfterIs
    <3> QED
      BY <3>2, Zenon DEF Wrote
  <2>5. zlib'.markers = 0
    BY <1>2, <2>4
  <2>6. Len(buffer') <= cap' /\ Len(data'.bytes) <= data'.cap
    <3>1. PICK l \in Nat, k \in Nat : l = Len(out) /\ k = Len(buffer)
      BY <1>2
    <3>2. cap \in Nat /\ room = cap - k
      BY <1>2, <2>2, <3>1
    <3>3. k + (IF room < l THEN room ELSE l) <= cap
      BY <3>2
    <3>4. Len(buffer') <= cap
      BY <2>4, <3>1, <3>3
    <3> QED
      BY <1>1, <1>2, <2>1, <3>4
  <2>7. Types'
    BY <1>1, <2>1, <2>4 DEF Types
  <2>8. Progress'
    BY <1>1, <1>2, <2>3, <2>4, <2>5 DEF Progress
  <2>9. Marked'
    BY <2>5 DEF Marked
  <2>10. Fits'
    BY <2>6 DEF Fits
  <2> QED
    BY <1>3, <2>7, <2>8, <2>9, <2>10 DEF TypesInv
<1> QED
  BY <1>4, <1>5

\* The first loop ends.
LEMMA CompressedKeeps ==
  ASSUME TypesInv, Compressed
  PROVE  TypesInv' /\ FlushedIsWhole'
<1>1. /\ Types /\ Fits /\ Progress /\ Marked /\ pc = "compress" /\ pc' = "flush" /\ zlib.total_in = Len(data.bytes)
      /\ header' = header /\ data' = data /\ calls' = calls /\ buffer' = buffer /\ cap' = cap /\ zlib' = zlib
  BY DEF TypesInv, Compressed
<1>2. Types'
  BY <1>1 DEF Types
<1>3. Progress'
  BY <1>1 DEF Progress
<1>4. Marked'
  BY <1>1 DEF Marked, Progress
<1>5. Len(buffer') <= cap' /\ Len(data'.bytes) <= data'.cap
  BY <1>1 DEF Fits
<1>6. Fits'
  BY <1>5 DEF Fits
<1>7. FlushedIsWhole'
  BY <1>1 DEF FlushedIsWhole
<1> QED
  BY <1>2, <1>3, <1>4, <1>6, <1>7 DEF TypesInv

\* The second loop: the vector doubles when an empty block did not fit, so that the third
\* one does.
LEMMA FlushKeeps ==
  ASSUME TypesInv, Flush
  PROVE  TypesInv' /\ FlushedIsWhole'
<1>1. /\ Types /\ Fits /\ Progress /\ Marked /\ pc = "flush" /\ pc' = "flush" /\ ~IsSuffix(Tail4, buffer)
      /\ header' = header /\ data' = data /\ calls' = calls
  BY DEF TypesInv, Flush
<1>2. /\ buffer \in Seq(Byte) /\ cap \in Nat /\ Len(buffer) <= cap /\ Len(data.bytes) <= data.cap
      /\ zlib.markers \in Nat /\ buffer = zlib.wrote /\ data.plain = Len(data.bytes)
      /\ zlib.total_in \in Nat /\ zlib.total_in = Len(data.bytes)
      /\ zlib.wrote \in Seq(Byte) /\ zlib.pending \in Seq(Byte)
  BY <1>1 DEF Types, Zlibs, Fits, Progress
<1>3. PICK l \in Nat, a \in Nat : l = Len(buffer) /\ a = cap /\ l <= a
  BY <1>2
<1>4. PICK c \in Nat : c = cap' /\ c >= a /\ c >= l + 5 /\ (c = a \/ c >= 2 * a)
  <2>1. cap' = Reserve(l, a, 5)
    BY <1>3 DEF Flush, FlushRoom
  <2>2. LET r == Reserve(l, a, 5) IN r \in Nat /\ r >= a /\ r >= l + 5 /\ (r = a \/ r >= 2 * a)
    BY <1>3, ReserveIs
  <2> QED
    BY <2>1, <2>2
<1>41. c >= a /\ c >= l + 5 /\ (c = a \/ c >= 2 * a)
  BY <1>4, Zenon
<1>42. c >= l + 5
  BY <1>41, Zenon
<1>5. PICK room \in Nat : room = c - l /\ room >= 5
  <2>1. c - l \in Nat /\ c - l >= 5
    BY <1>42
  <2> QED
    BY <2>1
<1>6. CompressSync(room)
  <2>1. c # l
    BY <1>4
  <2>2. cap' # Len(buffer) /\ cap' - Len(buffer) = room
    BY <1>3, <1>4, <1>5, <2>1, Zenon
  <2> QED
    BY <2>2, Zenon DEF Flush
<1>7. PICK rest \in Seq(Byte), out \in Seq(Byte), m \in {0, 1} :
           /\ After(room, 0, rest, out, m)
           /\ m = 0 => zlib.markers = 0
           /\ m = 1 => /\ rest = <<>>
                       /\ \E pre \in Seq(Byte) : /\ out = pre \o Empty /\ Len(pre) < room
                                                 /\ zlib.markers > 0 => pre = zlib.pending
  BY <1>1, <1>5, <1>6, CompressSyncIs
<1>8. Wrote(room, 0, rest, out, m)
  <2>1. 0 \in Nat /\ m \in Nat /\ After(room, 0, rest, out, m) /\ buffer = zlib.wrote /\ Types
    BY <1>1, <1>2, <1>7
  <2> QED
    BY <2>1, AfterIs
<1>9. PICK o \in Nat : o = Len(out)
  OBVIOUS
<1>10. /\ buffer' \in Seq(Byte) /\ zlib' \in Zlibs /\ buffer' = zlib'.wrote
       /\ Len(buffer') = l + (IF room < o THEN room ELSE o)
       /\ Len(zlib'.pending) = (IF room < o THEN o - room ELSE 0)
       /\ zlib'.held = rest /\ Output' = zlib.wrote \o out
  BY <1>3, <1>8, <1>9, Zenon DEF Wrote
<1>11. zlib'.total_in = zlib.total_in /\ zlib'.markers = zlib.markers + m
  <2>1. zlib'.total_in = zlib.total_in + 0 /\ zlib'.markers = zlib.markers + m
    BY <1>8, Zenon DEF Wrote
  <2> QED
    BY <1>2, <2>1
<1>12. Len(buffer') <= cap' /\ Len(data'.bytes) <= data'.cap
  <2>1. l + (IF room < o THEN room ELSE o) <= c
    BY <1>42, <1>5
  <2> QED
    BY <1>1, <1>2, <1>4, <1>10, <2>1, Zenon
<1>13. Fits'
  BY <1>12 DEF Fits
<1>14. Types'
  BY <1>1, <1>4, <1>10 DEF Types
<1>15. Progress'
  BY <1>1, <1>2, <1>10, <1>11 DEF Progress
<1>16. FlushedIsWhole'
  BY <1>1 DEF FlushedIsWhole
<1>17. CASE m = 0
  <2>1. zlib'.markers = 0
    BY <1>2, <1>7, <1>11, <1>17
  <2>2. Marked'
    BY <2>1 DEF Marked
  <2> QED
    BY <1>13, <1>14, <1>15, <1>16, <2>2 DEF TypesInv
<1>18. CASE m = 1
  <2>1. PICK pre \in Seq(Byte) : /\ out = pre \o Empty /\ Len(pre) < room
                                 /\ zlib.markers > 0 => pre = zlib.pending
    BY <1>7, <1>18
  <2>2. PICK k \in Nat : k = Len(pre) /\ k < room /\ o = k + 5
    <3>1. Len(pre \o Empty) = Len(pre) + Len(Empty)
      BY EmptyIs, Concat
    <3>2. Len(pre \o Empty) = Len(pre) + 5
      BY <3>1, EmptyIs, Zenon
    <3>3. o = Len(pre) + 5
      BY <1>9, <2>1, <3>2, Zenon
    <3> QED
      BY <2>1, <3>3
  <2>3. PICK q \in Nat : q = Len(zlib'.pending) /\ q = (IF room < o THEN o - room ELSE 0)
    <3>1. (IF room < o THEN o - room ELSE 0) \in Nat
      OBVIOUS
    <3> QED
      BY <1>10, <3>1
  <2>4. q <= 4 /\ (q # 0 => room < o)
    BY <2>2, <2>3
  <2>5. zlib'.markers = zlib.markers + 1
    BY <1>11, <1>18
  <2>6. Ended(zlib)'
    <3>1. Output' = (zlib.wrote \o pre) \o Empty
      <4>1. (zlib.wrote \o pre) \o Empty = zlib.wrote \o (pre \o Empty)
        <5>1. zlib.wrote \in Seq(Byte) /\ Empty \in Seq(Byte)
          BY <1>2, EmptyIs
        <5> QED
          BY <5>1, Associative
      <4> QED
        BY <1>10, <2>1, <4>1, Zenon
    <3>2. zlib.wrote \o pre \in Seq(Byte)
      BY <1>2, Concat
    <3>3. LET s == (zlib.wrote \o pre) \o Empty
          IN  s \in Seq(Byte) /\ Len(s) >= 5 /\ \A i \in 1..5 : s[(Len(s) - 5) + i] = Empty[i]
      BY <3>2, EndsWithEmpty
    <3>4. Len(Output') >= 5 /\ \A i \in 1..5 : Output'[(Len(Output') - 5) + i] = Empty[i]
      BY <3>1, <3>3, Zenon
    <3>5. zlib'.held = <<>> /\ Len(zlib'.pending) <= 4
      BY <1>7, <1>10, <1>18, <2>3, <2>4
    <3> QED
      BY <3>4, <3>5 DEF Ended, Output
  <2>7. zlib'.pending # <<>> => Len(buffer') = cap'
    <3>1. ASSUME zlib'.pending # <<>> PROVE Len(buffer') = cap'
      <4>1. zlib'.pending \in Seq(Byte)
        BY <1>10 DEF Zlibs
      <4>2. q # 0
        <5>1. Len(zlib'.pending) # 0
          BY <3>1, <4>1, EmptySeq
        <5> QED
          BY <2>3, <5>1, Zenon
      <4> QED
        <5>1. l + (IF room < o THEN room ELSE o) = c
          BY <1>42, <1>5, <2>4, <4>2
        <5> QED
          BY <1>4, <1>10, <5>1, Zenon
    <3> QED
      BY <3>1
  <2>8. PICK mk \in Nat : mk = zlib.markers
    BY <1>2
  <2>9. mk > 0 => k <= 4 /\ l = a /\ mk # 3
    <3>1. ASSUME mk > 0 PROVE k <= 4 /\ l = a /\ mk # 3
      <4>1. Ended(zlib)
        BY <1>1, <2>8, <3>1 DEF Marked
      <4>2. zlib.pending # <<>>
        BY <1>1, <1>2, <4>1, MarkerWritten
      <4>3. Len(zlib.pending) <= 4 /\ Len(buffer) = cap /\ mk # 3
        BY <1>1, <2>8, <3>1, <4>1, <4>2 DEF Marked, Ended
      <4>4. pre = zlib.pending
        BY <2>1, <2>8, <3>1
      <4> QED
        BY <1>3, <2>2, <4>3, <4>4, Zenon
    <3> QED
      BY <3>1
  <2>10. mk <= 3 /\ (mk > 0 => a >= 5) /\ (mk = 2 => a >= 10)
    BY <1>1, <1>3, <2>8 DEF Marked
  <2>11. /\ c >= 5 /\ mk + 1 <= 3 /\ (mk + 1 = 2 => c >= 10)
         /\ mk + 1 = 3 => q = 0
    <3>1. mk > 0 => c >= 2 * a
      BY <1>4, <2>9
    <3>2. mk = 2 => room >= 10 /\ o <= 9
      <4>1. mk = 2 => k <= 4 /\ l = a /\ a >= 10 /\ c >= 2 * a
        BY <2>9, <2>10, <3>1
      <4>2. room = c - l /\ o = k + 5
        BY <1>5, <2>2, Zenon
      <4> QED
        BY <4>1, <4>2
    <3>3. mk + 1 = 3 => q = 0
      BY <2>3, <3>2
    <3> QED
      BY <1>4, <2>9, <2>10, <3>1, <3>3
  <2>12. zlib'.markers = mk + 1
    BY <2>5, <2>8, Zenon
  <2>13. q = 0 => zlib'.pending = <<>>
    <3>1. zlib'.pending \in Seq(Byte) /\ (q = 0 => Len(zlib'.pending) = 0)
      BY <1>10, <2>3 DEF Zlibs
    <3> QED
      BY <3>1, EmptySeq
  <2>14. /\ zlib'.markers <= 3 /\ cap' >= 5 /\ (zlib'.markers = 2 => cap' >= 10)
         /\ zlib'.markers = 3 => zlib'.pending = <<>>
    BY <1>4, <2>11, <2>12, <2>13, Zenon
  <2>15. Marked'
    BY <2>6, <2>7, <2>14, Zenon DEF Marked
  <2> QED
    BY <1>13, <1>14, <1>15, <1>16, <2>15 DEF TypesInv
<1> QED
  BY <1>17, <1>18

\* encode returns: if an empty block was begun, all of it is in the buffer, and it is the
\* last thing that the compressor has produced.
LEMMA FinishKeeps ==
  ASSUME TypesInv, Finish
  PROVE  TypesInv' /\ FlushedIsWhole'
<1>1. /\ Types /\ Fits /\ Progress /\ Marked /\ pc = "flush" /\ pc' = "idle" /\ IsSuffix(Tail4, buffer)
      /\ data' = [data EXCEPT !.bytes = SubSeq(buffer, 1, Len(buffer) - 4), !.cap = cap, !.owned = TRUE]
      /\ header' = [header EXCEPT !.rsv1 = TRUE] /\ zlib' = zlib /\ calls' = calls
      /\ (buffer' = data.bytes /\ cap' = data.cap) \/ (buffer' = <<>> /\ cap' = 0)
  BY DEF TypesInv, Finish
<1>2. /\ buffer \in Seq(Byte) /\ cap \in Nat /\ Len(buffer) <= cap /\ Len(data.bytes) <= data.cap
      /\ data.bytes \in Seq(Byte) /\ data.cap \in Nat
      /\ zlib \in Zlibs /\ zlib.markers \in Nat /\ buffer = zlib.wrote /\ data.plain = Len(data.bytes)
      /\ zlib.total_in = Len(data.bytes)
      /\ zlib.wrote \in Seq(Byte) /\ zlib.pending \in Seq(Byte)
  BY <1>1 DEF Types, Zlibs, Fits, Progress
<1>3. PICK l \in Nat : l = Len(buffer)
  BY <1>2
<1>4. Len(buffer) >= 4 /\ Has4(buffer, Len(buffer) - 3)
  BY <1>1, <1>2, SuffixIs
<1>5. l >= 4 /\ Has4(buffer, l - 3)
  BY <1>3, <1>4, Zenon
<1>6. PICK k \in Nat : k = l - 4 /\ k <= l
  <2>1. l - 4 \in Nat /\ l - 4 <= l
    BY <1>5
  <2> QED
    BY <2>1
<1> DEFINE cut == SubSeq(buffer, 1, k)
           tail == SubSeq(buffer, k + 1, l)
<1>7. /\ cut \in Seq(Byte) /\ Len(cut) = k /\ tail \in Seq(Byte) /\ Len(tail) = l - k
      /\ cut \o tail = buffer
  <2>1. k <= Len(buffer)
    BY <1>3, <1>6
  <2>2. LET s == buffer IN
        /\ SubSeq(s, 1, k) \in Seq(Byte) /\ Len(SubSeq(s, 1, k)) = k
        /\ SubSeq(s, k + 1, Len(s)) \in Seq(Byte) /\ Len(SubSeq(s, k + 1, Len(s))) = Len(s) - k
        /\ SubSeq(s, 1, k) \o SubSeq(s, k + 1, Len(s)) = s
    BY <1>2, <2>1, CutInTwo
  <2> QED
    BY <1>3, <2>2, Zenon
<1>8. tail = Tail4
  <2>1. \A i \in 1..(l - (k + 1)) + 1 : tail[i] = buffer[(k + 1) + i - 1]
    <3>1. k + 1 \in Nat /\ 1 <= k + 1 /\ k + 1 <= l + 1 /\ l <= Len(buffer)
      BY <1>3, <1>6
    <3> QED
      BY <1>2, <3>1, Slice
  <2>2. (l - (k + 1)) + 1 = 4 /\ l - k = 4 /\ l - 3 = k + 1
    BY <1>6
  <2>3. 1 \in 1..4 /\ 2 \in 1..4 /\ 3 \in 1..4 /\ 4 \in 1..4
    OBVIOUS
  <2>4. /\ (k + 1) + 1 - 1 = k + 1 /\ (k + 1) + 2 - 1 = (k + 1) + 1 /\ (k + 1) + 3 - 1 = (k + 1) + 2
        /\ (k + 1) + 4 - 1 = (k + 1) + 3
    OBVIOUS
  <2>5. \A i \in 1..4 : tail[i] = buffer[(k + 1) + i - 1]
    BY <2>1, <2>2, Zenon
  <2>6. tail[1] = buffer[k + 1] /\ tail[2] = buffer[(k + 1) + 1] /\ tail[3] = buffer[(k + 1) + 2] /\ tail[4] = buffer[(k + 1) + 3]
    <3>1. /\ tail[1] = buffer[(k + 1) + 1 - 1] /\ tail[2] = buffer[(k + 1) + 2 - 1]
          /\ tail[3] = buffer[(k + 1) + 3 - 1] /\ tail[4] = buffer[(k + 1) + 4 - 1]
      BY <2>3, <2>5, Zenon
    <3> QED
      BY <2>4, <3>1, Zenon
  <2>7. tail[1] = "0" /\ tail[2] = "0" /\ tail[3] = "F" /\ tail[4] = "F"
    <3>1. Has4(buffer, k + 1)
      BY <1>5, <2>2, Zenon
    <3> QED
      BY <2>6, <3>1 DEF Has4
  <2>8. Tail4 \in Seq(Byte) /\ Len(Tail4) = 4 /\ Tail4[1] = "0" /\ Tail4[2] = "0" /\ Tail4[3] = "F" /\ Tail4[4] = "F"
    BY DEF Tail4, Byte
  <2>9. tail \in Seq(Byte) /\ Len(tail) = 4
    BY <1>7, <2>2, Zenon
  <2> HIDE DEF tail
  <2>10. \A i \in 1..4 : tail[i] = Tail4[i]
    BY <2>7, <2>8
  <2>11. \A i \in 1..Len(tail) : tail[i] = Tail4[i]
    BY <2>9, <2>10, Zenon
  <2> QED
    BY <2>8, <2>9, <2>11, SeqEqual
<1>9. Len(buffer) - 4 = k
  BY <1>3, <1>6
<1>10. /\ data'.bytes = cut /\ data'.cap = cap /\ data'.plain = data.plain
       /\ data' \in [bytes : Seq(Byte), cap : Nat, owned : BOOLEAN, plain : Nat]
  BY <1>1, <1>2, <1>7, <1>9 DEF Types
<1>11. header' \in [opcode : {"Text", "Ping"}, rsv1 : BOOLEAN]
  BY <1>1 DEF Types
<1>12. buffer' \in Seq(Byte) /\ cap' \in Nat /\ Len(buffer') <= cap'
  <2>1. (buffer' = data.bytes /\ cap' = data.cap) \/ (buffer' = <<>> /\ cap' = 0)
    BY <1>1, Zenon
  <2>2. Len(<<>>) <= 0 /\ 0 \in Nat
    BY OneByte
  <2> QED
    BY <1>2, <2>1, <2>2, OneByte, Zenon
<1>13. Types'
  BY <1>1, <1>2, <1>10, <1>11, <1>12 DEF Types
<1>14. Fits'
  <2>1. Len(data'.bytes) <= data'.cap
    <3>1. k <= cap
      BY <1>2, <1>3, <1>6
    <3> QED
      BY <1>7, <1>10, <3>1, Zenon
  <2> QED
    BY <1>12, <2>1 DEF Fits
<1>15. Progress'
  BY <1>1 DEF Progress
<1>16. Marked'
  BY <1>1 DEF Marked
<1>17. ASSUME zlib.markers > 0 PROVE Whole'
  <2>1. Ended(zlib)
    BY <1>1, <1>17 DEF Marked
  <2>2. zlib.pending = <<>> /\ zlib.held = <<>>
    BY <1>1, <1>2, <2>1, MarkerWritten DEF Ended
  <2>3. data'.bytes \o Tail4 = zlib.wrote
    BY <1>2, <1>7, <1>8, <1>10, Zenon
  <2> QED
    BY <1>1, <1>2, <1>10, <2>2, <2>3 DEF Whole
<1>18. FlushedIsWhole'
  BY <1>1, <1>17 DEF FlushedIsWhole
<1> QED
  BY <1>13, <1>14, <1>15, <1>16, <1>18 DEF TypesInv

-----------------------------------------------------------------------------
(* The theorems.                                                           *)

\* A step keeps the types, and the growth of the vectors.
LEMMA TypesStep == TypesInv /\ [Next]_vars => TypesInv'
<1> SUFFICES ASSUME TypesInv, [Next]_vars PROVE TypesInv'
  OBVIOUS
<1>1. CASE UNCHANGED vars
  BY <1>1 DEF TypesInv, Types, Fits, Progress, Marked, Ended, vars
<1>2. ASSUME NEW opcode \in {"Text", "Ping"}, NEW bytes \in Datas, NEW spare \in Spares, NEW owned \in BOOLEAN,
             Encode(opcode, bytes, spare, owned)
      PROVE  TypesInv'
  BY <1>2, EncodeKeeps
<1>3. CASE Compress
  BY <1>3, CompressKeeps
<1>4. CASE Compressed
  BY <1>4, CompressedKeeps
<1>5. CASE Flush
  BY <1>5, FlushKeeps
<1>6. CASE Finish
  BY <1>6, FinishKeeps
<1> QED
  BY <1>1, <1>2, <1>3, <1>4, <1>5, <1>6 DEF Next

\* encode is typed: the buffer never outgrows its vector, nor does the compressor take
\* more than there is.
THEOREM EncodeTypes == Spec => []TypeOK
<1>1. Init => TypesInv
  BY InvInit
<1> QED
  BY <1>1, TypesStep, TypesGiveTypeOK, PTL DEF Spec

\* An empty block that does not fit is written again, but at most twice: after that the
\* vector has grown beyond it.
THEOREM MarkersBounded == Spec => []FewMarkers
<1>1. Init => TypesInv
  BY InvInit
<1>2. TypesInv => FewMarkers
  BY DEF TypesInv, Marked, FewMarkers
<1> QED
  BY <1>1, <1>2, TypesStep, PTL DEF Spec

\* A step leaves flushed messages whole.
LEMMA WholeStep == TypesInv /\ FlushedIsWhole /\ [Next]_vars => FlushedIsWhole'
<1> SUFFICES ASSUME TypesInv, FlushedIsWhole, [Next]_vars PROVE FlushedIsWhole'
  OBVIOUS
<1>1. CASE UNCHANGED vars
  BY <1>1 DEF FlushedIsWhole, Whole, vars
<1>2. ASSUME NEW opcode \in {"Text", "Ping"}, NEW bytes \in Datas, NEW spare \in Spares, NEW owned \in BOOLEAN,
             Encode(opcode, bytes, spare, owned)
      PROVE  FlushedIsWhole'
  BY <1>2, EncodeKeeps
<1>3. CASE Compress
  BY <1>3, CompressKeeps
<1>4. CASE Compressed
  BY <1>4, CompressedKeeps
<1>5. CASE Flush
  BY <1>5, FlushKeeps
<1>6. CASE Finish
  BY <1>6, FinishKeeps
<1> QED
  BY <1>1, <1>2, <1>3, <1>4, <1>5, <1>6 DEF Next

\* What encode returns after a sync flush is the whole message, whatever the payload and
\* the compressor's output are, whatever the compressor holds back and however often the
\* vector is full: no part of an empty block is taken for its end.
THEOREM FlushedMessageIsWhole == Spec => []FlushedIsWhole
<1>1. Init => TypesInv /\ FlushedIsWhole
  BY InvInit
<1> QED
  BY <1>1, TypesStep, WholeStep, PTL DEF Spec

=============================================================================
