---------------------------- MODULE FrameIOProofs ----------------------------
(***************************************************************************)
(* Proofs about Codec and FrameIO.  decode_header inverts encode_header,   *)
(* byte for byte and from any prefix, and masking a payload twice gives it *)
(* back.  And for every sequence of frames, every way to cut their bytes   *)
(* into pieces, and every codec: the frames that come out are those that   *)
(* went in, exactly the malformed ones are refused, and no byte of a       *)
(* payload is taken from the socket while a header is read.                *)
(***************************************************************************)
EXTENDS FrameIO, Induction, SequenceTheorems

-----------------------------------------------------------------------------
(* Bits and integers.                                                      *)

\* A byte that is put together from four flags and a number below 16 can be taken
\* apart again.
LEMMA FirstByte ==
  ASSUME NEW a \in BOOLEAN, NEW b \in BOOLEAN, NEW c \in BOOLEAN, NEW d \in BOOLEAN, NEW u \in 0..15
  PROVE  LET byte == Flag(a, 128) + Flag(b, 64) + Flag(c, 32) + Flag(d, 16) + u IN
         /\ byte \in Byte
         /\ Bit(byte, 128) = a /\ Bit(byte, 64) = b /\ Bit(byte, 32) = c /\ Bit(byte, 16) = d
         /\ byte % 16 = u
BY SMTT(60) DEF Flag, Bit, Byte

\* So can one of a flag and a number below 128.
LEMMA SecondByte ==
  ASSUME NEW a \in BOOLEAN, NEW u \in 0..127
  PROVE  LET byte == Flag(a, 128) + u IN
         byte \in Byte /\ Bit(byte, 128) = a /\ byte % 128 = u
BY SMT DEF Flag, Bit, Byte

\* Opcodes have numbers below 16, and TryFrom finds them again.
LEMMA OpCodeNumbers == \A op \in OpCode : IntoU8[op] \in 0..15 /\ TryFrom[IntoU8[op] + 1] = op
BY SMT DEF OpCode, IntoU8, TryFrom

\* The bytes of a number below 2^16, and the number they make.
LEMMA U16Bytes ==
  ASSUME NEW n \in Nat, n <= U16_MAX
  PROVE  \E a \in Byte, b \in Byte : U16ToBe(n) = <<a, b>> /\ 256 * a + b = n
<1>1. n \div 256 \in Byte /\ n % 256 \in Byte /\ 256 * (n \div 256) + (n % 256) = n
  BY SMT DEF U16_MAX, Byte
<1>2. QED
  BY <1>1 DEF U16ToBe

\* U16_MAX and HUGE are 2^16 - 1 and 2^31 - 1.
LEMMA U16MaxIs == U16_MAX \in Nat /\ U16_MAX > 126
BY SMT DEF U16_MAX

\* The value that stands for all lengths and masks that are too large.
LEMMA HugeIs == HUGE \in Nat /\ \A n \in Nat : n <= HUGE <=> n < 2147483648
BY SMT DEF HUGE

\* Division by 256 and by 2^24.
LEMMA Div256 == \A n \in Nat : n = 256 * (n \div 256) + (n % 256) /\ n % 256 \in 0..255 /\ n \div 256 \in Nat
BY SMT

\* Appending a byte.
LEMMA Mul256 == \A n \in Nat, b \in 0..255 : (256 * n + b) \div 256 = n /\ (256 * n + b) % 256 = b
BY SMT

\* The highest of four bytes.
LEMMA Mul24 == \A n \in Nat, b \in Nat : b < 16777216 => (16777216 * n + b) \div 16777216 = n
BY SMT

\* The two halves of a word.
LEMMA Div16 == \A n \in Nat : /\ n = 65536 * (n \div 65536) + (n % 65536)
                              /\ n % 65536 \in Nat /\ n % 65536 < 65536 /\ n \div 65536 \in Nat
BY SMT

\* The number of which a to d are the bytes.
Num4(a, b, c, d) == 16777216 * a + 65536 * b + 256 * c + d

\* The same for a number below 2^31.
LEMMA U32Bytes ==
  ASSUME NEW n \in Nat, n <= HUGE
  PROVE  \E a \in 0..127, b \in Byte, c \in Byte, d \in Byte :
           U32ToBe(n) = <<a, b, c, d>> /\ Num4(a, b, c, d) = n
<1>1. PICK q \in Nat, r \in Nat : q = n \div 65536 /\ r = n % 65536 /\ n = 65536 * q + r /\ r < 65536
  BY Div16, SMT
<1>2. PICK a \in Nat, b \in 0..255 : a = q \div 256 /\ b = q % 256 /\ q = 256 * a + b
  BY Div256, SMT
<1>3. PICK c \in Nat, d \in 0..255 : c = r \div 256 /\ d = r % 256 /\ r = 256 * c + d
  BY Div256, SMT
<1>4. n = 16777216 * a + 65536 * b + 256 * c + d /\ c < 256 /\ a < 128
  BY <1>1, <1>2, <1>3, HugeIs, SMT
<1>5. n \div 16777216 = a
  <2>1. n = 16777216 * a + (65536 * b + 256 * c + d) /\ 65536 * b + 256 * c + d \in Nat
        /\ 65536 * b + 256 * c + d < 16777216
    BY <1>4, SMT
  <2>2. QED
    BY <2>1, Mul24, SMT
<1>6. n \div 256 = 65536 * a + 256 * b + c /\ n % 256 = d
  <2>1. PICK m \in Nat : m = 65536 * a + 256 * b + c /\ n = 256 * m + d
    BY <1>4, SMT
  <2>2. (256 * m + d) \div 256 = m /\ (256 * m + d) % 256 = d
    BY Mul256, ZenonT(30)
  <2>3. QED
    BY <2>1, <2>2, SMT
<1>7. (n \div 256) % 256 = c
  <2>1. PICK m \in Nat : n \div 256 = 256 * m + c /\ c \in 0..255
    <3>1. 256 * a + b \in Nat /\ n \div 256 = 256 * (256 * a + b) + c
      BY <1>6, SMT
    <3>2. QED
      BY <3>1, <1>4, SMT
  <2>2. (256 * m + c) % 256 = c
    BY <2>1, Mul256, ZenonT(30)
  <2>3. QED
    BY <2>1, <2>2, SMT
<1>8. (n \div 65536) % 256 = b
  BY <1>1, <1>2, SMT
<1>9. a \in 0..127 /\ b \in Byte /\ c \in Byte /\ d \in Byte
  BY <1>4, SMT DEF Byte
<1>10. U32ToBe(n) = <<a, b, c, d>>
  BY <1>5, <1>6, <1>7, <1>8, SMT DEF U32ToBe
<1>11. Num4(a, b, c, d) = n
  BY <1>4, SMT DEF Num4
<1>12. QED
  BY <1>9, <1>10, <1>11

-----------------------------------------------------------------------------
(* What encode_header writes.                                              *)

\* Bytes are numbers.
LEMMA ByteIsNat == ASSUME NEW b \in Byte PROVE b \in Nat
BY DEF Byte

\* Two sequences of bytes, one behind the other.
LEMMA Concat ==
  ASSUME NEW s \in Seq(Byte), NEW t \in Seq(Byte)
  PROVE  /\ s \o t \in Seq(Byte) /\ Len(s \o t) = Len(s) + Len(t)
         /\ \A i \in 1..Len(s) : (s \o t)[i] = s[i]
         /\ \A i \in 1..Len(t) : (s \o t)[Len(s) + i] = t[i]
<1>1. Len(s) \in Nat /\ Len(t) \in Nat
  OBVIOUS
<1>2. /\ s \o t \in Seq(Byte) /\ Len(s \o t) = Len(s) + Len(t)
      /\ \A i \in 1..Len(s) + Len(t) : (s \o t)[i] = IF i <= Len(s) THEN s[i] ELSE t[i - Len(s)]
  BY ConcatProperties, SMT
<1>3. ASSUME NEW i \in 1..Len(t) PROVE (s \o t)[Len(s) + i] = t[i]
  BY <1>1, <1>2, SMT
<1>4. QED
  BY <1>1, <1>2, <1>3, SMT

\* One byte, and others behind it.
LEMMA Cons ==
  ASSUME NEW x \in Byte, NEW t \in Seq(Byte)
  PROVE  /\ <<x>> \o t \in Seq(Byte) /\ Len(<<x>> \o t) = 1 + Len(t) /\ (<<x>> \o t)[1] = x
         /\ \A i \in 1..Len(t) : (<<x>> \o t)[1 + i] = t[i]
<1> DEFINE s == <<x>>
<1>1. s \in Seq(Byte) /\ Len(s) = 1 /\ s[1] = x
  OBVIOUS
<1> HIDE DEF s
<1>2. /\ s \o t \in Seq(Byte) /\ Len(s \o t) = 1 + Len(t) /\ (s \o t)[1] = s[1]
      /\ \A i \in 1..Len(t) : (s \o t)[1 + i] = t[i]
  BY <1>1, Concat
<1>3. QED
  BY <1>1, <1>2 DEF s

\* The number that an extended length of 2, 4 or 8 bytes stands for.
Big2(s, k) == 256 * s[k] + s[k + 1]
Big4(s, k) == Num4(s[k], s[k + 1], s[k + 2], s[k + 3])

\* The second byte and the extended length.
LEMMA LenBytes ==
  ASSUME NEW h, h.masked \in BOOLEAN, h.payload_len \in Nat, h.payload_len <= HUGE
  PROVE  LET s == EncodeLen(h) IN
         /\ s \in Seq(Byte) /\ Len(s) = 1 + ExtSize(s[1])
         /\ Bit(s[1], 128) = h.masked
         /\ ExtSize(s[1]) = 0 => s[1] % 128 = h.payload_len
         /\ ExtSize(s[1]) = 2 => Big2(s, 2) = h.payload_len
         /\ ExtSize(s[1]) = 8 => /\ s[2] = 0 /\ s[3] = 0 /\ s[4] = 0 /\ s[5] = 0 /\ s[6] <= 127
                                 /\ Big4(s, 6) = h.payload_len
<1> DEFINE len == h.payload_len
           m   == Flag(h.masked, 128)
           s   == EncodeLen(h)
<1>1. CASE len < 126
  <2>1. s = <<m + len>>
    BY <1>1, SMT DEF EncodeLen, TWO_EXT
  <2>2. m + len \in Byte /\ Bit(m + len, 128) = h.masked /\ (m + len) % 128 = len
    BY <1>1, SecondByte, SMT
  <2>3. ExtSize(m + len) = 0
    BY <1>1, <2>2, SMT DEF ExtSize, TWO_EXT, EIGHT_EXT
  <2>4. s \in Seq(Byte) /\ Len(s) = 1 /\ s[1] = m + len
    BY <2>1, <2>2, SMT
  <2> HIDE DEF s
  <2>5. QED
    BY <2>2, <2>3, <2>4, SMT DEF s
<1>2. CASE ~(len < 126) /\ len <= U16_MAX
  <2> DEFINE x == m + 126
  <2>1. PICK a \in Byte, b \in Byte : U16ToBe(len) = <<a, b>> /\ 256 * a + b = len
    BY <1>2, U16Bytes
  <2>2. s = <<x>> \o <<a, b>>
    BY <1>2, <2>1, SMT DEF EncodeLen, TWO_EXT
  <2>3. x \in Byte /\ Bit(x, 128) = h.masked /\ x % 128 = 126
    BY SecondByte
  <2> HIDE DEF x, s
  <2>4. ExtSize(x) = 2
    BY <2>3, SMT DEF ExtSize, TWO_EXT
  <2>5. s \in Seq(Byte) /\ Len(s) = 3 /\ s[1] = x /\ s[2] = a /\ s[3] = b
    BY <2>2, <2>3
  <2>6. QED
    BY <2>1, <2>3, <2>4, <2>5 DEF Big2, s
<1>3. CASE ~(len <= U16_MAX)
  <2> DEFINE x == m + 127
  <2>1. PICK a \in 0..127, b \in Byte, c \in Byte, d \in Byte :
          U32ToBe(len) = <<a, b, c, d>> /\ Num4(a, b, c, d) = len
    BY U32Bytes
  <2>2. s = <<x>> \o (<<0, 0, 0, 0>> \o <<a, b, c, d>>)
    BY <1>3, <2>1, U16MaxIs, SMT DEF EncodeLen, TWO_EXT, EIGHT_EXT, U64ToBe
  <2>3. x \in Byte /\ Bit(x, 128) = h.masked /\ x % 128 = 127
    BY SecondByte
  <2> HIDE DEF x, s
  <2>4. ExtSize(x) = 8
    BY <2>3, SMT DEF ExtSize, TWO_EXT, EIGHT_EXT
  <2>5. a \in Byte /\ 0 \in Byte
    BY SMT DEF Byte
  <2>6. <<x>> \in Seq(Byte) /\ <<0, 0, 0, 0>> \in Seq(Byte) /\ <<a, b, c, d>> \in Seq(Byte)
    BY <2>3, <2>5
  <2> DEFINE t == <<0, 0, 0, 0>> \o <<a, b, c, d>>
  <2>7. /\ t \in Seq(Byte) /\ Len(t) = 8 /\ t[1] = 0 /\ t[2] = 0 /\ t[3] = 0 /\ t[4] = 0
        /\ t[5] = a /\ t[6] = b /\ t[7] = c /\ t[8] = d
    BY <2>6
  <2> HIDE DEF t
  <2>8. s = <<x>> \o t
    BY <2>2 DEF t
  <2>9. /\ s \in Seq(Byte) /\ Len(s) = 9 /\ s[1] = x
        /\ \A i \in 1..8 : s[1 + i] = t[i]
    <3>1. /\ <<x>> \o t \in Seq(Byte) /\ Len(<<x>> \o t) = 1 + Len(t) /\ (<<x>> \o t)[1] = x
          /\ \A i \in 1..Len(t) : (<<x>> \o t)[1 + i] = t[i]
      BY <2>3, <2>7, Cons, ZenonT(30)
    <3>2. QED
      BY <2>7, <2>8, <3>1
  <2>10. /\ s[2] = 0 /\ s[3] = 0 /\ s[4] = 0 /\ s[5] = 0
         /\ s[6] = a /\ s[7] = b /\ s[8] = c /\ s[9] = d
    BY <2>7, <2>9
  <2>11. Big4(s, 6) = len
    BY <2>1, <2>10 DEF Big4
  <2>12. a <= 127 /\ ExtSize(x) # 0 /\ ExtSize(x) # 2
    BY <2>4, SMT
  <2>13. QED
    BY <2>3, <2>4, <2>9, <2>10, <2>11, <2>12 DEF s
<1>4. QED
  BY <1>1, <1>2, <1>3

\* The first byte of a header.
First(h) == Flag(h.fin, 128) + Flag(h.rsv1, 64) + Flag(h.rsv2, 32) + Flag(h.rsv3, 16) + IntoU8[h.opcode]

\* e is a header on the wire: what the two first bytes, the length and the mask are.
Encodes(e, h) ==
  /\ e \in Seq(Byte) /\ Len(e) = 2 + ExtSize(e[2]) + MaskSize(e[2])
  /\ e[1] = First(h)
  /\ Bit(e[2], 128) = h.masked
  /\ ExtSize(e[2]) = 0 => e[2] % 128 = h.payload_len
  /\ ExtSize(e[2]) = 2 => Big2(e, 3) = h.payload_len
  /\ ExtSize(e[2]) = 8 => /\ e[3] = 0 /\ e[4] = 0 /\ e[5] = 0 /\ e[6] = 0 /\ e[7] <= 127
                          /\ Big4(e, 7) = h.payload_len
  /\ h.masked => Big4(e, 3 + ExtSize(e[2])) = h.mask

\* The mask is four bytes, or missing.
LEMMA MaskBytes ==
  ASSUME NEW h \in Headers
  PROVE  LET s == IF h.masked THEN U32ToBe(h.mask) ELSE <<>> IN
         s \in Seq(Byte) /\ Len(s) = (IF h.masked THEN 4 ELSE 0) /\ (h.masked => Big4(s, 1) = h.mask)
<1>1. h.mask \in Nat /\ h.mask <= HUGE /\ h.masked \in BOOLEAN
  BY HugeIs DEF Headers
<1>2. CASE h.masked
  <2>1. PICK a \in 0..127, b \in Byte, c \in Byte, d \in Byte :
          U32ToBe(h.mask) = <<a, b, c, d>> /\ Num4(a, b, c, d) = h.mask
    BY <1>1, U32Bytes
  <2>2. a \in Byte
    BY SMT DEF Byte
  <2>3. QED
    BY <1>2, <2>1, <2>2 DEF Big4
<1>3. CASE ~h.masked
  BY <1>3
<1>4. QED
  BY <1>1, <1>2, <1>3

\* encode_header puts down all of a header.
LEMMA HeaderBytes == ASSUME NEW h \in Headers PROVE Encodes(encode_header(h), h)
<1> DEFINE x == First(h)
           s == EncodeLen(h)
           t == IF h.masked THEN U32ToBe(h.mask) ELSE <<>>
           u == <<x>> \o s
           e == encode_header(h)
<1>1. /\ h.payload_len \in Nat /\ h.payload_len <= HUGE /\ h.masked \in BOOLEAN
      /\ h.fin \in BOOLEAN /\ h.rsv1 \in BOOLEAN /\ h.rsv2 \in BOOLEAN /\ h.rsv3 \in BOOLEAN /\ h.opcode \in OpCode
  BY HugeIs DEF Headers
<1>2. x \in Byte
  BY <1>1, OpCodeNumbers, FirstByte DEF First
<1>3. /\ s \in Seq(Byte) /\ Len(s) = 1 + ExtSize(s[1])
      /\ Bit(s[1], 128) = h.masked
      /\ ExtSize(s[1]) = 0 => s[1] % 128 = h.payload_len
      /\ ExtSize(s[1]) = 2 => Big2(s, 2) = h.payload_len
      /\ ExtSize(s[1]) = 8 => /\ s[2] = 0 /\ s[3] = 0 /\ s[4] = 0 /\ s[5] = 0 /\ s[6] <= 127
                              /\ Big4(s, 6) = h.payload_len
  BY <1>1, LenBytes
<1>4. t \in Seq(Byte) /\ Len(t) = (IF h.masked THEN 4 ELSE 0) /\ (h.masked => Big4(t, 1) = h.mask)
  BY MaskBytes
<1>5. e = u \o t
  BY DEF encode_header, First
<1> HIDE DEF x, s, t, u, e
<1>6. ExtSize(s[1]) \in {0, 2, 8} /\ MaskSize(s[1]) = (IF h.masked THEN 4 ELSE 0)
  BY <1>3 DEF ExtSize, MaskSize
<1>7. /\ u \in Seq(Byte) /\ Len(u) = 1 + Len(s) /\ u[1] = x
      /\ \A i \in 1..Len(s) : u[1 + i] = s[i]
  BY <1>2, <1>3, Cons, Zenon DEF u
<1>8. /\ e \in Seq(Byte) /\ Len(e) = Len(u) + Len(t)
      /\ \A i \in 1..Len(u) : e[i] = u[i]
      /\ \A i \in 1..Len(t) : e[Len(u) + i] = t[i]
  BY <1>4, <1>5, <1>7, Concat
<1>9. e[1] = x /\ \A i \in 1..Len(s) : e[1 + i] = s[i]
  BY <1>3, <1>7, <1>8
<1>10. e[2] = s[1] /\ Len(u) = 2 + ExtSize(e[2])
  BY <1>3, <1>6, <1>7, <1>9
<1>11. Len(e) = 2 + ExtSize(e[2]) + MaskSize(e[2])
  BY <1>4, <1>6, <1>8, <1>10
<1>12. ExtSize(e[2]) = 2 => Big2(e, 3) = h.payload_len
  <2>1. SUFFICES ASSUME ExtSize(e[2]) = 2 PROVE Big2(e, 3) = h.payload_len
    OBVIOUS
  <2>2. e[3] = s[2] /\ e[4] = s[3]
    BY <1>3, <1>9, <1>10, <2>1
  <2>3. QED
    BY <1>3, <1>10, <2>1, <2>2 DEF Big2
<1>13. ExtSize(e[2]) = 8 => /\ e[3] = 0 /\ e[4] = 0 /\ e[5] = 0 /\ e[6] = 0 /\ e[7] <= 127
                            /\ Big4(e, 7) = h.payload_len
  <2>1. SUFFICES ASSUME ExtSize(e[2]) = 8
                 PROVE  /\ e[3] = 0 /\ e[4] = 0 /\ e[5] = 0 /\ e[6] = 0 /\ e[7] <= 127
                        /\ Big4(e, 7) = h.payload_len
    OBVIOUS
  <2>2. /\ e[3] = s[2] /\ e[4] = s[3] /\ e[5] = s[4] /\ e[6] = s[5]
        /\ e[7] = s[6] /\ e[8] = s[7] /\ e[9] = s[8] /\ e[10] = s[9]
    BY <1>3, <1>9, <1>10, <2>1
  <2>3. QED
    BY <1>3, <1>10, <2>1, <2>2 DEF Big4
<1>14. h.masked => Big4(e, 3 + ExtSize(e[2])) = h.mask
  <2>1. SUFFICES ASSUME h.masked PROVE Big4(e, 3 + ExtSize(e[2])) = h.mask
    OBVIOUS
  <2>2. PICK k \in Nat : k = 2 + ExtSize(e[2]) /\ k = Len(u)
    BY <1>6, <1>10
  <2>3. e[k + 1] = t[1] /\ e[k + 2] = t[2] /\ e[k + 3] = t[3] /\ e[k + 4] = t[4]
    BY <1>4, <1>8, <2>1, <2>2
  <2>4. (k + 1) + 1 = k + 2 /\ (k + 1) + 2 = k + 3 /\ (k + 1) + 3 = k + 4 /\ 3 + ExtSize(e[2]) = k + 1
    BY <1>6, <1>10, <2>2
  <2>5. Big4(e, k + 1) = Num4(t[1], t[2], t[3], t[4])
    BY <2>3, <2>4 DEF Big4
  <2>6. QED
    BY <1>4, <2>1, <2>4, <2>5 DEF Big4
<1>15. Bit(e[2], 128) = h.masked /\ (ExtSize(e[2]) = 0 => e[2] % 128 = h.payload_len)
  BY <1>3, <1>10
<1>16. Encodes(e, h)
  BY <1>8, <1>9, <1>11, <1>12, <1>13, <1>14, <1>15 DEF Encodes, x
<1>17. QED
  BY <1>16 DEF e

-----------------------------------------------------------------------------
(* What decode_header reads.                                               *)

\* bytes is the beginning of a stream that starts with e.
StartsLike(bytes, e) == bytes \in Seq(Byte) /\ \A i \in 1..Len(bytes) : i <= Len(e) => bytes[i] = e[i]

\* A header whose length and mask are not known yet.
Flags(h) ==
  [fin |-> h.fin, rsv1 |-> h.rsv1, rsv2 |-> h.rsv2, rsv3 |-> h.rsv3,
   masked |-> h.masked, opcode |-> h.opcode, mask |-> 0, payload_len |-> 0]

\* A part of a sequence of bytes.
LEMMA Slice ==
  ASSUME NEW s \in Seq(Byte), NEW m \in Nat, NEW n \in Nat, 1 <= m, m <= n + 1, n <= Len(s)
  PROVE  /\ SubSeq(s, m, n) \in Seq(Byte)
         /\ Len(SubSeq(s, m, n)) = (n - m) + 1
         /\ \A i \in 1..(n - m) + 1 : SubSeq(s, m, n)[i] = s[m + i - 1]
<1>1. \A i \in m..n : s[i] \in Byte
  OBVIOUS
<1>2. /\ SubSeq(s, m, n) \in Seq(Byte)
      /\ Len(SubSeq(s, m, n)) = IF m <= n THEN n - m + 1 ELSE 0
      /\ \A i \in 1..n - m + 1 : SubSeq(s, m, n)[i] = s[m + i - 1]
  BY <1>1, SubSeqProperties
<1> QED
  BY <1>2

\* Four bytes from k on as a number.
LEMMA FourBytes ==
  ASSUME NEW s \in Seq(Byte), NEW k \in Nat, NEW n \in Nat, 1 <= k, n = k + 3, n <= Len(s)
  PROVE  U32FromBe(SubSeq(s, k, n)) = Big4(s, k)
<1> DEFINE b == SubSeq(s, k, n)
<1>1. \A i \in 1..4 : b[i] = s[k + i - 1]
  BY Slice
<1> HIDE DEF b
<1>2. b[1] = s[k] /\ b[2] = s[k + 1] /\ b[3] = s[k + 2] /\ b[4] = s[k + 3]
  BY <1>1
<1>3. U32FromBe(b) = Num4(b[1], b[2], b[3], b[4])
  BY SMT DEF U32FromBe, Num4
<1>4. QED
  BY <1>2, <1>3 DEF Big4, b

\* The first two bytes give the flags and the opcode.
LEMMA FirstBytesOf ==
  ASSUME NEW h \in Headers, NEW e, Encodes(e, h)
  PROVE  FirstBytes(e[1], e[2]) = Flags(h)
<1>1. /\ h.masked \in BOOLEAN /\ h.fin \in BOOLEAN /\ h.rsv1 \in BOOLEAN /\ h.rsv2 \in BOOLEAN
      /\ h.rsv3 \in BOOLEAN /\ h.opcode \in OpCode
  BY DEF Headers
<1>2. IntoU8[h.opcode] \in 0..15 /\ TryFrom[IntoU8[h.opcode] + 1] = h.opcode
  BY <1>1, OpCodeNumbers
<1>3. /\ Bit(First(h), 128) = h.fin /\ Bit(First(h), 64) = h.rsv1
      /\ Bit(First(h), 32) = h.rsv2 /\ Bit(First(h), 16) = h.rsv3
      /\ First(h) % 16 = IntoU8[h.opcode]
  BY <1>1, <1>2, FirstByte DEF First
<1>4. e[1] = First(h) /\ Bit(e[2], 128) = h.masked
  BY DEF Encodes
<1>5. QED
  BY <1>2, <1>3, <1>4 DEF FirstBytes, Flags

\* The length is read back.
LEMMA LenOf ==
  ASSUME NEW h \in Headers, NEW e, Encodes(e, h), NEW bytes, StartsLike(bytes, e),
         Len(bytes) >= 2, Len(bytes) >= 2 + ExtSize(e[2])
  PROVE  DecodeLen(bytes) = h.payload_len
<1>1. e \in Seq(Byte) /\ bytes \in Seq(Byte) /\ ExtSize(e[2]) \in {0, 2, 8} /\ MaskSize(e[2]) \in Nat
  BY DEF Encodes, StartsLike, ExtSize, MaskSize
<1>2. Len(e) \in Nat /\ Len(bytes) \in Nat /\ Len(e) >= 2 + ExtSize(e[2])
  BY <1>1 DEF Encodes
<1>3. \A i \in 1..(2 + ExtSize(e[2])) : bytes[i] = e[i]
  BY <1>1, <1>2 DEF StartsLike
<1>4. bytes[2] = e[2]
  BY <1>1, <1>3
<1>5. CASE ExtSize(e[2]) = 0
  BY <1>4, <1>5 DEF DecodeLen, Encodes
<1>6. CASE ExtSize(e[2]) = 2
  <2> DEFINE b == SubSeq(bytes, 3, 4)
  <2>1. \A i \in 1..2 : b[i] = bytes[3 + i - 1]
    BY <1>1, <1>2, <1>6, Slice
  <2> HIDE DEF b
  <2>2. b[1] = e[3] /\ b[2] = e[4]
    BY <1>3, <1>6, <2>1
  <2>3. DecodeLen(bytes) = U16FromBe(b)
    BY <1>4, <1>6 DEF DecodeLen, b
  <2>4. QED
    BY <1>6, <2>2, <2>3 DEF Encodes, U16FromBe, Big2
<1>7. CASE ExtSize(e[2]) = 8
  <2> DEFINE b == SubSeq(bytes, 3, 10)
  <2>1. b \in Seq(Byte) /\ Len(b) = 8 /\ \A i \in 1..8 : b[i] = bytes[3 + i - 1]
    BY <1>1, <1>2, <1>7, Slice
  <2> HIDE DEF b
  <2>2. /\ b[1] = e[3] /\ b[2] = e[4] /\ b[3] = e[5] /\ b[4] = e[6]
        /\ b[5] = e[7] /\ b[6] = e[8] /\ b[7] = e[9] /\ b[8] = e[10]
    BY <1>3, <1>7, <2>1
  <2>3. DecodeLen(bytes) = U64FromBe(b)
    BY <1>4, <1>7 DEF DecodeLen, b
  <2>4. e[7] \in Nat
    <3>1. 7 \in 1..Len(e)
      BY <1>2, <1>7
    <3>2. e[7] \in Byte
      BY <1>1, <3>1
    <3>3. QED
      BY <3>2, ByteIsNat
  <2>5. U64FromBe(b) = U32FromBe(SubSeq(b, 5, 8))
    BY <1>7, <2>2, <2>4, SMTT(30) DEF Encodes, U64FromBe
  <2>6. U32FromBe(SubSeq(b, 5, 8)) = Big4(b, 5)
    <3>1. 5 \in Nat /\ 8 \in Nat /\ 1 <= 5 /\ 8 = 5 + 3 /\ 8 <= Len(b)
      BY <2>1
    <3>2. QED
      BY <2>1, <3>1, FourBytes, Zenon
  <2>7. Big4(b, 5) = Big4(e, 7)
    BY <2>2 DEF Big4
  <2>8. QED
    BY <1>7, <2>3, <2>5, <2>6, <2>7 DEF Encodes
<1>8. QED
  BY <1>1, <1>5, <1>6, <1>7

\* The whole header is read back.
LEMMA DecodedIs ==
  ASSUME NEW h \in Headers, ~h.masked => h.mask = 0, NEW e, Encodes(e, h), NEW bytes, StartsLike(bytes, e),
         Len(bytes) >= Len(e)
  PROVE  Decoded(bytes) = h
<1>1. e \in Seq(Byte) /\ bytes \in Seq(Byte) /\ ExtSize(e[2]) \in {0, 2, 8} /\ MaskSize(e[2]) \in Nat
  BY DEF Encodes, StartsLike, ExtSize, MaskSize
<1>2. Len(e) \in Nat /\ Len(bytes) \in Nat /\ Len(e) = 2 + ExtSize(e[2]) + MaskSize(e[2])
  BY <1>1 DEF Encodes
<1>3. \A i \in 1..Len(e) : bytes[i] = e[i]
  <2>1. PICK m \in Nat, n \in Nat : m = Len(e) /\ n = Len(bytes) /\ n >= m
    BY <1>2
  <2>2. \A i \in 1..m : i \in 1..n /\ i <= m
    BY <2>1
  <2>3. \A i \in 1..n : i <= m => bytes[i] = e[i]
    BY <2>1, Zenon DEF StartsLike
  <2> QED
    BY <2>1, <2>2, <2>3, Zenon
<1>4. bytes[1] = e[1] /\ bytes[2] = e[2]
  BY <1>1, <1>2, <1>3
<1>5. FirstBytes(bytes[1], bytes[2]) = Flags(h)
  BY <1>4, FirstBytesOf
<1>6. DecodeLen(bytes) = h.payload_len
  BY <1>1, <1>2, LenOf
<1>7. Flags(h).masked = h.masked /\ h.masked \in BOOLEAN
  BY DEF Flags, Headers
<1> DEFINE lenEnd == 2 + ExtSize(bytes[2])
<1>8. h.masked => U32FromBe(SubSeq(bytes, lenEnd + 1, lenEnd + 4)) = h.mask
  <2>1. SUFFICES ASSUME h.masked PROVE U32FromBe(SubSeq(bytes, lenEnd + 1, lenEnd + 4)) = h.mask
    OBVIOUS
  <2>2. PICK k \in Nat : k = 3 + ExtSize(e[2]) /\ lenEnd + 1 = k /\ lenEnd + 4 = k + 3 /\ 1 <= k
    BY <1>1, <1>4
  <2>3. MaskSize(e[2]) = 4
    BY <2>1 DEF Encodes, MaskSize
  <2>4. k + 3 = Len(e)
    BY <1>1, <1>2, <2>2, <2>3
  <2>5. U32FromBe(SubSeq(bytes, k, k + 3)) = Big4(bytes, k)
    BY <1>1, <1>2, <2>2, <2>4, FourBytes
  <2>6. bytes[k] = e[k] /\ bytes[k + 1] = e[k + 1] /\ bytes[k + 2] = e[k + 2] /\ bytes[k + 3] = e[k + 3]
    BY <1>2, <1>3, <2>2, <2>4, SMTT(30)
  <2>7. Big4(bytes, k) = Big4(e, k)
    BY <2>6 DEF Big4
  <2>8. QED
    BY <2>1, <2>2, <2>5, <2>7 DEF Encodes
<1>9. Decoded(bytes) = [Flags(h) EXCEPT !.payload_len = h.payload_len, !.mask = h.mask]
  BY <1>5, <1>6, <1>7, <1>8 DEF Decoded
<1>10. QED
  BY <1>9 DEF Flags, Headers

\* decode_header refuses a header that starts the stream, or returns it, or asks for
\* more of it.
THEOREM DecodeInverts ==
  ASSUME NEW anyCodec, NEW h \in Headers, ~h.masked => h.mask = 0,
         NEW bytes, StartsLike(bytes, encode_header(h))
  PROVE  LET result == decode_header(anyCodec, bytes) IN
         /\ result.tag \in {"NeedMore", "Done", "Err"}
         /\ result.tag = "Done" => /\ result.value = h
                                   /\ result.offset = Len(encode_header(h))
                                   /\ HeadError(anyCodec, h) = "none"
                                   /\ LenError(anyCodec, h, h.payload_len) = "none"
         /\ result.tag = "Err" => \/ HeadError(anyCodec, h) # "none"
                                  \/ LenError(anyCodec, h, h.payload_len) # "none"
<1> DEFINE e == encode_header(h)
           result == decode_header(anyCodec, bytes)
<1>1. Encodes(e, h)
  BY HeaderBytes
<1> HIDE DEF e
<1>2. e \in Seq(Byte) /\ bytes \in Seq(Byte) /\ ExtSize(e[2]) \in {0, 2, 8} /\ MaskSize(e[2]) \in Nat
  BY <1>1 DEF Encodes, StartsLike, ExtSize, MaskSize, e
<1>3. Len(e) \in Nat /\ Len(bytes) \in Nat /\ Len(e) = 2 + ExtSize(e[2]) + MaskSize(e[2])
  BY <1>1, <1>2 DEF Encodes
<1>4. CASE Len(bytes) < 2
  BY <1>4 DEF decode_header, NeedMore
<1>5. CASE ~(Len(bytes) < 2)
  <2>1. StartsLike(bytes, e)
    BY DEF e
  <2>2. bytes[1] = e[1] /\ bytes[2] = e[2]
    BY <1>2, <1>3, <1>5, <2>1 DEF StartsLike
  <2>3. FirstBytes(bytes[1], bytes[2]) = Flags(h)
    BY <1>1, <2>2, FirstBytesOf
  <2>4. HeadError(anyCodec, Flags(h)) = HeadError(anyCodec, h) /\ \A n : LenError(anyCodec, Flags(h), n) = LenError(anyCodec, h, n)
    <3>1. Flags(h).opcode = h.opcode /\ Flags(h).fin = h.fin /\ Flags(h).rsv1 = h.rsv1 /\ Flags(h).rsv2 = h.rsv2
          /\ Flags(h).rsv3 = h.rsv3
      BY DEF Flags, Headers
    <3>2. QED
      BY <3>1 DEF HeadError, LenError
  <2>5. ~(Len(bytes) < 2 + ExtSize(e[2])) => DecodeLen(bytes) = h.payload_len
    BY <1>1, <1>2, <1>3, <1>5, <2>1, LenOf
  <2>6. ~(Len(bytes) < Len(e)) => Decoded(bytes) = h
    BY <1>1, <1>3, <2>1, DecodedIs
  <2>7. result = IF HeadError(anyCodec, h) # "none" THEN Err(HeadError(anyCodec, h))
                 ELSE IF Len(bytes) < 2 + ExtSize(e[2]) THEN NeedMore(Missing(bytes, 2 + ExtSize(e[2])))
                 ELSE IF LenError(anyCodec, h, DecodeLen(bytes)) # "none" THEN Err(LenError(anyCodec, h, DecodeLen(bytes)))
                 ELSE IF Len(bytes) < Len(e) THEN NeedMore(Missing(bytes, Len(e)))
                 ELSE Done(Decoded(bytes), Len(e))
    BY <1>3, <1>5, <2>2, <2>3, <2>4 DEF decode_header
  <2> HIDE DEF result
  <2>8. \/ HeadError(anyCodec, h) # "none" /\ result.tag = "Err"
        \/ result.tag = "NeedMore"
        \/ LenError(anyCodec, h, h.payload_len) # "none" /\ result.tag = "Err"
        \/ /\ HeadError(anyCodec, h) = "none" /\ LenError(anyCodec, h, h.payload_len) = "none"
           /\ result = Done(h, Len(e))
    BY <2>5, <2>6, <2>7 DEF NeedMore, Err
  <2>9. QED
    BY <2>8 DEF Done, e, result
<1>6. QED
  BY <1>4, <1>5

-----------------------------------------------------------------------------
(* Masking.                                                                *)

\* A byte is put together from its bits.
LEMMA ByteIsBits ==
  ASSUME NEW a \in Byte
  PROVE  a = Flag(Bit(a, 1), 1) + Flag(Bit(a, 2), 2) + Flag(Bit(a, 4), 4) + Flag(Bit(a, 8), 8) + Flag(Bit(a, 16), 16) + Flag(Bit(a, 32), 32) + Flag(Bit(a, 64), 64) + Flag(Bit(a, 128), 128)
BY SMTT(100) DEF Flag, Bit, Byte

\* Xor works bit by bit, so doing it twice changes nothing.
LEMMA XorTwice ==
  ASSUME NEW a \in Byte, NEW b \in Byte
  PROVE  Xor(a, b) \in Byte /\ Xor(Xor(a, b), b) = a
<1>x0. PICK x0 \in BOOLEAN : x0 = (Bit(a, 1) # Bit(b, 1))
  BY DEF Bit
<1>x1. PICK x1 \in BOOLEAN : x1 = (Bit(a, 2) # Bit(b, 2))
  BY DEF Bit
<1>x2. PICK x2 \in BOOLEAN : x2 = (Bit(a, 4) # Bit(b, 4))
  BY DEF Bit
<1>x3. PICK x3 \in BOOLEAN : x3 = (Bit(a, 8) # Bit(b, 8))
  BY DEF Bit
<1>x4. PICK x4 \in BOOLEAN : x4 = (Bit(a, 16) # Bit(b, 16))
  BY DEF Bit
<1>x5. PICK x5 \in BOOLEAN : x5 = (Bit(a, 32) # Bit(b, 32))
  BY DEF Bit
<1>x6. PICK x6 \in BOOLEAN : x6 = (Bit(a, 64) # Bit(b, 64))
  BY DEF Bit
<1>x7. PICK x7 \in BOOLEAN : x7 = (Bit(a, 128) # Bit(b, 128))
  BY DEF Bit
<1>1. PICK c : c = Xor(a, b)
  OBVIOUS
<1>2. c = Flag(x0, 1) + Flag(x1, 2) + Flag(x2, 4) + Flag(x3, 8) + Flag(x4, 16) + Flag(x5, 32) + Flag(x6, 64) + Flag(x7, 128)
  <2>1. Flag(x0, 1) = IF Bit(a, 1) # Bit(b, 1) THEN 1 ELSE 0
    BY <1>x0 DEF Flag
  <2>2. Flag(x1, 2) = IF Bit(a, 2) # Bit(b, 2) THEN 2 ELSE 0
    BY <1>x1 DEF Flag
  <2>3. Flag(x2, 4) = IF Bit(a, 4) # Bit(b, 4) THEN 4 ELSE 0
    BY <1>x2 DEF Flag
  <2>4. Flag(x3, 8) = IF Bit(a, 8) # Bit(b, 8) THEN 8 ELSE 0
    BY <1>x3 DEF Flag
  <2>5. Flag(x4, 16) = IF Bit(a, 16) # Bit(b, 16) THEN 16 ELSE 0
    BY <1>x4 DEF Flag
  <2>6. Flag(x5, 32) = IF Bit(a, 32) # Bit(b, 32) THEN 32 ELSE 0
    BY <1>x5 DEF Flag
  <2>7. Flag(x6, 64) = IF Bit(a, 64) # Bit(b, 64) THEN 64 ELSE 0
    BY <1>x6 DEF Flag
  <2>8. Flag(x7, 128) = IF Bit(a, 128) # Bit(b, 128) THEN 128 ELSE 0
    BY <1>x7 DEF Flag
  <2>9. QED
    BY <1>1, <2>1, <2>2, <2>3, <2>4, <2>5, <2>6, <2>7, <2>8 DEF Xor
<1>3. /\ c \in Byte
         /\ Bit(c, 1) = x0 /\ Bit(c, 2) = x1 /\ Bit(c, 4) = x2 /\ Bit(c, 8) = x3
         /\ Bit(c, 16) = x4 /\ Bit(c, 32) = x5 /\ Bit(c, 64) = x6 /\ Bit(c, 128) = x7
  <2>1. c = Flag(x0, 1) + Flag(x1, 2) + Flag(x2, 4) + Flag(x3, 8) + Flag(x4, 16) + Flag(x5, 32) + Flag(x6, 64) + Flag(x7, 128)
    BY <1>2
  <2>2. QED
    BY <2>1, SMTT(100) DEF Flag, Bit, Byte
<1>4. Xor(c, b) = Flag(Bit(a, 1), 1) + Flag(Bit(a, 2), 2) + Flag(Bit(a, 4), 4) + Flag(Bit(a, 8), 8) + Flag(Bit(a, 16), 16) + Flag(Bit(a, 32), 32) + Flag(Bit(a, 64), 64) + Flag(Bit(a, 128), 128)
  <2>1. Flag(Bit(a, 1), 1) = IF Bit(c, 1) # Bit(b, 1) THEN 1 ELSE 0
    BY <1>x0, <1>3 DEF Flag, Bit
  <2>2. Flag(Bit(a, 2), 2) = IF Bit(c, 2) # Bit(b, 2) THEN 2 ELSE 0
    BY <1>x1, <1>3 DEF Flag, Bit
  <2>3. Flag(Bit(a, 4), 4) = IF Bit(c, 4) # Bit(b, 4) THEN 4 ELSE 0
    BY <1>x2, <1>3 DEF Flag, Bit
  <2>4. Flag(Bit(a, 8), 8) = IF Bit(c, 8) # Bit(b, 8) THEN 8 ELSE 0
    BY <1>x3, <1>3 DEF Flag, Bit
  <2>5. Flag(Bit(a, 16), 16) = IF Bit(c, 16) # Bit(b, 16) THEN 16 ELSE 0
    BY <1>x4, <1>3 DEF Flag, Bit
  <2>6. Flag(Bit(a, 32), 32) = IF Bit(c, 32) # Bit(b, 32) THEN 32 ELSE 0
    BY <1>x5, <1>3 DEF Flag, Bit
  <2>7. Flag(Bit(a, 64), 64) = IF Bit(c, 64) # Bit(b, 64) THEN 64 ELSE 0
    BY <1>x6, <1>3 DEF Flag, Bit
  <2>8. Flag(Bit(a, 128), 128) = IF Bit(c, 128) # Bit(b, 128) THEN 128 ELSE 0
    BY <1>x7, <1>3 DEF Flag, Bit
  <2>9. QED
    BY <2>1, <2>2, <2>3, <2>4, <2>5, <2>6, <2>7, <2>8 DEF Xor
<1>5. QED
  BY <1>1, <1>3, <1>4, ByteIsBits

\* Masking twice gives the payload back.
THEOREM MaskTwice ==
  ASSUME NEW h \in Headers, NEW data \in Seq(Byte)
  PROVE  /\ apply_mask(h, data) \in Seq(Byte) /\ Len(apply_mask(h, data)) = Len(data)
         /\ apply_mask(h, apply_mask(h, data)) = data
<1> DEFINE key == U32ToBe(h.mask)
           n == Len(data)
           masked == [i \in 1..n |-> Xor(data[i], key[((i - 1) % 4) + 1])]
<1>1. n \in Nat /\ h.mask \in Nat /\ h.mask <= HUGE /\ h.masked \in BOOLEAN
  BY HugeIs DEF Headers
<1>2. CASE ~h.masked
  BY <1>2 DEF apply_mask
<1>3. CASE h.masked
  <2>1. \A i \in 1..n : key[((i - 1) % 4) + 1] \in Byte /\ data[i] \in Byte
    <3>1. PICK a \in 0..127, b \in Byte, c \in Byte, d \in Byte :
            key = <<a, b, c, d>> /\ Num4(a, b, c, d) = h.mask
      BY <1>1, U32Bytes
    <3>2. a \in Byte
      BY SMT DEF Byte
    <3>3. \A j \in 1..4 : key[j] \in Byte
      BY <3>1, <3>2
    <3> HIDE DEF key
    <3>4. \A i \in 1..n : ((i - 1) % 4) + 1 \in 1..4
      BY <1>1
    <3>5. QED
      BY <1>1, <3>3, <3>4
  <2> HIDE DEF key
  <2>2. masked \in Seq(Byte) /\ Len(masked) = n /\ \A i \in 1..n : masked[i] = Xor(data[i], key[((i - 1) % 4) + 1])
    <3>1. \A i \in 1..n : masked[i] \in Byte
      BY <2>1, XorTwice
    <3>2. QED
      BY <1>1, <3>1
  <2>3. apply_mask(h, data) = masked
    BY <1>3 DEF apply_mask, key
  <2>4. apply_mask(h, masked) = [i \in 1..n |-> Xor(masked[i], key[((i - 1) % 4) + 1])]
    BY <1>3, <2>2 DEF apply_mask, key
  <2> HIDE DEF masked
  <2>5. \A i \in 1..n : Xor(masked[i], key[((i - 1) % 4) + 1]) = data[i]
    BY <2>1, <2>2, XorTwice
  <2>6. apply_mask(h, masked) = data
    BY <1>1, <2>4, <2>5
  <2>7. QED
    BY <2>2, <2>3, <2>6
<1>4. QED
  BY <1>1, <1>2, <1>3

-----------------------------------------------------------------------------
(* Frames over a socket.                                                   *)

\* The size of a header as far as its bytes tell: it is known from the second on.
KnownSize(bytes) == IF Len(bytes) < 2 THEN 2 ELSE 2 + ExtSize(bytes[2]) + MaskSize(bytes[2])

\* Positions, as far as the proof needs them.
Positions ==
  /\ stream \in Seq(Byte)
  /\ left \in Nat /\ sock \in Nat /\ cur \in Nat
  /\ cur <= sock /\ sock <= Len(stream)
  /\ header.payload_len \in Nat

\* Unless nothing has been read since the handshake, the buffer holds no more than
\* the header that is being read.
NoSurplus == pc = "header" => sock = left \/ sock - cur <= KnownSize(Buffer)

Inv == Positions /\ NoSurplus /\ HeaderOnly

\* The sizes of the parts of a header are numbers.
LEMMA Parts == ASSUME NEW b \in Byte PROVE ExtSize(b) \in Nat /\ MaskSize(b) \in Nat
  BY DEF ExtSize, MaskSize

\* Four bytes make a number.
LEMMA U32IsNat == ASSUME NEW s, s[1] \in Nat, s[2] \in Nat, s[3] \in Nat, s[4] \in Nat
                  PROVE  U32FromBe(s) \in Nat
<1>1. PICK p \in Nat, q \in Nat, r \in Nat, t \in Nat : p = s[1] /\ q = s[2] /\ r = s[3] /\ t = s[4]
  OBVIOUS
<1>2. U32FromBe(s) = 16777216 * p + 65536 * q + 256 * r + t
  BY <1>1, SMT DEF U32FromBe
<1>3. 16777216 * p + 65536 * q + 256 * r + t \in Nat
  BY SMT
<1> QED
  BY <1>2, <1>3, SMT

\* A number on the wire is a natural number.
LEMMA LenIsNat == ASSUME NEW bytes \in Seq(Byte), Len(bytes) >= 2, Len(bytes) >= 2 + ExtSize(bytes[2])
                  PROVE  DecodeLen(bytes) \in Nat
<1>1. bytes[2] \in Byte
  OBVIOUS
<1>2. CASE ExtSize(bytes[2]) = 2
  <2> DEFINE b == SubSeq(bytes, 3, 4)
  <2>1. DecodeLen(bytes) = U16FromBe(b)
    BY <1>2 DEF DecodeLen
  <2>3. b \in Seq(Byte) /\ Len(b) = 2
    BY <1>2, Slice
  <2>4. b[1] \in Nat /\ b[2] \in Nat
    BY <2>3, ByteIsNat
  <2> HIDE DEF b
  <2> QED
    BY <2>1, <2>4, SMT DEF U16FromBe
<1>3. CASE ExtSize(bytes[2]) = 8
  <2> DEFINE b == SubSeq(bytes, 3, 10)
             c == SubSeq(b, 5, 8)
  <2>1. DecodeLen(bytes) = U64FromBe(b)
    BY <1>3 DEF DecodeLen
  <2>3. b \in Seq(Byte) /\ Len(b) = 8
    BY <1>3, Slice
  <2> HIDE DEF b
  <2>5. c \in Seq(Byte) /\ Len(c) = 4
    BY <2>3, Slice, SMTT(30)
  <2>6. c[1] \in Nat /\ c[2] \in Nat /\ c[3] \in Nat /\ c[4] \in Nat
    BY <2>5, ByteIsNat
  <2>7. U64FromBe(b) = HUGE \/ U64FromBe(b) = U32FromBe(c)
    BY SMT DEF U64FromBe
  <2> HIDE DEF c
  <2>8. U32FromBe(c) \in Nat
    BY <2>6, U32IsNat, SMT
  <2> QED
    BY <2>1, <2>7, <2>8, SMT DEF HUGE
<1>4. CASE ExtSize(bytes[2]) = 0
  <2>1. bytes[2] \in Nat
    BY <1>1, ByteIsNat
  <2> QED
    BY <1>4, <2>1, SMT DEF DecodeLen
<1> QED
  BY <1>2, <1>3, <1>4 DEF ExtSize

\* decode_header never asks for more than the header lacks ...
LEMMA AsksForHeader ==
  ASSUME NEW bytes \in Seq(Byte), decode_header(codec, bytes).tag = "NeedMore"
  PROVE  /\ decode_header(codec, bytes).n \in Nat
         /\ Len(bytes) + decode_header(codec, bytes).n <= KnownSize(bytes)
<1>1. CASE Len(bytes) < 2
  BY <1>1 DEF decode_header, KnownSize, NeedMore
<1>2. CASE Len(bytes) >= 2
  <2>1. bytes[2] \in Byte /\ ExtSize(bytes[2]) \in Nat /\ MaskSize(bytes[2]) \in Nat
    BY <1>2, Parts
  <2> DEFINE lenEnd  == 2 + ExtSize(bytes[2])
             maskEnd == lenEnd + MaskSize(bytes[2])
  <2>2. \/ Len(bytes) < lenEnd /\ decode_header(codec, bytes) = NeedMore(Missing(bytes, lenEnd))
        \/ Len(bytes) < maskEnd /\ decode_header(codec, bytes) = NeedMore(Missing(bytes, maskEnd))
    BY <1>2 DEF decode_header, Done, Err
  <2> QED
    BY <1>2, <2>1, <2>2 DEF NeedMore, Missing, KnownSize
<1> QED
  BY <1>1, <1>2

\* ... and when it has decoded one, consumes all of it.
LEMMA TakesHeader ==
  ASSUME NEW bytes \in Seq(Byte), decode_header(codec, bytes).tag = "Done"
  PROVE  /\ decode_header(codec, bytes).offset = KnownSize(bytes)
         /\ KnownSize(bytes) \in Nat /\ KnownSize(bytes) <= Len(bytes)
         /\ decode_header(codec, bytes).value.payload_len \in Nat
<1>1. Len(bytes) >= 2
  BY DEF decode_header, NeedMore
<1>2. bytes[2] \in Byte /\ ExtSize(bytes[2]) \in Nat /\ MaskSize(bytes[2]) \in Nat
  BY <1>1, Parts
<1> DEFINE lenEnd  == 2 + ExtSize(bytes[2])
           maskEnd == lenEnd + MaskSize(bytes[2])
<1>3. ~(Len(bytes) < lenEnd) /\ ~(Len(bytes) < maskEnd) /\ decode_header(codec, bytes) = Done(Decoded(bytes), maskEnd)
  BY <1>1 DEF decode_header, NeedMore, Err
<1>4. Decoded(bytes).payload_len = DecodeLen(bytes)
  BY DEF Decoded, FirstBytes
<1>5. DecodeLen(bytes) \in Nat
  BY <1>1, <1>2, <1>3, LenIsNat
<1> QED
  BY <1>1, <1>2, <1>3, <1>4, <1>5 DEF Done, KnownSize

\* Receiver::buffer as a part of the stream.
LEMMA SliceFrom ==
  ASSUME NEW s \in Seq(Byte), NEW c \in Nat, NEW n \in Nat, c <= n, n <= Len(s)
  PROVE  /\ SubSeq(s, c + 1, n) \in Seq(Byte) /\ Len(SubSeq(s, c + 1, n)) = n - c
         /\ n - c >= 2 => SubSeq(s, c + 1, n)[2] = s[c + 2]
<1>1. c + 1 \in Nat /\ 1 <= c + 1 /\ c + 1 <= n + 1
  OBVIOUS
<1> QED
  BY <1>1, Slice

\* The same in terms of the state.
LEMMA BufferIs ==
  ASSUME Positions
  PROVE  /\ Buffer \in Seq(Byte) /\ Len(Buffer) = sock - cur
         /\ sock - cur >= 2 => Buffer[2] = stream[cur + 2]
  BY SliceFrom DEF Positions, Buffer

\* The size of a header is at least two, and does not change once it is known.
LEMMA SizeGrows ==
  ASSUME NEW a \in Seq(Byte), NEW b \in Seq(Byte), Len(a) <= Len(b),
         Len(a) >= 2 => a[2] = b[2]
  PROVE  KnownSize(a) \in Nat /\ KnownSize(b) \in Nat /\ KnownSize(a) <= KnownSize(b)
<1>1. \A s \in Seq(Byte) : Len(s) >= 2 => ExtSize(s[2]) \in Nat /\ MaskSize(s[2]) \in Nat
  BY Parts
<1> QED
  BY <1>1 DEF KnownSize

-----------------------------------------------------------------------------
(* The bytes of the frames.                                                *)

\* f holds the bytes of the first i frames, for i up to n.
IsUpTo(f, frames, n) == f = [i \in 0..n |-> IF i = 0 THEN <<>> ELSE f[i - 1] \o Encoded(frames[i])]

\* There is such a function for every n ...
LEMMA UpToExists == ASSUME NEW frames, NEW n \in Nat PROVE \E f : IsUpTo(f, frames, n)
<1> DEFINE S == {m \in Nat : \E f : IsUpTo(f, frames, m)}
<1>1. 0 \in S
  <2> DEFINE f == [i \in 0..0 |-> <<>>]
  <2>1. IsUpTo(f, frames, 0)
    BY DEF IsUpTo
  <2> QED
    BY <2>1
<1>2. ASSUME NEW m \in Nat, m \in S PROVE m + 1 \in S
  <2>1. PICK f : IsUpTo(f, frames, m)
    BY <1>2
  <2> DEFINE g == [i \in 0..(m + 1) |-> IF i <= m THEN f[i] ELSE f[m] \o Encoded(frames[m + 1])]
  <2>2. ASSUME NEW i \in 0..(m + 1)
        PROVE  g[i] = IF i = 0 THEN <<>> ELSE g[i - 1] \o Encoded(frames[i])
    <3>1. CASE i = 0
      BY <2>1, <3>1 DEF IsUpTo
    <3>2. CASE i # 0 /\ i <= m
      <4>1. i \in 0..m /\ i - 1 \in 0..(m + 1) /\ i - 1 <= m
        BY <3>2
      <4>2. g[i] = f[i] /\ g[i - 1] = f[i - 1]
        BY <3>2, <4>1
      <4>3. f[i] = f[i - 1] \o Encoded(frames[i])
        BY <2>1, <3>2, <4>1 DEF IsUpTo
      <4> QED
        BY <3>2, <4>2, <4>3
    <3>3. CASE i = m + 1
      <4>1. i - 1 = m /\ i # 0 /\ ~(i <= m) /\ m \in 0..(m + 1)
        BY <3>3
      <4>2. g[i] = f[m] \o Encoded(frames[m + 1])
        BY <4>1
      <4>3. g[m] = f[m]
        BY <4>1
      <4> QED
        BY <3>3, <4>1, <4>2, <4>3
    <3> QED
      BY <3>1, <3>2, <3>3
  <2>3. IsUpTo(g, frames, m + 1)
    <3>1. g = [i \in 0..(m + 1) |-> g[i]]
      OBVIOUS
    <3> HIDE DEF g
    <3> QED
      BY <2>2, <3>1 DEF IsUpTo
  <2> QED
    BY <2>3
<1>3. Nat \subseteq S
  <2> HIDE DEF S
  <2> QED
    BY <1>1, <1>2, InductionNat
<1> QED
  BY <1>3

\* ... so StreamUpTo is one.
LEMMA UpTo ==
  ASSUME NEW frames, Len(frames) \in Nat
  PROVE  /\ StreamUpTo(frames)[0] = <<>>
         /\ \A i \in 1..Len(frames) : StreamUpTo(frames)[i] = StreamUpTo(frames)[i - 1] \o Encoded(frames[i])
<1>1. IsUpTo(StreamUpTo(frames), frames, Len(frames))
  <2>1. \E f : IsUpTo(f, frames, Len(frames))
    BY UpToExists
  <2> QED
    BY <2>1 DEF StreamUpTo, IsUpTo
<1> DEFINE f == StreamUpTo(frames)
           body(i) == IF i = 0 THEN <<>> ELSE f[i - 1] \o Encoded(frames[i])
<1> HIDE DEF f
<1>2. f = [i \in 0..Len(frames) |-> body(i)]
  BY <1>1 DEF IsUpTo, f
<1> HIDE DEF body
<1>3. \A i \in 0..Len(frames) : f[i] = body(i)
  BY <1>2
<1>4. f[0] = <<>>
  BY <1>3 DEF body
<1>5. ASSUME NEW i \in 1..Len(frames) PROVE f[i] = f[i - 1] \o Encoded(frames[i])
  <2>1. i \in 0..Len(frames) /\ i # 0
    OBVIOUS
  <2> QED
    BY <1>3, <2>1 DEF body
<1> QED
  BY <1>4, <1>5 DEF f

\* s is the beginning of t ...
Begins(s, t) == s \in Seq(Byte) /\ t \in Seq(Byte) /\ Len(s) <= Len(t) /\ \A i \in 1..Len(s) : t[i] = s[i]

\* ... which is transitive.
LEMMA BeginsTransitive == ASSUME NEW r, NEW s, NEW t, Begins(r, s), Begins(s, t) PROVE Begins(r, t)
<1>1. Len(r) \in Nat /\ Len(s) \in Nat /\ Len(t) \in Nat
  BY DEF Begins
<1> QED
  BY <1>1 DEF Begins

\* The bytes of a frame: its header, then its masked payload.
LEMMA FrameBytes ==
  ASSUME NEW f \in Frames
  PROVE  LET e == encode_header(f.header)
             p == apply_mask(f.header, f.payload)
             s == Encoded(f)
         IN  /\ s \in Seq(Byte) /\ Len(s) = Len(e) + Len(p)
             /\ e \in Seq(Byte) /\ p \in Seq(Byte) /\ Len(p) = Len(f.payload)
             /\ \A i \in 1..Len(e) : s[i] = e[i]
             /\ \A i \in 1..Len(p) : s[Len(e) + i] = p[i]
<1>1. f.header \in Headers /\ f.payload \in Seq(Byte)
  BY DEF Frames
<1>2. encode_header(f.header) \in Seq(Byte)
  BY <1>1, HeaderBytes DEF Encodes
<1>3. apply_mask(f.header, f.payload) \in Seq(Byte) /\ Len(apply_mask(f.header, f.payload)) = Len(f.payload)
  BY <1>1, MaskTwice
<1> QED
  BY <1>2, <1>3, Concat DEF Encoded

\* The frames that a peer writes.
LEMMA WritesFrames ==
  ASSUME NEW frames, Writable(frames)
  PROVE  Len(frames) \in Nat /\ \A i \in 1..Len(frames) : frames[i] \in Frames /\ Encoded(frames[i]) \in Seq(Byte)
<1>1. frames \in Seq(Frames)
  BY DEF Writable
<1>2. Len(frames) \in Nat /\ \A i \in 1..Len(frames) : frames[i] \in Frames
  BY <1>1, ElementOfSeq
<1> QED
  BY <1>2, FrameBytes

\* What the peer writes are bytes, frame by frame.
LEMMA UpToBytes ==
  ASSUME NEW frames, Writable(frames)
  PROVE  \A m \in 0..Len(frames) : StreamUpTo(frames)[m] \in Seq(Byte)
<1> DEFINE U == StreamUpTo(frames)
           S == {m \in Nat : m <= Len(frames) => U[m] \in Seq(Byte)}
<1>1. Len(frames) \in Nat
  BY DEF Writable
<1>2. U[0] = <<>> /\ \A i \in 1..Len(frames) : U[i] = U[i - 1] \o Encoded(frames[i])
  BY <1>1, UpTo
<1>3. \A i \in 1..Len(frames) : Encoded(frames[i]) \in Seq(Byte)
  BY WritesFrames
<1> HIDE DEF U
<1>4. 0 \in S
  <2>1. <<>> \in Seq(Byte)
    OBVIOUS
  <2> QED
    BY <1>2, <2>1
<1>5. ASSUME NEW m \in Nat, m \in S PROVE m + 1 \in S
  <2>1. SUFFICES ASSUME m + 1 <= Len(frames) PROVE U[m + 1] \in Seq(Byte)
    OBVIOUS
  <2>2. m + 1 \in 1..Len(frames) /\ (m + 1) - 1 = m /\ m <= Len(frames)
    BY <1>1, <2>1
  <2>3. U[m + 1] = U[m] \o Encoded(frames[m + 1]) /\ U[m] \in Seq(Byte)
    BY <1>2, <1>5, <2>2
  <2> QED
    BY <1>3, <2>2, <2>3, Concat
<1>6. Nat \subseteq S
  <2> HIDE DEF S
  <2> QED
    BY <1>4, <1>5, InductionNat
<1> QED
  BY <1>1, <1>6 DEF U

\* The bytes of the first frames are the beginning of the stream.
LEMMA UpToBegins ==
  ASSUME NEW frames, Writable(frames), NEW k \in 0..Len(frames)
  PROVE  Begins(StreamUpTo(frames)[k], Stream(frames))
<1> DEFINE U == StreamUpTo(frames)
           S == {d \in Nat : k + d <= Len(frames) => Begins(U[k], U[k + d])}
<1>1. Len(frames) \in Nat /\ k \in Nat /\ k <= Len(frames)
  BY DEF Writable
<1>2. \A i \in 1..Len(frames) : U[i] = U[i - 1] \o Encoded(frames[i])
  BY <1>1, UpTo
<1>3. \A i \in 1..Len(frames) : Encoded(frames[i]) \in Seq(Byte)
  BY WritesFrames
<1>4. \A m \in 0..Len(frames) : U[m] \in Seq(Byte)
  BY UpToBytes
<1> HIDE DEF U
<1>5. 0 \in S
  <2>1. U[k] \in Seq(Byte) /\ k + 0 = k
    BY <1>1, <1>4
  <2>2. Len(U[k]) \in Nat
    BY <2>1
  <2> QED
    BY <2>1, <2>2 DEF Begins
<1>6. ASSUME NEW d \in Nat, d \in S PROVE d + 1 \in S
  <2>1. SUFFICES ASSUME k + (d + 1) <= Len(frames) PROVE Begins(U[k], U[k + (d + 1)])
    OBVIOUS
  <2>2. PICK m \in Nat : m = k + d /\ m + 1 = k + (d + 1) /\ m <= Len(frames)
    BY <1>1, <2>1
  <2>3. m + 1 \in 1..Len(frames) /\ (m + 1) - 1 = m /\ m \in 0..Len(frames)
    BY <1>1, <2>1, <2>2
  <2>4. U[m + 1] = U[m] \o Encoded(frames[m + 1]) /\ U[m] \in Seq(Byte) /\ Encoded(frames[m + 1]) \in Seq(Byte)
    BY <1>2, <1>3, <1>4, <2>3
  <2>5. Begins(U[m], U[m + 1])
    <3> DEFINE s == U[m]
               t == Encoded(frames[m + 1])
    <3>1. s \in Seq(Byte) /\ t \in Seq(Byte) /\ U[m + 1] = s \o t
      BY <2>4
    <3> HIDE DEF s, t
    <3>2. Len(s) \in Nat /\ Len(t) \in Nat
      BY <3>1
    <3>3. s \o t \in Seq(Byte) /\ Len(s \o t) = Len(s) + Len(t) /\ \A i \in 1..Len(s) : (s \o t)[i] = s[i]
      BY <3>1, Concat
    <3>4. Begins(s, U[m + 1])
      BY <3>1, <3>2, <3>3 DEF Begins
    <3> QED
      BY <3>4 DEF s
  <2>6. Begins(U[k], U[m])
    BY <1>6, <2>2
  <2> QED
    BY <2>2, <2>5, <2>6, BeginsTransitive
<1>7. Nat \subseteq S
  <2> HIDE DEF S
  <2> QED
    BY <1>5, <1>6, InductionNat
<1>8. Len(frames) - k \in Nat /\ k + (Len(frames) - k) = Len(frames)
  BY <1>1
<1>9. Begins(U[k], U[Len(frames)])
  <2>1. PICK d \in Nat : d = Len(frames) - k /\ k + d = Len(frames)
    BY <1>8
  <2>2. k + d <= Len(frames)
    BY <1>1, <2>1
  <2>3. d \in S
    <3> HIDE DEF S
    <3> QED
      BY <1>7
  <2>4. Begins(U[k], U[k + d])
    BY <2>2, <2>3
  <2> QED
    BY <2>1, <2>4
<1> QED
  BY <1>9 DEF U, Stream

\* Frame k + 1 stands behind the first k frames.
LEMMA Located ==
  ASSUME NEW frames, Writable(frames), NEW k \in Nat, k < Len(frames)
  PROVE  LET c == Len(StreamUpTo(frames)[k])
             s == Encoded(frames[k + 1])
         IN  /\ Stream(frames) \in Seq(Byte) /\ c \in Nat /\ Len(s) \in Nat
             /\ Len(StreamUpTo(frames)[k + 1]) = c + Len(s)
             /\ c + Len(s) <= Len(Stream(frames))
             /\ \A i \in 1..Len(s) : Stream(frames)[c + i] = s[i]
<1> DEFINE U == StreamUpTo(frames)
           s == Encoded(frames[k + 1])
           c == Len(U[k])
<1>1. Len(frames) \in Nat /\ k + 1 \in 1..Len(frames) /\ k + 1 \in 0..Len(frames) /\ k \in 0..Len(frames) /\ (k + 1) - 1 = k
  BY DEF Writable
<1>2. U[k + 1] = U[k] \o s
  BY <1>1, UpTo
<1>3. U[k] \in Seq(Byte)
  BY <1>1, UpToBytes
<1>4. s \in Seq(Byte)
  BY <1>1, WritesFrames
<1>5. Begins(U[k + 1], Stream(frames))
  BY <1>1, UpToBegins
<1> HIDE DEF U, s
<1>6. Len(U[k + 1]) = c + Len(s) /\ c \in Nat /\ Len(s) \in Nat /\ \A i \in 1..Len(s) : U[k + 1][c + i] = s[i]
  BY <1>2, <1>3, <1>4, Concat
<1> HIDE DEF c
<1>7. ASSUME NEW i \in 1..Len(s) PROVE Stream(frames)[c + i] = s[i]
  <2>1. c + i \in 1..Len(U[k + 1])
    BY <1>6
  <2> QED
    BY <1>5, <1>6, <2>1 DEF Begins
<1>8. Stream(frames) \in Seq(Byte) /\ c + Len(s) <= Len(Stream(frames))
  BY <1>5, <1>6 DEF Begins
<1> QED
  BY <1>6, <1>7, <1>8 DEF U, s, c

-----------------------------------------------------------------------------
(* The invariant.                                                          *)

\* The handshake leaves any number of bytes in the buffer.
LEMMA InvInit == Init => Inv
<1> SUFFICES ASSUME Init PROVE Inv
  OBVIOUS
<1>1. stream \in Seq(Byte)
  <2>1. Writable(input)
    BY FrameIOAssumption DEF Init
  <2>2. Len(input) \in 0..Len(input)
    BY <2>1, WritesFrames
  <2> QED
    BY <2>1, <2>2, UpToBytes DEF Init, Stream
<1> QED
  BY <1>1 DEF Init, Inv, Positions, NoSurplus, HeaderOnly, NewHeader

\* receive_header reads no more than the header lacks.
LEMMA InvReadMore == Inv /\ ReadMore => Inv'
<1> SUFFICES ASSUME Inv, ReadMore PROVE Inv'
  OBVIOUS
<1>1. Buffer \in Seq(Byte) /\ Len(Buffer) = sock - cur /\ (sock - cur >= 2 => Buffer[2] = stream[cur + 2])
  BY BufferIs DEF Inv
<1>2. /\ decode_header(codec, Buffer).n \in Nat
      /\ Len(Buffer) + decode_header(codec, Buffer).n <= KnownSize(Buffer)
  BY <1>1, AsksForHeader DEF ReadMore
<1>3. PICK k \in 1..decode_header(codec, Buffer).n : sock + k <= Len(stream) /\ sock' = sock + k
  BY DEF ReadMore
<1>4. Positions'
  BY <1>2, <1>3 DEF Inv, Positions, ReadMore
<1>5. /\ Buffer' \in Seq(Byte) /\ Len(Buffer') = sock' - cur'
      /\ sock' - cur' >= 2 => Buffer'[2] = stream'[cur' + 2]
  <2>1. stream' \in Seq(Byte) /\ cur' \in Nat /\ sock' \in Nat /\ cur' <= sock' /\ sock' <= Len(stream')
    BY <1>4 DEF Positions
  <2> QED
    BY <2>1, SliceFrom DEF Buffer
<1>6. KnownSize(Buffer) \in Nat /\ KnownSize(Buffer') \in Nat /\ KnownSize(Buffer) <= KnownSize(Buffer')
  BY <1>1, <1>2, <1>3, <1>5, SizeGrows, SMTT(30) DEF Inv, Positions, ReadMore
<1>7. sock' - cur' <= KnownSize(Buffer')
  BY <1>1, <1>2, <1>3, <1>6 DEF Inv, Positions, ReadMore
<1>8. NoSurplus' /\ HeaderOnly'
  BY <1>7 DEF NoSurplus, HeaderOnly, ReadMore, KnownSize
<1> QED
  BY <1>4, <1>8 DEF Inv

\* When the header is complete, either it was all that the buffer held, or nothing
\* has been read since the handshake.
LEMMA InvHeaderDone == Inv /\ HeaderDone => Inv'
<1> SUFFICES ASSUME Inv, HeaderDone PROVE Inv'
  OBVIOUS
<1>1. Buffer \in Seq(Byte) /\ Len(Buffer) = sock - cur
  BY BufferIs DEF Inv
<1>2. /\ cur' = cur + KnownSize(Buffer)
      /\ KnownSize(Buffer) \in Nat /\ KnownSize(Buffer) <= sock - cur
      /\ header'.payload_len \in Nat
  BY <1>1, TakesHeader DEF HeaderDone
<1>3. Positions'
  BY <1>2 DEF Inv, Positions, HeaderDone
<1>4. HeaderOnly'
  BY <1>2 DEF Inv, Positions, NoSurplus, HeaderOnly, HeaderDone
<1>5. NoSurplus'
  BY DEF HeaderDone, NoSurplus
<1> QED
  BY <1>3, <1>4, <1>5 DEF Inv

\* A payload is taken from the buffer first, so nothing that has been read since the
\* handshake is left over.
LEMMA InvReadPayload == Inv /\ ReadPayload => Inv'
<1> SUFFICES ASSUME Inv, ReadPayload PROVE Inv'
  OBVIOUS
<1>1. Positions'
  BY DEF Inv, Positions, ReadPayload
<1>2. sock' = left' \/ sock' = cur'
  BY DEF Inv, Positions, HeaderOnly, ReadPayload
<1>3. Buffer' \in Seq(Byte) /\ KnownSize(Buffer') \in Nat
  <2>1. Buffer' \in Seq(Byte)
    <3>1. stream' \in Seq(Byte) /\ cur' \in Nat /\ sock' \in Nat /\ cur' <= sock' /\ sock' <= Len(stream')
      BY <1>1 DEF Positions
    <3> QED
      BY <3>1, SliceFrom DEF Buffer
  <2> QED
    BY <2>1, SizeGrows
<1>4. NoSurplus'
  BY <1>1, <1>2, <1>3 DEF NoSurplus, Positions
<1>5. HeaderOnly'
  BY DEF HeaderOnly, ReadPayload
<1> QED
  BY <1>1, <1>4, <1>5 DEF Inv

\* Every step preserves the invariant.
LEMMA InvNext == Inv /\ [Next]_vars => Inv'
<1> SUFFICES ASSUME Inv, [Next]_vars PROVE Inv'
  OBVIOUS
<1>1. CASE ReadMore
  BY <1>1, InvReadMore
<1>2. CASE HeaderDone
  BY <1>2, InvHeaderDone
<1>3. CASE ReadPayload
  BY <1>3, InvReadPayload
<1>4. CASE ReadEof
  BY <1>4 DEF ReadEof, Inv, Positions, NoSurplus, HeaderOnly
<1>5. CASE HeaderErr
  BY <1>5 DEF HeaderErr, Inv, Positions, NoSurplus, HeaderOnly
<1>6. CASE PayloadEof
  BY <1>6 DEF PayloadEof, Inv, Positions, NoSurplus, HeaderOnly
<1>7. CASE UNCHANGED vars
  BY <1>7 DEF vars, Inv, Positions, NoSurplus, HeaderOnly, Buffer
<1> QED
  BY <1>1, <1>2, <1>3, <1>4, <1>5, <1>6, <1>7 DEF Next

\* receive_header never takes a byte of a payload from the socket, for any stream of
\* bytes, in any pieces, and any codec.
THEOREM HeadersOnly == Spec => []HeaderOnly
<1>1. Inv => HeaderOnly
  BY DEF Inv
<1> QED
  BY <1>1, InvInit, InvNext, PTL DEF Spec

-----------------------------------------------------------------------------
(* The frames that come out.                                               *)

\* Where the receiver stands: behind the frames it has received, or behind the header
\* of the next one, which is well-formed; or it has refused the next one, which is not.
Received ==
  /\ input \in Inputs /\ stream = Stream(input)
  /\ out \in Seq(Frames) /\ Len(out) <= Len(input)
  /\ \A i \in 1..Len(out) : out[i] = input[i]
  /\ header.payload_len <= codec.max_data_size
  /\ pc \in {"header", "payload", "Closed", "Err"}
  /\ pc = "header" => cur = Len(StreamUpTo(input)[Len(out)])
  /\ pc = "payload" => /\ Len(out) < Len(input) /\ header = input[Len(out) + 1].header
                       /\ cur = Len(StreamUpTo(input)[Len(out)]) + Len(encode_header(header))
                       /\ WellFormed(header)
  /\ pc = "Err" => Len(out) < Len(input) /\ ~WellFormed(input[Len(out) + 1].header)

FrameInv == Inv /\ Received

\* The checks of decode_header are those of RFC 6455.
LEMMA ErrorsAreMalformed ==
  ASSUME NEW h \in Headers
  PROVE  WellFormed(h) <=> HeadError(codec, h) = "none" /\ LenError(codec, h, h.payload_len) = "none"
<1>1. h.payload_len \in Nat /\ codec.max_data_size \in Nat
  BY HugeIs, FrameIOAssumption DEF Headers
<1> QED
  BY <1>1 DEF WellFormed, HeadError, LenError, is_reserved, is_control, MAX_CTRL_BODY_SIZE

\* What stands behind the frames received.
LEMMA NextFrame ==
  ASSUME Received, Len(out) < Len(input)
  PROVE  LET k == Len(out)
             f == input[k + 1]
             e == encode_header(f.header)
             p == apply_mask(f.header, f.payload)
             c == Len(StreamUpTo(input)[k])
         IN  /\ k \in Nat /\ k + 1 \in 1..Len(input) /\ Len(input) \in Nat
             /\ f \in Frames /\ f.header \in Headers /\ f.payload \in Seq(Byte)
             /\ e \in Seq(Byte) /\ p \in Seq(Byte) /\ Len(p) = Len(f.payload)
             /\ c \in Nat /\ Len(e) \in Nat /\ Len(p) \in Nat
             /\ Len(StreamUpTo(input)[k + 1]) = c + Len(e) + Len(p)
             /\ c + Len(e) + Len(p) <= Len(stream)
             /\ \A i \in 1..Len(e) : stream[c + i] = e[i]
             /\ \A i \in 1..Len(p) : stream[c + Len(e) + i] = p[i]
<1> DEFINE k == Len(out)
           f == input[k + 1]
           e == encode_header(f.header)
           p == apply_mask(f.header, f.payload)
           c == Len(StreamUpTo(input)[k])
           s == Encoded(f)
<1>1. Writable(input) /\ stream = Stream(input) /\ k \in Nat /\ k < Len(input)
  BY FrameIOAssumption DEF Received
<1>2. Len(input) \in Nat /\ \A i \in 1..Len(input) : input[i] \in Frames
  BY <1>1, WritesFrames
<1>3. k + 1 \in 1..Len(input)
  BY <1>1, <1>2
<1>4. f \in Frames
  BY <1>2, <1>3
<1>5. /\ stream \in Seq(Byte) /\ c \in Nat /\ Len(s) \in Nat
      /\ Len(StreamUpTo(input)[k + 1]) = c + Len(s) /\ c + Len(s) <= Len(stream)
      /\ \A i \in 1..Len(s) : stream[c + i] = s[i]
  BY <1>1, Located
<1>6. f.header \in Headers /\ f.payload \in Seq(Byte)
  BY <1>4 DEF Frames
<1>7. /\ Len(s) = Len(e) + Len(p)
      /\ e \in Seq(Byte) /\ p \in Seq(Byte) /\ Len(p) = Len(f.payload)
      /\ \A i \in 1..Len(e) : s[i] = e[i]
      /\ \A i \in 1..Len(p) : s[Len(e) + i] = p[i]
  BY <1>4, FrameBytes
<1> HIDE DEF k, f, e, p, c, s
<1>8. Len(e) \in Nat /\ Len(p) \in Nat
  BY <1>7
<1>9. \A i \in 1..Len(e) : stream[c + i] = e[i]
  BY <1>5, <1>7, <1>8
<1>10. ASSUME NEW i \in 1..Len(p) PROVE stream[c + Len(e) + i] = p[i]
  <2>1. PICK j \in 1..Len(s) : j = Len(e) + i
    BY <1>7, <1>8
  <2>2. stream[c + j] = s[j] /\ s[j] = p[i] /\ c + j = c + Len(e) + i
    BY <1>5, <1>7, <1>8, <2>1
  <2> QED
    BY <2>2
<1>11. c + Len(s) = c + Len(e) + Len(p)
  <2>1. Len(s) = Len(e) + Len(p) /\ c \in Nat
    BY <1>5, <1>7
  <2> QED
    BY <1>8, <2>1
<1>12. Len(StreamUpTo(input)[k + 1]) = c + Len(e) + Len(p) /\ c + Len(e) + Len(p) <= Len(stream)
  BY <1>5, <1>11
<1> QED
  BY <1>1, <1>2, <1>3, <1>4, <1>5, <1>6, <1>7, <1>8, <1>9, <1>10, <1>12 DEF k, f, e, p, c

\* Its header, as Header::new makes it: a mask only if it is masked.
LEMMA NextHeader ==
  ASSUME Received, Len(out) < Len(input)
  PROVE  LET h == input[Len(out) + 1].header IN h \in Headers /\ (~h.masked => h.mask = 0)
<1>1. Writable(input)
  BY FrameIOAssumption DEF Received
<1>2. Len(out) + 1 \in 1..Len(input) /\ input[Len(out) + 1].header \in Headers
  BY NextFrame
<1> QED
  BY <1>1, <1>2 DEF Writable

\* As long as decode_header has seen two bytes there is a next frame, and the buffer
\* starts with its header.
LEMMA BufferStarts ==
  ASSUME FrameInv, pc = "header", Len(Buffer) >= 2
  PROVE  Len(out) < Len(input) /\ StartsLike(Buffer, encode_header(input[Len(out) + 1].header))
<1>1. stream \in Seq(Byte) /\ cur \in Nat /\ sock \in Nat /\ cur <= sock /\ sock <= Len(stream) /\ Len(stream) \in Nat
  BY DEF FrameInv, Inv, Positions
<1>2. Buffer \in Seq(Byte) /\ Len(Buffer) = sock - cur /\ \A i \in 1..Len(Buffer) : Buffer[i] = stream[cur + i]
  <2>1. cur + 1 \in Nat /\ 1 <= cur + 1 /\ cur + 1 <= sock + 1 /\ (sock - (cur + 1)) + 1 = sock - cur
    BY <1>1
  <2>2. /\ Buffer \in Seq(Byte) /\ Len(Buffer) = (sock - (cur + 1)) + 1
        /\ \A i \in 1..(sock - (cur + 1)) + 1 : Buffer[i] = stream[(cur + 1) + i - 1]
    BY <1>1, <2>1, Slice DEF Buffer
  <2>3. ASSUME NEW i \in 1..Len(Buffer) PROVE Buffer[i] = stream[cur + i]
    <3>1. (cur + 1) + i - 1 = cur + i
      BY <1>1
    <3> QED
      BY <2>2, <3>1
  <2> QED
    BY <2>1, <2>2, <2>3
<1>3. Received /\ Len(out) \in Nat /\ Len(input) \in Nat
  <2>1. Writable(input)
    BY FrameIOAssumption DEF FrameInv, Received
  <2> QED
    BY <2>1, WritesFrames DEF FrameInv, Received
<1>4. Len(out) < Len(input)
  <2>1. Len(out) = Len(input) => cur = Len(stream)
    BY DEF FrameInv, Received, Stream
  <2> QED
    BY <1>1, <1>2, <1>3, <2>1 DEF Received
<1> DEFINE e == encode_header(input[Len(out) + 1].header)
           c == Len(StreamUpTo(input)[Len(out)])
<1>5. e \in Seq(Byte) /\ \A i \in 1..Len(e) : stream[c + i] = e[i]
  BY <1>3, <1>4, NextFrame
<1>6. c = cur
  BY <1>3 DEF Received
<1> HIDE DEF e, c
<1>7. ASSUME NEW i \in 1..Len(Buffer), i <= Len(e) PROVE Buffer[i] = e[i]
  <2>1. i \in 1..Len(e)
    BY <1>5, <1>7
  <2> QED
    BY <1>2, <1>5, <1>6, <2>1
<1> QED
  BY <1>2, <1>4, <1>7 DEF StartsLike, e

\* At the start nothing is received.
LEMMA FrameInit == Init => FrameInv
<1> SUFFICES ASSUME Init PROVE FrameInv
  OBVIOUS
<1>1. Writable(input) /\ codec.max_data_size \in Nat
  BY HugeIs, FrameIOAssumption DEF Init
<1>2. Len(input) \in Nat
  BY <1>1, WritesFrames
<1>3. StreamUpTo(input)[0] = <<>>
  BY <1>2, UpTo
<1>4. out \in Seq(Frames) /\ Len(out) = 0 /\ Len(<<>>) = 0
  BY DEF Init
<1>5. header.payload_len = 0
  BY DEF Init, NewHeader
<1>6. cur = Len(StreamUpTo(input)[Len(out)])
  BY <1>3, <1>4 DEF Init
<1>7. Received
  BY <1>1, <1>2, <1>4, <1>5, <1>6 DEF Init, Received
<1> QED
  BY <1>7, InvInit DEF FrameInv

\* decode_header has seen two bytes when it succeeds or fails.
LEMMA TwoBytes == ASSUME NEW bytes, decode_header(codec, bytes).tag # "NeedMore", Len(bytes) \in Nat
                  PROVE  Len(bytes) >= 2
BY DEF decode_header, NeedMore

\* A header that is complete is that of the next frame.
LEMMA FrameHeaderDone == FrameInv /\ HeaderDone => Received'
<1> SUFFICES ASSUME FrameInv, HeaderDone PROVE Received'
  OBVIOUS
<1> DEFINE h == input[Len(out) + 1].header
           result == decode_header(codec, Buffer)
<1>1. Len(Buffer) \in Nat
  <2>1. Buffer \in Seq(Byte)
    BY BufferIs DEF FrameInv, Inv
  <2> QED
    BY <2>1
<1>2. pc = "header" /\ result.tag = "Done" /\ header' = result.value /\ cur' = cur + result.offset
  BY DEF HeaderDone
<1>3. Len(Buffer) >= 2
  BY <1>1, <1>2, TwoBytes
<1>4. Len(out) < Len(input) /\ StartsLike(Buffer, encode_header(h))
  BY <1>2, <1>3, BufferStarts
<1>5. h \in Headers /\ (~h.masked => h.mask = 0)
  BY <1>4, NextHeader DEF FrameInv
<1>6. /\ result.value = h /\ result.offset = Len(encode_header(h))
      /\ HeadError(codec, h) = "none" /\ LenError(codec, h, h.payload_len) = "none"
  BY <1>2, <1>4, <1>5, DecodeInverts
<1>7. WellFormed(h)
  BY <1>5, <1>6, ErrorsAreMalformed
<1> HIDE DEF h, result
<1>8. header' = h /\ cur' = cur + Len(encode_header(h)) /\ cur = Len(StreamUpTo(input)[Len(out)])
  BY <1>2, <1>6 DEF FrameInv, Received
<1>9. h.payload_len <= codec.max_data_size
  BY <1>7 DEF WellFormed
<1>10. UNCHANGED <<input, stream, out>> /\ pc' = "payload"
  BY DEF HeaderDone
<1>11. WellFormed(header')
  BY <1>7, <1>8
<1> QED
  BY <1>4, <1>8, <1>9, <1>10, <1>11 DEF FrameInv, Received, WellFormed, h

\* A header that is refused is malformed.
LEMMA FrameHeaderErr == FrameInv /\ HeaderErr => Received'
<1> SUFFICES ASSUME FrameInv, HeaderErr PROVE Received'
  OBVIOUS
<1> DEFINE h == input[Len(out) + 1].header
           result == decode_header(codec, Buffer)
<1>1. Len(Buffer) \in Nat
  <2>1. Buffer \in Seq(Byte)
    BY BufferIs DEF FrameInv, Inv
  <2> QED
    BY <2>1
<1>2. pc = "header" /\ result.tag = "Err"
  BY DEF HeaderErr
<1>3. Len(Buffer) >= 2
  BY <1>1, <1>2, TwoBytes
<1>4. Len(out) < Len(input) /\ StartsLike(Buffer, encode_header(h))
  BY <1>2, <1>3, BufferStarts
<1>5. h \in Headers /\ (~h.masked => h.mask = 0)
  BY <1>4, NextHeader DEF FrameInv
<1>6. HeadError(codec, h) # "none" \/ LenError(codec, h, h.payload_len) # "none"
  BY <1>2, <1>4, <1>5, DecodeInverts
<1>7. ~WellFormed(h)
  BY <1>5, <1>6, ErrorsAreMalformed
<1> HIDE DEF h, result
<1>8. UNCHANGED <<input, stream, out, header, cur>> /\ pc' = "Err"
  BY DEF HeaderErr
<1>9. ~WellFormed(h)'
  BY <1>7, <1>8 DEF h, WellFormed
<1> QED
  BY <1>4, <1>8, <1>9 DEF FrameInv, Received, WellFormed, h

\* A payload that is complete is that of the next frame.
LEMMA FrameReadPayload == FrameInv /\ ReadPayload => Received'
<1> SUFFICES ASSUME FrameInv, ReadPayload PROVE Received'
  OBVIOUS
<1> DEFINE k == Len(out)
           f == input[k + 1]
           e == encode_header(f.header)
           p == apply_mask(f.header, f.payload)
           c == Len(StreamUpTo(input)[k])
           len == f.header.payload_len
<1>1. pc = "payload" /\ k < Len(input) /\ header = f.header /\ cur = c + Len(e) /\ Received
  BY DEF FrameInv, Received, ReadPayload
<1>2. /\ k \in Nat /\ k + 1 \in 1..Len(input) /\ Len(input) \in Nat
      /\ f \in Frames /\ f.header \in Headers /\ f.payload \in Seq(Byte)
      /\ e \in Seq(Byte) /\ p \in Seq(Byte) /\ Len(p) = Len(f.payload)
      /\ c \in Nat /\ Len(e) \in Nat /\ Len(p) \in Nat
      /\ Len(StreamUpTo(input)[k + 1]) = c + Len(e) + Len(p)
      /\ c + Len(e) + Len(p) <= Len(stream)
      /\ \A i \in 1..Len(p) : stream[c + Len(e) + i] = p[i]
  BY <1>1, NextFrame
<1>3. stream = Stream(input) /\ Writable(input) /\ stream \in Seq(Byte) /\ Len(stream) \in Nat /\ len \in Nat
  BY <1>1, FrameIOAssumption DEF FrameInv, Inv, Positions, Received
<1>4. /\ cur + len <= Len(stream) /\ cur' = cur + len /\ pc' = "header"
      /\ out' = Append(out, [header |-> f.header, payload |-> apply_mask(f.header, SubSeq(stream, cur + 1, cur'))])
      /\ UNCHANGED <<input, stream, header>>
  BY <1>1 DEF ReadPayload
<1>5. Len(p) = len
  <2>1. Len(p) <= len /\ (k + 1 < Len(input) => Len(p) = len)
    BY <1>2, <1>3 DEF Writable
  <2>2. k + 1 = Len(input) => c + Len(e) + Len(p) = Len(stream)
    BY <1>2, <1>3 DEF Stream
  <2> HIDE DEF k, f, e, p, c, len
  <2>3. Len(p) \in Nat /\ Len(e) \in Nat /\ c \in Nat /\ len \in Nat /\ k \in Nat /\ Len(input) \in Nat
    BY <1>2, <1>3
  <2>4. cur = c + Len(e) /\ cur + len <= Len(stream) /\ k < Len(input)
    BY <1>1, <1>4
  <2> QED
    BY <2>1, <2>2, <2>3, <2>4
<1> HIDE DEF e, c, len
<1>6. SubSeq(stream, cur + 1, cur') = p
  <2> DEFINE q == SubSeq(stream, cur + 1, cur')
  <2> HIDE DEF p
  <2>1. cur \in Nat /\ cur' \in Nat /\ cur + 1 \in Nat /\ 1 <= cur + 1 /\ cur + 1 <= cur' + 1 /\ cur' <= Len(stream)
    <3>1. cur \in Nat /\ len \in Nat
      BY <1>3 DEF FrameInv, Inv, Positions
    <3>2. cur' = cur + len /\ cur + len <= Len(stream)
      BY <1>4
    <3> QED
      BY <3>1, <3>2
  <2>2. /\ q \in Seq(Byte) /\ Len(q) = (cur' - (cur + 1)) + 1
        /\ \A i \in 1..(cur' - (cur + 1)) + 1 : q[i] = stream[(cur + 1) + i - 1]
    BY <1>3, <2>1, Slice
  <2>3. (cur' - (cur + 1)) + 1 = Len(p)
    BY <1>3, <1>4, <1>5, <2>1
  <2> HIDE DEF q
  <2>4. ASSUME NEW i \in 1..Len(p) PROVE q[i] = p[i]
    <3>1. (cur + 1) + i - 1 = c + Len(e) + i
      BY <1>1, <1>2
    <3> QED
      BY <1>2, <2>2, <2>3, <3>1
  <2>5. q = p
    BY <1>2, <2>2, <2>3, <2>4, SeqEqual
  <2> QED
    BY <2>5 DEF q
<1>7. apply_mask(f.header, p) = f.payload
  BY <1>2, MaskTwice
<1>8. [header |-> f.header, payload |-> f.payload] = f
  BY <1>2 DEF Frames
<1>9. out' = Append(out, f)
  BY <1>4, <1>6, <1>7, <1>8
<1>10. out \in Seq(Frames) /\ \A i \in 1..k : out[i] = input[i]
  BY <1>1 DEF Received
<1>11. out' \in Seq(Frames) /\ Len(out') = k + 1 /\ (\A i \in 1..k : out'[i] = out[i]) /\ out'[k + 1] = f
  <2> HIDE DEF f
  <2> QED
    BY <1>2, <1>9, <1>10
<1>12. ASSUME NEW i \in 1..(k + 1) PROVE out'[i] = input[i]
  <2>1. CASE i = k + 1
    BY <1>11, <2>1
  <2>2. CASE i # k + 1
    BY <1>2, <1>10, <1>11, <2>2, SMTT(30)
  <2> QED
    BY <2>1, <2>2
<1>13. cur' = Len(StreamUpTo(input)[k + 1])
  <2> HIDE DEF f, p
  <2> QED
    BY <1>1, <1>2, <1>3, <1>4, <1>5
<1>14. k + 1 <= Len(input)
  BY <1>2
<1> HIDE DEF k, f, p
<1> QED
  BY <1>1, <1>4, <1>11, <1>12, <1>13, <1>14 DEF Received

\* Every step preserves the invariant.
LEMMA FrameNext == FrameInv /\ [Next]_vars => FrameInv'
<1> SUFFICES ASSUME FrameInv, [Next]_vars PROVE FrameInv'
  OBVIOUS
<1>1. Inv'
  BY InvNext DEF FrameInv
<1>2. Received'
  <2>1. CASE ReadMore
    BY <2>1 DEF ReadMore, FrameInv, Received, WellFormed
  <2>2. CASE ReadEof
    BY <2>2 DEF ReadEof, FrameInv, Received, WellFormed
  <2>3. CASE HeaderDone
    BY <2>3, FrameHeaderDone
  <2>4. CASE HeaderErr
    BY <2>4, FrameHeaderErr
  <2>5. CASE ReadPayload
    BY <2>5, FrameReadPayload
  <2>6. CASE PayloadEof
    BY <2>6 DEF PayloadEof, FrameInv, Received, WellFormed
  <2>7. CASE UNCHANGED vars
    BY <2>7 DEF vars, FrameInv, Received, WellFormed
  <2> QED
    BY <2>1, <2>2, <2>3, <2>4, <2>5, <2>6, <2>7 DEF Next
<1> QED
  BY <1>1, <1>2 DEF FrameInv

\* The receiver stays where the invariant says.
LEMMA FrameInvHolds == Spec => []FrameInv
BY FrameInit, FrameNext, PTL DEF Spec

\* Positions stay within the stream, and no frame is accepted that is longer than
\* Codec::max_data_size.
THEOREM FrameTypes == Spec => []TypeOK
<1>1. FrameInv => TypeOK
  <2> SUFFICES ASSUME FrameInv PROVE TypeOK
    OBVIOUS
  <2>1. codec.max_data_size \in Nat /\ header.payload_len \in Nat /\ header.payload_len <= codec.max_data_size
    BY HugeIs, FrameIOAssumption DEF FrameInv, Inv, Positions, Received
  <2>2. header.payload_len \in 0..codec.max_data_size
    BY <2>1
  <2> QED
    BY <2>2 DEF FrameInv, Inv, Positions, Received, TypeOK
<1> QED
  BY <1>1, FrameInvHolds, PTL

\* The frames that Receiver takes off the socket are those that the peer wrote, header
\* and unmasked payload, for any frames, in any pieces, and for any codec.
THEOREM FramesComeOut == Spec => []FramesIntact
<1>1. FrameInv => FramesIntact
  <2> SUFFICES ASSUME FrameInv PROVE FramesIntact
    OBVIOUS
  <2>1. Writable(input)
    BY FrameIOAssumption DEF FrameInv, Received
  <2>2. Len(input) \in Nat /\ Len(out) \in Nat
    BY <2>1, WritesFrames DEF FrameInv, Received
  <2>3. \A i \in 1..Len(out) : i <= Len(input) /\ out[i] = input[i]
    BY <2>2 DEF FrameInv, Received
  <2> QED
    BY <2>3 DEF FrameInv, Received, FramesIntact
<1> QED
  BY <1>1, FrameInvHolds, PTL

\* decode_header accepts well-formed headers only, and refuses malformed ones only.
THEOREM MalformedIsRefused == Spec => []RefusesMalformed
<1>1. FrameInv => RefusesMalformed
  BY DEF FrameInv, Received, RefusesMalformed
<1> QED
  BY <1>1, FrameInvHolds, PTL

=============================================================================
