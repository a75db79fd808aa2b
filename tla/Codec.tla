-------------------------------- MODULE Codec --------------------------------
(***************************************************************************)
(* The base framing of RFC 6455 (src/base.rs): frame headers, their        *)
(* encoding and decoding, and payload masking, byte for byte.              *)
(*                                                                         *)
(* TLC's integers have 32 bits, so a mask or a payload length is below     *)
(* 2^31 here.  A length on the wire that is not is read as HUGE, which no  *)
(* codec accepts.                                                          *)
(***************************************************************************)
EXTENDS Naturals, Sequences

MAX_CTRL_BODY_SIZE == 125
TWO_EXT            == 126
EIGHT_EXT          == 127
U16_MAX            == 65535
HUGE               == 2147483647

Byte == 0..255

-----------------------------------------------------------------------------
(* OpCode                                                                  *)

\* impl TryFrom<u8> for OpCode; index 1 is opcode number 0.
TryFrom == <<"Continue", "Text", "Binary", "Reserved3", "Reserved4", "Reserved5", "Reserved6", "Reserved7",
             "Close", "Ping", "Pong", "Reserved11", "Reserved12", "Reserved13", "Reserved14", "Reserved15">>

\* impl From<OpCode> for u8
IntoU8 == [Continue |-> 0, Text |-> 1, Binary |-> 2, Close |-> 8, Ping |-> 9, Pong |-> 10,
           Reserved3 |-> 3, Reserved4 |-> 4, Reserved5 |-> 5, Reserved6 |-> 6, Reserved7 |-> 7,
           Reserved11 |-> 11, Reserved12 |-> 12, Reserved13 |-> 13, Reserved14 |-> 14, Reserved15 |-> 15]

OpCode == DOMAIN IntoU8

is_control(opcode)  == opcode \in {"Close", "Ping", "Pong"}
is_reserved(opcode) == opcode \notin {"Continue", "Text", "Binary", "Close", "Ping", "Pong"}

-----------------------------------------------------------------------------
(* Bits and big-endian integers                                            *)

Bit(byte, weight)  == (byte \div weight) % 2 = 1
Flag(set, weight)  == IF set THEN weight ELSE 0

U16ToBe(n)   == <<n \div 256, n % 256>>
U32ToBe(n)   == <<n \div 16777216, (n \div 65536) % 256, (n \div 256) % 256, n % 256>>
U64ToBe(n)   == <<0, 0, 0, 0>> \o U32ToBe(n)

U16FromBe(b) == 256 * b[1] + b[2]
U32FromBe(b) == 16777216 * b[1] + 65536 * b[2] + 256 * b[3] + b[4]
U64FromBe(b) == IF b[1] > 0 \/ b[2] > 0 \/ b[3] > 0 \/ b[4] > 0 \/ b[5] > 127
                THEN HUGE
                ELSE U32FromBe(SubSeq(b, 5, 8))

-----------------------------------------------------------------------------
(* Header and Codec                                                        *)

\* struct Header
Headers ==
  [fin : BOOLEAN, rsv1 : BOOLEAN, rsv2 : BOOLEAN, rsv3 : BOOLEAN,
   masked : BOOLEAN, opcode : OpCode, mask : 0..HUGE, payload_len : 0..HUGE]

\* Header::new
NewHeader(opcode) ==
  [fin |-> TRUE, rsv1 |-> FALSE, rsv2 |-> FALSE, rsv3 |-> FALSE,
   masked |-> FALSE, opcode |-> opcode, mask |-> 0, payload_len |-> 0]

\* The three outcomes of decode_header.
NeedMore(n)         == [tag |-> "NeedMore", n |-> n]
Done(value, offset) == [tag |-> "Done", value |-> value, offset |-> offset]
Err(error)          == [tag |-> "Err", error |-> error]

\* The number of bytes of an extended payload length.
ExtSize(second) == IF second % 128 = TWO_EXT THEN 2 ELSE IF second % 128 = EIGHT_EXT THEN 8 ELSE 0

MaskSize(second) == IF Bit(second, 128) THEN 4 ELSE 0

\* The header whose first two bytes are given; the length and mask are not yet
\* known.
FirstBytes(first, second) ==
  [fin |-> Bit(first, 128), rsv1 |-> Bit(first, 64), rsv2 |-> Bit(first, 32), rsv3 |-> Bit(first, 16),
   masked |-> Bit(second, 128), opcode |-> TryFrom[(first % 16) + 1], mask |-> 0, payload_len |-> 0]

\* The checks on the first byte, in their order.  reserved_bits holds the
\* reserved bits 1, 2, 3 that extensions use.
HeadError(codec, h) ==
  IF is_reserved(h.opcode) THEN "ReservedOpCode"
  ELSE IF is_control(h.opcode) /\ ~h.fin THEN "FragmentedControl"
  ELSE IF \/ h.rsv1 /\ 1 \notin codec.reserved_bits
          \/ h.rsv2 /\ 2 \notin codec.reserved_bits
          \/ h.rsv3 /\ 3 \notin codec.reserved_bits THEN "InvalidReservedBit"
  ELSE "none"

\* Mutant: a control frame may have any length.
LenErrorNoControl(codec, h, len) == IF len > codec.max_data_size THEN "PayloadTooLarge" ELSE "none"

\* Mutant: the limit on the payload length is not applied.
LenErrorNoLimit(codec, h, len) ==
  IF len > MAX_CTRL_BODY_SIZE /\ is_control(h.opcode) THEN "InvalidControlFrameLen" ELSE "none"

\* The checks on the payload length.
LenError(codec, h, len) ==
  IF len > MAX_CTRL_BODY_SIZE /\ is_control(h.opcode) THEN "InvalidControlFrameLen"
  ELSE IF len > codec.max_data_size THEN "PayloadTooLarge"
  ELSE "none"

DecodeLen(bytes) ==
  IF ExtSize(bytes[2]) = 2 THEN U16FromBe(SubSeq(bytes, 3, 4))
  ELSE IF ExtSize(bytes[2]) = 8 THEN U64FromBe(SubSeq(bytes, 3, 10))
  ELSE bytes[2] % 128

\* The header that decode_header returns once all its bytes are there.
Decoded(bytes) ==
  LET h      == FirstBytes(bytes[1], bytes[2])
      lenEnd == 2 + ExtSize(bytes[2])
  IN  [h EXCEPT !.payload_len = DecodeLen(bytes),
                !.mask = IF h.masked THEN U32FromBe(SubSeq(bytes, lenEnd + 1, lenEnd + 4)) ELSE 0]

\* Mutant: asks for the whole extended length although part of it is there.
Missing_all(bytes, end) == end

\* Mutant: asks for one byte less than the header still lacks.
Missing_less(bytes, end) == (end - Len(bytes)) - 1

\* How many bytes are missing up to end.
Missing(bytes, end) == end - Len(bytes)

\* Codec::decode_header
decode_header(codec, bytes) ==
  IF Len(bytes) < 2 THEN NeedMore(2 - Len(bytes))
  ELSE LET h       == FirstBytes(bytes[1], bytes[2])
           lenEnd  == 2 + ExtSize(bytes[2])
           maskEnd == lenEnd + MaskSize(bytes[2])
       IN  IF HeadError(codec, h) # "none" THEN Err(HeadError(codec, h))
           ELSE IF Len(bytes) < lenEnd THEN NeedMore(Missing(bytes, lenEnd))
           ELSE IF LenError(codec, h, DecodeLen(bytes)) # "none" THEN Err(LenError(codec, h, DecodeLen(bytes)))
           ELSE IF Len(bytes) < maskEnd THEN NeedMore(Missing(bytes, maskEnd))
           ELSE Done(Decoded(bytes), maskEnd)

\* Mutant: a length of 126 is taken to fit in the second byte.
EncodeLenShort(h) ==
  LET len == h.payload_len
      m   == Flag(h.masked, 128)
  IN  IF len <= TWO_EXT THEN <<m + len>>
      ELSE IF len <= U16_MAX THEN <<m + TWO_EXT>> \o U16ToBe(len)
      ELSE <<m + EIGHT_EXT>> \o U64ToBe(len)

\* The second byte and the extended payload length.
EncodeLen(h) ==
  LET len == h.payload_len
      m   == Flag(h.masked, 128)
  IN  IF len < TWO_EXT THEN <<m + len>>
      ELSE IF len <= U16_MAX THEN <<m + TWO_EXT>> \o U16ToBe(len)
      ELSE <<m + EIGHT_EXT>> \o U64ToBe(len)

\* Codec::encode_header
encode_header(h) ==
  <<Flag(h.fin, 128) + Flag(h.rsv1, 64) + Flag(h.rsv2, 32) + Flag(h.rsv3, 16) + IntoU8[h.opcode]>>
    \o EncodeLen(h)
    \o (IF h.masked THEN U32ToBe(h.mask) ELSE <<>>)

Xor(a, b) ==
  LET bit(w) == IF Bit(a, w) # Bit(b, w) THEN w ELSE 0
  IN  bit(1) + bit(2) + bit(4) + bit(8) + bit(16) + bit(32) + bit(64) + bit(128)

\* Codec::apply_mask
apply_mask(h, data) ==
  IF h.masked
  THEN [i \in 1..Len(data) |-> Xor(data[i], U32ToBe(h.mask)[((i - 1) % 4) + 1])]
  ELSE data

=============================================================================
