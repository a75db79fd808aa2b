------------------------------ MODULE MCFrameIO ------------------------------
(* Instances of FrameIO for TLC.                                           *)
EXTENDS FrameIO

DeflateCodec == [max_data_size |-> 65536, reserved_bits |-> {1}]

Header(fin, rsv, opcode, mask, len) ==
  [NewHeader(opcode) EXCEPT !.fin = fin, !.rsv1 = (1 \in rsv), !.rsv2 = (2 \in rsv), !.rsv3 = (3 \in rsv),
                            !.masked = (mask # 0), !.mask = mask, !.payload_len = len]

Masks == {0, 305419896}     \* none, 0x12345678

Frame(fin, rsv, opcode, mask, len) ==
  [header |-> Header(fin, rsv, opcode, mask, len), payload |-> SubSeq(<<255, 0>>, 1, IF len < 2 THEN len ELSE 2)]

\* Every kind of first byte, and lengths on both sides of each boundary.  Only two
\* bytes of a longer payload are sent.
Single ==
  { <<Frame(fin, rsv, opcode, 0, len)>> : fin \in BOOLEAN, rsv \in {{}, {1}, {2}, {3}}, opcode \in OpCode, len \in {1, 126} }
  \union
  { <<Frame(TRUE, {}, opcode, mask, len)>> : opcode \in {"Binary", "Ping"}, mask \in Masks,
                                           len \in {0, 1, 125, 126, 127, 65535, 65536, 65537} }

\* Sequences of short frames.
Short == { [header |-> Header(TRUE, {}, opcode, mask, Len(data)), payload |-> data] :
             opcode \in {"Text", "Ping"}, mask \in Masks, data \in {<<>>, <<129>>, <<8, 1, 0, 200, 17>>} }

Pairs == { <<a, b>> : a \in Short, b \in Short }

All == Single \union Pairs

=============================================================================
