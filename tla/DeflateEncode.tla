---------------------------- MODULE DeflateEncode ----------------------------
(***************************************************************************)
(* Deflate::encode of src/extension/deflate.rs: the loops that drive the   *)
(* compressor with a growing buffer, find the empty block that ends a      *)
(* message (00 00 FF FF) and cut it off; and the buffer that is kept from  *)
(* one call to the next.                                                   *)
(*                                                                         *)
(* The compressor (flate2 with zlib) is external.  It takes input when it  *)
(* likes and turns what it holds into blocks when it likes, but stops only *)
(* when its input is used up or its output full.  A block is stored, as a  *)
(* header and the bytes themselves, or coded, as any of a given set of     *)
(* outputs, which may well hold the four bytes that encode looks for.      *)
(***************************************************************************)
EXTENDS Naturals, Sequences, SequencesExt

CONSTANTS
  Datas,       \* the payloads, as sequences of bytes
  Coded,       \* what the compressor may write for a block that it does not store
  Spares,      \* unused capacity of the vectors that the application passes in
  RESERVE,     \* 4096
  MaxCalls     \* bound on the calls of encode

\* The empty block that a sync flush writes, and the part of it that encode looks for.
\* "h" is a byte with the three zero bits that begin a stored block, so it is not FF.
Empty == <<"h", "0", "0", "F", "F">>
Tail4 == <<"0", "0", "F", "F">>

ASSUME DeflateEncodeAssumption ==
  /\ Datas \subseteq Seq({"x", "0", "F"}) /\ Coded \subseteq Seq({"c", "0", "F"}) \ {<<>>}
  /\ Spares \subseteq Nat /\ RESERVE \in Nat \ {0} /\ MaxCalls \in Nat

VARIABLES
  pc,        \* "idle", or "compress" and "flush" in the two loops
  header,    \* the header: opcode and rsv1
  data,      \* the payload: bytes and capacity of its vector, Storage::Owned or not, and
             \* its length before encode
  buffer,    \* Deflate::buffer
  cap,       \* its capacity
  zlib,      \* the compressor
  calls      \* the number of calls

vars == <<pc, header, data, buffer, cap, zlib, calls>>

\* Compress::new_with_window_bits.  held is input that is in no block yet, pending output
\* that has not been written; markers counts the empty blocks, wrote is all output.
NewZlib == [total_in |-> 0, held |-> <<>>, pending |-> <<>>, markers |-> 0, wrote |-> <<>>]

Init ==
  /\ pc = "idle" /\ calls = 0
  /\ header = [opcode |-> "Text", rsv1 |-> FALSE]
  /\ data = [bytes |-> <<>>, cap |-> 0, owned |-> FALSE, plain |-> 0]
  /\ buffer = <<>> /\ cap = 0
  /\ zlib = NewZlib

-----------------------------------------------------------------------------
(* Vec and Compress                                                        *)

Larger(a, b)  == IF a > b THEN a ELSE b
Smaller(a, b) == IF a < b THEN a ELSE b

\* Vec::reserve: a vector that has to grow at least doubles.
Reserve(len, capacity, n) ==
  IF capacity - len >= n THEN capacity ELSE Larger(8, Larger(2 * capacity, len + n))

\* What compress_vec does with room for so many bytes, when the compressor has taken n
\* bytes, holds on to some and has produced out.
After(room, n, rest, out, markers) ==
  LET w == Smaller(room, Len(out))
  IN  /\ buffer' = buffer \o SubSeq(out, 1, w)
      /\ zlib' = [total_in |-> zlib.total_in + n, held |-> rest, pending |-> SubSeq(out, w + 1, Len(out)),
                  markers |-> zlib.markers + markers, wrote |-> zlib.wrote \o SubSeq(out, 1, w)]

Blocks(bytes) == IF bytes = <<>> THEN {<<>>} ELSE {<<"h">> \o bytes} \union Coded

\* compress_vec with FlushCompress::None: Status::Ok
CompressNone(room, input) ==
  \E n \in 0..Len(input) :
    LET all == zlib.held \o SubSeq(input, 1, n)
    IN  \E j \in 0..Len(all) : \E block \in Blocks(SubSeq(all, 1, j)) :
          /\ n < Len(input) => Len(zlib.pending \o block) >= room
          /\ Len(zlib.pending) >= room => n = 0 /\ j = 0
          /\ After(room, n, SubSeq(all, j + 1, Len(all)), zlib.pending \o block, 0)

\* compress_vec with FlushCompress::Sync and no input.  The empty block is begun when all
\* else has been written and there is room left; if it does not fit, the next call
\* writes its rest and another one.
CompressSync(room) ==
  IF Len(zlib.pending) >= room THEN After(room, 0, zlib.held, zlib.pending, 0)
  ELSE \E block \in Blocks(zlib.held) :
         LET out == zlib.pending \o block
         IN  IF block # <<>> /\ Len(out) >= room THEN After(room, 0, <<>>, out, 0)
             ELSE After(room, 0, <<>>, out \o Empty, 1)

-----------------------------------------------------------------------------
(* Deflate::encode                                                         *)

\* Mutant: the buffer is not cleared.
Uncleared == buffer

\* self.buffer.clear()
Cleared == <<>>

\* Mutant: the compressor is kept from one call to the next.
EncoderKept == zlib

\* Each call has a compressor of its own.
Encoder == NewZlib

\* The beginning of encode: there is nothing to do for an empty payload, nor for a
\* control frame.
Encode(opcode, bytes, spare, owned) ==
  /\ pc = "idle" /\ calls < MaxCalls
  /\ calls' = calls + 1
  /\ header' = [opcode |-> opcode, rsv1 |-> FALSE]
  /\ data' = [bytes |-> bytes, cap |-> Len(bytes) + spare, owned |-> owned, plain |-> Len(bytes)]
  /\ IF bytes = <<>> \/ opcode # "Text"
     THEN UNCHANGED <<pc, buffer, cap, zlib>>
     ELSE /\ pc' = "compress"
          /\ buffer' = Cleared
          /\ cap' = Reserve(Len(buffer'), cap, Len(bytes))
          /\ zlib' = Encoder

\* The first loop, until the compressor has taken all input.
Compress ==
  /\ pc = "compress"
  /\ zlib.total_in < Len(data.bytes)
  /\ IF cap = Len(buffer)
     THEN cap' = Reserve(Len(buffer), cap, RESERVE) /\ UNCHANGED <<buffer, zlib>>
     ELSE CompressNone(cap - Len(buffer), SubSeq(data.bytes, zlib.total_in + 1, Len(data.bytes))) /\ UNCHANGED cap
  /\ UNCHANGED <<pc, header, data, calls>>

Compressed ==
  /\ pc = "compress" /\ zlib.total_in = Len(data.bytes)
  /\ pc' = "flush"
  /\ UNCHANGED <<header, data, buffer, cap, zlib, calls>>

\* Mutant: there is no room for the empty block.
FlushRoomNone == cap

\* Mutant: self.buffer.reserve_exact(5)
FlushRoomExact == Larger(cap, Len(buffer) + 5)

\* self.buffer.reserve(5)
FlushRoom == Reserve(Len(buffer), cap, 5)

\* The second loop, until the buffer ends with an empty block.
Flush ==
  /\ pc = "flush" /\ ~IsSuffix(Tail4, buffer)
  /\ cap' = FlushRoom
  /\ IF cap' = Len(buffer) THEN UNCHANGED <<buffer, zlib>> ELSE CompressSync(cap' - Len(buffer))
  /\ UNCHANGED <<pc, header, data, calls>>

\* The rest of encode: the vectors are swapped if the payload is owned, otherwise the
\* buffer is given away.
Finish ==
  /\ pc = "flush" /\ IsSuffix(Tail4, buffer)
  /\ pc' = "idle"
  /\ data' = [data EXCEPT !.bytes = SubSeq(buffer, 1, Len(buffer) - 4), !.cap = cap, !.owned = TRUE]
  /\ IF data.owned THEN buffer' = data.bytes /\ cap' = data.cap
                   ELSE buffer' = <<>> /\ cap' = 0
  /\ header' = [header EXCEPT !.rsv1 = TRUE]
  /\ UNCHANGED <<zlib, calls>>

Next ==
  \/ \E opcode \in {"Text", "Ping"}, bytes \in Datas, spare \in Spares, owned \in BOOLEAN : Encode(opcode, bytes, spare, owned)
  \/ Compress \/ Compressed \/ Flush \/ Finish

\* encode does not wait for anything.
Spec == Init /\ [][Next]_vars /\ WF_vars(Compress \/ Compressed \/ Flush \/ Finish)

-----------------------------------------------------------------------------
(* Properties                                                              *)

\* The buffer never outgrows its vector, nor does the compressor take more than there is.
TypeOK ==
  /\ pc \in {"idle", "compress", "flush"}
  /\ header.opcode \in {"Text", "Ping"} /\ header.rsv1 \in BOOLEAN
  /\ Len(buffer) <= cap /\ Len(data.bytes) <= data.cap
  /\ pc # "idle" => zlib.total_in <= Len(data.bytes)
  /\ calls <= MaxCalls

\* A message that encode has compressed can be inflated to the whole of it: with the
\* four bytes that decode puts back it is all that the compressor has written, from its
\* first byte on, and nothing of the message is left in the compressor.
Whole ==
  /\ data.bytes \o Tail4 = zlib.wrote
  /\ zlib.total_in = data.plain /\ zlib.held = <<>> /\ zlib.pending = <<>>

\* Every message that encode marks as compressed is whole.  It is not if the output of
\* the compressor has the four bytes before the flush, from the payload or by coding.
WholeMessage == pc = "idle" /\ header.rsv1 => Whole

\* Every message that encode has flushed is whole, whatever the payload and the output:
\* a part of the empty block, or of one that is repeated for want of room, is never taken
\* for its end, and only the last four bytes are cut off.  So 00 00 FF FF at the end of
\* what the compressor writes by itself is all that can make encode lose data.
FlushedIsWhole == pc = "idle" /\ header.rsv1 /\ zlib.markers > 0 => Whole

\* An empty block that does not fit is repeated, but not for ever: the vector grows
\* faster than that.
FewMarkers == zlib.markers <= 3

\* encode returns.
Returns == pc # "idle" ~> pc = "idle"

=============================================================================
