-------------------------- MODULE MCDeflateEncode ---------------------------
(* Instances of DeflateEncode for TLC.                                     *)
EXTENDS DeflateEncode

Lists(n, S) == UNION { [1..k -> S] : k \in 0..n }

\* Payloads in which 00 00 FF FF occurs.
WithTail == { Tail4 \o d : d \in Lists(2, {"x"}) }

\* All sorts of payloads.
SomeDatas == Lists(4, {"0", "F"}) \union Lists(7, {"x"}) \union WithTail

\* A coded block that has none of its bytes, parts of them, or all.
SomeCodes == {<<"c">>, <<"c", "0", "0">>, <<"F", "F">>, <<"c">> \o Tail4}

\* Only the first.
PlainCodes == {<<"c">>}

=============================================================================
