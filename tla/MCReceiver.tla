----------------------------- MODULE MCReceiver ------------------------------
(* Instances of Receiver for TLC.                                          *)
EXTENDS Receiver

Frame(opcode, fin, rsv1, len, body) == [opcode |-> opcode, fin |-> fin, rsv1 |-> rsv1, len |-> len, body |-> body]
Plain(opcode, fin, len) == Frame(opcode, fin, FALSE, len, "good")

Control ==
  {Plain("Ping", TRUE, 0), Plain("Ping", TRUE, 2), Plain("Pong", TRUE, 1)}
    \union { Frame("Close", TRUE, FALSE, 1, body) : body \in {"good", "short", "utf8", "code"} }

Data ==
  { Plain("Text", fin, len) : fin \in BOOLEAN, len \in {0, 2} }
    \union { Plain("Continue", fin, len) : fin \in BOOLEAN, len \in {0, 1} }
    \union { Plain("Binary", TRUE, 1), Frame("Text", TRUE, TRUE, 1, "good") }

\* Is a message open after the frames?
Open(frames) ==
  \E i \in 1..Len(frames) : /\ ~frames[i].fin
                            /\ \A j \in i+1..Len(frames) : is_control(frames[j].opcode)

PongInside(frames) ==
  \E i \in 1..Len(frames) : frames[i].opcode = "Pong" /\ Open(SubSeq(frames, 1, i - 1))

UpTo(n, S) == UNION { [1..k -> S] : k \in 1..n }

Plains == { frames \in UpTo(3, Control \union Data) : ~PongInside(frames) }

\* Fragmented messages with a PONG in between.
Ponged == { <<Plain("Text", FALSE, 1), Plain("Pong", TRUE, 1), Plain("Continue", TRUE, 1)>> }

\* Compressed messages, fragmented or not, among others.
Zipped ==
  { Frame(opcode, fin, rsv1, 1, "good") : opcode \in {"Text", "Binary"}, fin \in BOOLEAN, rsv1 \in BOOLEAN }
    \union { Plain("Continue", fin, len) : fin \in BOOLEAN, len \in {0, 1} }
    \union { Frame("Text", TRUE, TRUE, 2, "corrupt"), Plain("Ping", TRUE, 1) }

Deflated == UpTo(4, Zipped)

\* Messages in a single frame, some of them too large.
Sized == UpTo(3, { Plain("Text", TRUE, len) : len \in 0..5 } \union { Plain("Ping", TRUE, 1) })

\* A message that becomes too large with its second fragment, and another one.
SizedFragments == { <<Plain("Text", FALSE, 2), Plain("Continue", TRUE, 2), Plain("Binary", TRUE, 3)>> }

\* Fragmented messages around the limit, exceeded by the last frame at most.
Fragments ==
  { frames \in UpTo(4, { Plain("Text", FALSE, len) : len \in 0..3 } \union { Plain("Continue", fin, len) : fin \in BOOLEAN, len \in 0..2 }
                         \union { Plain("Ping", TRUE, 1) }) :
      FoldFunction(LAMBDA f, sum : sum + (IF is_control(f.opcode) THEN 0 ELSE f.len), 0, Front(frames)) <= 3 }


-----------------------------------------------------------------------------
Case(inputs, maxLeft, extensions, maxSize) ==
  [Inputs |-> inputs,
   setup  |-> [MaxLeft |-> maxLeft, has_extensions |-> extensions, max_message_size |-> maxSize,
               ClearsMessage |-> TRUE, Prior |-> 0]]

Appending(case) == [case EXCEPT !.setup.ClearsMessage = FALSE, !.setup.Prior = 1]

All == { Case(Plains, 12, FALSE, 6), Case(Deflated, 2, TRUE, 8),
         Case(Fragments, 0, FALSE, 3), Appending(Case(Sized, 0, FALSE, 3)) }

PongBetween == { Case(Ponged, 0, FALSE, 6) }
LimitPassed == { Case(SizedFragments, 0, FALSE, 3) }

=============================================================================
