--------------------------- MODULE MessageChannel ---------------------------
(***************************************************************************)
(* What a websocket promises to the two applications that use it: each     *)
(* direction is a FIFO channel of messages, without loss, duplication or   *)
(* reordering, that ends with the report of a CLOSE.  The report comes     *)
(* only after every message sent before the CLOSE has been delivered, and  *)
(* nothing is delivered after it.  Probes (PINGs) take their place in the  *)
(* channel and are absorbed: no application gets to see them.              *)
(*                                                                         *)
(* The report may be replaced by an error (Fail), but only at an end that  *)
(* has itself sent a CLOSE or whose peer has vanished.  The channel does   *)
(* not promise that an end sends nothing after a CLOSE: it does not hold.  *)
(***************************************************************************)
EXTENDS Naturals, Sequences

CONSTANTS Ends, Peer(_), Messages, Probes, Closes

VARIABLES
  sent,       \* sent[e]: what end e has put on the network
  consumed,   \* consumed[e]: how many items of its peer's end e has dealt with
  received,   \* received[e]: what receive has returned at end e
  gone        \* gone[e]: end e has vanished

vars == <<sent, consumed, received, gone>>

Init ==
  /\ sent = [e \in Ends |-> <<>>]
  /\ consumed = [e \in Ends |-> 0]
  /\ received = [e \in Ends |-> <<>>]
  /\ gone = [e \in Ends |-> FALSE]

\* The application at e has been told of the peer's CLOSE.
Closed(e) == received[e] # <<>> /\ received[e][Len(received[e])] \in Closes

\* End e has sent a CLOSE.
HasClosed(e) == \E i \in 1..Len(sent[e]) : sent[e][i] \in Closes

\* End e puts a message, a probe or a CLOSE on the network.
Send(e) ==
  /\ ~gone[e]
  /\ sent' # sent /\ UNCHANGED <<gone, received, consumed>>
  /\ \E m \in Messages \cup Probes \cup Closes : sent' = [sent EXCEPT ![e] = Append(@, m)]

\* The next item of its peer that end e has to deal with.
Item(e) == sent[Peer(e)][consumed[e] + 1]

Consume(e) ==
  /\ ~gone[e] /\ ~Closed(e) /\ UNCHANGED gone
  /\ consumed[e] < Len(sent[Peer(e)])
  /\ consumed' = [consumed EXCEPT ![e] = @ + 1]
  /\ UNCHANGED sent

\* receive returns a message or reports the CLOSE.
Deliver(e) ==
  /\ Consume(e)
  /\ Item(e) \in Messages \cup Closes
  /\ received' = [received EXCEPT ![e] = Append(@, Item(e))]

Absorb(e) ==
  /\ Consume(e)
  /\ Item(e) \in Probes
  /\ UNCHANGED received

\* Receiving the CLOSE ends in an error.
Fail(e) ==
  /\ Consume(e)
  /\ Item(e) \in Closes
  /\ HasClosed(e) \/ gone[Peer(e)]
  /\ UNCHANGED received

Vanish(e) ==
  /\ ~gone[e]
  /\ gone' = [gone EXCEPT ![e] = TRUE]
  /\ UNCHANGED <<sent, consumed, received>>

Next == \E e \in Ends : Send(e) \/ Deliver(e) \/ Absorb(e) \/ Fail(e) \/ Vanish(e)

Spec == Init /\ [][Next]_vars

=============================================================================
