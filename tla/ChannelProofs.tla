---------------------------- MODULE ChannelProofs ----------------------------
(* Proofs about what a Connection is to its users: PINGs are mirrored, and    *)
(* the whole implements MessageChannel.                                       *)
EXTENDS ConnectionProofs, FiniteSetTheorems

-----------------------------------------------------------------------------
(* Halving token counts: the k-th frame ends at token 2k.                  *)

\* Halves of even numbers.
LEMMA HalfEven ==
  ASSUME NEW n \in Nat, n % 2 = 0
  PROVE  2 * (n \div 2) = n /\ (n + 1) % 2 = 1 /\ (n + 1) \div 2 = n \div 2 /\ n \div 2 \in Nat
OBVIOUS

\* Halves of odd numbers.
LEMMA HalfOdd ==
  ASSUME NEW n \in Nat, n % 2 = 1
  PROVE  2 * (n \div 2) + 1 = n /\ (n + 1) % 2 = 0 /\ (n + 1) \div 2 = (n \div 2) + 1 /\ n \div 2 \in Nat
OBVIOUS

\* Parity alternates.
LEMMA NextParity == \A n \in Nat : (n + 1) % 2 = 1 <=> n % 2 # 1
OBVIOUS

\* A number is even or odd.
LEMMA EvenOrOdd == \A n \in Nat : n % 2 = 0 \/ n % 2 = 1
OBVIOUS

\* Halving keeps the order.
LEMMA HalfOrder ==
  ASSUME NEW m \in Nat, NEW n \in Nat, m <= n
  PROVE  m \div 2 <= n \div 2 /\ m \div 2 \in Nat /\ n \div 2 \in Nat
OBVIOUS

\* The even numbers up to a bound, by their halves.
LEMMA HalfWithin ==
  ASSUME NEW m \in Nat, NEW n \in Nat, m <= n
  PROVE  \A k \in 1 .. m \div 2 : 2 * k \in 1..n
OBVIOUS

\* Twice a number up to half the bound is even and within the bound.
LEMMA HalfInside ==
  ASSUME NEW n \in Nat, NEW k \in 1 .. n \div 2
  PROVE  2 * k \in 1..n /\ (2 * k) % 2 = 0
OBVIOUS

-----------------------------------------------------------------------------
(* The inductive invariant.                                                *)

\* Headers and payloads alternate in the first n tokens of w.
Parity(w, n) == \A i \in 1..n : w[i].part = "header" <=> i % 2 = 1

ParityInv == \A e \in Ends :
  /\ Parity(wire[e], drained[e])
  /\ ~Dead(e) => Parity(wire[e], Len(wire[e]))

\* A Receiver answers the last frame it has read, and keeps it in ctrl_buffer.
AnswerInv == \A e \in Ends : pc[e]["Receiver"] \in Waiting \cup Holding =>
  /\ wire[Peer(e)][rd[Peer(e)]].part = "payload"
  /\ LastRead(e).op \in {"Ping", "Close"}
  /\ job[e]["Receiver"] = Answer(LastRead(e))

\* Nothing is received once Incoming::Closed was returned, and that is how a
\* CLOSE gets among the results.
GotInv == \A e \in Ends :
  /\ is_closed[e] => pc[e]["Receiver"] = "idle"
  /\ ~is_closed[e] => \A i \in 1..Len(got[e]) : got[e][i].op # "Close"

\* Every frame on the wire comes from a call of a Sender, or answers one.
IdInv == \A e \in Ends :
  /\ pc[e]["Sender"] # "idle" => job[e]["Sender"].id \in Ids
  /\ \A i \in 1..Len(wire[e]) : wire[e][i].frame.op # "Flush" /\ wire[e][i].frame.id \in Ids

OrderInv == CloseInv /\ ParityInv /\ AnswerInv /\ GotInv /\ IdInv

\* The invariant holds of a new connection.
LEMMA OrderInit == Init => OrderInv
<1> SUFFICES ASSUME Init PROVE OrderInv
  OBVIOUS
<1>1. ParityInv /\ AnswerInv /\ GotInv /\ IdInv
  BY DEF Init, ParityInv, Parity, AnswerInv, GotInv, IdInv, Halves, Waiting, Holding
<1>2. QED
  BY <1>1, CloseInit DEF OrderInv

-----------------------------------------------------------------------------
(* Writing to the wire.                                                    *)

\* Only the two write_alls of a half put tokens on the wire.
LEMMA WireStep ==
  ASSUME Inv, [Next]_vars, NEW x \in Ends, wire'[x] # wire[x]
  PROVE  \E h \in Halves : WriteHeader(x, h) \/ WritePayload(x, h)
<1>t. wire \in [Ends -> Seq(Tokens)]
  BY DEF Inv, TypeOK, TransportOK
<1>1. ASSUME NEW e \in Ends, NEW h \in Halves, Step(e, h), ~WriteHeader(e, h), ~WritePayload(e, h)
      PROVE  wire' = wire
  BY <1>1 DEF Step, Lock, WriteFails, FlushOk, FlushFails, CloseOk, CloseFails, transport
<1>2. ASSUME NEW e \in Ends, SenderCall(e) \/ ReceiveCall(e) \/ Read(e) \/ Drain(e) \/ Crash(e) \/ Drop(e)
      PROVE  wire' = wire
  BY <1>2 DEF SenderCall, ReceiveCall, Read, ReadHeader, ReadPayload, ReadEof, Drain, Crash, Drop, transport
<1>3. ASSUME NEW e \in Ends, NEW h \in Halves, WriteHeader(e, h) \/ WritePayload(e, h) PROVE e = x
  BY <1>3, <1>t DEF WriteHeader, WritePayload, Put
<1>4. PICK e \in Ends, h \in Halves : WriteHeader(e, h) \/ WritePayload(e, h)
  BY <1>1, <1>2 DEF Next, vars
<1>5. QED
  BY <1>3, <1>4

\* The header of a frame goes behind a complete frame, its payload behind it.
LEMMA WriteAligned ==
  ASSUME Inv, NEW e \in Ends, NEW h \in Halves, ~Dead(e)
  PROVE  /\ WriteHeader(e, h) =>
              /\ ~Dangling(wire[e])
              /\ wire'[e] = Append(wire[e], [part |-> "header", frame |-> job[e][h]])
         /\ WritePayload(e, h) =>
              /\ Dangling(wire[e])
              /\ wire'[e] = Append(wire[e], [part |-> "payload", frame |-> job[e][h]])
<1>t. wire \in [Ends -> Seq(Tokens)] /\ LockInv /\ WireInv
  BY DEF Inv, TypeOK, TransportOK
<1>1. ASSUME WriteHeader(e, h)
      PROVE  /\ ~Dangling(wire[e])
             /\ wire'[e] = Append(wire[e], [part |-> "header", frame |-> job[e][h]])
  <2>1. \A g \in Halves : pc[e][g] \in Holding <=> writer[e] = g
    BY <1>t DEF LockInv
  <2>2. pc[e][h] = "header" /\ writer[e] = h
    BY <1>1, <2>1 DEF WriteHeader, At, Holding
  <2>3. \A g \in Halves : pc[e][g] # "payload"
    BY <2>1, <2>2 DEF Holding
  <2>4. QED
    BY <1>1, <2>3, <1>t DEF WriteHeader, Put, WireInv
<1>2. ASSUME WritePayload(e, h)
      PROVE  /\ Dangling(wire[e])
             /\ wire'[e] = Append(wire[e], [part |-> "payload", frame |-> job[e][h]])
  BY <1>2, <1>t DEF WritePayload, Put, At, WireInv
<1>3. QED
  BY <1>1, <1>2

\* A header dangles exactly where the wire has an odd length.
LEMMA DanglingOdd ==
  ASSUME OrderInv, NEW x \in Ends, ~Dead(x)
  PROVE  Dangling(wire[x]) <=> Len(wire[x]) % 2 = 1
<1> DEFINE n == Len(wire[x])
<1>1. n \in Nat
  BY DEF OrderInv, CloseInv, Inv, TypeOK, TransportOK
<1>2. CASE n = 0
  BY <1>2 DEF Dangling
<1>3. CASE n # 0
  <2>1. n \in 1..n /\ Len(wire[x]) > 0
    BY <1>1, <1>3
  <2>2. wire[x][n].part = "header" <=> n % 2 = 1
    BY <2>1 DEF OrderInv, ParityInv, Parity
  <2>3. QED
    BY <2>1, <2>2, Zenon DEF Dangling
<1>4. QED
  BY <1>2, <1>3

\* Headers and payloads go on alternating.
LEMMA ParityNext == OrderInv /\ [Next]_vars => ParityInv'
<1> SUFFICES ASSUME OrderInv, [Next]_vars, NEW x \in Ends
             PROVE  /\ Parity(wire'[x], drained'[x])
                    /\ ~Dead(x)' => Parity(wire'[x], Len(wire'[x]))
  BY DEF ParityInv, Parity
<1>i. Inv /\ Inv'
  BY InvNext DEF OrderInv, CloseInv
<1>t. /\ wire[x] \in Seq(Tokens) /\ wire'[x] \in Seq(Tokens)
      /\ drained[x] \in Nat /\ drained'[x] \in Nat
      /\ drained[x] <= Len(wire[x]) /\ drained'[x] <= Len(wire'[x])
      /\ job \in [Ends -> [Halves -> Frames]]
  BY <1>i DEF Inv, TypeOK, TransportOK, HalvesOK
<1>g. /\ \A i \in 1..Len(wire[x]) : wire'[x][i] = wire[x][i]
      /\ Dead(x) => drained'[x] = drained[x] /\ Dead(x)'
  BY <1>i, WireGrows, EndsStay
<1>w. Parity(wire[x], drained[x]) /\ (~Dead(x) => Parity(wire[x], Len(wire[x])))
  BY DEF OrderInv, ParityInv
<1>1. CASE Dead(x)
  BY <1>1, <1>g, <1>t, <1>w DEF Parity
<1>2. CASE ~Dead(x)
  <2>1. SUFFICES Parity(wire'[x], Len(wire'[x]))
    BY <1>t DEF Parity
  <2>2. CASE wire'[x] = wire[x]
    BY <2>2, <1>2, <1>w
  <2>3. CASE wire'[x] # wire[x]
    <3>1. PICK h \in Halves : WriteHeader(x, h) \/ WritePayload(x, h)
      BY <2>3, <1>i, WireStep
    <3>2. /\ \/ /\ ~Dangling(wire[x])
                /\ wire'[x] = Append(wire[x], [part |-> "header", frame |-> job[x][h]])
             \/ /\ Dangling(wire[x])
                /\ wire'[x] = Append(wire[x], [part |-> "payload", frame |-> job[x][h]])
      BY <3>1, <1>2, <1>i, WriteAligned
    <3> DEFINE n == Len(wire[x])
    <3>3. n \in Nat /\ Len(wire'[x]) = n + 1
      BY <3>2, <1>t
    <3>4. Dangling(wire[x]) <=> n % 2 = 1
      BY <1>2, DanglingOdd
    <3>5. /\ ~Dangling(wire[x]) => wire'[x][n + 1].part = "header"
          /\ Dangling(wire[x]) => wire'[x][n + 1].part = "payload"
      <4>1. ASSUME NEW t, wire'[x] = Append(wire[x], t) PROVE wire'[x][n + 1] = t
        BY <4>1, <1>t
      <4>2. QED
        BY <3>2, <4>1
    <3>6. wire'[x][n + 1].part = "header" <=> (n + 1) % 2 = 1
      <4>1. (n + 1) % 2 = 1 <=> n % 2 # 1
        BY <3>3, NextParity
      <4>2. QED
        BY <3>4, <3>5, <4>1
    <3>7. ASSUME NEW i \in 1 .. n + 1 PROVE wire'[x][i].part = "header" <=> i % 2 = 1
      <4>1. CASE i = n + 1
        BY <4>1, <3>6
      <4>2. CASE i \in 1..n
        BY <4>2, <1>2, <1>g, <1>w DEF Parity
      <4>3. QED
        BY <4>1, <4>2, <3>3, <3>7
    <3>8. QED
      BY <3>3, <3>7 DEF Parity
  <2>4. QED
    BY <2>2, <2>3
<1>3. QED
  BY <1>1, <1>2

-----------------------------------------------------------------------------
(* Reading and answering.                                                  *)

\* A Receiver that starts to answer has just read a PING or a CLOSE; it reads
\* nothing until it has answered.
LEMMA AnswerNext == OrderInv /\ [Next]_vars => AnswerInv'
<1> DEFINE Busy(x) == pc[x]["Receiver"] \in Waiting \cup Holding
           Goal(x) == /\ wire[Peer(x)][rd[Peer(x)]].part = "payload"
                      /\ LastRead(x).op \in {"Ping", "Close"}
                      /\ job[x]["Receiver"] = Answer(LastRead(x))
<1> SUFFICES ASSUME OrderInv, [Next]_vars, NEW x \in Ends, Busy(x)' PROVE Goal(x)'
  BY DEF AnswerInv
<1>i. Inv
  BY DEF OrderInv, CloseInv
<1>p. Peer(x) \in Ends /\ Peer(Peer(x)) = x
  BY PeerFacts
<1>t. /\ pc \in [Ends -> [Halves -> PCs]]
      /\ job \in [Ends -> [Halves -> Frames]]
      /\ wire \in [Ends -> Seq(Tokens)]
      /\ rd \in [Ends -> Nat]
      /\ rd[Peer(x)] <= Len(wire[Peer(x)])
  BY <1>i, <1>p DEF Inv, TypeOK, HalvesOK, TransportOK
<1>h. Halves = {"Sender", "Receiver"}
  BY DEF Halves
<1>g. \A i \in 1..Len(wire[Peer(x)]) : wire'[Peer(x)][i] = wire[Peer(x)][i]
  BY <1>i, <1>p, WireGrows
<1>1. ASSUME Busy(x), rd' = rd, job'[x]["Receiver"] = job[x]["Receiver"] PROVE Goal(x)'
  <2>1. rd[Peer(x)] \in 1..Len(wire[Peer(x)])
    BY <1>1, <1>i, <1>p, <1>t DEF Inv, AnswersSomething
  <2>2. Goal(x)
    BY <1>1 DEF OrderInv, AnswerInv
  <2>3. QED
    BY <1>1, <2>1, <2>2, <1>g DEF LastRead
<1>2. CASE UNCHANGED vars
  BY <1>1, <1>2 DEF vars
<1>3. ASSUME NEW e \in Ends, NEW h \in Halves, Step(e, h) PROVE Goal(x)'
  <2>1. UNCHANGED <<rd, job>>
    BY <1>3 DEF Step, Lock, WriteHeader, WritePayload, WriteFails, FlushOk, FlushFails, CloseOk, CloseFails, transport
  <2>2. /\ pc[e][h] \in Waiting \cup Holding
        /\ \E label : pc' = [pc EXCEPT ![e][h] = label]
    BY <1>3 DEF Step, Lock, WriteHeader, WritePayload, WriteFails, FlushOk, FlushFails, CloseOk, CloseFails,
                AfterWrite, Goto, Return, At, Waiting, Holding
  <2>3. Busy(x)
    BY <2>2, <1>t, <1>h
  <2>4. QED
    BY <2>1, <2>3, <1>1
<1>4. ASSUME NEW e \in Ends, SenderCall(e) PROVE Goal(x)'
  <2>1. /\ UNCHANGED rd
        /\ \E f : job' = [job EXCEPT ![e]["Sender"] = f]
        /\ \E label : pc' = [pc EXCEPT ![e]["Sender"] = label]
    BY <1>4 DEF SenderCall, Goto, transport
  <2>2. QED
    BY <2>1, <1>1, <1>t, <1>h
<1>5. ASSUME NEW e \in Ends, ReceiveCall(e) \/ ReadEof(e) PROVE Goal(x)'
  <2>1. /\ UNCHANGED <<rd, job>>
        /\ \E label \in {"idle", "recv"} : pc' = [pc EXCEPT ![e]["Receiver"] = label]
    BY <1>5 DEF ReceiveCall, ReadEof, Return, transport
  <2>2. QED
    BY <2>1, <1>1, <1>t, <1>h DEF Waiting, Holding
<1>6. ASSUME NEW e \in Ends, e # x, ReadHeader(e) \/ ReadPayload(e) PROVE Goal(x)'
  <2>1. /\ wire' = wire /\ rd' = [rd EXCEPT ![Peer(e)] = @ + 1]
        /\ job' = job \/ \E f : job' = [job EXCEPT ![e]["Receiver"] = f]
        /\ \E label : pc' = [pc EXCEPT ![e]["Receiver"] = label]
    BY <1>6 DEF ReadHeader, ReadPayload, Take, Goto, Return
  <2>2. Peer(e) # Peer(x)
    BY <1>6, PeerFacts, <1>p
  <2>3. rd'[Peer(x)] = rd[Peer(x)] /\ pc'[x] = pc[x] /\ job'[x] = job[x]
    BY <2>1, <2>2, <1>6, <1>p, <1>t
  <2>4. QED
    BY <2>1, <2>3 DEF LastRead, OrderInv, AnswerInv
<1>7. ASSUME ReadHeader(x) PROVE Goal(x)'
  BY <1>7, <1>t, <1>h DEF ReadHeader, Goto, Waiting, Holding
<1>8. ASSUME ReadPayload(x) PROVE Goal(x)'
  <2> DEFINE frame == job[x]["Receiver"]
  <2>1. /\ NextToken(x) = [part |-> "payload", frame |-> frame]
        /\ wire' = wire /\ rd' = [rd EXCEPT ![Peer(x)] = @ + 1]
        /\ \/ pc' = [pc EXCEPT ![x]["Receiver"] = "idle"]
           \/ /\ frame.op \notin Returned
              /\ job' = [job EXCEPT ![x]["Receiver"] = Answer(frame)]
    BY <1>8 DEF ReadPayload, Take, Return
  <2>2. frame.op \notin Returned /\ job'[x]["Receiver"] = Answer(frame)
    BY <2>1, <1>t, <1>h DEF Waiting, Holding
  <2>3. rd[Peer(x)] + 1 \in 1..Len(wire[Peer(x)])
    BY <1>8, <1>i, <1>p, <1>t DEF ReadPayload, Take, Inv, TypeOK, TransportOK
  <2>4. wire[Peer(x)][rd[Peer(x)] + 1].frame = frame
    BY <2>1 DEF NextToken
  <2>5. frame \in Frames /\ frame.op # "Flush"
    BY <2>3, <2>4, <1>p, <1>t, <1>h DEF OrderInv, IdInv
  <2>6. frame.op \in {"Ping", "Close"}
    BY <2>2, <2>5 DEF Frames, Calls, OpCodes, Returned
  <2>7. wire'[Peer(x)][rd'[Peer(x)]] = [part |-> "payload", frame |-> frame]
    BY <2>1, <1>p, <1>t DEF NextToken
  <2>8. QED
    BY <2>2, <2>6, <2>7 DEF LastRead
<1>9. ASSUME NEW e \in Ends, Drain(e) \/ Crash(e) \/ Drop(e) PROVE Goal(x)'
  BY <1>1, <1>9 DEF Drain, Crash, Drop
<1>10. QED
  BY <1>2, <1>3, <1>4, <1>5, <1>6, <1>7, <1>8, <1>9 DEF Next, Read

\* A CLOSE is the last result of receive.
LEMMA GotNext == OrderInv /\ [Next]_vars => GotInv'
<1> SUFFICES ASSUME OrderInv, [Next]_vars PROVE GotInv'
  OBVIOUS
<1>t. /\ pc \in [Ends -> [Halves -> PCs]]
      /\ is_closed \in [Ends -> BOOLEAN]
      /\ got \in [Ends -> Seq(Frames)]
      /\ job \in [Ends -> [Halves -> Frames]]
      /\ GotInv
  BY DEF OrderInv, CloseInv, Inv, TypeOK, HalvesOK, CallsOK
<1>h. Halves = {"Sender", "Receiver"}
  BY DEF Halves
<1>1. CASE UNCHANGED vars
  BY <1>1, <1>t DEF vars, GotInv
<1>2. ASSUME NEW e \in Ends, NEW h \in Halves, Step(e, h) PROVE GotInv'
  <2>1. pc[e][h] # "idle" /\ \E label : pc' = [pc EXCEPT ![e][h] = label]
    BY <1>2 DEF Step, Lock, WriteHeader, WritePayload, WriteFails, FlushOk, FlushFails, CloseOk, CloseFails,
                AfterWrite, Goto, Return, At
  <2>2. \/ UNCHANGED <<is_closed, got>>
        \/ /\ h = "Receiver" /\ pc' = [pc EXCEPT ![e][h] = "idle"]
           /\ is_closed' = [is_closed EXCEPT ![e] = TRUE]
           /\ \E f : got' = [got EXCEPT ![e] = f]
    BY <1>2 DEF Step, Lock, WriteHeader, WritePayload, WriteFails, FlushOk, FlushFails, CloseOk, CloseFails,
                Return, ReportClosed
  <2>3. CASE UNCHANGED <<is_closed, got>>
    BY <2>1, <2>3, <1>t, <1>h DEF GotInv
  <2>4. ASSUME h = "Receiver", pc' = [pc EXCEPT ![e][h] = "idle"], is_closed' = [is_closed EXCEPT ![e] = TRUE],
               NEW f, got' = [got EXCEPT ![e] = f]
        PROVE  GotInv'
    BY <2>4, <1>t, <1>h DEF GotInv
  <2>5. QED
    BY <2>2, <2>3, <2>4
<1>3. ASSUME NEW e \in Ends, SenderCall(e) \/ ReceiveCall(e) \/ ReadHeader(e) \/ ReadEof(e) PROVE GotInv'
  <2>1. UNCHANGED <<is_closed, got>>
    BY <1>3 DEF SenderCall, ReceiveCall, ReadHeader, ReadEof
  <2>2. \A x \in Ends : is_closed[x] => pc'[x]["Receiver"] = "idle"
    <3>1. CASE SenderCall(e)
      BY <3>1, <1>t, <1>h DEF SenderCall, Goto, GotInv
    <3>2. CASE ReceiveCall(e)
      BY <3>2, <1>t, <1>h DEF ReceiveCall, Return, GotInv
    <3>3. CASE ReadHeader(e) \/ ReadEof(e)
      BY <3>3, <1>t, <1>h DEF ReadHeader, ReadEof, Goto, Return, At, GotInv
    <3>4. QED
      BY <1>3, <3>1, <3>2, <3>3
  <2>3. QED
    BY <2>1, <2>2, <1>t DEF GotInv
<1>4. ASSUME NEW e \in Ends, ReadPayload(e) PROVE GotInv'
  <2>1. /\ pc[e]["Receiver"] = "body" /\ is_closed' = is_closed
        /\ \E label : pc' = [pc EXCEPT ![e]["Receiver"] = label]
        /\ \/ got' = got
           \/ job[e]["Receiver"].op \in Returned /\ got' = [got EXCEPT ![e] = Append(got[e], job[e]["Receiver"])]
    BY <1>4 DEF ReadPayload, Goto, Return, At
  <2>2. ~is_closed[e]
    BY <2>1, <1>t, <1>h DEF GotInv
  <2>3. \A x \in Ends : is_closed[x] => pc'[x]["Receiver"] = "idle"
    BY <2>1, <2>2, <1>t, <1>h DEF GotInv
  <2>4. CASE got' = got
    BY <2>1, <2>3, <2>4, <1>t DEF GotInv
  <2>5. CASE got' # got
    <3>1. job[e]["Receiver"].op # "Close" /\ got'[e] = Append(got[e], job[e]["Receiver"])
      BY <2>1, <2>5, <1>t DEF Returned, DataOps
    <3>2. \A x \in Ends : x # e => got'[x] = got[x]
      BY <2>1, <1>t
    <3>3. \A i \in 1..Len(got[e]) : got[e][i].op # "Close"
      BY <2>2, <1>t DEF GotInv
    <3>4. got[e] \in Seq(Frames)
      BY <1>t
    <3>5. \A i \in 1..Len(got'[e]) : got'[e][i].op # "Close"
      BY <3>1, <3>3, <3>4
    <3>6. QED
      BY <2>1, <2>3, <3>2, <3>5, <1>t DEF GotInv
  <2>6. QED
    BY <2>4, <2>5
<1>5. ASSUME NEW e \in Ends, Drain(e) \/ Crash(e) \/ Drop(e) PROVE GotInv'
  BY <1>5, <1>t DEF Drain, Crash, Drop, GotInv
<1>6. QED
  BY <1>1, <1>2, <1>3, <1>4, <1>5 DEF Next, Read

\* What is sent was asked for by a call of a Sender.
LEMMA IdNext == OrderInv /\ [Next]_vars => IdInv'
<1> SUFFICES ASSUME OrderInv, [Next]_vars, NEW x \in Ends
             PROVE  /\ pc'[x]["Sender"] # "idle" => job'[x]["Sender"].id \in Ids
                    /\ \A i \in 1..Len(wire'[x]) : wire'[x][i].frame.op # "Flush" /\ wire'[x][i].frame.id \in Ids
  BY DEF IdInv
<1>i. Inv
  BY DEF OrderInv, CloseInv
<1>p. Peer(x) \in Ends
  BY PeerFacts
<1>t. /\ pc \in [Ends -> [Halves -> PCs]]
      /\ job \in [Ends -> [Halves -> Frames]]
      /\ wire \in [Ends -> Seq(Tokens)]
      /\ rd \in [Ends -> Nat]
      /\ rd[Peer(x)] <= Len(wire[Peer(x)])
      /\ nsent \in [Ends -> Nat]
      /\ IdInv
  BY <1>i, <1>p DEF Inv, TypeOK, HalvesOK, TransportOK, CallsOK, OrderInv
<1>h. Halves = {"Sender", "Receiver"}
  BY DEF Halves
<1>1. pc'[x]["Sender"] # "idle" => job'[x]["Sender"].id \in Ids
  <2>1. ASSUME NEW e \in Ends, SenderCall(e) PROVE pc'[x]["Sender"] # "idle" => job'[x]["Sender"].id \in Ids
    <3>1. PICK op \in Ops[e] :
            /\ nsent[e] < MaxSends[e]
            /\ job' = [job EXCEPT ![e]["Sender"] = [op |-> op, id |-> nsent[e] + 1, by |-> "Sender"]]
            /\ pc' = [pc EXCEPT ![e]["Sender"] = FirstStep(op)]
      BY <2>1 DEF SenderCall, Goto
    <3>2. nsent[e] + 1 \in Ids
      <4>1. /\ MaxSends["client"] \in Nat /\ MaxSends["server"] \in Nat
            /\ MaxSends[e] = MaxSends["client"] \/ MaxSends[e] = MaxSends["server"]
            /\ nsent[e] \in Nat
        BY <1>t, ConnectionAssumption DEF Ends
      <4>2. QED
        BY <3>1, <4>1 DEF Ids
    <3>3. QED
      BY <3>1, <3>2, <1>t, <1>h DEF IdInv
  <2>2. ASSUME NEW e \in Ends, NEW h \in Halves, Step(e, h)
        PROVE  job' = job /\ pc[e][h] # "idle" /\ \E label : pc' = [pc EXCEPT ![e][h] = label]
    BY <2>2 DEF Step, Lock, WriteHeader, WritePayload, WriteFails, FlushOk, FlushFails, CloseOk, CloseFails,
                AfterWrite, Goto, Return, At
  <2>3. ASSUME NEW e \in Ends, ReceiveCall(e) \/ Read(e)
        PROVE  /\ job' = job \/ \E f : job' = [job EXCEPT ![e]["Receiver"] = f]
               /\ \E label : pc' = [pc EXCEPT ![e]["Receiver"] = label]
    BY <2>3 DEF ReceiveCall, Read, ReadHeader, ReadPayload, ReadEof, Goto, Return
  <2>4. ASSUME UNCHANGED vars \/ \E e \in Ends : Drain(e) \/ Crash(e) \/ Drop(e)
        PROVE  UNCHANGED <<pc, job>>
    BY <2>4 DEF Drain, Crash, Drop, vars
  <2>5. CASE \E e \in Ends, h \in Halves : Step(e, h)
    <3>1. PICK e \in Ends, h \in Halves : Step(e, h)
      BY <2>5
    <3>2. job' = job /\ pc[e][h] # "idle" /\ \E label : pc' = [pc EXCEPT ![e][h] = label]
      BY <3>1, <2>2
    <3>3. QED
      BY <3>2, <1>t, <1>h DEF IdInv
  <2>6. CASE \E e \in Ends : ReceiveCall(e) \/ Read(e)
    <3>1. PICK e \in Ends : ReceiveCall(e) \/ Read(e)
      BY <2>6
    <3>2. /\ job' = job \/ \E f : job' = [job EXCEPT ![e]["Receiver"] = f]
          /\ \E label : pc' = [pc EXCEPT ![e]["Receiver"] = label]
      BY <3>1, <2>3
    <3>3. pc'[x]["Sender"] = pc[x]["Sender"] /\ job'[x]["Sender"] = job[x]["Sender"]
      BY <3>2, <1>t, <1>h
    <3>4. QED
      BY <3>3, <1>t DEF IdInv
  <2>7. CASE UNCHANGED <<pc, job>>
    BY <2>7, <1>t DEF IdInv
  <2>8. QED
    BY <2>1, <2>4, <2>5, <2>6, <2>7 DEF Next
<1>2. \A i \in 1..Len(wire'[x]) : wire'[x][i].frame.op # "Flush" /\ wire'[x][i].frame.id \in Ids
  <2>1. CASE wire'[x] = wire[x]
    BY <2>1, <1>t DEF IdInv
  <2>2. CASE wire'[x] # wire[x]
    <3>1. PICK h \in Halves : WriteHeader(x, h) \/ WritePayload(x, h)
      BY <2>2, <1>i, WireStep
    <3>2. /\ pc[x][h] \in {"header", "payload"}
          /\ \E part \in {"header", "payload"} : wire'[x] = Append(wire[x], [part |-> part, frame |-> job[x][h]])
      BY <3>1, <1>t DEF WriteHeader, WritePayload, Put, At
    <3>3. job[x][h].op # "Flush"
      BY <3>2 DEF OrderInv, CloseInv, JobInv
    <3>4. job[x][h].id \in Ids
      <4>1. CASE h = "Sender"
        BY <3>2, <4>1, <1>t DEF IdInv
      <4>2. CASE h = "Receiver"
        <5>1. pc[x]["Receiver"] \in Waiting \cup Holding
          BY <3>2, <4>2 DEF Holding
        <5>2. rd[Peer(x)] \in 1..Len(wire[Peer(x)])
          BY <5>1, <1>i, <1>p, <1>t DEF Inv, AnswersSomething
        <5>3. job[x]["Receiver"].id = wire[Peer(x)][rd[Peer(x)]].frame.id
          <6>1. job[x]["Receiver"] = Answer(LastRead(x))
            BY <5>1 DEF OrderInv, AnswerInv
          <6>2. QED
            BY <6>1 DEF Answer, LastRead
        <5>4. QED
          BY <4>2, <5>2, <5>3, <1>p, <1>t DEF IdInv
      <4>3. QED
        BY <4>1, <4>2, <1>h
    <3>5. /\ wire[x] \in Seq(Tokens)
          /\ \A i \in 1..Len(wire[x]) : wire[x][i].frame.op # "Flush" /\ wire[x][i].frame.id \in Ids
      BY <1>t DEF IdInv
    <3>6. QED
      BY <3>2, <3>3, <3>4, <3>5
  <2>3. QED
    BY <2>1, <2>2
<1>3. QED
  BY <1>1, <1>2

\* The parts together are inductive.
LEMMA OrderNext == OrderInv /\ [Next]_vars => OrderInv'
<1>1. OrderInv /\ [Next]_vars => CloseInv'
  BY CloseNext DEF OrderInv
<1>2. QED
  BY <1>1, ParityNext, AnswerNext, GotNext, IdNext DEF OrderInv

\* The invariant holds in every reachable state.
LEMMA OrderInvariance == Spec => []OrderInv
BY OrderInit, OrderNext, PTL DEF Spec

-----------------------------------------------------------------------------
(* Counting PINGs and answers.                                             *)

PingFrames   == {f \in Frames : f.op = "Ping"}
AnswerFrames == {f \in Frames : f.op = "Pong" /\ f.by = "Receiver"}

\* The positions of members of F among the first n frames on w.
Places(w, n, F) == {k \in 1..n : w[2 * k].frame \in F}

\* They are finitely many, and those up to n + 1 are those up to n and perhaps
\* n + 1 itself.
LEMMA PlacesStep ==
  ASSUME NEW w, NEW n \in Nat, NEW F
  PROVE  /\ Cardinality(Places(w, n, F)) \in Nat
         /\ w[2 * (n + 1)].frame \in F =>
              Cardinality(Places(w, n + 1, F)) = Cardinality(Places(w, n, F)) + 1
         /\ w[2 * (n + 1)].frame \notin F => Places(w, n + 1, F) = Places(w, n, F)
<1>1. IsFiniteSet(Places(w, n, F))
  <2>1. IsFiniteSet(1..n)
    BY FS_Interval
  <2>2. Places(w, n, F) \subseteq 1..n
    BY DEF Places
  <2>3. QED
    BY <2>1, <2>2, FS_Subset
<1>2. n + 1 \notin Places(w, n, F)
  BY DEF Places
<1>3. w[2 * (n + 1)].frame \in F => Places(w, n + 1, F) = Places(w, n, F) \cup {n + 1}
  BY DEF Places
<1>4. w[2 * (n + 1)].frame \notin F => Places(w, n + 1, F) = Places(w, n, F)
  BY DEF Places
<1>5. QED
  BY <1>1, <1>2, <1>3, <1>4, FS_AddElement, FS_CardinalityType

\* They depend on nothing else.
LEMMA PlacesSame ==
  ASSUME NEW v, NEW w, NEW n \in Nat, NEW F, \A k \in 1..n : w[2 * k] = v[2 * k]
  PROVE  Places(w, n, F) = Places(v, n, F)
BY DEF Places

\* Each answer among the first n frames of w answers the PING of the same rank
\* among the first r frames of v.
Mirrors(w, n, v, r) == \A j \in Places(w, n, AnswerFrames) : \E i \in Places(v, r, PingFrames) :
  /\ Cardinality(Places(v, i, PingFrames)) = Cardinality(Places(w, j, AnswerFrames))
  /\ w[2 * j].frame.id = v[2 * i].frame.id

\* Fewer answers, more PINGs.
LEMMA MirrorsKept ==
  ASSUME NEW w, NEW x, NEW v, NEW u, NEW n \in Nat, NEW m \in Nat, NEW r \in Nat, NEW s \in Nat,
         Mirrors(w, n, v, r), m <= n, r <= s,
         \A k \in 1..m : x[2 * k] = w[2 * k],
         \A k \in 1..r : u[2 * k] = v[2 * k]
  PROVE  Mirrors(x, m, u, s)
<1> SUFFICES ASSUME NEW j \in Places(x, m, AnswerFrames)
             PROVE  \E i \in Places(u, s, PingFrames) :
                      /\ Cardinality(Places(u, i, PingFrames)) = Cardinality(Places(x, j, AnswerFrames))
                      /\ x[2 * j].frame.id = u[2 * i].frame.id
  BY DEF Mirrors
<1>1. j \in 1..m /\ j \in Nat /\ j \in Places(w, n, AnswerFrames) /\ x[2 * j] = w[2 * j]
  BY DEF Places
<1>2. PICK i \in Places(v, r, PingFrames) :
        /\ Cardinality(Places(v, i, PingFrames)) = Cardinality(Places(w, j, AnswerFrames))
        /\ w[2 * j].frame.id = v[2 * i].frame.id
  BY <1>1 DEF Mirrors
<1>3. i \in 1..r /\ i \in Nat /\ i \in Places(u, s, PingFrames) /\ u[2 * i] = v[2 * i]
  BY DEF Places
<1>4. Places(u, i, PingFrames) = Places(v, i, PingFrames)
  BY <1>3, PlacesSame
<1>5. Places(x, j, AnswerFrames) = Places(w, j, AnswerFrames)
  BY <1>1, PlacesSame
<1>6. QED
  BY <1>1, <1>2, <1>3, <1>4, <1>5

\* Another frame that is no answer, or is the one to the last PING.
LEMMA MirrorsMore ==
  ASSUME NEW w, NEW v, NEW n \in Nat, NEW r \in Nat, Mirrors(w, n, v, r),
         w[2 * (n + 1)].frame \in AnswerFrames =>
           /\ r \in Places(v, r, PingFrames)
           /\ w[2 * (n + 1)].frame.id = v[2 * r].frame.id
           /\ Cardinality(Places(v, r, PingFrames)) = Cardinality(Places(w, n, AnswerFrames)) + 1
  PROVE  Mirrors(w, n + 1, v, r)
<1>1. CASE w[2 * (n + 1)].frame \notin AnswerFrames
  BY <1>1, PlacesStep DEF Mirrors
<1>2. CASE w[2 * (n + 1)].frame \in AnswerFrames
  <2>1. Cardinality(Places(v, r, PingFrames)) = Cardinality(Places(w, n + 1, AnswerFrames))
    BY <1>2, PlacesStep
  <2>2. \A j \in Places(w, n + 1, AnswerFrames) : j = n + 1 \/ j \in Places(w, n, AnswerFrames)
    BY DEF Places
  <2>3. QED
    BY <1>2, <2>1, <2>2 DEF Mirrors
<1>3. QED
  BY <1>1, <1>2

\* The Receiver has read a PING and has not yet written the PONG.
Pending(e) == pc[e]["Receiver"] \in {"lock", "header", "payload"} /\ job[e]["Receiver"].op = "Pong"

\* The answers on the wire mirror the PINGs read; as long as they can leave the
\* buffer, at most the last PING read is not among them.
MirrorInv == \A e \in Ends : LET v == wire[Peer(e)]
                                 r == rd[Peer(e)] \div 2 IN
  /\ Mirrors(wire[e], drained[e] \div 2, v, r)
  /\ ~Dead(e) =>
       /\ Mirrors(wire[e], Len(wire[e]) \div 2, v, r)
       /\ Cardinality(Places(v, r, PingFrames)) =
            Cardinality(Places(wire[e], Len(wire[e]) \div 2, AnswerFrames)) + (IF Pending(e) THEN 1 ELSE 0)

\* A Receiver reads the tokens of its peer one by one.
LEMMA ReadGrows ==
  ASSUME Inv, [Next]_vars, NEW x \in Ends
  PROVE  \/ rd'[Peer(x)] = rd[Peer(x)]
         \/ /\ ReadHeader(x) \/ ReadPayload(x)
            /\ rd'[Peer(x)] = rd[Peer(x)] + 1
            /\ rd[Peer(x)] < drained[Peer(x)]
<1>t. rd \in [Ends -> Nat]
  BY DEF Inv, TypeOK, TransportOK
<1>1. ASSUME NEW e \in Ends, NEW h \in Halves, Step(e, h) PROVE rd' = rd
  BY <1>1 DEF Step, Lock, WriteHeader, WritePayload, WriteFails, FlushOk, FlushFails, CloseOk, CloseFails, transport
<1>2. ASSUME NEW e \in Ends, SenderCall(e) \/ ReceiveCall(e) \/ ReadEof(e) \/ Drain(e) \/ Crash(e) \/ Drop(e)
      PROVE  rd' = rd
  BY <1>2 DEF SenderCall, ReceiveCall, ReadEof, Drain, Crash, Drop, transport
<1>3. ASSUME NEW e \in Ends, ReadHeader(e) \/ ReadPayload(e)
      PROVE  rd' = [rd EXCEPT ![Peer(e)] = @ + 1] /\ rd[Peer(e)] < drained[Peer(e)]
  BY <1>3 DEF ReadHeader, ReadPayload, Take
<1>4. CASE rd' = rd
  BY <1>4
<1>5. CASE rd' # rd
  <2>1. PICK e \in Ends : ReadHeader(e) \/ ReadPayload(e)
    BY <1>1, <1>2, <1>5 DEF Next, Read, vars
  <2>2. rd' = [rd EXCEPT ![Peer(e)] = @ + 1] /\ rd[Peer(e)] < drained[Peer(e)]
    BY <2>1, <1>3
  <2>3. Peer(x) \in Ends /\ Peer(e) \in Ends /\ (Peer(e) = Peer(x) => e = x)
    BY PeerFacts
  <2>4. QED
    BY <2>1, <2>2, <2>3, <1>t
<1>6. QED
  BY <1>4, <1>5

\* It reads headers at odd positions and payloads at even ones.
LEMMA ReadPlace ==
  ASSUME OrderInv, NEW x \in Ends
  PROVE  /\ ReadHeader(x) => rd[Peer(x)] % 2 = 0
         /\ ReadPayload(x) => rd[Peer(x)] % 2 = 1 /\ NextToken(x).frame = job[x]["Receiver"]
<1> DEFINE p == Peer(x)
<1>t. rd[p] \in Nat /\ drained[p] \in Nat /\ p \in Ends
  BY PeerFacts DEF OrderInv, CloseInv, Inv, TypeOK, TransportOK
<1>1. Parity(wire[p], drained[p])
  BY <1>t DEF OrderInv, ParityInv
<1>2. ASSUME rd[p] < drained[p] PROVE wire[p][rd[p] + 1].part = "header" <=> (rd[p] + 1) % 2 = 1
  <2>1. rd[p] + 1 \in 1..drained[p]
    BY <1>t, <1>2
  <2>2. QED
    BY <2>1, <1>1 DEF Parity
<1>3. (rd[p] + 1) % 2 = 1 <=> rd[p] % 2 # 1
  BY <1>t, NextParity
<1>4. ASSUME ReadHeader(x) PROVE rd[p] % 2 = 0
  <2>1. rd[p] < drained[p] /\ wire[p][rd[p] + 1].part = "header"
    BY <1>4 DEF ReadHeader, Take, NextToken
  <2>2. rd[p] % 2 # 1
    BY <2>1, <1>2, <1>3
  <2>3. QED
    BY <2>2, <1>t, EvenOrOdd
<1>5. ASSUME ReadPayload(x) PROVE rd[p] % 2 = 1 /\ NextToken(x).frame = job[x]["Receiver"]
  <2>1. rd[p] < drained[p] /\ NextToken(x) = [part |-> "payload", frame |-> job[x]["Receiver"]]
    BY <1>5 DEF ReadPayload, Take
  <2>2. wire[p][rd[p] + 1].part = "payload" /\ NextToken(x).frame = job[x]["Receiver"]
    BY <2>1 DEF NextToken
  <2>3. wire[p][rd[p] + 1].part # "header"
    BY <2>2
  <2>4. QED
    BY <2>1, <2>2, <2>3, <1>2, <1>3
<1>6. QED
  BY <1>4, <1>5

\* An answer is pending from the step that reads the PING to the step that
\* writes the payload of the PONG.
LEMMA PendingStep ==
  ASSUME OrderInv, [Next]_vars, NEW x \in Ends, ~Dead(x)', ~ReadPayload(x), ~WritePayload(x, "Receiver")
  PROVE  Pending(x)' <=> Pending(x)
<1>i. Inv
  BY DEF OrderInv, CloseInv
<1>t. /\ pc \in [Ends -> [Halves -> PCs]]
      /\ job \in [Ends -> [Halves -> Frames]]
  BY <1>i DEF Inv, TypeOK, HalvesOK
<1>h. Halves = {"Sender", "Receiver"}
  BY DEF Halves
<1>d. ~Dead(x)
  BY <1>i, EndsStay
<1>1. CASE UNCHANGED vars
  BY <1>1 DEF vars, Pending
<1>2. ASSUME NEW e \in Ends, NEW h \in Halves, Step(e, h) PROVE Pending(x)' <=> Pending(x)
  <2>1. job' = job /\ \E label : pc' = [pc EXCEPT ![e][h] = label]
    BY <1>2 DEF Step, Lock, WriteHeader, WritePayload, WriteFails, FlushOk, FlushFails, CloseOk, CloseFails,
                AfterWrite, Goto, Return
  <2>2. CASE ~(e = x /\ h = "Receiver")
    BY <2>1, <2>2, <1>t, <1>h DEF Pending
  <2>3. CASE e = x /\ h = "Receiver"
    <3>1. CASE Lock(e, h)
      BY <3>1, <2>1, <2>3, <1>t DEF Lock, Goto, Pending
    <3>2. CASE WriteHeader(e, h)
      BY <3>2, <2>1, <2>3, <1>t DEF WriteHeader, Goto, At, Pending
    <3>3. CASE FlushOk(e, h) \/ CloseOk(e, h)
      BY <3>3, <2>1, <2>3, <1>t DEF FlushOk, CloseOk, Goto, Return, At, Pending
    <3>4. CASE WriteFails(e, h) \/ FlushFails(e, h) \/ CloseFails(e, h)
      BY <3>4, <2>3, <1>d DEF WriteFails, FlushFails, CloseFails
    <3>5. QED
      BY <1>2, <2>3, <3>1, <3>2, <3>3, <3>4 DEF Step
  <2>4. QED
    BY <2>2, <2>3
<1>3. ASSUME NEW e \in Ends, SenderCall(e) PROVE Pending(x)' <=> Pending(x)
  <2>1. /\ \E f : job' = [job EXCEPT ![e]["Sender"] = f]
        /\ \E label : pc' = [pc EXCEPT ![e]["Sender"] = label]
    BY <1>3 DEF SenderCall, Goto
  <2>2. QED
    BY <2>1, <1>t, <1>h DEF Pending
<1>4. ASSUME NEW e \in Ends, ReceiveCall(e) \/ ReadHeader(e) \/ ReadEof(e) PROVE Pending(x)' <=> Pending(x)
  <2>1. /\ pc[e]["Receiver"] \in {"idle", "recv", "body"}
        /\ job' = job \/ \E f : job' = [job EXCEPT ![e]["Receiver"] = f]
        /\ \E label \in {"idle", "recv", "body"} : pc' = [pc EXCEPT ![e]["Receiver"] = label]
    BY <1>4 DEF ReceiveCall, ReadHeader, ReadEof, Goto, Return, At
  <2>2. CASE e = x
    BY <2>1, <2>2, <1>t, <1>h DEF Pending
  <2>3. CASE e # x
    BY <2>1, <2>3, <1>t, <1>h DEF Pending
  <2>4. QED
    BY <2>2, <2>3
<1>5. ASSUME NEW e \in Ends, e # x, ReadPayload(e) PROVE Pending(x)' <=> Pending(x)
  <2>1. /\ job' = job \/ \E f : job' = [job EXCEPT ![e]["Receiver"] = f]
        /\ \E label : pc' = [pc EXCEPT ![e]["Receiver"] = label]
    BY <1>5 DEF ReadPayload, Goto, Return
  <2>2. QED
    BY <2>1, <1>5, <1>t DEF Pending
<1>6. ASSUME NEW e \in Ends, Drain(e) \/ Crash(e) \/ Drop(e) PROVE Pending(x)' <=> Pending(x)
  BY <1>6 DEF Drain, Crash, Drop, Pending
<1>7. QED
  BY <1>1, <1>2, <1>3, <1>4, <1>5, <1>6 DEF Next, Read

\* Each PING read is answered by the next PONG written.
LEMMA MirrorNext == OrderInv /\ MirrorInv /\ [Next]_vars => MirrorInv'
<1> SUFFICES ASSUME OrderInv, MirrorInv, [Next]_vars, NEW x \in Ends
             PROVE  LET v == wire'[Peer(x)]
                        r == rd'[Peer(x)] \div 2 IN
                    /\ Mirrors(wire'[x], drained'[x] \div 2, v, r)
                    /\ ~Dead(x)' =>
                         /\ Mirrors(wire'[x], Len(wire'[x]) \div 2, v, r)
                         /\ Cardinality(Places(v, r, PingFrames)) =
                              Cardinality(Places(wire'[x], Len(wire'[x]) \div 2, AnswerFrames))
                                + (IF Pending(x)' THEN 1 ELSE 0)
  BY DEF MirrorInv, Mirrors, Places
<1> DEFINE p  == Peer(x)
           w  == wire[x]
           w2 == wire'[x]
           v  == wire[p]
           v2 == wire'[p]
           n  == Len(w) \div 2
           n2 == Len(w2) \div 2
           r  == rd[p] \div 2
           r2 == rd'[p] \div 2
           Count(y, k, z, j, pending) == Cardinality(Places(y, k, PingFrames)) =
             Cardinality(Places(z, j, AnswerFrames)) + (IF pending THEN 1 ELSE 0)
<1>i. Inv /\ Inv'
  BY InvNext DEF OrderInv, CloseInv
<1>p. p \in Ends
  BY PeerFacts
<1>t. /\ w \in Seq(Tokens) /\ w2 \in Seq(Tokens) /\ v \in Seq(Tokens)
      /\ drained[x] \in Nat /\ drained'[x] \in Nat
      /\ drained[x] <= Len(w) /\ drained'[x] <= Len(w2)
      /\ rd[p] \in Nat /\ rd[p] <= drained[p] /\ drained[p] \in Nat /\ drained[p] <= Len(v)
      /\ job[x]["Receiver"] \in Frames /\ job[x]["Sender"] \in Frames
  BY <1>i, <1>p DEF Inv, TypeOK, TransportOK, HalvesOK, Halves
<1>h. Halves = {"Sender", "Receiver"}
  BY DEF Halves
<1>l. Len(w) \in Nat /\ Len(w2) \in Nat /\ Len(v) \in Nat
  BY <1>t
<1>n. n \in Nat /\ n2 \in Nat /\ r \in Nat /\ r2 \in Nat /\ r <= r2 /\ drained[x] \div 2 \in Nat /\ drained'[x] \div 2 \in Nat
  <2>1. rd'[p] \in Nat /\ rd[p] <= rd'[p]
    BY <1>i, <1>t, ReadGrows
  <2>2. QED
    BY <2>1, <1>l, <1>t, HalfOrder
<1>w. \A k \in 1..n : w2[2 * k] = w[2 * k]
  <2>1. \A i \in 1..Len(w) : w2[i] = w[i]
    BY <1>i, WireGrows
  <2>2. QED
    BY <2>1, <1>l, HalfInside
<1>v. \A k \in 1..r : v2[2 * k] = v[2 * k]
  <2>1. \A i \in 1..Len(v) : v2[i] = v[i]
    BY <1>i, <1>p, WireGrows
  <2>2. rd[p] <= Len(v)
    BY <1>t, <1>l
  <2>3. \A k \in 1..r : 2 * k \in 1..Len(v)
    BY <2>2, <1>t, <1>l, HalfWithin
  <2>4. QED
    BY <2>1, <2>3
<1>m. /\ Mirrors(w, drained[x] \div 2, v, r)
      /\ ~Dead(x) => Mirrors(w, n, v, r) /\ Count(v, r, w, n, Pending(x))
  BY DEF MirrorInv
<1> HIDE DEF n, n2, r, r2, w, w2, v, v2, p
<1>1. CASE Dead(x)
  <2>1. drained'[x] = drained[x] /\ Dead(x)'
    BY <1>1, <1>i, WireGrows, EndsStay
  <2>2. drained[x] \div 2 <= n
    BY <1>t, <1>l, HalfOrder DEF n
  <2>3. Mirrors(w2, drained[x] \div 2, v2, r2)
    <3> DEFINE d == drained[x] \div 2
    <3>1. d \in Nat /\ d <= n /\ Mirrors(w, d, v, r)
      BY <2>2, <1>m, <1>n
    <3> HIDE DEF d
    <3>2. d <= d /\ \A k \in 1..d : w2[2 * k] = w[2 * k]
      BY <3>1, <1>n, <1>w
    <3>3. Mirrors(w2, d, v2, r2)
      BY <3>1, <3>2, <1>n, <1>v, MirrorsKept
    <3>4. QED
      BY <3>3 DEF d
  <2>4. QED
    BY <2>1, <2>3 DEF w2, v2, r2, p
<1>2. CASE ~Dead(x)
  <2>1. SUFFICES Mirrors(w2, n2, v2, r2) /\ (~Dead(x)' => Count(v2, r2, w2, n2, Pending(x)'))
    <3>1. drained'[x] \div 2 <= n2
      BY <1>t, <1>l, HalfOrder DEF n2
    <3>2. Mirrors(w2, drained'[x] \div 2, v2, r2)
      <4> DEFINE d == drained'[x] \div 2
      <4>1. d \in Nat /\ d <= n2 /\ r2 <= r2
        BY <3>1, <1>n
      <4> HIDE DEF d
      <4>2. (\A k \in 1..d : w2[2 * k] = w2[2 * k]) /\ (\A k \in 1..r2 : v2[2 * k] = v2[2 * k])
        OBVIOUS
      <4>3. Mirrors(w2, d, v2, r2)
        BY <2>1, <4>1, <4>2, <1>n, MirrorsKept
      <4>4. QED
        BY <4>3 DEF d
    <3>3. QED
      BY <2>1, <3>2 DEF w2, v2, r2, n2, p
  <2>k. Mirrors(w2, n, v2, r2)
    <3>1. Mirrors(w, n, v, r) /\ n <= n
      BY <1>2, <1>m, <1>n
    <3>2. QED
      BY <3>1, <1>n, <1>v, <1>w, MirrorsKept
  <2>c. /\ Places(w2, n, AnswerFrames) = Places(w, n, AnswerFrames)
        /\ Places(v2, r, PingFrames) = Places(v, r, PingFrames)
    <3>1. Places(w2, n, AnswerFrames) = Places(w, n, AnswerFrames)
      BY <1>n, <1>w DEF Places
    <3>2. Places(v2, r, PingFrames) = Places(v, r, PingFrames)
      BY <1>n, <1>v DEF Places
    <3>3. QED
      BY <3>1, <3>2
  <2>2. ASSUME r2 = r, n2 = n, Dead(x)' \/ (Pending(x)' <=> Pending(x))
        PROVE  Mirrors(w2, n2, v2, r2) /\ (~Dead(x)' => Count(v2, r2, w2, n2, Pending(x)'))
    BY <2>2, <2>k, <2>c, <1>2, <1>m
  <2>3. CASE ReadPayload(x)
    <3> DEFINE f == job[x]["Receiver"]
    <3>1. rd[p] % 2 = 1 /\ NextToken(x).frame = f
      BY <2>3, ReadPlace DEF p
    <3>2. /\ w2 = w /\ v2 = v /\ rd'[p] = rd[p] + 1
          /\ \/ f.op \in Returned /\ job' = job /\ pc' = [pc EXCEPT ![x]["Receiver"] = "idle"]
             \/ /\ f.op \notin Returned
                /\ job' = [job EXCEPT ![x]["Receiver"] = Answer(f)]
                /\ pc' = [pc EXCEPT ![x]["Receiver"] = "lock"]
      <4>1. rd \in [Ends -> Nat]
        BY <1>i DEF Inv, TypeOK, TransportOK
      <4>2. QED
        BY <4>1, <2>3, <1>p DEF ReadPayload, Take, Goto, Return, w, w2, v, v2, p
    <3>3. r2 = r + 1 /\ n2 = n /\ 2 * (r + 1) = rd[p] + 1
      <4>1. 2 * r + 1 = rd[p] /\ (rd[p] + 1) \div 2 = r + 1
        BY <3>1, <1>t, HalfOdd DEF r
      <4>2. r2 = r + 1
        BY <4>1, <3>2 DEF r2
      <4>3. n2 = n
        BY <3>2 DEF n, n2
      <4>4. QED
        BY <4>1, <4>2, <4>3, <1>n
    <3>4. v2[2 * (r + 1)].frame = f
      BY <3>1, <3>2, <3>3 DEF NextToken, v, p
    <3>5. ~Pending(x)
      BY <2>3 DEF ReadPayload, At, Pending
    <3>6. f.op # "Flush"
      <4>1. rd[p] + 1 \in 1..Len(v)
        BY <1>t, <1>l, <2>3 DEF ReadPayload, Take, p
      <4>2. QED
        BY <4>1, <3>1, <1>p DEF NextToken, OrderInv, IdInv, v, p
    <3>7. Pending(x)' <=> f \in PingFrames
      <4>1. pc \in [Ends -> [Halves -> PCs]] /\ job \in [Ends -> [Halves -> Frames]]
        BY <1>i DEF Inv, TypeOK, HalvesOK
      <4>2. CASE f.op \in Returned
        BY <4>1, <4>2, <3>2, <1>h DEF Pending, PingFrames, Returned, DataOps
      <4>3. CASE f.op \notin Returned
        <5>1. f.op = "Ping" \/ f.op = "Close"
          BY <4>3, <3>6, <1>t DEF Frames, Calls, OpCodes, Returned
        <5>2. pc'[x]["Receiver"] = "lock" /\ job'[x]["Receiver"] = Answer(f)
          BY <4>1, <4>3, <3>2, <1>h
        <5>3. QED
          BY <5>1, <5>2, <1>t DEF Pending, PingFrames, Answer
      <4>4. QED
        BY <4>2, <4>3
    <3>8. /\ f \in PingFrames => Cardinality(Places(v2, r2, PingFrames)) = Cardinality(Places(v2, r, PingFrames)) + 1
          /\ f \notin PingFrames => Places(v2, r2, PingFrames) = Places(v2, r, PingFrames)
      BY <3>3, <3>4, <1>n, PlacesStep
    <3>9. Cardinality(Places(v, r, PingFrames)) = Cardinality(Places(w, n, AnswerFrames))
          /\ Cardinality(Places(w, n, AnswerFrames)) \in Nat
      BY <3>5, <1>2, <1>m, <1>n, PlacesStep
    <3>10. Count(v2, r2, w2, n2, Pending(x)')
      <4>1. CASE f \in PingFrames
        BY <4>1, <3>3, <3>7, <3>8, <3>9, <2>c
      <4>2. CASE f \notin PingFrames
        BY <4>2, <3>3, <3>7, <3>8, <3>9, <2>c
      <4>3. QED
        BY <4>1, <4>2
    <3>11. QED
      BY <3>3, <3>10, <2>k
  <2>4. CASE ReadHeader(x)
    <3>1. rd[p] % 2 = 0 /\ w2 = w /\ rd'[p] = rd[p] + 1
      <4>1. rd \in [Ends -> Nat]
        BY <1>i DEF Inv, TypeOK, TransportOK
      <4>2. rd[p] % 2 = 0
        BY <2>4, ReadPlace DEF p
      <4>3. QED
        BY <4>1, <4>2, <2>4, <1>p DEF ReadHeader, Take, w, w2, p
    <3>2. r2 = r /\ n2 = n
      BY <3>1, <1>t, HalfEven DEF r, r2, n, n2
    <3>3. ~ReadPayload(x) /\ ~WritePayload(x, "Receiver")
      BY <2>4 DEF ReadHeader, ReadPayload, WritePayload, At
    <3>4. QED
      BY <3>2, <3>3, <2>2, PendingStep
  <2>5. CASE ~ReadHeader(x) /\ ~ReadPayload(x)
    <3>1. r2 = r
      BY <2>5, <1>i, ReadGrows DEF r, r2, p
    <3>2. CASE w2 = w
      <4>1. n2 = n
        BY <3>2 DEF n, n2
      <4>2. ~WritePayload(x, "Receiver")
        <5>1. Append(w, [part |-> "payload", frame |-> job[x]["Receiver"]]) # w
          BY <1>t, <1>l
        <5>2. QED
          BY <5>1, <3>2, <1>2, <1>i, <1>h, WriteAligned DEF w, w2
      <4>3. QED
        BY <3>1, <4>1, <4>2, <2>2, <2>5, PendingStep
    <3>3. CASE w2 # w
      <4>1. PICK h \in Halves : WriteHeader(x, h) \/ WritePayload(x, h)
        BY <3>3, <1>i, WireStep DEF w, w2
      <4>2. Dangling(w) <=> Len(w) % 2 = 1
        BY <1>2, DanglingOdd DEF w
      <4>3. CASE WriteHeader(x, h)
        <5>1. ~Dangling(w) /\ Len(w2) = Len(w) + 1
          <6>1. ~Dangling(w) /\ w2 = Append(w, [part |-> "header", frame |-> job[x][h]])
            BY <4>3, <1>2, <1>i, WriteAligned DEF w, w2
          <6>2. QED
            BY <6>1, <1>t
        <5>2. n2 = n
          BY <5>1, <4>2, <1>l, EvenOrOdd, HalfEven DEF n, n2
        <5>3. ~WritePayload(x, "Receiver")
          BY <4>3, <5>1, <1>2, <1>i, <1>h, WriteAligned DEF w
        <5>4. QED
          BY <3>1, <5>2, <5>3, <2>2, <2>5, PendingStep
      <4>4. CASE WritePayload(x, h)
        <5> DEFINE f == job[x][h]
        <5>1. Dangling(w) /\ w2 = Append(w, [part |-> "payload", frame |-> f])
          BY <4>4, <1>2, <1>i, WriteAligned DEF w, w2
        <5>2. Len(w2) = Len(w) + 1 /\ w2[Len(w) + 1].frame = f
          BY <5>1, <1>t
        <5>3. n2 = n + 1 /\ 2 * (n + 1) = Len(w) + 1
          BY <5>1, <5>2, <4>2, <1>l, HalfOdd DEF n, n2
        <5>4. w2[2 * (n + 1)].frame = f
          BY <5>2, <5>3
        <5>5. f \in Frames /\ pc[x][h] = "payload" /\ f.by = h
          BY <4>4, <1>t, <1>h DEF WritePayload, At, OrderInv, CloseInv, JobInv, Holding
        <5>6. CASE f \in AnswerFrames
          <6>1. h = "Receiver" /\ Pending(x)
            BY <5>5, <5>6 DEF AnswerFrames, Pending
          <6>2. ~Pending(x)'
            <7>1. pc \in [Ends -> [Halves -> PCs]]
              BY <1>i DEF Inv, TypeOK, HalvesOK
            <7>2. QED
              BY <7>1, <6>1, <4>4, <1>h DEF WritePayload, AfterWrite, Goto, Pending
          <6>3. r \in Places(v2, r, PingFrames) /\ f.id = v2[2 * r].frame.id
            <7>1. pc[x]["Receiver"] \in Waiting \cup Holding
              BY <5>5, <6>1 DEF Holding
            <7>2. rd[p] > 0
              BY <7>1, <1>i DEF Inv, AnswersSomething, p
            <7>3. /\ v[rd[p]].part = "payload"
                  /\ v[rd[p]].frame.op \in {"Ping", "Close"}
                  /\ f = Answer(v[rd[p]].frame)
              BY <7>1, <6>1 DEF OrderInv, AnswerInv, LastRead, v, p
            <7>4. v[rd[p]].frame.op = "Ping" /\ f.id = v[rd[p]].frame.id
              BY <7>3, <5>6 DEF Answer, AnswerFrames
            <7>5. rd[p] \in 1..drained[p]
              BY <7>2, <1>t
            <7>6. rd[p] % 2 # 1
              <8>1. Parity(v, drained[p])
                BY <1>p DEF OrderInv, ParityInv, v
              <8>2. v[rd[p]].part # "header"
                BY <7>3
              <8>3. QED
                BY <7>5, <8>1, <8>2 DEF Parity
            <7>7. 2 * r = rd[p] /\ r \in 1..r
              <8>1. rd[p] % 2 = 0
                BY <7>6, <1>t, EvenOrOdd
              <8>2. 2 * r = rd[p]
                BY <8>1, <1>t, HalfEven DEF r
              <8>3. QED
                BY <8>2, <7>2, <1>n, <1>t
            <7>8. v[rd[p]].frame \in Frames
              <8>1. rd[p] \in 1..Len(v)
                BY <7>5, <1>t, <1>l
              <8>2. v[rd[p]] \in Tokens
                BY <8>1, <1>t
              <8>3. QED
                BY <8>2 DEF Tokens
            <7>9. v2[2 * r] = v[2 * r]
              BY <7>7, <1>v
            <7>10. QED
              BY <7>4, <7>7, <7>8, <7>9 DEF Places, PingFrames
          <6>4. Cardinality(Places(v2, r, PingFrames)) = Cardinality(Places(w2, n, AnswerFrames)) + 1
            BY <6>1, <2>c, <1>2, <1>m
          <6>5. Mirrors(w2, n + 1, v2, r)
            BY <6>3, <6>4, <5>4, <3>1, <2>k, <1>n, MirrorsMore
          <6>6. Cardinality(Places(w2, n + 1, AnswerFrames)) = Cardinality(Places(w2, n, AnswerFrames)) + 1
                /\ Cardinality(Places(w2, n, AnswerFrames)) \in Nat
            BY <5>4, <5>6, <1>n, PlacesStep
          <6>7. QED
            BY <6>2, <6>4, <6>5, <6>6, <5>3, <3>1
        <5>7. CASE f \notin AnswerFrames
          <6>1. Mirrors(w2, n + 1, v2, r) /\ Places(w2, n + 1, AnswerFrames) = Places(w2, n, AnswerFrames)
            BY <5>4, <5>7, <3>1, <2>k, <1>n, MirrorsMore, PlacesStep
          <6>2. ~Dead(x)' => (Pending(x)' <=> Pending(x))
            <7>1. CASE h = "Receiver"
              <8>1. f.op # "Pong" /\ job' = job
                BY <7>1, <5>5, <5>7, <4>4 DEF AnswerFrames, WritePayload
              <8>2. QED
                BY <8>1, <7>1 DEF Pending
            <7>2. CASE h = "Sender"
              <8>1. ~WritePayload(x, "Receiver")
                <9>1. \A g \in Halves : pc[x][g] \in Holding <=> writer[x] = g
                  BY <1>i DEF Inv, LockInv
                <9>2. writer[x] = "Sender"
                  BY <9>1, <7>2, <5>5 DEF Holding
                <9>3. pc[x]["Receiver"] # "payload"
                  BY <9>1, <9>2, <1>h DEF Holding
                <9>4. QED
                  BY <9>3 DEF WritePayload, At
              <8>2. QED
                BY <8>1, <2>5, PendingStep
            <7>3. QED
              BY <7>1, <7>2, <1>h
          <6>3. QED
            BY <6>1, <6>2, <5>3, <3>1, <2>c, <1>2, <1>m
        <5>8. QED
          BY <5>6, <5>7
      <4>5. QED
        BY <4>1, <4>3, <4>4
    <3>4. QED
      BY <3>2, <3>3
  <2>6. QED
    BY <2>3, <2>4, <2>5
<1>3. QED
  BY <1>1, <1>2

\* A new connection has nothing to mirror.
LEMMA MirrorInit == Init => MirrorInv
<1> SUFFICES ASSUME Init PROVE MirrorInv
  OBVIOUS
<1>1. \A w, F : Places(w, 0, F) = {}
  BY DEF Places
<1>2. Cardinality({}) = 0
  BY FS_EmptySet
<1>3. 0 \div 2 = 0 /\ Len(<<>>) = 0
  OBVIOUS
<1>4. ASSUME NEW e \in Ends
      PROVE  wire[e] = <<>> /\ drained[e] = 0 /\ rd[Peer(e)] = 0 /\ ~Pending(e)
  BY PeerFacts DEF Init, Pending, Halves
<1>5. ASSUME NEW e \in Ends
      PROVE  /\ drained[e] \div 2 = 0 /\ Len(wire[e]) \div 2 = 0 /\ rd[Peer(e)] \div 2 = 0
             /\ Mirrors(wire[e], 0, wire[Peer(e)], 0)
             /\ Cardinality(Places(wire[Peer(e)], 0, PingFrames)) = 0
             /\ Cardinality(Places(wire[e], 0, AnswerFrames)) = 0
  <2>1. Mirrors(wire[e], 0, wire[Peer(e)], 0)
    BY <1>1 DEF Mirrors
  <2>2. drained[e] \div 2 = 0 /\ Len(wire[e]) \div 2 = 0 /\ rd[Peer(e)] \div 2 = 0
    BY <1>3, <1>4
  <2>3. Cardinality(Places(wire[Peer(e)], 0, PingFrames)) = 0 /\ Cardinality(Places(wire[e], 0, AnswerFrames)) = 0
    BY <1>1, <1>2, Zenon
  <2>4. QED
    BY <2>1, <2>2, <2>3, Zenon
<1>6. ASSUME NEW e \in Ends PROVE 0 + (IF Pending(e) THEN 1 ELSE 0) = 0
  BY <1>4
<1>7. QED
  BY <1>5, <1>6, Zenon DEF MirrorInv

\* The invariant holds always.
LEMMA MirrorInvariance == Spec => [](OrderInv /\ MirrorInv)
<1>1. Init => OrderInv /\ MirrorInv
  BY OrderInit, MirrorInit
<1>2. OrderInv /\ MirrorInv /\ [Next]_vars => (OrderInv /\ MirrorInv)'
  BY OrderNext, MirrorNext
<1>3. QED
  BY <1>1, <1>2, PTL DEF Spec

\* The places at or before the i-th frame.
LEMMA PlacesUpTo ==
  ASSUME NEW w, NEW n \in Nat, NEW F, NEW i \in 1..n
  PROVE  {j \in Places(w, n, F) : j <= i} = Places(w, i, F)
BY DEF Places

\* The frames within the first n tokens of w.
LEMMA HalfSeq ==
  ASSUME NEW w \in Seq(Tokens), NEW n \in Nat, n <= Len(w)
  PROVE  LET s == [k \in 1 .. n \div 2 |-> w[2 * k].frame] IN
         /\ s \in Seq(Frames) /\ Len(s) = n \div 2 /\ n \div 2 \in Nat
         /\ \A k \in 1 .. n \div 2 : w[2 * k].frame \in Frames /\ s[k] = w[2 * k].frame
<1> DEFINE m == n \div 2
           s == [k \in 1..m |-> w[2 * k].frame]
<1>1. m \in Nat /\ \A k \in 1..m : 2 * k \in 1..Len(w)
  BY HalfWithin, HalfOrder
<1>2. \A k \in 1..m : w[2 * k].frame \in Frames
  <2>1. ASSUME NEW k \in 1..m PROVE w[2 * k] \in Tokens
    BY <1>1, <2>1
  <2>2. QED
    BY <2>1 DEF Tokens
<1> HIDE DEF m
<1>3. s \in Seq(Frames) /\ Len(s) = m /\ \A k \in 1..m : s[k] = w[2 * k].frame
  BY <1>1, <1>2
<1>4. QED
  BY <1>1, <1>2, <1>3, Zenon DEF m

\* The positions that PongsMirrorPings speaks of.
LEMMA FramesPlaces ==
  ASSUME NEW e \in Ends, NEW n \in Nat, n <= Len(wire[e]), wire[e] \in Seq(Tokens)
  PROVE  /\ Pings(FramesUpTo(e, n)) = Places(wire[e], n \div 2, PingFrames)
         /\ Answers(FramesUpTo(e, n)) = Places(wire[e], n \div 2, AnswerFrames)
         /\ \A k \in 1 .. n \div 2 : FramesUpTo(e, n)[k] = wire[e][2 * k].frame
<1> DEFINE m == n \div 2
<1>1. /\ FramesUpTo(e, n) \in Seq(Frames) /\ Len(FramesUpTo(e, n)) = m
      /\ \A k \in 1..m : wire[e][2 * k].frame \in Frames /\ FramesUpTo(e, n)[k] = wire[e][2 * k].frame
  BY HalfSeq DEF FramesUpTo
<1> HIDE DEF m
<1>2. Pings(FramesUpTo(e, n)) = Places(wire[e], m, PingFrames)
  BY <1>1 DEF Pings, Places, PingFrames
<1>3. Answers(FramesUpTo(e, n)) = Places(wire[e], m, AnswerFrames)
  BY <1>1 DEF Answers, Places, AnswerFrames
<1>4. QED
  BY <1>1, <1>2, <1>3 DEF m

\* Each PONG that on_control sends answers the PING of the same rank, with the
\* payload it carried, whatever the two halves and their peers do in between.
THEOREM EveryPongAnswersItsPing == Spec => []PongsMirrorPings
<1>1. OrderInv /\ MirrorInv => PongsMirrorPings
  <2> SUFFICES ASSUME OrderInv, MirrorInv, NEW e \in Ends,
                      NEW j \in Answers(SentFrames(e))
               PROVE  \E i \in Pings(ReadFrames(e)) :
                        /\ Rank(Pings(ReadFrames(e)), i) = Rank(Answers(SentFrames(e)), j)
                        /\ SentFrames(e)[j].id = ReadFrames(e)[i].id
    BY DEF PongsMirrorPings
  <2> DEFINE p == Peer(e)
             d == drained[e] \div 2
             r == rd[p] \div 2
  <2>1. p \in Ends
    BY PeerFacts
  <2>2. /\ wire[e] \in Seq(Tokens) /\ wire[p] \in Seq(Tokens)
        /\ drained[e] \in Nat /\ drained[e] <= Len(wire[e])
        /\ rd[p] \in Nat /\ rd[p] <= Len(wire[p])
    BY <2>1 DEF OrderInv, CloseInv, Inv, TypeOK, TransportOK
  <2>3. d \in Nat /\ r \in Nat
    BY <2>2, HalfOrder
  <2>4. /\ Answers(SentFrames(e)) = Places(wire[e], d, AnswerFrames)
        /\ \A k \in 1..d : SentFrames(e)[k] = wire[e][2 * k].frame
    BY <2>2, FramesPlaces DEF SentFrames
  <2>5. /\ Pings(ReadFrames(e)) = Places(wire[p], r, PingFrames)
        /\ \A k \in 1..r : ReadFrames(e)[k] = wire[p][2 * k].frame
    BY <2>1, <2>2, FramesPlaces DEF ReadFrames
  <2>6. Mirrors(wire[e], d, wire[p], r)
    BY DEF MirrorInv
  <2> HIDE DEF d, r
  <2>7. PICK i \in Places(wire[p], r, PingFrames) :
          /\ Cardinality(Places(wire[p], i, PingFrames)) = Cardinality(Places(wire[e], j, AnswerFrames))
          /\ wire[e][2 * j].frame.id = wire[p][2 * i].frame.id
    BY <2>4, <2>6 DEF Mirrors
  <2>8. i \in 1..r /\ j \in 1..d
    BY <2>4, <2>7 DEF Places
  <2>9. Rank(Pings(ReadFrames(e)), i) = Cardinality(Places(wire[p], i, PingFrames))
    <3>1. {k \in Places(wire[p], r, PingFrames) : k <= i} = Places(wire[p], i, PingFrames)
      BY <2>3, <2>8, PlacesUpTo
    <3>2. QED
      BY <3>1, <2>5 DEF Rank
  <2>10. Rank(Answers(SentFrames(e)), j) = Cardinality(Places(wire[e], j, AnswerFrames))
    BY <2>3, <2>4, <2>8, PlacesUpTo DEF Rank
  <2>11. QED
    BY <2>4, <2>5, <2>7, <2>8, <2>9, <2>10
<1>2. QED
  BY <1>1, MirrorInvariance, PTL
-----------------------------------------------------------------------------
(* The refinement mapping.                                                 *)

Sent     == [e \in Ends |-> SentFrames(e)]
Consumed == [e \in Ends |-> Len(ReadFrames(e)) - (IF AnsweringClose(e) THEN 1 ELSE 0)]

Messages == [op : DataOps \cup {"Pong"}, id : Ids, by : Halves]
Probes   == [op : {"Ping"}, id : Ids, by : Halves]
Closes   == [op : {"Close"}, id : Ids, by : Halves]

\* What the abstract variables are.
LEMMA Mapping ==
  ASSUME Inv
  PROVE  /\ Sent \in [Ends -> Seq(Frames)]
         /\ \A e \in Ends :
              /\ Len(Sent[e]) = drained[e] \div 2 /\ drained[e] \div 2 \in Nat
              /\ \A k \in 1 .. drained[e] \div 2 : Sent[e][k] = wire[e][2 * k].frame
              /\ Consumed[e] = (rd[Peer(e)] \div 2) - (IF AnsweringClose(e) THEN 1 ELSE 0)
              /\ rd[Peer(e)] \div 2 \in Nat
<1> SUFFICES ASSUME NEW e \in Ends
             PROVE  /\ SentFrames(e) \in Seq(Frames)
                    /\ Len(SentFrames(e)) = drained[e] \div 2 /\ drained[e] \div 2 \in Nat
                    /\ \A k \in 1 .. drained[e] \div 2 : SentFrames(e)[k] = wire[e][2 * k].frame
                    /\ Len(ReadFrames(e)) = rd[Peer(e)] \div 2
                    /\ rd[Peer(e)] \div 2 \in Nat
  BY Zenon DEF Sent, Consumed
<1>p. Peer(e) \in Ends
  BY PeerFacts
<1>t. /\ wire[e] \in Seq(Tokens) /\ drained[e] \in Nat /\ drained[e] <= Len(wire[e])
      /\ wire[Peer(e)] \in Seq(Tokens) /\ rd[Peer(e)] \in Nat /\ rd[Peer(e)] <= Len(wire[Peer(e)])
  BY <1>p DEF Inv, TypeOK, TransportOK
<1>1. /\ SentFrames(e) \in Seq(Frames)
      /\ Len(SentFrames(e)) = drained[e] \div 2 /\ drained[e] \div 2 \in Nat
      /\ \A k \in 1 .. drained[e] \div 2 : SentFrames(e)[k] = wire[e][2 * k].frame
  BY <1>t, HalfSeq DEF SentFrames, FramesUpTo
<1>2. Len(ReadFrames(e)) = rd[Peer(e)] \div 2 /\ rd[Peer(e)] \div 2 \in Nat
  BY <1>p, <1>t, HalfSeq DEF ReadFrames, FramesUpTo
<1>3. QED
  BY <1>1, <1>2, Zenon

\* What is written does not change what has been sent.
LEMMA SentSame ==
  ASSUME Inv, [Next]_vars, drained' = drained
  PROVE  Sent' = Sent
<1>1. ASSUME NEW e \in Ends PROVE SentFrames(e)' = SentFrames(e)
  <2>1. /\ wire[e] \in Seq(Tokens) /\ drained[e] \in Nat /\ drained[e] <= Len(wire[e])
        /\ Len(wire[e]) \in Nat
    BY DEF Inv, TypeOK, TransportOK
  <2>2. \A i \in 1..Len(wire[e]) : wire'[e][i] = wire[e][i]
    BY WireGrows
  <2>3. \A k \in 1 .. drained[e] \div 2 : 2 * k \in 1..Len(wire[e])
    BY <2>1, HalfWithin
  <2>4. \A k \in 1 .. drained[e] \div 2 : wire'[e][2 * k].frame = wire[e][2 * k].frame
    BY <2>2, <2>3
  <2>5. [k \in 1 .. drained[e] \div 2 |-> wire'[e][2 * k].frame] = [k \in 1 .. drained[e] \div 2 |-> wire[e][2 * k].frame]
    BY <2>4, Zenon
  <2>6. QED
    BY <2>5, Zenon DEF SentFrames, FramesUpTo
<1>2. QED
  BY <1>1, Zenon DEF Sent

\* Every frame on the wire is one of the channel's items.
LEMMA WireItems ==
  ASSUME OrderInv, NEW e \in Ends, NEW i \in 1..Len(wire[e])
  PROVE  LET f == wire[e][i].frame IN
         /\ f \in Frames
         /\ f.op \in DataOps \cup {"Pong"} => f \in Messages
         /\ f.op = "Ping" => f \in Probes
         /\ f.op = "Close" => f \in Closes
         /\ f \in Messages \cup Probes \cup Closes
<1> DEFINE f == wire[e][i].frame
<1>1. wire[e][i] \in Tokens
  BY DEF OrderInv, CloseInv, Inv, TypeOK, TransportOK
<1>2. f \in Frames
  BY <1>1 DEF Tokens
<1>3. f.op # "Flush" /\ f.id \in Ids
  BY DEF OrderInv, IdInv
<1> HIDE DEF f
<1>4. /\ f = [op |-> f.op, id |-> f.id, by |-> f.by] /\ f.by \in Halves
      /\ f.op \in DataOps \cup {"Ping", "Pong", "Close"}
  BY <1>2, <1>3 DEF Frames, Calls, OpCodes
<1>5. /\ f.op \in DataOps \cup {"Pong"} => f \in Messages
      /\ f.op = "Ping" => f \in Probes
      /\ f.op = "Close" => f \in Closes
  BY <1>3, <1>4 DEF Messages, Probes, Closes
<1>6. QED
  BY <1>2, <1>4, <1>5 DEF f

\* Two tokens drained are one frame sent.
LEMMA SentMore ==
  ASSUME OrderInv, [Next]_vars, NEW x \in Ends, Drain(x)
  PROVE  \/ Sent' = Sent
         \/ \E m \in Messages \cup Probes \cup Closes : Sent' = [Sent EXCEPT ![x] = Append(@, m)]
<1>i. Inv /\ Inv'
  BY InvNext DEF OrderInv, CloseInv
<1>t. /\ wire \in [Ends -> Seq(Tokens)] /\ drained \in [Ends -> Nat]
      /\ wire[x] \in Seq(Tokens) /\ drained[x] \in Nat /\ Len(wire[x]) \in Nat
      /\ drained[x] <= Len(wire[x])
  BY <1>i DEF Inv, TypeOK, TransportOK
<1>d. /\ wire' = wire /\ drained' = [drained EXCEPT ![x] = @ + 1]
      /\ drained[x] + 1 \in 1..Len(wire[x])
  BY <1>t DEF Drain, Unsent
<1>o. \A e \in Ends : e # x => SentFrames(e)' = SentFrames(e)
  BY <1>d, <1>t DEF SentFrames, FramesUpTo
<1> DEFINE n  == drained[x] \div 2
           f  == wire[x][drained[x] + 1].frame
<1>s. /\ SentFrames(x) = [k \in 1..n |-> wire[x][2 * k].frame]
      /\ SentFrames(x)' = [k \in 1 .. (drained[x] + 1) \div 2 |-> wire[x][2 * k].frame]
  BY <1>d, <1>t DEF SentFrames, FramesUpTo
<1>1. CASE drained[x] % 2 = 0
  <2>1. (drained[x] + 1) \div 2 = n
    BY <1>1, <1>t, HalfEven
  <2>2. SentFrames(x)' = SentFrames(x)
    BY <2>1, <1>s, Zenon
  <2>3. Sent' = Sent
    BY <2>2, <1>o, Zenon DEF Sent
  <2>4. QED
    BY <2>3
<1>2. CASE drained[x] % 2 = 1
  <2>1. n \in Nat /\ (drained[x] + 1) \div 2 = n + 1 /\ 2 * (n + 1) = drained[x] + 1
    BY <1>2, <1>t, HalfOdd
  <2>2. SentFrames(x) \in Seq(Frames) /\ Len(SentFrames(x)) = n
    BY <1>i, Mapping DEF Sent
  <2> HIDE DEF n
  <2>3. SentFrames(x)' = Append(SentFrames(x), f)
    <3>1. SentFrames(x)' = [k \in 1 .. n + 1 |-> wire[x][2 * k].frame]
      BY <2>1, <1>s, Zenon
    <3>2. Append(SentFrames(x), f) = [k \in 1 .. n + 1 |-> IF k = n + 1 THEN f ELSE SentFrames(x)[k]]
      BY <2>1, <2>2
    <3>3. ASSUME NEW k \in 1 .. n + 1
          PROVE  wire[x][2 * k].frame = IF k = n + 1 THEN f ELSE SentFrames(x)[k]
      <4>1. CASE k = n + 1
        BY <4>1, <2>1
      <4>2. CASE k # n + 1
        <5>1. k \in 1..n
          BY <4>2, <2>1
        <5>2. QED
          BY <4>2, <5>1, <1>s
      <4>3. QED
        BY <4>1, <4>2
    <3>4. QED
      BY <3>1, <3>2, <3>3
  <2>4. f \in Messages \cup Probes \cup Closes
    BY <1>d, WireItems
  <2>5. Sent' = [Sent EXCEPT ![x] = Append(@, f)]
    <3>1. Sent' = [e \in Ends |-> IF e = x THEN Append(Sent[x], f) ELSE Sent[e]]
      BY <2>3, <1>o DEF Sent
    <3>2. QED
      BY <3>1 DEF Sent
  <2>6. QED
    BY <2>4, <2>5
<1>3. QED
  BY <1>1, <1>2, <1>t, EvenOrOdd

\* What one end has consumed changes with its own Receiver only.
LEMMA ConsumedBy ==
  ASSUME Inv, Inv', NEW e \in Ends,
         \A x \in Ends \ {e} : /\ rd'[Peer(x)] = rd[Peer(x)]
                               /\ pc'[x]["Receiver"] = pc[x]["Receiver"]
                               /\ job'[x]["Receiver"] = job[x]["Receiver"]
  PROVE  Consumed' = [Consumed EXCEPT ![e] = (rd'[Peer(e)] \div 2) - (IF AnsweringClose(e)' THEN 1 ELSE 0)]
<1>1. ASSUME NEW x \in Ends
      PROVE  Consumed'[x] = (rd'[Peer(x)] \div 2) - (IF AnsweringClose(x)' THEN 1 ELSE 0)
  <2>1. Peer(x) \in Ends
    BY PeerFacts
  <2>2. /\ wire'[Peer(x)] \in Seq(Tokens) /\ rd'[Peer(x)] \in Nat
        /\ rd'[Peer(x)] <= Len(wire'[Peer(x)])
    BY <2>1, SMTT(30) DEF Inv, TypeOK, TransportOK
  <2>3. Len(ReadFrames(x)') = rd'[Peer(x)] \div 2
    BY <2>2, HalfSeq DEF ReadFrames, FramesUpTo
  <2>4. QED
    BY <2>3, Zenon DEF Consumed
<1>2. ASSUME NEW x \in Ends \ {e} PROVE Consumed'[x] = Consumed[x]
  <2>1. Consumed[x] = (rd[Peer(x)] \div 2) - (IF AnsweringClose(x) THEN 1 ELSE 0)
    BY Mapping, Zenon
  <2>2. AnsweringClose(x)' <=> AnsweringClose(x)
    BY DEF AnsweringClose
  <2>3. rd'[Peer(x)] = rd[Peer(x)]
    OBVIOUS
  <2>4. QED
    BY <1>1, <2>1, <2>2, <2>3
<1>3. Consumed' = [x \in Ends |-> Consumed'[x]] /\ Consumed = [x \in Ends |-> Consumed[x]]
  BY DEF Consumed
<1>4. QED
  BY <1>1, <1>2, <1>3, Zenon

\* A step that changes none of the abstract variables.
LEMMA Quiet ==
  ASSUME Sent' = Sent, Consumed' = Consumed, got' = got, gone' = gone
  PROVE  UNCHANGED Channel!vars
BY DEF Sent, Consumed, Channel!vars

\* A Receiver that answers a CLOSE still has it before it in the channel.
LEMMA CloseItem ==
  ASSUME OrderInv, NEW e \in Ends, AnsweringClose(e)
  PROVE  /\ ~Channel!Closed(e)
         /\ Consumed[e] \in Nat
         /\ Consumed[e] + 1 = rd[Peer(e)] \div 2
         /\ Consumed[e] < Len(Sent[Peer(e)])
         /\ Sent[Peer(e)][Consumed[e] + 1] = LastRead(e)
         /\ LastRead(e) \in Closes
<1> DEFINE p == Peer(e)
           n == rd[p]
<1>i. Inv
  BY DEF OrderInv, CloseInv
<1>p. p \in Ends
  BY PeerFacts
<1>t. /\ n \in Nat /\ drained[p] \in Nat /\ n <= drained[p] /\ drained[p] <= Len(wire[p]) /\ Len(wire[p]) \in Nat
      /\ got[e] \in Seq(Frames)
      /\ pc[e]["Receiver"] \in PCs
  BY <1>i, <1>p DEF Inv, TypeOK, TransportOK, HalvesOK, CallsOK, Halves
<1>1. pc[e]["Receiver"] \in Waiting \cup Holding
  BY <1>t DEF AnsweringClose, PCs, Reading
<1>2. /\ n > 0
      /\ wire[p][n].part = "payload"
      /\ LastRead(e).op = "Close"
  <2>1. n > 0
    BY <1>1, <1>i DEF Inv, AnswersSomething
  <2>2. wire[p][n].part = "payload" /\ LastRead(e).op \in {"Ping", "Close"} /\ job[e]["Receiver"] = Answer(LastRead(e))
    BY <1>1 DEF OrderInv, AnswerInv
  <2>3. LastRead(e).op = "Close"
    BY <2>2 DEF AnsweringClose, Answer
  <2>4. QED
    BY <2>1, <2>2, <2>3
<1>3. n % 2 = 0
  <2>1. n \in 1..drained[p]
    BY <1>2, <1>t
  <2>2. n % 2 # 1
    BY <2>1, <1>2, <1>p DEF OrderInv, ParityInv, Parity
  <2>3. QED
    BY <2>2, <1>t, EvenOrOdd
<1>4. 2 * (n \div 2) = n /\ n \div 2 \in Nat /\ n \div 2 <= drained[p] \div 2 /\ drained[p] \div 2 \in Nat
  BY <1>3, <1>t, HalfEven, HalfOrder
<1>5. /\ Consumed[e] = (n \div 2) - 1
      /\ Len(Sent[p]) = drained[p] \div 2
      /\ \A k \in 1 .. drained[p] \div 2 : Sent[p][k] = wire[p][2 * k].frame
  <2>1. Consumed[e] = (n \div 2) - (IF AnsweringClose(e) THEN 1 ELSE 0)
    BY <1>i, Mapping, Zenon
  <2>2. QED
    BY <2>1, <1>i, <1>p, Mapping
<1> DEFINE c == n \div 2
           d == drained[p] \div 2
<1>6. c \in 1..d /\ 2 * c = n
  <2>1. c > 0
    BY <1>2, <1>4
  <2>2. QED
    BY <2>1, <1>4
<1>7. Sent[p][c] = LastRead(e)
  BY <1>5, <1>6, Zenon DEF LastRead
<1>8. LastRead(e) \in Closes
  <2>1. n \in 1..Len(wire[p])
    BY <1>2, <1>t
  <2>2. QED
    BY <2>1, <1>2, <1>p, WireItems DEF LastRead
<1>9. ~Channel!Closed(e)
  <2>1. ~is_closed[e]
    BY <1>1 DEF OrderInv, GotInv, Waiting, Holding
  <2>2. \A i \in 1..Len(got[e]) : got[e][i].op # "Close"
    BY <2>1 DEF OrderInv, GotInv
  <2>3. got[e] # <<>> => Len(got[e]) \in 1..Len(got[e])
    BY <1>t
  <2>4. \A f \in Closes : f.op = "Close"
    BY DEF Closes
  <2>5. QED
    BY <2>2, <2>3, <2>4 DEF Channel!Closed, Closes
<1>10. QED
  <2> HIDE DEF c, d
  <2>1. Consumed[e] = c - 1 /\ Len(Sent[p]) = d /\ d \in Nat /\ c \in Nat
    BY <1>4, <1>5 DEF c, d
  <2>2. Consumed[e] \in Nat /\ Consumed[e] + 1 = c /\ Consumed[e] < d
    BY <2>1, <1>6
  <2>3. QED
    BY <2>1, <2>2, <1>7, <1>8, <1>9 DEF c

\* A Receiver that reads a payload takes the next item from the channel.
LEMMA PayloadItem ==
  ASSUME OrderInv, NEW e \in Ends, ReadPayload(e)
  PROVE  LET f == job[e]["Receiver"] IN
         /\ ~Channel!Closed(e)
         /\ ~AnsweringClose(e)
         /\ Consumed[e] = rd[Peer(e)] \div 2 /\ Consumed[e] \in Nat
         /\ Consumed[e] + 1 = (rd[Peer(e)] + 1) \div 2
         /\ Consumed[e] < Len(Sent[Peer(e)])
         /\ Sent[Peer(e)][Consumed[e] + 1] = f
         /\ f.op \in Returned => f \in Messages
         /\ f.op = "Ping" => f \in Probes
         /\ f.op \in Returned \cup {"Ping", "Close"}
<1> DEFINE p == Peer(e)
           n == rd[p]
           f == job[e]["Receiver"]
<1>i. Inv
  BY DEF OrderInv, CloseInv
<1>p. p \in Ends
  BY PeerFacts
<1>t. /\ n \in Nat /\ drained[p] \in Nat /\ n < drained[p] /\ drained[p] <= Len(wire[p]) /\ Len(wire[p]) \in Nat
      /\ got[e] \in Seq(Frames)
  BY <1>i, <1>p DEF Inv, TypeOK, TransportOK, HalvesOK, CallsOK, ReadPayload, Take
<1>1. pc[e]["Receiver"] = "body" /\ ~AnsweringClose(e)
  BY DEF ReadPayload, At, AnsweringClose
<1>2. n % 2 = 1 /\ wire[p][n + 1].frame = f
  BY ReadPlace DEF NextToken
<1>3. 2 * (n \div 2) + 1 = n /\ (n + 1) \div 2 = (n \div 2) + 1 /\ n \div 2 \in Nat
  BY <1>2, <1>t, HalfOdd
<1>4. (n + 1) \div 2 <= drained[p] \div 2 /\ drained[p] \div 2 \in Nat
  <2>1. n + 1 <= drained[p] /\ n + 1 \in Nat
    BY <1>t
  <2>2. QED
    BY <2>1, <1>t, HalfOrder
<1>5. /\ Consumed[e] = n \div 2
      /\ Len(Sent[p]) = drained[p] \div 2
      /\ \A k \in 1 .. drained[p] \div 2 : Sent[p][k] = wire[p][2 * k].frame
  <2>1. Consumed[e] = (n \div 2) - (IF AnsweringClose(e) THEN 1 ELSE 0)
    BY <1>i, Mapping, Zenon
  <2>2. (n \div 2) - (IF AnsweringClose(e) THEN 1 ELSE 0) = n \div 2
    BY <1>1, <1>3
  <2>3. QED
    BY <2>1, <2>2, <1>i, <1>p, Mapping
<1> DEFINE c == n \div 2
           d == drained[p] \div 2
<1>6. c + 1 \in 1..d /\ 2 * (c + 1) = n + 1
  BY <1>3, <1>4
<1>7. Sent[p][c + 1] = f
  BY <1>2, <1>5, <1>6, Zenon
<1>8. /\ f.op \in Returned => f \in Messages
      /\ f.op = "Ping" => f \in Probes
      /\ f.op \in Returned \cup {"Ping", "Close"}
  <2>1. n + 1 \in 1..Len(wire[p])
    BY <1>t
  <2>2. f.op # "Flush" /\ f \in Frames
    BY <2>1, <1>2, <1>p, WireItems DEF OrderInv, IdInv
  <2>3. f.op \in Returned \cup {"Ping", "Close"}
    BY <2>2 DEF Frames, Calls, OpCodes, Returned
  <2>4. QED
    BY <2>1, <2>3, <1>2, <1>p, WireItems DEF Returned
<1>9. ~Channel!Closed(e)
  <2>1. ~is_closed[e]
    BY <1>1 DEF OrderInv, GotInv
  <2>2. \A i \in 1..Len(got[e]) : got[e][i].op # "Close"
    BY <2>1 DEF OrderInv, GotInv
  <2>3. got[e] # <<>> => Len(got[e]) \in 1..Len(got[e])
    BY <1>t
  <2>4. \A g \in Closes : g.op = "Close"
    BY DEF Closes
  <2>5. QED
    BY <2>2, <2>3, <2>4 DEF Channel!Closed, Closes
<1>10. QED
  <2> HIDE DEF c, d
  <2>1. Consumed[e] = c /\ Len(Sent[p]) = d /\ d \in Nat /\ c \in Nat /\ (n + 1) \div 2 = c + 1
    BY <1>3, <1>4, <1>5 DEF c, d
  <2>2. Consumed[e] < d
    BY <2>1, <1>6
  <2>3. QED
    BY <2>1, <2>2, <1>1, <1>7, <1>8, <1>9 DEF c

\* A writer that is shut has sent a CLOSE.
LEMMA ShutHasClosed ==
  ASSUME OrderInv, NEW e \in Ends, Dead(e)
  PROVE  Channel!HasClosed(e) \/ gone[Peer(e)]
<1> SUFFICES ASSUME ~gone[Peer(e)] PROVE Channel!HasClosed(e)
  OBVIOUS
<1>i. Inv
  BY DEF OrderInv, CloseInv
<1>t. drained[e] \in Nat /\ drained[e] <= Len(wire[e]) /\ Len(wire[e]) \in Nat
  BY <1>i DEF Inv, TypeOK, TransportOK
<1>1. PICK i \in 1..drained[e] : wire[e][i].part = "payload" /\ wire[e][i].frame.op = "Close"
  BY DEF Dead, OrderInv, CloseInv, ShutInv, CloseAmong
<1>2. i % 2 = 0 /\ i \in Nat
  <2>1. i % 2 # 1
    BY <1>1 DEF OrderInv, ParityInv, Parity
  <2>2. QED
    BY <2>1, <1>t, EvenOrOdd
<1>3. 2 * (i \div 2) = i /\ i \div 2 \in Nat /\ i \div 2 <= drained[e] \div 2 /\ drained[e] \div 2 \in Nat
  BY <1>2, <1>t, HalfEven, HalfOrder
<1> DEFINE k == i \div 2
           d == drained[e] \div 2
<1>4. k \in 1..d /\ 2 * k = i
  BY <1>3
<1>5. Len(Sent[e]) = d /\ Sent[e][k] = wire[e][i].frame
  <2>1. Len(Sent[e]) = d /\ \A j \in 1..d : Sent[e][j] = wire[e][2 * j].frame
    BY <1>i, Mapping
  <2>2. QED
    BY <2>1, <1>4, Zenon
<1>6. wire[e][i].frame \in Closes
  <2>1. i \in 1..Len(wire[e])
    BY <1>t
  <2>2. QED
    BY <2>1, <1>1, WireItems
<1> HIDE DEF k, d
<1>7. \E j \in 1..Len(Sent[e]) : Sent[e][j] \in Closes
  BY <1>4, <1>5, <1>6
<1>8. QED
  BY <1>7, Zenon DEF Channel!HasClosed, Sent, Closes

\* A call in progress changes nothing in the channel, but for the last step of
\* a Receiver that answers a CLOSE: it reports the CLOSE or fails.
LEMMA StepChannel ==
  ASSUME OrderInv, [Next]_vars, NEW e \in Ends, NEW h \in Halves, Step(e, h)
  PROVE  Channel!Deliver(e) \/ Channel!Fail(e) \/ UNCHANGED Channel!vars
<1>i. Inv /\ Inv'
  BY InvNext DEF OrderInv, CloseInv
<1>t. /\ pc \in [Ends -> [Halves -> PCs]]
      /\ job \in [Ends -> [Halves -> Frames]]
      /\ Peer(e) \in Ends
  BY <1>i, PeerFacts DEF Inv, TypeOK, HalvesOK
<1>h. Halves = {"Sender", "Receiver"}
  BY DEF Halves
<1>u. /\ UNCHANGED <<drained, rd, gone, job>>
      /\ ~gone[e]
      /\ \E label : pc' = [pc EXCEPT ![e][h] = label]
  BY DEF Step, Lock, WriteHeader, WritePayload, WriteFails, FlushOk, FlushFails, CloseOk, CloseFails,
         AfterWrite, Goto, Return, At, transport
<1>s. Sent' = Sent
  BY <1>i, <1>u, SentSame
<1>c. Consumed' = [Consumed EXCEPT ![e] = (rd[Peer(e)] \div 2) - (IF AnsweringClose(e)' THEN 1 ELSE 0)]
  <2>1. \A x \in Ends \ {e} : /\ rd'[Peer(x)] = rd[Peer(x)]
                              /\ pc'[x]["Receiver"] = pc[x]["Receiver"]
                              /\ job'[x]["Receiver"] = job[x]["Receiver"]
    BY <1>u, <1>t
  <2>2. rd'[Peer(e)] = rd[Peer(e)]
    BY <1>u
  <2>3. QED
    BY <2>1, <2>2, <1>i, ConsumedBy
<1>m. /\ Consumed[e] = (rd[Peer(e)] \div 2) - (IF AnsweringClose(e) THEN 1 ELSE 0)
      /\ rd[Peer(e)] \div 2 \in Nat
      /\ Consumed = [x \in Ends |-> Consumed[x]]
  BY <1>i, Mapping, Zenon DEF Consumed
<1>q. ASSUME AnsweringClose(e)' <=> AnsweringClose(e), got' = got
      PROVE  UNCHANGED Channel!vars
  <2>1. (IF AnsweringClose(e)' THEN 1 ELSE 0) = (IF AnsweringClose(e) THEN 1 ELSE 0)
    BY <1>q
  <2>2. Consumed' = [Consumed EXCEPT ![e] = Consumed[e]]
    BY <2>1, <1>c, <1>m, Zenon
  <2>3. Consumed' = Consumed
    BY <2>2, <1>m
  <2>4. QED
    BY <2>3, <1>q, <1>s, <1>u, Quiet
<1>e. ASSUME AnsweringClose(e), ~AnsweringClose(e)', got' = got \/ got' = [got EXCEPT ![e] = Append(@, LastRead(e))],
             got' = got => Dead(e)
      PROVE  Channel!Deliver(e) \/ Channel!Fail(e)
  <2>1. /\ ~Channel!Closed(e)
        /\ Consumed[e] \in Nat /\ Consumed[e] + 1 = rd[Peer(e)] \div 2
        /\ Consumed[e] < Len(Sent[Peer(e)])
        /\ Sent[Peer(e)][Consumed[e] + 1] = LastRead(e)
        /\ LastRead(e) \in Closes
    BY <1>e, CloseItem
  <2>2. Consumed' = [Consumed EXCEPT ![e] = Consumed[e] + 1]
    <3>1. (rd[Peer(e)] \div 2) - (IF AnsweringClose(e)' THEN 1 ELSE 0) = rd[Peer(e)] \div 2
      BY <1>e, <1>m
    <3>2. QED
      BY <3>1, <2>1, <1>c, Zenon
  <2>3. Channel!Consume(e)
    BY <2>1, <2>2, <1>s, <1>u DEF Channel!Consume, Sent, Consumed
  <2>4. Channel!Item(e) = LastRead(e)
    BY <2>1, Zenon DEF Channel!Item, Sent, Consumed
  <2>5. CASE got' = got
    BY <2>1, <2>3, <2>4, <2>5, <1>e, ShutHasClosed DEF Channel!Fail, Closes
  <2>6. CASE got' = [got EXCEPT ![e] = Append(@, LastRead(e))]
    BY <2>1, <2>3, <2>4, <2>6 DEF Channel!Deliver, Closes
  <2>7. QED
    BY <2>5, <2>6, <1>e
<1>1. CASE h = "Sender"
  <2>1. got' = got
    BY <1>1 DEF Step, Lock, WriteHeader, WritePayload, WriteFails, FlushOk, FlushFails, CloseOk, CloseFails
  <2>2. pc'[e]["Receiver"] = pc[e]["Receiver"]
    BY <1>1, <1>u, <1>t, <1>h
  <2>3. QED
    BY <2>1, <2>2, <1>u, <1>q DEF AnsweringClose
<1>2. CASE h = "Receiver"
  <2>j. pc[e]["Receiver"] \in Waiting \cup Holding => job[e]["Receiver"].by = "Receiver"
    BY DEF OrderInv, CloseInv, JobInv
  <2>1. CASE Lock(e, h) \/ WriteHeader(e, h) \/ WritePayload(e, h)
    <3>1. /\ pc[e]["Receiver"] \in Waiting \cup Holding /\ got' = got
          /\ \E label \in Waiting \cup Holding : pc' = [pc EXCEPT ![e]["Receiver"] = label]
      BY <2>1, <1>2 DEF Lock, WriteHeader, WritePayload, AfterWrite, Goto, At, Waiting, Holding
    <3>2. pc'[e]["Receiver"] \in Waiting \cup Holding
      BY <3>1, <1>t, <1>h
    <3>3. QED
      BY <3>1, <3>2, <1>u, <1>q DEF AnsweringClose, Waiting, Holding
  <2>2. CASE WriteFails(e, h)
    <3>1. /\ pc[e]["Receiver"] \in Holding /\ got' = got
          /\ IF job[e]["Receiver"].op = "Close"
             THEN pc' = [pc EXCEPT ![e]["Receiver"] = "flushLock"]
             ELSE pc' = [pc EXCEPT ![e]["Receiver"] = "idle"]
      BY <2>2, <1>2 DEF WriteFails, Goto, Return, At, Holding
    <3>2. QED
      BY <3>1, <1>u, <1>q, <1>t, <1>h DEF AnsweringClose, Holding
  <2>3. CASE FlushOk(e, h)
    <3>1. /\ pc[e]["Receiver"] = "flush" /\ got' = got
          /\ IF job[e]["Receiver"].op = "Close"
             THEN pc' = [pc EXCEPT ![e]["Receiver"] = "closeLock"]
             ELSE pc' = [pc EXCEPT ![e]["Receiver"] = "recv"]
      BY <2>3, <1>2 DEF FlushOk, Goto, At
    <3>2. QED
      BY <3>1, <1>u, <1>q, <1>t, <1>h DEF AnsweringClose
  <2>4. CASE FlushFails(e, h)
    <3>1. /\ pc[e]["Receiver"] = "flush" /\ got' = got /\ Dead(e)
          /\ pc' = [pc EXCEPT ![e]["Receiver"] = "idle"]
      BY <2>4, <1>2 DEF FlushFails, Return, At
    <3>2. ~AnsweringClose(e)'
      BY <3>1, <1>t, <1>h DEF AnsweringClose
    <3>3. QED
      BY <3>1, <3>2, <1>q, <1>e
  <2>5. CASE CloseOk(e, h) \/ CloseFails(e, h)
    <3>1. /\ pc[e]["Receiver"] = "close"
          /\ got' = [got EXCEPT ![e] = Append(@, LastRead(e))]
          /\ pc' = [pc EXCEPT ![e]["Receiver"] = "idle"]
      BY <2>5, <1>2 DEF CloseOk, CloseFails, Return, ReportClosed, At
    <3>2. ~AnsweringClose(e)'
      BY <3>1, <1>t, <1>h DEF AnsweringClose
    <3>3. AnsweringClose(e)
      BY <3>1, <2>j, <1>h DEF AnsweringClose, OrderInv, CloseInv, JobInv, Holding
    <3>4. got' # got
      <4>1. got \in [Ends -> Seq(Frames)]
        BY <1>i DEF Inv, TypeOK, CallsOK
      <4>2. got'[e] = Append(got[e], LastRead(e))
        BY <3>1, <4>1
      <4>3. Append(got[e], LastRead(e)) # got[e]
        BY <4>1
      <4>4. QED
        BY <4>2, <4>3
    <3>5. QED
      BY <3>1, <3>2, <3>3, <3>4, <1>e
  <2>6. QED
    BY <2>1, <2>2, <2>3, <2>4, <2>5 DEF Step
<1>3. QED
  BY <1>1, <1>2, <1>h

\* Reading a payload delivers a message or absorbs a PING; a CLOSE stays in the
\* channel until it has been answered.
LEMMA ReadChannel ==
  ASSUME OrderInv, [Next]_vars, NEW e \in Ends, ReadPayload(e)
  PROVE  Channel!Deliver(e) \/ Channel!Absorb(e) \/ UNCHANGED Channel!vars
<1> DEFINE f == job[e]["Receiver"]
<1>i. Inv /\ Inv'
  BY InvNext DEF OrderInv, CloseInv
<1>t. /\ pc \in [Ends -> [Halves -> PCs]]
      /\ job \in [Ends -> [Halves -> Frames]]
      /\ rd \in [Ends -> Nat]
      /\ Peer(e) \in Ends
  BY <1>i, PeerFacts DEF Inv, TypeOK, HalvesOK, TransportOK
<1>h. Halves = {"Sender", "Receiver"}
  BY DEF Halves
<1>u. /\ UNCHANGED <<drained, gone>> /\ ~gone[e]
      /\ rd' = [rd EXCEPT ![Peer(e)] = @ + 1]
      /\ \/ /\ f.op \in Returned
            /\ got' = [got EXCEPT ![e] = Append(@, f)]
            /\ pc' = [pc EXCEPT ![e]["Receiver"] = "idle"] /\ job' = job
         \/ /\ f.op \notin Returned /\ got' = got
            /\ pc' = [pc EXCEPT ![e]["Receiver"] = "lock"]
            /\ job' = [job EXCEPT ![e]["Receiver"] = Answer(f)]
  BY DEF ReadPayload, Take, At, Goto, Return
<1>s. Sent' = Sent
  BY <1>i, <1>u, SentSame
<1>m. /\ ~Channel!Closed(e)
      /\ Consumed[e] \in Nat
      /\ Consumed[e] + 1 = (rd[Peer(e)] + 1) \div 2
      /\ Consumed[e] < Len(Sent[Peer(e)])
      /\ Sent[Peer(e)][Consumed[e] + 1] = f
      /\ f.op \in Returned => f \in Messages
      /\ f.op = "Ping" => f \in Probes
      /\ f.op \in Returned \cup {"Ping", "Close"}
  BY PayloadItem, Zenon
<1>c. Consumed' = [Consumed EXCEPT ![e] = (Consumed[e] + 1) - (IF AnsweringClose(e)' THEN 1 ELSE 0)]
  <2>1. \A x \in Ends \ {e} : /\ rd'[Peer(x)] = rd[Peer(x)]
                              /\ pc'[x]["Receiver"] = pc[x]["Receiver"]
                              /\ job'[x]["Receiver"] = job[x]["Receiver"]
    <3>1. ASSUME NEW x \in Ends \ {e} PROVE Peer(x) # Peer(e) /\ Peer(x) \in Ends
      BY PeerFacts
    <3>2. QED
      BY <3>1, <1>u, <1>t
  <2>2. rd'[Peer(e)] = rd[Peer(e)] + 1
    BY <1>u, <1>t
  <2>3. Consumed' = [Consumed EXCEPT ![e] = (rd'[Peer(e)] \div 2) - (IF AnsweringClose(e)' THEN 1 ELSE 0)]
    BY <2>1, <1>i, ConsumedBy
  <2>4. QED
    BY <2>2, <2>3, <1>m, Zenon
<1>1. ASSUME ~AnsweringClose(e)'
      PROVE  Channel!Consume(e) /\ Channel!Item(e) = f
  <2>1. (Consumed[e] + 1) - (IF AnsweringClose(e)' THEN 1 ELSE 0) = Consumed[e] + 1
    BY <1>1, <1>m
  <2>2. Consumed' = [Consumed EXCEPT ![e] = Consumed[e] + 1]
    BY <2>1, <1>c, Zenon
  <2>3. Channel!Consume(e)
    BY <2>2, <1>m, <1>s, <1>u DEF Channel!Consume, Sent, Consumed
  <2>4. Channel!Item(e) = f
    BY <1>m, Zenon DEF Channel!Item, Sent, Consumed
  <2>5. QED
    BY <2>3, <2>4
<1>2. CASE f.op \in Returned
  <2>1. ~AnsweringClose(e)'
    BY <1>2, <1>u, <1>t, <1>h DEF AnsweringClose
  <2>2. Channel!Deliver(e)
    BY <2>1, <1>1, <1>2, <1>m, <1>u DEF Channel!Deliver, Messages
  <2>3. QED
    BY <2>2
<1>3. CASE f.op = "Ping"
  <2>1. f.op \notin Returned
    BY <1>3 DEF Returned, DataOps
  <2>2. ~AnsweringClose(e)'
    BY <2>1, <1>3, <1>u, <1>t, <1>h DEF AnsweringClose, Answer
  <2>3. Channel!Absorb(e)
    BY <2>1, <2>2, <1>1, <1>3, <1>m, <1>u DEF Channel!Absorb, Probes
  <2>4. QED
    BY <2>3
<1>4. CASE f.op = "Close"
  <2>1. f.op \notin Returned
    BY <1>4 DEF Returned, DataOps
  <2>2. AnsweringClose(e)'
    BY <2>1, <1>4, <1>u, <1>t, <1>h DEF AnsweringClose, Answer
  <2>3. (Consumed[e] + 1) - (IF AnsweringClose(e)' THEN 1 ELSE 0) = Consumed[e]
    BY <2>2, <1>m
  <2>4. Consumed' = [Consumed EXCEPT ![e] = Consumed[e]]
    BY <2>3, <1>c, Zenon
  <2>5. Consumed' = Consumed
    BY <2>4 DEF Consumed
  <2>6. QED
    BY <2>1, <2>5, <1>u, <1>s, Quiet
<1>5. QED
  BY <1>2, <1>3, <1>4, <1>m

\* Everything else at a Receiver goes unseen by the channel.
LEMMA RestChannel ==
  ASSUME OrderInv, [Next]_vars, NEW e \in Ends, SenderCall(e) \/ ReceiveCall(e) \/ ReadHeader(e) \/ ReadEof(e)
  PROVE  UNCHANGED Channel!vars
<1>i. Inv /\ Inv'
  BY InvNext DEF OrderInv, CloseInv
<1>t. /\ pc \in [Ends -> [Halves -> PCs]]
      /\ job \in [Ends -> [Halves -> Frames]]
      /\ rd \in [Ends -> Nat]
      /\ Peer(e) \in Ends
  BY <1>i, PeerFacts DEF Inv, TypeOK, HalvesOK, TransportOK
<1>h. Halves = {"Sender", "Receiver"}
  BY DEF Halves
<1>u. UNCHANGED <<drained, gone, got>>
  BY DEF SenderCall, ReceiveCall, ReadHeader, ReadEof, transport
<1>s. Sent' = Sent
  BY <1>i, <1>u, SentSame
<1>1. /\ \A x \in Ends \ {e} : /\ rd'[Peer(x)] = rd[Peer(x)]
                               /\ pc'[x]["Receiver"] = pc[x]["Receiver"]
                               /\ job'[x]["Receiver"] = job[x]["Receiver"]
      /\ AnsweringClose(e)' <=> AnsweringClose(e)
      /\ rd'[Peer(e)] \div 2 = rd[Peer(e)] \div 2
  <2>p. ASSUME NEW x \in Ends \ {e} PROVE Peer(x) # Peer(e) /\ Peer(x) \in Ends
    BY PeerFacts
  <2>1. CASE SenderCall(e)
    <3>1. /\ rd' = rd /\ \E label : pc' = [pc EXCEPT ![e]["Sender"] = label]
          /\ \E g : job' = [job EXCEPT ![e]["Sender"] = g]
      BY <2>1 DEF SenderCall, Goto, transport
    <3>2. \A x \in Ends : pc'[x]["Receiver"] = pc[x]["Receiver"] /\ job'[x]["Receiver"] = job[x]["Receiver"]
      BY <3>1, <1>t, <1>h
    <3>3. QED
      BY <3>1, <3>2 DEF AnsweringClose
  <2>2. CASE ReceiveCall(e) \/ ReadEof(e)
    <3>1. /\ rd' = rd /\ job' = job /\ pc[e]["Receiver"] \in {"idle", "recv", "body"}
          /\ \E label \in {"idle", "recv", "body"} : pc' = [pc EXCEPT ![e]["Receiver"] = label]
      BY <2>2 DEF ReceiveCall, ReadEof, Return, At, transport
    <3>2. pc'[e]["Receiver"] \in {"idle", "recv", "body"} /\ \A x \in Ends \ {e} : pc'[x] = pc[x]
      BY <3>1, <1>t, <1>h
    <3>3. QED
      BY <3>1, <3>2 DEF AnsweringClose
  <2>3. CASE ReadHeader(e)
    <3>1. /\ rd' = [rd EXCEPT ![Peer(e)] = @ + 1] /\ pc[e]["Receiver"] = "recv"
          /\ pc' = [pc EXCEPT ![e]["Receiver"] = "body"]
          /\ \E g : job' = [job EXCEPT ![e]["Receiver"] = g]
      BY <2>3 DEF ReadHeader, Take, Goto, At
    <3>2. /\ pc'[e]["Receiver"] = "body" /\ rd'[Peer(e)] = rd[Peer(e)] + 1
          /\ \A x \in Ends \ {e} : pc'[x] = pc[x] /\ job'[x] = job[x] /\ rd'[Peer(x)] = rd[Peer(x)]
      BY <3>1, <2>p, <1>t, <1>h
    <3>3. rd'[Peer(e)] \div 2 = rd[Peer(e)] \div 2
      <4>1. rd[Peer(e)] % 2 = 0
        BY <2>3, ReadPlace
      <4>2. (rd[Peer(e)] + 1) \div 2 = rd[Peer(e)] \div 2
        BY <4>1, <1>t, HalfEven
      <4>3. QED
        BY <4>2, <3>2, Zenon
    <3>4. QED
      BY <3>1, <3>2, <3>3 DEF AnsweringClose
  <2>4. QED
    BY <2>1, <2>2, <2>3
<1>2. Consumed' = Consumed
  <2>1. Consumed' = [Consumed EXCEPT ![e] = (rd'[Peer(e)] \div 2) - (IF AnsweringClose(e)' THEN 1 ELSE 0)]
    BY <1>1, <1>i, ConsumedBy, Zenon
  <2>2. Consumed[e] = (rd[Peer(e)] \div 2) - (IF AnsweringClose(e) THEN 1 ELSE 0)
    BY <1>i, Mapping, Zenon
  <2>3. (IF AnsweringClose(e)' THEN 1 ELSE 0) = (IF AnsweringClose(e) THEN 1 ELSE 0)
    BY <1>1
  <2>4. Consumed' = [Consumed EXCEPT ![e] = Consumed[e]]
    BY <2>1, <2>2, <2>3, <1>1, Zenon
  <2>5. QED
    BY <2>4 DEF Consumed
<1>3. QED
  BY <1>2, <1>u, <1>s, Quiet

\* Draining the last token of a frame sends it.
LEMMA DrainChannel ==
  ASSUME OrderInv, [Next]_vars, NEW e \in Ends, Drain(e)
  PROVE  Channel!Send(e) \/ UNCHANGED Channel!vars
<1>1. UNCHANGED <<wire, rd, pc, job, got, gone>> /\ ~gone[e]
  BY DEF Drain
<1>2. Consumed' = Consumed
  BY <1>1 DEF Consumed, ReadFrames, FramesUpTo, AnsweringClose
<1>3. CASE Sent' = Sent
  BY <1>1, <1>2, <1>3, Quiet
<1>4. CASE Sent' # Sent
  <2>1. PICK m \in Messages \cup Probes \cup Closes : Sent' = [Sent EXCEPT ![e] = Append(@, m)]
    BY <1>4, SentMore
  <2>2. Channel!Send(e)
    BY <1>1, <1>2, <1>4, <2>1 DEF Channel!Send, Sent, Consumed, Messages, Probes, Closes
  <2>3. QED
    BY <2>2
<1>5. QED
  BY <1>3, <1>4

\* The end of a process, or of its use of the connection.
LEMMA VanishChannel ==
  ASSUME NEW e \in Ends, Crash(e) \/ Drop(e)
  PROVE  Channel!Vanish(e)
<1>1. UNCHANGED <<wire, drained, rd, pc, job, got>> /\ ~gone[e] /\ gone' = [gone EXCEPT ![e] = TRUE]
  BY DEF Crash, Drop
<1>2. Consumed' = Consumed /\ Sent' = Sent
  BY <1>1 DEF Consumed, Sent, SentFrames, ReadFrames, FramesUpTo, AnsweringClose
<1>3. QED
  BY <1>1, <1>2 DEF Channel!Vanish, Sent, Consumed

\* Every step of the connection is a step of the channel or goes unseen.
LEMMA NextChannel == OrderInv /\ [Next]_vars => [Channel!Next]_(Channel!vars)
<1> SUFFICES ASSUME OrderInv, [Next]_vars PROVE Channel!Next \/ UNCHANGED Channel!vars
  OBVIOUS
<1>1. CASE UNCHANGED vars
  <2>1. UNCHANGED <<wire, drained, rd, pc, job, got, gone>>
    BY <1>1 DEF vars
  <2>2. Consumed' = Consumed /\ Sent' = Sent
    BY <2>1 DEF Consumed, Sent, SentFrames, ReadFrames, FramesUpTo, AnsweringClose
  <2>3. QED
    BY <2>1, <2>2, Quiet
<1>2. ASSUME NEW e \in Ends, NEW h \in Halves, Step(e, h) PROVE Channel!Next \/ UNCHANGED Channel!vars
  BY <1>2, StepChannel, Zenon DEF Channel!Next
<1>3. ASSUME NEW e \in Ends, ReadPayload(e) PROVE Channel!Next \/ UNCHANGED Channel!vars
  BY <1>3, ReadChannel, Zenon DEF Channel!Next
<1>4. ASSUME NEW e \in Ends, SenderCall(e) \/ ReceiveCall(e) \/ ReadHeader(e) \/ ReadEof(e)
      PROVE  Channel!Next \/ UNCHANGED Channel!vars
  BY <1>4, RestChannel, Zenon
<1>5. ASSUME NEW e \in Ends, Drain(e) PROVE Channel!Next \/ UNCHANGED Channel!vars
  BY <1>5, DrainChannel, Zenon DEF Channel!Next
<1>6. ASSUME NEW e \in Ends, Crash(e) \/ Drop(e) PROVE Channel!Next \/ UNCHANGED Channel!vars
  BY <1>6, VanishChannel, Zenon DEF Channel!Next
<1>7. QED
  BY <1>1, <1>2, <1>3, <1>4, <1>5, <1>6, Zenon DEF Next, Read

\* A new connection is a new channel.
LEMMA InitChannel == Init => Channel!Init
<1> SUFFICES ASSUME Init PROVE Channel!Init
  OBVIOUS
<1>1. Inv
  BY InvInit
<1>2. ASSUME NEW e \in Ends
      PROVE  SentFrames(e) = <<>> /\ Len(ReadFrames(e)) - (IF AnsweringClose(e) THEN 1 ELSE 0) = 0
  <2>1. drained[e] = 0 /\ rd[Peer(e)] = 0 /\ pc[e]["Receiver"] = "idle"
    BY PeerFacts DEF Init, Halves
  <2>2. 0 \div 2 = 0
    OBVIOUS
  <2>3. ~AnsweringClose(e)
    BY <2>1 DEF AnsweringClose
  <2>4. Sent[e] \in Seq(Frames) /\ Len(Sent[e]) = 0
    BY <2>1, <2>2, <1>1, Mapping
  <2>5. Sent[e] = <<>>
    BY <2>4
  <2>6. Consumed[e] = 0 - 0
    BY <2>1, <2>2, <2>3, <1>1, Mapping
  <2>7. QED
    BY <2>5, <2>6 DEF Sent, Consumed
<1>3. got = [e \in Ends |-> <<>>] /\ gone = [e \in Ends |-> FALSE]
  BY DEF Init
<1>4. QED
  BY <1>2, <1>3, Zenon DEF Channel!Init

\* The two ends of a websocket are to their applications a FIFO channel of
\* messages in each direction, for any number of calls and any buffer sizes:
\* every step of the code is a step of MessageChannel or changes nothing in it.
THEOREM ConnectionIsAChannel == Spec => ImplementsChannel
<1>1. Init => Channel!Init
  BY InitChannel
<1>2. OrderInv /\ [Next]_vars => [Channel!Next]_(Channel!vars)
  BY NextChannel
<1>3. Spec => []OrderInv
  BY OrderInvariance
<1>4. QED
  BY <1>1, <1>2, <1>3, PTL DEF Spec, ImplementsChannel, Channel!Spec

=============================================================================
