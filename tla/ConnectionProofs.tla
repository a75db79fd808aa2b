-------------------------- MODULE ConnectionProofs --------------------------
(***************************************************************************)
(* Proofs about Connection, for all calls, bounds and buffer sizes: its    *)
(* types; that frames stay whole; and about closing and flushing, what is  *)
(* behind an Ok that flush or close returns, when a writer is shut, and    *)
(* what becomes of a CLOSE frame that was read.                            *)
(***************************************************************************)
EXTENDS Connection, SequenceTheorems, TLAPS

\* Each end has one peer, whose peer it is.
LEMMA PeerFacts ==
  ASSUME NEW e \in Ends
  PROVE  Peer(e) \in Ends /\ Peer(e) # e /\ Peer(Peer(e)) = e
BY DEF Peer, Ends

-----------------------------------------------------------------------------
(* Type correctness.                                                       *)

\* Builder::finish yields a well-typed connection.
LEMMA TypeInit == Init => TypeOK
<1> SUFFICES ASSUME Init PROVE TypeOK
  OBVIOUS
<1>1. \A h \in Halves : NoJob(h) \in Frames
  BY DEF NoJob, Frames, Calls, OpCodes
<1>2. QED
  BY <1>1 DEF Init, TypeOK, TransportOK, HalvesOK, CallsOK, PCs

\* Moving a half to a label keeps pc and res typed.
LEMMA GotoTyped ==
  ASSUME TypeOK, NEW e \in Ends, NEW h \in Halves, NEW label \in PCs, Goto(e, h, label)
  PROVE  /\ pc' \in [Ends -> [Halves -> PCs]]
         /\ res' \in [Ends -> [Halves -> {"ok", "Closed"}]]
BY DEF Goto, TypeOK, HalvesOK

\* So does returning from its call.
LEMMA ReturnTyped ==
  ASSUME TypeOK, NEW e \in Ends, NEW h \in Halves, NEW r \in {"ok", "Closed"}, Return(e, h, r)
  PROVE  /\ pc' \in [Ends -> [Halves -> PCs]]
         /\ res' \in [Ends -> [Halves -> {"ok", "Closed"}]]
BY DEF Return, TypeOK, HalvesOK, PCs

\* Dropping the guard leaves the lock free.
LEMMA UnlockTyped ==
  ASSUME TypeOK, NEW e \in Ends, Unlock(e)
  PROVE  writer' \in [Ends -> Halves \cup {"free"}]
BY DEF Unlock, TypeOK, HalvesOK

\* A write_all keeps the cursors in order: it only makes the wire longer.
LEMMA PutTyped ==
  ASSUME TypeOK, NEW e \in Ends, NEW t \in Tokens, Put(e, t), UNCHANGED <<drained, rd, shut, gone>>
  PROVE  TransportOK'
BY DEF Put, TypeOK, TransportOK

\* A step that leaves the transport alone keeps it typed.
LEMMA TransportSame == TypeOK /\ UNCHANGED transport => TransportOK'
BY DEF TypeOK, TransportOK, transport

\* A step that returns nothing and makes no call keeps the counters typed.
LEMMA CallsSame == TypeOK /\ UNCHANGED <<nsent, is_closed, got>> => CallsOK'
BY DEF TypeOK, CallsOK

\* A half may be given any frame to send.
LEMMA JobTyped ==
  ASSUME TypeOK, NEW e \in Ends, NEW h \in Halves, NEW f \in Frames, job' = [job EXCEPT ![e][h] = f]
  PROVE  job' \in [Ends -> [Halves -> Frames]]
BY DEF TypeOK, HalvesOK

\* A Receiver that is writing an answer has read something to answer.
AnswersSomething == \A e \in Ends :
  pc[e]["Receiver"] \in Waiting \cup Holding => rd[Peer(e)] > 0

\* The end of on_control reports the frame that was read, which exists because a
\* Receiver only answers what it has read.
LEMMA ReportTyped ==
  ASSUME TypeOK, AnswersSomething, NEW e \in Ends, At(e, "Receiver", "close"), ReportClosed(e), UNCHANGED nsent
  PROVE  CallsOK'
<1>1. Peer(e) \in Ends /\ "Receiver" \in Halves
  BY PeerFacts DEF Halves
<1>2. rd[Peer(e)] \in 1..Len(wire[Peer(e)])
  BY <1>1 DEF AnswersSomething, At, Waiting, Holding, TypeOK, TransportOK
<1>3. LastRead(e) \in Frames
  <2>1. wire[Peer(e)] \in Seq(Tokens)
    BY <1>1 DEF TypeOK, TransportOK
  <2>2. wire[Peer(e)][rd[Peer(e)]] \in Tokens
    BY <1>2, <2>1
  <2>3. QED
    BY <2>2 DEF LastRead, Tokens
<1>4. QED
  BY <1>3 DEF ReportClosed, TypeOK, CallsOK

\* Every step of a call in progress preserves the types.
LEMMA TypeStep ==
  ASSUME TypeOK, AnswersSomething, NEW e \in Ends, NEW h \in Halves, Step(e, h)
  PROVE  TypeOK'
<1> USE DEF PCs, Waiting, Holding, Reading
<1>j. job[e][h] \in Frames
  BY DEF TypeOK, HalvesOK
<1>1. CASE Lock(e, h)
  <2>1. pc' \in [Ends -> [Halves -> PCs]] /\ res' \in [Ends -> [Halves -> {"ok", "Closed"}]]
    BY <1>1, GotoTyped DEF Lock
  <2>2. HalvesOK'
    BY <1>1, <2>1 DEF Lock, TypeOK, HalvesOK
  <2>3. QED
    BY <1>1, <2>2, TransportSame, CallsSame DEF Lock, TypeOK
<1>2. CASE WriteHeader(e, h)
  <2>1. TransportOK'
    BY <1>2, <1>j, PutTyped DEF WriteHeader, Tokens
  <2>2. HalvesOK'
    BY <1>2, GotoTyped DEF WriteHeader, TypeOK, HalvesOK
  <2>3. QED
    BY <1>2, <2>1, <2>2, CallsSame DEF WriteHeader, TypeOK
<1>3. CASE WritePayload(e, h)
  <2>1. TransportOK'
    BY <1>3, <1>j, PutTyped DEF WritePayload, Tokens
  <2>2. pc' \in [Ends -> [Halves -> PCs]] /\ res' \in [Ends -> [Halves -> {"ok", "Closed"}]]
    BY <1>3, GotoTyped, ReturnTyped DEF WritePayload, AfterWrite
  <2>3. HalvesOK'
    BY <1>3, <2>2, UnlockTyped DEF WritePayload, TypeOK, HalvesOK
  <2>4. QED
    BY <1>3, <2>1, <2>3, CallsSame DEF WritePayload, TypeOK
<1>4. CASE WriteFails(e, h)
  <2>1. pc' \in [Ends -> [Halves -> PCs]] /\ res' \in [Ends -> [Halves -> {"ok", "Closed"}]]
    BY <1>4, GotoTyped, ReturnTyped DEF WriteFails
  <2>2. HalvesOK'
    BY <1>4, <2>1, UnlockTyped DEF WriteFails, TypeOK, HalvesOK
  <2>3. QED
    BY <1>4, <2>2, TransportSame, CallsSame DEF WriteFails, TypeOK
<1>5. CASE FlushOk(e, h)
  <2>1. pc' \in [Ends -> [Halves -> PCs]] /\ res' \in [Ends -> [Halves -> {"ok", "Closed"}]]
    BY <1>5, GotoTyped, ReturnTyped DEF FlushOk
  <2>2. HalvesOK'
    BY <1>5, <2>1, UnlockTyped DEF FlushOk, TypeOK, HalvesOK
  <2>3. QED
    BY <1>5, <2>2, TransportSame, CallsSame DEF FlushOk, TypeOK
<1>6. CASE FlushFails(e, h)
  <2>1. HalvesOK'
    BY <1>6, ReturnTyped, UnlockTyped DEF FlushFails, TypeOK, HalvesOK
  <2>2. QED
    BY <1>6, <2>1, TransportSame, CallsSame DEF FlushFails, TypeOK
<1>7. CASE CloseOk(e, h)
  <2>1. HalvesOK'
    BY <1>7, ReturnTyped, UnlockTyped DEF CloseOk, TypeOK, HalvesOK
  <2>2. TransportOK'
    BY <1>7 DEF CloseOk, TypeOK, TransportOK
  <2>3. CallsOK'
    BY <1>7, ReportTyped, CallsSame DEF CloseOk
  <2>4. QED
    BY <2>1, <2>2, <2>3 DEF TypeOK
<1>8. CASE CloseFails(e, h)
  <2>1. pc' \in [Ends -> [Halves -> PCs]] /\ res' \in [Ends -> [Halves -> {"ok", "Closed"}]]
    BY <1>8, ReturnTyped DEF CloseFails
  <2>2. HalvesOK'
    BY <1>8, <2>1, UnlockTyped DEF CloseFails, TypeOK, HalvesOK
  <2>3. CallsOK'
    BY <1>8, ReportTyped, CallsSame DEF CloseFails
  <2>4. QED
    BY <1>8, <2>2, <2>3, TransportSame DEF CloseFails, TypeOK
<1>9. QED
  BY <1>1, <1>2, <1>3, <1>4, <1>5, <1>6, <1>7, <1>8 DEF Step

\* So does every step by which a Receiver reads.
LEMMA TypeReceive ==
  ASSUME TypeOK, NEW e \in Ends, ReceiveCall(e) \/ Read(e)
  PROVE  TypeOK'
<1> USE DEF PCs, Waiting, Reading
<1>h. "Receiver" \in Halves /\ Peer(e) \in Ends
  BY PeerFacts DEF Halves
<1>1. CASE ReceiveCall(e)
  <2>1. pc' \in [Ends -> [Halves -> PCs]] /\ res' \in [Ends -> [Halves -> {"ok", "Closed"}]]
    <3>1. CASE is_closed[e]
      BY <1>1, <1>h, <3>1, ReturnTyped DEF ReceiveCall
    <3>2. CASE ~is_closed[e]
      <4>1. /\ pc \in [Ends -> [Halves -> PCs]]
            /\ res \in [Ends -> [Halves -> {"ok", "Closed"}]]
        BY DEF TypeOK, HalvesOK
      <4>2. /\ pc' = [pc EXCEPT ![e]["Receiver"] = "recv"]
            /\ res' = [res EXCEPT ![e]["Receiver"] = "ok"]
        BY <1>1, <3>2 DEF ReceiveCall
      <4>3. "recv" \in PCs
        OBVIOUS
      <4>4. QED
        BY <1>h, <4>1, <4>2, <4>3
    <3>3. QED
      BY <3>1, <3>2
  <2>2. QED
    BY <1>1, <2>1, TransportSame, CallsSame DEF ReceiveCall, TypeOK, HalvesOK
<1>2. ASSUME Take(e), UNCHANGED <<wire, drained, shut, gone>>
      PROVE  TransportOK' /\ NextToken(e) \in Tokens
  BY <1>2, <1>h DEF Take, NextToken, TypeOK, TransportOK
<1>3. CASE ReadHeader(e)
  <2>1. NextToken(e).frame \in Frames
    BY <1>2, <1>3 DEF ReadHeader, Tokens
  <2>2. job' \in [Ends -> [Halves -> Frames]]
    BY <1>3, <1>h, <2>1, JobTyped DEF ReadHeader
  <2>3. HalvesOK'
    BY <1>3, <1>h, <2>2, GotoTyped DEF ReadHeader, TypeOK, HalvesOK
  <2>4. QED
    BY <1>2, <1>3, <2>3, CallsSame DEF ReadHeader, TypeOK
<1>4. CASE ReadPayload(e)
  <2>1. job[e]["Receiver"] \in Frames
    BY <1>h DEF TypeOK, HalvesOK
  <2>2. Answer(job[e]["Receiver"]) \in Frames
    BY <2>1 DEF Answer, Frames, Calls, OpCodes, Halves
  <2>3. job' \in [Ends -> [Halves -> Frames]]
    BY <1>4, <1>h, <2>2, JobTyped DEF ReadPayload, TypeOK, HalvesOK
  <2>4. pc' \in [Ends -> [Halves -> PCs]] /\ res' \in [Ends -> [Halves -> {"ok", "Closed"}]]
    BY <1>4, <1>h, GotoTyped, ReturnTyped DEF ReadPayload
  <2>5. HalvesOK'
    BY <1>4, <2>3, <2>4 DEF ReadPayload, TypeOK, HalvesOK
  <2>6. CallsOK'
    <3>1. got' = got \/ got' = [got EXCEPT ![e] = Append(@, job[e]["Receiver"])]
      BY <1>4 DEF ReadPayload
    <3>2. got' \in [Ends -> Seq(Frames)]
      <4>1. got \in [Ends -> Seq(Frames)]
        BY DEF TypeOK, CallsOK
      <4>2. Append(got[e], job[e]["Receiver"]) \in Seq(Frames)
        BY <2>1, <4>1
      <4>3. QED
        BY <3>1, <4>1, <4>2
    <3>3. QED
      BY <1>4, <3>2 DEF ReadPayload, TypeOK, CallsOK
  <2>7. QED
    BY <1>2, <1>4, <2>5, <2>6 DEF ReadPayload, TypeOK
<1>5. CASE ReadEof(e)
  <2>1. HalvesOK'
    BY <1>5, <1>h, ReturnTyped DEF ReadEof, TypeOK, HalvesOK
  <2>2. QED
    BY <1>5, <2>1, TransportSame, CallsSame DEF ReadEof, TypeOK
<1>6. QED
  BY <1>1, <1>3, <1>4, <1>5 DEF Read

\* So do the calls of the application and the steps of the transport.
LEMMA TypeOther ==
  ASSUME TypeOK, NEW e \in Ends, SenderCall(e) \/ Drain(e) \/ Crash(e) \/ Drop(e)
  PROVE  TypeOK'
<1>1. CASE SenderCall(e)
  <2>1. PICK op \in Ops[e] :
          /\ nsent' = [nsent EXCEPT ![e] = @ + 1]
          /\ job' = [job EXCEPT ![e]["Sender"] = [op |-> op, id |-> nsent[e] + 1, by |-> "Sender"]]
          /\ Goto(e, "Sender", FirstStep(op))
          /\ UNCHANGED <<transport, writer, is_closed, got>>
    BY <1>1 DEF SenderCall
  <2>2. [op |-> op, id |-> nsent[e] + 1, by |-> "Sender"] \in Frames
    BY ConnectionAssumption DEF Frames, Halves, TypeOK, CallsOK
  <2>3. "Sender" \in Halves /\ FirstStep(op) \in PCs
    BY DEF Halves, FirstStep, PCs, Waiting
  <2>4. job' \in [Ends -> [Halves -> Frames]]
    BY <2>1, <2>2, <2>3, JobTyped
  <2>5. HalvesOK'
    BY <2>1, <2>3, <2>4, GotoTyped DEF TypeOK, HalvesOK
  <2>6. CallsOK'
    BY <2>1 DEF TypeOK, CallsOK
  <2>7. QED
    BY <2>1, <2>5, <2>6, TransportSame DEF TypeOK
<1>2. CASE Drain(e)
  <2>1. drained[e] < Len(wire[e])
    BY <1>2 DEF Drain, Unsent, TypeOK, TransportOK
  <2>2. TransportOK'
    BY <1>2, <2>1 DEF Drain, TypeOK, TransportOK
  <2>3. QED
    BY <1>2, <2>2 DEF Drain, TypeOK, HalvesOK, CallsOK
<1>3. CASE Crash(e) \/ Drop(e)
  BY <1>3 DEF Crash, Drop, TypeOK, TransportOK, HalvesOK, CallsOK
<1>4. QED
  BY <1>1, <1>2, <1>3

-----------------------------------------------------------------------------
(* The inductive invariant.                                                *)

\* The half inside a critical section is the one that holds the BiLock, and
\* only a Receiver reads.
LockInv == \A e \in Ends :
  /\ \A h \in Halves : pc[e][h] \in Holding <=> writer[e] = h
  /\ pc[e]["Sender"] \notin Reading

\* In the first n tokens of w each header is followed by its own payload, and
\* each payload preceded by its own header.  The last header may dangle.
Aligned(w, n) == \A i \in 1..n :
  /\ w[i].part = "payload" => i > 1 /\ w[i-1] = [part |-> "header", frame |-> w[i].frame]
  /\ w[i].part = "header" /\ i < n => w[i+1] = [part |-> "payload", frame |-> w[i].frame]

\* The last token of w is a header.
Dangling(w) == Len(w) > 0 /\ w[Len(w)].part = "header"

\* What has left the write buffer is aligned, and so is what it holds as long
\* as it can still leave.  A header dangles there exactly while its writer is
\* between its two write_alls.
WireInv == \A e \in Ends :
  /\ Aligned(wire[e], drained[e])
  /\ ~Dead(e) =>
       /\ Aligned(wire[e], Len(wire[e]))
       /\ Dangling(wire[e]) => \E h \in Halves : pc[e][h] = "payload"
       /\ \A h \in Halves : pc[e][h] = "payload" =>
             Dangling(wire[e]) /\ wire[e][Len(wire[e])].frame = job[e][h]

\* A Receiver inside a frame has just read that frame's header.  Otherwise it
\* has just read a payload, or nothing, or the stream has ended.
ReadInv == \A e \in Ends : LET w == wire[Peer(e)]
                               r == rd[Peer(e)] IN
  /\ pc[e]["Receiver"] = "body" =>
       r > 0 /\ w[r] = [part |-> "header", frame |-> job[e]["Receiver"]]
  /\ pc[e]["Receiver"] # "body" =>
       \/ r = 0
       \/ w[r].part = "payload"
       \/ (shut[Peer(e)] \/ gone[Peer(e)]) /\ r = drained[Peer(e)]

Inv == TypeOK /\ AnswersSomething /\ LockInv /\ WireInv /\ ReadInv

\* Hence every step does.
LEMMA TypeNext == TypeOK /\ AnswersSomething /\ [Next]_vars => TypeOK'
<1> SUFFICES ASSUME TypeOK, AnswersSomething, [Next]_vars PROVE TypeOK'
  OBVIOUS
<1>1. CASE UNCHANGED vars
  BY <1>1 DEF vars, TypeOK, TransportOK, HalvesOK, CallsOK
<1>2. CASE Next
  BY <1>2, TypeStep, TypeReceive, TypeOther DEF Next
<1>3. QED
  BY <1>1, <1>2

\* The invariant holds of a new connection.
LEMMA InvInit == Init => Inv
<1> SUFFICES ASSUME Init PROVE Inv
  OBVIOUS
<1>1. AnswersSomething /\ LockInv
  BY DEF Init, AnswersSomething, LockInv, Waiting, Holding, Reading, Halves
<1>2. WireInv /\ ReadInv
  BY PeerFacts DEF Init, WireInv, ReadInv, Aligned, Dangling, Halves
<1>3. QED
  BY <1>1, <1>2, TypeInit DEF Inv

\* What each step does to the lock and to the position of one half; the other
\* half of the end and the other end stay where they are.
LEMMA LockNext == Inv /\ [Next]_vars => LockInv'
<1> SUFFICES ASSUME Inv, [Next]_vars PROVE LockInv'
  OBVIOUS
<1> USE DEF LockInv, Waiting, Holding, Reading
<1>t. /\ pc \in [Ends -> [Halves -> PCs]]
      /\ writer \in [Ends -> Halves \cup {"free"}]
      /\ LockInv
  BY DEF Inv, TypeOK, HalvesOK
<1>h. Halves = {"Sender", "Receiver"}
  BY DEF Halves
<1>1. CASE UNCHANGED vars
  BY <1>1, <1>t DEF vars
<1>2. ASSUME NEW e \in Ends, NEW h \in Halves, Step(e, h) PROVE LockInv'
  <2>1. CASE Lock(e, h)
    BY <2>1, <1>t, <1>h DEF Lock, Goto
  <2>2. CASE WriteHeader(e, h)
    BY <2>2, <1>t, <1>h DEF WriteHeader, Goto, At
  <2>3. CASE WritePayload(e, h)
    BY <2>3, <1>t, <1>h DEF WritePayload, AfterWrite, Unlock, Goto, Return, At
  <2>4. CASE WriteFails(e, h)
    BY <2>4, <1>t, <1>h DEF WriteFails, Unlock, Goto, Return, At
  <2>5. CASE FlushOk(e, h)
    BY <2>5, <1>t, <1>h DEF FlushOk, Unlock, Goto, Return, At
  <2>6. CASE FlushFails(e, h)
    BY <2>6, <1>t, <1>h DEF FlushFails, Unlock, Return, At
  <2>7. CASE CloseOk(e, h)
    BY <2>7, <1>t, <1>h DEF CloseOk, Unlock, Return, At
  <2>8. CASE CloseFails(e, h)
    BY <2>8, <1>t, <1>h DEF CloseFails, Unlock, Return, At
  <2>9. QED
    BY <1>2, <2>1, <2>2, <2>3, <2>4, <2>5, <2>6, <2>7, <2>8 DEF Step
<1>3. ASSUME NEW e \in Ends, SenderCall(e) \/ ReceiveCall(e) \/ Read(e) PROVE LockInv'
  <2>1. CASE SenderCall(e)
    BY <2>1, <1>t, <1>h DEF SenderCall, FirstStep, Goto, At
  <2>2. CASE ReceiveCall(e)
    BY <2>2, <1>t, <1>h DEF ReceiveCall, Return, At
  <2>3. CASE Read(e)
    BY <2>3, <1>t, <1>h DEF Read, ReadHeader, ReadPayload, ReadEof, Goto, Return, At
  <2>4. QED
    BY <1>3, <2>1, <2>2, <2>3
<1>4. ASSUME NEW e \in Ends, Drain(e) \/ Crash(e) \/ Drop(e) PROVE LockInv'
  BY <1>4, <1>t DEF Drain, Crash, Drop
<1>5. QED
  BY <1>1, <1>2, <1>3, <1>4 DEF Next

\* No step makes a Receiver answer before it has read anything.
LEMMA AnswersNext == Inv /\ [Next]_vars => AnswersSomething'
<1> SUFFICES ASSUME Inv, [Next]_vars PROVE AnswersSomething'
  OBVIOUS
<1> USE DEF AnswersSomething, Waiting, Holding
<1>t. /\ pc \in [Ends -> [Halves -> PCs]]
      /\ rd \in [Ends -> Nat]
      /\ AnswersSomething
      /\ \A e \in Ends : pc[e]["Sender"] \notin Reading
  BY DEF Inv, TypeOK, HalvesOK, TransportOK, LockInv
<1>h. Halves = {"Sender", "Receiver"}
  BY DEF Halves
<1>1. CASE UNCHANGED vars
  BY <1>1, <1>t DEF vars
<1>2. ASSUME NEW e \in Ends, NEW h \in Halves, Step(e, h) PROVE AnswersSomething'
  <2>1. rd' = rd
    BY <1>2 DEF Step, Lock, WriteHeader, WritePayload, WriteFails, FlushOk, FlushFails, CloseOk, CloseFails, transport
  <2>2. /\ pc[e][h] \in Waiting \cup Holding
        /\ \E label : pc' = [pc EXCEPT ![e][h] = label]
    BY <1>2 DEF Step, Lock, WriteHeader, WritePayload, WriteFails, FlushOk, FlushFails, CloseOk, CloseFails,
                AfterWrite, Goto, Return, At
  <2>3. QED
    BY <2>1, <2>2, <1>t, <1>h
<1>3. ASSUME NEW e \in Ends, SenderCall(e) \/ ReceiveCall(e) \/ ReadHeader(e) \/ ReadEof(e) PROVE AnswersSomething'
  <2>1. CASE SenderCall(e)
    BY <2>1, <1>t, <1>h DEF SenderCall, Goto, transport
  <2>2. CASE ReceiveCall(e)
    BY <2>2, <1>t, <1>h DEF ReceiveCall, Return, transport
  <2>3. CASE ReadHeader(e)
    BY <2>3, <1>t, <1>h, PeerFacts DEF ReadHeader, Take, Goto
  <2>4. CASE ReadEof(e)
    BY <2>4, <1>t, <1>h DEF ReadEof, Return, transport
  <2>5. QED
    BY <1>3, <2>1, <2>2, <2>3, <2>4
<1>4. ASSUME NEW e \in Ends, ReadPayload(e) PROVE AnswersSomething'
  <2>1. rd' = [rd EXCEPT ![Peer(e)] = @ + 1] /\ \E label : pc' = [pc EXCEPT ![e]["Receiver"] = label]
    BY <1>4 DEF ReadPayload, Take, Goto, Return
  <2>2. QED
    BY <2>1, <1>t, <1>h, PeerFacts
<1>5. ASSUME NEW e \in Ends, Drain(e) \/ Crash(e) \/ Drop(e) PROVE AnswersSomething'
  BY <1>5, <1>t DEF Drain, Crash, Drop
<1>6. QED
  BY <1>1, <1>2, <1>3, <1>4, <1>5 DEF Next, Read

-----------------------------------------------------------------------------
(* Frames stay whole on the wire.                                          *)

\* A step that writes nothing and moves no half into or out of the middle of a
\* frame, except where the connection is dead.
LEMMA WireKept ==
  ASSUME Inv, UNCHANGED <<wire, drained>>,
         \A x \in Ends : Dead(x) => Dead(x)',
         \A x \in Ends, h \in Halves : ~Dead(x)' =>
           /\ pc'[x][h] = "payload" <=> pc[x][h] = "payload"
           /\ pc[x][h] = "payload" => job'[x][h] = job[x][h]
  PROVE  WireInv'
<1> SUFFICES ASSUME NEW x \in Ends
             PROVE  /\ Aligned(wire[x], drained[x])
                    /\ ~Dead(x)' =>
                         /\ Aligned(wire[x], Len(wire[x]))
                         /\ Dangling(wire[x]) => \E h \in Halves : pc'[x][h] = "payload"
                         /\ \A h \in Halves : pc'[x][h] = "payload" =>
                               Dangling(wire[x]) /\ wire[x][Len(wire[x])].frame = job'[x][h]
  BY ZenonT(30) DEF WireInv, Aligned, Dangling
<1>1. QED
  BY DEF Inv, WireInv

\* A shorter prefix of an aligned wire is aligned.
LEMMA AlignedPrefix ==
  ASSUME NEW w, NEW n \in Nat, NEW m \in Nat, m <= n, Aligned(w, n)
  PROVE  Aligned(w, m)
BY DEF Aligned

\* Tokens appended behind the first n do not disturb their alignment.
LEMMA AlignedAppend ==
  ASSUME NEW w \in Seq(Tokens), NEW t \in Tokens, NEW n \in Nat, n <= Len(w), Aligned(w, n)
  PROVE  Aligned(Append(w, t), n)
BY DEF Aligned

\* A header may follow a complete frame.
LEMMA AlignedHeader ==
  ASSUME NEW w \in Seq(Tokens), NEW f \in Frames, Aligned(w, Len(w)), ~Dangling(w)
  PROVE  Aligned(Append(w, [part |-> "header", frame |-> f]), Len(w) + 1)
<1> DEFINE t == [part |-> "header", frame |-> f]
<1>1. t \in Tokens
  BY DEF Tokens
<1>2. \A i \in 1..Len(w) : w[i] \in Tokens
  OBVIOUS
<1>3. QED
  BY <1>1, <1>2 DEF Aligned, Dangling, Tokens

\* A payload may follow its header.
LEMMA AlignedPayload ==
  ASSUME NEW w \in Seq(Tokens), NEW f \in Frames, Aligned(w, Len(w)), Dangling(w), w[Len(w)].frame = f
  PROVE  Aligned(Append(w, [part |-> "payload", frame |-> f]), Len(w) + 1)
<1> DEFINE t == [part |-> "payload", frame |-> f]
<1>1. t \in Tokens
  BY DEF Tokens
<1>2. \A i \in 1..Len(w) : w[i] \in Tokens
  OBVIOUS
<1>3. Len(w) > 0 /\ w[Len(w)] = [part |-> "header", frame |-> f]
  BY <1>2 DEF Dangling, Tokens
<1>4. QED
  BY <1>1, <1>2, <1>3 DEF Aligned, Tokens

\* Every step keeps each wire a sequence of whole frames, but for the payload that the
\* holder of the lock still has to write.
LEMMA WireNext == Inv /\ [Next]_vars => WireInv'
<1> SUFFICES ASSUME Inv, [Next]_vars PROVE WireInv'
  OBVIOUS
<1>t. /\ pc \in [Ends -> [Halves -> PCs]]
      /\ job \in [Ends -> [Halves -> Frames]]
      /\ wire \in [Ends -> Seq(Tokens)]
      /\ drained \in [Ends -> Nat]
      /\ shut \in [Ends -> BOOLEAN]
      /\ gone \in [Ends -> BOOLEAN]
      /\ \A e \in Ends : drained[e] <= Len(wire[e])
      /\ LockInv /\ WireInv
  BY DEF Inv, TypeOK, HalvesOK, TransportOK
<1>h. Halves = {"Sender", "Receiver"}
  BY DEF Halves
<1>1. CASE UNCHANGED vars
  BY <1>1, WireKept DEF vars, Dead
<1>2. ASSUME NEW e \in Ends, NEW h \in Halves,
             Lock(e, h) \/ FlushOk(e, h) \/ FlushFails(e, h) \/ CloseOk(e, h) \/ CloseFails(e, h)
      PROVE  WireInv'
  <2>1. UNCHANGED <<wire, drained, gone, job>> /\ \A x \in Ends : shut[x] => shut'[x]
    BY <1>2, <1>t DEF Lock, FlushOk, FlushFails, CloseOk, CloseFails, transport
  <2>2. /\ pc[e][h] # "payload"
        /\ \E label : label # "payload" /\ pc' = [pc EXCEPT ![e][h] = label]
    BY <1>2 DEF Lock, FlushOk, FlushFails, CloseOk, CloseFails, Goto, Return, At
  <2>3. \A x \in Ends, g \in Halves : pc'[x][g] = "payload" <=> pc[x][g] = "payload"
    BY <2>2, <1>t
  <2>4. \A x \in Ends : Dead(x) => Dead(x)'
    BY <2>1 DEF Dead
  <2>5. QED
    BY <2>1, <2>3, <2>4, WireKept
<1>3. ASSUME NEW e \in Ends, NEW h \in Halves, WriteFails(e, h) PROVE WireInv'
  <2>1. UNCHANGED <<wire, drained, shut, gone, job>> /\ Dead(e)
    BY <1>3 DEF WriteFails, transport
  <2>2. \E label : pc' = [pc EXCEPT ![e][h] = label]
    BY <1>3 DEF WriteFails, Goto, Return
  <2>3. \A x \in Ends : Dead(x) <=> Dead(x)'
    BY <2>1 DEF Dead
  <2>4. \A x \in Ends, g \in Halves : x # e => pc'[x][g] = pc[x][g]
    BY <2>2, <1>t
  <2>5. QED
    BY <2>1, <2>3, <2>4, WireKept
<1>4. ASSUME NEW e \in Ends, SenderCall(e) \/ ReceiveCall(e) \/ Read(e) PROVE WireInv'
  <2>1. PICK h \in Halves :
          /\ pc[e][h] # "payload"
          /\ \E label : label # "payload" /\ pc' = [pc EXCEPT ![e][h] = label]
          /\ job' = job \/ \E f : job' = [job EXCEPT ![e][h] = f]
    <3>1. CASE SenderCall(e)
      BY <3>1, <1>h DEF SenderCall, FirstStep, Goto, At
    <3>2. CASE ReceiveCall(e)
      BY <3>2, <1>h DEF ReceiveCall, Return, At
    <3>3. CASE Read(e)
      BY <3>3, <1>h DEF Read, ReadHeader, ReadPayload, ReadEof, Goto, Return, At
    <3>4. QED
      BY <1>4, <3>1, <3>2, <3>3
  <2>2. UNCHANGED <<wire, drained, shut, gone>>
    BY <1>4 DEF SenderCall, ReceiveCall, Read, ReadHeader, ReadPayload, ReadEof, transport
  <2>3. \A x \in Ends, g \in Halves :
          /\ pc'[x][g] = "payload" <=> pc[x][g] = "payload"
          /\ pc[x][g] = "payload" => job'[x][g] = job[x][g]
    BY <2>1, <1>t
  <2>4. \A x \in Ends : Dead(x) => Dead(x)'
    BY <2>2 DEF Dead
  <2>5. QED
    BY <2>2, <2>3, <2>4, WireKept
<1>5. ASSUME NEW e \in Ends, Crash(e) \/ Drop(e) PROVE WireInv'
  <2>1. UNCHANGED <<wire, drained, shut, pc, job>> /\ \A x \in Ends : gone[x] => gone'[x]
    BY <1>5, <1>t DEF Crash, Drop
  <2>2. \A x \in Ends : Dead(x) => Dead(x)'
    BY <2>1, PeerFacts DEF Dead
  <2>3. QED
    BY <2>1, <2>2, WireKept
<1>6. ASSUME NEW e \in Ends, Drain(e) PROVE WireInv'
  <2>1. /\ UNCHANGED <<wire, shut, gone, pc, job>>
        /\ drained' = [drained EXCEPT ![e] = @ + 1]
        /\ ~Dead(e) /\ drained[e] < Len(wire[e])
    BY <1>6, <1>t DEF Drain, Unsent
  <2>2. Aligned(wire[e], drained[e] + 1)
    BY <2>1, <1>t, AlignedPrefix DEF WireInv
  <2>3. \A x \in Ends : Aligned(wire[x], drained'[x])
    BY <2>1, <2>2, <1>t DEF WireInv
  <2>4. \A x \in Ends : Dead(x) <=> Dead(x)'
    BY <2>1 DEF Dead
  <2>5. WireInv => WireInv'
    BY <2>1, <2>3, <2>4 DEF WireInv, Dangling, Aligned
  <2>6. QED
    BY <2>5, <1>t
<1>7. ASSUME NEW e \in Ends, NEW h \in Halves, NEW t \in Tokens, Put(e, t),
             UNCHANGED <<drained, shut, gone, job>>,
             \E label : pc' = [pc EXCEPT ![e][h] = label],
             ~Dead(e) =>
               /\ Aligned(Append(wire[e], t), Len(wire[e]) + 1)
               /\ t.part = "header" <=> pc'[e][h] = "payload"
               /\ pc'[e][h] = "payload" => t.frame = job[e][h]
               /\ \A g \in Halves : g # h => pc[e][g] # "payload"
      PROVE  WireInv'
  <2>1. /\ wire'[e] = Append(wire[e], t)
        /\ Len(wire'[e]) = Len(wire[e]) + 1
        /\ wire'[e][Len(wire[e]) + 1] = t
        /\ \A x \in Ends : x # e => wire'[x] = wire[x]
    BY <1>7, <1>t DEF Put
  <2>2. \A x \in Ends, g \in Halves : x # e \/ g # h => pc'[x][g] = pc[x][g]
    BY <1>7, <1>t
  <2>3. \A x \in Ends : Dead(x) <=> Dead(x)'
    BY <1>7 DEF Dead
  <2>4. SUFFICES ASSUME NEW x \in Ends
                 PROVE  /\ Aligned(wire'[x], drained[x])
                        /\ ~Dead(x) =>
                             /\ Aligned(wire'[x], Len(wire'[x]))
                             /\ Dangling(wire'[x]) => \E g \in Halves : pc'[x][g] = "payload"
                             /\ \A g \in Halves : pc'[x][g] = "payload" =>
                                   Dangling(wire'[x]) /\ wire'[x][Len(wire'[x])].frame = job[x][g]
    BY <1>7, <2>3 DEF WireInv, Aligned, Dangling
  <2>5. CASE x # e
    <3>1. wire'[x] = wire[x] /\ \A g \in Halves : pc'[x][g] = pc[x][g]
      BY <2>5, <2>1, <2>2
    <3>2. /\ Aligned(wire[x], drained[x])
          /\ ~Dead(x) =>
               /\ Aligned(wire[x], Len(wire[x]))
               /\ Dangling(wire[x]) => \E g \in Halves : pc[x][g] = "payload"
               /\ \A g \in Halves : pc[x][g] = "payload" =>
                     Dangling(wire[x]) /\ wire[x][Len(wire[x])].frame = job[x][g]
      BY <1>t DEF WireInv
    <3>3. QED
      BY <3>1, <3>2
  <2>6. CASE x = e
    <3>1. Aligned(wire'[e], drained[e])
      BY <2>1, <1>7, <1>t, AlignedAppend DEF WireInv
    <3>2. ASSUME ~Dead(e)
          PROVE  /\ Aligned(wire'[e], Len(wire'[e]))
                 /\ Dangling(wire'[e]) => pc'[e][h] = "payload"
                 /\ \A g \in Halves : pc'[e][g] = "payload" =>
                       Dangling(wire'[e]) /\ wire'[e][Len(wire'[e])].frame = job[e][g]
      <4>1. Dangling(wire'[e]) <=> t.part = "header"
        BY <2>1, <1>t DEF Dangling
      <4>2. \A g \in Halves : pc'[e][g] = "payload" => g = h
        BY <3>2, <1>7, <2>2
      <4>3. QED
        BY <4>1, <4>2, <3>2, <2>1, <1>7
    <3>3. QED
      BY <2>6, <3>1, <3>2
  <2>7. QED
    BY <2>5, <2>6
<1>8. ASSUME NEW e \in Ends, NEW h \in Halves, WriteHeader(e, h) PROVE WireInv'
  <2> DEFINE t == [part |-> "header", frame |-> job[e][h]]
  <2>1. t \in Tokens /\ job[e][h] \in Frames
    BY <1>t DEF Tokens
  <2>2. /\ Put(e, t)
        /\ UNCHANGED <<drained, shut, gone, job>>
        /\ pc' = [pc EXCEPT ![e][h] = "payload"]
        /\ pc[e][h] = "header"
    BY <1>8 DEF WriteHeader, Goto, At
  <2>3. \A g \in Halves : pc[e][g] # "payload"
    <3>1. \A g \in Halves : pc[e][g] \in Holding <=> writer[e] = g
      BY <1>t DEF LockInv
    <3>2. writer[e] = h
      BY <2>2, <3>1 DEF Holding
    <3>3. QED
      BY <2>2, <3>1, <3>2 DEF Holding
  <2>4. ~Dead(e) => Aligned(wire[e], Len(wire[e])) /\ ~Dangling(wire[e])
    BY <2>3, <1>t DEF WireInv
  <2>5. ~Dead(e) => Aligned(Append(wire[e], t), Len(wire[e]) + 1)
    BY <2>1, <2>4, <1>t, AlignedHeader
  <2>6. t.part = "header" /\ t.frame = job[e][h] /\ pc'[e][h] = "payload"
    BY <2>2, <1>t
  <2> HIDE DEF t
  <2>7. QED
    BY <1>7, <2>1, <2>2, <2>3, <2>5, <2>6
<1>9. ASSUME NEW e \in Ends, NEW h \in Halves, WritePayload(e, h) PROVE WireInv'
  <2> DEFINE t == [part |-> "payload", frame |-> job[e][h]]
  <2>1. t \in Tokens /\ job[e][h] \in Frames
    BY <1>t DEF Tokens
  <2>2. /\ Put(e, t)
        /\ UNCHANGED <<drained, shut, gone, job>>
        /\ \E label : label # "payload" /\ pc' = [pc EXCEPT ![e][h] = label]
        /\ pc[e][h] = "payload"
    BY <1>9 DEF WritePayload, AfterWrite, Goto, Return, At
  <2>3. \A g \in Halves : g # h => pc[e][g] # "payload"
    BY <2>2, <1>t DEF LockInv, Holding
  <2>4. ~Dead(e) => Aligned(wire[e], Len(wire[e])) /\ Dangling(wire[e]) /\ wire[e][Len(wire[e])].frame = job[e][h]
    BY <2>2, <1>t DEF WireInv
  <2>5. ~Dead(e) => Aligned(Append(wire[e], t), Len(wire[e]) + 1)
    BY <2>1, <2>4, <1>t, AlignedPayload
  <2>6. t.part # "header" /\ pc'[e][h] # "payload"
    BY <2>2, <1>t
  <2> HIDE DEF t
  <2>7. QED
    BY <1>7, <2>1, <2>2, <2>3, <2>5, <2>6
<1>10. QED
  BY <1>1, <1>2, <1>3, <1>4, <1>5, <1>6, <1>8, <1>9 DEF Next, Step

-----------------------------------------------------------------------------
(* The Receiver stays in step with the frames.                             *)

\* A step by which no Receiver reads.
LEMMA ReadKept ==
  ASSUME Inv, UNCHANGED rd,
         \A x \in Ends : /\ \A i \in 1..drained[x] : wire'[x][i] = wire[x][i]
                         /\ shut[x] => shut'[x]
                         /\ gone[x] => gone'[x]
                         /\ shut[x] \/ gone[x] => drained'[x] = drained[x]
                         /\ pc'[x]["Receiver"] = "body" <=> pc[x]["Receiver"] = "body"
                         /\ pc[x]["Receiver"] = "body" => job'[x]["Receiver"] = job[x]["Receiver"]
  PROVE  ReadInv'
<1> SUFFICES ASSUME NEW x \in Ends
    PROVE  LET w == wire'[Peer(x)]
               r == rd[Peer(x)] IN
           /\ pc'[x]["Receiver"] = "body" =>
                r > 0 /\ w[r] = [part |-> "header", frame |-> job'[x]["Receiver"]]
           /\ pc'[x]["Receiver"] # "body" =>
                \/ r = 0
                \/ w[r].part = "payload"
                \/ (shut'[Peer(x)] \/ gone'[Peer(x)]) /\ r = drained'[Peer(x)]
  BY DEF ReadInv
<1>1. Peer(x) \in Ends /\ rd[Peer(x)] \in Nat /\ drained[Peer(x)] \in Nat /\ rd[Peer(x)] <= drained[Peer(x)]
  BY PeerFacts DEF Inv, TypeOK, TransportOK
<1>2. rd[Peer(x)] > 0 => wire'[Peer(x)][rd[Peer(x)]] = wire[Peer(x)][rd[Peer(x)]]
  <2>1. rd[Peer(x)] > 0 => rd[Peer(x)] \in 1..drained[Peer(x)]
    BY <1>1
  <2>2. \A i \in 1..drained[Peer(x)] : wire'[Peer(x)][i] = wire[Peer(x)][i]
    BY <1>1
  <2>3. QED
    BY <2>1, <2>2
<1>3. /\ pc[x]["Receiver"] = "body" =>
           /\ rd[Peer(x)] > 0
           /\ wire[Peer(x)][rd[Peer(x)]] = [part |-> "header", frame |-> job[x]["Receiver"]]
      /\ pc[x]["Receiver"] # "body" =>
           \/ rd[Peer(x)] = 0
           \/ wire[Peer(x)][rd[Peer(x)]].part = "payload"
           \/ (shut[Peer(x)] \/ gone[Peer(x)]) /\ rd[Peer(x)] = drained[Peer(x)]
  BY DEF Inv, ReadInv
<1>4. rd[Peer(x)] > 0 \/ rd[Peer(x)] = 0
  BY <1>1
<1>5. /\ shut[Peer(x)] => shut'[Peer(x)]
      /\ gone[Peer(x)] => gone'[Peer(x)]
      /\ shut[Peer(x)] \/ gone[Peer(x)] => drained'[Peer(x)] = drained[Peer(x)]
  BY <1>1
<1>6. QED
  BY <1>2, <1>3, <1>4, <1>5

\* Every step keeps each Receiver at the place of the wire that its label says.
LEMMA ReadNext == Inv /\ [Next]_vars => ReadInv'
<1> SUFFICES ASSUME Inv, [Next]_vars PROVE ReadInv'
  OBVIOUS
<1>t. /\ pc \in [Ends -> [Halves -> PCs]]
      /\ job \in [Ends -> [Halves -> Frames]]
      /\ wire \in [Ends -> Seq(Tokens)]
      /\ drained \in [Ends -> Nat]
      /\ rd \in [Ends -> Nat]
      /\ shut \in [Ends -> BOOLEAN]
      /\ gone \in [Ends -> BOOLEAN]
      /\ \A e \in Ends : rd[e] <= drained[e] /\ drained[e] <= Len(wire[e])
      /\ LockInv /\ ReadInv
  BY DEF Inv, TypeOK, HalvesOK, TransportOK
<1>h. Halves = {"Sender", "Receiver"}
  BY DEF Halves
<1>1. CASE UNCHANGED vars
  BY <1>1, ReadKept DEF vars
<1>2. ASSUME NEW e \in Ends, NEW h \in Halves, Step(e, h) PROVE ReadInv'
  <2>1. UNCHANGED <<rd, gone, drained, job>> /\ \A x \in Ends : shut[x] => shut'[x]
    BY <1>2, <1>t DEF Step, Lock, WriteHeader, WritePayload, WriteFails, FlushOk, FlushFails, CloseOk, CloseFails, transport
  <2>2. \A x \in Ends : \A i \in 1..drained[x] : wire'[x][i] = wire[x][i]
    <3>1. \/ wire' = wire
          \/ \E part : wire' = [wire EXCEPT ![e] = Append(@, [part |-> part, frame |-> job[e][h]])]
      BY <1>2 DEF Step, Lock, WriteHeader, WritePayload, WriteFails, FlushOk, FlushFails, CloseOk, CloseFails, Put, transport
    <3>2. ASSUME NEW t, wire' = [wire EXCEPT ![e] = Append(@, t)]
          PROVE  \A i \in 1..drained[e] : wire'[e][i] = wire[e][i]
      <4>1. wire'[e] = Append(wire[e], t) /\ wire[e] \in Seq(Tokens)
        BY <3>2, <1>t
      <4>2. \A i \in 1..Len(wire[e]) : Append(wire[e], t)[i] = wire[e][i]
        BY <4>1
      <4>3. QED
        BY <4>1, <4>2, <1>t
    <3>3. \A x \in Ends : x # e => wire'[x] = wire[x]
      BY <3>1, <1>t
    <3>4. QED
      BY <3>1, <3>2, <3>3
  <2>3. /\ pc[e][h] \notin Reading
        /\ \E label : label # "body" /\ pc' = [pc EXCEPT ![e][h] = label]
    BY <1>2 DEF Step, Lock, WriteHeader, WritePayload, WriteFails, FlushOk, FlushFails, CloseOk, CloseFails,
                AfterWrite, Goto, Return, At, Reading
  <2>4. \A x \in Ends : pc'[x]["Receiver"] = "body" <=> pc[x]["Receiver"] = "body"
    BY <2>3, <1>t, <1>h DEF Reading
  <2>5. QED
    BY <2>1, <2>2, <2>4, ReadKept
<1>3. ASSUME NEW e \in Ends, SenderCall(e) \/ ReceiveCall(e) PROVE ReadInv'
  <2>1. UNCHANGED <<wire, rd, drained, shut, gone>>
    BY <1>3 DEF SenderCall, ReceiveCall, transport
  <2>2. /\ \A x \in Ends : pc'[x]["Receiver"] = "body" <=> pc[x]["Receiver"] = "body"
        /\ \A x \in Ends : job'[x]["Receiver"] = job[x]["Receiver"]
    <3>1. CASE SenderCall(e)
      BY <3>1, <1>t, <1>h DEF SenderCall, Goto
    <3>2. CASE ReceiveCall(e)
      BY <3>2, <1>t, <1>h, ZenonT(30) DEF ReceiveCall, Return, At
    <3>3. QED
      BY <1>3, <3>1, <3>2
  <2>3. QED
    BY <2>1, <2>2, ReadKept
<1>4. ASSUME NEW e \in Ends, Drain(e) \/ Crash(e) \/ Drop(e) PROVE ReadInv'
  <2>1. /\ UNCHANGED <<wire, rd, shut, pc, job>>
        /\ \A x \in Ends : gone[x] => gone'[x]
        /\ \A x \in Ends : shut[x] \/ gone[x] => drained'[x] = drained[x]
    BY <1>4, <1>t DEF Drain, Crash, Drop, Dead
  <2>2. QED
    BY <2>1, ReadKept
<1>5. ASSUME NEW e \in Ends, Read(e) PROVE ReadInv'
  <2>1. /\ UNCHANGED <<wire, drained, shut, gone>>
        /\ \A x \in Ends : x # e => /\ rd'[Peer(x)] = rd[Peer(x)]
                                    /\ pc'[x]["Receiver"] = pc[x]["Receiver"]
                                    /\ job'[x]["Receiver"] = job[x]["Receiver"]
    <3>1. CASE ReadHeader(e)
      BY <3>1, <1>t, <1>h, PeerFacts DEF ReadHeader, Take, Goto, Peer, Ends
    <3>2. CASE ReadPayload(e)
      BY <3>2, <1>t, <1>h, PeerFacts DEF ReadPayload, Take, Goto, Return, Peer, Ends
    <3>3. CASE ReadEof(e)
      BY <3>3, <1>t, <1>h DEF ReadEof, Return, transport
    <3>4. QED
      BY <1>5, <3>1, <3>2, <3>3 DEF Read
  <2>2. Peer(e) \in Ends
    BY PeerFacts
  <2>3. LET w == wire[Peer(e)]
            r == rd'[Peer(e)] IN
        /\ pc'[e]["Receiver"] = "body" =>
             r > 0 /\ w[r] = [part |-> "header", frame |-> job'[e]["Receiver"]]
        /\ pc'[e]["Receiver"] # "body" =>
             \/ r = 0
             \/ w[r].part = "payload"
             \/ (shut[Peer(e)] \/ gone[Peer(e)]) /\ r = drained[Peer(e)]
    <3>1. CASE ReadHeader(e)
      <4>1. /\ NextToken(e).part = "header" /\ rd[Peer(e)] < drained[Peer(e)]
            /\ rd' = [rd EXCEPT ![Peer(e)] = @ + 1]
            /\ job' = [job EXCEPT ![e]["Receiver"] = NextToken(e).frame]
            /\ pc' = [pc EXCEPT ![e]["Receiver"] = "body"]
        BY <3>1 DEF ReadHeader, Take, Goto
      <4>2. NextToken(e) \in Tokens /\ NextToken(e) = wire[Peer(e)][rd'[Peer(e)]]
        BY <4>1, <2>2, <1>t DEF NextToken
      <4>3. NextToken(e) = [part |-> "header", frame |-> job'[e]["Receiver"]]
        BY <4>1, <4>2, <1>t, <1>h DEF Tokens
      <4>4. pc'[e]["Receiver"] = "body" /\ rd'[Peer(e)] > 0
        BY <4>1, <2>2, <1>t, <1>h
      <4>5. QED
        BY <4>2, <4>3, <4>4
    <3>2. CASE ReadPayload(e)
      <4>1. /\ NextToken(e).part = "payload"
            /\ rd' = [rd EXCEPT ![Peer(e)] = @ + 1]
            /\ \E label : label # "body" /\ pc' = [pc EXCEPT ![e]["Receiver"] = label]
        <5>1. NextToken(e) = [part |-> "payload", frame |-> job[e]["Receiver"]]
          BY <3>2 DEF ReadPayload
        <5>2. \E label : label # "body" /\ pc' = [pc EXCEPT ![e]["Receiver"] = label]
          BY <3>2 DEF ReadPayload, Goto, Return
        <5>3. rd' = [rd EXCEPT ![Peer(e)] = @ + 1]
          BY <3>2 DEF ReadPayload, Take
        <5>4. NextToken(e).part = "payload"
          BY <5>1
        <5>5. QED
          BY <5>2, <5>3, <5>4
      <4>2. QED
        BY <4>1, <2>2, <1>t, <1>h DEF NextToken
    <3>3. CASE ReadEof(e)
      <4>1. /\ shut[Peer(e)] \/ gone[Peer(e)]
            /\ rd'[Peer(e)] = drained[Peer(e)]
            /\ pc'[e]["Receiver"] = "idle"
        BY <3>3, <2>2, <1>t, <1>h DEF ReadEof, InFlight, Return, transport
      <4>2. QED
        BY <4>1
    <3>4. QED
      BY <1>5, <3>1, <3>2, <3>3 DEF Read
  <2>4. QED
    BY <2>1, <2>2, <2>3, <1>t, PeerFacts, ZenonT(30) DEF ReadInv
<1>6. QED
  BY <1>1, <1>2, <1>3, <1>4, <1>5 DEF Next

-----------------------------------------------------------------------------
(* Theorems.                                                               *)

\* The parts together are inductive.
LEMMA InvNext == Inv /\ [Next]_vars => Inv'
BY TypeNext, AnswersNext, LockNext, WireNext, ReadNext DEF Inv

\* The invariant holds in every reachable state.
LEMMA Invariance == Spec => []Inv
BY InvInit, InvNext, PTL DEF Spec

\* Every variable keeps its type, and the cursors into the wire stay in order:
\* the network never holds more than the writer was given, and a Receiver never
\* reads more than the network holds.
THEOREM TypeCorrect == Spec => []TypeOK
<1>1. Inv => TypeOK
  BY DEF Inv
<1>2. QED
  BY <1>1, Invariance, PTL

\* A Receiver that is where it should be, on a wire of whole frames, is in step.
LEMMA InvFrameSync == Inv => FrameSync
<1> SUFFICES ASSUME Inv, NEW e \in Ends, rd[Peer(e)] < drained[Peer(e)]
             PROVE  /\ pc[e]["Receiver"] = "recv" => NextToken(e).part = "header"
                    /\ pc[e]["Receiver"] = "body" =>
                         NextToken(e) = [part |-> "payload", frame |-> job[e]["Receiver"]]
  BY DEF FrameSync
<1> DEFINE w == wire[Peer(e)]
           r == rd[Peer(e)]
           n == drained[Peer(e)]
<1>1. Peer(e) \in Ends /\ w \in Seq(Tokens) /\ r \in Nat /\ n \in Nat /\ r < n /\ n <= Len(w)
  BY PeerFacts DEF Inv, TypeOK, TransportOK
<1>2. NextToken(e) = w[r + 1] /\ w[r + 1] \in Tokens
  BY <1>1 DEF NextToken
<1>3. Aligned(w, n)
  BY <1>1 DEF Inv, WireInv
<1>4. CASE pc[e]["Receiver"] = "recv"
  <2>1. r = 0 \/ w[r].part = "payload"
    <3>1. \/ r = 0
          \/ w[r].part = "payload"
          \/ (shut[Peer(e)] \/ gone[Peer(e)]) /\ r = n
      BY <1>4 DEF Inv, ReadInv
    <3>2. QED
      BY <3>1, <1>1
  <2>2. w[r + 1].part # "payload"
    <3>1. SUFFICES ASSUME w[r + 1].part = "payload" PROVE FALSE
      OBVIOUS
    <3>2. r + 1 \in 1..n
      BY <1>1
    <3>3. r + 1 > 1 /\ w[(r + 1) - 1] = [part |-> "header", frame |-> w[r + 1].frame]
      BY <1>3, <3>1, <3>2 DEF Aligned
    <3>4. (r + 1) - 1 = r /\ r # 0
      BY <1>1, <3>3
    <3>5. QED
      BY <2>1, <3>3, <3>4
  <2>3. QED
    BY <1>2, <1>4, <2>2 DEF Tokens
<1>5. CASE pc[e]["Receiver"] = "body"
  <2>1. r > 0 /\ w[r] = [part |-> "header", frame |-> job[e]["Receiver"]]
    BY <1>5 DEF Inv, ReadInv
  <2>2. w[r + 1] = [part |-> "payload", frame |-> w[r].frame]
    BY <1>1, <1>3, <2>1 DEF Aligned
  <2>3. QED
    BY <1>2, <1>5, <2>1, <2>2
<1>6. QED
  BY <1>4, <1>5

\* However the two halves of an end interleave at the BiLock, however the write
\* buffer drains and whoever vanishes, a Receiver about to read a header finds
\* a header, and one about to read a payload finds that of the same frame.
THEOREM FramesStayWhole == Spec => []FrameSync
BY Invariance, InvFrameSync, PTL

-----------------------------------------------------------------------------
(* Closing and flushing: the inductive invariant.                          *)

\* What a half is sending: its own frames, a frame where write is called, and a
\* CLOSE where the writer is about to be closed.
JobInv == \A e \in Ends :
  /\ job[e]["Sender"].by = "Sender"
  /\ pc[e]["Receiver"] \in Waiting \cup Holding =>
       job[e]["Receiver"].by = "Receiver" /\ job[e]["Receiver"].op \in {"Pong", "Close"}
  /\ \A h \in Halves :
       /\ pc[e][h] \in {"lock", "header", "payload"} => job[e][h].op # "Flush"
       /\ pc[e][h] \in {"closeLock", "close"} => job[e][h].op = "Close"

\* Half h has nothing left to flush: its last flush or close has returned, or
\* it is a Receiver that is not answering anything.
Settled(e, h) ==
  \/ h = "Sender" /\ pc[e][h] = "idle" /\ job[e][h].op \in {"Flush", "Close"}
  \/ h = "Receiver" /\ pc[e][h] \in {"idle", "recv", "body"}

\* AnswersAreFlushed without its condition on the result: a half only returns
\* an error once the connection is dead.
FlushInv == \A e \in Ends, h \in Halves : ~Dead(e) /\ Settled(e, h) =>
  \A i \in drained[e] + 1 .. Len(wire[e]) : wire[e][i].frame.by # h

\* A CLOSE frame of half h is complete among the first n tokens of w.
CloseAmong(w, n, h) == \E i \in 1..n :
  w[i].part = "payload" /\ w[i].frame.op = "Close" /\ w[i].frame.by = h

\* A half that flushes its CLOSE has written it, and one that closes the writer
\* has flushed it.
WrittenInv == \A e \in Ends, h \in Halves :
  /\ pc[e][h] \in {"flushLock", "flush"} /\ job[e][h].op = "Close" =>
       CloseAmong(wire[e], Len(wire[e]), h) \/ Dead(e)
  /\ pc[e][h] \in {"closeLock", "close"} => CloseAmong(wire[e], drained[e], h) \/ Dead(e)

\* A writer was shut behind a complete frame, by the Sender after its CLOSE or
\* by the Receiver, which has then reported the CLOSE that it answered.
ShutInv == \A e \in Ends : shut[e] /\ ~gone[Peer(e)] =>
  /\ \/ CloseAmong(wire[e], drained[e], "Sender")
     \/ is_closed[e] /\ CloseAmong(wire[e], drained[e], "Receiver")
  /\ drained[e] > 0 /\ wire[e][drained[e]].part = "payload"

\* Where a half is between the header of its CLOSE and the end of the call.
Closing == {"payload", "flushLock", "flush", "closeLock", "close"}

\* Among the first n tokens of w, those that follow a CLOSE of the same half
\* belong to the same frame.
OneClose(w, n) == \A i, j \in 1..n :
  i < j /\ w[i].frame.op = "Close" /\ w[j].frame.by = w[i].frame.by => w[j].frame = w[i].frame

\* A half that has written its CLOSE does not get out of closing before the
\* connection is dead, and writes nothing but that frame until then.
LastInv == \A e \in Ends :
  /\ OneClose(wire[e], drained[e])
  /\ ~Dead(e) =>
       /\ OneClose(wire[e], Len(wire[e]))
       /\ \A i \in 1..Len(wire[e]) : wire[e][i].frame.op = "Close" =>
            /\ pc[e][wire[e][i].frame.by] \in Closing
            /\ job[e][wire[e][i].frame.by] = wire[e][i].frame

\* CloseReported, also for a Receiver that receive has been called on again.
LostInv == \A e \in Ends :
  /\ pc[e]["Receiver"] \in {"idle", "recv"}
  /\ job[e]["Receiver"].op = "Close" /\ job[e]["Receiver"].by = "Receiver"
  /\ ~is_closed[e]
  => CloseAmong(wire[e], drained[e], "Sender") \/ gone[Peer(e)]

CloseInv == Inv /\ JobInv /\ FlushInv /\ WrittenInv /\ ShutInv /\ LastInv /\ LostInv

\* The invariant holds of a new connection.
LEMMA CloseInit == Init => CloseInv
<1> SUFFICES ASSUME Init PROVE CloseInv
  OBVIOUS
<1>1. JobInv /\ FlushInv /\ WrittenInv
  BY DEF Init, JobInv, FlushInv, WrittenInv, NoJob, Halves, Waiting, Holding
<1>2. ShutInv /\ LastInv /\ LostInv
  BY DEF Init, ShutInv, LastInv, LostInv, OneClose, NoJob, Halves
<1>3. QED
  BY <1>1, <1>2, InvInit DEF CloseInv

-----------------------------------------------------------------------------
(* What no step undoes.                                                    *)

\* Tokens stay where they are on the wire, and what has left the buffer has left
\* it: nothing more leaves it once the connection is dead.
LEMMA WireGrows ==
  ASSUME Inv, [Next]_vars, NEW x \in Ends
  PROVE  /\ Len(wire[x]) <= Len(wire'[x])
         /\ \A i \in 1..Len(wire[x]) : wire'[x][i] = wire[x][i]
         /\ drained[x] <= drained'[x]
         /\ Dead(x) => drained'[x] = drained[x]
<1>t. /\ wire \in [Ends -> Seq(Tokens)]
      /\ drained \in [Ends -> Nat]
      /\ job \in [Ends -> [Halves -> Frames]]
  BY DEF Inv, TypeOK, TransportOK, HalvesOK
<1>1. CASE UNCHANGED <<wire, drained>>
  BY <1>1, <1>t
<1>2. ASSUME NEW e \in Ends, NEW t \in Tokens, Put(e, t), UNCHANGED drained
      PROVE  /\ Len(wire[x]) <= Len(wire'[x])
             /\ \A i \in 1..Len(wire[x]) : wire'[x][i] = wire[x][i]
  <2>1. wire[e] \in Seq(Tokens) /\ wire' = [wire EXCEPT ![e] = Append(wire[e], t)]
    BY <1>2, <1>t DEF Put
  <2>2. /\ Len(Append(wire[e], t)) = Len(wire[e]) + 1
        /\ \A i \in 1..Len(wire[e]) : Append(wire[e], t)[i] = wire[e][i]
    BY <2>1
  <2>3. QED
    BY <2>1, <2>2, <1>t
<1>3. ASSUME NEW e \in Ends, Drain(e)
      PROVE  wire' = wire /\ drained[x] <= drained'[x] /\ (Dead(x) => drained'[x] = drained[x])
  BY <1>3, <1>t DEF Drain
<1>4. ASSUME NEW e \in Ends, NEW h \in Halves, WriteHeader(e, h) \/ WritePayload(e, h)
      PROVE  UNCHANGED drained /\ \E t \in Tokens : Put(e, t)
  <2>1. job[e][h] \in Frames
    BY <1>t
  <2>2. \A part \in {"header", "payload"} : [part |-> part, frame |-> job[e][h]] \in Tokens
    BY <2>1 DEF Tokens
  <2>3. QED
    BY <1>4, <2>2 DEF WriteHeader, WritePayload
<1>5. ASSUME NEW e \in Ends, NEW h \in Halves, Step(e, h), ~WriteHeader(e, h), ~WritePayload(e, h)
      PROVE  UNCHANGED <<wire, drained>>
  BY <1>5 DEF Step, Lock, WriteFails, FlushOk, FlushFails, CloseOk, CloseFails, transport
<1>6. ASSUME NEW e \in Ends, SenderCall(e) \/ ReceiveCall(e) \/ Read(e) \/ Crash(e) \/ Drop(e)
      PROVE  UNCHANGED <<wire, drained>>
  BY <1>6 DEF SenderCall, ReceiveCall, Read, ReadHeader, ReadPayload, ReadEof, Crash, Drop, transport
<1>7. CASE UNCHANGED vars
  BY <1>1, <1>7 DEF vars
<1>8. CASE Next
  <2>1. PICK e \in Ends : \/ \E h \in Halves : Step(e, h)
                          \/ SenderCall(e) \/ ReceiveCall(e) \/ Read(e) \/ Crash(e) \/ Drop(e)
                          \/ Drain(e)
    BY <1>8 DEF Next
  <2>2. CASE \E h \in Halves : WriteHeader(e, h) \/ WritePayload(e, h)
    <3>1. UNCHANGED drained /\ \E t \in Tokens : Put(e, t)
      BY <2>2, <1>4
    <3>2. drained'[x] = drained[x] /\ drained[x] \in Nat
      BY <3>1, <1>t
    <3>3. QED
      BY <3>1, <3>2, <1>2
  <2>3. CASE Drain(e)
    BY <2>3, <1>3, <1>t
  <2>4. QED
    BY <2>1, <2>2, <2>3, <1>1, <1>5, <1>6
<1>9. QED
  BY <1>7, <1>8

\* A writer that is shut, an end that has vanished and a Receiver that is closed
\* remain so.
LEMMA EndsStay ==
  ASSUME Inv, [Next]_vars, NEW x \in Ends
  PROVE  /\ shut[x] => shut'[x]
         /\ gone[x] => gone'[x]
         /\ is_closed[x] => is_closed'[x]
         /\ Dead(x) => Dead(x)'
<1>t. /\ shut \in [Ends -> BOOLEAN]
      /\ gone \in [Ends -> BOOLEAN]
      /\ is_closed \in [Ends -> BOOLEAN]
  BY DEF Inv, TypeOK, TransportOK, CallsOK
<1>1. \A y \in Ends : /\ shut[y] => shut'[y]
                      /\ gone[y] => gone'[y]
                      /\ is_closed[y] => is_closed'[y]
  <2>1. ASSUME NEW e \in Ends, NEW h \in Halves, Step(e, h)
        PROVE  /\ UNCHANGED gone
               /\ UNCHANGED shut \/ shut' = [shut EXCEPT ![e] = TRUE]
               /\ UNCHANGED is_closed \/ is_closed' = [is_closed EXCEPT ![e] = TRUE]
    BY <2>1 DEF Step, Lock, WriteHeader, WritePayload, WriteFails, FlushOk, FlushFails, CloseOk, CloseFails,
                ReportClosed, transport
  <2>2. ASSUME NEW e \in Ends, SenderCall(e) \/ ReceiveCall(e) \/ Read(e) \/ Drain(e)
        PROVE  UNCHANGED <<shut, gone, is_closed>>
    BY <2>2 DEF SenderCall, ReceiveCall, Read, ReadHeader, ReadPayload, ReadEof, Drain, transport
  <2>3. ASSUME NEW e \in Ends, Crash(e) \/ Drop(e)
        PROVE  UNCHANGED <<shut, is_closed>> /\ gone' = [gone EXCEPT ![e] = TRUE]
    BY <2>3 DEF Crash, Drop
  <2>4. CASE UNCHANGED vars
    BY <2>4 DEF vars
  <2>5. QED
    BY <2>1, <2>2, <2>3, <2>4, <1>t DEF Next
<1>2. QED
  BY <1>1, PeerFacts DEF Dead

\* A CLOSE is also complete in a longer sequence that starts with the same tokens.
LEMMA CloseLonger ==
  ASSUME NEW v, NEW w, NEW m \in Nat, NEW n \in Nat, m <= n, \A i \in 1..m : w[i] = v[i], NEW h,
         CloseAmong(v, m, h)
  PROVE  CloseAmong(w, n, h)
<1>1. PICK i \in 1..m : v[i].part = "payload" /\ v[i].frame.op = "Close" /\ v[i].frame.by = h
  BY DEF CloseAmong
<1>2. i \in 1..n /\ w[i] = v[i]
  OBVIOUS
<1>3. QED
  BY <1>1, <1>2 DEF CloseAmong

\* Hence a CLOSE that is complete stays complete.
LEMMA CloseStays ==
  ASSUME Inv, [Next]_vars, NEW x \in Ends, NEW h \in Halves
  PROVE  /\ CloseAmong(wire[x], drained[x], h) => CloseAmong(wire'[x], drained'[x], h)
         /\ CloseAmong(wire[x], Len(wire[x]), h) => CloseAmong(wire'[x], Len(wire'[x]), h)
<1>1. /\ Len(wire[x]) <= Len(wire'[x])
      /\ \A i \in 1..Len(wire[x]) : wire'[x][i] = wire[x][i]
      /\ drained[x] <= drained'[x]
  BY WireGrows
<1>i. TypeOK /\ TypeOK'
  BY InvNext DEF Inv
<1>2. /\ wire[x] \in Seq(Tokens) /\ wire'[x] \in Seq(Tokens)
      /\ drained[x] \in Nat /\ drained'[x] \in Nat /\ drained[x] <= Len(wire[x])
  BY <1>i DEF TypeOK, TransportOK
<1>3. Len(wire[x]) \in Nat /\ Len(wire'[x]) \in Nat
  BY <1>2
<1>4. \A i \in 1..drained[x] : wire'[x][i] = wire[x][i]
  BY <1>1, <1>2, <1>3
<1>5. CloseAmong(wire[x], drained[x], h) => CloseAmong(wire'[x], drained'[x], h)
  BY <1>1, <1>2, <1>4, CloseLonger
<1>6. CloseAmong(wire[x], Len(wire[x]), h) => CloseAmong(wire'[x], Len(wire'[x]), h)
  BY <1>1, <1>3, CloseLonger
<1>7. QED
  BY <1>5, <1>6

-----------------------------------------------------------------------------
(* Each part of the invariant is preserved.                                *)

\* A half takes up a frame only where it is about to send it.
LEMMA JobNext == CloseInv /\ [Next]_vars => JobInv'
<1> SUFFICES ASSUME CloseInv, [Next]_vars PROVE JobInv'
  OBVIOUS
<1> USE DEF JobInv, Waiting, Holding
<1>t. /\ pc \in [Ends -> [Halves -> PCs]]
      /\ job \in [Ends -> [Halves -> Frames]]
      /\ JobInv
      /\ \A e \in Ends : pc[e]["Sender"] \notin Reading
  BY DEF CloseInv, Inv, TypeOK, HalvesOK, LockInv
<1>h. Halves = {"Sender", "Receiver"}
  BY DEF Halves
<1>1. CASE UNCHANGED vars
  BY <1>1, <1>t DEF vars
<1>2. ASSUME NEW e \in Ends, NEW h \in Halves, Step(e, h) PROVE JobInv'
  <2>0. job' = job
    BY <1>2 DEF Step, Lock, WriteHeader, WritePayload, WriteFails, FlushOk, FlushFails, CloseOk, CloseFails
  <2>1. CASE Lock(e, h)
    BY <2>0, <2>1, <1>t, <1>h DEF Lock, Goto
  <2>2. CASE WriteHeader(e, h)
    BY <2>0, <2>2, <1>t, <1>h DEF WriteHeader, Goto, At
  <2>3. CASE WritePayload(e, h)
    BY <2>0, <2>3, <1>t, <1>h DEF WritePayload, AfterWrite, Goto, Return, At
  <2>4. CASE WriteFails(e, h)
    BY <2>0, <2>4, <1>t, <1>h DEF WriteFails, Goto, Return, At
  <2>5. CASE FlushOk(e, h)
    BY <2>0, <2>5, <1>t, <1>h DEF FlushOk, Goto, Return, At
  <2>6. CASE FlushFails(e, h) \/ CloseOk(e, h) \/ CloseFails(e, h)
    BY <2>0, <2>6, <1>t, <1>h DEF FlushFails, CloseOk, CloseFails, Return
  <2>7. QED
    BY <1>2, <2>1, <2>2, <2>3, <2>4, <2>5, <2>6 DEF Step
<1>3. ASSUME NEW e \in Ends, SenderCall(e) PROVE JobInv'
  <2>1. PICK op \in Ops[e] :
          /\ job' = [job EXCEPT ![e]["Sender"] = [op |-> op, id |-> nsent[e] + 1, by |-> "Sender"]]
          /\ pc' = [pc EXCEPT ![e]["Sender"] = FirstStep(op)]
    BY <1>3 DEF SenderCall, Goto
  <2>2. QED
    BY <2>1, <1>t, <1>h DEF FirstStep
<1>5. ASSUME NEW e \in Ends, ReceiveCall(e) \/ ReadHeader(e) \/ ReadEof(e) PROVE JobInv'
  <2>1. /\ job' = job \/ \E f : job' = [job EXCEPT ![e]["Receiver"] = f]
        /\ \E label \in {"recv", "body", "idle"} : pc' = [pc EXCEPT ![e]["Receiver"] = label]
    BY <1>5 DEF ReceiveCall, ReadHeader, ReadEof, Goto, Return
  <2>2. QED
    BY <2>1, <1>t, <1>h
<1>6. ASSUME NEW e \in Ends, ReadPayload(e) PROVE JobInv'
  <2>1. \/ job' = job /\ pc' = [pc EXCEPT ![e]["Receiver"] = "idle"]
        \/ /\ job' = [job EXCEPT ![e]["Receiver"] = Answer(job[e]["Receiver"])]
           /\ pc' = [pc EXCEPT ![e]["Receiver"] = "lock"]
    BY <1>6 DEF ReadPayload, Goto, Return
  <2>2. QED
    BY <2>1, <1>t, <1>h DEF Answer
<1>7. ASSUME NEW e \in Ends, Drain(e) \/ Crash(e) \/ Drop(e) PROVE JobInv'
  BY <1>7, <1>t DEF Drain, Crash, Drop
<1>8. QED
  BY <1>1, <1>2, <1>3, <1>5, <1>6, <1>7 DEF Next, Read

\* A half settles only through a flush, unless the connection is dead; and a half
\* that writes is not settled.
LEMMA FlushNext == CloseInv /\ [Next]_vars => FlushInv'
<1> SUFFICES ASSUME CloseInv, [Next]_vars, NEW x \in Ends, NEW g \in Halves, ~Dead(x)', Settled(x, g)'
             PROVE  \A i \in drained'[x] + 1 .. Len(wire'[x]) : wire'[x][i].frame.by # g
  BY DEF FlushInv
<1>t. /\ pc \in [Ends -> [Halves -> PCs]]
      /\ job \in [Ends -> [Halves -> Frames]]
      /\ wire \in [Ends -> Seq(Tokens)]
      /\ drained \in [Ends -> Nat]
      /\ \A e \in Ends : drained[e] <= Len(wire[e])
      /\ JobInv /\ FlushInv
      /\ \A e \in Ends : pc[e]["Sender"] \notin Reading
  BY DEF CloseInv, Inv, TypeOK, TransportOK, HalvesOK, LockInv
<1>h. Halves = {"Sender", "Receiver"}
  BY DEF Halves
<1>d. ~Dead(x)
  BY EndsStay DEF CloseInv
<1>g. drained[x] <= drained'[x] /\ drained'[x] \in Nat
  <2>1. TypeOK'
    BY InvNext DEF CloseInv, Inv
  <2>2. QED
    BY <2>1, WireGrows DEF CloseInv, TypeOK, TransportOK
<1>1. ASSUME wire'[x] = wire[x], Settled(x, g)
      PROVE  \A i \in drained'[x] + 1 .. Len(wire'[x]) : wire'[x][i].frame.by # g
  BY <1>1, <1>d, <1>g, <1>t DEF FlushInv
<1>2. CASE UNCHANGED vars
  BY <1>1, <1>2 DEF vars, Settled
<1>3. ASSUME NEW e \in Ends, NEW h \in Halves, WriteHeader(e, h) \/ WritePayload(e, h)
      PROVE  \A i \in drained'[x] + 1 .. Len(wire'[x]) : wire'[x][i].frame.by # g
  <2>1. PICK part \in {"header", "payload"} : Put(e, [part |-> part, frame |-> job[e][h]])
    BY <1>3 DEF WriteHeader, WritePayload
  <2>2. /\ pc[e][h] \in {"header", "payload"} /\ UNCHANGED <<job, drained>>
        /\ \/ h = "Sender" /\ job[e][h].op # "Close" /\ pc' = [pc EXCEPT ![e][h] = "idle"]
           \/ \E label \in {"payload", "flushLock"} : pc' = [pc EXCEPT ![e][h] = label]
    BY <1>3, <1>h DEF WriteHeader, WritePayload, AfterWrite, Goto, Return, At
  <2>3. job[e][h].by = h /\ job[e][h].op # "Flush"
    BY <2>2, <1>t, <1>h DEF JobInv, Holding
  <2>4. ~(x = e /\ g = h)
    BY <2>2, <2>3, <1>t, <1>h DEF Settled
  <2>5. Settled(x, g)
    BY <2>2, <2>4, <1>t, <1>h DEF Settled
  <2>6. CASE x # e
    BY <2>1, <2>5, <2>6, <1>1, <1>t DEF Put
  <2>7. CASE x = e
    <3>1. wire[e] \in Seq(Tokens) /\ wire'[e] = Append(wire[e], [part |-> part, frame |-> job[e][h]])
      BY <2>1, <1>t DEF Put
    <3>2. /\ Len(wire'[e]) = Len(wire[e]) + 1
          /\ \A i \in 1..Len(wire[e]) : wire'[e][i] = wire[e][i]
          /\ wire'[e][Len(wire[e]) + 1].frame.by = h
      BY <3>1, <2>3
    <3>3. g # h /\ \A i \in drained[x] + 1 .. Len(wire[x]) : wire[x][i].frame.by # g
      BY <2>4, <2>5, <2>7, <1>d, <1>t DEF FlushInv
    <3>4. SUFFICES ASSUME NEW i \in drained[x] + 1 .. Len(wire'[x]) PROVE wire'[x][i].frame.by # g
      BY <2>2
    <3>5. drained[x] \in Nat /\ Len(wire[x]) \in Nat /\ drained[x] <= Len(wire[x])
      BY <1>t
    <3>6. i = Len(wire[x]) + 1 \/ (i \in drained[x] + 1 .. Len(wire[x]) /\ i \in 1..Len(wire[x]))
      BY <3>2, <3>4, <3>5, <2>7
    <3>7. QED
      BY <3>2, <3>3, <3>6, <2>7
  <2>8. QED
    BY <2>6, <2>7
<1>4. ASSUME NEW e \in Ends, NEW h \in Halves, FlushOk(e, h)
      PROVE  \A i \in drained'[x] + 1 .. Len(wire'[x]) : wire'[x][i].frame.by # g
  <2>1. /\ Unsent(e) = 0 /\ UNCHANGED <<wire, drained, job>>
        /\ \E label : pc' = [pc EXCEPT ![e][h] = label]
    BY <1>4 DEF FlushOk, Goto, Return, transport
  <2>2. CASE x = e
    BY <2>1, <2>2, <1>t DEF Unsent
  <2>3. CASE x # e
    BY <2>1, <2>3, <1>1, <1>t DEF Settled
  <2>4. QED
    BY <2>2, <2>3
<1>5. ASSUME NEW e \in Ends, NEW h \in Halves,
             WriteFails(e, h) \/ FlushFails(e, h) \/ CloseOk(e, h) \/ CloseFails(e, h)
      PROVE  \A i \in drained'[x] + 1 .. Len(wire'[x]) : wire'[x][i].frame.by # g
  <2>1. UNCHANGED <<wire, drained, job>> /\ \E label : pc' = [pc EXCEPT ![e][h] = label]
    BY <1>5 DEF WriteFails, FlushFails, CloseOk, CloseFails, Goto, Return, transport
  <2>2. Dead(e)'
    <3>1. Dead(e) \/ shut' = [shut EXCEPT ![e] = TRUE]
      BY <1>5 DEF WriteFails, FlushFails, CloseOk, CloseFails
    <3>2. shut \in [Ends -> BOOLEAN]
      BY DEF CloseInv, Inv, TypeOK, TransportOK
    <3>3. QED
      BY <3>1, <3>2, EndsStay DEF CloseInv, Dead
  <2>3. QED
    BY <2>1, <2>2, <1>1, <1>t DEF Settled
<1>6. ASSUME NEW e \in Ends, NEW h \in Halves, Lock(e, h)
      PROVE  \A i \in drained'[x] + 1 .. Len(wire'[x]) : wire'[x][i].frame.by # g
  <2>1. /\ UNCHANGED <<wire, job>>
        /\ \E label \in Holding : pc' = [pc EXCEPT ![e][h] = label]
    BY <1>6 DEF Lock, Goto, Holding, transport
  <2>2. QED
    BY <2>1, <1>1, <1>t, <1>h DEF Settled, Holding
<1>7. ASSUME NEW e \in Ends, SenderCall(e) \/ ReceiveCall(e) \/ Read(e) \/ Drain(e) \/ Crash(e) \/ Drop(e)
      PROVE  wire' = wire /\ Settled(x, g)
  <2>1. CASE SenderCall(e)
    <3>1. /\ UNCHANGED wire
          /\ \E f : job' = [job EXCEPT ![e]["Sender"] = f]
          /\ \E label \in Waiting : pc' = [pc EXCEPT ![e]["Sender"] = label]
      BY <2>1 DEF SenderCall, Goto, FirstStep, Waiting, transport
    <3>2. QED
      BY <3>1, <1>t, <1>h DEF Settled, Waiting
  <2>2. CASE ReceiveCall(e) \/ Read(e)
    <3>1. /\ UNCHANGED wire /\ pc[e]["Receiver"] \in {"idle", "recv", "body"}
          /\ job' = job \/ \E f : job' = [job EXCEPT ![e]["Receiver"] = f]
          /\ \E label : pc' = [pc EXCEPT ![e]["Receiver"] = label]
      BY <2>2 DEF ReceiveCall, Read, ReadHeader, ReadPayload, ReadEof, Goto, Return, At, transport
    <3>2. QED
      BY <3>1, <1>t, <1>h DEF Settled
  <2>3. CASE Drain(e) \/ Crash(e) \/ Drop(e)
    BY <2>3 DEF Drain, Crash, Drop, Settled
  <2>4. QED
    BY <1>7, <2>1, <2>2, <2>3
<1>8. QED
  BY <1>1, <1>2, <1>3, <1>4, <1>5, <1>6, <1>7 DEF Next, Step

\* The CLOSE is written before it is flushed, and flushed before the writer is
\* closed.
LEMMA WrittenNext == CloseInv /\ [Next]_vars => WrittenInv'
<1> DEFINE Goal(x, g) ==
      /\ pc'[x][g] \in {"flushLock", "flush"} /\ job'[x][g].op = "Close" =>
           CloseAmong(wire'[x], Len(wire'[x]), g) \/ Dead(x)'
      /\ pc'[x][g] \in {"closeLock", "close"} => CloseAmong(wire'[x], drained'[x], g) \/ Dead(x)'
<1> SUFFICES ASSUME CloseInv, [Next]_vars, NEW x \in Ends, NEW g \in Halves PROVE Goal(x, g)
  BY DEF WrittenInv, CloseAmong
<1>t. /\ pc \in [Ends -> [Halves -> PCs]]
      /\ job \in [Ends -> [Halves -> Frames]]
      /\ wire \in [Ends -> Seq(Tokens)]
      /\ drained \in [Ends -> Nat]
      /\ \A e \in Ends : drained[e] <= Len(wire[e])
      /\ JobInv
  BY DEF CloseInv, Inv, TypeOK, TransportOK, HalvesOK
<1>h. Halves = {"Sender", "Receiver"}
  BY DEF Halves
<1>w. /\ pc[x][g] \in {"flushLock", "flush"} /\ job[x][g].op = "Close" =>
           CloseAmong(wire[x], Len(wire[x]), g) \/ Dead(x)
      /\ pc[x][g] \in {"closeLock", "close"} => CloseAmong(wire[x], drained[x], g) \/ Dead(x)
  BY DEF CloseInv, WrittenInv
<1>s. /\ CloseAmong(wire[x], drained[x], g) => CloseAmong(wire'[x], drained'[x], g)
      /\ CloseAmong(wire[x], Len(wire[x]), g) => CloseAmong(wire'[x], Len(wire'[x]), g)
      /\ Dead(x) => Dead(x)'
  BY CloseStays, EndsStay DEF CloseInv
<1>1. ASSUME pc'[x][g] = pc[x][g], job'[x][g] = job[x][g] PROVE Goal(x, g)
  BY <1>1, <1>w, <1>s
<1>2. ASSUME pc'[x][g] \notin {"flushLock", "flush", "closeLock", "close"} PROVE Goal(x, g)
  BY <1>2
<1>3. CASE UNCHANGED vars
  BY <1>1, <1>3 DEF vars
<1>4. ASSUME NEW e \in Ends, NEW h \in Halves, Step(e, h) PROVE Goal(x, g)
  <2>1. job' = job /\ \E label : pc' = [pc EXCEPT ![e][h] = label]
    BY <1>4 DEF Step, Lock, WriteHeader, WritePayload, WriteFails, FlushOk, FlushFails, CloseOk, CloseFails,
                AfterWrite, Goto, Return
  <2>2. CASE ~(x = e /\ g = h)
    BY <2>1, <2>2, <1>1, <1>t
  <2>3. CASE x = e /\ g = h
    <3>1. CASE Lock(e, h)
      BY <3>1, <2>1, <2>3, <1>w, <1>s, <1>t DEF Lock, Goto
    <3>2. CASE WriteHeader(e, h)
      BY <3>2, <2>3, <1>2, <1>t DEF WriteHeader, Goto
    <3>3. CASE WritePayload(e, h)
      <4>1. job[e][h].by = h /\ job[e][h] \in Frames
        BY <3>3, <1>t, <1>h DEF WritePayload, At, JobInv, Holding
      <4>2. wire'[e] = Append(wire[e], [part |-> "payload", frame |-> job[e][h]]) /\ wire[e] \in Seq(Tokens)
        BY <3>3, <1>t DEF WritePayload, Put
      <4>3. Len(wire'[e]) \in 1..Len(wire'[e]) /\ wire'[e][Len(wire'[e])] = [part |-> "payload", frame |-> job[e][h]]
        BY <4>2
      <4>4. job[e][h].op = "Close" => CloseAmong(wire'[e], Len(wire'[e]), h)
        BY <4>1, <4>3 DEF CloseAmong
      <4>5. pc'[e][h] \in {"flushLock", "idle"}
        BY <3>3, <1>t DEF WritePayload, AfterWrite, Goto, Return
      <4>6. QED
        BY <4>4, <4>5, <2>1, <2>3
    <3>4. CASE FlushOk(e, h)
      <4>1. /\ pc[e][h] = "flush" /\ UNCHANGED <<wire, drained>> /\ Unsent(e) = 0
            /\ \/ job[e][h].op = "Close" /\ pc'[e][h] = "closeLock"
               \/ pc'[e][h] \in {"recv", "idle"}
        BY <3>4, <1>t DEF FlushOk, Goto, Return, At, transport
      <4>2. drained[e] = Len(wire[e])
        BY <4>1, <1>t DEF Unsent
      <4>3. QED
        BY <4>1, <4>2, <2>3, <1>w, <1>s
    <3>5. CASE WriteFails(e, h)
      BY <3>5, <2>3, <1>s, <1>t DEF WriteFails, Goto, Return
    <3>6. CASE FlushFails(e, h) \/ CloseOk(e, h) \/ CloseFails(e, h)
      BY <3>6, <2>3, <1>2, <1>t DEF FlushFails, CloseOk, CloseFails, Return
    <3>7. QED
      BY <1>4, <3>1, <3>2, <3>3, <3>4, <3>5, <3>6 DEF Step
  <2>4. QED
    BY <2>2, <2>3
<1>5. ASSUME NEW e \in Ends, SenderCall(e) PROVE Goal(x, g)
  <2>1. PICK op \in Ops[e] :
          /\ job' = [job EXCEPT ![e]["Sender"] = [op |-> op, id |-> nsent[e] + 1, by |-> "Sender"]]
          /\ pc' = [pc EXCEPT ![e]["Sender"] = FirstStep(op)]
    BY <1>5 DEF SenderCall, Goto
  <2>2. QED
    BY <2>1, <1>1, <1>t, <1>h DEF FirstStep
<1>6. ASSUME NEW e \in Ends, ReceiveCall(e) \/ Read(e) PROVE Goal(x, g)
  <2>1. /\ job' = job \/ \E f : job' = [job EXCEPT ![e]["Receiver"] = f]
        /\ \E label \in {"idle", "recv", "body", "lock"} : pc' = [pc EXCEPT ![e]["Receiver"] = label]
    BY <1>6 DEF ReceiveCall, Read, ReadHeader, ReadPayload, ReadEof, Goto, Return
  <2>2. CASE x = e /\ g = "Receiver"
    BY <2>1, <2>2, <1>2, <1>t, <1>h
  <2>3. CASE ~(x = e /\ g = "Receiver")
    BY <2>1, <2>3, <1>1, <1>t, <1>h
  <2>4. QED
    BY <2>2, <2>3
<1>7. ASSUME NEW e \in Ends, Drain(e) \/ Crash(e) \/ Drop(e) PROVE Goal(x, g)
  BY <1>1, <1>7 DEF Drain, Crash, Drop
<1>8. QED
  BY <1>3, <1>4, <1>5, <1>6, <1>7 DEF Next

\* A writer is shut only behind a CLOSE of the half that shuts it, and, because
\* that half holds the lock and has flushed, behind a complete frame.
LEMMA ShutNext == CloseInv /\ [Next]_vars => ShutInv'
<1> DEFINE Whole(x) == drained[x] > 0 /\ wire[x][drained[x]].part = "payload"
           Said(x) == \/ CloseAmong(wire[x], drained[x], "Sender")
                      \/ is_closed[x] /\ CloseAmong(wire[x], drained[x], "Receiver")
<1> SUFFICES ASSUME CloseInv, [Next]_vars, NEW x \in Ends, shut'[x], ~gone'[Peer(x)]
             PROVE  Said(x)' /\ Whole(x)'
  BY DEF ShutInv, CloseAmong
<1>t. /\ pc \in [Ends -> [Halves -> PCs]]
      /\ wire \in [Ends -> Seq(Tokens)]
      /\ drained \in [Ends -> Nat]
      /\ shut \in [Ends -> BOOLEAN]
      /\ is_closed \in [Ends -> BOOLEAN]
      /\ \A e \in Ends : drained[e] <= Len(wire[e])
      /\ LockInv /\ WireInv
  BY DEF CloseInv, Inv, TypeOK, TransportOK, HalvesOK, CallsOK
<1>h. Halves = {"Sender", "Receiver"}
  BY DEF Halves
<1>p. Peer(x) \in Ends /\ ~gone[Peer(x)]
  BY PeerFacts, EndsStay DEF CloseInv
<1>s. Said(x) => Said(x)'
  <2>1. \A h \in Halves : CloseAmong(wire[x], drained[x], h) => CloseAmong(wire'[x], drained'[x], h)
    BY CloseStays DEF CloseInv
  <2>2. is_closed[x] => is_closed'[x]
    BY EndsStay DEF CloseInv
  <2>3. QED
    BY <2>1, <2>2, <1>h
<1>1. CASE shut[x]
  <2>1. Said(x) /\ Whole(x)
    BY <1>1, <1>p DEF CloseInv, ShutInv
  <2>2. drained'[x] = drained[x] /\ \A i \in 1..Len(wire[x]) : wire'[x][i] = wire[x][i]
    BY <1>1, WireGrows DEF CloseInv, Dead
  <2>3. drained[x] \in 1..Len(wire[x])
    BY <2>1, <1>t
  <2>4. Whole(x)'
    BY <2>1, <2>2, <2>3
  <2>5. QED
    BY <2>1, <2>4, <1>s
<1>2. CASE ~shut[x]
  <2>1. PICK e \in Ends, h \in Halves : CloseOk(e, h)
    <3>1. ASSUME NEW e \in Ends, NEW h \in Halves, Step(e, h), ~CloseOk(e, h) PROVE shut' = shut
      BY <3>1 DEF Step, Lock, WriteHeader, WritePayload, WriteFails, FlushOk, FlushFails, CloseFails, transport
    <3>2. ASSUME NEW e \in Ends, SenderCall(e) \/ ReceiveCall(e) \/ Read(e) \/ Drain(e) \/ Crash(e) \/ Drop(e)
          PROVE  shut' = shut
      BY <3>2 DEF SenderCall, ReceiveCall, Read, ReadHeader, ReadPayload, ReadEof, Drain, Crash, Drop, transport
    <3>3. shut' # shut
      BY <1>2
    <3>4. QED
      BY <3>1, <3>2, <3>3 DEF Next, vars
  <2>2. e = x
    BY <2>1, <1>2, <1>t DEF CloseOk
  <2>3. /\ pc[x][h] = "close" /\ Unsent(x) = 0 /\ UNCHANGED <<wire, drained>>
        /\ h = "Receiver" => is_closed'[x]
    BY <2>1, <2>2, <1>t DEF CloseOk, At, ReportClosed
  <2>4. ~Dead(x) /\ drained[x] = Len(wire[x])
    BY <2>3, <1>2, <1>p, <1>t DEF Dead, Unsent
  <2>5. CloseAmong(wire[x], drained[x], h)
    BY <2>3, <2>4 DEF CloseInv, WrittenInv
  <2>6. Said(x)'
    BY <2>3, <2>5, <1>h
  <2>7. drained[x] > 0
    BY <2>5, <1>t DEF CloseAmong
  <2>8. \A g \in Halves : pc[x][g] # "payload"
    <3>1. \A g \in Halves : pc[x][g] \in Holding <=> writer[x] = g
      BY <1>t DEF LockInv
    <3>2. writer[x] = h
      BY <2>3, <3>1 DEF Holding
    <3>3. QED
      BY <2>3, <3>1, <3>2 DEF Holding
  <2>9. ~Dangling(wire[x])
    BY <2>4, <2>8, <1>t DEF WireInv
  <2>10. wire[x][drained[x]].part = "payload"
    <3>1. wire[x][drained[x]] \in Tokens
      BY <2>4, <2>7, <1>t
    <3>2. QED
      BY <3>1, <2>4, <2>7, <2>9 DEF Dangling, Tokens
  <2>11. QED
    BY <2>3, <2>6, <2>7, <2>10
<1>3. QED
  BY <1>1, <1>2

\* Tokens beyond the first n do not matter.
LEMMA OneClosePrefix ==
  ASSUME NEW v, NEW w, NEW m \in Nat, NEW n \in Nat, m <= n, \A i \in 1..m : w[i] = v[i], OneClose(v, n)
  PROVE  OneClose(w, m)
BY DEF OneClose

\* A half that has written its CLOSE is closing, and writes only the rest of it.
LEMMA LastNext == CloseInv /\ [Next]_vars => LastInv'
<1> DEFINE Own(x) == \A i \in 1..Len(wire[x]) : wire[x][i].frame.op = "Close" =>
             /\ pc[x][wire[x][i].frame.by] \in Closing
             /\ job[x][wire[x][i].frame.by] = wire[x][i].frame
           Busy(x, g) == pc[x][g] \in Closing /\ job[x][g].op = "Close"
<1> SUFFICES ASSUME CloseInv, [Next]_vars, NEW x \in Ends
             PROVE  /\ OneClose(wire'[x], drained'[x])
                    /\ ~Dead(x)' => OneClose(wire'[x], Len(wire'[x])) /\ Own(x)'
  BY DEF LastInv, OneClose
<1>t. /\ pc \in [Ends -> [Halves -> PCs]]
      /\ job \in [Ends -> [Halves -> Frames]]
      /\ wire \in [Ends -> Seq(Tokens)]
      /\ drained \in [Ends -> Nat]
      /\ \A e \in Ends : drained[e] <= Len(wire[e])
      /\ JobInv
  BY DEF CloseInv, Inv, TypeOK, TransportOK, HalvesOK
<1>u. wire' \in [Ends -> Seq(Tokens)] /\ drained' \in [Ends -> Nat] /\ drained'[x] <= Len(wire'[x])
  <2>1. TypeOK'
    BY InvNext DEF CloseInv, Inv
  <2>2. QED
    BY <2>1 DEF TypeOK, TransportOK
<1>h. Halves = {"Sender", "Receiver"}
  BY DEF Halves
<1>w. /\ OneClose(wire[x], drained[x])
      /\ ~Dead(x) => OneClose(wire[x], Len(wire[x])) /\ Own(x)
  BY DEF CloseInv, LastInv
<1>g. /\ \A i \in 1..Len(wire[x]) : wire'[x][i] = wire[x][i]
      /\ Dead(x) => drained'[x] = drained[x] /\ Dead(x)'
  BY WireGrows, EndsStay DEF CloseInv
<1>b. \A i \in 1..Len(wire[x]) : wire[x][i].frame.by \in Halves /\ wire[x][i].frame \in Frames
  <2>1. \A i \in 1..Len(wire[x]) : wire[x][i] \in Tokens
    BY <1>t
  <2>2. QED
    BY <2>1 DEF Tokens, Frames
<1>1. SUFFICES ASSUME ~Dead(x) PROVE OneClose(wire'[x], Len(wire'[x])) /\ (Dead(x)' \/ Own(x)')
  <2>1. CASE Dead(x)
    <3>1. drained'[x] = drained[x] /\ Dead(x)' /\ \A i \in 1..drained[x] : wire'[x][i] = wire[x][i]
      BY <2>1, <1>g, <1>t
    <3>2. OneClose(wire'[x], drained[x])
      BY <3>1, <1>w, <1>t, OneClosePrefix, SMTT(30)
    <3>3. QED
      BY <3>1, <3>2
  <2>2. CASE ~Dead(x)
    <3>1. OneClose(wire'[x], Len(wire'[x])) /\ (Dead(x)' \/ Own(x)')
      BY <2>2, <1>1
    <3>2. PICK m \in Nat, n \in Nat : m = drained'[x] /\ n = Len(wire'[x]) /\ m <= n
      BY <1>u
    <3>3. OneClose(wire'[x], m)
      BY <3>1, <3>2, OneClosePrefix
    <3>4. QED
      BY <3>1, <3>2, <3>3
  <2>3. QED
    BY <2>1, <2>2
<1>k. ASSUME wire'[x] = wire[x],
             \A g \in Halves : Busy(x, g) => Dead(x)' \/ (pc'[x][g] \in Closing /\ job'[x][g] = job[x][g])
      PROVE  OneClose(wire'[x], Len(wire'[x])) /\ (Dead(x)' \/ Own(x)')
  BY <1>k, <1>w, <1>1, <1>b
<1>2. CASE UNCHANGED vars
  BY <1>k, <1>2 DEF vars
<1>3. ASSUME NEW e \in Ends, NEW h \in Halves, WriteHeader(e, h) \/ WritePayload(e, h)
      PROVE  OneClose(wire'[x], Len(wire'[x])) /\ Own(x)'
  <2>1. PICK part \in {"header", "payload"} : Put(e, [part |-> part, frame |-> job[e][h]])
    BY <1>3 DEF WriteHeader, WritePayload
  <2>2. /\ pc[e][h] \in {"header", "payload"} /\ UNCHANGED job
        /\ \E label : /\ label \in Closing \/ job[e][h].op # "Close"
                      /\ pc' = [pc EXCEPT ![e][h] = label]
    BY <1>3 DEF WriteHeader, WritePayload, AfterWrite, Goto, Return, At, Closing
  <2>3. job[e][h].by = h /\ job[e][h] \in Frames
    BY <2>2, <1>t, <1>h DEF JobInv, Holding
  <2>4. CASE x # e
    <3>1. wire'[x] = wire[x] /\ \A g \in Halves : pc'[x][g] = pc[x][g]
      BY <2>1, <2>2, <2>4, <1>t DEF Put
    <3>2. QED
      BY <3>1, <2>2, <1>w, <1>1, <1>b
  <2>5. CASE x = e
    <3>1. wire[x] \in Seq(Tokens) /\ wire'[x] = Append(wire[x], [part |-> part, frame |-> job[x][h]])
      BY <2>1, <2>5, <1>t DEF Put
    <3>2. Len(wire'[x]) = Len(wire[x]) + 1 /\ wire'[x][Len(wire[x]) + 1].frame = job[x][h] /\ Len(wire[x]) \in Nat
      BY <3>1
    <3>3. \A i \in 1..Len(wire[x]) : wire[x][i].frame.op = "Close" /\ wire[x][i].frame.by = h =>
                                        wire[x][i].frame = job[x][h]
      BY <1>1, <1>w
    <3>4. OneClose(wire'[x], Len(wire'[x]))
      <4>1. SUFFICES ASSUME NEW i \in 1..Len(wire'[x]), NEW j \in 1..Len(wire'[x]), i < j,
                            wire'[x][i].frame.op = "Close", wire'[x][j].frame.by = wire'[x][i].frame.by
                     PROVE  wire'[x][j].frame = wire'[x][i].frame
        BY DEF OneClose
      <4>2. i \in 1..Len(wire[x]) /\ wire'[x][i] = wire[x][i]
        BY <3>2, <4>1, <1>g
      <4>3. CASE j \in 1..Len(wire[x])
        BY <4>1, <4>2, <4>3, <1>1, <1>g, <1>w DEF OneClose
      <4>4. CASE j = Len(wire[x]) + 1
        BY <4>1, <4>2, <4>4, <3>2, <3>3, <2>3, <2>5
      <4>5. QED
        BY <4>3, <4>4, <3>2
    <3>5. Own(x)'
      <4>1. SUFFICES ASSUME NEW i \in 1..Len(wire'[x]), wire'[x][i].frame.op = "Close"
                     PROVE  /\ pc'[x][wire'[x][i].frame.by] \in Closing
                            /\ job[x][wire'[x][i].frame.by] = wire'[x][i].frame
        BY <2>2
      <4>2. CASE i = Len(wire[x]) + 1
        <5>1. wire'[x][i].frame = job[x][h] /\ job[x][h].by = h /\ job[x][h].op = "Close"
          BY <4>1, <4>2, <3>2, <2>3, <2>5
        <5>2. pc'[x][h] \in Closing
          BY <5>1, <2>2, <2>5, <1>t
        <5>3. QED
          BY <5>1, <5>2
      <4>3. CASE i \in 1..Len(wire[x])
        <5>1. wire'[x][i] = wire[x][i] /\ wire[x][i].frame.by \in Halves
          BY <4>3, <1>g, <1>b
        <5>2. pc[x][wire[x][i].frame.by] \in Closing /\ job[x][wire[x][i].frame.by] = wire[x][i].frame
          BY <4>1, <4>3, <5>1, <1>1, <1>w
        <5>3. wire[x][i].frame.by = h => pc'[x][h] \in Closing
          BY <5>1, <5>2, <4>1, <2>2, <2>5, <1>t
        <5>4. wire[x][i].frame.by # h => pc'[x][wire[x][i].frame.by] = pc[x][wire[x][i].frame.by]
          BY <5>1, <2>2, <1>t
        <5>5. QED
          BY <5>1, <5>2, <5>3, <5>4
      <4>4. QED
        BY <4>2, <4>3, <3>2
    <3>6. QED
      BY <3>4, <3>5
  <2>6. QED
    BY <2>4, <2>5
<1>4. ASSUME NEW e \in Ends, NEW h \in Halves, Lock(e, h) \/ FlushOk(e, h)
      PROVE  /\ wire' = wire
             /\ \A g \in Halves : Busy(x, g) => Dead(x)' \/ (pc'[x][g] \in Closing /\ job'[x][g] = job[x][g])
  <2>1. /\ UNCHANGED <<wire, job>>
        /\ \E label : /\ label \in Closing \/ pc[e][h] = "lock" \/ job[e][h].op # "Close"
                      /\ pc' = [pc EXCEPT ![e][h] = label]
    BY <1>4 DEF Lock, FlushOk, Goto, Return, At, Closing, transport
  <2>2. QED
    BY <2>1, <1>t DEF Closing
<1>5. ASSUME NEW e \in Ends, NEW h \in Halves,
             WriteFails(e, h) \/ FlushFails(e, h) \/ CloseOk(e, h) \/ CloseFails(e, h)
      PROVE  /\ wire' = wire
             /\ \A g \in Halves : Busy(x, g) => Dead(x)' \/ (pc'[x][g] \in Closing /\ job'[x][g] = job[x][g])
  <2>1. UNCHANGED <<wire, job>> /\ \E label : pc' = [pc EXCEPT ![e][h] = label]
    BY <1>5 DEF WriteFails, FlushFails, CloseOk, CloseFails, Goto, Return, transport
  <2>2. Dead(e)'
    <3>1. Dead(e) \/ shut' = [shut EXCEPT ![e] = TRUE]
      BY <1>5 DEF WriteFails, FlushFails, CloseOk, CloseFails
    <3>2. shut \in [Ends -> BOOLEAN]
      BY DEF CloseInv, Inv, TypeOK, TransportOK
    <3>3. QED
      BY <3>1, <3>2, EndsStay DEF CloseInv, Dead
  <2>3. QED
    BY <2>1, <2>2, <1>t
<1>6. ASSUME NEW e \in Ends, SenderCall(e) \/ ReceiveCall(e) \/ Read(e)
      PROVE  /\ wire' = wire
             /\ \A g \in Halves : Busy(x, g) => pc'[x][g] \in Closing /\ job'[x][g] = job[x][g]
  <2>1. PICK h \in Halves :
          /\ pc[e][h] \notin Closing /\ UNCHANGED wire
          /\ job' = job \/ \E f : job' = [job EXCEPT ![e][h] = f]
          /\ \E label : pc' = [pc EXCEPT ![e][h] = label]
    BY <1>6, <1>h DEF SenderCall, ReceiveCall, Read, ReadHeader, ReadPayload, ReadEof, Goto, Return, At, Closing, transport
  <2>2. QED
    BY <2>1, <1>t
<1>7. ASSUME NEW e \in Ends, Drain(e) \/ Crash(e) \/ Drop(e) PROVE UNCHANGED <<wire, pc, job>>
  BY <1>7 DEF Drain, Crash, Drop
<1>8. QED
  BY <1>k, <1>2, <1>3, <1>4, <1>5, <1>6, <1>7 DEF Next, Step

\* A CLOSE goes unreported only when the writer was dead before it could be
\* answered: shut by this end's Sender, or the peer has vanished.
LEMMA LostNext == CloseInv /\ [Next]_vars => LostInv'
<1> DEFINE Lost(x) == /\ pc[x]["Receiver"] \in {"idle", "recv"}
                      /\ job[x]["Receiver"].op = "Close" /\ job[x]["Receiver"].by = "Receiver"
                      /\ ~is_closed[x]
           Excuse(x) == CloseAmong(wire[x], drained[x], "Sender") \/ gone[Peer(x)]
<1> SUFFICES ASSUME CloseInv, [Next]_vars, NEW x \in Ends, Lost(x)' PROVE Excuse(x)'
  BY DEF LostInv, CloseAmong
<1>t. /\ pc \in [Ends -> [Halves -> PCs]]
      /\ job \in [Ends -> [Halves -> Frames]]
      /\ is_closed \in [Ends -> BOOLEAN]
      /\ JobInv
  BY DEF CloseInv, Inv, TypeOK, TransportOK, HalvesOK, CallsOK
<1>h. Halves = {"Sender", "Receiver"}
  BY DEF Halves
<1>p. Peer(x) \in Ends /\ Peer(Peer(x)) = x
  BY PeerFacts
<1>e. Excuse(x) => Excuse(x)'
  BY <1>p, <1>h, CloseStays, EndsStay DEF CloseInv
<1>c. ~is_closed[x]
  BY EndsStay DEF CloseInv
<1>1. ASSUME Lost(x) PROVE Excuse(x)'
  BY <1>1, <1>e DEF CloseInv, LostInv
<1>2. CASE UNCHANGED vars
  BY <1>1, <1>2 DEF vars
<1>3. ASSUME NEW e \in Ends, NEW h \in Halves, Step(e, h) PROVE Excuse(x)'
  <2>1. /\ job' = job /\ \E label : pc' = [pc EXCEPT ![e][h] = label]
        /\ is_closed' = is_closed \/ is_closed' = [is_closed EXCEPT ![e] = TRUE]
    BY <1>3 DEF Step, Lock, WriteHeader, WritePayload, WriteFails, FlushOk, FlushFails, CloseOk, CloseFails,
                AfterWrite, ReportClosed, Goto, Return
  <2>2. CASE ~(x = e /\ h = "Receiver")
    BY <2>1, <2>2, <1>1, <1>c, <1>t, <1>h
  <2>3. CASE x = e /\ h = "Receiver"
    <3>1. CASE FlushFails(e, h)
      <4>1. shut[x] \/ gone[Peer(x)]
        BY <3>1, <2>3 DEF FlushFails, Dead
      <4>2. Excuse(x)
        BY <4>1, <1>c DEF CloseInv, ShutInv
      <4>3. QED
        BY <4>2, <1>e
    <3>2. CASE WriteFails(e, h)
      BY <3>2, <2>1, <2>3, <1>t, <1>h DEF WriteFails, Goto, Return
    <3>3. CASE Lock(e, h) \/ WriteHeader(e, h)
      BY <3>3, <2>3, <1>t, <1>h DEF Lock, WriteHeader, Goto
    <3>4. CASE WritePayload(e, h) \/ FlushOk(e, h)
      BY <3>4, <2>1, <2>3, <1>t, <1>h DEF WritePayload, AfterWrite, FlushOk, Goto
    <3>5. CASE CloseOk(e, h) \/ CloseFails(e, h)
      BY <3>5, <2>3, <1>t DEF CloseOk, CloseFails, ReportClosed
    <3>6. QED
      BY <1>3, <3>1, <3>2, <3>3, <3>4, <3>5 DEF Step
  <2>4. QED
    BY <2>2, <2>3
<1>4. ASSUME NEW e \in Ends, SenderCall(e) \/ ReceiveCall(e) PROVE Excuse(x)'
  <2>1. CASE SenderCall(e)
    BY <2>1, <1>1, <1>t, <1>h DEF SenderCall, Goto
  <2>2. CASE ReceiveCall(e)
    BY <2>2, <1>1, <1>t, <1>h DEF ReceiveCall, Return, At
  <2>3. QED
    BY <1>4, <2>1, <2>2
<1>5. ASSUME NEW e \in Ends, ReadHeader(e) PROVE Excuse(x)'
  <2>1. CASE x # e
    BY <2>1, <1>5, <1>1, <1>t, <1>h DEF ReadHeader, Goto
  <2>2. CASE x = e
    BY <2>2, <1>5, <1>t, <1>h DEF ReadHeader, Goto
  <2>3. QED
    BY <2>1, <2>2
<1>6. ASSUME NEW e \in Ends, ReadPayload(e) PROVE Excuse(x)'
  <2>1. /\ is_closed' = is_closed
        /\ \/ /\ job[e]["Receiver"].op \in Returned /\ job' = job
              /\ pc' = [pc EXCEPT ![e]["Receiver"] = "idle"]
           \/ /\ job' = [job EXCEPT ![e]["Receiver"] = Answer(job[e]["Receiver"])]
              /\ pc' = [pc EXCEPT ![e]["Receiver"] = "lock"]
    BY <1>6 DEF ReadPayload, Goto, Return
  <2>2. CASE x # e
    BY <2>1, <2>2, <1>1, <1>t, <1>h
  <2>3. CASE x = e
    BY <2>1, <2>3, <1>t, <1>h DEF Returned, DataOps
  <2>4. QED
    BY <2>2, <2>3
<1>7. ASSUME NEW e \in Ends, ReadEof(e) PROVE Excuse(x)'
  <2>1. /\ UNCHANGED <<job, is_closed>>
        /\ pc' = [pc EXCEPT ![e]["Receiver"] = "idle"]
        /\ ~gone[e] /\ pc[e]["Receiver"] \in {"recv", "body"}
        /\ shut[Peer(e)] \/ gone[Peer(e)]
        /\ InFlight(Peer(e)) = 0
    BY <1>7 DEF ReadEof, Return, At
  <2>2. CASE x # e
    BY <2>1, <2>2, <1>1, <1>t, <1>h
  <2>3. CASE x = e /\ pc[e]["Receiver"] = "recv"
    BY <2>1, <2>3, <1>1, <1>t, <1>h
  <2>4. CASE x = e /\ pc[e]["Receiver"] = "body"
    <3>1. rd[Peer(x)] = drained[Peer(x)]
      BY <2>1, <2>4, <1>p DEF InFlight, CloseInv, Inv, TypeOK, TransportOK
    <3>2. wire[Peer(x)][rd[Peer(x)]].part = "header"
      <4>1. wire[Peer(x)][rd[Peer(x)]] = [part |-> "header", frame |-> job[x]["Receiver"]]
        BY <2>4 DEF CloseInv, Inv, ReadInv
      <4>2. QED
        BY <4>1
    <3>3. gone[Peer(x)]
      BY <3>1, <3>2, <2>1, <2>4, <1>p DEF CloseInv, ShutInv
    <3>4. QED
      BY <3>3, <1>e
  <2>5. QED
    BY <2>1, <2>2, <2>3, <2>4
<1>8. ASSUME NEW e \in Ends, Drain(e) \/ Crash(e) \/ Drop(e) PROVE Excuse(x)'
  BY <1>1, <1>8 DEF Drain, Crash, Drop
<1>9. QED
  BY <1>2, <1>3, <1>4, <1>5, <1>6, <1>7, <1>8 DEF Next, Read

-----------------------------------------------------------------------------
(* Theorems.                                                               *)

\* The parts together are inductive.
LEMMA CloseNext == CloseInv /\ [Next]_vars => CloseInv'
<1>1. CloseInv /\ [Next]_vars => Inv'
  BY InvNext DEF CloseInv
<1>2. QED
  BY <1>1, JobNext, FlushNext, WrittenNext, ShutNext, LastNext, LostNext DEF CloseInv

\* The invariant holds in every reachable state.
LEMMA CloseInvariance == Spec => []CloseInv
BY CloseInit, CloseNext, PTL DEF Spec

\* When flush or close returns Ok, or the receive loop goes on after an answer,
\* nothing that this half has written is left in the write buffer.
THEOREM AnswersReachTheNetwork == Spec => []AnswersAreFlushed
<1>1. CloseInv => AnswersAreFlushed
  BY DEF CloseInv, FlushInv, Settled, AnswersAreFlushed
<1>2. QED
  BY <1>1, CloseInvariance, PTL

\* A live end never shuts its writer without a CLOSE frame on the network.
THEOREM NoBareEndOfStream == Spec => []ShutAfterClose
<1>1. CloseInv => ShutAfterClose
  BY DEF CloseInv, ShutInv, CloseAmong, ShutAfterClose
<1>2. QED
  BY <1>1, CloseInvariance, PTL

\* After its own CLOSE frame a half puts nothing more on the network, whatever
\* the application goes on to call.
THEOREM NothingAfterOwnClose == Spec => []CloseIsLastOfItsHalf
<1>1. CloseInv => CloseIsLastOfItsHalf
  BY DEF CloseInv, LastInv, OneClose, CloseIsLastOfItsHalf
<1>2. QED
  BY <1>1, CloseInvariance, PTL

\* The CLOSE that a Receiver reads is reported to the application, unless this
\* end's Sender has sent a CLOSE of its own or the peer has vanished.
THEOREM CloseIsReported == Spec => []CloseReported
<1>1. CloseInv => CloseReported
  BY DEF CloseInv, LostInv, CloseAmong, CloseReasonLost, SenderClosed, CloseReported
<1>2. QED
  BY <1>1, CloseInvariance, PTL

=============================================================================
