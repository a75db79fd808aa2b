------------------------------ MODULE Connection ------------------------------
(***************************************************************************)
(* The two ends of one websocket after the handshake (src/connection.rs).  *)
(*                                                                         *)
(* Each end is a Sender and a Receiver.  They run as independent tasks and *)
(* share the writing half of the socket through a BiLock: both write       *)
(* frames (the Receiver answers PING and CLOSE), and every lock().await in *)
(* the code is a point where the other half may run first.                 *)
(*                                                                         *)
(* A frame is two tokens, one for each write_all of the function write:    *)
(* its header and its payload.  wire[e] is the history of the tokens that  *)
(* end e's writer has accepted; drained[e] counts those that have left the *)
(* writer's buffer for the network (the examples wrap the socket in a      *)
(* BufWriter) and rd[e] those that the peer has read.  So                  *)
(*      wire[e][drained[e]+1 ..]  is the content of the write buffer and   *)
(*      wire[e][rd[e]+1 .. drained[e]]  is in flight.                      *)
(*                                                                         *)
(* A Sender never fragments a message (Header::new sets fin and nothing on *)
(* this path clears it), so frames between two such ends are always final. *)
(***************************************************************************)
EXTENDS Naturals, Sequences, FiniteSets

CONSTANTS
  Ops,        \* Ops[e]: the methods end e's application calls on its Sender
  MaxSends,   \* bound: MaxSends[e] is the number of Sender calls of end e
  OutCap,     \* capacity of the write buffer, in tokens
  PipeCap,    \* capacity of the network, in tokens
  Fragile     \* the ends whose process may die at any moment

Ends   == {"client", "server"}
Halves == {"Sender", "Receiver"}

Peer(e) == IF e = "client" THEN "server" ELSE "client"

DataOps == {"Text", "Binary"}
OpCodes == DataOps \cup {"Ping", "Pong", "Close"}
Calls   == OpCodes \cup {"Flush"}

ASSUME ConnectionAssumption ==
  /\ Ops \in [Ends -> SUBSET Calls]
  /\ MaxSends \in [Ends -> Nat]
  /\ OutCap \in Nat \ {0}
  /\ PipeCap \in Nat \ {0}
  /\ Fragile \subseteq Ends

VARIABLES
  wire,       \* wire[e]: tokens accepted by e's writer so far
  drained,    \* drained[e]: how many of them have left the write buffer
  rd,         \* rd[e]: how many of them the peer's Receiver has read
  shut,       \* shut[e]: e's writing half has been closed
  gone,       \* gone[e]: e's socket has been dropped
  writer,     \* writer[e]: holder of e's BiLock<WriteHalf>
  pc,         \* pc[e][h]: where half h of end e is
  job,        \* job[e][h]: the frame half h is sending or has read
  res,        \* res[e][h]: result of the last completed call
  nsent,      \* nsent[e]: number of Sender calls made
  is_closed,  \* is_closed[e]: Receiver::is_closed
  got         \* got[e]: what Receiver::receive returned, in order

transport == <<wire, drained, rd, shut, gone>>
vars == <<wire, drained, rd, shut, gone, writer, pc, job, res, nsent, is_closed, got>>

Frames == [op : Calls, id : Nat, by : Halves]
Tokens == [part : {"header", "payload"}, frame : Frames]

Waiting == {"lock", "flushLock", "closeLock"}          \* at lock().await
Holding == {"header", "payload", "flush", "close"}     \* between lock and drop of the guard
Reading == {"recv", "body"}                            \* in receive_header / reading a payload
PCs     == {"idle"} \cup Waiting \cup Holding \cup Reading

TransportOK ==
  /\ wire \in [Ends -> Seq(Tokens)]
  /\ drained \in [Ends -> Nat]
  /\ rd \in [Ends -> Nat]
  /\ shut \in [Ends -> BOOLEAN]
  /\ gone \in [Ends -> BOOLEAN]
  /\ \A e \in Ends : rd[e] <= drained[e] /\ drained[e] <= Len(wire[e])

HalvesOK ==
  /\ writer \in [Ends -> Halves \cup {"free"}]
  /\ pc \in [Ends -> [Halves -> PCs]]
  /\ job \in [Ends -> [Halves -> Frames]]
  /\ res \in [Ends -> [Halves -> {"ok", "Closed"}]]

CallsOK ==
  /\ nsent \in [Ends -> Nat]
  /\ is_closed \in [Ends -> BOOLEAN]
  /\ got \in [Ends -> Seq(Frames)]

\* Every variable has its type and the cursors into the wire are in order: the
\* network never holds more than was written, nor the Receiver reads more than
\* the network holds.
TypeOK == TransportOK /\ HalvesOK /\ CallsOK

NoJob(h) == [op |-> "Flush", id |-> 0, by |-> h]

\* Builder::finish: a fresh lock, empty buffers, is_closed = false.
Init ==
  /\ wire = [e \in Ends |-> <<>>]
  /\ drained = [e \in Ends |-> 0]
  /\ rd = [e \in Ends |-> 0]
  /\ shut = [e \in Ends |-> FALSE]
  /\ gone = [e \in Ends |-> FALSE]
  /\ writer = [e \in Ends |-> "free"]
  /\ pc = [e \in Ends |-> [h \in Halves |-> "idle"]]
  /\ job = [e \in Ends |-> [h \in Halves |-> NoJob(h)]]
  /\ res = [e \in Ends |-> [h \in Halves |-> "ok"]]
  /\ nsent = [e \in Ends |-> 0]
  /\ is_closed = [e \in Ends |-> FALSE]
  /\ got = [e \in Ends |-> <<>>]

-----------------------------------------------------------------------------
(* The transport, seen from its users.                                     *)

Unsent(e)   == Len(wire[e]) - drained[e]
InFlight(e) == drained[e] - rd[e]

\* Bytes that e hands to the socket can no longer reach the peer.
Dead(e) == shut[e] \/ gone[Peer(e)]

\* The write buffer passes one token on.
Drain(e) ==
  /\ ~gone[e] /\ ~Dead(e)
  /\ Unsent(e) > 0
  /\ InFlight(e) < PipeCap
  /\ drained' = [drained EXCEPT ![e] = @ + 1]
  /\ UNCHANGED <<wire, rd, shut, gone, writer, pc, job, res, nsent, is_closed, got>>

\* End e's process dies; what its write buffer holds is lost.
Crash(e) ==
  /\ e \in Fragile /\ ~gone[e]
  /\ gone' = [gone EXCEPT ![e] = TRUE]
  /\ UNCHANGED <<wire, drained, rd, shut, writer, pc, job, res, nsent, is_closed, got>>

\* The application learns that the connection is closed and drops it, as the
\* receive loops of the examples do.
Drop(e) ==
  /\ ~gone[e]
  /\ pc[e]["Receiver"] = "idle"
  /\ is_closed[e] \/ res[e]["Receiver"] = "Closed"
  /\ gone' = [gone EXCEPT ![e] = TRUE]
  /\ UNCHANGED <<wire, drained, rd, shut, writer, pc, job, res, nsent, is_closed, got>>

-----------------------------------------------------------------------------
(* Moving a half along, and returning from its current call.               *)

At(e, h, label) == ~gone[e] /\ pc[e][h] = label

Goto(e, h, label) ==
  /\ pc' = [pc EXCEPT ![e][h] = label]
  /\ UNCHANGED res

Return(e, h, result) ==
  /\ pc' = [pc EXCEPT ![e][h] = "idle"]
  /\ res' = [res EXCEPT ![e][h] = result]

\* Dropping the BiLock guard.
Unlock(e) == writer' = [writer EXCEPT ![e] = "free"]

\* writer.lock().await
Lock(e, h) ==
  /\ ~gone[e]
  /\ writer[e] = "free"
  /\ writer' = [writer EXCEPT ![e] = h]
  /\ \/ pc[e][h] = "lock" /\ Goto(e, h, "header")
     \/ pc[e][h] = "flushLock" /\ Goto(e, h, "flush")
     \/ pc[e][h] = "closeLock" /\ Goto(e, h, "close")
  /\ UNCHANGED <<transport, job, nsent, is_closed, got>>

\* A write_all: the buffer takes the token.  A buffered writer does so even
\* when nothing can leave it any more.
Put(e, token) ==
  /\ Unsent(e) < OutCap
  /\ wire' = [wire EXCEPT ![e] = Append(@, token)]

\* Mutant: the guard is a temporary and is dropped after the first write_all.
WriteHeaderUnlocks(e, h) ==
  /\ At(e, h, "header")
  /\ Put(e, [part |-> "header", frame |-> job[e][h]])
  /\ Unlock(e)
  /\ Goto(e, h, "payload")
  /\ UNCHANGED <<drained, rd, shut, gone, job, nsent, is_closed, got>>

\* w.write_all(&header_bytes)
WriteHeader(e, h) ==
  /\ At(e, h, "header")
  /\ Put(e, [part |-> "header", frame |-> job[e][h]])
  /\ Goto(e, h, "payload")
  /\ UNCHANGED <<drained, rd, shut, gone, writer, job, nsent, is_closed, got>>

\* Mutant: on_control does not flush the PONG.
AfterWriteNoFlush(e, h) ==
  IF job[e][h].op = "Close"
  THEN Goto(e, h, "flushLock")
  ELSE IF h = "Receiver" THEN Goto(e, h, "recv") ELSE Return(e, h, "ok")

\* What follows a successful write: Sender::close and the answers of
\* on_control go on to flush, every other send returns to the application.
AfterWrite(e, h) ==
  IF h = "Receiver" \/ job[e][h].op = "Close"
  THEN Goto(e, h, "flushLock")
  ELSE Return(e, h, "ok")

\* w.write_all(data); write returns and the guard is dropped.
WritePayload(e, h) ==
  /\ At(e, h, "payload")
  /\ Put(e, [part |-> "payload", frame |-> job[e][h]])
  /\ Unlock(e)
  /\ AfterWrite(e, h)
  /\ UNCHANGED <<drained, rd, shut, gone, job, nsent, is_closed, got>>

\* Either write_all fails.  Every caller propagates the error except the
\* CLOSE answer, which ignores it and goes on to flush.
WriteFails(e, h) ==
  /\ At(e, h, "header") \/ At(e, h, "payload")
  /\ Dead(e)
  /\ Unlock(e)
  /\ IF h = "Receiver" /\ job[e][h].op = "Close"
     THEN Goto(e, h, "flushLock")
     ELSE Return(e, h, "Closed")
  /\ UNCHANGED <<transport, job, nsent, is_closed, got>>

\* writer.flush().await completes.  A PONG answer resumes the receive loop,
\* both closing paths go on to close the writer.
FlushOk(e, h) ==
  /\ At(e, h, "flush")
  /\ Unsent(e) = 0
  /\ Unlock(e)
  /\ \/ job[e][h].op = "Close" /\ Goto(e, h, "closeLock")
     \/ job[e][h].op # "Close" /\ h = "Receiver" /\ Goto(e, h, "recv")
     \/ job[e][h].op # "Close" /\ h = "Sender" /\ Return(e, h, "ok")
  /\ UNCHANGED <<transport, job, nsent, is_closed, got>>

\* writer.flush().await fails: or(Err(Error::Closed))? in every caller.
FlushFails(e, h) ==
  /\ At(e, h, "flush")
  /\ Dead(e) /\ Unsent(e) > 0
  /\ Unlock(e)
  /\ Return(e, h, "Closed")
  /\ UNCHANGED <<transport, job, nsent, is_closed, got>>

\* The control frame whose payload is still in Receiver::ctrl_buffer.
LastRead(e) == wire[Peer(e)][rd[Peer(e)]].frame

\* Mutant: on_control forgets to set is_closed.
ReportClosedUnset(e) ==
  /\ UNCHANGED is_closed
  /\ got' = [got EXCEPT ![e] = Append(@, LastRead(e))]

\* The end of on_control for CLOSE, whether or not closing the writer failed:
\* Incoming::Closed with the reason from the peer's frame.
ReportClosed(e) ==
  /\ is_closed' = [is_closed EXCEPT ![e] = TRUE]
  /\ got' = [got EXCEPT ![e] = Append(@, LastRead(e))]

\* Mutant: closing does not close the writing half.
CloseKeepsOpen(e, h) ==
  /\ At(e, h, "close")
  /\ Unsent(e) = 0
  /\ Unlock(e)
  /\ Return(e, h, "ok")
  /\ IF h = "Receiver" THEN ReportClosed(e) ELSE UNCHANGED <<is_closed, got>>
  /\ UNCHANGED <<transport, job, nsent>>

\* writer.close().await completes
CloseOk(e, h) ==
  /\ At(e, h, "close")
  /\ Unsent(e) = 0
  /\ shut' = [shut EXCEPT ![e] = TRUE]
  /\ Unlock(e)
  /\ Return(e, h, "ok")
  /\ IF h = "Receiver" THEN ReportClosed(e) ELSE UNCHANGED <<is_closed, got>>
  /\ UNCHANGED <<wire, drained, rd, gone, job, nsent>>

\* writer.close().await fails; the Receiver ignores that.
CloseFails(e, h) ==
  /\ At(e, h, "close")
  /\ Dead(e)
  /\ Unlock(e)
  /\ IF h = "Receiver"
     THEN Return(e, h, "ok") /\ ReportClosed(e)
     ELSE Return(e, h, "Closed") /\ UNCHANGED <<is_closed, got>>
  /\ UNCHANGED <<transport, job, nsent>>

-----------------------------------------------------------------------------
(* The Sender's methods: send_text, send_binary, send_ping, send_pong,     *)
(* close and flush.                                                        *)

\* Mutant: close flushes and closes the socket without a CLOSE frame.
FirstStepNoFrame(op) == IF op \in {"Flush", "Close"} THEN "flushLock" ELSE "lock"

\* Every method but flush starts by writing a frame.
FirstStep(op) == IF op = "Flush" THEN "flushLock" ELSE "lock"

SenderCall(e) == \E op \in Ops[e] :
  /\ At(e, "Sender", "idle")
  /\ nsent[e] < MaxSends[e]
  /\ nsent' = [nsent EXCEPT ![e] = @ + 1]
  /\ job' = [job EXCEPT ![e]["Sender"] = [op |-> op, id |-> nsent[e] + 1, by |-> "Sender"]]
  /\ Goto(e, "Sender", FirstStep(op))
  /\ UNCHANGED <<transport, writer, is_closed, got>>

-----------------------------------------------------------------------------
(* Receiver::receive.                                                      *)

\* Mutant: receive does not look at is_closed.
ReceiveUnchecked(e) ==
  /\ At(e, "Receiver", "idle")
  /\ pc' = [pc EXCEPT ![e]["Receiver"] = "recv"]
  /\ res' = [res EXCEPT ![e]["Receiver"] = "ok"]
  /\ UNCHANGED <<transport, writer, job, nsent, is_closed, got>>

\* The application calls receive.
ReceiveCall(e) ==
  /\ At(e, "Receiver", "idle")
  /\ IF is_closed[e]
     THEN Return(e, "Receiver", "Closed")
     ELSE pc' = [pc EXCEPT ![e]["Receiver"] = "recv"] /\ res' = [res EXCEPT ![e]["Receiver"] = "ok"]
  /\ UNCHANGED <<transport, writer, job, nsent, is_closed, got>>

\* The next token that the peer has sent to e.
NextToken(e) == wire[Peer(e)][rd[Peer(e)] + 1]

\* Mutant: read does not cut its buffer to what has arrived.
TakeAhead(e) ==
  /\ rd[Peer(e)] < Len(wire[Peer(e)])
  /\ rd' = [rd EXCEPT ![Peer(e)] = @ + 1]

\* crate::read and read_exact: consuming it from the socket.
Take(e) ==
  /\ rd[Peer(e)] < drained[Peer(e)]
  /\ rd' = [rd EXCEPT ![Peer(e)] = @ + 1]

\* receive_header decodes a header.
ReadHeader(e) ==
  /\ At(e, "Receiver", "recv")
  /\ Take(e)
  /\ NextToken(e).part = "header"
  /\ job' = [job EXCEPT ![e]["Receiver"] = NextToken(e).frame]
  /\ Goto(e, "Receiver", "body")
  /\ UNCHANGED <<wire, drained, shut, gone, writer, nsent, is_closed, got>>

\* Mutant: receive does not return at a PONG.
ReturnedDataOnly == DataOps

\* What receive returns as soon as it has been read.
Returned == DataOps \cup {"Pong"}

\* The frame that on_control answers with: the code or payload is echoed.
Answer(frame) ==
  [op |-> IF frame.op = "Close" THEN "Close" ELSE "Pong", id |-> frame.id, by |-> "Receiver"]

\* The payload has been read: data and PONG are returned, PING and CLOSE are
\* answered by on_control.
ReadPayload(e) ==
  /\ At(e, "Receiver", "body")
  /\ Take(e)
  /\ LET frame == job[e]["Receiver"] IN
       /\ NextToken(e) = [part |-> "payload", frame |-> frame]
       /\ \/ /\ frame.op \in Returned
             /\ got' = [got EXCEPT ![e] = Append(@, frame)]
             /\ Return(e, "Receiver", "ok")
             /\ UNCHANGED job
          \/ /\ frame.op \notin Returned
             /\ job' = [job EXCEPT ![e]["Receiver"] = Answer(frame)]
             /\ Goto(e, "Receiver", "lock")
             /\ UNCHANGED got
  /\ UNCHANGED <<wire, drained, shut, gone, writer, nsent, is_closed>>

\* Mutant: a read of 0 bytes is tried again.
ReadEofIgnored(e) ==
  /\ At(e, "Receiver", "recv") \/ At(e, "Receiver", "body")
  /\ shut[Peer(e)] \/ gone[Peer(e)]
  /\ InFlight(Peer(e)) = 0
  /\ UNCHANGED vars

\* A read returns 0 bytes: UnexpectedEof becomes Error::Closed.
ReadEof(e) ==
  /\ At(e, "Receiver", "recv") \/ At(e, "Receiver", "body")
  /\ shut[Peer(e)] \/ gone[Peer(e)]
  /\ InFlight(Peer(e)) = 0
  /\ Return(e, "Receiver", "Closed")
  /\ UNCHANGED <<transport, writer, job, nsent, is_closed, got>>

-----------------------------------------------------------------------------
\* The steps of a call in progress.
Step(e, h) ==
  \/ Lock(e, h)
  \/ WriteHeader(e, h)
  \/ WritePayload(e, h)
  \/ WriteFails(e, h)
  \/ FlushOk(e, h)
  \/ FlushFails(e, h)
  \/ CloseOk(e, h)
  \/ CloseFails(e, h)

Read(e) == ReadHeader(e) \/ ReadPayload(e) \/ ReadEof(e)

Next == \E e \in Ends :
  \/ \E h \in Halves : Step(e, h)
  \/ SenderCall(e)
  \/ ReceiveCall(e)
  \/ Read(e)
  \/ Drain(e)
  \/ Crash(e)
  \/ Drop(e)

Spec == Init /\ [][Next]_vars

\* The transport must pass a token on when a flush or close waits for it, or
\* when a write waits for room.  Nothing obliges it to do so otherwise.
DemandedDrain(e) ==
  /\ Drain(e)
  /\ \E h \in Halves : \/ pc[e][h] \in {"flush", "close"}
                       \/ pc[e][h] \in {"header", "payload"} /\ Unsent(e) = OutCap

\* The application calls receive again after every successful one (lib.rs:
\* "calling Receiver::receive is imperative").
KeepReceiving(e) == ReceiveCall(e) /\ ~is_closed[e] /\ res[e]["Receiver"] = "ok"

Fairness == \A e \in Ends :
  /\ \A h \in Halves : WF_vars(Step(e, h))
  /\ WF_vars(KeepReceiving(e))
  /\ WF_vars(Read(e))
  /\ WF_vars(DemandedDrain(e))
  /\ WF_vars(Drop(e))

FairSpec == Spec /\ Fairness

-----------------------------------------------------------------------------
(* Properties.                                                             *)

\* The frames that are complete within the first n tokens of wire[e].  Frames
\* are never torn (FrameSync), so the k-th one ends at token 2k.
FramesUpTo(e, n) == [k \in 1 .. n \div 2 |-> wire[e][2 * k].frame]

\* The frames that have left e's write buffer.
SentFrames(e) == FramesUpTo(e, drained[e])

\* The frames e's Receiver has read.
ReadFrames(e) == FramesUpTo(Peer(e), rd[Peer(e)])

\* A Receiver that is about to read a header finds the header of a frame, and
\* one that is about to read a payload finds the payload of that frame: the
\* header and the payload written by one half are never torn apart by the
\* other half of the same end, whatever the order of their lock requests.
FrameSync == \A e \in Ends : rd[Peer(e)] < drained[Peer(e)] =>
  /\ pc[e]["Receiver"] = "recv" => NextToken(e).part = "header"
  /\ pc[e]["Receiver"] = "body" =>
       NextToken(e) = [part |-> "payload", frame |-> job[e]["Receiver"]]

\* The positions of the PINGs, and of the answers to PINGs, among frames.
Pings(frames) == {i \in 1..Len(frames) : frames[i].op = "Ping"}
Answers(frames) == {i \in 1..Len(frames) : frames[i].op = "Pong" /\ frames[i].by = "Receiver"}

\* How many members of a set of positions are at i or before.
Rank(positions, i) == Cardinality({j \in positions : j <= i})

\* The answers to PINGs that reach the network are the PINGs read, in their
\* order, each answered once and with its own payload: the n-th answer answers
\* the n-th PING.
PongsMirrorPings == \A e \in Ends :
  LET pings == Pings(ReadFrames(e))
      pongs == Answers(SentFrames(e))
  IN  \A j \in pongs : \E i \in pings :
        /\ Rank(pings, i) = Rank(pongs, j)
        /\ SentFrames(e)[j].id = ReadFrames(e)[i].id

\* When flush or close returns Ok to the application, or the receive loop goes
\* on after answering a PING, everything this half has written is on the
\* network: no answer is left behind in a buffer that nobody will flush.
AnswersAreFlushed == \A e \in Ends, h \in Halves :
  /\ ~Dead(e)
  /\ res[e][h] = "ok"
  /\ \/ h = "Sender" /\ pc[e][h] = "idle" /\ job[e][h].op \in {"Flush", "Close"}
     \/ h = "Receiver" /\ pc[e][h] \in {"idle", "recv", "body"}
  => \A i \in drained[e] + 1 .. Len(wire[e]) : wire[e][i].frame.by # h

\* A writer is only ever shut after a CLOSE frame has gone out on it, unless
\* the peer has vanished (when on_control ignores that its CLOSE was not
\* written): the peer never sees a bare end of stream from a live end.
ShutAfterClose == \A e \in Ends :
  shut[e] => \/ \E i \in 1..drained[e] : wire[e][i].part = "payload" /\ wire[e][i].frame.op = "Close"
             \/ gone[Peer(e)]

\* Neither half puts anything on the network after its own CLOSE frame, even
\* if the application goes on calling the Sender.
CloseIsLastOfItsHalf == \A e \in Ends : \A i, j \in 1..drained[e] :
  /\ i < j
  /\ wire[e][i].frame.op = "Close"
  /\ wire[e][j].frame.by = wire[e][i].frame.by
  => wire[e][j].frame = wire[e][i].frame

\* The Receiver read a CLOSE frame and has returned something other than
\* Incoming::Closed for it.
CloseReasonLost(e) ==
  /\ pc[e]["Receiver"] = "idle"
  /\ job[e]["Receiver"].op = "Close" /\ job[e]["Receiver"].by = "Receiver"
  /\ ~is_closed[e]

\* The Sender of e has sent a CLOSE frame.
SenderClosed(e) == \E i \in 1..drained[e] :
  wire[e][i].frame.op = "Close" /\ wire[e][i].frame.by = "Sender"

\* A CLOSE frame is reported to the application, unless this end's own Sender
\* has closed the connection at the same time or the peer has vanished.
CloseReported == \A e \in Ends : CloseReasonLost(e) => SenderClosed(e) \/ gone[Peer(e)]

\* What the comment in on_control promises: no error of an I/O stream that is
\* already closed hides the close reason.
CloseAlwaysReported == \A e \in Ends : ~CloseReasonLost(e)

\* RFC 6455, 5.5.1, for both halves of an end together: no data frame follows
\* a CLOSE frame.
NoDataAfterClose == \A e \in Ends : \A i, j \in 1..drained[e] :
  i < j /\ wire[e][i].frame.op = "Close" => wire[e][j].frame.op \notin DataOps

\* The end of receiving: Incoming::Closed or Error::Closed was returned.
ReceiverDone(e) == is_closed[e] \/ res[e]["Receiver"] = "Closed"

\* Once one end has shut its writer, the receive of either end stops: the
\* CLOSE is answered and reported, or the stream ends.
CloseCompletes == \A e, x \in Ends : shut[e] ~> ReceiverDone(x) \/ gone[x]

\* The peer's Receiver has returned the answer to e's PING number n.
PingReturned(e, n) == \E i \in 1..Len(got[e]) :
  got[e][i].op = "Pong" /\ got[e][i].by = "Receiver" /\ got[e][i].id = n

\* A PING that has reached the network is answered, and the answer returned to
\* the application that sent it, unless the connection ends.
PingAnswered == \A e \in Ends : \A n \in 1..MaxSends[e] :
  (\E i \in 1..Len(SentFrames(e)) : SentFrames(e)[i] = [op |-> "Ping", id |-> n, by |-> "Sender"])
    ~> PingReturned(e, n) \/ \E x \in Ends : shut[x] \/ gone[x]

-----------------------------------------------------------------------------
(* The connection implements the abstract channel of MessageChannel.       *)

\* The Receiver has read a CLOSE and is still answering it.
AnsweringClose(e) ==
  /\ job[e]["Receiver"].op = "Close" /\ job[e]["Receiver"].by = "Receiver"
  /\ pc[e]["Receiver"] \notin {"idle", "recv", "body"}

Ids == 1 .. (IF MaxSends["client"] > MaxSends["server"] THEN MaxSends["client"] ELSE MaxSends["server"])

Channel == INSTANCE MessageChannel WITH
  Messages <- [op : DataOps \cup {"Pong"}, id : Ids, by : Halves],
  Probes   <- [op : {"Ping"}, id : Ids, by : Halves],
  Closes   <- [op : {"Close"}, id : Ids, by : Halves],
  sent     <- [e \in Ends |-> SentFrames(e)],
  consumed <- [e \in Ends |-> Len(ReadFrames(e)) - (IF AnsweringClose(e) THEN 1 ELSE 0)],
  received <- got

\* The applications see a FIFO channel in each direction: messages arrive
\* complete, once and in the order of the Sender's calls, and Incoming::Closed
\* comes after all that were sent before the CLOSE and is the last result.
ImplementsChannel == Channel!Spec

=============================================================================
