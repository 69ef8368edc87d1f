-------------------------- MODULE SolveRouteProofs --------------------------
(***************************************************************************)
(* Theorems about SolveRoute for every number of connections, descriptors, *)
(* points, queue places and threads:                                       *)
(*                                                                         *)
(*   TypeCorrect        every variable keeps its type;                     *)
(*   WorkerProgress     WorkersAdvance;                                    *)
(*   ForeignBytes       ForeignBytesAreStale.                              *)
(*                                                                         *)
(* The types are not inductive: HioWrite takes the head of todo[c], which  *)
(* must not be empty; that is CallsInv, and WorkerProgress holds of every  *)
(* step from a state with the types and CallsInv.  Where a frame goes      *)
(* depends on how sockets and descriptors belong together: that is         *)
(* OwnersInv.  Both hold whether or not a descriptor is used again under   *)
(* a worker.  SocketInv adds what is true only while none is: a worker     *)
(* between isOpened() and hio_write() still has its own socket or none.    *)
(* The theorems about the answers, in SolveAnswerProofs, rest on it.       *)
(***************************************************************************)
EXTENDS SolveRoute, TLAPS

\* A worker that has passed isOpened() has a frame to write, and a thread that
\* does not exist has none.
CallsInv ==
  \A c \in Conn : /\ armed[c] => todo[c] # <<>>
                  /\ pc[c] = "none" => todo[c] = <<>>

IInv == TypeOK /\ CallsInv

\* An open hio_t and a live connection name each other.
OwnersInv ==
  /\ \A f \in Fd : hio[f] # NoConn => fd[hio[f]] = f /\ Live(hio[f])
  /\ \A c \in Conn : Live(c) => hio[fd[c]] = c

\* Between isOpened() and hio_write() the worker's hio_t is its own or closed.
SocketInv ==
  /\ OwnersInv
  /\ \A c \in Conn : armed[c] => hio[fd[c]] \in {c, NoConn}
-----------------------------------------------------------------------------
(* The operators of the writer and of the client's parser.                 *)

LEMMA FrameTypes ==
  /\ \A code \in Code : HeadFrame(code) \in Frame /\ FullFrame(code) \in Frame
  /\ \A items \in SUBSET Nat : ChunkFrame(items) \in Frame
  /\ LastFrame \in Frame
BY DEF HeadFrame, FullFrame, ChunkFrame, LastFrame, Frame, Code

\* The calls of HttpResponseWriter keep a writer a writer, and hand the socket
\* sequences of frames.
LEMMA WriterTypes ==
  ASSUME NEW w \in Writer, NEW r \in Response, NEW items \in SUBSET Nat
  PROVE  /\ Begin \in Writer /\ EndHeaders(w) \in Writer
         /\ WriteBody(w, r, items) \in Writer /\ End(w) \in Writer
         /\ EndHeadersOut(w, r) \in Seq(Frame)
         /\ WriteBodyOut(w, r, items) \in Seq(Frame)
         /\ EndOut(w, r) \in Seq(Frame)
<1>1. Begin \in Writer /\ EndHeaders(w) \in Writer /\ End(w) \in Writer
  BY DEF Begin, EndHeaders, End, Writer, WriterState
<1>2. WriteBody(w, r, items) \in Writer
  BY DEF WriteBody, WriteChunked, Writer, WriterState
<1>3. r.code \in Code
  BY DEF Response
<1>4. EndHeadersOut(w, r) \in Seq(Frame)
  BY <1>3, FrameTypes DEF EndHeadersOut
<1>5. WriteBodyOut(w, r, items) \in Seq(Frame)
  BY <1>4, FrameTypes DEF WriteBodyOut, WriteChunkedOut
<1>6. EndOut(w, r) \in Seq(Frame)
  BY <1>3, FrameTypes DEF EndOut
<1>7. QED
  BY <1>1, <1>2, <1>4, <1>5, <1>6

\* The client's parser stays in a state of the parser, and learns of a source
\* only from the frame it is given.
LEMMA ReceiveTypes ==
  ASSUME NEW s \in Stream(Conn), NEW f \in Frame, NEW from \in Conn
  PROVE  /\ Receive(s, f, from) \in Stream(Conn)
         /\ Receive(s, f, from).src = s.src \cup {from}
BY DEF Receive, Stream, Frame

LEMMA FreshTypes ==
  /\ Begin \in Writer
  /\ \A keepAlive \in BOOLEAN : FreshResponse(keepAlive) \in Response
  /\ EmptyStream \in Stream(Conn)
BY DEF Begin, Writer, WriterState, FreshResponse, Response, Code, EmptyStream, Stream
-----------------------------------------------------------------------------
(* Type correctness.                                                       *)

\* The unfinished calls of a worker.
LEMMA CallsStep == IInv /\ [Next]_vars => CallsInv'
<1> SUFFICES ASSUME IInv, [Next]_vars PROVE CallsInv'
  OBVIOUS
<1> USE DEF IInv, CallsInv
<1>T. /\ DOMAIN pc = Conn /\ DOMAIN todo = Conn /\ DOMAIN armed = Conn
  BY DEF TypeOK, WorkerTypes
<1>0. CASE UNCHANGED <<pc, todo, armed>>
  BY <1>0
<1>1. ASSUME NEW c \in Conn, LoopStep(c) PROVE CallsInv'
  BY <1>0, <1>1
  DEF LoopStep, Drain, LoopClose, ReadEof, SocketFails, KeepaliveTimeout, CloseTimeout, HioClose,
      CloseNow, workerVars
<1>2. ASSUME NEW c \in Conn, ClientStep(c) PROVE CallsInv'
  <2>1. CASE ClientLeaves(c)
    BY <1>0, <2>1 DEF ClientLeaves, workerVars
  <2>2. ASSUME NEW k, NEW keepAlive, NEW code, AnswerSync(c, k, code, keepAlive)
        PROVE  CallsInv'
    BY <1>0, <2>2 DEF AnswerSync, workerVars
  <2>3. ASSUME NEW k, NEW keepAlive, AcceptSolve(c, k, keepAlive) PROVE CallsInv'
    BY <1>T, <2>3 DEF AcceptSolve
  <2>4. QED
    BY <1>2, <2>1, <2>2, <2>3 DEF ClientStep, Ping, RejectSolve
<1>3. ASSUME NEW c \in Conn, WorkerStep(c) PROVE CallsInv'
  <2>1. CASE \/ StorePoint(c) \/ SolveReturns(c) \/ SolveThrows(c) \/ StreamHead(c)
             \/ StreamThrows(c)
    BY <1>T, <2>1 DEF StorePoint, SolveReturns, SolveThrows, StreamHead, StreamThrows, At, Goto
  <2>2. CASE Flush(c) \/ SerializePoint(c) \/ CloseDocument(c)
    <3>1. \A d \in Conn : after[d] # "none"
      BY DEF TypeOK, WorkerTypes
    <3>2. QED
      BY <1>T, <2>2, <3>1 DEF Flush, SerializePoint, CloseDocument, At, Goto
  <2>3. CASE Catch(c) \/ EndResponse(c) \/ CloseChannel(c) \/ ThreadExit(c)
    BY <1>T, <2>3 DEF Catch, EndResponse, CloseChannel, ThreadExit, At, Goto
  <2>4. CASE WriteCheck(c) \/ HioWrite(c)
    BY <1>T, <2>4 DEF WriteCheck, HioWrite
  <2>5. QED
    BY <1>3, <2>1, <2>2, <2>3, <2>4 DEF WorkerStep
<1>4. ASSUME NEW c \in Conn, NEW f \in Fd, Accept(c, f) PROVE CallsInv'
  BY <1>0, <1>4 DEF Accept, workerVars
<1>5. QED
  BY <1>0, <1>1, <1>2, <1>3, <1>4 DEF Next, vars, workerVars

\* Every step keeps every type, one group of variables at a time.  First the
\* groups a step leaves alone.
LEMMA TypesUnchanged ==
  /\ LoopTypes /\ UNCHANGED ioVars => LoopTypes'
  /\ SharedTypes /\ UNCHANGED sharedVars => SharedTypes'
  /\ WorkerTypes /\ UNCHANGED workerVars => WorkerTypes'
  /\ ClientTypes /\ UNCHANGED clientVars => ClientTypes'
BY DEF LoopTypes, SharedTypes, WorkerTypes, ClientTypes, ioVars, sharedVars,
       workerVars, clientVars

LEMMA LoopTypeStep ==
  ASSUME TypeOK, CallsInv, NEW c \in Conn, LoopStep(c)
  PROVE  TypeOK'
<1> USE ConnAssumption
<1>1. LoopTypes /\ SharedTypes /\ WorkerTypes /\ ClientTypes
  BY DEF TypeOK
<1>2. ASSUME CloseNow(c), err' \in [Conn -> {"none", "failed", "timeout"}] PROVE TypeOK'
  <2>1. LoopTypes'
    BY <1>1, <1>2 DEF CloseNow, LoopTypes
  <2>2. SharedTypes' /\ ClientTypes'
    BY <1>1, <1>2 DEF CloseNow, SharedTypes, ClientTypes
  <2>3. QED
    BY <1>1, <1>2, <2>1, <2>2, TypesUnchanged DEF CloseNow, TypeOK
<1>3. CASE Drain(c)
  <2>1. LoopTypes'
    <3>1. queue' \in [Conn -> Nat]
      BY <1>1, <1>3 DEF Drain, LoopTypes
    <3>2. CASE conn[c] = "closing" /\ queue[c] = 1
      BY <1>1, <1>3, <3>1, <3>2 DEF Drain, LoopTypes
    <3>3. CASE ~(conn[c] = "closing" /\ queue[c] = 1)
      BY <1>1, <1>3, <3>1, <3>3 DEF Drain, LoopTypes
    <3>4. QED
      BY <3>2, <3>3
  <2>2. SharedTypes' /\ ClientTypes'
    BY <1>1, <1>3 DEF Drain, SharedTypes, ClientTypes
  <2>3. QED
    BY <1>1, <1>3, <2>1, <2>2, TypesUnchanged DEF Drain, TypeOK
<1>4. CASE HioClose(c)
  <2>1. CASE queue[c] > 0 /\ err[c] = "none" /\ conn[c] = "open"
    <3>1. LoopTypes'
      BY <1>1, <1>4, <2>1 DEF HioClose, LoopTypes
    <3>2. QED
      BY <1>1, <1>4, <2>1, <3>1, TypesUnchanged DEF HioClose, TypeOK
  <2>2. CASE ~(queue[c] > 0 /\ err[c] = "none" /\ conn[c] = "open")
    BY <1>1, <1>2, <1>4, <2>2 DEF HioClose, LoopTypes
  <2>3. QED
    BY <2>1, <2>2
<1>5. CASE SocketFails(c) \/ KeepaliveTimeout(c) \/ CloseTimeout(c)
  BY <1>1, <1>2, <1>5 DEF SocketFails, KeepaliveTimeout, CloseTimeout, LoopTypes
<1>6. QED
  BY <1>3, <1>4, <1>5 DEF LoopStep, LoopClose, ReadEof

LEMMA ClientTypeStep ==
  ASSUME TypeOK, CallsInv, NEW c \in Conn,
         ClientStep(c) \/ \E f \in Fd : Accept(c, f)
  PROVE  TypeOK'
<1> USE ConnAssumption
<1>1. LoopTypes /\ SharedTypes /\ WorkerTypes /\ ClientTypes
  BY DEF TypeOK
<1>2. ASSUME NEW f \in Fd, Accept(c, f) PROVE TypeOK'
  <2>1. LoopTypes'
    BY <1>1, <1>2 DEF Accept, LoopTypes
  <2>2. SharedTypes'
    BY <1>1, <1>2, FreshTypes DEF Accept, SharedTypes
  <2>3. ClientTypes'
    BY <1>1, <1>2, FreshTypes DEF Accept, ClientTypes
  <2>4. QED
    BY <1>1, <1>2, <2>1, <2>2, <2>3, TypesUnchanged DEF Accept, TypeOK
<1>3. ASSUME NEW k \in RequestKind, NEW keepAlive \in BOOLEAN, NEW code \in Code,
             AnswerSync(c, k, code, keepAlive)
      PROVE  TypeOK'
  <2>1. Receive(EmptyStream, FullFrame(code), c) \in Stream(Conn)
    BY FreshTypes, FrameTypes, ReceiveTypes
  <2>2. LoopTypes'
    BY <1>1, <1>3 DEF AnswerSync, LoopTypes
  <2>3. SharedTypes'
    BY <1>1, <1>3, FreshTypes DEF AnswerSync, SharedTypes
  <2>4. ClientTypes'
    BY <1>1, <1>3, <2>1 DEF AnswerSync, Begins, ClientTypes
  <2>5. QED
    BY <1>1, <1>3, <2>2, <2>3, <2>4, TypesUnchanged DEF AnswerSync, TypeOK
<1>4. ASSUME NEW k \in RequestKind, NEW keepAlive \in BOOLEAN, AcceptSolve(c, k, keepAlive)
      PROVE  TypeOK'
  <2>1. LoopTypes'
    BY <1>1, <1>4 DEF AcceptSolve, LoopTypes
  <2>2. ResetWriter(c) \in Writer /\ ResetResponse(c, keepAlive) \in Response
    BY <1>1, FreshTypes DEF ResetWriter, ResetResponse, SharedTypes, Response
  <2>3. SharedTypes'
    BY <1>1, <1>4, <2>2 DEF AcceptSolve, SharedTypes
  <2>4. WorkerTypes'
    BY <1>1, <1>4, BoundsAssumption DEF AcceptSolve, WorkerTypes
  <2>5. ClientTypes'
    BY <1>1, <1>4, FreshTypes DEF AcceptSolve, Begins, ClientTypes
  <2>6. QED
    BY <2>1, <2>3, <2>4, <2>5 DEF TypeOK
<1>5. CASE ClientLeaves(c)
  <2>1. ClientTypes'
    BY <1>1, <1>5 DEF ClientLeaves, ClientTypes
  <2>2. QED
    BY <1>1, <1>5, <2>1, TypesUnchanged DEF ClientLeaves, TypeOK
<1>6. Requests \subseteq RequestKind /\ "ping" \in RequestKind /\ {200, 400} \subseteq Code
  BY RequestAssumption DEF RequestKind, Code
<1>7. QED
  BY <1>2, <1>3, <1>4, <1>5, <1>6 DEF ClientStep, Ping, RejectSolve

LEMMA WorkerTypeStep ==
  ASSUME TypeOK, CallsInv, NEW c \in Conn, WorkerStep(c)
  PROVE  TypeOK'
<1> USE BoundsAssumption
<1>1. LoopTypes /\ SharedTypes /\ WorkerTypes /\ ClientTypes
  BY DEF TypeOK
<1>2. writer[c] \in Writer /\ resp[c] \in Response /\ buffer[c] \in SUBSET Nat
  BY <1>1 DEF SharedTypes, WorkerTypes
<1>3. CASE StorePoint(c) \/ SolveReturns(c) \/ SolveThrows(c)
  <2>1. WorkerTypes'
    <3>1. CASE StorePoint(c)
      BY <1>1, <3>1 DEF StorePoint, WorkerTypes
    <3>2. CASE SolveReturns(c) \/ SolveThrows(c)
      BY <1>1, <3>2 DEF SolveReturns, SolveThrows, Goto, WorkerTypes
    <3>3. QED
      BY <1>3, <3>1, <3>2
  <2>2. QED
    BY <1>1, <1>3, <2>1, TypesUnchanged DEF StorePoint, SolveReturns, SolveThrows, TypeOK
<1>4. CASE StreamHead(c)
  <2> DEFINE r == [resp[c] EXCEPT !.chunked = TRUE]
  <2>1. r \in Response
    BY <1>2 DEF Response
  <2>2. EndHeaders(Begin) \in Writer /\ EndHeadersOut(Begin, r) \in Seq(Frame)
    BY <2>1, FreshTypes, WriterTypes
  <2>3. SharedTypes'
    BY <1>1, <1>4, <2>1, <2>2 DEF StreamHead, SharedTypes
  <2>4. WorkerTypes'
    BY <1>1, <1>4, <2>2 DEF StreamHead, At, Goto, WorkerTypes
  <2>5. QED
    BY <1>1, <1>4, <2>3, <2>4, TypesUnchanged DEF StreamHead, TypeOK
<1>5. CASE Flush(c)
  <2>1. /\ WriteBody(writer[c], resp[c], buffer[c]) \in Writer
        /\ WriteBodyOut(writer[c], resp[c], buffer[c]) \in Seq(Frame)
    BY <1>2, WriterTypes
  <2>2. SharedTypes'
    BY <1>1, <1>5, <2>1 DEF Flush, SharedTypes
  <2>3. WorkerTypes'
    BY <1>1, <1>5, <2>1 DEF Flush, Goto, WorkerTypes
  <2>4. QED
    BY <1>1, <1>5, <2>2, <2>3, TypesUnchanged DEF Flush, TypeOK
<1>6. CASE SerializePoint(c) \/ CloseDocument(c)
  <2>1. WorkerTypes'
    <3>1. points[c] \in 0..MaxPoints /\ i[c] \in 1..(MaxPoints + 1)
      BY <1>1 DEF WorkerTypes
    <3>2. buffer[c] \in SUBSET (0..(MaxPoints + 1))
      BY <1>1 DEF WorkerTypes
    <3>3. CASE SerializePoint(c)
      <4>1. i[c] + 1 \in 1..(MaxPoints + 1) /\ i[c] \in 0..(MaxPoints + 1)
        BY <3>1, <3>3 DEF SerializePoint
      <4>2. buffer[c] \cup {i[c]} \in SUBSET (0..(MaxPoints + 1))
        BY <3>2, <4>1
      <4>3. QED
        BY <1>1, <3>3, <4>1, <4>2 DEF SerializePoint, Goto, WorkerTypes
    <3>4. CASE CloseDocument(c)
      <4>1. points[c] + 1 \in 0..(MaxPoints + 1)
        BY <3>1
      <4>2. buffer[c] \cup {points[c] + 1} \in SUBSET (0..(MaxPoints + 1))
        BY <3>2, <4>1
      <4>3. QED
        BY <1>1, <3>4, <4>2 DEF CloseDocument, Goto, WorkerTypes
    <3>5. QED
      BY <1>6, <3>3, <3>4
  <2>2. QED
    BY <1>1, <1>6, <2>1, TypesUnchanged DEF SerializePoint, CloseDocument, TypeOK
<1>7. CASE Catch(c)
  <2> DEFINE r == [resp[c] EXCEPT !.code = 500]
  <2>1. r \in Response /\ {ErrorText} \in SUBSET Nat
    BY <1>2 DEF Response, Code, ErrorText
  <2> HIDE DEF r
  <2>2. WriteBody(writer[c], r, {ErrorText}) \in Writer /\ WriteBodyOut(writer[c], r, {ErrorText}) \in Seq(Frame)
    BY <1>2, <2>1, WriterTypes
  <2>3. SharedTypes'
    BY <1>1, <1>7, <2>1, <2>2 DEF Catch, r, SharedTypes
  <2>4. WorkerTypes'
    <3>1. CASE IsOpened(c)
      <4>1. /\ todo' = [todo EXCEPT ![c] = WriteBodyOut(writer[c], r, {ErrorText})]
            /\ pc' = [pc EXCEPT ![c] = "end"]
            /\ UNCHANGED <<after, armed, points, i, buffer>>
        BY <1>7, <3>1 DEF Catch, r, Goto
      <4>2. QED
        BY <1>1, <2>2, <4>1 DEF WorkerTypes
    <3>2. CASE ~IsOpened(c)
      BY <1>1, <1>7, <3>2 DEF Catch, Goto, WorkerTypes
    <3>3. QED
      BY <3>1, <3>2
  <2>5. QED
    BY <1>1, <1>7, <2>3, <2>4, TypesUnchanged DEF Catch, TypeOK
<1>8. CASE EndResponse(c)
  <2>1. End(writer[c]) \in Writer /\ EndOut(writer[c], resp[c]) \in Seq(Frame)
    BY <1>2, WriterTypes
  <2>2. [writer[c] EXCEPT !.end = "SEND_END"] \in Writer
    BY <1>2 DEF Writer
  <2>3. SharedTypes'
    BY <1>1, <1>8, <2>1, <2>2 DEF EndResponse, SharedTypes
  <2>4. WorkerTypes'
    BY <1>1, <1>8, <2>1 DEF EndResponse, Goto, WorkerTypes
  <2>5. QED
    BY <1>1, <1>8, <2>3, <2>4, TypesUnchanged DEF EndResponse, TypeOK
<1>9. CASE CloseChannel(c)
  <2>1. LoopTypes' /\ SharedTypes'
    BY <1>1, <1>9 DEF CloseChannel, LoopTypes, SharedTypes
  <2>2. WorkerTypes'
    BY <1>1, <1>9 DEF CloseChannel, Goto, WorkerTypes
  <2>3. QED
    BY <1>1, <1>9, <2>1, <2>2, TypesUnchanged DEF CloseChannel, TypeOK
<1>10. CASE ThreadExit(c) \/ WriteCheck(c)
  <2>1. WorkerTypes'
    <3>1. CASE ThreadExit(c)
      BY <1>1, <3>1 DEF ThreadExit, Goto, WorkerTypes
    <3>2. CASE WriteCheck(c)
      <4>1. todo[c] \in Seq(Frame) /\ todo[c] # <<>>
        BY <1>1, <3>2 DEF WriteCheck, WorkerTypes
      <4>2. Tail(todo[c]) \in Seq(Frame)
        BY <4>1
      <4>3. QED
        BY <1>1, <3>2, <4>2 DEF WriteCheck, WorkerTypes
    <3>3. QED
      BY <1>10, <3>1, <3>2
  <2>2. QED
    BY <1>1, <1>10, <2>1, TypesUnchanged DEF ThreadExit, WriteCheck, TypeOK
<1>11. CASE HioWrite(c)
  <2>1. todo[c] # <<>> /\ Head(todo[c]) \in Frame
    BY <1>1, <1>11 DEF HioWrite, WorkerTypes, CallsInv
  <2>2. \A t \in Conn : /\ Receive(stream[t], Head(todo[c]), c) \in Stream(Conn)
                        /\ [stream[t] EXCEPT !.phase = "cut"] \in Stream(Conn)
    <3>1. \A t \in Conn : stream[t] \in Stream(Conn)
      BY <1>1 DEF ClientTypes
    <3>2. \A t \in Conn : [stream[t] EXCEPT !.phase = "cut"] \in Stream(Conn)
      BY <3>1 DEF Stream
    <3>3. QED
      BY <2>1, <3>1, <3>2, ReceiveTypes
  <2>3. hio[fd[c]] \in Conn \cup {NoConn}
    BY <1>1 DEF LoopTypes
  <2>4. LoopTypes'
    <3>1. queue' \in [Conn -> Nat]
      <4>1. UNCHANGED queue \/ \E t \in Conn : queue' = [queue EXCEPT ![t] = @ + 1]
        BY <1>11, <2>3 DEF HioWrite
      <4>2. QED
        BY <1>1, <4>1 DEF LoopTypes
    <3>2. closeReq' \in [Conn -> BOOLEAN]
      BY <1>1, <1>11, <2>3 DEF HioWrite, LoopTypes
    <3>3. err' \in [Conn -> {"none", "failed", "timeout"}]
      BY <1>1, <1>11, <2>3 DEF HioWrite, LoopTypes
    <3>4. QED
      BY <1>1, <1>11, <3>1, <3>2, <3>3 DEF HioWrite, LoopTypes
  <2>5. ClientTypes'
    BY <1>1, <1>11, <2>2, <2>3 DEF HioWrite, ClientTypes
  <2>6. WorkerTypes'
    BY <1>1, <1>11, <2>1 DEF HioWrite, WorkerTypes
  <2>7. QED
    BY <1>1, <1>11, <2>4, <2>5, <2>6, TypesUnchanged DEF HioWrite, TypeOK
<1>12. CASE StreamThrows(c)
  <2>1. Begin \in Writer /\ [resp[c] EXCEPT !.chunked = TRUE] \in Response
    BY <1>2, FreshTypes DEF Response
  <2>2. SharedTypes'
    BY <1>1, <1>12, <2>1 DEF StreamThrows, SharedTypes
  <2>3. WorkerTypes'
    BY <1>1, <1>12 DEF StreamThrows, Goto, WorkerTypes
  <2>4. QED
    BY <1>1, <1>12, <2>2, <2>3, TypesUnchanged DEF StreamThrows, TypeOK
<1>13. QED
  BY <1>3, <1>4, <1>5, <1>6, <1>7, <1>8, <1>9, <1>10, <1>11, <1>12 DEF WorkerStep

LEMMA IInvStep == IInv /\ [Next]_vars => IInv'
<1> SUFFICES ASSUME IInv, [Next]_vars PROVE TypeOK'
  BY CallsStep DEF IInv
<1>1. CASE UNCHANGED vars
  BY <1>1, TypesUnchanged DEF vars, IInv, TypeOK
<1>2. CASE Next
  BY <1>2, LoopTypeStep, ClientTypeStep, WorkerTypeStep DEF Next, IInv
<1>3. QED
  BY <1>1, <1>2

\* The initial state: no connection, no worker.
LEMMA InitInv == Init => IInv /\ SocketInv
<1> SUFFICES ASSUME Init PROVE IInv /\ SocketInv
  OBVIOUS
<1>1. (CHOOSE f \in Fd : TRUE) \in Fd
  BY ConnAssumption
<1>2. LoopTypes
  BY <1>1 DEF Init, LoopTypes
<1>3. SharedTypes /\ ClientTypes
  BY FreshTypes DEF Init, SharedTypes, ClientTypes, RequestKind
<1>4. WorkerTypes
  BY BoundsAssumption DEF Init, WorkerTypes
<1>5. CallsInv /\ SocketInv
  BY <1>1, ConnAssumption DEF Init, CallsInv, OwnersInv, SocketInv, Live
<1>6. QED
  BY <1>2, <1>3, <1>4, <1>5 DEF IInv, TypeOK

\* Every variable keeps its type: a queue never has a negative length, a worker
\* never serializes a point past the last one, a connection is never in a state
\* the code does not know.
THEOREM TypeCorrect == Safety => []TypeOK
<1>1. Init => IInv
  BY InitInv
<1>2. IInv => TypeOK
  BY DEF IInv
<1>3. QED
  BY <1>1, <1>2, IInvStep, PTL DEF Safety
-----------------------------------------------------------------------------
(* Workers get on.                                                         *)

\* What Nearer and a stutter look at.
PlaceOf(c) == <<pc[c], after[c], i[c], todo[c], armed[c]>>

\* Another worker, the loop and the clients leave a worker where it is.
LEMMA PlaceKept ==
  ASSUME IInv, NEW c \in Conn, NEW d \in Conn, pc[c] # "none",
         \/ (\E f \in Fd : Accept(d, f)) \/ ClientStep(d) \/ LoopStep(d)
         \/ WorkerStep(d) /\ d # c
  PROVE  UNCHANGED PlaceOf(c)
<1>1. /\ DOMAIN pc = Conn /\ DOMAIN after = Conn /\ DOMAIN todo = Conn
      /\ DOMAIN armed = Conn /\ DOMAIN i = Conn
  BY DEF IInv, TypeOK, WorkerTypes
<1>2. CASE (\E f \in Fd : Accept(d, f)) \/ LoopStep(d)
  BY <1>2
  DEF Accept, LoopStep, Drain, LoopClose, ReadEof, SocketFails, KeepaliveTimeout, CloseTimeout,
      HioClose, CloseNow, workerVars, PlaceOf
<1>3. CASE ClientStep(d)
  BY <1>1, <1>3
  DEF ClientStep, ClientLeaves, Ping, RejectSolve, AnswerSync, AcceptSolve, workerVars, PlaceOf
<1>4. CASE WorkerStep(d) /\ d # c
  <2>1. CASE StorePoint(d) \/ SolveReturns(d) \/ SolveThrows(d) \/ StreamHead(d) \/ Flush(d)
    BY <1>1, <1>4, <2>1
    DEF StorePoint, SolveReturns, SolveThrows, StreamHead, Flush, Goto, PlaceOf
  <2>2. CASE SerializePoint(d) \/ CloseDocument(d) \/ Catch(d) \/ EndResponse(d)
    BY <1>1, <1>4, <2>2 DEF SerializePoint, CloseDocument, Catch, EndResponse, Goto, PlaceOf
  <2>3. CASE StreamThrows(d) \/ CloseChannel(d) \/ ThreadExit(d) \/ WriteCheck(d) \/ HioWrite(d)
    BY <1>1, <1>4, <2>3
    DEF StreamThrows, CloseChannel, ThreadExit, WriteCheck, HioWrite, Goto, PlaceOf
  <2> QED
    BY <1>4, <2>1, <2>2, <2>3 DEF WorkerStep
<1> QED
  BY <1>2, <1>3, <1>4

\* A call on the writer gets on: tested and written, or one frame less to write.
LEMMA CallAdvances ==
  ASSUME IInv, NEW c \in Conn, WriteCheck(c) \/ HioWrite(c)
  PROVE  Nearer(c)
<1>1. todo[c] \in Seq(Frame) /\ todo[c] # <<>> /\ DOMAIN todo = Conn /\ DOMAIN armed = Conn
  BY DEF IInv, CallsInv, TypeOK, WorkerTypes, WriteCheck, HioWrite
<1>2. Len(Tail(todo[c])) < Len(todo[c])
  BY <1>1
<1>3. CASE WriteCheck(c)
  BY <1>1, <1>2, <1>3 DEF WriteCheck, Nearer
<1>4. CASE HioWrite(c)
  BY <1>1, <1>2, <1>4 DEF HioWrite, Nearer
<1> QED
  BY <1>3, <1>4

\* Where no call is unfinished, the program counter goes to a later stage; within
\* the loop over the points, to the next point or out of a flush.
LEMMA LabelAdvances ==
  ASSUME IInv, NEW c \in Conn, pc[c] \notin {"none", "solve"}, WorkerStep(c),
         ~WriteCheck(c), ~HioWrite(c)
  PROVE  Nearer(c)
<1>1. /\ DOMAIN pc = Conn /\ DOMAIN after = Conn /\ DOMAIN i = Conn
      /\ i[c] \in Nat /\ after[c] \in {"loop", "end"}
  BY BoundsAssumption DEF IInv, TypeOK, WorkerTypes
<1>2. CASE StreamHead(c)
  <2>1. pc[c] = "head" /\ pc'[c] = "flush" /\ after'[c] = "loop"
    BY <1>1, <1>2 DEF StreamHead, At, Goto
  <2>2. Stage(c) = 7 /\ Stage(c)' = 6
    BY <2>1 DEF Stage, Stages
  <2> QED
    BY <2>2 DEF Nearer
<1>3. CASE Flush(c)
  <2>1. pc[c] = "flush" /\ pc'[c] = after[c] /\ UNCHANGED <<after, i>>
    BY <1>1, <1>3 DEF Flush, At, Goto
  <2>2. CASE after[c] = "loop"
    <3>1. Stage(c) = 6 /\ Stage(c)' = 6
      BY <2>1, <2>2 DEF Stage, Stages
    <3> QED
      BY <2>1, <2>2, <3>1 DEF Nearer
  <2>3. CASE after[c] = "end"
    <3>1. Stage(c) = 5 /\ Stage(c)' = 3
      BY <2>1, <2>3 DEF Stage, Stages
    <3> QED
      BY <3>1 DEF Nearer
  <2> QED
    BY <1>1, <2>2, <2>3
<1>4. CASE SerializePoint(c)
  <2>1. /\ pc[c] = "loop" /\ pc'[c] \in {"loop", "flush"} /\ UNCHANGED after
        /\ i'[c] = i[c] + 1
    BY <1>1, <1>4 DEF SerializePoint, At, Goto
  <2>2. CASE pc'[c] = "flush" /\ after[c] = "end"
    <3>1. Stage(c) = 6 /\ Stage(c)' = 5
      BY <2>1, <2>2 DEF Stage, Stages
    <3> QED
      BY <3>1 DEF Nearer
  <2>3. CASE pc'[c] = "loop" \/ after[c] # "end"
    <3>1. Stage(c) = 6 /\ Stage(c)' = 6
      BY <2>1, <2>3 DEF Stage, Stages
    <3> QED
      BY <1>1, <2>1, <3>1 DEF Nearer
  <2> QED
    BY <2>1, <2>2, <2>3
<1>5. CASE CloseDocument(c)
  <2>1. pc[c] = "loop" /\ pc'[c] = "flush" /\ after'[c] = "end"
    BY <1>1, <1>5 DEF CloseDocument, At, Goto
  <2>2. Stage(c) = 6 /\ Stage(c)' = 5
    BY <2>1 DEF Stage, Stages
  <2> QED
    BY <2>2 DEF Nearer
<1>6. CASE Catch(c) \/ EndResponse(c) \/ CloseChannel(c) \/ ThreadExit(c)
  <2>1. \/ pc[c] = "catch" /\ pc'[c] \in {"end", "exit"}
        \/ pc[c] = "end" /\ pc'[c] \in {"close", "exit"}
        \/ pc[c] = "close" /\ pc'[c] = "exit"
        \/ pc[c] = "exit" /\ pc'[c] = "none"
    BY <1>1, <1>6 DEF Catch, EndResponse, CloseChannel, ThreadExit, At, Goto
  <2>2. Stage(c)' < Stage(c)
    BY <2>1 DEF Stage, Stages
  <2> QED
    BY <2>2 DEF Nearer
<1>7. CASE StreamThrows(c)
  <2>1. /\ \/ pc[c] \in {"head", "loop"}
           \/ pc[c] = "flush" /\ after[c] = "loop"
        /\ pc'[c] = "catch"
    BY <1>1, <1>7 DEF StreamThrows, At, Goto
  <2>2. Stage(c)' < Stage(c)
    BY <2>1 DEF Stage, Stages
  <2> QED
    BY <2>2 DEF Nearer
<1> QED
  BY <1>2, <1>3, <1>4, <1>5, <1>6, <1>7
  DEF WorkerStep, StorePoint, SolveReturns, SolveThrows, At

\* A worker whose solver has ended is never sent back, and never goes round without
\* a point, a stage or a frame less to do: the part of WorkersLeave that is not about
\* fairness.  Nothing is assumed of descriptors and queues.
THEOREM WorkerProgress == Safety => WorkersAdvance
<1> DEFINE Advance == \A c \in Conn : pc[c] \notin {"none", "solve"} =>
                        \/ Nearer(c)
                        \/ UNCHANGED <<pc[c], after[c], i[c], todo[c], armed[c]>>
<1>1. Init => IInv
  BY InitInv
<1>2. IInv /\ [Next]_vars => [Advance]_vars
  <2> SUFFICES ASSUME IInv, Next, NEW c \in Conn, pc[c] \notin {"none", "solve"}
               PROVE  Nearer(c) \/ UNCHANGED PlaceOf(c)
    BY DEF PlaceOf
  <2>1. PICK d \in Conn :
          (\E f \in Fd : Accept(d, f)) \/ ClientStep(d) \/ LoopStep(d) \/ WorkerStep(d)
    BY DEF Next
  <2>2. CASE WorkerStep(d) /\ d = c
    BY <2>2, CallAdvances, LabelAdvances
  <2> QED
    BY <2>1, <2>2, PlaceKept
<1> QED
  BY <1>1, <1>2, IInvStep, PTL DEF Safety, WorkersAdvance
-----------------------------------------------------------------------------
(* Sockets and their owners.                                               *)

\* What OwnersInv says, as it is used of one connection: distinct live
\* connections have distinct descriptors.
LEMMA OneSocketEach ==
  ASSUME OwnersInv, NEW c \in Conn, NEW d \in Conn, Live(c), Live(d), fd[c] = fd[d]
  PROVE  c = d
BY DEF OwnersInv

\* A socket that goes takes its hio_t with it, and no other connection's.
LEMMA SocketGone ==
  ASSUME IInv, OwnersInv, NEW c \in Conn, Live(c),
         conn' = [conn EXCEPT ![c] = "closed"],
         hio' = [hio EXCEPT ![fd[c]] = NoConn],
         UNCHANGED fd
  PROVE  OwnersInv'
<1> USE ConnAssumption
<1>1. /\ fd \in [Conn -> Fd] /\ hio \in [Fd -> Conn \cup {NoConn}]
      /\ DOMAIN conn = Conn
  BY DEF IInv, TypeOK, LoopTypes
<1>2. \A f \in Fd : hio'[f] # NoConn => fd'[hio'[f]] = f /\ Live(hio[f])'
  <2> SUFFICES ASSUME NEW f \in Fd, hio'[f] # NoConn
               PROVE  fd'[hio'[f]] = f /\ Live(hio[f])'
    OBVIOUS
  <2>1. f # fd[c] /\ hio'[f] = hio[f] /\ hio[f] \in Conn
    BY <1>1
  <2>2. fd[hio[f]] = f /\ Live(hio[f]) /\ hio[f] # c
    BY <2>1 DEF OwnersInv
  <2>3. QED
    BY <1>1, <2>1, <2>2 DEF Live
<1>3. \A d \in Conn : Live(d)' => hio'[fd'[d]] = d
  <2> SUFFICES ASSUME NEW d \in Conn, Live(d)' PROVE hio'[fd'[d]] = d
    OBVIOUS
  <2>1. d # c /\ Live(d)
    BY <1>1 DEF Live
  <2>2. fd[d] # fd[c] /\ hio[fd[d]] = d
    BY <2>1, OneSocketEach DEF OwnersInv
  <2>3. QED
    BY <1>1, <2>2
<1>4. QED
  BY <1>2, <1>3 DEF OwnersInv

\* A step that is no accept closes one live connection or none, and leaves the
\* descriptors alone.
SocketsKept == UNCHANGED <<fd, hio>> /\ \A d \in Conn : Live(d)' <=> Live(d)
SocketClosed(c) ==
  /\ Live(c) /\ conn' = [conn EXCEPT ![c] = "closed"]
  /\ hio' = [hio EXCEPT ![fd[c]] = NoConn] /\ UNCHANGED fd

LEMMA SocketEffect ==
  ASSUME IInv, NEW c \in Conn, ClientStep(c) \/ LoopStep(c) \/ WorkerStep(c)
  PROVE  SocketsKept \/ SocketClosed(c)
<1>1. DOMAIN conn = Conn
  BY DEF IInv, TypeOK, LoopTypes
<1>2. CASE UNCHANGED <<conn, fd, hio>>
  BY <1>2 DEF SocketsKept, Live
<1>3. ASSUME Live(c), NEW new \in {"open", "closing"}, conn' = [conn EXCEPT ![c] = new],
             UNCHANGED <<fd, hio>>
      PROVE  SocketsKept
  BY <1>1, <1>3 DEF SocketsKept, Live
<1>4. CASE LoopStep(c)
  <2>1. ASSUME Live(c), CloseNow(c) PROVE SocketClosed(c)
    BY <2>1 DEF CloseNow, SocketClosed
  <2>2. CASE Drain(c)
    <3>1. CASE conn[c] = "closing" /\ queue[c] = 1
      BY <2>2, <3>1 DEF Drain, SocketClosed
    <3>2. CASE ~(conn[c] = "closing" /\ queue[c] = 1)
      BY <1>2, <2>2, <3>2 DEF Drain
    <3>3. QED
      BY <3>1, <3>2
  <2>3. CASE Live(c) /\ HioClose(c)
    BY <1>3, <2>1, <2>3 DEF HioClose
  <2>4. CASE SocketFails(c) \/ KeepaliveTimeout(c) \/ CloseTimeout(c)
    BY <2>1, <2>4 DEF SocketFails, KeepaliveTimeout, CloseTimeout, Live
  <2>5. QED
    BY <1>4, <2>2, <2>3, <2>4 DEF LoopStep, LoopClose, ReadEof
<1>5. CASE ClientStep(c)
  <2>1. ASSUME NEW k, NEW keepAlive \in BOOLEAN, NEW code, AnswerSync(c, k, code, keepAlive)
        PROVE  SocketsKept
    BY <1>3, <2>1 DEF AnswerSync, Begins, Live
  <2>2. ASSUME NEW k, NEW keepAlive, AcceptSolve(c, k, keepAlive) PROVE UNCHANGED <<conn, fd, hio>>
    BY <2>2 DEF AcceptSolve
  <2>3. CASE ClientLeaves(c)
    BY <1>2, <2>3 DEF ClientLeaves, ioVars
  <2>4. QED
    BY <1>2, <1>5, <2>1, <2>2, <2>3 DEF ClientStep, Ping, RejectSolve
<1>6. CASE WorkerStep(c)
  BY <1>2, <1>6
  DEF WorkerStep, StorePoint, SolveReturns, SolveThrows, StreamHead, StreamThrows, Flush,
      SerializePoint, CloseDocument, Catch, EndResponse, CloseChannel, ThreadExit, WriteCheck,
      HioWrite, ioVars
<1>7. QED
  BY <1>4, <1>5, <1>6

\* A worker is between isOpened() and hio_write() when it was there before, or has
\* now found its connection open.
LEMMA ArmedEffect ==
  ASSUME IInv, NEW c \in Conn, ClientStep(c) \/ LoopStep(c) \/ WorkerStep(c),
         NEW d \in Conn, armed'[d]
  PROVE  armed[d] \/ (IsOpened(d) /\ SocketsKept)
<1>1. DOMAIN armed = Conn
  BY DEF IInv, TypeOK, WorkerTypes
<1>2. CASE WriteCheck(c)
  BY <1>1, <1>2 DEF WriteCheck, ioVars, SocketsKept, Live
<1>3. CASE HioWrite(c)
  BY <1>1, <1>3 DEF HioWrite
<1>4. CASE WorkerStep(c) /\ ~WriteCheck(c) /\ ~HioWrite(c)
  BY <1>4
  DEF WorkerStep, StorePoint, SolveReturns, SolveThrows, StreamHead, StreamThrows, Flush,
      SerializePoint, CloseDocument, Catch, EndResponse, CloseChannel, ThreadExit
<1>5. CASE LoopStep(c)
  BY <1>5
  DEF LoopStep, Drain, LoopClose, ReadEof, SocketFails, KeepaliveTimeout, CloseTimeout, HioClose,
      CloseNow, workerVars
<1>6. CASE ClientStep(c)
  BY <1>6
  DEF ClientStep, ClientLeaves, Ping, RejectSolve, AnswerSync, AcceptSolve, workerVars
<1>7. QED
  BY <1>2, <1>3, <1>4, <1>5, <1>6

\* Every step keeps sockets and descriptors together.
LEMMA OwnersStep == IInv /\ OwnersInv /\ [Next]_vars => OwnersInv'
<1> SUFFICES ASSUME IInv, OwnersInv, [Next]_vars PROVE OwnersInv'
  OBVIOUS
<1> USE ConnAssumption
<1>1. /\ fd \in [Conn -> Fd] /\ hio \in [Fd -> Conn \cup {NoConn}] /\ DOMAIN conn = Conn
  BY DEF IInv, TypeOK, LoopTypes
<1>2. ASSUME NEW c \in Conn, NEW f \in Fd, Accept(c, f) PROVE OwnersInv'
  <2>1. /\ ~Live(c) /\ hio[f] = NoConn /\ conn' = [conn EXCEPT ![c] = "open"]
        /\ fd' = [fd EXCEPT ![c] = f] /\ hio' = [hio EXCEPT ![f] = c]
    BY <1>2 DEF Accept, Live
  <2>2. \A g \in Fd : hio'[g] # NoConn => fd'[hio'[g]] = g /\ Live(hio[g])'
    <3> SUFFICES ASSUME NEW g \in Fd, hio'[g] # NoConn
                 PROVE  fd'[hio'[g]] = g /\ Live(hio[g])'
      OBVIOUS
    <3>1. CASE g = f
      BY <1>1, <2>1, <3>1 DEF Live
    <3>2. CASE g # f
      <4>1. hio'[g] = hio[g] /\ hio[g] \in Conn
        BY <1>1, <2>1, <3>2
      <4>2. fd[hio[g]] = g /\ Live(hio[g]) /\ hio[g] # c
        BY <2>1, <4>1 DEF OwnersInv
      <4>3. QED
        BY <1>1, <2>1, <4>1, <4>2 DEF Live
    <3>3. QED
      BY <3>1, <3>2
  <2>3. \A d \in Conn : Live(d)' => hio'[fd'[d]] = d
    <3> SUFFICES ASSUME NEW d \in Conn, Live(d)', d # c PROVE hio'[fd'[d]] = d
      BY <1>1, <2>1
    <3>1. hio[fd[d]] = d /\ fd'[d] = fd[d] /\ fd[d] # f
      BY <1>1, <2>1 DEF Live, OwnersInv
    <3>2. QED
      BY <1>1, <2>1, <3>1
  <2>4. QED
    BY <2>2, <2>3 DEF OwnersInv
<1>3. CASE SocketsKept
  BY <1>1, <1>3 DEF SocketsKept, OwnersInv, Live
<1>4. ASSUME NEW c \in Conn, SocketClosed(c) PROVE OwnersInv'
  BY <1>4, SocketGone DEF SocketClosed
<1>5. CASE UNCHANGED vars
  BY <1>3, <1>5 DEF SocketsKept, Live, vars, ioVars
<1>6. QED
  BY <1>2, <1>3, <1>4, <1>5, SocketEffect DEF Next

\* And unfinished calls with them, unless a descriptor is used again too early.
LEMMA SocketStep ==
  ASSUME FdReuse = FALSE, IInv, SocketInv, [Next]_vars
  PROVE  SocketInv'
<1> USE ConnAssumption
<1>1. OwnersInv /\ OwnersInv'
  BY OwnersStep DEF SocketInv
<1>2. /\ fd \in [Conn -> Fd] /\ hio \in [Fd -> Conn \cup {NoConn}]
  BY DEF IInv, TypeOK, LoopTypes
<1> SUFFICES ASSUME NEW d \in Conn, armed'[d] PROVE hio'[fd'[d]] \in {d, NoConn}
  BY <1>1 DEF SocketInv
<1>3. CASE UNCHANGED vars
  BY <1>3 DEF SocketInv, vars, ioVars, workerVars
<1>4. ASSUME NEW c \in Conn, NEW f \in Fd, Accept(c, f) PROVE hio'[fd'[d]] \in {d, NoConn}
  <2>1. /\ fd' = [fd EXCEPT ![c] = f] /\ hio' = [hio EXCEPT ![f] = c] /\ armed[d]
        /\ ~armed[c] /\ fd[d] # f
    BY <1>4 DEF Accept, workerVars, IInv, CallsInv
  <2>2. QED
    BY <1>2, <2>1 DEF SocketInv
<1>5. ASSUME NEW c \in Conn, ClientStep(c) \/ LoopStep(c) \/ WorkerStep(c)
      PROVE  hio'[fd'[d]] \in {d, NoConn}
  <2>1. hio[fd[d]] \in {d, NoConn}
    BY <1>5, ArmedEffect DEF SocketInv, IsOpened
  <2>2. QED
    BY <1>2, <1>5, <2>1, SocketEffect DEF SocketsKept, SocketClosed
<1>6. QED
  BY <1>3, <1>4, <1>5 DEF Next
-----------------------------------------------------------------------------
(* Foreign bytes.                                                          *)

\* Where bytes may come from in a step: a connection that is answered from the
\* loop, or a worker that finds the connection on its descriptor.
LEMMA BytesFrom ==
  ASSUME IInv, NEW c \in Conn, NEW d \in Conn, Live(c), NEW b \in Conn,
         b \in stream'[c].src, b \notin stream[c].src, b # c,
         (\E f \in Fd : Accept(d, f)) \/ ClientStep(d) \/ LoopStep(d) \/ WorkerStep(d)
  PROVE  b = d /\ HioWrite(d) /\ hio[fd[d]] = c
<1>1. DOMAIN stream = Conn /\ \A e \in Conn : stream[e] \in Stream(Conn)
  BY DEF IInv, TypeOK, ClientTypes
<1>2. ~UNCHANGED stream
  OBVIOUS
<1>3. CASE \E f \in Fd : Accept(d, f)
  BY <1>1, <1>3 DEF Accept, EmptyStream
<1>4. CASE ClientStep(d)
  <2>1. ASSUME NEW k, NEW keepAlive, NEW code \in Code, AnswerSync(d, k, code, keepAlive)
        PROVE  FALSE
    <3>1. Receive(EmptyStream, FullFrame(code), d).src = {d}
      BY FreshTypes, FrameTypes, ReceiveTypes DEF EmptyStream
    <3>2. QED
      BY <1>1, <2>1, <3>1 DEF AnswerSync
  <2>2. ASSUME NEW k, NEW keepAlive, AcceptSolve(d, k, keepAlive) PROVE FALSE
    BY <1>1, <2>2 DEF AcceptSolve, EmptyStream
  <2>3. QED
    BY <1>2, <1>4, <2>1, <2>2 DEF ClientStep, ClientLeaves, Ping, RejectSolve, Code
<1>5. CASE LoopStep(d)
  BY <1>2, <1>5
  DEF LoopStep, Drain, LoopClose, ReadEof, SocketFails, KeepaliveTimeout, CloseTimeout, HioClose,
      CloseNow, clientVars
<1>6. CASE WorkerStep(d) /\ ~HioWrite(d)
  BY <1>2, <1>6
  DEF WorkerStep, StorePoint, SolveReturns, SolveThrows, StreamHead, StreamThrows, Flush,
      SerializePoint, CloseDocument, Catch, EndResponse, CloseChannel, ThreadExit, WriteCheck,
      clientVars
<1>7. CASE HioWrite(d)
  <2>1. Head(todo[d]) \in Frame
    BY <1>7 DEF HioWrite, IInv, TypeOK, WorkerTypes, CallsInv
  <2>2. hio[fd[d]] # NoConn /\ hio[fd[d]] \in Conn
    BY <1>2, <1>7 DEF HioWrite, IInv, TypeOK, LoopTypes
  <2> DEFINE t == hio[fd[d]]
  <2>3. Receive(stream[t], Head(todo[d]), d).src = stream[t].src \cup {d}
    BY <1>1, <2>1, <2>2, ReceiveTypes
  <2>4. [stream[t] EXCEPT !.phase = "cut"].src = stream[t].src
    BY <1>1, <2>2 DEF Stream
  <2>5. \/ stream' = [stream EXCEPT ![t] = Receive(stream[t], Head(todo[d]), d)]
        \/ stream' = [stream EXCEPT ![t] = [stream[t] EXCEPT !.phase = "cut"]]
    BY <1>2, <1>7, <2>2 DEF HioWrite
  <2>6. QED
    BY <1>1, <1>7, <2>2, <2>3, <2>4, <2>5
<1>8. QED
  BY <1>3, <1>4, <1>5, <1>6, <1>7

\* A worker that is about to write on a connection it does not serve was there when
\* that connection was accepted.
LEMMA NoNewIntruder ==
  ASSUME IInv, OwnersInv, NEW c \in Conn, NEW d \in Conn, Live(c),
         (\E f \in Fd : Accept(d, f)) \/ ClientStep(d) \/ LoopStep(d) \/ WorkerStep(d)
  PROVE  Intruders(c)' \subseteq Intruders(c)
<1> SUFFICES ASSUME NEW e \in Conn, e # c, armed'[e], fd'[e] = fd'[c]
             PROVE  armed[e] /\ fd[e] = fd[c]
  BY DEF Intruders
<1>1. fd \in [Conn -> Fd]
  BY DEF IInv, TypeOK, LoopTypes
<1>2. ASSUME NEW f \in Fd, Accept(d, f) PROVE armed[e] /\ fd[e] = fd[c]
  <2>1. armed' = armed /\ ~armed[d] /\ ~Live(d) /\ fd' = [fd EXCEPT ![d] = f]
    BY <1>2 DEF Accept, workerVars, IInv, CallsInv, Live
  <2>2. QED
    BY <1>1, <2>1
<1>3. CASE ClientStep(d) \/ LoopStep(d) \/ WorkerStep(d)
  <2>1. UNCHANGED fd
    BY <1>3, SocketEffect DEF SocketsKept, SocketClosed
  <2>2. ~IsOpened(e)
    BY <2>1 DEF IsOpened, OwnersInv
  <2>3. QED
    BY <1>3, <2>1, <2>2, ArmedEffect
<1>4. QED
  BY <1>2, <1>3

\* The step form: nobody joins the intruders of a live connection, and whoever
\* writes on it has left them.
LEMMA ForeignBytesStep ==
  ASSUME IInv, OwnersInv, Next, NEW c \in Conn, Live(c)
  PROVE  /\ Intruders(c)' \subseteq Intruders(c)
         /\ stream'[c].src \ stream[c].src \subseteq {c} \cup (Intruders(c) \ Intruders(c)')
<1>1. PICK d \in Conn :
        (\E f \in Fd : Accept(d, f)) \/ ClientStep(d) \/ LoopStep(d) \/ WorkerStep(d)
  BY DEF Next
<1>2. Intruders(c)' \subseteq Intruders(c)
  BY <1>1, NoNewIntruder
<1>3. ASSUME NEW b \in stream'[c].src \ stream[c].src, b # c
      PROVE  b \in Intruders(c) \ Intruders(c)'
  <2>1. b \in Conn
    <3>1. TypeOK'
      BY IInvStep DEF IInv
    <3>2. QED
      BY <3>1 DEF TypeOK, ClientTypes, Stream
  <2>2. b = d /\ HioWrite(d) /\ hio[fd[d]] = c
    BY <1>1, <1>3, <2>1, BytesFrom
  <2>3. armed[d] /\ ~armed'[d] /\ fd[d] = fd[c]
    BY <2>2, ConnAssumption DEF HioWrite, OwnersInv, IInv, TypeOK, LoopTypes, WorkerTypes
  <2>4. QED
    BY <1>3, <2>1, <2>2, <2>3 DEF Intruders
<1>4. QED
  BY <1>2, <1>3

\* For any number of connections, descriptors and threads, and whenever descriptors
\* are used again: a connection has frames of other connections' workers only from
\* those that had passed isOpened() when it was accepted, one from each.
THEOREM ForeignBytes == Safety => ForeignBytesAreStale
<1> DEFINE Stale == \A c \in Conn : Live(c) =>
                      /\ Intruders(c)' \subseteq Intruders(c)
                      /\ stream'[c].src \ stream[c].src
                           \subseteq {c} \cup (Intruders(c) \ Intruders(c)')
<1>1. Init => IInv /\ OwnersInv
  BY InitInv DEF SocketInv
<1>2. IInv /\ OwnersInv /\ [Next]_vars => (IInv /\ OwnersInv)'
  BY IInvStep, OwnersStep
<1>3. IInv /\ OwnersInv /\ [Next]_vars => [Stale]_vars
  BY ForeignBytesStep
<1>4. QED
  BY <1>1, <1>2, <1>3, PTL DEF Safety, ForeignBytesAreStale
=============================================================================
