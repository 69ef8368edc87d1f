-------------------------- MODULE SolveAnswerProofs --------------------------
(***************************************************************************)
(* Theorems about the answers of the /solve route, for every number of     *)
(* connections, descriptors, points, queue places and threads, as long as  *)
(* no descriptor is reused between isOpened() and hio_write():             *)
(*                                                                         *)
(*   WellFormedAnswers  WellFramed;                                        *)
(*   FinalAnswers       NothingAfterTheEnd;                                *)
(*                                                                         *)
(* also where a full queue takes none of the three writes of a chunk,      *)
(*                                                                         *)
(*   UnfailedAnswers    UnfailedAnswersAreRight;                           *)
(*                                                                         *)
(* and, as long as no queue does that,                                     *)
(*                                                                         *)
(*   OrderedAnswers     PiecesInOrder;                                     *)
(*   CorrectAnswers     RightAnswers;                                      *)
(*   DeliveredAnswers   OnlyTimersCutAnswers;                              *)
(*   StepsOfService     every step is one of SolveService, or none.        *)
(*                                                                         *)
(* A worker leaves at most one frame to write behind each of its calls, or *)
(* the headers and the text of an error, so what the client has read and   *)
(* what is still to come must fit: that is AnswerInv.  It says nothing of  *)
(* a connection that is gone, whose frames are lost, or of a stream with a *)
(* hole.  WholeInv adds which pieces have been sent at each place of the   *)
(* worker, and who may close the connection while somebody waits for the   *)
(* end of an answer - but for a connection that may have lost a chunk as a *)
(* whole, where only Base holds: what brings the next connection of that   *)
(* name to life sound.                                                     *)
(***************************************************************************)
EXTENDS SolveRouteProofs, SequenceTheorems

\* The worker of c has made its last call on the writer.
Done(c) == pc[c] \in {"none", "exit", "close"}

\* The two frames of an error for which the headers have not been written.
ErrorAnswer == <<HeadFrame(500), ChunkFrame({ErrorText})>>

\* The pieces a worker has handed to the socket, written or not: headers have none,
\* so those of an unfinished call are in its last frame.
PiecesOf(frames) == IF frames = <<>> THEN {} ELSE frames[Len(frames)].items
Pending(c) == PiecesOf(todo[c])
Sent(c) == stream[c].items \cup Pending(c)

\* The calls of the worker.  The writer and the response are fresh until the worker
\* starts its answer, which is chunked or, from the catch, one text; a writer that
\* has begun is one of a chunked answer.
Calls(c) ==
  /\ Len(todo[c]) <= 1 \/ todo[c] = ErrorAnswer
  /\ ~handling[c] => writer[c] = Begin /\ ~resp[c].chunked /\ resp[c].code = 200
  /\ ~Done(c) =>
       /\ handling[c] /\ writer[c].end = "SEND_BEGIN"
       /\ writer[c].state \in {"SEND_BEGIN", "SEND_HEADER", "SEND_CHUNKED"}
       /\ writer[c].state # "SEND_BEGIN" => resp[c].chunked
       /\ writer[c].state = "SEND_BEGIN" => todo[c] = <<>> /\ stream[c] = EmptyStream
       /\ resp[c].chunked => request[c] = "solvable"
  /\ pc[c] \in {"solve", "head"} =>
       writer[c] = Begin /\ ~resp[c].chunked /\ resp[c].code = 200
  /\ pc[c] = "head" => request[c] = "solvable"
  /\ pc[c] \in {"flush", "loop"} => writer[c].state # "SEND_BEGIN"
  /\ pc[c] = "catch" => todo[c] = <<>>
  /\ pc[c] \in {"catch", "end"} => request[c] \in {"failing", "solvable"}
  /\ pc[c] = "end" => IF resp[c].chunked THEN writer[c].state # "SEND_BEGIN"
                      ELSE resp[c].code = 500

\* The frame that is still to be written.
Frames(c) == todo[c] # <<>> =>
  LET f == Head(todo[c])
  IN  \/ todo[c] = ErrorAnswer /\ pc[c] = "end"
      \/ /\ Len(todo[c]) = 1
         /\ \/ f = HeadFrame(200) /\ pc[c] = "flush" /\ after[c] = "loop"
            \/ f.kind = "chunk" /\ pc[c] # "none"
            \/ f = LastFrame /\ pc[c] \in {"exit", "close"} /\ request[c] = "solvable"
            \/ f = FullFrame(500) /\ pc[c] \in {"exit", "close"}
               /\ request[c] \in {"failing", "solvable"}

\* What the client has read so far, if nothing is missing from it, fits the frame
\* that comes next.
Wire(c) ==
  /\ stream[c].phase # "broken"
  /\ stream[c].phase = "none" => stream[c].items = {}
  /\ stream[c].phase = "done" => Done(c) /\ todo[c] = <<>>
  /\ stream[c].phase = "open" =>
       \/ stream[c].code = 200
       \/ /\ stream[c].code = 500 /\ Sent(c) \subseteq {ErrorText}
          /\ pc[c] \notin {"flush", "loop", "catch"}
  /\ Live(c) /\ stream[c].phase # "cut" =>
       /\ todo[c] # <<>> =>
            stream[c].phase = (IF Head(todo[c]).kind \in {"head", "full"} THEN "none" ELSE "open")
       /\ todo[c] = <<>> /\ ~Done(c) /\ writer[c].state # "SEND_BEGIN" =>
            stream[c].phase = "open"

\* No piece is sent twice.
Pieces(c) ==
  /\ stream[c].items \cap Pending(c) = {}
  /\ pc[c] \in {"flush", "loop"} =>
       /\ Sent(c) \cap buffer[c] = {} /\ i[c] <= points[c] + 1
       /\ Sent(c) \subseteq 0..(i[c] - 1)
  /\ pc[c] = "catch" => ErrorText \notin Sent(c)
  /\ pc[c] = "loop" => after[c] = "loop"
  /\ pc[c] \in {"flush", "loop"} /\ after[c] = "loop" => buffer[c] \subseteq 0..(i[c] - 1)

\* The client asks only when the worker of its last request is done.
Talk(c) ==
  /\ client[c] = "ready" => pc[c] = "none" /\ stream[c] = EmptyStream
  /\ client[c] = "answered" => stream[c].phase = "done"
  /\ pc[c] = "close" => ~resp[c].keepAlive
  /\ Live(c) /\ status[c] # "CONNECTED" =>
       pc[c] \in {"none", "exit"} /\ todo[c] = <<>> /\ client[c] # "ready" /\ ~resp[c].keepAlive

AnswerOf(c) == Calls(c) /\ Frames(c) /\ Wire(c) /\ Pieces(c) /\ Talk(c)
AnswerInv == \A c \in Conn : AnswerOf(c)

\* The pieces before a piece are there too.
Initial(S) == \A p \in S \ {ErrorText} : 0..p \subseteq S

\* The pieces of a connection that is alive and has missed none.
Document(c) ==
  /\ Initial(stream[c].items)
  /\ Live(c) /\ stream[c].phase # "cut" =>
       /\ pc[c] \in {"flush", "loop", "catch", "end"} => Initial(Sent(c))
       /\ pc[c] \in {"flush", "loop"} =>
            Sent(c) \cup buffer[c] = IF after[c] = "loop" THEN 0..(i[c] - 1)
                                     ELSE 0..(points[c] + 1)
       /\ pc[c] = "end" /\ resp[c].chunked =>
            Sent(c) = 0..(points[c] + 1) \/ ErrorText \in Sent(c)
       /\ ~Done(c) /\ writer[c].state = "SEND_HEADER" => Sent(c) = {}
       /\ Done(c) /\ todo[c] # <<>> => Head(todo[c]).kind # "chunk"
       /\ todo[c] # <<>> /\ Head(todo[c]) = LastFrame =>
            WholeDocument(c) \/ SpoiledDocument(c)

\* A complete answer is a right one.
RightReply(c) == stream[c].phase = "done" =>
  /\ request[c] = "ping" => stream[c].code = 200
  /\ request[c] \in {"malformed", "divergent"} => stream[c].code = 400
  /\ request[c] = "failing" => stream[c].code \in {400, 500}
  /\ request[c] = "solvable" =>
       \/ stream[c].code \in {400, 500}
       \/ stream[c].code = 200 /\ (WholeDocument(c) \/ SpoiledDocument(c))
  /\ stream[c].code = 500 => NoDocument(c)

\* Who waits, and for which close, whatever became of the chunks.
Base(c) ==
  /\ client[c] = "waiting" => Live(c)
  /\ client[c] = "lost" => ~Live(c)
  /\ closeReq[c] => Live(c)
  /\ client[c] = "waiting" /\ conn[c] = "closing" => stream[c].phase = "done"

\* Who closes, and when.
Close(c) ==
  /\ Base(c)
  /\ Live(c) => (err[c] = "none" <=> stream[c].phase # "cut")
  /\ Live(c) /\ stream[c].phase # "cut" /\ client[c] \in {"waiting", "answered"} =>
       /\ pc[c] \notin {"none", "exit"} => conn[c] = "open" /\ ~closeReq[c]
       /\ Done(c) /\ todo[c] = <<>> => stream[c].phase = "done"
       /\ closeReq[c] => /\ conn[c] = "open" /\ ~resp[c].keepAlive /\ todo[c] = <<>>
  /\ Live(c) /\ client[c] = "ready" => ~closeReq[c]
  /\ client[c] = "waiting" /\ stream[c].phase = "done" => queue[c] > 0
  /\ client[c] = "lost" /\ stream[c].phase = "done" => err[c] = "timeout"

\* No chunk of this connection can have vanished: that leaves an error behind.
Sound(c) == ChunkVanishes => err[c] = "none"

Whole(c) == Document(c) /\ RightReply(c) /\ Close(c)
WholeInv == \A c \in Conn : Base(c) /\ (Sound(c) => Whole(c))
-----------------------------------------------------------------------------
(* What a step changes.                                                    *)

\* The variables of the worker and of its writer.
WorkerOf(c) == <<handling[c], writer[c], resp[c], pc[c], after[c], todo[c], points[c], i[c],
                 buffer[c], request[c], stream[c]>>

\* A step that leaves a worker alone and brings nothing to life.
LEMMA QuietStep ==
  ASSUME NEW c \in Conn, AnswerOf(c), UNCHANGED WorkerOf(c),
         Live(c)' => Live(c) /\ status'[c] = status[c],
         \/ client'[c] \in {"lost", "gone", client[c]}
         \/ client'[c] = "answered" /\ stream[c].phase = "done"
  PROVE  AnswerOf(c)'
<1>1. Calls(c)' /\ Frames(c)'
  BY DEF AnswerOf, WorkerOf, Calls, Frames, Done
<1>2. Wire(c)' /\ Pieces(c)'
  BY DEF AnswerOf, WorkerOf, Wire, Pieces, Done, Pending, Sent
<1>3. Talk(c)'
  BY DEF AnswerOf, WorkerOf, Talk
<1> QED
  BY <1>1, <1>2, <1>3 DEF AnswerOf

\* A step of one connection, or of its worker, leaves the others alone: also a
\* write, because the descriptor is still the worker's own or nobody's.
LoopOf(c) == <<conn[c], queue[c], closeReq[c], err[c], status[c], client[c]>>
Others(c) == \A d \in Conn \ {c} : UNCHANGED <<WorkerOf(d), LoopOf(d), armed[d]>>

LEMMA Domains ==
  ASSUME TypeOK
  PROVE  /\ DOMAIN conn = Conn /\ DOMAIN fd = Conn /\ DOMAIN queue = Conn
         /\ DOMAIN closeReq = Conn /\ DOMAIN err = Conn /\ DOMAIN handling = Conn
         /\ DOMAIN status = Conn /\ DOMAIN writer = Conn /\ DOMAIN resp = Conn
         /\ DOMAIN pc = Conn /\ DOMAIN after = Conn /\ DOMAIN todo = Conn
         /\ DOMAIN armed = Conn /\ DOMAIN points = Conn /\ DOMAIN i = Conn
         /\ DOMAIN buffer = Conn /\ DOMAIN client = Conn /\ DOMAIN request = Conn
         /\ DOMAIN stream = Conn
BY DEF TypeOK, LoopTypes, SharedTypes, WorkerTypes, ClientTypes

LEMMA OthersStep ==
  ASSUME IInv, SocketInv, NEW c \in Conn,
         (\E f \in Fd : Accept(c, f)) \/ ClientStep(c) \/ LoopStep(c) \/ WorkerStep(c)
  PROVE  Others(c)
<1> USE Domains DEF Others, WorkerOf, LoopOf, IInv
<1>1. CASE \E f \in Fd : Accept(c, f)
  BY <1>1 DEF Accept, workerVars
<1>2. CASE ClientStep(c)
  <2>1. ASSUME NEW k, NEW code, NEW keepAlive, AnswerSync(c, k, code, keepAlive)
        PROVE  Others(c)
    BY <2>1 DEF AnswerSync, Begins, workerVars
  <2>2. ASSUME NEW k, NEW keepAlive, AcceptSolve(c, k, keepAlive) PROVE Others(c)
    BY <2>2 DEF AcceptSolve, Begins
  <2>3. CASE ClientLeaves(c)
    BY <2>3 DEF ClientLeaves, ioVars, sharedVars, workerVars
  <2> QED
    BY <1>2, <2>1, <2>2, <2>3 DEF ClientStep, Ping, RejectSolve
<1>3. CASE LoopStep(c)
  <2>1. ASSUME CloseNow(c), UNCHANGED err \/ \E e : err' = [err EXCEPT ![c] = e]
        PROVE  Others(c)
    BY <2>1 DEF CloseNow, workerVars
  <2>2. CASE HioClose(c)
    BY <2>1, <2>2 DEF HioClose, sharedVars, workerVars, clientVars
  <2>3. CASE Drain(c)
    BY <2>3 DEF Drain, workerVars
  <2> QED
    BY <1>3, <2>1, <2>2, <2>3
    DEF LoopStep, LoopClose, ReadEof, SocketFails, KeepaliveTimeout, CloseTimeout
<1>4. CASE WorkerStep(c)
  <2>1. CASE HioWrite(c)
    <3>1. hio[fd[c]] \in {c, NoConn}
      BY <2>1 DEF HioWrite, SocketInv
    <3> QED
      BY <2>1, <3>1 DEF HioWrite, sharedVars
  <2>2. CASE \/ StorePoint(c) \/ SolveReturns(c) \/ SolveThrows(c) \/ StreamHead(c)
             \/ StreamThrows(c) \/ Flush(c)
    BY <2>2 DEF StorePoint, SolveReturns, SolveThrows, StreamHead, StreamThrows, Flush, Goto,
                ioVars, sharedVars, clientVars
  <2>3. CASE SerializePoint(c) \/ CloseDocument(c) \/ Catch(c) \/ EndResponse(c)
    BY <2>3 DEF SerializePoint, CloseDocument, Catch, EndResponse, Goto,
                ioVars, sharedVars, clientVars
  <2>4. CASE CloseChannel(c) \/ ThreadExit(c) \/ WriteCheck(c)
    BY <2>4 DEF CloseChannel, ThreadExit, WriteCheck, Goto, ioVars, sharedVars, clientVars
  <2> QED
    BY <1>4, <2>1, <2>2, <2>3, <2>4 DEF WorkerStep
<1> QED
  BY <1>1, <1>2, <1>3, <1>4

-----------------------------------------------------------------------------
(* The answer stays in one piece.                                          *)

LEMMA LocalTypes ==
  ASSUME IInv, NEW c \in Conn
  PROVE  /\ pc[c] \in {"none", "solve", "head", "flush", "loop", "catch", "end", "close", "exit"}
         /\ after[c] \in {"loop", "end"} /\ todo[c] \in Seq(Frame)
         /\ (armed[c] => todo[c] # <<>>) /\ (pc[c] = "none" => todo[c] = <<>>)
         /\ points[c] \in Nat /\ i[c] \in Nat /\ i[c] >= 1 /\ buffer[c] \in SUBSET Nat
         /\ writer[c] \in Writer /\ resp[c] \in Response /\ stream[c] \in Stream(Conn)
         /\ queue[c] \in Nat /\ request[c] \in RequestKind
BY BoundsAssumption
DEF IInv, CallsInv, TypeOK, LoopTypes, SharedTypes, WorkerTypes, ClientTypes

\* The frame at the front of an unfinished call, and what is left behind it.
LEMMA NextFrame ==
  ASSUME NEW s \in Seq(Frame), s # <<>>, Len(s) <= 1 \/ s = ErrorAnswer
  PROVE  /\ Head(s) \in Frame
         /\ \/ Len(s) = 1 /\ Tail(s) = <<>> /\ PiecesOf(s) = Head(s).items
            \/ /\ s = ErrorAnswer /\ Len(s) # 1 /\ Head(s) = HeadFrame(500)
               /\ Tail(s) = <<ChunkFrame({ErrorText})>> /\ PiecesOf(s) = {ErrorText}
<1>1. Head(s) \in Frame
  BY EmptySeq, HeadTailProperties
<1>2. CASE Len(s) <= 1
  <2>0. Len(s) = 1
    <3>1. Len(s) \in Nat \ {0}
      BY EmptySeq
    <3> QED
      BY <1>2, <3>1
  <2>1. Tail(s) = <<>> /\ Len(s) = 1
    <3>1. Tail(s) \in Seq(Frame) /\ Len(Tail(s)) = 0
      BY <2>0, HeadTailProperties
    <3> QED
      BY <2>0, <3>1, EmptySeq
  <2>2. s[1] = Head(s)
    BY <2>1, HeadTailProperties
  <2> QED
    BY <1>1, <2>1, <2>2 DEF PiecesOf
<1>3. CASE s = ErrorAnswer
  <2>1. ASSUME NEW f, NEW g
        PROVE  /\ Head(<<f, g>>) = f /\ Tail(<<f, g>>) = <<g>> /\ Len(<<f, g>>) = 2
               /\ <<f, g>>[2] = g
    OBVIOUS
  <2>2. Head(s) = HeadFrame(500) /\ Tail(s) = <<ChunkFrame({ErrorText})>> /\ Len(s) = 2
        /\ s[2] = ChunkFrame({ErrorText})
    BY <1>3, <2>1 DEF ErrorAnswer
  <2> QED
    BY <1>1, <1>3, <2>2 DEF PiecesOf, ChunkFrame
<1> QED
  BY <1>2, <1>3

\* One frame, and none.
LEMMA OneFrame ==
  /\ PiecesOf(<<>>) = {} /\ <<>> # ErrorAnswer /\ Len(<<>>) = 0 /\ Len(<<>>) <= 1
  /\ \A f : /\ PiecesOf(<<f>>) = f.items /\ <<f>> # <<>> /\ Len(<<f>>) = 1 /\ Len(<<f>>) <= 1
            /\ Head(<<f>>) = f /\ <<f>> # ErrorAnswer
<1>1. <<>> # ErrorAnswer /\ \A f : <<f>> # ErrorAnswer
  <2>1. \A f, g, h : Len(<<g, h>>) = 2 /\ Len(<<f>>) = 1 /\ Len(<<>>) = 0
    OBVIOUS
  <2> QED
    BY <2>1 DEF ErrorAnswer
<1>2. PiecesOf(<<>>) = {} /\ Len(<<>>) = 0 /\ Len(<<>>) <= 1
  BY DEF PiecesOf
<1>3. \A f : /\ PiecesOf(<<f>>) = f.items /\ <<f>> # <<>> /\ Len(<<f>>) = 1 /\ Len(<<f>>) <= 1
            /\ Head(<<f>>) = f
  BY DEF PiecesOf
<1> QED
  BY <1>1, <1>2, <1>3

LEMMA TwoFrames == ASSUME NEW f, NEW g PROVE <<f>> \o <<g>> = <<f, g>>
<1>1. /\ <<f>> \in Seq({f, g}) /\ <<g>> \in Seq({f, g}) /\ <<f, g>> \in Seq({f, g})
      /\ Len(<<f>>) = 1 /\ Len(<<g>>) = 1 /\ Len(<<f, g>>) = 2
  OBVIOUS
<1>2. Len(<<f>> \o <<g>>) = 2 /\ <<f>> \o <<g>> \in Seq({f, g})
  BY <1>1, ConcatProperties
<1>3. \A k \in 1..2 : (<<f>> \o <<g>>)[k] = <<f, g>>[k]
  BY <1>1, ConcatProperties
<1> QED
  BY <1>1, <1>2, <1>3, SeqEqual

LEMMA LoopKeepsAnswer ==
  ASSUME IInv, NEW c \in Conn, AnswerOf(c), LoopStep(c)
  PROVE  AnswerOf(c)'
<1> USE Domains DEF IInv
<1>1. CASE CloseNow(c)
  <2>1. UNCHANGED WorkerOf(c) /\ ~Live(c)' /\ client'[c] \in {"lost", client[c]}
    BY <1>1 DEF CloseNow, WorkerOf, workerVars, Live
  <2> QED
    BY <2>1, QuietStep
<1>2. CASE Live(c) /\ HioClose(c)
  <2>1. CASE queue[c] > 0 /\ err[c] = "none" /\ conn[c] = "open"
    <3>1. UNCHANGED WorkerOf(c) /\ client' = client /\ status' = status
      BY <1>2, <2>1 DEF HioClose, WorkerOf, workerVars, sharedVars, clientVars
    <3> QED
      BY <1>2, <3>1, QuietStep
  <2> QED
    BY <1>1, <1>2, <2>1 DEF HioClose
<1>3. CASE Drain(c)
  <2>1. UNCHANGED WorkerOf(c) /\ Live(c)
    BY <1>3 DEF Drain, WorkerOf, workerVars
  <2>2. client'[c] = client[c] \/ (client'[c] = "answered" /\ stream[c].phase = "done")
    BY <1>3 DEF Drain
  <2>3. Live(c)' => status'[c] = status[c]
    BY <1>3 DEF Drain, Live
  <2> QED
    BY <2>1, <2>2, <2>3, QuietStep
<1> QED
  BY <1>1, <1>2, <1>3
  DEF LoopStep, LoopClose, ReadEof, SocketFails, KeepaliveTimeout, CloseTimeout

LEMMA ClientKeepsAnswer ==
  ASSUME IInv, NEW c \in Conn, AnswerOf(c), ClientStep(c) \/ \E f \in Fd : Accept(c, f)
  PROVE  AnswerOf(c)'
<1> USE Domains DEF IInv
<1>0. Done(c) => Frames(c) /\ pc[c] \in {"none", "exit", "close"}
  BY DEF AnswerOf, Done
<1>1. ASSUME NEW f \in Fd, Accept(c, f) PROVE AnswerOf(c)'
  <2>1. /\ pc'[c] = "none" /\ todo'[c] = <<>> /\ stream'[c] = EmptyStream /\ ~handling'[c]
        /\ writer'[c] = Begin /\ resp'[c] = FreshResponse(TRUE) /\ status'[c] = "CONNECTED"
        /\ client'[c] = "ready"
    BY <1>1, LocalTypes DEF Accept, workerVars
  <2> QED
    BY <2>1 DEF AnswerOf, Calls, Frames, Wire, Pieces, Talk, Done, Pending, Sent, EmptyStream,
                FreshResponse
<1>2. ASSUME NEW k, NEW keepAlive, NEW code \in Code, AnswerSync(c, k, code, keepAlive)
      PROVE  AnswerOf(c)'
  <2>1. Done(c) /\ todo[c] = <<>>
    BY <1>2, LocalTypes DEF AnswerSync, Begins, AnswerOf, Talk, Wire, Done
  <2>2. /\ UNCHANGED <<pc[c], todo[c], after[c], points[c], i[c], buffer[c], status[c]>>
        /\ stream'[c].phase = "done" /\ stream'[c].items = {} /\ ~handling'[c]
        /\ writer'[c] = Begin /\ resp'[c] = FreshResponse(keepAlive)
        /\ client'[c] = "waiting" /\ status[c] = "CONNECTED" /\ pc[c] # "close"
    BY <1>2 DEF AnswerSync, Begins, workerVars, Receive, EmptyStream, FullFrame, Live,
                AnswerOf, Talk
  <2> QED
    BY <2>1, <2>2 DEF AnswerOf, Calls, Frames, Wire, Pieces, Talk, Done, Pending, Sent,
                      FreshResponse
<1>3. ASSUME NEW k, NEW keepAlive, AcceptSolve(c, k, keepAlive) PROVE AnswerOf(c)'
  <2>1. /\ pc[c] = "none" /\ pc'[c] = "solve" /\ todo'[c] = <<>> /\ stream'[c] = EmptyStream
        /\ handling'[c] /\ client'[c] = "waiting" /\ Live(c) /\ status'[c] = "CONNECTED"
        /\ writer'[c] = ResetWriter(c) /\ resp'[c] = ResetResponse(c, keepAlive)
    BY <1>3, LocalTypes DEF AcceptSolve, Begins, Live, AnswerOf, Talk
  <2>2. writer'[c] = Begin /\ ~resp'[c].chunked /\ resp'[c].code = 200
    <3>1. resp[c] \in Response
      BY LocalTypes
    <3> QED
      BY <2>1, <3>1 DEF ResetWriter, ResetResponse, FreshResponse, AnswerOf, Calls, Response
  <2> QED
    BY <2>1, <2>2 DEF AnswerOf, Calls, Frames, Wire, Pieces, Talk, Done, Pending, Sent,
                      EmptyStream, Begin
<1>4. CASE ClientLeaves(c)
  <2>1. UNCHANGED WorkerOf(c) /\ client'[c] = "gone" /\ UNCHANGED <<conn, status>>
    BY <1>4 DEF ClientLeaves, WorkerOf, ioVars, sharedVars, workerVars
  <2> QED
    BY <2>1, QuietStep DEF Live
<1> QED
  BY <1>1, <1>2, <1>3, <1>4 DEF ClientStep, Ping, RejectSolve, Code

\* The hio_t of an open channel is its own.
LEMMA OpenIsLive ==
  ASSUME IInv, SocketInv, NEW c \in Conn
  PROVE  /\ IsOpened(c) <=> Live(c) /\ status[c] = "CONNECTED"
         /\ hio[fd[c]] = c <=> Live(c)
<1>1. fd[c] \in Fd /\ c # NoConn
  BY ConnAssumption DEF IInv, TypeOK, LoopTypes
<1> QED
  BY <1>1 DEF IsOpened, SocketInv, OwnersInv

\* What the next write of a worker is, and what it leaves to be written.
LEMMA CallGoesOn ==
  ASSUME IInv, NEW c \in Conn, AnswerOf(c), todo[c] # <<>>, todo'[c] = Tail(todo[c])
  PROVE  /\ Head(todo[c]) \in Frame /\ Pending(c) = Head(todo[c]).items \cup Pending(c)'
         /\ pc[c] \notin {"none", "solve", "head", "catch"}
         /\ pc[c] = "end" => resp[c].chunked
         /\ \/ /\ todo'[c] = <<>> /\ Pending(c)' = {} /\ Len(todo[c]) = 1
               /\ \/ Head(todo[c]) = HeadFrame(200) /\ pc[c] = "flush" /\ after[c] = "loop"
                  \/ Head(todo[c]).kind = "chunk"
                  \/ /\ Head(todo[c]) = LastFrame /\ pc[c] \in {"exit", "close"}
                     /\ request[c] = "solvable"
                  \/ /\ Head(todo[c]) = FullFrame(500) /\ pc[c] \in {"exit", "close"}
                     /\ request[c] \in {"failing", "solvable"}
            \/ /\ todo[c] = ErrorAnswer /\ Head(todo[c]) = HeadFrame(500)
               /\ todo'[c] = <<ChunkFrame({ErrorText})>> /\ Pending(c) = {ErrorText}
               /\ Pending(c)' = {ErrorText} /\ pc[c] = "end" /\ request[c] = "solvable"
<1>1. /\ todo[c] \in Seq(Frame) /\ (pc[c] = "none" => todo[c] = <<>>)
      /\ Calls(c) /\ Frames(c)
  BY LocalTypes DEF AnswerOf
<1>2. /\ Head(todo[c]) \in Frame
      /\ \/ Len(todo[c]) = 1 /\ Tail(todo[c]) = <<>> /\ Pending(c) = Head(todo[c]).items
         \/ /\ todo[c] = ErrorAnswer /\ Len(todo[c]) # 1 /\ Head(todo[c]) = HeadFrame(500)
            /\ Tail(todo[c]) = <<ChunkFrame({ErrorText})>> /\ Pending(c) = {ErrorText}
  BY <1>1, NextFrame DEF Calls, Pending
<1>3. /\ pc[c] \notin {"none", "solve", "head", "catch"}
      /\ pc[c] = "end" => resp[c].chunked /\ request[c] = "solvable"
  BY <1>1 DEF Calls, Done, Begin
<1>4. CASE Len(todo[c]) = 1
  <2>1. todo'[c] = <<>> /\ Pending(c)' = {} /\ Pending(c) = Head(todo[c]).items
    BY <1>2, <1>4, OneFrame DEF Pending
  <2>2. todo[c] # ErrorAnswer
    BY <1>2, <1>4, <2>1, OneFrame DEF ErrorAnswer
  <2> QED
    BY <1>1, <1>2, <1>3, <1>4, <2>1, <2>2 DEF Frames
<1>5. CASE Len(todo[c]) # 1
  <2>1. pc[c] = "end"
    BY <1>1, <1>5 DEF Frames
  <2>2. Pending(c)' = {ErrorText}
    BY <1>2, <1>5, OneFrame DEF Pending, ChunkFrame
  <2> QED
    BY <1>2, <1>3, <1>5, <2>1, <2>2 DEF HeadFrame
<1> QED
  BY <1>4, <1>5

\* What hio_write does to the connection of the worker: the frame is lost with a
\* socket that is gone, leaves a hole, or is read.
LEMMA WriteEffect ==
  ASSUME IInv, SocketInv, NEW c \in Conn, AnswerOf(c), HioWrite(c)
  PROVE  /\ UNCHANGED <<handling, writer, resp, pc, after, points, i, buffer, request, conn, status,
                        client>>
         /\ todo[c] # <<>> /\ todo'[c] = Tail(todo[c])
         /\ \/ UNCHANGED <<stream, closeReq, err, queue>> /\ ~Live(c)
            \/ /\ UNCHANGED stream /\ Live(c) /\ err'[c] = "failed"
               /\ ChunkVanishes /\ Head(todo[c]).kind = "chunk"
            \/ stream'[c] = [stream[c] EXCEPT !.phase = "cut"] /\ Live(c) /\ err'[c] = "failed"
            \/ /\ stream'[c] = Receive(stream[c], Head(todo[c]), c) /\ Live(c) /\ UNCHANGED err
               /\ UNCHANGED closeReq /\ queue'[c] = queue[c] + 1
         /\ stream[c].phase \notin {"done", "broken"} /\ client[c] \notin {"answered", "ready"}
         /\ stream[c].items \cap Pending(c) = {}
<1> USE Domains DEF IInv
<1>1. /\ UNCHANGED <<handling, writer, resp, pc, after, points, i, buffer, request, conn, status,
                     client>>
      /\ armed[c] /\ todo'[c] = Tail(todo[c]) /\ hio[fd[c]] \in {c, NoConn}
  BY DEF HioWrite, sharedVars, SocketInv
<1>2. todo[c] # <<>>
  BY <1>1, LocalTypes
<1>3. \/ UNCHANGED <<stream, closeReq, err, queue>> /\ ~Live(c)
      \/ /\ UNCHANGED stream /\ Live(c) /\ err'[c] = "failed"
         /\ ChunkVanishes /\ Head(todo[c]).kind = "chunk"
      \/ stream'[c] = [stream[c] EXCEPT !.phase = "cut"] /\ Live(c) /\ err'[c] = "failed"
      \/ /\ stream'[c] = Receive(stream[c], Head(todo[c]), c) /\ Live(c) /\ UNCHANGED err
         /\ UNCHANGED closeReq /\ queue'[c] = queue[c] + 1
  <2>1. stream[c] \in Stream(Conn) /\ (hio[fd[c]] = c <=> Live(c)) /\ c # NoConn
    BY LocalTypes, OpenIsLive, ConnAssumption
  <2>2. CASE hio[fd[c]] = NoConn
    <3>1. UNCHANGED <<stream, closeReq, err, queue>>
      BY <2>1, <2>2 DEF HioWrite
    <3> QED
      BY <2>1, <2>2, <3>1
  <2>3. CASE hio[fd[c]] = c
    <3>1. \/ /\ stream' = [stream EXCEPT ![c] = Receive(@, Head(todo[c]), c)] /\ UNCHANGED err
             /\ UNCHANGED closeReq /\ queue' = [queue EXCEPT ![c] = @ + 1]
          \/ /\ stream' = [stream EXCEPT ![c].phase = "cut"]
             /\ err' = [err EXCEPT ![c] = "failed"]
          \/ /\ UNCHANGED stream /\ err' = [err EXCEPT ![c] = "failed"]
             /\ ChunkVanishes /\ Head(todo[c]).kind = "chunk"
      BY <2>1, <2>3 DEF HioWrite
    <3> QED
      BY <2>1, <2>3, <3>1
  <2> QED
    BY <1>1, <2>2, <2>3
<1>4. /\ stream[c].phase \notin {"done", "broken"} /\ client[c] \notin {"answered", "ready"}
      /\ stream[c].items \cap Pending(c) = {}
  <2>1. pc[c] # "none"
    BY <1>2, LocalTypes
  <2> QED
    BY <1>2, <2>1 DEF AnswerOf, Wire, Talk, Pieces
<1> QED
  BY <1>1, <1>2, <1>3, <1>4

\* flush_buffer on an open writer writes the buffer as one chunk.
LEMMA FlushEffect ==
  ASSUME IInv, NEW c \in Conn, AnswerOf(c), Flush(c)
  PROVE  /\ UNCHANGED <<handling, request, stream, conn, status, client, points, i, after, resp>>
         /\ pc[c] = "flush" /\ todo[c] = <<>> /\ pc'[c] = after[c]
         /\ \/ UNCHANGED <<writer, todo, buffer>> /\ (buffer[c] = {} \/ ~IsOpened(c))
            \/ /\ IsOpened(c) /\ buffer[c] # {} /\ buffer'[c] = {}
               /\ writer'[c].state = "SEND_CHUNKED" /\ writer'[c].end = "SEND_BEGIN"
               /\ todo'[c] = <<ChunkFrame(buffer[c])>>
<1> USE Domains DEF IInv
<1>1. /\ UNCHANGED <<handling, request, stream, conn, status, client, points, i, after, resp>>
      /\ pc[c] = "flush" /\ todo[c] = <<>> /\ pc'[c] = after[c]
      /\ \/ UNCHANGED <<writer, todo, buffer>> /\ (buffer[c] = {} \/ ~IsOpened(c))
         \/ /\ IsOpened(c) /\ buffer[c] # {} /\ buffer'[c] = {}
            /\ writer'[c] = WriteBody(writer[c], resp[c], buffer[c])
            /\ todo'[c] = WriteBodyOut(writer[c], resp[c], buffer[c])
  BY DEF Flush, At, Goto, ioVars, clientVars
<1>2. /\ resp[c].chunked /\ writer[c].state \in {"SEND_HEADER", "SEND_CHUNKED"}
      /\ writer[c].end = "SEND_BEGIN" /\ writer[c] \in Writer
  BY <1>1, LocalTypes DEF AnswerOf, Calls, Done
<1>3. <<>> \o <<ChunkFrame(buffer[c])>> = <<ChunkFrame(buffer[c])>>
  OBVIOUS
<1>4. ASSUME buffer[c] # {}
      PROVE  /\ WriteBodyOut(writer[c], resp[c], buffer[c]) = <<ChunkFrame(buffer[c])>>
             /\ WriteBody(writer[c], resp[c], buffer[c]) = [writer[c] EXCEPT !.state = "SEND_CHUNKED"]
  BY <1>2, <1>3, <1>4 DEF WriteBody, WriteChunked, WriteBodyOut, WriteChunkedOut, EndHeadersOut
<1> QED
  BY <1>1, <1>2, <1>4 DEF Writer

\* The catch grows the body of a response that is not a chunked one; in a chunked
\* one it writes the text, after the headers if there are none yet.
CatchAnswers(c) ==
  /\ UNCHANGED <<handling, request, stream, conn, status, client, points, i, after, buffer>>
  /\ pc[c] = "catch" /\ todo[c] = <<>>
  /\ resp'[c].chunked = resp[c].chunked /\ resp'[c].keepAlive = resp[c].keepAlive
  /\ \/ pc'[c] = "exit" /\ UNCHANGED <<resp, writer, todo>> /\ ~IsOpened(c)
     \/ /\ pc'[c] = "end" /\ resp'[c].code = 500 /\ IsOpened(c)
        /\ writer'[c].end = "SEND_BEGIN"
        /\ \/ /\ ~resp[c].chunked /\ todo'[c] = <<>>
              /\ writer[c].state = "SEND_BEGIN" /\ writer'[c].state = "SEND_BEGIN"
           \/ /\ resp[c].chunked /\ writer[c].state = "SEND_BEGIN"
              /\ writer'[c].state = "SEND_CHUNKED" /\ todo'[c] = ErrorAnswer
           \/ /\ resp[c].chunked /\ writer[c].state # "SEND_BEGIN"
              /\ writer'[c].state = "SEND_CHUNKED"
              /\ todo'[c] = <<ChunkFrame({ErrorText})>>

LEMMA CatchEffect ==
  ASSUME IInv, NEW c \in Conn, AnswerOf(c), Catch(c)
  PROVE  CatchAnswers(c)
<1> USE Domains DEF IInv
<1>1. /\ UNCHANGED <<handling, request, stream, conn, status, client, points, i, after, buffer>>
      /\ pc[c] = "catch" /\ todo[c] = <<>>
      /\ \/ pc'[c] = "exit" /\ UNCHANGED <<resp, writer, todo>> /\ ~IsOpened(c)
         \/ /\ pc'[c] = "end" /\ IsOpened(c) /\ resp'[c] = [resp[c] EXCEPT !.code = 500]
            /\ writer'[c] = WriteBody(writer[c], [resp[c] EXCEPT !.code = 500], {ErrorText})
            /\ todo'[c] = WriteBodyOut(writer[c], [resp[c] EXCEPT !.code = 500], {ErrorText})
  BY DEF Catch, At, Goto, ioVars, clientVars
<1>2. /\ writer[c] \in Writer /\ resp[c] \in Response /\ writer[c].end = "SEND_BEGIN"
      /\ writer[c].state \in {"SEND_BEGIN", "SEND_HEADER", "SEND_CHUNKED"}
      /\ writer[c].state # "SEND_BEGIN" => resp[c].chunked
  BY <1>1, LocalTypes DEF AnswerOf, Calls, Done
<1>3. CASE pc'[c] = "exit"
  BY <1>1, <1>3 DEF CatchAnswers
<1>4. CASE pc'[c] = "end"
  <2> DEFINE r == [resp[c] EXCEPT !.code = 500]
  <2>1. /\ r.chunked = resp[c].chunked /\ r.code = 500 /\ r.keepAlive = resp[c].keepAlive
    BY <1>2 DEF Response
  <2>2. /\ <<>> \o <<ChunkFrame({ErrorText})>> = <<ChunkFrame({ErrorText})>>
        /\ <<HeadFrame(500)>> \o <<ChunkFrame({ErrorText})>> = ErrorAnswer
    <3>1. ASSUME NEW g PROVE <<>> \o <<g>> = <<g>>
      OBVIOUS
    <3> QED
      BY <3>1, TwoFrames DEF ErrorAnswer
  <2>3. /\ IsOpened(c) /\ resp'[c] = r /\ writer'[c] = WriteBody(writer[c], r, {ErrorText})
        /\ todo'[c] = WriteBodyOut(writer[c], r, {ErrorText})
    BY <1>1, <1>4
  <2>4. CASE ~resp[c].chunked
    BY <1>1, <1>2, <1>4, <2>1, <2>3, <2>4 DEF WriteBody, WriteBodyOut, CatchAnswers
  <2>5. CASE resp[c].chunked
    <3>1. /\ writer'[c] = [writer[c] EXCEPT !.state = "SEND_CHUNKED"]
          /\ todo'[c] = EndHeadersOut(writer[c], r) \o <<ChunkFrame({ErrorText})>>
      BY <2>1, <2>3, <2>5 DEF WriteBody, WriteBodyOut, WriteChunked, WriteChunkedOut
    <3>2. writer'[c].state = "SEND_CHUNKED" /\ writer'[c].end = "SEND_BEGIN"
      BY <1>2, <3>1 DEF Writer
    <3>3. todo'[c] = IF writer[c].state = "SEND_BEGIN" THEN ErrorAnswer
                     ELSE <<ChunkFrame({ErrorText})>>
      BY <2>1, <2>2, <3>1 DEF EndHeadersOut
    <3>4. /\ resp'[c].chunked = resp[c].chunked /\ resp'[c].code = 500
          /\ resp'[c].keepAlive = resp[c].keepAlive
      BY <2>1, <2>3
    <3>5. CASE writer[c].state = "SEND_BEGIN"
      BY <1>1, <1>4, <2>3, <2>5, <3>2, <3>3, <3>4, <3>5 DEF CatchAnswers
    <3>6. CASE writer[c].state # "SEND_BEGIN"
      BY <1>1, <1>4, <2>3, <2>5, <3>2, <3>3, <3>4, <3>6 DEF CatchAnswers
    <3> QED
      BY <3>5, <3>6
  <2> QED
    BY <2>4, <2>5
<1> QED
  BY <1>1, <1>3, <1>4

\* The two frames of an error.
LEMMA ErrorAnswerProperties ==
  /\ ErrorAnswer # <<>> /\ PiecesOf(ErrorAnswer) = {ErrorText}
  /\ Head(ErrorAnswer).kind = "head" /\ Head(ErrorAnswer) = HeadFrame(500)
<1>1. ASSUME NEW f, NEW g
      PROVE  /\ <<f, g>> # <<>> /\ Head(<<f, g>>) = f /\ Len(<<f, g>>) = 2 /\ <<f, g>>[2] = g
  OBVIOUS
<1> QED
  BY <1>1 DEF ErrorAnswer, PiecesOf, HeadFrame, ChunkFrame

\* A write that leaves a hole in the stream, or adds to one that has one.
LEMMA CutWrite ==
  ASSUME IInv, NEW c \in Conn, AnswerOf(c), todo[c] # <<>>, todo'[c] = Tail(todo[c]),
         UNCHANGED <<handling, writer, resp, pc, after, points, i, buffer, request, conn, status,
                     client>>,
         stream'[c].phase = "cut", stream'[c].items = stream[c].items, stream[c].phase # "done",
         client[c] \notin {"answered", "ready"}
  PROVE  AnswerOf(c)'
<1>1. /\ Calls(c) /\ Frames(c) /\ Wire(c) /\ Pieces(c) /\ Talk(c)
  BY DEF AnswerOf
<1>2. /\ Pending(c)' \subseteq Pending(c) /\ pc[c] \notin {"none", "solve", "head", "catch"}
      /\ \/ todo'[c] = <<>>
         \/ todo'[c] = <<ChunkFrame({ErrorText})>> /\ pc[c] = "end"
      /\ pc[c] = "end" => resp[c].chunked
  BY CallGoesOn
<1>3. /\ ~Done(c) => writer[c].state # "SEND_BEGIN"
      /\ Len(todo'[c]) <= 1
      /\ todo'[c] # <<>> => Len(todo'[c]) = 1 /\ Head(todo'[c]).kind = "chunk"
  <2>1. ~Done(c) => writer[c].state # "SEND_BEGIN"
    BY <1>1 DEF Calls
  <2>2. /\ Len(<<ChunkFrame({ErrorText})>>) = 1 /\ Len(<<ChunkFrame({ErrorText})>>) <= 1
        /\ Head(<<ChunkFrame({ErrorText})>>) = ChunkFrame({ErrorText})
        /\ ChunkFrame({ErrorText}).kind = "chunk"
    BY OneFrame DEF ChunkFrame
  <2>3. CASE todo'[c] = <<>>
    BY <2>1, <2>3, OneFrame
  <2>4. CASE todo'[c] = <<ChunkFrame({ErrorText})>>
    BY <2>1, <2>2, <2>4
  <2> QED
    BY <1>2, <2>3, <2>4
<1>4. Calls(c)' /\ Talk(c)'
  BY <1>1, <1>2, <1>3 DEF Calls, Talk, Done, Live
<1>5. Frames(c)'
  BY <1>2, <1>3 DEF Frames
<1>6. Wire(c)' /\ Pieces(c)'
  BY <1>1, <1>2, <1>3 DEF Wire, Pieces, Sent, Live
<1> QED
  BY <1>4, <1>5, <1>6 DEF AnswerOf

\* A write to a connection that is gone.
LEMMA LostWrite ==
  ASSUME IInv, NEW c \in Conn, AnswerOf(c), todo[c] # <<>>, todo'[c] = Tail(todo[c]), ~Live(c),
         handling'[c] = handling[c],
         UNCHANGED <<writer, resp, pc, after, points, i, buffer, request, stream, conn, status,
                     client>>
  PROVE  AnswerOf(c)'
<1>1. /\ Calls(c) /\ Frames(c) /\ Wire(c) /\ Pieces(c) /\ Talk(c)
  BY DEF AnswerOf
<1>2. /\ Pending(c)' \subseteq Pending(c) /\ pc[c] \notin {"none", "solve", "head", "catch"}
      /\ \/ todo'[c] = <<>>
         \/ todo'[c] = <<ChunkFrame({ErrorText})>> /\ pc[c] = "end"
      /\ pc[c] = "end" => resp[c].chunked
  BY CallGoesOn
<1>3. /\ ~Done(c) => writer[c].state # "SEND_BEGIN"
      /\ Len(todo'[c]) <= 1
      /\ todo'[c] # <<>> => Len(todo'[c]) = 1 /\ Head(todo'[c]).kind = "chunk"
  <2>1. ~Done(c) => writer[c].state # "SEND_BEGIN"
    BY <1>1 DEF Calls
  <2>2. /\ Len(<<ChunkFrame({ErrorText})>>) = 1 /\ Len(<<ChunkFrame({ErrorText})>>) <= 1
        /\ Head(<<ChunkFrame({ErrorText})>>) = ChunkFrame({ErrorText})
        /\ ChunkFrame({ErrorText}).kind = "chunk"
    BY OneFrame DEF ChunkFrame
  <2>3. CASE todo'[c] = <<>>
    BY <2>1, <2>3, OneFrame
  <2>4. CASE todo'[c] = <<ChunkFrame({ErrorText})>>
    BY <2>1, <2>2, <2>4
  <2> QED
    BY <1>2, <2>3, <2>4
<1>4. Calls(c)' /\ Talk(c)'
  BY <1>1, <1>2, <1>3 DEF Calls, Talk, Done, Live
<1>5. Frames(c)'
  BY <1>2, <1>3 DEF Frames
<1>6. Wire(c)' /\ Pieces(c)'
  BY <1>1, <1>2, <1>3 DEF Wire, Pieces, Sent, Live
<1> QED
  BY <1>4, <1>5, <1>6 DEF AnswerOf

LEMMA WorkerKeepsAnswer ==
  ASSUME IInv, SocketInv, NEW c \in Conn, AnswerOf(c), WorkerStep(c)
  PROVE  AnswerOf(c)'
<1> USE Domains DEF IInv
<1>0. /\ Calls(c) /\ Frames(c) /\ Wire(c) /\ Pieces(c) /\ Talk(c)
      /\ IsOpened(c) <=> Live(c) /\ status[c] = "CONNECTED"
  BY OpenIsLive DEF AnswerOf
<1>t. /\ pc[c] \in {"none", "solve", "head", "flush", "loop", "catch", "end", "close", "exit"}
      /\ points[c] \in Nat /\ i[c] \in Nat /\ i[c] >= 1 /\ buffer[c] \in SUBSET Nat
      /\ writer[c] \in Writer /\ resp[c] \in Response /\ after[c] \in {"loop", "end"}
      /\ todo[c] \in Seq(Frame) /\ stream[c] \in Stream(Conn) /\ stream[c].items \in SUBSET Nat
  BY LocalTypes DEF Stream
<1>p. /\ todo[c] = <<>> => Pending(c) = {}
      /\ todo'[c] = <<>> => Pending(c)' = {}
  BY OneFrame DEF Pending
<1>1. CASE StorePoint(c) \/ SolveReturns(c) \/ SolveThrows(c)
  <2>1. /\ UNCHANGED <<handling, writer, resp, after, todo, buffer, request, stream, conn, status,
                       client, i>>
        /\ pc[c] = "solve" /\ pc'[c] \in {"solve", "head", "catch"}
        /\ pc'[c] = "head" => request[c] = "solvable"
        /\ pc'[c] = "catch" => request[c] = "failing"
    BY <1>1, <1>t DEF StorePoint, SolveReturns, SolveThrows, At, Goto, ioVars, sharedVars, clientVars
  <2>2. todo[c] = <<>> /\ stream[c] = EmptyStream
    BY <1>0, <2>1 DEF Calls, Done, Begin
  <2>3. Calls(c)' /\ Frames(c)'
    BY <1>0, <2>1, <2>2 DEF Calls, Frames, Done
  <2>4. Wire(c)' /\ Talk(c)'
    BY <1>0, <2>1, <2>2 DEF Wire, Talk, Done, Live, EmptyStream, Calls, Begin
  <2>5. Pieces(c)'
    BY <1>0, <1>p, <2>1, <2>2 DEF Pieces, Sent, EmptyStream
  <2> QED
    BY <2>3, <2>4, <2>5 DEF AnswerOf
<1>2. CASE StreamHead(c)
  <2>1. /\ UNCHANGED <<handling, request, stream, conn, status, client, points>>
        /\ pc[c] = "head" /\ pc'[c] = "flush" /\ after'[c] = "loop" /\ i'[c] = 1
        /\ buffer'[c] = {0} /\ resp'[c] = [resp[c] EXCEPT !.chunked = TRUE]
        /\ todo'[c] = <<HeadFrame(resp[c].code)>>
        /\ writer'[c] = [Begin EXCEPT !.state = "SEND_HEADER"]
    BY <1>2 DEF StreamHead, At, Goto, ioVars, clientVars, EndHeaders, EndHeadersOut, Begin
  <2>2. /\ resp'[c].chunked /\ resp'[c].code = 200 /\ writer'[c].state = "SEND_HEADER"
        /\ writer'[c].end = "SEND_BEGIN" /\ todo'[c] = <<HeadFrame(200)>>
        /\ stream[c] = EmptyStream /\ request[c] = "solvable" /\ handling[c]
    BY <1>0, <1>t, <2>1 DEF Calls, Response, Begin, Done
  <2>3. Calls(c)' /\ Frames(c)'
    BY <1>0, <2>1, <2>2 DEF Calls, Frames, Done, HeadFrame
  <2>4. Wire(c)'
    BY <1>0, <2>1, <2>2 DEF Wire, Done, HeadFrame, Live, EmptyStream
  <2>5. Pieces(c)' /\ Talk(c)'
    <3>1. Pending(c)' = {}
      BY <2>2, OneFrame DEF Pending, HeadFrame
    <3> QED
      BY <1>0, <1>t, <2>1, <2>2, <3>1 DEF Pieces, Talk, Sent, Live, EmptyStream
  <2> QED
    BY <2>3, <2>4, <2>5 DEF AnswerOf
<1>11. CASE StreamThrows(c)
  <2>1. /\ UNCHANGED <<handling, request, stream, conn, status, client, points, i, after, todo,
                       buffer>>
        /\ todo[c] = <<>> /\ pc'[c] = "catch"
        /\ \/ /\ pc[c] = "head" /\ writer'[c] = Begin
              /\ UNCHANGED resp \/ resp'[c] = [resp[c] EXCEPT !.chunked = TRUE]
           \/ pc[c] \in {"loop", "flush"} /\ UNCHANGED <<writer, resp>>
    BY <1>11 DEF StreamThrows, At, Goto, ioVars, clientVars
  <2>2. CASE pc[c] = "head"
    <3>1. /\ stream[c] = EmptyStream /\ request[c] = "solvable" /\ handling[c]
          /\ resp'[c].keepAlive = resp[c].keepAlive
      BY <1>0, <1>t, <2>1, <2>2 DEF Calls, Done, Begin, Response
    <3>2. Calls(c)' /\ Frames(c)'
      BY <1>0, <2>1, <2>2, <3>1 DEF Calls, Frames, Done, Begin
    <3>3. Wire(c)' /\ Talk(c)'
      BY <1>0, <2>1, <2>2, <3>1 DEF Wire, Talk, Done, Live, EmptyStream, Begin
    <3>4. Pieces(c)'
      BY <1>0, <1>p, <2>1, <3>1 DEF Pieces, Sent, EmptyStream
    <3> QED
      BY <3>2, <3>3, <3>4 DEF AnswerOf
  <2>3. CASE pc[c] \in {"loop", "flush"}
    <3>1. ErrorText \notin Sent(c)
      BY <1>0, <1>t, <2>3, BoundsAssumption DEF Pieces, ErrorText, TypeOK, WorkerTypes
    <3>2. Calls(c)' /\ Frames(c)' /\ Talk(c)'
      BY <1>0, <2>1, <2>3 DEF Calls, Frames, Talk, Done, Live
    <3>3. Wire(c)'
      BY <1>0, <2>1, <2>3 DEF Wire, Calls, Done, Live
    <3>4. Pieces(c)'
      BY <1>0, <2>1, <2>3, <3>1 DEF Pieces, Sent, Pending
    <3> QED
      BY <3>2, <3>3, <3>4 DEF AnswerOf
  <2> QED
    BY <2>1, <2>2, <2>3
<1>3. CASE Flush(c)
  <2>1. /\ UNCHANGED <<handling, request, stream, conn, status, client, points, i, after, resp>>
        /\ pc[c] = "flush" /\ todo[c] = <<>> /\ pc'[c] = after[c]
        /\ \/ UNCHANGED <<writer, todo, buffer>>
           \/ /\ IsOpened(c) /\ buffer[c] # {} /\ buffer'[c] = {}
              /\ writer'[c].state = "SEND_CHUNKED" /\ writer'[c].end = "SEND_BEGIN"
              /\ todo'[c] = <<ChunkFrame(buffer[c])>>
    BY <1>3, FlushEffect
  <2>2. CASE UNCHANGED <<writer, todo, buffer>>
    BY <1>0, <1>t, <2>1, <2>2
    DEF AnswerOf, Calls, Frames, Wire, Pieces, Talk, Done, Pending, Sent, Live
  <2>3. CASE IsOpened(c) /\ buffer[c] # {} /\ ~UNCHANGED <<writer, todo, buffer>>
    <3>1. /\ writer'[c].state = "SEND_CHUNKED" /\ writer'[c].end = "SEND_BEGIN"
          /\ todo'[c] = <<ChunkFrame(buffer[c])>> /\ buffer'[c] = {}
      BY <2>1, <2>3
    <3>2. Calls(c)' /\ Frames(c)' /\ Talk(c)'
      BY <1>0, <1>t, <2>1, <3>1 DEF Calls, Frames, Talk, Done, ChunkFrame, Live
    <3>3. Wire(c)'
      BY <1>0, <1>t, <2>1, <3>1 DEF Wire, Calls, Done, ChunkFrame, Live
    <3>4. Pieces(c)'
      <4>1. Pending(c)' = buffer[c] /\ Pending(c) = {} /\ stream[c].items \cap buffer[c] = {}
        BY <1>0, <1>p, <2>1, <3>1, OneFrame DEF Pending, Pieces, Sent, ChunkFrame
      <4>2. CASE after[c] = "end"
        BY <1>0, <2>1, <3>1, <4>1, <4>2 DEF Pieces, Sent
      <4>3. CASE after[c] = "loop"
        BY <1>0, <2>1, <3>1, <4>1, <4>3 DEF Pieces, Sent
      <4> QED
        BY <1>t, <4>2, <4>3
    <3> QED
      BY <3>2, <3>3, <3>4 DEF AnswerOf
  <2> QED
    BY <2>1, <2>2, <2>3
<1>4. CASE SerializePoint(c)
  <2>1. /\ UNCHANGED <<handling, request, stream, conn, status, client, points, after, todo, writer,
                       resp>>
        /\ pc[c] = "loop" /\ todo[c] = <<>> /\ pc'[c] \in {"loop", "flush"}
        /\ i'[c] = i[c] + 1 /\ i[c] <= points[c] /\ buffer'[c] = buffer[c] \cup {i[c]}
    BY <1>4 DEF SerializePoint, At, Goto, ioVars, clientVars, sharedVars
  <2>2. Calls(c)' /\ Frames(c)' /\ Talk(c)'
    BY <1>0, <2>1 DEF Calls, Frames, Talk, Done, Live
  <2>3. Wire(c)'
    BY <1>0, <2>1 DEF Wire, Calls, Done, Live
  <2>4. Pieces(c)'
    <3>1. /\ after[c] = "loop" /\ Sent(c)' = Sent(c) /\ Pending(c)' = Pending(c)
          /\ Sent(c) \cap buffer[c] = {} /\ Sent(c) \subseteq 0..(i[c] - 1)
          /\ buffer[c] \subseteq 0..(i[c] - 1)
      BY <1>0, <2>1 DEF Pieces, Sent, Pending
    <3> QED
      BY <1>0, <1>t, <2>1, <3>1 DEF Pieces
  <2> QED
    BY <2>2, <2>3, <2>4 DEF AnswerOf
<1>5. CASE CloseDocument(c)
  <2>1. /\ UNCHANGED <<handling, request, stream, conn, status, client, points, i, todo, writer, resp>>
        /\ pc[c] = "loop" /\ todo[c] = <<>> /\ pc'[c] = "flush" /\ after'[c] = "end"
        /\ buffer'[c] = buffer[c] \cup {points[c] + 1}
    BY <1>5 DEF CloseDocument, At, Goto, ioVars, clientVars, sharedVars
  <2>2. Calls(c)' /\ Frames(c)' /\ Talk(c)'
    BY <1>0, <2>1 DEF Calls, Frames, Talk, Done, Live
  <2>3. Wire(c)'
    BY <1>0, <2>1 DEF Wire, Calls, Done, Live
  <2>4. Pieces(c)'
    <3>1. /\ Sent(c)' = Sent(c) /\ Pending(c)' = Pending(c) /\ i[c] <= points[c] + 1
          /\ Sent(c) \cap buffer[c] = {} /\ Sent(c) \subseteq 0..(i[c] - 1)
      BY <1>0, <2>1 DEF Pieces, Sent, Pending
    <3> QED
      BY <1>0, <1>t, <2>1, <3>1 DEF Pieces
  <2> QED
    BY <2>2, <2>3, <2>4 DEF AnswerOf
<1>6. CASE Catch(c)
  <2>0. CatchAnswers(c)
    BY <1>6, CatchEffect
  <2>1. /\ UNCHANGED <<handling, request, stream, conn, status, client, points, i, after, buffer>>
        /\ pc[c] = "catch" /\ todo[c] = <<>>
        /\ resp'[c].chunked = resp[c].chunked /\ resp'[c].keepAlive = resp[c].keepAlive
        /\ \/ pc'[c] = "exit" /\ UNCHANGED <<resp, writer, todo>>
           \/ pc'[c] = "end" /\ resp'[c].code = 500 /\ writer'[c].end = "SEND_BEGIN"
    BY <2>0 DEF CatchAnswers
  <2>2. /\ request[c] \in {"failing", "solvable"} /\ handling[c] /\ ErrorText \notin Sent(c)
        /\ writer[c].state = "SEND_BEGIN" => stream[c] = EmptyStream
        /\ resp[c].chunked => request[c] = "solvable"
        /\ stream[c].phase # "done" /\ (stream[c].phase = "open" => stream[c].code = 200)
    BY <1>0, <2>1 DEF Calls, Done, Pieces, Wire
  <2>3. CASE UNCHANGED <<resp, writer, todo>> /\ pc'[c] = "exit"
    BY <1>0, <2>1, <2>2, <2>3
    DEF AnswerOf, Calls, Frames, Wire, Pieces, Talk, Done, Pending, Sent, Live
  <2>4. CASE ~resp[c].chunked /\ pc'[c] = "end"
    <3>1. todo'[c] = <<>> /\ writer[c].state = "SEND_BEGIN" /\ writer'[c].state = "SEND_BEGIN"
      BY <2>0, <2>4 DEF CatchAnswers
    <3> QED
      BY <1>0, <2>1, <2>2, <2>4, <3>1, OneFrame
      DEF AnswerOf, Calls, Frames, Wire, Pieces, Talk, Done, Pending, Sent, Live, EmptyStream
  <2>5. CASE resp[c].chunked /\ pc'[c] = "end"
    <3>1. /\ todo'[c] # <<>> /\ (Len(todo'[c]) <= 1 \/ todo'[c] = ErrorAnswer)
          /\ Pending(c)' = {ErrorText}
          /\ \/ todo'[c] = ErrorAnswer
             \/ Len(todo'[c]) = 1 /\ Head(todo'[c]).kind = "chunk"
          /\ Head(todo'[c]).kind = IF writer[c].state = "SEND_BEGIN" THEN "head" ELSE "chunk"
      <4>1. /\ ErrorAnswer # <<>> /\ PiecesOf(ErrorAnswer) = {ErrorText}
            /\ Head(ErrorAnswer).kind = "head"
        BY ErrorAnswerProperties
      <4>2. /\ <<ChunkFrame({ErrorText})>> # <<>> /\ Len(<<ChunkFrame({ErrorText})>>) = 1
            /\ Head(<<ChunkFrame({ErrorText})>>).kind = "chunk"
            /\ PiecesOf(<<ChunkFrame({ErrorText})>>) = {ErrorText}
        BY OneFrame DEF ChunkFrame
      <4>3. \/ writer[c].state = "SEND_BEGIN" /\ todo'[c] = ErrorAnswer
            \/ writer[c].state # "SEND_BEGIN" /\ todo'[c] = <<ChunkFrame({ErrorText})>>
        BY <2>0, <2>5 DEF CatchAnswers
      <4>4. CASE writer[c].state = "SEND_BEGIN" /\ todo'[c] = ErrorAnswer
        BY <4>1, <4>4 DEF Pending
      <4>5. CASE writer[c].state # "SEND_BEGIN" /\ todo'[c] = <<ChunkFrame({ErrorText})>>
        BY <4>2, <4>5 DEF Pending
      <4> QED
        BY <4>3, <4>4, <4>5
    <3>2. resp'[c].chunked /\ resp'[c].code = 500 /\ writer'[c].state = "SEND_CHUNKED"
          /\ writer'[c].end = "SEND_BEGIN"
      BY <2>0, <2>5 DEF CatchAnswers
    <3>3. Calls(c)'
      BY <2>1, <2>2, <2>5, <3>1, <3>2 DEF Calls, Done
    <3>4. Frames(c)'
      BY <2>5, <3>1 DEF Frames
    <3>5. Wire(c)'
      BY <1>0, <2>1, <2>2, <2>5, <3>1, <3>2 DEF Wire, Done, Live, EmptyStream
    <3>6. Pieces(c)' /\ Talk(c)'
      BY <1>0, <2>1, <2>2, <2>5, <3>1 DEF Pieces, Talk, Sent, Live
    <3> QED
      BY <3>3, <3>4, <3>5, <3>6 DEF AnswerOf
  <2> QED
    BY <2>1, <2>3, <2>4, <2>5
<1>7. CASE EndResponse(c)
  <2>1. /\ UNCHANGED <<handling, request, stream, conn, status, client, points, i, after, buffer, resp>>
        /\ pc[c] = "end" /\ todo[c] = <<>>
        /\ \/ UNCHANGED todo /\ pc'[c] = "exit" /\ ~IsOpened(c)
           \/ /\ pc'[c] \in {"exit", "close"} /\ IsOpened(c)
              /\ pc'[c] = "close" => ~resp[c].keepAlive
              /\ todo'[c] = EndOut(writer[c], resp[c])
    BY <1>7 DEF EndResponse, At, Goto, ioVars, clientVars
  <2>2. ~Done(c) /\ handling[c] /\ writer[c].end = "SEND_BEGIN" /\ Pending(c) = {}
    BY <1>0, <2>1, OneFrame DEF Calls, Done, Pending
  <2>3. CASE UNCHANGED todo
    BY <1>0, <1>t, <2>1, <2>2, <2>3
    DEF AnswerOf, Calls, Frames, Wire, Pieces, Talk, Done, Pending, Sent, Live
  <2>4. CASE IsOpened(c) /\ ~UNCHANGED todo
    <3>1. \/ /\ request[c] = "solvable" /\ stream[c].phase # "done"
             /\ todo'[c] = <<LastFrame>> \/ todo'[c] = <<ChunkFrame({})>>
             /\ Live(c) /\ stream[c].phase # "cut" => stream[c].phase = "open"
          \/ /\ request[c] \in {"failing", "solvable"} /\ stream[c] = EmptyStream
             /\ todo'[c] = <<FullFrame(500)>>
      <4>1. CASE resp[c].chunked
        BY <1>0, <2>1, <2>2, <2>4, <4>1 DEF Calls, Wire, EndOut
      <4>2. CASE ~resp[c].chunked
        BY <1>0, <2>1, <2>2, <2>4, <4>2 DEF Calls, EndOut
      <4> QED
        BY <4>1, <4>2
    <3>2. PICK frame : /\ todo'[c] = <<frame>>
                       /\ \/ /\ frame \in {LastFrame, ChunkFrame({})} /\ request[c] = "solvable"
                             /\ Live(c) /\ stream[c].phase # "cut" => stream[c].phase = "open"
                          \/ /\ frame = FullFrame(500) /\ stream[c] = EmptyStream
                             /\ request[c] \in {"failing", "solvable"}
      BY <3>1
    <3>5. /\ Pending(c)' = {} /\ Len(todo'[c]) = 1 /\ todo'[c] # <<>> /\ Head(todo'[c]) = frame
      BY <3>2, OneFrame DEF Pending, LastFrame, ChunkFrame, FullFrame
    <3>3. Calls(c)' /\ Talk(c)'
      <4>1. pc'[c] \in {"exit", "close"} /\ (pc'[c] = "close" => ~resp[c].keepAlive)
        BY <2>1, <2>4
      <4>2. Calls(c)'
        BY <2>1, <2>2, <3>5, <4>1 DEF Calls, Done
      <4> QED
        BY <1>0, <2>1, <2>4, <4>1, <4>2 DEF Talk, Live
    <3>4. Frames(c)'
      BY <2>1, <2>4, <3>2, <3>5 DEF Frames, LastFrame, FullFrame, ChunkFrame
    <3>7. Wire(c)' /\ Pieces(c)'
      BY <1>0, <2>1, <2>2, <2>4, <3>2, <3>5
      DEF Wire, Pieces, Sent, Done, Live, LastFrame, FullFrame, ChunkFrame, EmptyStream
    <3> QED
      BY <3>3, <3>4, <3>7 DEF AnswerOf
  <2> QED
    BY <2>1, <2>3, <2>4
<1>8. CASE CloseChannel(c) \/ ThreadExit(c)
  <2>1. /\ UNCHANGED <<handling, request, stream, conn, client, points, todo, writer, resp>>
        /\ todo[c] = <<>> /\ pc[c] \in {"close", "exit"} /\ pc'[c] \in {"exit", "none"}
        /\ UNCHANGED status \/ pc[c] = "close"
    BY <1>8 DEF CloseChannel, ThreadExit, At, Goto, ioVars, clientVars, sharedVars
  <2> QED
    BY <1>0, <2>1 DEF AnswerOf, Calls, Frames, Wire, Pieces, Talk, Done, Pending, Sent, Live
<1>9. CASE WriteCheck(c)
  <2>1. /\ UNCHANGED <<WorkerOf(c)[1], writer, resp, pc, after, points, i, buffer, request, stream,
                       conn, status, client>>
        /\ todo[c] # <<>>
        /\ \/ UNCHANGED todo
           \/ ~IsOpened(c) /\ todo'[c] = Tail(todo[c])
    BY <1>9 DEF WriteCheck, ioVars, sharedVars, clientVars, WorkerOf
  <2>2. CASE UNCHANGED todo
    BY <1>0, <2>1, <2>2 DEF AnswerOf, Calls, Frames, Wire, Pieces, Talk, Done, Pending, Sent, Live,
                            WorkerOf
  <2>3. CASE ~IsOpened(c) /\ todo'[c] = Tail(todo[c])
    <3>1. ~Live(c)
      BY <1>0, <2>1, <2>3 DEF Talk
    <3> QED
      BY <1>0, <2>1, <2>3, <3>1, LostWrite DEF WorkerOf, Live
  <2> QED
    BY <2>1, <2>2, <2>3
<1>10. CASE HioWrite(c)
  <2> DEFINE f == Head(todo[c])
  <2>1. /\ UNCHANGED <<handling, writer, resp, pc, after, points, i, buffer, request, conn, status,
                       client>>
        /\ todo[c] # <<>> /\ todo'[c] = Tail(todo[c])
        /\ \/ UNCHANGED stream /\ (~Live(c) \/ f.kind = "chunk")
           \/ stream'[c] = [stream[c] EXCEPT !.phase = "cut"] /\ Live(c)
           \/ stream'[c] = Receive(stream[c], f, c) /\ Live(c)
        /\ stream[c].phase \notin {"done", "broken"} /\ client[c] \notin {"answered", "ready"}
        /\ stream[c].items \cap Pending(c) = {}
    BY <1>10, WriteEffect
  <2>2. /\ f \in Frame /\ Pending(c) = f.items \cup Pending(c)'
        /\ pc[c] \notin {"none", "solve", "head", "catch"}
        /\ pc[c] = "end" => resp[c].chunked
        /\ \/ /\ todo'[c] = <<>> /\ Pending(c)' = {} /\ Len(todo[c]) = 1
              /\ \/ f = HeadFrame(200) /\ pc[c] = "flush" /\ after[c] = "loop"
                 \/ f.kind = "chunk"
                 \/ f = LastFrame /\ pc[c] \in {"exit", "close"} /\ request[c] = "solvable"
                 \/ /\ f = FullFrame(500) /\ pc[c] \in {"exit", "close"}
                    /\ request[c] \in {"failing", "solvable"}
           \/ /\ todo[c] = ErrorAnswer /\ f = HeadFrame(500)
              /\ todo'[c] = <<ChunkFrame({ErrorText})>> /\ Pending(c) = {ErrorText}
              /\ Pending(c)' = {ErrorText} /\ pc[c] = "end" /\ request[c] = "solvable"
    BY <2>1, CallGoesOn
  <2>3. CASE ~Live(c) /\ UNCHANGED stream
    BY <2>1, <2>3, LostWrite DEF Live
  <2>4. CASE UNCHANGED stream /\ f.kind = "chunk"
    <3>1. todo'[c] = <<>> /\ Pending(c)' = {}
      BY <2>2, <2>4 DEF HeadFrame
    <3> QED
      BY <1>0, <2>1, <2>2, <2>4, <3>1, OneFrame
      DEF AnswerOf, Calls, Frames, Wire, Pieces, Talk, Done, Sent, Live
  <2>5. CASE \/ stream'[c] = [stream[c] EXCEPT !.phase = "cut"]
             \/ stream'[c] = Receive(stream[c], f, c) /\ stream[c].phase = "cut"
    <3>1. stream'[c].phase = "cut" /\ stream'[c].items = stream[c].items
      BY <1>t, <2>5 DEF Receive, Stream
    <3> QED
      BY <1>0, <2>1, <3>1, CutWrite
  <2>6. CASE /\ stream'[c] = Receive(stream[c], f, c) /\ stream[c].phase # "cut" /\ Live(c)
             /\ todo'[c] = <<>>
    <3>0. /\ stream[c].phase = IF f.kind \in {"head", "full"} THEN "none" ELSE "open"
          /\ Pending(c)' = {} /\ Pending(c) = f.items
      BY <1>0, <2>1, <2>2, <2>6, OneFrame DEF Wire
    <3>1. CASE f.kind = "head"
      <4>1. /\ stream'[c].phase = "open" /\ stream'[c].items = stream[c].items
            /\ stream'[c].code = 200 /\ pc[c] = "flush" /\ f.items = {}
        BY <1>t, <2>2, <2>6, <3>0, <3>1, OneFrame
        DEF Receive, Stream, HeadFrame, FullFrame, LastFrame
      <4> QED
        BY <1>0, <2>1, <2>6, <3>0, <4>1, OneFrame
        DEF AnswerOf, Calls, Frames, Wire, Pieces, Talk, Done, Sent, Live
    <3>2. CASE f.kind = "chunk"
      <4>1. /\ stream'[c].phase = "open" /\ stream'[c].items = stream[c].items \cup f.items
            /\ stream'[c].code = stream[c].code
        BY <1>t, <2>1, <2>6, <3>0, <3>2 DEF Receive, Stream
      <4>2. Sent(c)' = Sent(c)
        BY <3>0, <4>1 DEF Sent
      <4> QED
        BY <1>0, <2>1, <2>2, <2>6, <3>0, <3>2, <4>1, <4>2, OneFrame
        DEF AnswerOf, Calls, Frames, Wire, Pieces, Talk, Done, Live
    <3>3. CASE f.kind \in {"last", "full"}
      <4>1. /\ stream'[c].phase = "done" /\ stream'[c].items = stream[c].items
            /\ pc[c] \in {"exit", "close"}
        BY <1>t, <2>2, <2>6, <3>0, <3>3, OneFrame
        DEF Receive, Stream, HeadFrame, FullFrame, LastFrame
      <4> QED
        BY <1>0, <2>1, <2>6, <3>0, <4>1, OneFrame
        DEF AnswerOf, Calls, Frames, Wire, Pieces, Talk, Done, Sent, Live
    <3> QED
      BY <2>2, <3>1, <3>2, <3>3 DEF Frame
  <2>7. CASE /\ stream'[c] = Receive(stream[c], f, c) /\ stream[c].phase # "cut" /\ Live(c)
             /\ todo[c] = ErrorAnswer /\ f = HeadFrame(500) /\ pc[c] = "end"
             /\ todo'[c] = <<ChunkFrame({ErrorText})>> /\ Pending(c)' = {ErrorText}
             /\ Pending(c) = {ErrorText}
    <3>0. stream[c].phase = "none" /\ stream[c].items = {}
      BY <1>0, <2>1, <2>7 DEF Wire, HeadFrame
    <3>1. /\ stream'[c].phase = "open" /\ stream'[c].items = {} /\ stream'[c].code = 500
      BY <1>t, <2>7, <3>0 DEF Receive, Stream, HeadFrame
    <3>2. /\ Head(todo'[c]).kind = "chunk" /\ Len(todo'[c]) = 1 /\ todo'[c] # <<>>
      BY <2>7, OneFrame DEF ChunkFrame
    <3>3. Calls(c)' /\ Frames(c)' /\ Talk(c)'
      BY <1>0, <2>1, <2>7, <3>2 DEF Calls, Frames, Talk, Done, Live
    <3>4. Wire(c)' /\ Pieces(c)'
      BY <1>0, <2>1, <2>7, <3>1, <3>2 DEF Wire, Pieces, Done, Live, Sent
    <3> QED
      BY <3>3, <3>4 DEF AnswerOf
  <2> QED
    BY <2>1, <2>2, <2>3, <2>4, <2>5, <2>6, <2>7
<1> QED
  BY <1>1, <1>2, <1>3, <1>4, <1>5, <1>6, <1>7, <1>8, <1>9, <1>10, <1>11
  DEF WorkerStep

\* The first state has no answer, and each step keeps what is said of all.
LEMMA AnswerStarts == Init => AnswerInv
<1> SUFFICES ASSUME Init, NEW c \in Conn PROVE AnswerOf(c)
  BY DEF AnswerInv
<1>1. /\ pc[c] = "none" /\ todo[c] = <<>> /\ stream[c] = EmptyStream /\ client[c] = "gone"
      /\ writer[c] = Begin /\ resp[c] = FreshResponse(TRUE) /\ ~Live(c)
  BY DEF Init, Live
<1> QED
  BY <1>1 DEF AnswerOf, Calls, Frames, Wire, Pieces, Talk, Done, Pending, EmptyStream,
              FreshResponse

LEMMA AnswerStep == IInv /\ SocketInv /\ AnswerInv /\ [Next]_vars => AnswerInv'
<1> SUFFICES ASSUME IInv, SocketInv, AnswerInv, [Next]_vars, NEW d \in Conn
             PROVE  AnswerOf(d)'
  BY DEF AnswerInv
<1>1. AnswerOf(d)
  BY DEF AnswerInv
<1>2. CASE UNCHANGED vars
  BY <1>1, <1>2, QuietStep
  DEF WorkerOf, Live, vars, ioVars, sharedVars, workerVars, clientVars
<1>3. ASSUME NEW c \in Conn,
             (\E f \in Fd : Accept(c, f)) \/ ClientStep(c) \/ LoopStep(c) \/ WorkerStep(c)
      PROVE  AnswerOf(d)'
  <2>1. CASE d = c
    BY <1>1, <1>3, <2>1, ClientKeepsAnswer, LoopKeepsAnswer, WorkerKeepsAnswer
  <2>2. CASE d # c
    <3>1. UNCHANGED <<WorkerOf(d), LoopOf(d)>>
      BY <1>3, <2>2, OthersStep DEF Others
    <3> QED
      BY <1>1, <3>1, QuietStep DEF LoopOf, Live
  <2> QED
    BY <2>1, <2>2
<1> QED
  BY <1>2, <1>3 DEF Next

AnswersInv == IInv /\ SocketInv /\ AnswerInv

LEMMA AnswersAlways == ASSUME FdReuse = FALSE PROVE Safety => []AnswersInv
<1>1. Init => AnswersInv
  BY InitInv, AnswerStarts DEF AnswersInv
<1>2. AnswersInv /\ [Next]_vars => AnswersInv'
  BY IInvStep, SocketStep, AnswerStep DEF AnswersInv
<1> QED
  BY <1>1, <1>2, PTL DEF Safety

\* Whatever calls the worker makes on a writer that success, the catch and the
\* next request share, and wherever the connection is lost, the client never
\* reads what no HTTP parser accepts.
THEOREM WellFormedAnswers == ASSUME FdReuse = FALSE PROVE Safety => []WellFramed
<1>1. AnswersInv => WellFramed
  BY DEF AnswersInv, AnswerInv, AnswerOf, Wire, WellFramed
<1> QED
  BY <1>1, AnswersAlways, PTL

\* A frame is written only by a worker whose answer is not complete.
LEMMA CompleteIsFinal ==
  ASSUME AnswersInv, Next, NEW d \in Conn, stream[d].phase = "done", client'[d] = client[d]
  PROVE  stream'[d] = stream[d]
<1> USE Domains DEF AnswersInv, IInv
<1>1. AnswerOf(d) /\ todo[d] = <<>> /\ ~armed[d] /\ client[d] # "ready"
  BY LocalTypes DEF AnswerInv, AnswerOf, Wire, Talk, EmptyStream
<1>2. PICK c \in Conn : (\E f \in Fd : Accept(c, f)) \/ ClientStep(c) \/ LoopStep(c) \/ WorkerStep(c)
  BY DEF Next
<1>3. CASE c # d
  BY <1>2, <1>3, OthersStep DEF Others, WorkerOf
<1>4. CASE c = d /\ \E f \in Fd : Accept(c, f)
  BY <1>1, <1>4 DEF Accept
<1>5. CASE c = d /\ ClientStep(c)
  BY <1>5
  DEF ClientStep, Ping, RejectSolve, AnswerSync, AcceptSolve, Begins, ClientLeaves
<1>6. CASE c = d /\ LoopStep(c)
  BY <1>6
  DEF LoopStep, Drain, LoopClose, ReadEof, SocketFails, KeepaliveTimeout, CloseTimeout, HioClose,
      CloseNow, clientVars
<1>7. CASE c = d /\ WorkerStep(c)
  BY <1>1, <1>7
  DEF WorkerStep, StorePoint, SolveReturns, SolveThrows, StreamHead, StreamThrows,
      Flush, SerializePoint, CloseDocument, Catch, EndResponse, CloseChannel, ThreadExit,
      WriteCheck, HioWrite, clientVars
<1> QED
  BY <1>2, <1>3, <1>4, <1>5, <1>6, <1>7

\* Until the client asks again nothing is added to a complete answer.
THEOREM FinalAnswers == ASSUME FdReuse = FALSE PROVE Safety => NothingAfterTheEnd
<1> DEFINE Final == \A c \in Conn : stream[c].phase = "done" /\ client'[c] = client[c]
                      => stream'[c] = stream[c]
<1>1. AnswersInv /\ [Next]_vars => [Final]_vars
  BY CompleteIsFinal
<1> QED
  BY <1>1, AnswersAlways, PTL DEF Safety, NothingAfterTheEnd

-----------------------------------------------------------------------------
(* The document is whole and the answer is right.                          *)

LEMMA IntervalIsInitial == \A n \in Nat : Initial(0..n)
BY DEF Initial

\* A step that leaves a worker alone.
LEMMA QuietDocument ==
  ASSUME NEW c \in Conn, Document(c), RightReply(c), UNCHANGED WorkerOf(c), Live(c)' => Live(c)
  PROVE  Document(c)' /\ RightReply(c)'
BY DEF Document, RightReply, WholeDocument, SpoiledDocument, NoDocument, WorkerOf, Sent,
       Pending, Done, Initial

\* A new connection is sound, whatever the last one of its name lost.
LEMMA AcceptIsWhole ==
  ASSUME IInv, NEW c \in Conn, Base(c), NEW f \in Fd, Accept(c, f)
  PROVE  Whole(c)'
<1> USE Domains DEF IInv
<1>1. pc'[c] = "none" /\ todo'[c] = <<>> /\ stream'[c] = EmptyStream
  BY LocalTypes DEF Accept, workerVars
<1>2. /\ conn[c] = "closed" /\ conn'[c] = "open" /\ UNCHANGED closeReq /\ client'[c] = "ready"
      /\ err'[c] = "none"
  BY DEF Accept
<1>3. Document(c)' /\ RightReply(c)'
  BY <1>1 DEF Document, RightReply, Done, Initial, EmptyStream
<1>4. Close(c)'
  BY <1>1, <1>2 DEF Close, Base, Live, EmptyStream
<1> QED
  BY <1>3, <1>4 DEF Whole

\* Asking, and answering from the event loop.
LEMMA ClientKeepsDocument ==
  ASSUME IInv, NEW c \in Conn, AnswerOf(c), Document(c), RightReply(c), ClientStep(c)
  PROVE  Document(c)' /\ RightReply(c)'
<1> USE Domains DEF IInv
<1>2. ASSUME NEW k \in RequestKind, NEW keepAlive, NEW code, AnswerSync(c, k, code, keepAlive),
             code = IF k = "ping" THEN 200 ELSE 400
      PROVE  Document(c)' /\ RightReply(c)'
  <2>1. Done(c) /\ todo[c] = <<>>
    BY <1>2, LocalTypes DEF AnswerSync, Begins, AnswerOf, Talk, Wire, Done
  <2>2. /\ UNCHANGED <<pc[c], todo[c]>> /\ request'[c] = k
        /\ stream'[c].phase = "done" /\ stream'[c].items = {} /\ stream'[c].code = code
    BY <1>2 DEF AnswerSync, Begins, workerVars, Receive, EmptyStream, FullFrame
  <2>3. Document(c)'
    BY <2>1, <2>2 DEF Document, Initial, Done
  <2>4. RightReply(c)'
    BY <1>2, <2>2 DEF RightReply, RequestKind
  <2> QED
    BY <2>3, <2>4
<1>3. ASSUME NEW k, NEW keepAlive, AcceptSolve(c, k, keepAlive)
      PROVE  Document(c)' /\ RightReply(c)'
  <2>1. pc'[c] = "solve" /\ todo'[c] = <<>> /\ stream'[c] = EmptyStream /\ ~resp'[c].chunked
    <3>1. resp[c] \in Response
      BY LocalTypes
    <3> QED
      BY <1>3, <3>1, LocalTypes
      DEF AcceptSolve, ResetResponse, FreshResponse, AnswerOf, Calls, Response
  <2>2. Sent(c)' = {}
    BY <2>1, OneFrame DEF Sent, Pending, EmptyStream
  <2> QED
    BY <2>1, <2>2 DEF Document, RightReply, Done, Initial, EmptyStream
<1>4. CASE ClientLeaves(c)
  <2>1. UNCHANGED WorkerOf(c) /\ UNCHANGED conn
    BY <1>4 DEF ClientLeaves, WorkerOf, ioVars, sharedVars, workerVars
  <2> QED
    BY <2>1, QuietDocument DEF Live
<1>5. Requests \subseteq RequestKind /\ "ping" \in RequestKind
  BY RequestAssumption DEF RequestKind
<1> QED
  BY <1>2, <1>3, <1>4, <1>5 DEF ClientStep, Ping, RejectSolve

LEMMA LoopKeepsDocument ==
  ASSUME IInv, NEW c \in Conn, Document(c), RightReply(c), LoopStep(c)
  PROVE  Document(c)' /\ RightReply(c)'
<1> USE Domains DEF IInv
<1>1. UNCHANGED WorkerOf(c)
  BY DEF LoopStep, Drain, LoopClose, ReadEof, SocketFails, KeepaliveTimeout, CloseTimeout, HioClose,
         CloseNow, WorkerOf, workerVars, sharedVars, clientVars
<1>2. Live(c)
  BY DEF LoopStep, Drain, LoopClose, ReadEof, SocketFails, KeepaliveTimeout, CloseTimeout, Live
<1> QED
  BY <1>1, <1>2, QuietDocument

LEMMA WorkerKeepsDocument ==
  ASSUME IInv, SocketInv, NEW c \in Conn, Sound(c)', AnswerOf(c),
         Document(c), RightReply(c), WorkerStep(c)
  PROVE  Document(c)' /\ RightReply(c)'
<1> USE Domains DEF IInv
<1>0. /\ Calls(c) /\ Frames(c) /\ Wire(c) /\ Pieces(c) /\ Talk(c)
      /\ IsOpened(c) <=> Live(c) /\ status[c] = "CONNECTED"
  BY OpenIsLive DEF AnswerOf
<1>t. /\ pc[c] \in {"none", "solve", "head", "flush", "loop", "catch", "end", "close", "exit"}
      /\ points[c] \in Nat /\ i[c] \in Nat /\ i[c] >= 1 /\ buffer[c] \in SUBSET Nat
      /\ writer[c] \in Writer /\ resp[c] \in Response /\ after[c] \in {"loop", "end"}
      /\ todo[c] \in Seq(Frame) /\ stream[c] \in Stream(Conn) /\ stream[c].items \in SUBSET Nat
  BY LocalTypes DEF Stream
<1>1. ASSUME ~HioWrite(c) PROVE stream' = stream /\ request' = request /\ conn' = conn
  BY <1>1
  DEF WorkerStep, StorePoint, SolveReturns, SolveThrows, StreamHead, StreamThrows, Flush,
      SerializePoint, CloseDocument, Catch, EndResponse, CloseChannel,
      ThreadExit, WriteCheck, ioVars, clientVars
<1>2. ASSUME pc[c] \in {"solve", "head"} PROVE Document(c)' /\ RightReply(c)'
  <2>1. stream[c] = EmptyStream /\ todo[c] = <<>> /\ writer[c] = Begin
    BY <1>0, <1>2 DEF Calls, Done, Begin
  <2>2. ~HioWrite(c) /\ ~WriteCheck(c)
    BY <2>1, LocalTypes DEF HioWrite, WriteCheck
  <2>3. stream'[c] = EmptyStream
    BY <1>1, <2>1, <2>2
  <2>4. /\ pc'[c] = "flush" => /\ after'[c] = "loop" /\ i'[c] = 1 /\ buffer'[c] = {0}
                               /\ todo'[c] = <<HeadFrame(resp[c].code)>>
        /\ pc'[c] # "flush" => todo'[c] = <<>>
        /\ pc'[c] \in {"solve", "head", "catch", "flush"}
    <3>1. CASE StreamHead(c)
      BY <2>1, <3>1 DEF StreamHead, EndHeadersOut, Begin, Goto
    <3>2. CASE StorePoint(c) \/ SolveReturns(c) \/ SolveThrows(c) \/ StreamThrows(c)
      BY <1>2, <2>1, <3>2 DEF StorePoint, SolveReturns, SolveThrows, StreamThrows, Goto, sharedVars
    <3> QED
      BY <1>2, <2>2, <3>1, <3>2
      DEF WorkerStep, Flush, SerializePoint, CloseDocument, Catch, EndResponse, CloseChannel,
          ThreadExit, At
  <2>5. Sent(c)' = {}
    BY <2>3, <2>4, OneFrame DEF Sent, Pending, HeadFrame, EmptyStream
  <2>6. Document(c)'
    <3>1. CASE pc'[c] = "flush"
      <4>1. {0} = 0..(1 - 1) /\ Head(todo'[c]) # LastFrame /\ ~Done(c)'
        BY <2>4, <3>1, OneFrame DEF HeadFrame, LastFrame, Done
      <4>2. Sent(c)' \cup buffer'[c] = 0..(i'[c] - 1)
        <5>1. buffer'[c] = {0} /\ i'[c] = 1
          BY <2>4, <3>1
        <5> QED
          BY <2>5, <4>1, <5>1
      <4>3. Initial(Sent(c))'
        BY <2>5 DEF Initial
      <4>4. Initial(stream[c].items)'
        BY <2>3 DEF Initial, EmptyStream
      <4> QED
        BY <2>4, <2>5, <3>1, <4>1, <4>2, <4>3, <4>4 DEF Document, Initial
    <3>2. CASE pc'[c] # "flush"
      BY <2>3, <2>4, <2>5, <3>2 DEF Document, Initial, Done, EmptyStream
    <3> QED
      BY <3>1, <3>2
  <2>7. RightReply(c)'
    BY <2>3 DEF RightReply, EmptyStream
  <2> QED
    BY <2>6, <2>7
<1>3. CASE Flush(c) \/ SerializePoint(c) \/ CloseDocument(c)
  <2>1. /\ UNCHANGED <<stream, request, conn, points, resp>> /\ pc[c] \in {"flush", "loop"}
        /\ todo[c] = <<>> /\ Pending(c) = {} /\ resp[c].chunked /\ ~Done(c)
        /\ stream[c].phase # "done"
    BY <1>0, <1>3, OneFrame
    DEF Flush, SerializePoint, CloseDocument, ioVars, sharedVars, clientVars, At, Pending, Calls,
        Done, Wire
  <2>2. RightReply(c)'
    BY <2>1 DEF RightReply
  <2>3. CASE Live(c) /\ stream[c].phase # "cut"
    <3>1. /\ IsOpened(c) /\ Initial(Sent(c)) /\ Initial(stream[c].items)
          /\ Sent(c) \cup buffer[c] = (IF after[c] = "loop" THEN 0..(i[c] - 1)
                                      ELSE 0..(points[c] + 1))
          /\ writer[c].state = "SEND_HEADER" => Sent(c) = {}
      BY <1>0, <2>1, <2>3 DEF Document, Talk
    <3>2. CASE Flush(c)
      <4>1. /\ UNCHANGED <<points, i, after>> /\ pc'[c] = after[c]
            /\ \/ UNCHANGED <<writer, todo, buffer>> /\ buffer[c] = {}
               \/ /\ buffer[c] # {} /\ buffer'[c] = {}
                  /\ writer'[c].state = "SEND_CHUNKED" /\ todo'[c] = <<ChunkFrame(buffer[c])>>
        BY <3>1, <3>2, FlushEffect
      <4>2. /\ Sent(c)' \cup buffer'[c] = Sent(c) \cup buffer[c]
            /\ buffer'[c] = {}
            /\ todo'[c] # <<>> => writer'[c].state = "SEND_CHUNKED" /\ Head(todo'[c]) # LastFrame
            /\ writer'[c].state = "SEND_HEADER" => Sent(c)' = {}
        <5>1. CASE UNCHANGED <<writer, todo, buffer>> /\ buffer[c] = {}
          BY <2>1, <3>1, <5>1 DEF Sent, Pending
        <5>2. CASE /\ buffer[c] # {} /\ buffer'[c] = {} /\ writer'[c].state = "SEND_CHUNKED"
                   /\ todo'[c] = <<ChunkFrame(buffer[c])>>
          <6>1. Pending(c)' = buffer[c] /\ Head(todo'[c]) # LastFrame
            BY <5>2, OneFrame DEF Pending, ChunkFrame, LastFrame
          <6> QED
            BY <2>1, <5>2, <6>1 DEF Sent
        <5> QED
          BY <4>1, <5>1, <5>2
      <4>3. Sent(c)' = IF after[c] = "loop" THEN 0..(i[c] - 1) ELSE 0..(points[c] + 1)
        BY <3>1, <4>2
      <4>4. Initial(Sent(c))'
        BY <1>t, <4>3 DEF Initial
      <4>5. Document(c)'
        BY <1>t, <2>1, <3>1, <4>1, <4>2, <4>3, <4>4 DEF Document, Done, Initial
      <4> QED
        BY <2>2, <4>5
    <3>3. CASE SerializePoint(c)
      <4>1. /\ UNCHANGED <<points, after, todo, writer>> /\ pc'[c] \in {"loop", "flush"}
            /\ i'[c] = i[c] + 1 /\ buffer'[c] = buffer[c] \cup {i[c]} /\ after[c] = "loop"
        BY <1>0, <3>3 DEF SerializePoint, At, Goto, sharedVars, Pieces
      <4>2. Sent(c)' = Sent(c)
        BY <2>1, <4>1 DEF Sent, Pending
      <4>3. Sent(c) \cup buffer'[c] = 0..(i'[c] - 1)
        BY <1>t, <3>1, <4>1
      <4>4. Document(c)'
        BY <2>1, <3>1, <4>1, <4>2, <4>3 DEF Document, Done, Initial
      <4> QED
        BY <2>2, <4>4
    <3>4. CASE CloseDocument(c)
      <4>1. /\ UNCHANGED <<points, i, todo, writer>> /\ pc'[c] = "flush" /\ after'[c] = "end"
            /\ buffer'[c] = buffer[c] \cup {points[c] + 1} /\ after[c] = "loop"
            /\ i[c] = points[c] + 1
        BY <1>0, <1>t, <3>1, <3>4 DEF CloseDocument, At, Goto, sharedVars, Pieces
      <4>2. Sent(c)' = Sent(c)
        BY <2>1, <4>1 DEF Sent, Pending
      <4>3. Sent(c) \cup buffer'[c] = 0..(points[c] + 1)
        BY <1>t, <3>1, <4>1
      <4>4. Document(c)'
        BY <2>1, <3>1, <4>1, <4>2, <4>3 DEF Document, Done, Initial
      <4> QED
        BY <2>2, <4>4
    <3> QED
      BY <1>3, <3>2, <3>3, <3>4
  <2>4. CASE ~(Live(c) /\ stream[c].phase # "cut")
    BY <2>1, <2>2, <2>4 DEF Document, Live, Initial
  <2> QED
    BY <2>3, <2>4
<1>4. CASE EndResponse(c)
  <2>1. /\ UNCHANGED <<stream, request, conn, points, resp>> /\ pc[c] = "end"
        /\ todo[c] = <<>> /\ Pending(c) = {} /\ ~Done(c) /\ pc'[c] \in {"exit", "close"}
        /\ writer[c].end = "SEND_BEGIN" /\ stream[c].phase # "done"
    BY <1>0, <1>4, OneFrame DEF EndResponse, Goto, ioVars, clientVars, At, Pending, Calls, Done, Wire
  <2>2. RightReply(c)'
    BY <2>1 DEF RightReply
  <2>3. CASE Live(c) /\ stream[c].phase # "cut"
    <3>1. IsOpened(c) /\ todo'[c] = EndOut(writer[c], resp[c])
      BY <1>0, <1>4, <2>1, <2>3 DEF EndResponse, Talk
    <3>2. CASE resp[c].chunked
      <4>1. /\ WholeDocument(c) \/ SpoiledDocument(c)
            /\ writer[c].state # "SEND_HEADER" /\ Initial(stream[c].items)
        <5>1. 0 \in 0..(points[c] + 1)
          BY <1>t
        <5> QED
          BY <2>1, <2>3, <3>2, <5>1 DEF Document, Sent, WholeDocument, SpoiledDocument
      <4>2. todo'[c] = <<LastFrame>>
        BY <1>0, <2>1, <3>1, <3>2, <4>1 DEF EndOut, Calls
      <4>3. Head(todo'[c]) = LastFrame /\ LastFrame.kind # "chunk"
        BY <4>2, OneFrame DEF LastFrame
      <4> QED
        BY <2>1, <2>2, <4>1, <4>3 DEF Document, Done, Initial, WholeDocument, SpoiledDocument
    <3>3. CASE ~resp[c].chunked
      <4>1. todo'[c] = <<FullFrame(500)>>
        BY <1>0, <2>1, <3>1, <3>3 DEF EndOut, Calls
      <4>2. Head(todo'[c]) # LastFrame /\ Head(todo'[c]).kind # "chunk"
        BY <4>1, OneFrame DEF LastFrame, FullFrame
      <4> QED
        BY <2>1, <2>2, <4>2 DEF Document, Done, Initial
    <3> QED
      BY <3>2, <3>3
  <2>4. CASE ~(Live(c) /\ stream[c].phase # "cut")
    BY <2>1, <2>2, <2>4 DEF Document, Live, Initial
  <2> QED
    BY <2>3, <2>4
<1>5. CASE CloseChannel(c) \/ ThreadExit(c)
  <2>1. /\ UNCHANGED <<stream, request, conn, points, todo>> /\ Done(c)'
        /\ todo[c] = <<>> /\ pc'[c] \in {"exit", "none"}
    BY <1>5 DEF CloseChannel, ThreadExit, At, Goto, ioVars, clientVars, Done
  <2> QED
    BY <2>1 DEF Document, RightReply, WholeDocument, SpoiledDocument, NoDocument, Done, Live, Initial
<1>6. CASE WriteCheck(c)
  <2>1. /\ UNCHANGED <<writer, resp, pc, after, points, i, buffer, request, stream, conn>>
        /\ UNCHANGED todo \/ ~IsOpened(c)
    BY <1>6 DEF WriteCheck, ioVars, sharedVars, clientVars
  <2>2. ~UNCHANGED todo => ~Live(c)
    BY <1>0, <1>6, <2>1 DEF WriteCheck, Talk
  <2> QED
    BY <2>1, <2>2
    DEF Document, RightReply, WholeDocument, SpoiledDocument, NoDocument, Done, Live, Sent, Pending,
        Initial
<1>7. CASE HioWrite(c)
  <2> DEFINE f == Head(todo[c])
  <2>1. /\ UNCHANGED <<writer, resp, pc, after, points, i, buffer, request, conn>>
        /\ todo[c] # <<>> /\ todo'[c] = Tail(todo[c])
        /\ stream[c].phase # "done" /\ stream[c].items \cap Pending(c) = {}
    BY <1>7, WriteEffect
  <2>2. \/ UNCHANGED stream /\ ~Live(c)
        \/ stream'[c] = [stream[c] EXCEPT !.phase = "cut"] /\ Live(c)
        \/ stream'[c] = Receive(stream[c], f, c) /\ Live(c)
    BY <1>7, WriteEffect DEF Sound
  <2>3. /\ f \in Frame /\ Pending(c) = f.items \cup Pending(c)'
        /\ pc[c] \notin {"none", "solve", "head", "catch"}
        /\ pc[c] = "end" => resp[c].chunked
        /\ \/ /\ todo'[c] = <<>> /\ Pending(c)' = {} /\ Len(todo[c]) = 1
              /\ \/ f = HeadFrame(200) /\ pc[c] = "flush" /\ after[c] = "loop"
                 \/ f.kind = "chunk"
                 \/ f = LastFrame /\ pc[c] \in {"exit", "close"} /\ request[c] = "solvable"
                 \/ /\ f = FullFrame(500) /\ pc[c] \in {"exit", "close"}
                    /\ request[c] \in {"failing", "solvable"}
           \/ /\ todo[c] = ErrorAnswer /\ f = HeadFrame(500)
              /\ todo'[c] = <<ChunkFrame({ErrorText})>> /\ Pending(c) = {ErrorText}
              /\ Pending(c)' = {ErrorText} /\ pc[c] = "end" /\ request[c] = "solvable"
    BY <2>1, CallGoesOn
  <2>4. CASE UNCHANGED stream /\ ~Live(c)
    BY <2>1, <2>4 DEF Document, RightReply, Live, Initial
  <2>5. CASE \/ stream'[c] = [stream[c] EXCEPT !.phase = "cut"]
             \/ stream'[c] = Receive(stream[c], f, c) /\ stream[c].phase = "cut"
    <3>1. stream'[c].phase = "cut" /\ stream'[c].items = stream[c].items
      BY <1>t, <2>5 DEF Receive, Stream
    <3> QED
      BY <3>1 DEF Document, RightReply, Initial
  <2>6. CASE /\ stream'[c] = Receive(stream[c], f, c) /\ stream[c].phase # "cut" /\ Live(c)
             /\ todo'[c] = <<>>
    <3>1. /\ stream[c].phase = IF f.kind \in {"head", "full"} THEN "none" ELSE "open"
          /\ Pending(c)' = {} /\ Pending(c) = f.items
      BY <1>0, <2>1, <2>3, <2>6, OneFrame DEF Wire
    <3>2. CASE f.kind = "head"
      <4>1. /\ stream'[c].phase = "open" /\ stream'[c].items = stream[c].items
            /\ pc[c] = "flush" /\ f.items = {}
        BY <1>t, <2>3, <2>6, <3>1, <3>2, OneFrame
        DEF Receive, Stream, HeadFrame, FullFrame, LastFrame
      <4>2. Sent(c)' = Sent(c)
        BY <3>1, <4>1 DEF Sent
      <4> QED
        BY <2>1, <2>6, <4>1, <4>2 DEF Document, RightReply, Done, Live, Initial
    <3>3. CASE f.kind = "chunk"
      <4>1. stream'[c].phase = "open" /\ stream'[c].items = Sent(c)
        BY <1>t, <2>1, <2>6, <3>1, <3>3 DEF Receive, Stream, Sent
      <4>2. Sent(c)' = Sent(c)
        BY <3>1, <4>1 DEF Sent
      <4>3. ~Done(c)
        BY <2>1, <2>6, <3>3 DEF Document
      <4>4. Initial(Sent(c))
        BY <1>t, <2>3, <2>6, <4>3 DEF Document, Done
      <4> QED
        BY <2>1, <2>6, <4>1, <4>2, <4>3, <4>4 DEF Document, RightReply, Done, Live, Initial
    <3>4. CASE f.kind = "last"
      <4>1. /\ stream'[c].phase = "done" /\ stream'[c].items = stream[c].items
            /\ stream'[c].code = stream[c].code /\ pc[c] \in {"exit", "close"}
            /\ request[c] = "solvable" /\ f = LastFrame
        BY <1>t, <2>3, <2>6, <3>1, <3>4, OneFrame
        DEF Receive, Stream, HeadFrame, FullFrame, LastFrame
      <4>2. stream[c].code = 200 \/ (stream[c].code = 500 /\ Sent(c) \subseteq {ErrorText})
        BY <1>0, <3>1, <3>4 DEF Wire
      <4>3. (WholeDocument(c) \/ SpoiledDocument(c)) /\ Initial(stream[c].items)
        BY <2>1, <2>6, <4>1 DEF Document
      <4>4. WholeDocument(c)' \/ SpoiledDocument(c)'
        BY <2>1, <4>1, <4>3 DEF WholeDocument, SpoiledDocument
      <4>5. stream'[c].code = 500 => NoDocument(c)'
        BY <4>1, <4>2 DEF NoDocument, Sent
      <4>6. RightReply(c)'
        BY <2>1, <4>1, <4>2, <4>4, <4>5 DEF RightReply
      <4> QED
        BY <2>1, <2>6, <4>1, <4>3, <4>6 DEF Document, Done, Initial
    <3>5. CASE f.kind = "full"
      <4>1. /\ stream'[c].phase = "done" /\ stream'[c].items = stream[c].items
            /\ stream'[c].code = 500 /\ pc[c] \in {"exit", "close"}
            /\ request[c] \in {"failing", "solvable"}
        BY <1>t, <2>3, <2>6, <3>1, <3>5, OneFrame
        DEF Receive, Stream, HeadFrame, FullFrame, LastFrame
      <4>2. NoDocument(c)'
        BY <1>0, <3>1, <3>5, <4>1 DEF Wire, NoDocument
      <4> QED
        BY <2>1, <2>6, <4>1, <4>2 DEF Document, RightReply, Done, Initial
    <3> QED
      BY <2>3, <3>2, <3>3, <3>4, <3>5 DEF Frame
  <2>7. CASE /\ stream'[c] = Receive(stream[c], f, c) /\ stream[c].phase # "cut" /\ Live(c)
             /\ f = HeadFrame(500) /\ pc[c] = "end" /\ Pending(c) = {ErrorText}
             /\ todo'[c] = <<ChunkFrame({ErrorText})>> /\ Pending(c)' = {ErrorText}
    <3>1. stream[c].phase = "none"
      BY <1>0, <2>1, <2>7 DEF Wire, HeadFrame
    <3>2. stream'[c].phase = "open" /\ stream'[c].items = stream[c].items
      BY <1>t, <2>7, <3>1 DEF Receive, Stream, HeadFrame
    <3>3. Sent(c)' = Sent(c) /\ ErrorText \in Sent(c)
      BY <2>7, <3>2 DEF Sent
    <3>4. Head(todo'[c]) # LastFrame /\ ~Done(c)
      BY <2>7, OneFrame DEF ChunkFrame, LastFrame, Done
    <3> QED
      BY <2>1, <2>7, <3>2, <3>3, <3>4 DEF Document, RightReply, Done, Live, Initial
  <2> QED
    BY <2>2, <2>3, <2>4, <2>5, <2>6, <2>7
<1>8. CASE StreamThrows(c) /\ pc[c] \in {"flush", "loop"}
  <2>1. /\ UNCHANGED <<stream, request, conn, points, todo, writer>> /\ pc'[c] = "catch"
        /\ todo[c] = <<>> /\ stream[c].phase # "done" /\ Sent(c)' = Sent(c)
    BY <1>0, <1>8
    DEF StreamThrows, At, Goto, ioVars, clientVars, Wire, Done, Sent, Pending
  <2> QED
    BY <1>8, <2>1 DEF Document, RightReply, Done, Live, Initial
<1>9. CASE Catch(c)
  <2>0. CatchAnswers(c)
    BY <1>9, CatchEffect
  <2>1. /\ UNCHANGED <<stream, request, conn, points>> /\ pc[c] = "catch" /\ todo[c] = <<>>
        /\ resp'[c].chunked = resp[c].chunked
    BY <2>0 DEF CatchAnswers
  <2>2. ~Done(c) /\ stream[c].phase # "done" /\ Sent(c) = stream[c].items
    BY <1>0, <2>1, OneFrame DEF Wire, Done, Sent, Pending
  <2>3. RightReply(c)' /\ (Initial(stream[c].items) => Initial(stream[c].items)')
    BY <2>1, <2>2 DEF RightReply, Initial
  <2>4. CASE ~(Live(c) /\ stream[c].phase # "cut")
    BY <2>1, <2>3, <2>4 DEF Document, Live
  <2>5. CASE Live(c) /\ stream[c].phase # "cut"
    <3>1. IsOpened(c) /\ Initial(Sent(c)) /\ Initial(stream[c].items)
      BY <1>0, <2>1, <2>5 DEF Talk, Document
    <3>2. CASE ~resp[c].chunked
      <4>1. pc'[c] = "end" /\ todo'[c] = <<>> /\ writer'[c].state = "SEND_BEGIN"
        BY <2>0, <3>1, <3>2 DEF CatchAnswers
      <4>2. Sent(c)' = Sent(c)
        BY <2>1, <2>2, <4>1, OneFrame DEF Sent, Pending
      <4> QED
        BY <2>1, <2>2, <2>3, <3>1, <3>2, <4>1, <4>2 DEF Document, Done, Live, Initial
    <3>3. CASE resp[c].chunked
      <4>1. /\ pc'[c] = "end" /\ writer'[c].state = "SEND_CHUNKED"
            /\ todo'[c] = ErrorAnswer \/ todo'[c] = <<ChunkFrame({ErrorText})>>
        BY <2>0, <3>1, <3>3 DEF CatchAnswers
      <4>2. Pending(c)' = {ErrorText} /\ Head(todo'[c]) # LastFrame
        <5>1. CASE todo'[c] = ErrorAnswer
          BY <5>1, ErrorAnswerProperties DEF Pending, HeadFrame, LastFrame
        <5>2. CASE todo'[c] = <<ChunkFrame({ErrorText})>>
          BY <5>2, OneFrame DEF Pending, ChunkFrame, LastFrame
        <5> QED
          BY <4>1, <5>1, <5>2
      <4>3. Sent(c)' = Sent(c) \cup {ErrorText}
        BY <2>1, <2>2, <4>2 DEF Sent
      <4>4. Initial(Sent(c)') /\ ErrorText \in Sent(c)'
        BY <3>1, <4>3 DEF Initial
      <4> QED
        BY <2>1, <2>2, <2>3, <3>1, <4>1, <4>2, <4>4 DEF Document, Done, Live, Initial
    <3> QED
      BY <3>2, <3>3
  <2> QED
    BY <2>4, <2>5
<1>10. StreamThrows(c) => pc[c] \in {"head", "flush", "loop"}
  BY DEF StreamThrows, At
<1> QED
  BY <1>2, <1>3, <1>4, <1>5, <1>6, <1>7, <1>8, <1>9, <1>10
  DEF WorkerStep, StorePoint, SolveReturns, SolveThrows, StreamHead, At

-----------------------------------------------------------------------------
(* Nobody closes under a client that waits for the rest of an answer.      *)

LEMMA ClientKeepsClose ==
  ASSUME IInv, NEW c \in Conn, AnswerOf(c), Close(c), ClientStep(c)
  PROVE  Close(c)'
<1> USE Domains DEF IInv
<1>2. ASSUME conn[c] = "open", client[c] \in {"ready", "answered"},
             client[c] = "answered" => resp[c].keepAlive
      PROVE  ~closeReq[c] /\ err[c] = "none" /\ pc[c] # "close"
  BY <1>2 DEF AnswerOf, Talk, Wire, Close, Base, Live, EmptyStream
<1>3. ASSUME NEW k, NEW keepAlive, NEW code, AnswerSync(c, k, code, keepAlive) PROVE Close(c)'
  <2>1. ~closeReq[c] /\ err[c] = "none" /\ Done(c) /\ pc[c] # "close"
    BY <1>2, <1>3, LocalTypes DEF AnswerSync, Begins, AnswerOf, Talk, Wire, Done
  <2>2. /\ UNCHANGED <<pc, closeReq, err>> /\ client'[c] = "waiting"
        /\ conn'[c] \in {"open", "closing"} /\ stream'[c].phase = "done" /\ queue'[c] = queue[c] + 1
    BY <1>3 DEF AnswerSync, Begins, workerVars, Receive, EmptyStream, FullFrame
  <2> QED
    BY <2>1, <2>2, LocalTypes DEF Close, Base, Live, Done
<1>4. ASSUME NEW k, NEW keepAlive, AcceptSolve(c, k, keepAlive) PROVE Close(c)'
  <2>1. ~closeReq[c] /\ err[c] = "none"
    BY <1>2, <1>4 DEF AcceptSolve, Begins
  <2>2. /\ UNCHANGED <<conn, closeReq, err>> /\ client'[c] = "waiting" /\ conn[c] = "open"
        /\ stream'[c].phase = "none" /\ pc'[c] = "solve"
    BY <1>4 DEF AcceptSolve, Begins, EmptyStream
  <2> QED
    BY <2>1, <2>2 DEF Close, Base, Live, Done
<1>5. CASE ClientLeaves(c)
  <2>1. UNCHANGED <<conn, closeReq, err, stream>> /\ client'[c] = "gone"
    BY <1>5 DEF ClientLeaves, ioVars
  <2> QED
    BY <2>1 DEF Close, Base, Live
<1> QED
  BY <1>3, <1>4, <1>5 DEF ClientStep, Ping, RejectSolve

\* A client that waits with a complete answer in the queue loses it to a timer
\* only: a posted close is the first one, and waits for the queue.
LEMMA LoopKeepsClose ==
  ASSUME IInv, NEW c \in Conn, AnswerOf(c), Close(c), LoopStep(c)
  PROVE  Close(c)'
<1> USE Domains DEF IInv
<1>1. ASSUME Live(c), CloseNow(c), client[c] = "waiting" /\ stream[c].phase = "done" => err'[c] = "timeout"
      PROVE  Close(c)'
  <2>1. /\ conn'[c] = "closed" /\ ~closeReq'[c] /\ UNCHANGED <<stream, pc>>
        /\ client'[c] = (IF client[c] = "waiting" THEN "lost" ELSE client[c])
    BY <1>1 DEF CloseNow, workerVars
  <2> QED
    BY <1>1, <2>1 DEF Close, Base, Live
<1>2. CASE Live(c) /\ HioClose(c) /\ (closeReq[c] \/ client[c] = "gone")
  <2>1. CASE queue[c] > 0 /\ err[c] = "none" /\ conn[c] = "open"
    <3>1. /\ conn'[c] = "closing" /\ ~closeReq'[c]
          /\ UNCHANGED <<stream, pc, todo, resp, client, err, queue>>
      BY <1>2, <2>1 DEF HioClose, sharedVars, workerVars, clientVars
    <3>2. client[c] \in {"waiting", "answered"} =>
            pc[c] \in {"none", "exit"} /\ stream[c].phase = "done"
      BY <1>2, <2>1 DEF Close, Base, Done
    <3>3. client[c] \notin {"lost", "ready"} /\ stream[c].phase # "cut"
      BY <1>2, <2>1 DEF Close, Base
    <3> QED
      BY <2>1, <3>1, <3>2, <3>3 DEF Close, Base, Live
  <2>2. CASE ~(queue[c] > 0 /\ err[c] = "none" /\ conn[c] = "open")
    <3>1. CloseNow(c) /\ UNCHANGED err
      BY <1>2, <2>2 DEF HioClose
    <3>2. ~(client[c] = "waiting" /\ stream[c].phase = "done")
      BY <1>2, <2>2 DEF Close, Base
    <3> QED
      BY <1>1, <1>2, <3>1, <3>2
  <2> QED
    BY <2>1, <2>2
<1>3. CASE SocketFails(c) \/ KeepaliveTimeout(c) \/ CloseTimeout(c)
  <2>1. Live(c) /\ CloseNow(c) /\ (client[c] = "waiting" => err'[c] = "timeout")
    BY <1>3 DEF SocketFails, KeepaliveTimeout, CloseTimeout, Live
  <2> QED
    BY <1>1, <2>1
<1>4. CASE Drain(c)
  <2>1. /\ Live(c) /\ queue[c] > 0 /\ queue'[c] = queue[c] - 1
        /\ UNCHANGED <<stream, pc, todo, resp, err>>
        /\ client'[c] = (IF client[c] = "waiting" /\ queue[c] = 1 /\ stream[c].phase = "done"
                        THEN "answered" ELSE client[c])
    BY <1>4 DEF Drain, workerVars
  <2>2. queue[c] \in Nat
    BY LocalTypes
  <2>3. CASE conn[c] = "closing" /\ queue[c] = 1
    <3>1. conn'[c] = "closed" /\ ~closeReq'[c]
      BY <1>4, <2>3 DEF Drain
    <3> QED
      BY <2>1, <2>3, <3>1 DEF Close, Base, Live
  <2>4. CASE ~(conn[c] = "closing" /\ queue[c] = 1)
    <3>1. UNCHANGED <<conn, closeReq>>
      BY <1>4, <2>4 DEF Drain
    <3>2. client'[c] = "waiting" /\ stream[c].phase = "done" => queue'[c] > 0
      BY <2>1, <2>2 DEF Close, Base
    <3> QED
      BY <2>1, <3>1, <3>2 DEF Close, Base, Live, Done
  <2> QED
    BY <2>3, <2>4
<1> QED
  BY <1>2, <1>3, <1>4 DEF LoopStep, LoopClose, ReadEof

\* A step that writes and closes nothing, and after which the worker has not
\* more to say than before and not finished without a last frame.
LEMMA QuietClose ==
  ASSUME NEW c \in Conn, Close(c),
         UNCHANGED <<conn[c], closeReq[c], err[c], queue[c], client[c], stream[c]>>,
         resp'[c].keepAlive = resp[c].keepAlive,
         pc[c] \in {"none", "exit"} => pc'[c] \in {"none", "exit"} /\ (todo[c] = <<>> => todo'[c] = <<>>),
         Live(c) /\ Done(c)' /\ todo'[c] = <<>> => Done(c) /\ todo[c] = <<>>
  PROVE  Close(c)'
BY DEF Close, Base, Live

LEMMA WorkerKeepsClose ==
  ASSUME IInv, SocketInv, NEW c \in Conn, Sound(c)', AnswerOf(c),
         Document(c), Close(c), WorkerStep(c)
  PROVE  Close(c)'
<1> USE Domains DEF IInv
<1>0. /\ Calls(c) /\ Frames(c) /\ Wire(c) /\ Talk(c) /\ resp[c] \in Response
      /\ IsOpened(c) <=> Live(c) /\ status[c] = "CONNECTED"
  BY OpenIsLive, LocalTypes DEF AnswerOf
<1>2. CASE \/ StorePoint(c) \/ SolveReturns(c) \/ SolveThrows(c) \/ SerializePoint(c)
           \/ CloseDocument(c)
  <2>1. /\ UNCHANGED <<resp, conn, closeReq, err, queue, client, stream>>
        /\ pc[c] \notin {"none", "exit"} /\ ~Done(c)'
    BY <1>2
    DEF StorePoint, SolveReturns, SolveThrows, SerializePoint, CloseDocument, At, Goto, Done,
        ioVars, sharedVars, clientVars
  <2> QED
    BY <2>1, QuietClose
<1>3. CASE StreamHead(c) \/ Flush(c)
  <2>1. /\ UNCHANGED <<conn, closeReq, err, queue, client, stream>> /\ pc[c] \notin {"none", "exit"}
        /\ pc'[c] = "flush" \/ pc'[c] = after[c]
    BY <1>3 DEF StreamHead, Flush, At, Goto, ioVars, clientVars
  <2>2. ~Done(c)' /\ resp'[c].keepAlive = resp[c].keepAlive
    BY <1>0, <1>3, <2>1, LocalTypes DEF StreamHead, Flush, Done, Response
  <2> QED
    BY <2>1, <2>2, QuietClose
<1>10. CASE StreamThrows(c)
  <2>1. /\ UNCHANGED <<conn, closeReq, err, queue, client, stream>> /\ pc[c] \notin {"none", "exit"}
        /\ pc'[c] = "catch" /\ resp'[c].keepAlive = resp[c].keepAlive
    BY <1>0, <1>10 DEF StreamThrows, At, Goto, ioVars, clientVars, Response
  <2> QED
    BY <2>1, QuietClose DEF Done
<1>4. CASE Catch(c)
  <2>0. CatchAnswers(c)
    BY <1>4, CatchEffect
  <2>1. /\ UNCHANGED <<conn, closeReq, err, queue, client, stream>>
        /\ pc[c] = "catch" /\ (pc'[c] = "end" \/ ~IsOpened(c))
        /\ resp'[c].keepAlive = resp[c].keepAlive
    BY <1>4, <2>0 DEF CatchAnswers, Catch, ioVars, clientVars
  <2>2. Live(c) => ~Done(c)'
    BY <1>0, <2>1 DEF Talk, Done
  <2> QED
    BY <2>1, <2>2, QuietClose
<1>5. CASE EndResponse(c)
  <2>1. /\ UNCHANGED <<conn, closeReq, err, queue, client, stream, resp>> /\ pc[c] = "end"
        /\ IsOpened(c) => todo'[c] = EndOut(writer[c], resp[c])
    BY <1>5 DEF EndResponse, At, ioVars, clientVars
  <2>2. EndOut(writer[c], resp[c]) # <<>>
    BY <1>0, <2>1 DEF Calls, Done, EndOut
  <2>3. Live(c) => todo'[c] # <<>>
    BY <1>0, <2>1, <2>2 DEF Talk
  <2> QED
    BY <2>1, <2>3, QuietClose
<1>6. CASE ThreadExit(c)
  <2>1. /\ UNCHANGED <<conn, closeReq, err, queue, client, stream, resp, todo>>
        /\ pc[c] = "exit" /\ pc'[c] = "none"
    BY <1>6 DEF ThreadExit, At, Goto, ioVars, sharedVars, clientVars
  <2> QED
    BY <2>1, QuietClose DEF Done
<1>7. CASE WriteCheck(c)
  <2>1. /\ UNCHANGED <<conn, closeReq, err, queue, client, stream, resp, pc>>
        /\ todo[c] # <<>> /\ (UNCHANGED todo \/ ~IsOpened(c))
    BY <1>7 DEF WriteCheck, ioVars, sharedVars, clientVars
  <2>2. Live(c) => UNCHANGED todo
    BY <1>0, <2>1 DEF Talk
  <2> QED
    BY <2>1, <2>2, QuietClose
<1>8. CASE CloseChannel(c)
  <2>1. /\ UNCHANGED <<conn, err, queue, client, stream, resp, todo>> /\ todo[c] = <<>>
        /\ pc[c] = "close" /\ pc'[c] = "exit"
        /\ UNCHANGED closeReq \/ IsOpened(c)
    BY <1>8 DEF CloseChannel, At, Goto, clientVars
  <2>2. ~resp[c].keepAlive /\ client[c] # "ready"
    BY <1>0, <2>1 DEF Talk
  <2> QED
    BY <1>0, <2>1, <2>2 DEF Close, Base, Live, Done
<1>9. CASE HioWrite(c)
  <2> DEFINE f == Head(todo[c])
  <2>1. /\ UNCHANGED <<handling, writer, resp, pc, after, points, i, buffer, request, conn, status,
                       client>>
        /\ todo[c] # <<>> /\ todo'[c] = Tail(todo[c])
    BY <1>9, WriteEffect
  <2>0. pc[c] # "none" /\ (Done(c) => todo'[c] = <<>>)
    BY <2>1, CallGoesOn DEF Done
  <2>2. \/ UNCHANGED <<stream, closeReq, err, queue>> /\ ~Live(c)
        \/ stream'[c] = [stream[c] EXCEPT !.phase = "cut"] /\ Live(c) /\ err'[c] = "failed"
        \/ /\ stream'[c] = Receive(stream[c], f, c) /\ Live(c) /\ UNCHANGED err
           /\ UNCHANGED closeReq /\ queue'[c] = queue[c] + 1
    BY <1>9, WriteEffect DEF Sound
  <2>3. /\ stream[c].phase # "done" /\ client[c] \notin {"answered", "ready"}
        /\ stream[c] \in Stream(Conn) /\ queue[c] \in Nat
    BY <1>0, <2>0, <2>1, LocalTypes DEF Wire, Talk, EmptyStream
  <2>4. CASE UNCHANGED <<stream, closeReq, err, queue>> /\ ~Live(c)
    BY <2>0, <2>1, <2>4 DEF Close, Base, Live
  <2>5. CASE stream'[c] = [stream[c] EXCEPT !.phase = "cut"] /\ Live(c) /\ err'[c] = "failed"
    <3>1. stream'[c].phase = "cut"
      BY <2>3, <2>5 DEF Stream
    <3> QED
      BY <2>0, <2>1, <2>3, <2>5, <3>1 DEF Close, Base, Live
  <2>6. CASE /\ stream'[c] = Receive(stream[c], f, c) /\ Live(c) /\ UNCHANGED err
             /\ UNCHANGED closeReq /\ queue'[c] = queue[c] + 1
    <3>1. stream'[c].phase = "cut" <=> stream[c].phase = "cut"
      BY <2>3, <2>6 DEF Receive, Stream
    <3>2. stream[c].phase # "cut" /\ Done(c) => stream'[c].phase = "done"
      <4>1. stream[c].phase # "cut" /\ Done(c) =>
              /\ f = LastFrame \/ f = FullFrame(500)
              /\ stream[c].phase = IF f.kind \in {"head", "full"} THEN "none" ELSE "open"
        BY <1>0, <2>0, <2>1, <2>6 DEF Frames, Document, Wire, Done
      <4> QED
        BY <2>3, <2>6, <4>1 DEF Receive, Stream, LastFrame, FullFrame
    <3>3. queue'[c] > 0
      BY <2>3, <2>6
    <3> QED
      BY <2>0, <2>1, <2>3, <2>6, <3>1, <3>2, <3>3 DEF Close, Base, Live, Done
  <2> QED
    BY <2>2, <2>4, <2>5, <2>6
<1> QED
  BY <1>2, <1>3, <1>4, <1>5, <1>6, <1>7, <1>8, <1>9, <1>10 DEF WorkerStep

\* What is left of Close where a chunk may have vanished.
LEMMA BaseStep ==
  ASSUME IInv, SocketInv, NEW c \in Conn, AnswerOf(c), Base(c), Sound(c) => Whole(c),
         (\E f \in Fd : Accept(c, f)) \/ ClientStep(c) \/ LoopStep(c) \/ WorkerStep(c)
  PROVE  Base(c)'
<1> USE Domains DEF IInv
<1>1. CASE \E f \in Fd : Accept(c, f)
  BY <1>1, AcceptIsWhole DEF Whole, Close
<1>2. CASE ClientStep(c)
  <2>1. ASSUME NEW k, NEW code, NEW keepAlive, AnswerSync(c, k, code, keepAlive)
        PROVE  Base(c)'
    BY <2>1 DEF AnswerSync, Begins, Base, Live, Receive, EmptyStream, FullFrame
  <2>2. ASSUME NEW k, NEW keepAlive, AcceptSolve(c, k, keepAlive) PROVE Base(c)'
    BY <2>2 DEF AcceptSolve, Begins, Base, Live
  <2>3. CASE ClientLeaves(c)
    BY <2>3 DEF ClientLeaves, ioVars, Base, Live
  <2> QED
    BY <1>2, <2>1, <2>2, <2>3 DEF ClientStep, Ping, RejectSolve
<1>3. CASE LoopStep(c)
  <2>1. CASE CloseNow(c)
    BY <2>1 DEF CloseNow, Base, Live
  <2>2. CASE Live(c) /\ HioClose(c) /\ (closeReq[c] \/ client[c] = "gone")
    <3>1. CASE queue[c] > 0 /\ err[c] = "none" /\ conn[c] = "open"
      <4>1. /\ conn'[c] = "closing" /\ ~closeReq'[c] /\ UNCHANGED <<stream, client>>
        BY <2>2, <3>1 DEF HioClose, clientVars
      <4>2. Close(c)
        BY <3>1 DEF Sound, Whole
      <4>3. client[c] = "waiting" => stream[c].phase = "done"
        BY <2>2, <3>1, <4>2 DEF Close, Done
      <4> QED
        BY <2>2, <4>1, <4>3 DEF Base, Live
    <3> QED
      BY <2>1, <2>2, <3>1 DEF HioClose
  <2>3. CASE Drain(c)
    BY <2>3 DEF Drain, Base, Live
  <2> QED
    BY <1>3, <2>1, <2>2, <2>3
    DEF LoopStep, LoopClose, ReadEof, SocketFails, KeepaliveTimeout, CloseTimeout
<1>4. CASE WorkerStep(c)
  <2>1. CASE HioWrite(c)
    <3>1. /\ UNCHANGED <<conn, client>> /\ stream[c].phase # "done"
          /\ UNCHANGED closeReq \/ Live(c)
      BY <2>1, WriteEffect
    <3> QED
      BY <3>1 DEF Base, Live
  <2>2. CASE CloseChannel(c)
    <3>1. UNCHANGED <<conn, client, stream>> /\ (UNCHANGED closeReq \/ IsOpened(c))
      BY <2>2 DEF CloseChannel, clientVars
    <3> QED
      BY <3>1, OpenIsLive DEF Base, Live
  <2>3. CASE ~HioWrite(c) /\ ~CloseChannel(c)
    <3>1. UNCHANGED <<conn, client, stream, closeReq>>
      BY <1>4, <2>3
      DEF WorkerStep, StorePoint, SolveReturns, SolveThrows, StreamHead, StreamThrows, Flush,
          SerializePoint, CloseDocument, Catch, EndResponse,
          ThreadExit, WriteCheck, ioVars, clientVars
    <3> QED
      BY <3>1 DEF Base, Live
  <2> QED
    BY <2>1, <2>2, <2>3
<1> QED
  BY <1>1, <1>2, <1>3, <1>4

\* Nothing but an accept takes the error of a connection away.
LEMMA SoundBefore ==
  ASSUME IInv, SocketInv, NEW c \in Conn, AnswerOf(c), Sound(c)',
         ClientStep(c) \/ LoopStep(c) \/ WorkerStep(c)
  PROVE  Sound(c)
<1> USE Domains DEF IInv
<1>1. CASE ClientStep(c)
  BY <1>1
  DEF ClientStep, Ping, RejectSolve, AnswerSync, AcceptSolve, ClientLeaves, ioVars, Sound
<1>2. CASE LoopStep(c)
  <2>1. UNCHANGED err \/ err'[c] \in {"failed", "timeout"}
    BY <1>2
    DEF LoopStep, Drain, LoopClose, ReadEof, SocketFails, KeepaliveTimeout, CloseTimeout, HioClose
  <2> QED
    BY <2>1 DEF Sound
<1>3. CASE WorkerStep(c)
  <2>1. CASE HioWrite(c)
    <3>1. UNCHANGED err \/ err'[c] = "failed"
      BY <2>1, WriteEffect
    <3> QED
      BY <3>1 DEF Sound
  <2>2. CASE ~HioWrite(c)
    <3>1. UNCHANGED err
      BY <1>3, <2>2
      DEF WorkerStep, StorePoint, SolveReturns, SolveThrows, StreamHead, StreamThrows, Flush,
          SerializePoint, CloseDocument, Catch, EndResponse, CloseChannel,
          ThreadExit, WriteCheck, ioVars
    <3> QED
      BY <3>1 DEF Sound
  <2> QED
    BY <2>1, <2>2
<1> QED
  BY <1>1, <1>2, <1>3

LEMMA WholeStarts == Init => WholeInv
<1> SUFFICES ASSUME Init, NEW c \in Conn PROVE Base(c) /\ Whole(c)
  BY DEF WholeInv
<1>1. /\ pc[c] = "none" /\ todo[c] = <<>> /\ stream[c] = EmptyStream /\ client[c] = "gone"
      /\ ~Live(c) /\ ~closeReq[c]
  BY DEF Init, Live
<1> QED
  BY <1>1 DEF Whole, Document, RightReply, Close, Base, Initial, EmptyStream

\* All of it, of every connection, in every state.
LEMMA WholeStep ==
  ASSUME AnswersInv, WholeInv, [Next]_vars
  PROVE  WholeInv'
<1> SUFFICES ASSUME NEW d \in Conn PROVE Base(d)' /\ (Sound(d)' => Whole(d)')
  BY DEF WholeInv
<1>1. /\ IInv /\ SocketInv /\ AnswerOf(d) /\ Base(d)
      /\ Sound(d) => Whole(d)
  BY DEF WholeInv, AnswersInv, AnswerInv
<1>2. ASSUME UNCHANGED <<WorkerOf(d), LoopOf(d)>> PROVE Base(d)' /\ (Sound(d)' => Whole(d)')
  <2>1. Base(d)' /\ (Sound(d)' => Sound(d))
    BY <1>1, <1>2 DEF Base, Sound, LoopOf, WorkerOf, Live
  <2>2. ASSUME Whole(d) PROVE Document(d)' /\ RightReply(d)'
    BY <1>2, <2>2, QuietDocument DEF Whole, LoopOf, Live
  <2>3. ASSUME Whole(d) PROVE Close(d)'
    BY <1>2, <2>3, QuietClose DEF Whole, LoopOf, WorkerOf, Done
  <2> QED
    BY <1>1, <2>1, <2>2, <2>3 DEF Whole
<1>3. CASE UNCHANGED vars
  BY <1>2, <1>3 DEF WorkerOf, LoopOf, vars, ioVars, sharedVars, workerVars, clientVars
<1>4. ASSUME NEW c \in Conn,
             (\E f \in Fd : Accept(c, f)) \/ ClientStep(c) \/ LoopStep(c) \/ WorkerStep(c)
      PROVE  Base(d)' /\ (Sound(d)' => Whole(d)')
  <2>1. CASE d = c
    <3>1. Base(d)'
      BY <1>1, <1>4, <2>1, BaseStep
    <3>2. CASE \E f \in Fd : Accept(d, f)
      BY <1>1, <3>1, <3>2, AcceptIsWhole
    <3>3. ASSUME Sound(d)', ClientStep(d) \/ LoopStep(d) \/ WorkerStep(d) PROVE Whole(d)'
      <4>1. Document(d) /\ RightReply(d) /\ Close(d)
        BY <1>1, <3>3, SoundBefore DEF Whole
      <4>2. CASE ClientStep(d)
        BY <1>1, <4>1, <4>2, ClientKeepsDocument, ClientKeepsClose DEF Whole
      <4>3. CASE LoopStep(d)
        BY <1>1, <4>1, <4>3, LoopKeepsDocument, LoopKeepsClose DEF Whole
      <4>4. CASE WorkerStep(d)
        BY <1>1, <3>3, <4>1, <4>4, WorkerKeepsDocument, WorkerKeepsClose DEF Whole
      <4> QED
        BY <3>3, <4>2, <4>3, <4>4
    <3> QED
      BY <1>4, <2>1, <3>1, <3>2, <3>3
  <2>2. CASE d # c
    BY <1>1, <1>2, <1>4, <2>2, OthersStep DEF Others
  <2> QED
    BY <2>1, <2>2
<1> QED
  BY <1>3, <1>4 DEF Next

RouteInv == AnswersInv /\ WholeInv

LEMMA RouteStep ==
  ASSUME FdReuse = FALSE, RouteInv, [Next]_vars
  PROVE  RouteInv'
BY IInvStep, SocketStep, AnswerStep, WholeStep DEF RouteInv, AnswersInv

LEMMA RouteAlways == ASSUME FdReuse = FALSE PROVE Safety => []RouteInv
<1>1. Init => RouteInv
  BY InitInv, AnswerStarts, WholeStarts DEF RouteInv, AnswersInv
<1>2. RouteInv /\ [Next]_vars => RouteInv'
  BY RouteStep
<1> QED
  BY <1>1, <1>2, PTL DEF Safety

\* Where no chunk vanishes every connection is sound.
LEMMA AllWhole ==
  ASSUME ChunkVanishes = FALSE, RouteInv, NEW c \in Conn
  PROVE  Document(c) /\ RightReply(c) /\ Close(c)
BY DEF RouteInv, WholeInv, Sound, Whole

\* A complete answer of a sound connection is one its request may get.
LEMMA SoundIsRight ==
  ASSUME RouteInv, NEW c \in Conn, Sound(c), client[c] = "answered"
  PROVE  RightAnswer(c)
<1>1. RightReply(c) /\ stream[c].phase = "done" /\ request[c] \in RequestKind
  BY LocalTypes DEF RouteInv, WholeInv, Whole, AnswersInv, AnswerInv, AnswerOf, Talk
<1> HIDE DEF WholeDocument
<1>2. CASE request[c] = "ping"
  BY <1>1, <1>2 DEF RightReply, RightAnswer
<1>3. CASE request[c] = "malformed"
  BY <1>1, <1>3 DEF RightReply, RightAnswer
<1>4. CASE request[c] = "failing"
  BY <1>1, <1>4 DEF RightReply, RightAnswer
<1>5. CASE request[c] = "solvable"
  BY <1>1, <1>5 DEF RightReply, RightAnswer
<1>6. CASE request[c] = "divergent"
  BY <1>1, <1>6 DEF RightReply, RightAnswer
<1> QED
  BY <1>1, <1>2, <1>3, <1>4, <1>5, <1>6 DEF RequestKind

\* Also where a queue that is full may take nothing of a chunk, so that the client
\* cannot see what is missing: an answer that is complete but wrong came over a
\* connection on which a write has failed.
THEOREM UnfailedAnswers ==
  ASSUME FdReuse = FALSE
  PROVE  Safety => []UnfailedAnswersAreRight
<1>1. RouteInv => UnfailedAnswersAreRight
  BY SoundIsRight DEF UnfailedAnswersAreRight, Sound
<1> QED
  BY <1>1, RouteAlways, PTL

\* The client reads the pieces of the document in their order and without a gap,
\* however often the buffer is flushed and wherever the connection is lost.
THEOREM OrderedAnswers ==
  ASSUME FdReuse = FALSE, ChunkVanishes = FALSE
  PROVE  Safety => []PiecesInOrder
<1>1. RouteInv => PiecesInOrder
  BY AllWhole DEF Document, Initial, PiecesInOrder
<1> QED
  BY <1>1, RouteAlways, PTL

\* Every complete answer a client has is one its request may get; a 200 is the
\* whole document.
THEOREM CorrectAnswers ==
  ASSUME FdReuse = FALSE, ChunkVanishes = FALSE
  PROVE  Safety => []RightAnswers
<1>1. RouteInv => RightAnswers
  BY SoundIsRight DEF RightAnswers, Sound
<1> QED
  BY <1>1, RouteAlways, PTL

\* A complete answer reaches its client or is lost to a timer of the event loop:
\* no close that worker, client or socket ask for cuts it off.
THEOREM DeliveredAnswers ==
  ASSUME FdReuse = FALSE, ChunkVanishes = FALSE
  PROVE  Safety => []OnlyTimersCutAnswers
<1>1. RouteInv => OnlyTimersCutAnswers
  BY AllWhole DEF Close, OnlyTimersCutAnswers
<1> QED
  BY <1>1, RouteAlways, PTL

-----------------------------------------------------------------------------
(* The route takes the steps of the service.                               *)

Outcomes == [c \in Conn |-> OutcomeOf(c)]

\* What a complete answer counts as.
LEMMA ReplyIsAllowed ==
  ASSUME ChunkVanishes = FALSE, RouteInv, NEW c \in Conn, stream[c].phase = "done"
  PROVE  /\ ReplyOf(c) \in Service!Replies(request[c])
         /\ ReplyOf(c) \notin {"none", "pending", "dropped"}
<1>1. RightReply(c) /\ request[c] \in RequestKind
  BY LocalTypes, AllWhole DEF RouteInv, AnswersInv
<1>2. /\ stream[c].code = 400 => ReplyOf(c) = "rejected"
      /\ stream[c].code = 500 /\ NoDocument(c) => ReplyOf(c) = "failed"
      /\ stream[c].code = 200 /\ request[c] = "ping" => ReplyOf(c) = "pong"
      /\ stream[c].code = 200 /\ request[c] # "ping" 
         /\ (WholeDocument(c) \/ SpoiledDocument(c)) => ReplyOf(c) \in {"solution", "spoiled"}
  <2>1. CASE stream[c].code = 400
    BY <2>1 DEF ReplyOf
  <2>2. CASE stream[c].code = 500
    BY <2>2 DEF ReplyOf
  <2>3. CASE stream[c].code = 200
    BY <2>3 DEF ReplyOf
  <2> QED
    BY <2>1, <2>2, <2>3
<1>3. CASE request[c] = "ping"
  BY <1>1, <1>2, <1>3 DEF RightReply, Service!Replies
<1>4. CASE request[c] = "malformed"
  BY <1>1, <1>2, <1>4 DEF RightReply, Service!Replies
<1>5. CASE request[c] = "failing"
  BY <1>1, <1>2, <1>5 DEF RightReply, Service!Replies
<1>6. CASE request[c] = "solvable"
  BY <1>1, <1>2, <1>6 DEF RightReply, Service!Replies
<1>7. CASE request[c] = "divergent"
  BY <1>1, <1>2, <1>7 DEF RightReply, Service!Replies
<1> QED
  BY <1>1, <1>3, <1>4, <1>5, <1>6, <1>7 DEF RequestKind


\* What a step of c may do to the outcome of c.
Effect(c) ==
  \/ /\ UNCHANGED request
     /\ \/ OutcomeOf(c)' \in {"dropped", OutcomeOf(c)}
        \/ OutcomeOf(c) # "pending" /\ OutcomeOf(c)' = "none"
        \/ OutcomeOf(c) = "pending" /\ OutcomeOf(c)' \in Service!Replies(request[c])
  \/ /\ OutcomeOf(c) \notin {"pending", "dropped"} /\ OutcomeOf(c)' = "pending"
     /\ \E k \in Requests : request' = [request EXCEPT ![c] = k]

\* The outcome of a complete answer lies in what the client has read.
LEMMA SameOutcome ==
  ASSUME NEW c \in Conn, UNCHANGED request, client'[c] = client[c],
         client[c] = "answered" => UNCHANGED <<points[c], stream[c]>>
  PROVE  Effect(c)
<1>1. UNCHANGED OutcomeOf(c)
  <2>1. CASE client[c] = "answered"
    BY <2>1 DEF OutcomeOf, ReplyOf, NoDocument, WholeDocument, SpoiledDocument
  <2>2. CASE client[c] # "answered"
    <3>1. client'[c] # "answered"
      BY <2>2
    <3> QED
      BY <2>2, <3>1 DEF OutcomeOf
  <2> QED
    BY <2>1, <2>2
<1> QED
  BY <1>1 DEF Effect

LEMMA OutcomeStep ==
  ASSUME ChunkVanishes = FALSE, RouteInv, NEW c \in Conn,
         (\E f \in Fd : Accept(c, f)) \/ ClientStep(c) \/ LoopStep(c) \/ WorkerStep(c)
  PROVE  Effect(c)
<1> USE Domains DEF IInv
<1>0. /\ IInv /\ SocketInv /\ AnswerOf(c) /\ Close(c)
  BY AllWhole DEF RouteInv, AnswersInv, AnswerInv
<1>1. /\ client[c] = "waiting" <=> OutcomeOf(c) = "pending"
      /\ client[c] \in {"ready", "answered"} => OutcomeOf(c) \notin {"pending", "dropped"}
  <2>1. client[c] = "answered" => stream[c].phase = "done"
    BY <1>0 DEF AnswerOf, Talk
  <2> HIDE DEF IInv
  <2>2. CASE client[c] = "answered"
    BY <2>1, <2>2, ReplyIsAllowed DEF OutcomeOf
  <2>3. CASE client[c] # "answered"
    BY <2>3 DEF OutcomeOf
  <2> QED
    BY <2>2, <2>3
<1>2. ASSUME NEW f \in Fd, Accept(c, f) PROVE Effect(c)
  <2>1. UNCHANGED request /\ client'[c] = "ready" /\ client[c] # "waiting"
    BY <1>0, <1>2 DEF Accept, Close, Base, Live
  <2>2. OutcomeOf(c)' = "none"
    BY <2>1 DEF OutcomeOf
  <2> QED
    BY <1>1, <2>1, <2>2 DEF Effect
<1>3. ASSUME NEW k \in Requests, Begins(c, k) PROVE Effect(c)
  <2>1. /\ client'[c] = "waiting" /\ client[c] \in {"ready", "answered"}
        /\ request' = [request EXCEPT ![c] = k]
    BY <1>0, <1>3 DEF Begins
  <2>2. OutcomeOf(c)' = "pending"
    BY <2>1 DEF OutcomeOf
  <2> QED
    BY <1>1, <2>1, <2>2 DEF Effect
<1>4. ASSUME UNCHANGED <<request, points, stream>>, client'[c] \in {"lost", "gone", client[c]}
      PROVE  Effect(c)
  <2>1. CASE client'[c] = client[c]
    BY <1>4, <2>1, SameOutcome
  <2>2. CASE client'[c] \in {"lost", "gone"}
    <3>1. OutcomeOf(c)' = "dropped"
      BY <2>2 DEF OutcomeOf
    <3> QED
      BY <1>4, <3>1 DEF Effect
  <2> QED
    BY <1>4, <2>1, <2>2
<1>5. CASE ClientStep(c)
  <2>1. CASE ClientLeaves(c)
    <3>1. UNCHANGED <<request, points, stream>> /\ client'[c] = "gone"
      BY <1>0, <2>1 DEF ClientLeaves, workerVars
    <3> QED
      BY <1>4, <3>1
  <2> QED
    BY <1>3, <1>5, <2>1 DEF ClientStep, Ping, RejectSolve, AnswerSync, AcceptSolve
<1>6. CASE LoopStep(c)
  <2>1. CASE Drain(c)
    <3>1. /\ UNCHANGED <<request, points, stream>>
          /\ client'[c] = (IF client[c] = "waiting" /\ queue[c] = 1 /\ stream[c].phase = "done"
                          THEN "answered" ELSE client[c])
      BY <1>0, <2>1 DEF Drain, workerVars
    <3>2. CASE client[c] = "waiting" /\ queue[c] = 1 /\ stream[c].phase = "done"
      <4>1. OutcomeOf(c)' = ReplyOf(c)
        BY <3>1, <3>2 DEF OutcomeOf, ReplyOf, NoDocument, WholeDocument, SpoiledDocument
      <4> QED
        BY <1>1, <3>1, <3>2, <4>1, ReplyIsAllowed DEF Effect
    <3> QED
      BY <1>4, <3>1, <3>2
  <2>2. ASSUME CloseNow(c) PROVE Effect(c)
    <3>1. UNCHANGED <<request, points, stream>> /\ client'[c] \in {"lost", client[c]}
      BY <1>0, <2>2 DEF CloseNow, workerVars
    <3> QED
      BY <1>4, <3>1
  <2>3. CASE HioClose(c)
    <3>1. CloseNow(c) \/ UNCHANGED <<request, points, stream, client>>
      BY <2>3 DEF HioClose, workerVars, clientVars
    <3> QED
      BY <1>4, <2>2, <3>1
  <2> QED
    BY <1>6, <2>1, <2>2, <2>3
    DEF LoopStep, LoopClose, ReadEof, SocketFails, KeepaliveTimeout, CloseTimeout
<1>7. CASE WorkerStep(c)
  <2>1. UNCHANGED <<request, client>>
    BY <1>7
    DEF WorkerStep, StorePoint, SolveReturns, SolveThrows, StreamHead, StreamThrows, Flush,
        SerializePoint, CloseDocument, Catch, EndResponse, CloseChannel,
        ThreadExit, WriteCheck, HioWrite, clientVars
  <2>2. client[c] = "answered" => Done(c) /\ todo[c] = <<>> /\ ~armed[c]
    BY <1>0, LocalTypes DEF AnswerOf, Wire, Talk
  <2>3. client[c] = "answered" => UNCHANGED <<points, stream>>
    BY <1>7, <2>2
    DEF WorkerStep, StorePoint, SolveReturns, SolveThrows, StreamHead, StreamThrows, Flush,
        SerializePoint, CloseDocument, Catch, EndResponse, CloseChannel,
        ThreadExit, WriteCheck, HioWrite, clientVars,
        At, Done
  <2> QED
    BY <2>1, <2>3, SameOutcome
<1> QED
  BY <1>2, <1>5, <1>6, <1>7

\* The steps of the other connections are none of the service.
LEMMA ServiceStep ==
  ASSUME ChunkVanishes = FALSE, RouteInv, [Next]_vars
  PROVE  [Service!Next]_(Service!vars)
<1>1. CASE UNCHANGED vars
  <2>1. UNCHANGED <<request, Outcomes>>
    BY <1>1 DEF Outcomes, OutcomeOf, ReplyOf, NoDocument, WholeDocument, SpoiledDocument,
            vars, workerVars, clientVars
  <2> QED
    BY <2>1 DEF Service!vars, Outcomes
<1>2. ASSUME NEW c \in Conn,
             (\E f \in Fd : Accept(c, f)) \/ ClientStep(c) \/ LoopStep(c) \/ WorkerStep(c)
      PROVE  Service!Next \/ UNCHANGED <<request, Outcomes>>
  <2>1. Others(c)
    BY <1>2, OthersStep DEF RouteInv, AnswersInv
  <2>2. ASSUME NEW d \in Conn, d # c PROVE UNCHANGED OutcomeOf(d)
    <3>1. UNCHANGED <<client[d], stream[d], points[d], request[d]>>
      BY <2>1, <2>2 DEF Others, WorkerOf, LoopOf
    <3> QED
      BY <3>1 DEF OutcomeOf, ReplyOf, NoDocument, WholeDocument, SpoiledDocument
  <2>3. Outcomes' = [Outcomes EXCEPT ![c] = OutcomeOf(c)'] /\ Outcomes[c] = OutcomeOf(c)
    BY <2>2 DEF Outcomes
  <2>4. Effect(c)
    BY <1>2, OutcomeStep
  <2>5. CASE UNCHANGED request /\ OutcomeOf(c)' = "dropped"
    BY <2>3, <2>5 DEF Service!Next, Service!Drop, Outcomes
  <2>6. CASE UNCHANGED request /\ OutcomeOf(c)' = OutcomeOf(c)
    <3>1. Outcomes' = Outcomes
      BY <2>2, <2>6 DEF Outcomes
    <3> QED
      BY <2>6, <3>1
  <2>7. CASE UNCHANGED request /\ OutcomeOf(c) # "pending" /\ OutcomeOf(c)' = "none"
    BY <2>3, <2>7 DEF Service!Next, Service!Open, Outcomes
  <2>8. CASE /\ UNCHANGED request
             /\ OutcomeOf(c) = "pending" /\ OutcomeOf(c)' \in Service!Replies(request[c])
    BY <2>3, <2>8 DEF Service!Next, Service!Reply, Outcomes
  <2>9. CASE /\ OutcomeOf(c) \notin {"pending", "dropped"} /\ OutcomeOf(c)' = "pending"
             /\ \E k \in Requests : request' = [request EXCEPT ![c] = k]
    BY <2>3, <2>9 DEF Service!Next, Service!Call, Outcomes
  <2> QED
    BY <2>4, <2>5, <2>6, <2>7, <2>8, <2>9 DEF Effect
<1> QED
  BY <1>1, <1>2 DEF Next, Service!vars, Outcomes

LEMMA ServiceStarts == Init => Service!Init
<1> SUFFICES ASSUME Init PROVE Service!Init
  OBVIOUS
<1>1. \A c \in Conn : OutcomeOf(c) = "dropped"
  BY DEF Init, OutcomeOf
<1>2. request \in [Conn -> Requests \cup {"ping"}]
  BY DEF Init
<1> QED
  BY <1>1, <1>2 DEF Service!Init

\* From its first state every step of the route is one that the service allows, or
\* one its clients do not see: the safety half of ImplementsService.
THEOREM StepsOfService ==
  ASSUME FdReuse = FALSE, ChunkVanishes = FALSE
  PROVE  Safety => Service!Init /\ [][Service!Next]_(Service!vars)
BY RouteAlways, ServiceStarts, ServiceStep, PTL DEF Safety
=============================================================================
