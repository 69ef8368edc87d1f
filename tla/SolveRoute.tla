----------------------------- MODULE SolveRoute -----------------------------
(***************************************************************************)
(* The server's POST /solve route (Server/src/Routers.cpp) together with   *)
(* the parts of libhv it drives: the connection's HttpHandler on the IO    *)
(* thread, the HttpResponseWriter it shares with the detached worker       *)
(* thread, and the hio_t socket with its write queue and deferred close.   *)
(*                                                                         *)
(* Threads.  The event loop is one thread: each of its actions (OnRecv,    *)
(* Drain, LoopClose, ...) is one callback.  Every request the route        *)
(* accepts runs on a thread of its own, whose program counter is pc[c];    *)
(* a worker's step is one call on shared state.  Channel::write is two     *)
(* steps, isOpened() and then hio_write(), as in the code.                 *)
(*                                                                         *)
(* The result document is the pieces 0..n+1: piece 0 is the opening text,  *)
(* pieces 1..n are the n stored points, piece n+1 is the closing text.     *)
(*                                                                         *)
(* Bounds: MaxPoints points per solution, MaxQueue frames in a write       *)
(* queue (16 MB in libhv), MaxThreads live workers.                        *)
(***************************************************************************)
EXTENDS HttpResponseWriter, FiniteSets

CONSTANTS
  Conn,        \* connections (a closed one is used again for a later accept)
  Fd,          \* socket descriptors, each with its hio_t
  NoConn,      \* the hio_t of a descriptor that is not open
  Requests,    \* the kinds of request clients send
  MaxPoints,   \* the most points a solver stores
  MaxQueue,    \* the most frames a write queue holds
  MaxThreads,  \* the most threads the operating system gives the process
  FdReuse,     \* may a descriptor be reused between isOpened() and hio_write()?
  ChunkVanishes \* may a full queue take none of the three writes of a chunk?

RequestKind == {"ping", "malformed", "failing", "solvable", "divergent"}

ASSUME ConnAssumption == NoConn \notin Conn /\ Fd # {}
ASSUME RequestAssumption == Requests \subseteq RequestKind
ASSUME BoundsAssumption == /\ MaxPoints \in Nat \ {0}
                           /\ MaxQueue \in Nat \ {0}
                           /\ MaxThreads \in Nat
                           /\ FdReuse \in BOOLEAN
                           /\ ChunkVanishes \in BOOLEAN

VARIABLES
  \* the event loop: the socket and its handler
  conn,      \* "open", "closing" (io->close: close once the queue is empty), "closed"
  fd,        \* the descriptor a connection has (or had last)
  hio,       \* the connection whose id a descriptor's hio_t carries
  queue,     \* number of frames in the write queue
  closeReq,  \* hio_close_async has posted a close event
  err,       \* io->error: "none", "failed" (write error, full queue), "timeout"
  handling,  \* HttpHandler::state is HANDLE_CONTINUE (a worker owns the answer)
  \* shared by the event loop and the worker
  status,    \* Channel::status
  writer, resp,
  \* the worker thread
  pc, after, todo, armed, points, i, buffer,
  \* the client
  client,    \* "ready", "waiting", "answered", "lost", "gone"
  request,   \* its latest request
  stream     \* what has been put on the wire in answer to it

ioVars     == <<conn, fd, hio, queue, closeReq, err, handling>>
sharedVars == <<status, writer, resp>>
workerVars == <<pc, after, todo, armed, points, i, buffer>>
clientVars == <<client, request, stream>>
vars == <<ioVars, sharedVars, workerVars, clientVars>>
-----------------------------------------------------------------------------
(* A definition whose comment starts with "Slip:" is not the code but a     *)
(* plausible mistake in it; it takes the place of the definition after it   *)
(* to see that a property fails (see the README).                           *)

\* Slip: the id of the hio_t is not compared.
IsOpenedWithoutId(c) == hio[fd[c]] # NoConn

\* Channel::isOpened and SocketChannel::isConnected: the status has not
\* fallen, and the hio_t still carries this connection's id.
IsOpened(c) == status[c] = "CONNECTED" /\ hio[fd[c]] = c

Live(c) == conn[c] \in {"open", "closing"}

Workers == {c \in Conn : pc[c] # "none"}

\* The socket goes: __close_cb, on_close, ~HttpHandler.  Whatever is queued is
\* dropped, and a client still waiting sees its connection end.
CloseNow(c) ==
  /\ conn' = [conn EXCEPT ![c] = "closed"]
  /\ hio' = [hio EXCEPT ![fd[c]] = NoConn]
  /\ queue' = [queue EXCEPT ![c] = 0]
  /\ closeReq' = [closeReq EXCEPT ![c] = FALSE]
  /\ status' = [status EXCEPT ![c] = "DISCONNECTED"]
  /\ client' = [client EXCEPT ![c] = IF @ = "waiting" THEN "lost" ELSE @]
  /\ UNCHANGED <<fd, handling, writer, resp, workerVars, request, stream>>

\* Slip: the write queue is not waited for.
HioCloseAtOnce(c) == CloseNow(c) /\ UNCHANGED err

\* hio_close: deferred, once, while frames are queued and nothing has failed.
HioClose(c) ==
  IF queue[c] > 0 /\ err[c] = "none" /\ conn[c] = "open"
  THEN /\ conn' = [conn EXCEPT ![c] = "closing"]
       /\ closeReq' = [closeReq EXCEPT ![c] = FALSE]
       /\ UNCHANGED <<fd, hio, queue, err, handling, sharedVars, workerVars, clientVars>>
  ELSE CloseNow(c) /\ UNCHANGED err
-----------------------------------------------------------------------------
(* The event loop.                                                         *)

\* on_accept: a new hio_t id, HttpHandler and writer.  The worker of the
\* connection's former life must be gone only because the name is reused here.
Accept(c, f) ==
  /\ conn[c] = "closed" /\ pc[c] = "none"
  /\ hio[f] = NoConn
  /\ FdReuse \/ \A d \in Conn : ~(armed[d] /\ fd[d] = f)
  /\ conn' = [conn EXCEPT ![c] = "open"]
  /\ fd' = [fd EXCEPT ![c] = f]
  /\ hio' = [hio EXCEPT ![f] = c]
  /\ handling' = [handling EXCEPT ![c] = FALSE]
  /\ status' = [status EXCEPT ![c] = "CONNECTED"]
  /\ writer' = [writer EXCEPT ![c] = Begin]
  /\ resp' = [resp EXCEPT ![c] = FreshResponse(TRUE)]
  /\ client' = [client EXCEPT ![c] = "ready"]
  /\ err' = [err EXCEPT ![c] = "none"]
  /\ stream' = [stream EXCEPT ![c] = EmptyStream]
  /\ UNCHANGED <<queue, closeReq, workerVars, request>>

\* HttpHandler::Reset, run by FeedRecvData when the previous request was
\* answered by a worker (a synchronous answer has already done it).
ResetWriterForgotten(c) == writer[c]    \* Slip: Reset without writer->Begin()
ResetWriter(c) == IF handling[c] THEN Begin ELSE writer[c]
ResetResponseForgotten(c, keepAlive) ==    \* Slip: Reset without resp->Reset()
  [resp[c] EXCEPT !.keepAlive = keepAlive]
ResetResponse(c, keepAlive) ==
  IF handling[c] THEN FreshResponse(keepAlive)
  ELSE [resp[c] EXCEPT !.keepAlive = keepAlive]

\* The client sends request k, and the IO thread handles it to the end of
\* onMessageComplete.
Begins(c, k) ==
  /\ conn[c] = "open" /\ client[c] \in {"ready", "answered"}
  /\ client[c] = "answered" => resp[c].keepAlive
  /\ client' = [client EXCEPT ![c] = "waiting"]
  /\ request' = [request EXCEPT ![c] = k]

\* SendHttpResponse: the answer the IO thread has itself goes to the queue
\* as one frame; then keep-alive resets, otherwise on_recv closes.
AnswerSync(c, k, code, keepAlive) ==
  /\ Begins(c, k)
  /\ stream' = [stream EXCEPT ![c] = Receive(EmptyStream, FullFrame(code), c)]
  /\ queue' = [queue EXCEPT ![c] = @ + 1]
  /\ conn' = [conn EXCEPT ![c] = IF keepAlive THEN "open" ELSE "closing"]
  /\ handling' = [handling EXCEPT ![c] = FALSE]
  /\ writer' = [writer EXCEPT ![c] = Begin]
  /\ resp' = [resp EXCEPT ![c] = FreshResponse(keepAlive)]
  /\ UNCHANGED <<fd, hio, closeReq, err, status, workerVars>>

\* GET /
Ping(c, keepAlive) == AnswerSync(c, "ping", 200, keepAlive)

\* POST /solve, the catch of the IO thread: the body does not parse, or has
\* no Equation or Method string, or std::thread cannot be started.
RejectSolve(c, k, keepAlive) ==
  /\ k # "ping"
  /\ k = "malformed" \/ Cardinality(Workers) >= MaxThreads
  /\ AnswerSync(c, k, 400, keepAlive)

\* POST /solve: the detached thread is started and the handler returns
\* HTTP_STATUS_UNFINISHED.
AcceptSolve(c, k, keepAlive) ==
  /\ k \notin {"ping", "malformed"}
  /\ Cardinality(Workers) < MaxThreads
  /\ pc[c] = "none"
  /\ Begins(c, k)
  /\ stream' = [stream EXCEPT ![c] = EmptyStream]
  /\ handling' = [handling EXCEPT ![c] = TRUE]
  /\ writer' = [writer EXCEPT ![c] = ResetWriter(c)]
  /\ resp' = [resp EXCEPT ![c] = ResetResponse(c, keepAlive)]
  /\ pc' = [pc EXCEPT ![c] = "solve"]
  /\ points' = [points EXCEPT ![c] = 0]
  /\ UNCHANGED <<conn, fd, hio, queue, closeReq, err, status,
                 after, todo, armed, i, buffer>>

\* nio_write: the socket takes the frame at the front.  With the last frame of
\* a complete response the client has its answer; an empty queue completes a
\* deferred close.
Drain(c) ==
  /\ Live(c) /\ queue[c] > 0
  /\ queue' = [queue EXCEPT ![c] = @ - 1]
  /\ client' = [client EXCEPT ![c] =
       IF @ = "waiting" /\ queue[c] = 1 /\ stream[c].phase = "done"
       THEN "answered" ELSE @]
  /\ IF conn[c] = "closing" /\ queue[c] = 1
     THEN /\ conn' = [conn EXCEPT ![c] = "closed"]
          /\ hio' = [hio EXCEPT ![fd[c]] = NoConn]
          /\ closeReq' = [closeReq EXCEPT ![c] = FALSE]
          /\ status' = [status EXCEPT ![c] = "DISCONNECTED"]
     ELSE UNCHANGED <<conn, hio, closeReq, status>>
  /\ UNCHANGED <<fd, err, handling, writer, resp, workerVars, request, stream>>

\* hio_close_event_cb
LoopClose(c) == Live(c) /\ closeReq[c] /\ HioClose(c)

\* nio_read returns 0: the client has closed its end.
ReadEof(c) == Live(c) /\ client[c] = "gone" /\ HioClose(c)

\* nio_read or nio_write fails on the socket of a client that has left.
SocketFails(c) ==
  Live(c) /\ client[c] = "gone" /\ err' = [err EXCEPT ![c] = "failed"] /\ CloseNow(c)

\* __keepalive_timeout_cb, 75 s without a byte either way: io->error is set
\* first, so the close is immediate.
KeepaliveTimeout(c) ==
  Live(c) /\ err' = [err EXCEPT ![c] = "timeout"] /\ CloseNow(c)

\* __close_timeout_cb, 60 s after a deferred close.
CloseTimeout(c) ==
  conn[c] = "closing" /\ err' = [err EXCEPT ![c] = "timeout"] /\ CloseNow(c)
-----------------------------------------------------------------------------
(* The worker thread.                                                      *)

\* A step that continues at label l.
Goto(c, l) == pc' = [pc EXCEPT ![c] = l]

\* The program counter is at l and no call on the writer is unfinished.
At(c, l) == pc[c] = l /\ todo[c] = <<>>

\* The solver stores a point.
StorePoint(c) ==
  /\ At(c, "solve") /\ request[c] \in {"solvable", "divergent"}
  /\ points[c] < MaxPoints
  /\ points' = [points EXCEPT ![c] = @ + 1]
  /\ UNCHANGED <<ioVars, sharedVars, clientVars, pc, after, todo, armed, i, buffer>>

\* Solve returns; it stored at least the initial point.
SolveReturns(c) ==
  /\ At(c, "solve") /\ request[c] = "solvable" /\ points[c] > 0
  /\ Goto(c, "head")
  /\ UNCHANGED <<ioVars, sharedVars, clientVars, after, todo, armed, points, i, buffer>>

\* Reading the parameters, the lookup of task and method, or the solver throws.
SolveThrows(c) ==
  /\ At(c, "solve") /\ request[c] = "failing"
  /\ Goto(c, "catch")
  /\ UNCHANGED <<ioVars, sharedVars, clientVars, after, todo, armed, points, i, buffer>>

\* What the catch of the worker writes: a piece that no document has.
ErrorText == MaxPoints + 2

\* Begin, WriteHeader, EndHeaders, and the opening text into the buffer.
StreamHead(c) ==
  /\ At(c, "head")
  /\ LET r == [resp[c] EXCEPT !.chunked = TRUE]
     IN  /\ resp' = [resp EXCEPT ![c] = r]
         /\ writer' = [writer EXCEPT ![c] = EndHeaders(Begin)]
         /\ todo' = [todo EXCEPT ![c] = EndHeadersOut(Begin, r)]
  /\ buffer' = [buffer EXCEPT ![c] = {0}]
  /\ i' = [i EXCEPT ![c] = 1]
  /\ after' = [after EXCEPT ![c] = "loop"]
  /\ Goto(c, "flush")
  /\ UNCHANGED <<ioVars, clientVars, status, armed, points>>

\* Slip: flush_buffer waits for a connection instead of giving up.
FlushWaiting(c) ==
  /\ At(c, "flush") /\ IsOpened(c)
  /\ writer' = [writer EXCEPT ![c] = WriteBody(@, resp[c], buffer[c])]
  /\ todo' = [todo EXCEPT ![c] = WriteBodyOut(writer[c], resp[c], buffer[c])]
  /\ buffer' = [buffer EXCEPT ![c] = {}]
  /\ Goto(c, after[c])
  /\ UNCHANGED <<ioVars, clientVars, status, resp, after, armed, points, i>>

\* flush_buffer: a disconnected writer keeps the buffer.
Flush(c) ==
  /\ At(c, "flush")
  /\ IF buffer[c] # {} /\ IsOpened(c)
     THEN /\ writer' = [writer EXCEPT ![c] = WriteBody(@, resp[c], buffer[c])]
          /\ todo' = [todo EXCEPT ![c] = WriteBodyOut(writer[c], resp[c], buffer[c])]
          /\ buffer' = [buffer EXCEPT ![c] = {}]
     ELSE UNCHANGED <<writer, todo, buffer>>
  /\ Goto(c, after[c])
  /\ UNCHANGED <<ioVars, clientVars, status, resp, after, armed, points, i>>

\* Slip: the loop runs to i <= storage.Size().
SerializePointPastEnd(c) ==
  /\ At(c, "loop") /\ i[c] <= points[c] + 1 /\ IsOpened(c)
  /\ buffer' = [buffer EXCEPT ![c] = @ \cup {i[c]}]
  /\ i' = [i EXCEPT ![c] = @ + 1]
  /\ Goto(c, "loop") \/ Goto(c, "flush")
  /\ UNCHANGED <<ioVars, sharedVars, clientVars, after, todo, armed, points>>

\* One turn of the loop over the points; the buffer may have reached its size.
SerializePoint(c) ==
  /\ At(c, "loop") /\ i[c] <= points[c] /\ IsOpened(c)
  /\ buffer' = [buffer EXCEPT ![c] = @ \cup {i[c]}]
  /\ i' = [i EXCEPT ![c] = @ + 1]
  /\ Goto(c, "loop") \/ Goto(c, "flush")
  /\ UNCHANGED <<ioVars, sharedVars, clientVars, after, todo, armed, points>>

\* Slip: the flush of the closing text returns into the loop.
CloseDocumentInLoop(c) ==
  /\ At(c, "loop") /\ (i[c] > points[c] \/ ~IsOpened(c))
  /\ buffer' = [buffer EXCEPT ![c] = @ \cup {points[c] + 1}]
  /\ Goto(c, "flush")
  /\ UNCHANGED <<ioVars, sharedVars, clientVars, after, todo, armed, points, i>>

\* The loop is done, or left because the writer is disconnected; either way
\* the closing text is appended and flushed.
CloseDocument(c) ==
  /\ At(c, "loop") /\ (i[c] > points[c] \/ ~IsOpened(c))
  /\ buffer' = [buffer EXCEPT ![c] = @ \cup {points[c] + 1}]
  /\ after' = [after EXCEPT ![c] = "end"]
  /\ Goto(c, "flush")
  /\ UNCHANGED <<ioVars, sharedVars, clientVars, todo, armed, points, i>>

\* An allocation fails while the worker answers: in Begin to EndHeaders, before or
\* after the response has become a chunked one but before its headers are written;
\* when the buffer gets its room and the opening text; or when a point or the
\* closing text is appended.  The writes themselves do not throw.
StreamThrows(c) ==
  /\ \/ /\ At(c, "head")
        /\ writer' = [writer EXCEPT ![c] = Begin]
        /\ UNCHANGED resp \/ resp' = [resp EXCEPT ![c].chunked = TRUE]
     \/ /\ At(c, "loop") \/ (At(c, "flush") /\ after[c] = "loop" /\ i[c] = 1)
        /\ UNCHANGED <<writer, resp>>
  /\ Goto(c, "catch")
  /\ UNCHANGED <<ioVars, clientVars, status, after, todo, armed, points, i, buffer>>

\* The catch of the worker: status 500 and a text body, for a connected writer.
\* Where the headers have gone the status is too late and the text one more chunk.
Catch(c) ==
  /\ At(c, "catch")
  /\ IF IsOpened(c)
     THEN LET r == [resp[c] EXCEPT !.code = 500]
          IN  /\ resp' = [resp EXCEPT ![c] = r]
              /\ writer' = [writer EXCEPT ![c] = WriteBody(@, r, {ErrorText})]
              /\ todo' = [todo EXCEPT ![c] = WriteBodyOut(writer[c], r, {ErrorText})]
              /\ Goto(c, "end")
     ELSE Goto(c, "exit") /\ UNCHANGED <<resp, writer, todo>>
  /\ UNCHANGED <<ioVars, clientVars, status, after, armed, points, i, buffer>>

\* End, up to its last write; a second End, or one on a lost connection, only
\* marks the writer.
EndResponse(c) ==
  /\ At(c, "end")
  /\ IF IsOpened(c)
     THEN /\ writer' = [writer EXCEPT ![c] = End(@)]
          /\ todo' = [todo EXCEPT ![c] = EndOut(writer[c], resp[c])]
          /\ Goto(c, IF writer[c].end = "SEND_END" \/ resp[c].keepAlive
                     THEN "exit" ELSE "close")
     ELSE /\ writer' = [writer EXCEPT ![c].end = "SEND_END"]
          /\ UNCHANGED todo
          /\ Goto(c, "exit")
  /\ UNCHANGED <<ioVars, clientVars, status, resp, after, armed, points, i, buffer>>

\* The end of End without keep-alive: Channel::close(true).
CloseChannel(c) ==
  /\ At(c, "close")
  /\ IF IsOpened(c)
     THEN /\ status' = [status EXCEPT ![c] = "CLOSED"]
          /\ closeReq' = [closeReq EXCEPT ![c] = TRUE]
     ELSE UNCHANGED <<status, closeReq>>
  /\ Goto(c, "exit")
  /\ UNCHANGED <<conn, fd, hio, queue, err, handling, writer, resp, clientVars,
                 after, todo, armed, points, i, buffer>>

\* The thread function returns.
ThreadExit(c) ==
  /\ At(c, "exit")
  /\ Goto(c, "none")
  /\ after' = [after EXCEPT ![c] = "end"]
  /\ i' = [i EXCEPT ![c] = 1]
  /\ buffer' = [buffer EXCEPT ![c] = {}]
  /\ UNCHANGED <<ioVars, sharedVars, clientVars, todo, armed, points>>

\* Channel::write, first half: a writer that is not open returns -1.
WriteCheck(c) ==
  /\ todo[c] # <<>> /\ ~armed[c]
  /\ IF IsOpened(c)
     THEN armed' = [armed EXCEPT ![c] = TRUE] /\ UNCHANGED todo
     ELSE todo' = [todo EXCEPT ![c] = Tail(@)] /\ UNCHANGED armed
  /\ UNCHANGED <<ioVars, sharedVars, clientVars, pc, after, points, i, buffer>>

\* Slip: a frame that does not fit is dropped and nothing else happens.
HioWriteDrops(c) ==
  /\ armed[c]
  /\ armed' = [armed EXCEPT ![c] = FALSE]
  /\ todo' = [todo EXCEPT ![c] = Tail(@)]
  /\ LET t == hio[fd[c]]
     IN  IF t # NoConn /\ queue[t] < MaxQueue
         THEN /\ queue' = [queue EXCEPT ![t] = @ + 1]
              /\ stream' = [stream EXCEPT ![t] = Receive(@, Head(todo[c]), c)]
         ELSE UNCHANGED <<queue, stream>>
  /\ UNCHANGED <<conn, fd, hio, closeReq, err, handling, sharedVars, pc, after,
                 points, i, buffer, client, request>>

\* Channel::write, second half, hio_write: the frame goes to whatever
\* connection the hio_t now carries, to nobody when it is closed, and when the
\* queue is full or the socket fails it is lost and a close is posted.  A chunk
\* is three hio_write calls (size, data, line end): losing one of them cuts the
\* stream; a queue with no room for any of them loses the chunk as a whole, and
\* the stream can go on without it.
HioWrite(c) ==
  /\ armed[c]
  /\ armed' = [armed EXCEPT ![c] = FALSE]
  /\ todo' = [todo EXCEPT ![c] = Tail(@)]
  /\ LET t == hio[fd[c]]
     IN  \/ /\ t = NoConn
            /\ UNCHANGED <<queue, closeReq, err, stream>>
         \/ /\ t # NoConn /\ queue[t] < MaxQueue
            /\ queue' = [queue EXCEPT ![t] = @ + 1]
            /\ stream' = [stream EXCEPT ![t] = Receive(@, Head(todo[c]), c)]
            /\ UNCHANGED <<closeReq, err>>
         \/ /\ t # NoConn /\ (queue[t] >= MaxQueue \/ client[t] = "gone")
            /\ closeReq' = [closeReq EXCEPT ![t] = TRUE]
            /\ err' = [err EXCEPT ![t] = "failed"]
            /\ \/ stream' = [stream EXCEPT ![t].phase = "cut"]
               \/ /\ ChunkVanishes /\ Head(todo[c]).kind = "chunk"
                  /\ UNCHANGED stream
            /\ UNCHANGED queue
  /\ UNCHANGED <<conn, fd, hio, handling, sharedVars, pc, after, points, i, buffer,
                 client, request>>
-----------------------------------------------------------------------------
\* The client gives up (HttpClient's timeout) or is done with the connection.
ClientLeaves(c) ==
  /\ Live(c) /\ client[c] \in {"ready", "waiting", "answered"}
  /\ client' = [client EXCEPT ![c] = "gone"]
  /\ UNCHANGED <<ioVars, sharedVars, workerVars, request, stream>>
-----------------------------------------------------------------------------
Init ==
  /\ conn = [c \in Conn |-> "closed"]
  /\ fd = [c \in Conn |-> CHOOSE f \in Fd : TRUE]
  /\ hio = [f \in Fd |-> NoConn]
  /\ queue = [c \in Conn |-> 0]
  /\ closeReq = [c \in Conn |-> FALSE]
  /\ err = [c \in Conn |-> "none"]
  /\ handling = [c \in Conn |-> FALSE]
  /\ status = [c \in Conn |-> "DISCONNECTED"]
  /\ writer = [c \in Conn |-> Begin]
  /\ resp = [c \in Conn |-> FreshResponse(TRUE)]
  /\ pc = [c \in Conn |-> "none"]
  /\ after = [c \in Conn |-> "end"]
  /\ todo = [c \in Conn |-> <<>>]
  /\ armed = [c \in Conn |-> FALSE]
  /\ points = [c \in Conn |-> 0]
  /\ i = [c \in Conn |-> 1]
  /\ buffer = [c \in Conn |-> {}]
  /\ client = [c \in Conn |-> "gone"]
  /\ request = [c \in Conn |-> "ping"]
  /\ stream = [c \in Conn |-> EmptyStream]

LoopStep(c) == \/ Drain(c) \/ LoopClose(c) \/ ReadEof(c) \/ SocketFails(c)
               \/ KeepaliveTimeout(c) \/ CloseTimeout(c)

WorkerStep(c) == \/ StorePoint(c) \/ SolveReturns(c) \/ SolveThrows(c)
                 \/ StreamHead(c) \/ StreamThrows(c) \/ Flush(c) \/ SerializePoint(c)
                 \/ CloseDocument(c) \/ Catch(c) \/ EndResponse(c)
                 \/ CloseChannel(c) \/ ThreadExit(c)
                 \/ WriteCheck(c) \/ HioWrite(c)

ClientStep(c) ==
  \/ ClientLeaves(c)
  \/ \E keepAlive \in BOOLEAN :
       \/ "ping" \in Requests /\ Ping(c, keepAlive)
       \/ \E k \in Requests : RejectSolve(c, k, keepAlive) \/ AcceptSolve(c, k, keepAlive)

Next == \E c \in Conn : \/ \E f \in Fd : Accept(c, f)
                        \/ ClientStep(c) \/ LoopStep(c) \/ WorkerStep(c)

\* The scheduler runs every worker, the loop runs what has been posted, a
\* client reads what has been sent to it, and the idle timer fires in the end
\* on a connection on which only a worker computes.
Fairness ==
  \A c \in Conn : /\ WF_vars(WorkerStep(c))
                  /\ WF_vars(Drain(c)) /\ WF_vars(LoopClose(c)) /\ WF_vars(ReadEof(c))
                  /\ WF_vars(pc[c] = "solve" /\ KeepaliveTimeout(c))

Safety == Init /\ [][Next]_vars
Spec == Safety /\ Fairness
-----------------------------------------------------------------------------
\* The types of the variables, in the groups in which they are declared.
LoopTypes ==
  /\ conn \in [Conn -> {"open", "closing", "closed"}]
  /\ fd \in [Conn -> Fd]
  /\ hio \in [Fd -> Conn \cup {NoConn}]
  /\ queue \in [Conn -> Nat]
  /\ closeReq \in [Conn -> BOOLEAN]
  /\ err \in [Conn -> {"none", "failed", "timeout"}]
  /\ handling \in [Conn -> BOOLEAN]

SharedTypes ==
  /\ status \in [Conn -> {"CONNECTED", "DISCONNECTED", "CLOSED"}]
  /\ writer \in [Conn -> Writer]
  /\ resp \in [Conn -> Response]

WorkerTypes ==
  /\ pc \in [Conn -> {"none", "solve", "head", "flush", "loop", "catch", "end",
                      "close", "exit"}]
  /\ after \in [Conn -> {"loop", "end"}]
  /\ todo \in [Conn -> Seq(Frame)]
  /\ armed \in [Conn -> BOOLEAN]
  /\ points \in [Conn -> 0..MaxPoints]
  /\ i \in [Conn -> 1..(MaxPoints + 1)]
  /\ buffer \in [Conn -> SUBSET (0..(MaxPoints + 1))]

ClientTypes ==
  /\ client \in [Conn -> {"ready", "waiting", "answered", "lost", "gone"}]
  /\ request \in [Conn -> RequestKind]
  /\ stream \in [Conn -> Stream(Conn)]

\* Every variable keeps its type: a queue has no negative length, a worker
\* serializes no point past the last one it stored.
TypeOK == LoopTypes /\ SharedTypes /\ WorkerTypes /\ ClientTypes

\* The other connections whose workers stand between isOpened() and hio_write()
\* over the descriptor that c has now.
Intruders(c) == {d \in Conn \ {c} : armed[d] /\ fd[d] = fd[c]}

\* How far a detached worker can spoil a connection it does not serve.  One that
\* has passed isOpened() does write one more frame there when its own connection
\* is closed and the descriptor accepted again before its hio_write(): the id is
\* compared before the write and not with it.  But no worker gets into that place
\* over a connection that is already alive, and each frame of another's costs one
\* of those that stood there when it was accepted.
ForeignBytesAreStale ==
  [][\A c \in Conn : Live(c) =>
       /\ Intruders(c)' \subseteq Intruders(c)
       /\ stream'[c].src \ stream[c].src
            \subseteq {c} \cup (Intruders(c) \ Intruders(c)')]_vars

\* What a connection carries is always the beginning of one HTTP response: no
\* second header block, no chunk before the headers or after the last one, no
\* full response after a chunked one has begun - across success, the catch of
\* the worker, and the reuse of writer and response by the next request.
WellFramed == \A c \in Conn : stream[c].phase # "broken"

\* The pieces of a chunked answer arrive in order and without a gap, also when
\* the writer drops chunks, or the worker leaves its loop early or throws in it.
PiecesInOrder ==
  \A c \in Conn : stream[c].phase \in {"open", "done"} =>
    \A p \in stream[c].items \ {ErrorText} : 0..p \subseteq stream[c].items

\* The answers the server may give to a request: 400 when the IO thread could
\* not start a worker, 500 only from a worker that threw, without a piece of a
\* document, 200 only from a solver that returned, and then with the whole document
\* or, when the worker threw in the middle of it, with the error's text at its end.
NoDocument(c) == stream[c].items \subseteq {ErrorText}
WholeDocument(c) == stream[c].items = 0..(points[c] + 1)
SpoiledDocument(c) == ErrorText \in stream[c].items

RightAnswer(c) ==
  CASE request[c] = "ping"      -> stream[c].code = 200
    [] request[c] = "malformed" -> stream[c].code = 400
    [] request[c] = "failing"   -> stream[c].code \in {400, 500}
    [] request[c] = "solvable"  ->
         \/ stream[c].code = 400
         \/ stream[c].code = 500 /\ NoDocument(c)
         \/ stream[c].code = 200 /\ (WholeDocument(c) \/ SpoiledDocument(c))
    [] request[c] = "divergent" -> stream[c].code = 400

RightAnswers == \A c \in Conn : client[c] = "answered" => RightAnswer(c)

\* Also where a full queue may take nothing of a chunk: a complete answer that is
\* not the whole document came over a connection whose error was set when the
\* piece was lost.
UnfailedAnswersAreRight ==
  \A c \in Conn : client[c] = "answered" /\ err[c] = "none" => RightAnswer(c)

\* A complete response is final: until the client asks again nothing more is
\* written on its connection.
NothingAfterTheEnd ==
  [][\A c \in Conn : stream[c].phase = "done" /\ client'[c] = client[c]
       => stream'[c] = stream[c]]_vars

\* A response that was written to its end reaches the client unless a timer of
\* the event loop closes the connection: no Connection: close answer, and no
\* end of a worker, cuts off what is still in the write queue.
OnlyTimersCutAnswers ==
  \A c \in Conn : client[c] = "lost" /\ stream[c].phase = "done" => err[c] = "timeout"

\* The route implements the service: a client's complete response is the
\* reply, and a response that lacks a part of its document without saying so, or
\* is not a response at all, is no reply the service knows.
ReplyOf(c) ==
  CASE stream[c].phase # "done" -> "garbled"
    [] stream[c].phase = "done" /\ stream[c].code = 400 -> "rejected"
    [] stream[c].phase = "done" /\ stream[c].code = 500 ->
         IF NoDocument(c) THEN "failed" ELSE "garbled"
    [] stream[c].phase = "done" /\ stream[c].code = 200 ->
         IF request[c] = "ping" THEN "pong"
         ELSE IF WholeDocument(c) THEN "solution"
         ELSE IF SpoiledDocument(c) THEN "spoiled" ELSE "truncated"

OutcomeOf(c) == CASE client[c] = "ready"    -> "none"
                  [] client[c] = "waiting"  -> "pending"
                  [] client[c] = "answered" -> ReplyOf(c)
                  [] OTHER                  -> "dropped"

Service == INSTANCE SolveService WITH
             call <- request, outcome <- [c \in Conn |-> OutcomeOf(c)]

\* Every behaviour of the route is one of the service, with its promise that
\* no call stays pending.
ImplementsService == Service!Spec

\* README.md on /solve: on an error an HTTP 500 is returned.  Then no client has
\* a complete answer of any other status from a connection one of whose writes
\* has failed ("close it!", says nio.c of a queue over its limit).
FailedWritesAreReported ==
  \A c \in Conn : client[c] = "answered" /\ err[c] = "failed" => stream[c].code = 500

\* Every worker whose solver ends leaves, also when its connection is gone.
WorkersLeave ==
  \A c \in Conn : pc[c] \notin {"none", "solve"} ~> pc[c] = "none"

\* How far a worker is from its end.  A flush belongs to the part of the document
\* that it returns to.
Stages == [none |-> 0, exit |-> 1, close |-> 2, end |-> 3, catch |-> 4, loop |-> 6,
           head |-> 7, solve |-> 7]
Stage(c) == IF pc[c] # "flush" THEN Stages[pc[c]] ELSE IF after[c] = "end" THEN 5 ELSE 6

\* A step towards the end: a later stage, the next point, out of a flush, or on with
\* the call that is not finished.
Nearer(c) ==
  \/ Stage(c)' < Stage(c)
  \/ Stage(c)' = Stage(c) /\ i'[c] > i[c]
  \/ Stage(c)' = Stage(c) /\ i'[c] = i[c] /\ pc[c] = "flush" /\ pc'[c] = "loop"
  \/ UNCHANGED <<pc[c], after[c], i[c]>> /\ Len(todo'[c]) < Len(todo[c])
  \/ UNCHANGED <<pc[c], after[c], i[c], todo[c]>> /\ ~armed[c] /\ armed'[c]

\* Nothing sends a worker back: once its solver has ended, each step of its own
\* brings it nearer to its end, also when its writes fail or its connection is
\* gone, and no step of the loop, of a client or of another worker moves it.
WorkersAdvance ==
  [][\A c \in Conn : pc[c] \notin {"none", "solve"} =>
       \/ Nearer(c)
       \/ UNCHANGED <<pc[c], after[c], i[c], todo[c], armed[c]>>]_vars
=============================================================================
