----------------------------- MODULE HioSocket -----------------------------
(***************************************************************************)
(* One socket descriptor of libhv: its hio_t (nio.c, hevent.c), the epoll  *)
(* registration behind it (epoll.c), the event loop that serves it and the *)
(* events other threads post to that loop (hloop.c), and the detached      *)
(* workers that write on it through a Channel (evpp/Channel.h).            *)
(*                                                                         *)
(* The descriptor is used by one connection after the other, 1..MaxConn;   *)
(* the hio_t is never freed and only its id tells them apart.  Worker g    *)
(* serves connection g and may outlive it.  A critical section of          *)
(* write_mutex is one step; hio_close, which takes the mutex twice, is     *)
(* five; a worker is preempted between the tests it makes without the      *)
(* mutex and the mutex, unless Races is FALSE: then a close waits for it.  *)
(* SolveRoute abstracts all this to a queue and the connection an hio_t    *)
(* carries.                                                                *)
(*                                                                         *)
(* Bounds: MaxConn connections, MaxFrames[g] frames of FrameLen bytes from *)
(* worker g, MaxBuf bytes in a write queue (16 MB in libhv), Room bytes in *)
(* the kernel's send buffer.                                               *)
(***************************************************************************)
EXTENDS Naturals, Sequences

CONSTANTS MaxConn, MaxFrames, FrameLen, MaxBuf, Room,
          Races    \* a close may run while a worker is past its tests

ASSUME BoundsAssumption ==
  /\ MaxConn \in Nat /\ MaxFrames \in [1..MaxConn -> Nat] /\ Room \in Nat \ {0}
  /\ FrameLen \in Nat \ {0} /\ MaxBuf \in Nat /\ MaxBuf >= FrameLen
  /\ Races \in BOOLEAN

Conn == 1..MaxConn

\* The bytes the workers send, <<worker, frame, position>>, and a frame of them.
Byte == Conn \X Nat \X (1..FrameLen)
FrameOf(g, m) == [k \in 1..FrameLen |-> <<g, m, k>>]

VARIABLES
  io,        \* the fields of the hio_t
  writeQueue, \* the bytes left in io->write_queue, of all its buffers
  poll,      \* epoll's interest set for the descriptor ({}: not registered)
  posted,    \* loop->custom_events: the ids whose close has been posted
  wakeups,   \* the count of the eventfd
  toRun,     \* eventfd_read_cb: events it still takes from the queue
  loop,      \* where the event loop is
  back,      \* where it goes on after hio_close
  sock,      \* the connection behind the descriptor, 0 when it is closed
  peer,      \* the other end of each connection: "open", "eof", "reset"
  inFlight,  \* bytes in the send buffer
  latest,    \* the latest connection accepted
  chan,      \* the Channel of each connection: the id it keeps, its status
  pc,        \* each worker: "idle", "write" (past its tests), "post"
  frame,     \* the last frame a worker has written or dropped
  wire,      \* history: the bytes put on each connection
  taken,     \* history: the bytes of the frames a write has taken
  asked      \* history: a close was asked for, or something has failed

loopVars    == <<posted, wakeups, toRun, loop, back>>
kernelVars  == <<poll, sock, peer, inFlight, latest>>
workerVars  == <<chan, pc, frame>>
historyVars == <<wire, taken, asked>>
vars == <<io, writeQueue, loopVars, kernelVars, workerVars, historyVars>>
-----------------------------------------------------------------------------
(* The hio_t and epoll.  A definition whose comment starts with "Slip:" is   *)
(* a plausible mistake in the definition after it, put in its place to see  *)
(* that a property fails.                                                   *)

\* hio_ready: a hio_t that is not ready starts anew, with the next id.
HioReady(h) ==
  IF h.ready THEN h
  ELSE [h EXCEPT !.ready = TRUE, !.closed = FALSE, !.close = FALSE, !.error = FALSE,
                 !.events = {}, !.revents = {}, !.bufsize = 0, !.ctx = 0, !.id = @ + 1]

\* hio_add, once the hio_t is ready.
Activated(h) == HioReady([h EXCEPT !.active = TRUE])
HioAdd(h, events) ==
  LET a == Activated(h) IN [a EXCEPT !.events = @ \cup events]

\* iowatcher_add_event: EPOLL_CTL_ADD when io->events is empty, else MOD; each
\* fails, unnoticed, when the descriptor is registered or is not.
PollAdd(h, events) ==
  LET a == Activated(h)
  IN  IF events \subseteq a.events \/ sock = 0 \/ (a.events = {}) # (poll = {})
      THEN poll ELSE a.events \cup events

\* hio_del and iowatcher_del_event; with the last event the hio_t is inactive.
HioDel(h, events) ==
  IF h.active THEN [h EXCEPT !.events = @ \ events, !.active = h.events \ events # {}] ELSE h
PollDel(h, events) ==
  IF h.active /\ h.events \cap events # {} /\ poll # {} THEN h.events \ events ELSE poll


Live == sock # 0 /\ ~io.closed

\* Channel::isOpened.
IsOpened(g) == /\ chan[g].status = "OPENED" /\ chan[g].id = io.id
               /\ io.ready /\ ~io.closed

Lower(a, b) == IF a < b THEN a ELSE b

\* __nio_write: what the kernel takes at once of n bytes.
Sendable(n) == Lower(n, Room - inFlight)

\* send() fails: the descriptor is closed or the peer has reset.
SendFails == IF sock = 0 THEN TRUE ELSE peer[sock] = "reset"

\* n bytes of b go to whatever connection the descriptor is now.
Sent(b, n) ==
  /\ inFlight' = inFlight + n
  /\ wire' = IF n = 0 THEN wire ELSE [wire EXCEPT ![sock] = @ \o SubSeq(b, 1, n)]
-----------------------------------------------------------------------------
(* The workers.                                                            *)

\* Channel::write and hio_write up to the mutex: a channel that is not open
\* drops the frame.
WriteCheck(g) ==
  /\ pc[g] = "idle" /\ chan[g].id # 0 /\ frame[g] < MaxFrames[g]
  /\ frame' = [frame EXCEPT ![g] = @ + 1]
  /\ pc' = [pc EXCEPT ![g] = IF IsOpened(g) THEN "write" ELSE "idle"]
  /\ UNCHANGED <<io, writeQueue, loopVars, kernelVars, chan, historyVars>>

\* hio_write, the direct write fails: io->error, and a close is posted.
WriteError(g) ==
  /\ writeQueue = <<>> /\ SendFails
  /\ io' = [io EXCEPT !.error = TRUE]
  /\ pc' = [pc EXCEPT ![g] = "post"]
  /\ UNCHANGED <<writeQueue, poll, inFlight, wire, taken, asked>>

\* hio_write, the kernel takes the whole frame.
WriteDirect(g, f) ==
  /\ writeQueue = <<>> /\ ~SendFails /\ Sendable(FrameLen) = FrameLen
  /\ Sent(f, FrameLen)
  /\ taken' = [taken EXCEPT ![g] = @ \o f]
  /\ pc' = [pc EXCEPT ![g] = "idle"]
  /\ UNCHANGED <<io, writeQueue, poll, asked>>

\* Slip: the bytes queued are not counted.
WriteEnqueueUncounted(g, f) ==
  /\ writeQueue = <<>> => ~SendFails /\ Sendable(FrameLen) < FrameLen
  /\ LET n == IF writeQueue = <<>> THEN Sendable(FrameLen) ELSE 0
     IN  /\ io.bufsize + FrameLen - n <= MaxBuf
         /\ io' = IF writeQueue = <<>> THEN HioAdd(io, {"W"}) ELSE io
         /\ poll' = IF writeQueue = <<>> THEN PollAdd(io, {"W"}) ELSE poll
         /\ writeQueue' = writeQueue \o SubSeq(f, n + 1, FrameLen)
         /\ Sent(f, n)
  /\ taken' = [taken EXCEPT ![g] = @ \o f]
  /\ pc' = [pc EXCEPT ![g] = "idle"]
  /\ UNCHANGED asked

\* hio_write, enqueue: what the kernel has not taken is queued; the first to
\* queue asks for HV_WRITE.
WriteEnqueue(g, f) ==
  /\ writeQueue = <<>> => ~SendFails /\ Sendable(FrameLen) < FrameLen
  /\ LET n == IF writeQueue = <<>> THEN Sendable(FrameLen) ELSE 0
         h == IF writeQueue = <<>> THEN HioAdd(io, {"W"}) ELSE io
     IN  /\ h.bufsize + FrameLen - n <= MaxBuf
         /\ io' = [h EXCEPT !.bufsize = @ + FrameLen - n]
         /\ poll' = IF writeQueue = <<>> THEN PollAdd(io, {"W"}) ELSE poll
         /\ writeQueue' = writeQueue \o SubSeq(f, n + 1, FrameLen)
         /\ Sent(f, n)
  /\ taken' = [taken EXCEPT ![g] = @ \o f]
  /\ pc' = [pc EXCEPT ![g] = "idle"]
  /\ UNCHANGED asked

\* hio_write, a frame over the limit: it is lost, and a close is posted.
WriteOverflow(g) ==
  /\ writeQueue # <<>> /\ io.bufsize + FrameLen > MaxBuf
  /\ io' = [io EXCEPT !.error = TRUE]
  /\ asked' = [asked EXCEPT ![g] = TRUE]
  /\ pc' = [pc EXCEPT ![g] = "post"]
  /\ UNCHANGED <<writeQueue, poll, inFlight, wire, taken>>

LockedWrite(g) ==
  /\ pc[g] = "write"
  /\ LET f == FrameOf(g, frame[g])
     IN  WriteError(g) \/ WriteDirect(g, f) \/ WriteEnqueue(g, f) \/ WriteOverflow(g)
  /\ UNCHANGED <<loopVars, sock, peer, latest, chan, frame>>

\* Channel::close(true) up to hio_close_async.
CloseCheck(g) ==
  /\ pc[g] = "idle" /\ IsOpened(g)
  /\ chan' = [chan EXCEPT ![g].status = "CLOSED"]
  /\ asked' = [asked EXCEPT ![g] = TRUE]
  /\ pc' = [pc EXCEPT ![g] = "post"]
  /\ UNCHANGED <<io, writeQueue, loopVars, kernelVars, frame, wire, taken>>

\* hio_close_async and hloop_post_event: the id is the hio_t's present one.
PostClose(g) ==
  /\ pc[g] = "post"
  /\ posted' = Append(posted, io.id)
  /\ wakeups' = wakeups + 1
  /\ pc' = [pc EXCEPT ![g] = "idle"]
  /\ UNCHANGED <<io, writeQueue, toRun, loop, back, kernelVars, chan, frame, historyVars>>
-----------------------------------------------------------------------------
(* The event loop.                                                         *)

\* What epoll reports of the descriptor; a reset is reported as both.
Reported ==
  IF sock = 0 \/ poll = {} THEN {}
  ELSE IF peer[sock] = "reset" THEN {"R", "W"}
  ELSE {e \in poll : \/ e = "R" /\ peer[sock] = "eof"
                     \/ e = "W" /\ inFlight < Room}

\* iowatcher_poll_events: with nothing to report the loop stays blocked.
Poll ==
  /\ loop = "poll"
  /\ Reported # {} \/ wakeups > 0
  /\ io' = [io EXCEPT !.revents = @ \cup Reported]
  /\ loop' = IF wakeups > 0 THEN "eventfd" ELSE "read"
  /\ UNCHANGED <<writeQueue, posted, wakeups, toRun, back, kernelVars, workerVars, historyVars>>

\* Slip: one event for each wake-up of the loop.
ReadOneEvent ==
  /\ loop = "eventfd"
  /\ toRun' = 1
  /\ wakeups' = 0
  /\ loop' = "custom"
  /\ UNCHANGED <<io, writeQueue, posted, back, kernelVars, workerVars, historyVars>>

\* eventfd_read_cb: the count read is the number of events to take.
ReadEventfd ==
  /\ loop = "eventfd"
  /\ toRun' = wakeups
  /\ wakeups' = 0
  /\ loop' = "custom"
  /\ UNCHANGED <<io, writeQueue, posted, back, kernelVars, workerVars, historyVars>>

\* Slip: whatever connection the hio_t now is, it is closed.
RunAnyPosted ==
  /\ loop = "custom" /\ toRun > 0 /\ posted # <<>>
  /\ posted' = Tail(posted)
  /\ toRun' = toRun - 1
  /\ loop' = "close" /\ back' = "custom"
  /\ UNCHANGED <<io, writeQueue, wakeups, kernelVars, workerVars, historyVars>>

\* hio_close_event_cb: an event for an earlier id does nothing.
RunPosted ==
  /\ loop = "custom" /\ toRun > 0 /\ posted # <<>>
  /\ posted' = Tail(posted)
  /\ toRun' = toRun - 1
  /\ IF Head(posted) = io.id THEN loop' = "close" /\ back' = "custom"
     ELSE UNCHANGED <<loop, back>>
  /\ UNCHANGED <<io, writeQueue, wakeups, kernelVars, workerVars, historyVars>>

EventsRun ==
  /\ loop = "custom" /\ (toRun = 0 \/ posted = <<>>)
  /\ toRun' = 0
  /\ loop' = "read"
  /\ UNCHANGED <<io, writeQueue, posted, wakeups, back, kernelVars, workerVars, historyVars>>

\* hio_handle_events, HV_READ: a peer that has left closes the connection.
\* (What a read delivers is HttpHandler's; nothing here depends on it.)
HandleRead ==
  /\ loop = "read"
  /\ IF io.active /\ "R" \in io.events \cap io.revents /\ sock # 0 /\ peer[sock] # "open"
     THEN /\ io' = [io EXCEPT !.error = @ \/ peer[sock] = "reset"]
          /\ loop' = "close" /\ back' = "watch"
     ELSE /\ loop' = IF io.active THEN "watch" ELSE "poll"
          /\ UNCHANGED <<io, back>>
  /\ UNCHANGED <<writeQueue, posted, wakeups, toRun, kernelVars, workerVars, historyVars>>

\* Slip: HV_WRITE is deleted without a look at the queue.
HandleWriteUnlooked ==
  /\ loop = "watch"
  /\ IF "W" \in io.events \cap io.revents
     THEN /\ io' = HioDel(io, {"W"}) /\ poll' = PollDel(io, {"W"})
          /\ loop' = "drain"
     ELSE /\ io' = [io EXCEPT !.revents = {}]
          /\ loop' = "poll"
          /\ UNCHANGED poll
  /\ UNCHANGED <<writeQueue, posted, wakeups, toRun, back, sock, peer, inFlight, latest,
                 workerVars, historyVars>>

\* Slip: with an empty queue every event is deleted.
HandleWriteDeaf ==
  /\ loop = "watch"
  /\ IF "W" \in io.events \cap io.revents
     THEN /\ IF writeQueue = <<>>
             THEN io' = HioDel(io, {"R", "W"}) /\ poll' = PollDel(io, {"R", "W"})
             ELSE UNCHANGED <<io, poll>>
          /\ loop' = "drain"
     ELSE /\ io' = [io EXCEPT !.revents = {}]
          /\ loop' = "poll"
          /\ UNCHANGED poll
  /\ UNCHANGED <<writeQueue, posted, wakeups, toRun, back, sock, peer, inFlight, latest,
                 workerVars, historyVars>>

\* hio_handle_events, HV_WRITE: with an empty queue nothing waits for room any
\* more; the mutex is given back before nio_write takes it.
HandleWrite ==
  /\ loop = "watch"
  /\ IF "W" \in io.events \cap io.revents
     THEN /\ IF writeQueue = <<>>
             THEN io' = HioDel(io, {"W"}) /\ poll' = PollDel(io, {"W"})
             ELSE UNCHANGED <<io, poll>>
          /\ loop' = "drain"
     ELSE /\ io' = [io EXCEPT !.revents = {}]
          /\ loop' = "poll"
          /\ UNCHANGED poll
  /\ UNCHANGED <<writeQueue, posted, wakeups, toRun, back, sock, peer, inFlight, latest,
                 workerVars, historyVars>>

\* nio_write, the send fails.
DrainError ==
  /\ loop = "drain" /\ writeQueue # <<>> /\ SendFails
  /\ io' = [io EXCEPT !.error = TRUE, !.revents = {}]
  /\ loop' = "close" /\ back' = "poll"
  /\ UNCHANGED <<writeQueue, posted, wakeups, toRun, kernelVars, workerVars, historyVars>>

\* nio_write: the queue goes to the kernel as far as there is room; when it is
\* empty a deferred close is taken up.
Drain ==
  /\ loop = "drain" /\ (writeQueue = <<>> \/ ~SendFails)
  /\ LET n == IF writeQueue = <<>> THEN 0 ELSE Sendable(Len(writeQueue))
     IN  /\ Sent(writeQueue, n)
         /\ writeQueue' = SubSeq(writeQueue, n + 1, Len(writeQueue))
         /\ io' = [io EXCEPT !.bufsize = @ - n, !.revents = {},
                             !.close = @ /\ n < Len(writeQueue)]
         /\ IF n = Len(writeQueue) /\ io.close
            THEN loop' = "close" /\ back' = "poll"
            ELSE loop' = "poll" /\ UNCHANGED back
  /\ UNCHANGED <<posted, wakeups, toRun, poll, sock, peer, latest, workerVars, taken, asked>>
-----------------------------------------------------------------------------
(* hio_close, called by the loop.                                          *)

NobodyPastItsTests == \A g \in Conn : pc[g] = "idle"

\* Under the mutex: closed already, deferred once while frames are queued and
\* nothing has failed, or closed now.
HioClose ==
  /\ loop = "close"
  /\ Races \/ NobodyPastItsTests
  /\ IF io.closed
     THEN loop' = back /\ UNCHANGED io
     ELSE IF writeQueue # <<>> /\ ~io.error /\ ~io.close
     THEN loop' = back /\ io' = [io EXCEPT !.close = TRUE]
     ELSE loop' = "done" /\ io' = [io EXCEPT !.closed = TRUE]
  /\ UNCHANGED <<writeQueue, posted, wakeups, toRun, back, kernelVars, workerVars, historyVars>>

\* hio_done: not ready any more ...
HioDone ==
  /\ loop = "done"
  /\ io' = [io EXCEPT !.ready = FALSE]
  /\ loop' = IF io.ready THEN "del" ELSE "fd"
  /\ UNCHANGED <<writeQueue, posted, wakeups, toRun, back, kernelVars, workerVars, historyVars>>

\* ... no events ...
HioDelAll ==
  /\ loop = "del"
  /\ io' = HioDel(io, {"R", "W"})
  /\ poll' = PollDel(io, {"R", "W"})
  /\ loop' = "clear"
  /\ UNCHANGED <<writeQueue, posted, wakeups, toRun, back, sock, peer, inFlight, latest,
                 workerVars, historyVars>>

\* ... and, under the mutex, nothing left to write.
ClearQueue ==
  /\ loop = "clear"
  /\ writeQueue' = <<>>
  /\ loop' = "fd"
  /\ UNCHANGED <<io, posted, wakeups, toRun, back, kernelVars, workerVars, historyVars>>

\* __close_cb (Channel::on_close, if the hio_t still has it) and closesocket,
\* which takes the descriptor out of epoll.
CloseSocket ==
  /\ loop = "fd"
  /\ chan' = IF io.ctx = 0 THEN chan ELSE [chan EXCEPT ![io.ctx].status = "CLOSED"]
  /\ sock' = 0 /\ poll' = {} /\ inFlight' = 0
  /\ loop' = back
  /\ UNCHANGED <<io, writeQueue, posted, wakeups, toRun, back, peer, latest, pc, frame,
                 historyVars>>

\* __keepalive_timeout_cb: nothing was read or written for 75 s.
KeepaliveTimeout ==
  /\ loop = "poll" /\ Live
  /\ io' = [io EXCEPT !.error = TRUE]
  /\ asked' = [asked EXCEPT ![sock] = TRUE]
  /\ loop' = "close" /\ back' = "poll"
  /\ UNCHANGED <<writeQueue, posted, wakeups, toRun, kernelVars, workerVars, wire, taken>>

\* __close_timeout_cb: a deferred close is 60 s old.
CloseTimeout ==
  /\ loop = "poll" /\ Live /\ io.close
  /\ io' = [io EXCEPT !.error = TRUE]
  /\ loop' = "close" /\ back' = "poll"
  /\ UNCHANGED <<writeQueue, posted, wakeups, toRun, kernelVars, workerVars, historyVars>>

\* nio_accept, hio_get and hio_read: the kernel hands out the descriptor again.
\* Its callback is one of those that run after the posted events.
Accept ==
  /\ loop \in {"poll", "read"} /\ sock = 0 /\ latest < MaxConn
  /\ LET g == latest + 1
         h == [HioReady(io) EXCEPT !.ctx = g]
         a == HioAdd(h, {"R"})
     IN  /\ latest' = g /\ sock' = g
         /\ chan' = [chan EXCEPT ![g] = [id |-> h.id, status |->
                                           IF h.closed THEN "CLOSED" ELSE "OPENED"]]
         /\ io' = IF h.closed THEN h ELSE a
         /\ poll' = IF h.closed \/ h.events # {} THEN {} ELSE {"R"}
  /\ UNCHANGED <<writeQueue, loopVars, peer, inFlight, pc, frame, historyVars>>
-----------------------------------------------------------------------------
(* The other end.                                                          *)

PeerReads ==
  /\ inFlight > 0 /\ peer[sock] = "open"
  /\ inFlight' = inFlight - 1
  /\ UNCHANGED <<io, writeQueue, loopVars, poll, sock, peer, latest, workerVars, historyVars>>

\* The peer shuts its end down, or resets the connection.
PeerLeaves(how) ==
  /\ Live /\ peer[sock] = "open"
  /\ peer' = [peer EXCEPT ![sock] = how]
  /\ asked' = [asked EXCEPT ![sock] = TRUE]
  /\ UNCHANGED <<io, writeQueue, loopVars, poll, sock, inFlight, latest, workerVars, wire, taken>>
-----------------------------------------------------------------------------
Init ==
  /\ io = [ready |-> FALSE, active |-> FALSE, closed |-> FALSE, close |-> FALSE,
           error |-> FALSE, events |-> {}, revents |-> {}, bufsize |-> 0, ctx |-> 0, id |-> 0]
  /\ writeQueue = <<>>
  /\ posted = <<>> /\ wakeups = 0 /\ toRun = 0
  /\ loop = "poll" /\ back = "poll"
  /\ poll = {} /\ sock = 0 /\ inFlight = 0 /\ latest = 0
  /\ peer = [g \in Conn |-> "open"]
  /\ chan = [g \in Conn |-> [id |-> 0, status |-> "CLOSED"]]
  /\ pc = [g \in Conn |-> "idle"]
  /\ frame = [g \in Conn |-> 0]
  /\ wire = [g \in Conn |-> <<>>]
  /\ taken = [g \in Conn |-> <<>>]
  /\ asked = [g \in Conn |-> FALSE]

Callback == \/ Poll \/ ReadEventfd \/ RunPosted \/ EventsRun
            \/ HandleRead \/ HandleWrite \/ DrainError \/ Drain
            \/ HioClose \/ HioDone \/ HioDelAll \/ ClearQueue \/ CloseSocket

WorkerStep(g) == WriteCheck(g) \/ LockedWrite(g) \/ CloseCheck(g) \/ PostClose(g)

Next == \/ Callback \/ Accept \/ KeepaliveTimeout \/ CloseTimeout
        \/ \E g \in Conn : WorkerStep(g)
        \/ PeerReads \/ \E how \in {"eof", "reset"} : PeerLeaves(how)

\* The loop runs, a worker finishes the call it is in, and the timers fire: the
\* one of a deferred close, and the idle one on a connection whose peer takes
\* nothing more.  Nothing is assumed of the peer.
Stuck == writeQueue # <<>> /\ inFlight = Room
Fairness == /\ WF_vars(Callback) /\ WF_vars(CloseTimeout)
            /\ WF_vars(Stuck /\ KeepaliveTimeout)
            /\ \A g \in Conn : WF_vars(LockedWrite(g) \/ PostClose(g))

Spec == Init /\ [][Next]_vars /\ Fairness
-----------------------------------------------------------------------------
Event == {"R", "W"}
HioTypes ==
  /\ io \in [ready : BOOLEAN, active : BOOLEAN, closed : BOOLEAN, close : BOOLEAN,
             error : BOOLEAN, events : SUBSET Event, revents : SUBSET Event,
             bufsize : Nat, ctx : 0..MaxConn, id : Nat]
  /\ writeQueue \in Seq(Byte)
LoopTypes ==
  /\ posted \in Seq(Nat) /\ wakeups \in Nat /\ toRun \in Nat
  /\ loop \in {"poll", "eventfd", "custom", "read", "watch", "drain", "close",
               "done", "del", "clear", "fd"}
  /\ back \in {"poll", "custom", "watch"}
KernelTypes ==
  /\ poll \in SUBSET Event /\ sock \in 0..MaxConn /\ latest \in 0..MaxConn
  /\ inFlight \in 0..Room
  /\ peer \in [Conn -> {"open", "eof", "reset"}]
WorkerTypes ==
  /\ chan \in [Conn -> [id : Nat, status : {"OPENED", "CLOSED"}]]
  /\ pc \in [Conn -> {"idle", "write", "post"}]
  /\ frame \in [Conn -> Nat]
HistoryTypes ==
  /\ wire \in [Conn -> Seq(Byte)] /\ taken \in [Conn -> Seq(Byte)]
  /\ asked \in [Conn -> BOOLEAN]

\* Every variable keeps its type: write_bufsize, which the loop decreases and
\* the workers increase, never goes below zero.
TypeOK == HioTypes /\ LoopTypes /\ KernelTypes /\ WorkerTypes /\ HistoryTypes

\* write_bufsize, against which hio_write tests the limit, is what is queued.
BufsizeExact == Live => io.bufsize = Len(writeQueue)

\* While bytes are queued the loop waits for room, in io->events and in epoll:
\* no interleaving of hio_write, the HV_WRITE deletion of hio_handle_events and
\* nio_write leaves a queue nobody drains.
QueueIsWatched == Live /\ writeQueue # <<>> => "W" \in io.events /\ "W" \in poll

\* Every close that was posted has a wake-up coming or a turn of
\* eventfd_read_cb to run it: none is left behind in custom_events.
EventsCounted == Len(posted) = wakeups + toRun

\* A connection that is up is read: its hio_t and epoll agree that HV_READ is
\* wanted, so a request and the departure of the peer are noticed.
NobodyDeaf == Live => io.active /\ "R" \in io.events /\ "R" \in poll

\* A connection carries its own worker's bytes, in order and without a gap.
OwnBytesInOrder ==
  \A g \in Conn : /\ Len(wire[g]) <= Len(taken[g])
                  /\ wire[g] = SubSeq(taken[g], 1, Len(wire[g]))

StateOf(g) == IF chan[g].id = 0 THEN "new" ELSE IF sock = g /\ ~io.closed THEN "up" ELSE "down"

Stream == INSTANCE ByteStream WITH
            Link <- Conn, Frames <- UNION {{FrameOf(g, m) : m \in 1..MaxFrames[g]} : g \in Conn},
            state <- [g \in Conn |-> StateOf(g)], received <- wire

\* A connection is the byte stream ByteStream describes: closed only when that
\* was asked for - not by a close posted for an earlier connection - and what a
\* worker has written is delivered or the connection is closed.
ImplementsByteStream == Stream!Spec

\* hloop.h: hio_write is thread-safe, it may be called by other threads.  Then a
\* write puts no byte on another connection than its own, and disturbs none.
WriteIsThreadSafe == OwnBytesInOrder /\ (loop = "poll" => NobodyDeaf)
=============================================================================
