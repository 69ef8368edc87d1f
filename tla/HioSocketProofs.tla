-------------------------- MODULE HioSocketProofs --------------------------
(***************************************************************************)
(* Theorems about HioSocket for every number of connections, frames, bytes *)
(* of a frame, limit of the queue and room in the kernel:                  *)
(*                                                                         *)
(*   NoCloseLeftBehind  EventsCounted, however workers and loop race;      *)
(*                                                                         *)
(* and, as long as no close overtakes a worker past its tests (~Races),    *)
(*                                                                         *)
(*   TypeCorrect        TypeOK;                                            *)
(*   ExactCount         BufsizeExact;                                      *)
(*   ConnectionServed   QueueIsWatched and NobodyDeaf;                     *)
(*   StepsOfStream      each step is one of ByteStream or none.            *)
(*                                                                         *)
(* None is inductive.  That the count of posted closes is right needs to   *)
(* know when eventfd_read_cb has events left to take: CountInv.  The rest  *)
(* depends on what hio_close has undone at each of its five steps, and on  *)
(* what is left of the hio_t between two connections: that is SocketInv.   *)
(* The stream needs, in StreamInv, whose the hio_t is (OwnerInv), that     *)
(* whatever leads to hio_close was asked for (AskedInv), and where the     *)
(* bytes are that were taken (BytesInv).                                   *)
(***************************************************************************)
EXTENDS HioSocket, SequenceTheorems, TLAPS

\* The events still to be taken belong to the turn of eventfd_read_cb under
\* way, also while it is inside hio_close.
Closing == {"close", "done", "del", "clear", "fd"}
CountTypes == /\ posted \in Seq(Nat) /\ wakeups \in Nat /\ toRun \in Nat
              /\ "id" \in DOMAIN io /\ io.id \in Nat
CountInv == /\ CountTypes
            /\ EventsCounted
            /\ toRun # 0 => loop = "custom" \/ (loop \in Closing /\ back = "custom")

\* hio_close has deleted the events, cleared the queue.
Unwatched == sock = 0 \/ loop \in {"clear", "fd"}
Cleared   == sock = 0 \/ loop = "fd"

\* A hio_t is ready exactly while its descriptor is open and hio_done has not
\* run; closed from hio_close on; a worker is past its tests only in between.
LifeInv ==
  /\ io.ready <=> sock # 0 /\ loop \notin {"del", "clear", "fd"}
  /\ io.ready /\ loop # "done" => ~io.closed
  /\ loop \in {"done", "del", "clear", "fd"} => io.closed
  /\ \A g \in Conn : pc[g] # "idle" => io.ready /\ ~io.closed

\* Until its events are deleted it is active and registered for what it waits
\* for, afterwards for nothing; what is counted is queued until it is cleared.
WatchInv ==
  /\ ~Unwatched => /\ io.active /\ "R" \in io.events /\ poll = io.events
                   /\ writeQueue # <<>> => "W" \in io.events
  /\ Unwatched => io.events = {} /\ poll = {}
  /\ ~Cleared => io.bufsize = Len(writeQueue)
  /\ Cleared => writeQueue = <<>>

SocketInv == TypeOK /\ LifeInv /\ WatchInv
-----------------------------------------------------------------------------
(* The posted closes.                                                      *)

\* The operators that change a hio_t leave an id that is a number.
LEMMA IdStays ==
  ASSUME NEW h, "id" \in DOMAIN h, h.id \in Nat, NEW events
  PROVE  /\ "id" \in DOMAIN HioReady(h) /\ HioReady(h).id \in Nat
         /\ "id" \in DOMAIN HioAdd(h, events) /\ HioAdd(h, events).id \in Nat
         /\ "id" \in DOMAIN HioDel(h, events) /\ HioDel(h, events).id \in Nat
<1>1. ASSUME NEW k, "id" \in DOMAIN k, k.id \in Nat
      PROVE  "id" \in DOMAIN HioReady(k) /\ HioReady(k).id \in Nat
  BY <1>1 DEF HioReady
<1>2. "id" \in DOMAIN Activated(h) /\ Activated(h).id \in Nat
  <2> DEFINE a == [h EXCEPT !.active = TRUE]
  <2>1. "id" \in DOMAIN a /\ a.id \in Nat
    OBVIOUS
  <2> QED
    BY <1>1, <2>1 DEF Activated
<1>3. "id" \in DOMAIN HioAdd(h, events) /\ HioAdd(h, events).id \in Nat
  BY <1>2 DEF HioAdd
<1>4. "id" \in DOMAIN HioDel(h, events) /\ HioDel(h, events).id \in Nat
  BY DEF HioDel
<1> QED
  BY <1>1, <1>3, <1>4

\* What the workers do to a hio_t leaves the events alone; only PostClose adds one.
LEMMA CountedByWorkers ==
  ASSUME CountInv, NEW g \in Conn, WorkerStep(g)
  PROVE  CountInv'
<1> USE DEF CountInv, CountTypes, EventsCounted, loopVars, kernelVars, historyVars
<1>1. CASE WriteCheck(g) \/ CloseCheck(g)
  BY <1>1 DEF WriteCheck, CloseCheck
<1>2. CASE LockedWrite(g)
  <2>1. UNCHANGED <<posted, wakeups, toRun, loop, back>>
    BY <1>2 DEF LockedWrite
  <2>2. CASE WriteError(g) \/ WriteOverflow(g) \/ WriteDirect(g, FrameOf(g, frame[g]))
    BY <2>1, <2>2 DEF WriteError, WriteOverflow, WriteDirect
  <2>3. CASE WriteEnqueue(g, FrameOf(g, frame[g]))
    <3>1. "id" \in DOMAIN HioAdd(io, {"W"}) /\ HioAdd(io, {"W"}).id \in Nat
      BY IdStays
    <3>2. PICK h, n : /\ h = io \/ h = HioAdd(io, {"W"})
                      /\ io' = [h EXCEPT !.bufsize = @ + FrameLen - n]
      BY <2>3 DEF WriteEnqueue
    <3>3. "id" \in DOMAIN io' /\ io'.id \in Nat
      BY <3>1, <3>2
    <3> QED
      BY <2>1, <3>3
  <2> QED
    BY <1>2, <2>2, <2>3 DEF LockedWrite
<1>3. CASE PostClose(g)
  <2>1. posted' \in Seq(Nat) /\ Len(posted') = Len(posted) + 1
    BY <1>3 DEF PostClose
  <2> QED
    BY <1>3, <2>1 DEF PostClose
<1> QED
  BY <1>1, <1>2, <1>3 DEF WorkerStep

\* What the loop does: a turn of eventfd_read_cb takes over the count, and
\* runs until it has used it up.
LEMMA CountedByLoop ==
  ASSUME CountInv, Callback
  PROVE  CountInv'
<1> USE DEF CountInv, CountTypes, EventsCounted, Closing, kernelVars, workerVars, historyVars
<1>1. CASE Poll
  BY <1>1 DEF Poll
<1>2. CASE ReadEventfd
  BY <1>2 DEF ReadEventfd
<1>3. CASE RunPosted
  <2>1. posted' \in Seq(Nat) /\ Len(posted') = Len(posted) - 1
    BY <1>3 DEF RunPosted
  <2>2. UNCHANGED <<io, wakeups>> /\ toRun' = toRun - 1 /\ toRun' \in Nat
    BY <1>3 DEF RunPosted
  <2>3. loop' = "custom" \/ (loop' \in Closing /\ back' = "custom")
    BY <1>3 DEF RunPosted
  <2> QED
    BY <2>1, <2>2, <2>3
<1>4. CASE EventsRun
  <2>1. toRun = 0 \/ Len(posted) = 0
    BY <1>4 DEF EventsRun
  <2>2. toRun = 0
    BY <2>1
  <2> QED
    BY <1>4, <2>2 DEF EventsRun
<1>5. CASE HandleRead \/ DrainError \/ Drain
  <2>1. UNCHANGED <<posted, wakeups, toRun>> /\ toRun = 0
    BY <1>5 DEF HandleRead, DrainError, Drain
  <2>2. "id" \in DOMAIN io' /\ io'.id \in Nat
    BY <1>5 DEF HandleRead, DrainError, Drain
  <2> QED
    BY <2>1, <2>2
<1>6. CASE HandleWrite \/ HioDelAll
  <2>1. UNCHANGED <<posted, wakeups, toRun, back>>
    BY <1>6 DEF HandleWrite, HioDelAll
  <2>2. "id" \in DOMAIN io' /\ io'.id \in Nat
    BY <1>6, IdStays DEF HandleWrite, HioDelAll
  <2>3. toRun # 0 => loop' \in Closing /\ back = "custom"
    BY <1>6 DEF HandleWrite, HioDelAll
  <2> QED
    BY <2>1, <2>2, <2>3
<1>7. CASE HioClose \/ HioDone \/ ClearQueue \/ CloseSocket
  <2>1. UNCHANGED <<posted, wakeups, toRun, back>>
    BY <1>7 DEF HioClose, HioDone, ClearQueue, CloseSocket
  <2>2. "id" \in DOMAIN io' /\ io'.id \in Nat
    BY <1>7 DEF HioClose, HioDone, ClearQueue, CloseSocket
  <2>3. toRun # 0 => back = "custom" /\ (loop' \in Closing \/ loop' = back)
    BY <1>7 DEF HioClose, HioDone, ClearQueue, CloseSocket
  <2> QED
    BY <2>1, <2>2, <2>3
<1> QED
  BY <1>1, <1>2, <1>3, <1>4, <1>5, <1>6, <1>7 DEF Callback

\* The number of closes in custom_events is the number of wake-ups the eventfd
\* holds and eventfd_read_cb still has to take, for any number of connections
\* and workers, also when they race with hio_close: no posted close waits for a
\* wake-up that has been spent (hloop_post_event and eventfd_read_cb, hloop.c).
THEOREM NoCloseLeftBehind == Spec => []EventsCounted
<1>1. Init => CountInv
  BY DEF Init, CountInv, CountTypes, EventsCounted
<1>2. CountInv /\ [Next]_vars => CountInv'
  <2> SUFFICES ASSUME CountInv, [Next]_vars PROVE CountInv'
    OBVIOUS
  <2> USE DEF CountInv, CountTypes, EventsCounted, Closing
  <2>1. CASE Callback
    BY <2>1, CountedByLoop
  <2>2. CASE \E g \in Conn : WorkerStep(g)
    BY <2>2, CountedByWorkers
  <2>3. CASE Accept
    <3>1. UNCHANGED loopVars
      BY <2>3 DEF Accept
    <3>2. "id" \in DOMAIN io' /\ io'.id \in Nat
      <4> DEFINE h == [HioReady(io) EXCEPT !.ctx = latest + 1]
      <4>1. "id" \in DOMAIN h /\ h.id \in Nat
        BY IdStays
      <4>2. "id" \in DOMAIN HioAdd(h, {"R"}) /\ HioAdd(h, {"R"}).id \in Nat
        BY <4>1, IdStays
      <4>3. io' = h \/ io' = HioAdd(h, {"R"})
        BY <2>3 DEF Accept
      <4> QED
        BY <4>1, <4>2, <4>3
    <3> QED
      BY <3>1, <3>2 DEF loopVars
  <2>4. CASE KeepaliveTimeout \/ CloseTimeout
    BY <2>4 DEF KeepaliveTimeout, CloseTimeout
  <2>5. CASE PeerReads \/ \E how \in {"eof", "reset"} : PeerLeaves(how)
    BY <2>5 DEF PeerReads, PeerLeaves, loopVars
  <2>6. CASE UNCHANGED vars
    BY <2>6 DEF vars, loopVars
  <2> QED
    BY <2>1, <2>2, <2>3, <2>4, <2>5, <2>6 DEF Next
<1>3. CountInv => EventsCounted
  BY DEF CountInv
<1> QED
  BY <1>1, <1>2, <1>3, PTL DEF Spec
-----------------------------------------------------------------------------
(* The hio_t between hio_ready and hio_done.                               *)

Hio == [ready : BOOLEAN, active : BOOLEAN, closed : BOOLEAN, close : BOOLEAN,
        error : BOOLEAN, events : SUBSET Event, revents : SUBSET Event,
        bufsize : Nat, ctx : 0..MaxConn, id : Nat]

\* hio_add on a ready hio_t adds the events, and hio_del takes them away.
LEMMA ReadyHio ==
  ASSUME NEW h \in Hio, NEW e \in Event
  PROVE  /\ h.ready => HioAdd(h, {e}) = [h EXCEPT !.active = TRUE, !.events = @ \cup {e}]
         /\ HioDel(h, {e}) \in Hio /\ HioDel(h, Event) \in Hio
         /\ HioReady(h) \in Hio
         /\ h.ready => HioAdd(h, {e}) \in Hio
<1>1. h.ready => HioAdd(h, {e}) = [h EXCEPT !.active = TRUE, !.events = @ \cup {e}]
  <2> DEFINE a == [h EXCEPT !.active = TRUE]
  <2>1. h.ready => a.ready
    BY DEF Hio
  <2>2. h.ready => HioReady(a) = a
    BY <2>1 DEF HioReady
  <2>3. HioAdd(h, {e}) = [HioReady(a) EXCEPT !.events = @ \cup {e}]
    BY DEF HioAdd, Activated
  <2> QED
    BY <2>2, <2>3 DEF Hio
<1>2. HioDel(h, {e}) \in Hio /\ HioDel(h, Event) \in Hio
  BY DEF HioDel, Hio, Event
<1>3. HioReady(h) \in Hio
  <2>1. 0 \in 0..MaxConn /\ h.id + 1 \in Nat
    BY BoundsAssumption DEF BoundsAssumption, Hio
  <2> QED
    BY <2>1 DEF HioReady, Hio
<1>4. h.ready => HioAdd(h, {e}) \in Hio
  <2>1. h.events \cup {e} \in SUBSET Event
    BY DEF Hio
  <2>2. [h EXCEPT !.active = TRUE, !.events = @ \cup {e}] \in Hio
    BY <2>1 DEF Hio
  <2> QED
    BY <1>1, <2>2
<1> QED
  BY <1>1, <1>2, <1>3, <1>4

LEMMA TypesOfHio == HioTypes <=> io \in Hio /\ writeQueue \in Seq(Byte)
BY DEF HioTypes, Hio

\* What the kernel takes is no more than it is offered, and never overfills it.
LEMMA SendableBounds ==
  ASSUME inFlight \in 0..Room, NEW n \in Nat
  PROVE  Sendable(n) \in Nat /\ Sendable(n) <= n /\ inFlight + Sendable(n) \in 0..Room
BY BoundsAssumption DEF Sendable, Lower, BoundsAssumption

\* Bytes that are sent keep the kernel's variables typed.
LEMMA SentTypes ==
  ASSUME KernelTypes, HistoryTypes, sock # 0, NEW b \in Seq(Byte), NEW n \in 0..Len(b),
         inFlight + n \in 0..Room, Sent(b, n)
  PROVE  inFlight' \in 0..Room /\ wire' \in [Conn -> Seq(Byte)]
<1>1. SubSeq(b, 1, n) \in Seq(Byte)
  BY SubSeqProperties
<1>2. sock \in Conn
  BY DEF KernelTypes, Conn
<1>3. wire[sock] \o SubSeq(b, 1, n) \in Seq(Byte)
  BY <1>1, <1>2, ConcatProperties DEF HistoryTypes
<1> QED
  BY <1>3 DEF Sent, HistoryTypes

LEMMA FrameIsBytes ==
  ASSUME NEW g \in Conn, NEW m \in Nat
  PROVE  FrameOf(g, m) \in Seq(Byte) /\ Len(FrameOf(g, m)) = FrameLen
<1>1. \A k \in 1..FrameLen : <<g, m, k>> \in Byte
  BY DEF Byte
<1>2. FrameOf(g, m) \in [1..FrameLen -> Byte]
  BY <1>1 DEF FrameOf
<1> QED
  BY <1>2, BoundsAssumption DEF BoundsAssumption
-----------------------------------------------------------------------------
(* Every step keeps the socket's invariant.                                *)

InHioClose == {"done", "del", "clear", "fd"}

\* A step outside hio_close that changes neither what a hio_t waits for nor
\* what is queued.
LEMMA Kept ==
  ASSUME SocketInv, io' \in Hio,
         io'.ready = io.ready, io'.active = io.active, io'.closed = io.closed,
         io'.events = io.events, io'.bufsize = io.bufsize,
         UNCHANGED <<writeQueue, poll, sock>>,
         \A g \in Conn : pc'[g] # "idle" => io.ready /\ ~io.closed,
         loop \notin InHioClose, loop' \notin InHioClose
  PROVE  HioTypes' /\ LifeInv' /\ WatchInv'
<1>1. HioTypes'
  BY DEF SocketInv, TypeOK, HioTypes, Hio
<1>2. LifeInv'
  BY DEF SocketInv, LifeInv, InHioClose
<1>3. WatchInv'
  BY DEF SocketInv, WatchInv, Unwatched, Cleared, InHioClose
<1> QED
  BY <1>1, <1>2, <1>3

LEMMA SocketByEvents ==
  ASSUME SocketInv, Poll \/ ReadEventfd \/ RunPosted \/ EventsRun \/ HandleRead
  PROVE  SocketInv'
<1> USE DEF kernelVars, workerVars, historyVars
<1>1. io \in Hio /\ sock \in 0..MaxConn /\ posted \in Seq(Nat) /\ wakeups \in Nat /\ toRun \in Nat
  BY TypesOfHio DEF SocketInv, TypeOK, LoopTypes, KernelTypes
<1>2. /\ UNCHANGED <<writeQueue, poll, sock, peer, inFlight, latest, chan, pc, frame, wire, taken, asked>>
      /\ loop \notin InHioClose /\ loop' \notin InHioClose
      /\ loop' \in {"eventfd", "read", "custom", "close", "watch", "poll"}
      /\ back' \in {back, "custom", "watch"}
  BY DEF Poll, ReadEventfd, RunPosted, EventsRun, HandleRead, InHioClose
<1>3. Reported \in SUBSET Event
  BY DEF Reported, SocketInv, TypeOK, KernelTypes, Event
<1>4. /\ io' \in Hio
      /\ io'.ready = io.ready /\ io'.active = io.active /\ io'.closed = io.closed
      /\ io'.events = io.events /\ io'.bufsize = io.bufsize
  <2>1. CASE Poll
    BY <1>1, <1>3, <2>1 DEF Poll, Hio
  <2>2. CASE HandleRead
    <3>1. (io.error \/ peer[sock] = "reset") \in BOOLEAN
      OBVIOUS
    <3>2. CASE UNCHANGED io
      BY <1>1, <3>2
    <3>3. CASE io' = [io EXCEPT !.error = io.error \/ peer[sock] = "reset"]
      BY <1>1, <3>1, <3>3 DEF Hio
    <3> QED
      BY <2>2, <3>2, <3>3 DEF HandleRead
  <2>3. CASE ReadEventfd \/ RunPosted \/ EventsRun
    BY <1>1, <2>3 DEF ReadEventfd, RunPosted, EventsRun
  <2> QED
    BY <2>1, <2>2, <2>3
<1>5. \A g \in Conn : pc'[g] # "idle" => io.ready /\ ~io.closed
  BY <1>2 DEF SocketInv, LifeInv
<1>6. HioTypes' /\ LifeInv' /\ WatchInv'
  BY <1>2, <1>4, <1>5, Kept
<1>7. LoopTypes'
  <2>1. posted' \in Seq(Nat) /\ wakeups' \in Nat /\ toRun' \in Nat
    <3>1. CASE RunPosted
      BY <1>1, <3>1 DEF RunPosted
    <3>2. CASE Poll \/ ReadEventfd \/ EventsRun \/ HandleRead
      BY <1>1, <3>2 DEF Poll, ReadEventfd, EventsRun, HandleRead
    <3> QED
      BY <3>1, <3>2
  <2>2. back \in {"poll", "custom", "watch"}
    BY DEF SocketInv, TypeOK, LoopTypes
  <2> QED
    BY <1>2, <2>1, <2>2 DEF LoopTypes
<1>8. KernelTypes' /\ WorkerTypes' /\ HistoryTypes'
  BY <1>2 DEF SocketInv, TypeOK, KernelTypes, WorkerTypes, HistoryTypes
<1> QED
  BY <1>6, <1>7, <1>8 DEF SocketInv, TypeOK

\* The timers, and a send that fails, begin a close.
LEMMA SocketByFailures ==
  ASSUME SocketInv, DrainError \/ KeepaliveTimeout \/ CloseTimeout
  PROVE  SocketInv'
<1> USE DEF kernelVars, workerVars, historyVars
<1>1. io \in Hio /\ sock \in 0..MaxConn
  BY TypesOfHio DEF SocketInv, TypeOK, KernelTypes
<1>2. /\ UNCHANGED <<writeQueue, posted, wakeups, toRun, poll, sock, peer, inFlight, latest, chan, pc, frame, wire, taken>>
      /\ loop \notin InHioClose /\ loop' = "close" /\ back' = "poll"
  BY DEF DrainError, KeepaliveTimeout, CloseTimeout, InHioClose
<1>3. /\ io' \in Hio
      /\ io'.ready = io.ready /\ io'.active = io.active /\ io'.closed = io.closed
      /\ io'.events = io.events /\ io'.bufsize = io.bufsize
  BY <1>1 DEF DrainError, KeepaliveTimeout, CloseTimeout, Hio
<1>4. \A g \in Conn : pc'[g] # "idle" => io.ready /\ ~io.closed
  BY <1>2 DEF SocketInv, LifeInv
<1>5. HioTypes' /\ LifeInv' /\ WatchInv'
  BY <1>2, <1>3, <1>4, Kept DEF InHioClose
<1>6. LoopTypes' /\ KernelTypes' /\ WorkerTypes'
  BY <1>2 DEF SocketInv, TypeOK, LoopTypes, KernelTypes, WorkerTypes
<1>7. HistoryTypes'
  BY <1>2 DEF SocketInv, TypeOK, HistoryTypes, DrainError, KeepaliveTimeout, CloseTimeout
<1> QED
  BY <1>5, <1>6, <1>7 DEF SocketInv, TypeOK

\* The other end changes nothing of the hio_t.
LEMMA SocketByPeer ==
  ASSUME SocketInv, PeerReads \/ \E how \in {"eof", "reset"} : PeerLeaves(how)
  PROVE  SocketInv'
<1> USE DEF loopVars, workerVars, historyVars
<1>1. UNCHANGED <<io, writeQueue, posted, wakeups, toRun, loop, back, poll, sock, latest, chan, pc, frame, wire, taken>>
  BY DEF PeerReads, PeerLeaves
<1>2. HioTypes' /\ LifeInv' /\ WatchInv'
  BY <1>1 DEF SocketInv, TypeOK, HioTypes, LifeInv, WatchInv, Unwatched, Cleared
<1>3. LoopTypes' /\ WorkerTypes'
  BY <1>1 DEF SocketInv, TypeOK, LoopTypes, WorkerTypes
<1>4. KernelTypes' /\ HistoryTypes'
  <2>1. CASE PeerReads
    <3>1. inFlight' \in 0..Room
      BY <2>1, BoundsAssumption DEF PeerReads, SocketInv, TypeOK, KernelTypes, BoundsAssumption
    <3> QED
      BY <1>1, <2>1, <3>1 DEF SocketInv, TypeOK, KernelTypes, HistoryTypes, PeerReads
  <2>2. CASE \E how \in {"eof", "reset"} : PeerLeaves(how)
    BY <1>1, <2>2 DEF SocketInv, TypeOK, KernelTypes, HistoryTypes, PeerLeaves
  <2> QED
    BY <2>1, <2>2
<1> QED
  BY <1>2, <1>3, <1>4 DEF SocketInv, TypeOK

\* A worker writes or asks for a close only while the hio_t is ready.
LEMMA SocketByChecks ==
  ASSUME SocketInv, NEW g \in Conn, WriteCheck(g) \/ CloseCheck(g) \/ PostClose(g)
  PROVE  SocketInv'
<1> USE DEF loopVars, kernelVars, historyVars
<1>1. UNCHANGED <<io, writeQueue, wire, taken, poll, sock, peer, inFlight, latest, toRun, loop, back>>
  BY DEF WriteCheck, CloseCheck, PostClose
<1>2. \A k \in Conn : pc'[k] # "idle" => io.ready /\ ~io.closed
  BY DEF WriteCheck, CloseCheck, PostClose, IsOpened, SocketInv, LifeInv, TypeOK, WorkerTypes
<1>3. HioTypes' /\ LifeInv' /\ WatchInv'
  BY <1>1, <1>2 DEF SocketInv, TypeOK, HioTypes, LifeInv, WatchInv, Unwatched, Cleared
<1>4. KernelTypes'
  BY <1>1 DEF SocketInv, TypeOK, KernelTypes
<1>5. HistoryTypes'
  BY <1>1 DEF SocketInv, TypeOK, HistoryTypes, WriteCheck, CloseCheck, PostClose
<1>6. WorkerTypes'
  <2>1. CASE WriteCheck(g)
    BY <2>1 DEF SocketInv, TypeOK, WorkerTypes, WriteCheck
  <2>2. CASE CloseCheck(g)
    <3>1. [chan[g] EXCEPT !.status = "CLOSED"] \in [id : Nat, status : {"OPENED", "CLOSED"}]
      BY DEF SocketInv, TypeOK, WorkerTypes
    <3>2. chan' = [chan EXCEPT ![g] = [chan[g] EXCEPT !.status = "CLOSED"]]
      BY <2>2 DEF CloseCheck
    <3> QED
      BY <2>2, <3>1, <3>2 DEF SocketInv, TypeOK, WorkerTypes, CloseCheck
  <2>3. CASE PostClose(g)
    BY <2>3 DEF SocketInv, TypeOK, WorkerTypes, PostClose
  <2> QED
    BY <2>1, <2>2, <2>3
<1>7. LoopTypes'
  <2>1. CASE PostClose(g)
    <3>1. io.id \in Nat
      BY DEF SocketInv, TypeOK, HioTypes
    <3>2. posted' \in Seq(Nat) /\ wakeups' \in Nat
      BY <2>1, <3>1 DEF PostClose, SocketInv, TypeOK, LoopTypes
    <3> QED
      BY <1>1, <3>2 DEF SocketInv, TypeOK, LoopTypes
  <2>2. CASE WriteCheck(g) \/ CloseCheck(g)
    BY <2>2 DEF SocketInv, TypeOK, LoopTypes, WriteCheck, CloseCheck
  <2> QED
    BY <2>1, <2>2
<1> QED
  BY <1>3, <1>4, <1>5, <1>6, <1>7 DEF SocketInv, TypeOK

\* hio_write under the mutex: what it queues is counted and waited for.
LEMMA SocketByWrite ==
  ASSUME SocketInv, NEW g \in Conn, LockedWrite(g)
  PROVE  SocketInv'
<1> USE DEF loopVars
<1> DEFINE f == FrameOf(g, frame[g])
<1>1. /\ io \in Hio /\ writeQueue \in Seq(Byte) /\ sock \in 0..MaxConn /\ inFlight \in 0..Room
      /\ poll \in SUBSET Event /\ FrameLen \in Nat
  BY TypesOfHio, BoundsAssumption DEF SocketInv, TypeOK, KernelTypes, BoundsAssumption
<1>2. /\ UNCHANGED <<posted, wakeups, toRun, loop, back, sock, peer, latest, chan, frame>>
      /\ WriteError(g) \/ WriteDirect(g, f) \/ WriteEnqueue(g, f) \/ WriteOverflow(g)
  BY DEF LockedWrite
<1>3. io.ready /\ ~io.closed
  BY DEF LockedWrite, SocketInv, LifeInv
<1>4. loop \notin InHioClose /\ sock # 0
  BY <1>3 DEF SocketInv, LifeInv, InHioClose
<1>5. f \in Seq(Byte) /\ Len(f) = FrameLen
  BY FrameIsBytes DEF SocketInv, TypeOK, WorkerTypes
<1>6. LoopTypes'
  BY <1>2 DEF SocketInv, TypeOK, LoopTypes
<1>7. WorkerTypes'
  BY <1>2 DEF SocketInv, TypeOK, WorkerTypes, WriteError, WriteDirect, WriteEnqueue, WriteOverflow
<1>8. \A k \in Conn : pc'[k] # "idle" => io.ready /\ ~io.closed
  BY <1>3
<1>9. taken' \in [Conn -> Seq(Byte)] /\ asked' \in [Conn -> BOOLEAN]
  <2>1. taken[g] \o f \in Seq(Byte)
    BY <1>5, ConcatProperties DEF SocketInv, TypeOK, HistoryTypes
  <2> QED
    BY <1>2, <2>1 DEF SocketInv, TypeOK, HistoryTypes, WriteError, WriteDirect, WriteEnqueue, WriteOverflow
<1>10. CASE WriteError(g) \/ WriteOverflow(g)
  <2>1. UNCHANGED <<writeQueue, poll, inFlight, wire>> /\ io' = [io EXCEPT !.error = TRUE]
    BY <1>10 DEF WriteError, WriteOverflow
  <2>2. HioTypes' /\ LifeInv' /\ WatchInv'
    BY <1>1, <1>2, <1>4, <1>8, <2>1, Kept DEF Hio
  <2>3. KernelTypes' /\ HistoryTypes'
    BY <1>2, <1>9, <2>1 DEF SocketInv, TypeOK, KernelTypes, HistoryTypes
  <2> QED
    BY <1>6, <1>7, <2>2, <2>3 DEF SocketInv, TypeOK
<1>11. CASE WriteDirect(g, f)
  <2>1. UNCHANGED <<io, writeQueue, poll>> /\ Sent(f, FrameLen) /\ Sendable(FrameLen) = FrameLen
    BY <1>11 DEF WriteDirect
  <2>2. HioTypes' /\ LifeInv' /\ WatchInv'
    BY <1>1, <1>2, <1>4, <1>8, <2>1, Kept
  <2>3. inFlight + FrameLen \in 0..Room
    BY <1>1, <2>1, SendableBounds
  <2>4. inFlight' \in 0..Room /\ wire' \in [Conn -> Seq(Byte)]
    BY <1>1, <1>4, <1>5, <2>1, <2>3, SentTypes DEF SocketInv, TypeOK
  <2>5. KernelTypes' /\ HistoryTypes'
    BY <1>2, <1>9, <2>1, <2>4 DEF SocketInv, TypeOK, KernelTypes, HistoryTypes
  <2> QED
    BY <1>6, <1>7, <2>2, <2>5 DEF SocketInv, TypeOK
<1>12. CASE WriteEnqueue(g, f)
  <2> DEFINE n == IF writeQueue = <<>> THEN Sendable(FrameLen) ELSE 0
             h == IF writeQueue = <<>> THEN HioAdd(io, {"W"}) ELSE io
  <2>1. /\ io' = [h EXCEPT !.bufsize = @ + FrameLen - n]
        /\ poll' = IF writeQueue = <<>> THEN PollAdd(io, {"W"}) ELSE poll
        /\ writeQueue' = writeQueue \o SubSeq(f, n + 1, FrameLen)
        /\ Sent(f, n)
        /\ writeQueue = <<>> => Sendable(FrameLen) < FrameLen
    BY <1>12 DEF WriteEnqueue
  <2>2. n \in 0..FrameLen /\ n < FrameLen /\ inFlight + n \in 0..Room
    BY <1>1, <2>1, SendableBounds, BoundsAssumption DEF BoundsAssumption
  <2>3. inFlight' \in 0..Room /\ wire' \in [Conn -> Seq(Byte)]
    BY <1>1, <1>4, <1>5, <2>1, <2>2, SentTypes DEF SocketInv, TypeOK
  <2>4. /\ SubSeq(f, n + 1, FrameLen) \in Seq(Byte)
        /\ Len(SubSeq(f, n + 1, FrameLen)) = FrameLen - n
    BY <1>1, <1>5, <2>2, SubSeqProperties
  <2>5. /\ writeQueue' \in Seq(Byte) /\ writeQueue' # <<>>
        /\ Len(writeQueue') = Len(writeQueue) + FrameLen - n
    <3>1. ASSUME NEW q \in Seq(Byte), Len(q) > 0
          PROVE  /\ writeQueue \o q \in Seq(Byte) /\ writeQueue \o q # <<>>
                 /\ Len(writeQueue \o q) = Len(writeQueue) + Len(q)
      BY <1>1, <3>1
    <3>2. Len(SubSeq(f, n + 1, FrameLen)) > 0
      BY <1>1, <2>2, <2>4
    <3>3. Len(writeQueue) \in Nat
      BY <1>1
    <3> HIDE DEF n, f
    <3>4. Len(writeQueue') = Len(writeQueue) + (FrameLen - n)
      BY <2>1, <2>4, <3>1, <3>2
    <3> QED
      BY <1>1, <2>1, <2>2, <2>4, <3>1, <3>2, <3>3, <3>4
  <2>6. io.active /\ "R" \in io.events /\ poll = io.events /\ io.bufsize = Len(writeQueue)
        /\ (writeQueue # <<>> => "W" \in io.events)
    BY <1>4 DEF SocketInv, WatchInv, Unwatched, Cleared, InHioClose
  <2>7. /\ h \in Hio /\ h.ready /\ ~h.closed /\ h.active /\ h.bufsize = io.bufsize
        /\ h.events = io.events \cup {"W"}
    <3>1. CASE writeQueue = <<>>
      <4>1. h = [io EXCEPT !.active = TRUE, !.events = @ \cup {"W"}] /\ h \in Hio
        BY <1>1, <1>3, <3>1, ReadyHio DEF Event
      <4> QED
        BY <1>1, <1>3, <4>1 DEF Hio
    <3>2. CASE writeQueue # <<>>
      BY <1>1, <1>3, <2>6, <3>2
    <3> QED
      BY <3>1, <3>2
  <2>8. h.bufsize + FrameLen - n \in Nat
    BY <1>1, <2>2, <2>7 DEF Hio
  <2>9. io' \in Hio /\ io'.ready /\ ~io'.closed /\ io'.active /\ io'.events = io.events \cup {"W"}
        /\ io'.bufsize = Len(writeQueue')
    BY <1>1, <2>1, <2>5, <2>6, <2>7, <2>8 DEF Hio
  <2>10. poll' = io.events \cup {"W"}
    <3>1. Activated(io).events = io.events
      BY <1>1, <1>3 DEF Activated, HioReady, Hio
    <3> QED
      BY <1>4, <2>1, <2>6, <3>1 DEF PollAdd
  <2>11. HioTypes'
    BY <2>5, <2>9 DEF HioTypes, Hio
  <2>12. LifeInv'
    BY <1>2, <1>4, <2>9 DEF LifeInv, InHioClose
  <2>13. WatchInv'
    BY <1>2, <1>4, <2>5, <2>6, <2>9, <2>10 DEF WatchInv, Unwatched, Cleared, InHioClose
  <2>14. KernelTypes' /\ HistoryTypes'
    BY <1>1, <1>2, <1>9, <2>3, <2>10 DEF SocketInv, TypeOK, KernelTypes, HistoryTypes, Hio, Event
  <2> QED
    BY <1>6, <1>7, <2>11, <2>12, <2>13, <2>14 DEF SocketInv, TypeOK
<1> QED
  BY <1>2, <1>10, <1>11, <1>12

\* hio_handle_events deletes HV_WRITE only when nothing is queued.
LEMMA SocketByHandleWrite ==
  ASSUME SocketInv, HandleWrite
  PROVE  SocketInv'
<1> USE DEF workerVars, historyVars
<1>1. io \in Hio /\ poll \in SUBSET Event
  BY TypesOfHio DEF SocketInv, TypeOK, KernelTypes
<1>2. /\ UNCHANGED <<writeQueue, posted, wakeups, toRun, back, sock, peer, inFlight, latest, chan, pc, frame, wire, taken, asked>>
      /\ loop \notin InHioClose /\ loop' \notin InHioClose /\ loop' \in {"drain", "poll"}
  BY DEF HandleWrite, InHioClose
<1>3. LoopTypes' /\ WorkerTypes' /\ HistoryTypes'
  BY <1>2 DEF SocketInv, TypeOK, LoopTypes, WorkerTypes, HistoryTypes
<1>4. \A g \in Conn : pc'[g] # "idle" => io.ready /\ ~io.closed
  BY <1>2 DEF SocketInv, LifeInv
<1>5. CASE UNCHANGED poll /\ (UNCHANGED io \/ io' = [io EXCEPT !.revents = {}])
  <2>1. HioTypes' /\ LifeInv' /\ WatchInv'
    <3>1. CASE UNCHANGED io
      BY <1>1, <1>2, <1>4, <1>5, <3>1, Kept
    <3>2. CASE io' = [io EXCEPT !.revents = {}]
      BY <1>1, <1>2, <1>4, <1>5, <3>2, Kept DEF Hio
    <3> QED
      BY <1>5, <3>1, <3>2
  <2>2. KernelTypes'
    BY <1>2, <1>5 DEF SocketInv, TypeOK, KernelTypes
  <2> QED
    BY <1>3, <2>1, <2>2 DEF SocketInv, TypeOK
<1>6. CASE /\ "W" \in io.events /\ writeQueue = <<>>
           /\ io' = HioDel(io, {"W"}) /\ poll' = PollDel(io, {"W"})
  <2>1. /\ sock # 0 /\ io.active /\ "R" \in io.events /\ poll = io.events
        /\ io.bufsize = Len(writeQueue)
    BY <1>2, <1>6 DEF SocketInv, WatchInv, Unwatched, Cleared, InHioClose
  <2>2. io' = [io EXCEPT !.events = @ \ {"W"}, !.active = TRUE]
    <3>1. (io.events \ {"W"} # {}) = TRUE
      BY <2>1
    <3>2. io' = [io EXCEPT !.events = @ \ {"W"}, !.active = (io.events \ {"W"} # {})]
      BY <1>6, <2>1 DEF HioDel
    <3> QED
      BY <3>1, <3>2
  <2>3. /\ io' \in Hio /\ io'.ready = io.ready /\ io'.closed = io.closed /\ io'.active
        /\ io'.events = io.events \ {"W"} /\ io'.bufsize = io.bufsize
    BY <1>1, <2>2 DEF Hio
  <2>4. poll' = io.events \ {"W"}
    BY <1>6, <2>1 DEF PollDel
  <2>5. HioTypes' /\ KernelTypes'
    BY <1>1, <1>2, <2>1, <2>3, <2>4 DEF SocketInv, TypeOK, HioTypes, KernelTypes, Hio
  <2>6. LifeInv'
    BY <1>2, <1>4, <2>3 DEF SocketInv, LifeInv, InHioClose
  <2>7. WatchInv'
    BY <1>2, <1>6, <2>1, <2>3, <2>4 DEF WatchInv, Unwatched, Cleared, InHioClose
  <2> QED
    BY <1>3, <2>5, <2>6, <2>7 DEF SocketInv, TypeOK
<1> QED
  BY <1>5, <1>6 DEF HandleWrite

\* nio_write: what leaves the queue leaves the count.
LEMMA SocketByDrain ==
  ASSUME SocketInv, Drain
  PROVE  SocketInv'
<1> USE DEF workerVars
<1>1. /\ io \in Hio /\ writeQueue \in Seq(Byte) /\ Len(writeQueue) \in Nat
      /\ inFlight \in 0..Room /\ sock \in 0..MaxConn
  BY TypesOfHio DEF SocketInv, TypeOK, KernelTypes
<1> DEFINE n == IF writeQueue = <<>> THEN 0 ELSE Sendable(Len(writeQueue))
<1>2. /\ UNCHANGED <<posted, wakeups, toRun, poll, sock, peer, latest, chan, pc, frame, taken, asked>>
      /\ loop = "drain" /\ loop' \in {"close", "poll"} /\ back' \in {back, "poll"}
      /\ writeQueue = <<>> \/ ~SendFails
  BY DEF Drain
<1>3. /\ Sent(writeQueue, n)
      /\ writeQueue' = SubSeq(writeQueue, n + 1, Len(writeQueue))
      /\ io' = [io EXCEPT !.bufsize = @ - n, !.revents = {}, !.close = @ /\ n < Len(writeQueue)]
  BY DEF Drain
<1>4. n \in 0..Len(writeQueue) /\ inFlight + n \in 0..Room
  BY <1>1, SendableBounds
<1>5. /\ writeQueue' \in Seq(Byte)
      /\ Len(writeQueue') = Len(writeQueue) - n
      /\ (writeQueue' # <<>> => writeQueue # <<>>)
  <2> HIDE DEF n
  <2>1. /\ SubSeq(writeQueue, n + 1, Len(writeQueue)) \in Seq(Byte)
        /\ Len(SubSeq(writeQueue, n + 1, Len(writeQueue))) = Len(writeQueue) - n
    BY <1>1, <1>4, SubSeqProperties
  <2>2. Len(writeQueue') = 0 => writeQueue' = <<>>
    BY <1>3, <2>1
  <2> QED
    BY <1>1, <1>3, <1>4, <2>1, <2>2
<1>6. writeQueue # <<>> => sock # 0
  BY DEF SocketInv, WatchInv, Cleared
<1>7. sock # 0 => io.bufsize = Len(writeQueue)
  BY <1>2 DEF SocketInv, WatchInv, Cleared
<1>8. io.bufsize - n \in Nat /\ (io.close /\ n < Len(writeQueue)) \in BOOLEAN
  <2>1. io.bufsize - n \in Nat
    BY <1>1, <1>4, <1>6, <1>7 DEF Hio
  <2> QED
    BY <2>1
<1>9. /\ io' \in Hio /\ io'.ready = io.ready /\ io'.closed = io.closed
      /\ io'.active = io.active /\ io'.events = io.events /\ io'.bufsize = io.bufsize - n
  <2> HIDE DEF n
  <2> QED
    BY <1>1, <1>3, <1>8 DEF Hio
<1>10. inFlight' \in 0..Room /\ wire' \in [Conn -> Seq(Byte)]
  <2>1. CASE sock # 0
    BY <1>1, <1>3, <1>4, <2>1, SentTypes DEF SocketInv, TypeOK
  <2>2. CASE sock = 0
    BY <1>1, <1>3, <1>6, <2>2 DEF Sent, SocketInv, TypeOK, HistoryTypes
  <2> QED
    BY <2>1, <2>2
<1>11. LoopTypes' /\ KernelTypes' /\ WorkerTypes' /\ HistoryTypes'
  BY <1>2, <1>10 DEF SocketInv, TypeOK, LoopTypes, KernelTypes, WorkerTypes, HistoryTypes
<1>12. HioTypes'
  BY <1>5, <1>9 DEF HioTypes, Hio
<1>13. LifeInv'
  BY <1>2, <1>9 DEF SocketInv, LifeInv
<1>14. WatchInv'
  <2>1. (~Unwatched)' => /\ io'.active /\ "R" \in io'.events /\ poll' = io'.events
                         /\ writeQueue' # <<>> => "W" \in io'.events
    BY <1>2, <1>5, <1>9 DEF SocketInv, WatchInv, Unwatched
  <2>2. Unwatched' => io'.events = {} /\ poll' = {}
    BY <1>2, <1>9 DEF SocketInv, WatchInv, Unwatched
  <2>3. (~Cleared)' => io'.bufsize = Len(writeQueue')
    BY <1>2, <1>5, <1>7, <1>9 DEF Cleared
  <2>4. Cleared' => writeQueue' = <<>>
    BY <1>2, <1>5, <1>6 DEF Cleared
  <2> QED
    BY <2>1, <2>2, <2>3, <2>4 DEF WatchInv
<1> QED
  BY <1>11, <1>12, <1>13, <1>14 DEF SocketInv, TypeOK

\* hio_close up to hio_done: nothing is undone while a worker is past its tests.
LEMMA SocketByClose ==
  ASSUME SocketInv, ~Races, HioClose
  PROVE  SocketInv'
<1> USE DEF kernelVars, workerVars, historyVars
<1>1. io \in Hio /\ back \in {"poll", "custom", "watch"}
  BY TypesOfHio DEF SocketInv, TypeOK, LoopTypes
<1>2. /\ UNCHANGED <<writeQueue, posted, wakeups, toRun, back, poll, sock, peer, inFlight, latest,
                     chan, pc, frame, wire, taken, asked>>
      /\ loop = "close" /\ NobodyPastItsTests
  BY DEF HioClose
<1>3. loop' \in {"poll", "custom", "watch", "done"}
  BY <1>1 DEF HioClose
<1>4. LoopTypes' /\ KernelTypes' /\ WorkerTypes' /\ HistoryTypes'
  BY <1>2, <1>3 DEF SocketInv, TypeOK, LoopTypes, KernelTypes, WorkerTypes, HistoryTypes
<1>5. \A g \in Conn : pc'[g] = "idle"
  BY <1>2 DEF NobodyPastItsTests
<1>6. CASE loop' = back
  <2>1. /\ io' \in Hio /\ io'.ready = io.ready /\ io'.active = io.active /\ io'.closed = io.closed
        /\ io'.events = io.events /\ io'.bufsize = io.bufsize
    BY <1>1, <1>6 DEF HioClose, Hio
  <2>2. HioTypes' /\ LifeInv' /\ WatchInv'
    BY <1>1, <1>2, <1>5, <1>6, <2>1, Kept DEF InHioClose
  <2> QED
    BY <1>4, <2>2 DEF SocketInv, TypeOK
<1>7. CASE loop' = "done" /\ io' = [io EXCEPT !.closed = TRUE]
  <2>1. /\ io' \in Hio /\ io'.ready = io.ready /\ io'.active = io.active /\ io'.closed
        /\ io'.events = io.events /\ io'.bufsize = io.bufsize
    BY <1>1, <1>7 DEF Hio
  <2>2. HioTypes'
    BY <1>2, <2>1 DEF SocketInv, TypeOK, HioTypes, Hio
  <2>3. LifeInv'
    BY <1>2, <1>5, <1>7, <2>1 DEF SocketInv, LifeInv
  <2>4. WatchInv'
    BY <1>2, <1>7, <2>1 DEF SocketInv, WatchInv, Unwatched, Cleared
  <2> QED
    BY <1>4, <2>2, <2>3, <2>4 DEF SocketInv, TypeOK
<1> QED
  BY <1>6, <1>7 DEF HioClose

\* The four steps of hio_done and what follows it.
LEMMA SocketByDone ==
  ASSUME SocketInv, HioDone \/ HioDelAll \/ ClearQueue \/ CloseSocket
  PROVE  SocketInv'
<1> USE DEF kernelVars, workerVars, historyVars
<1>1. /\ io \in Hio /\ writeQueue \in Seq(Byte) /\ poll \in SUBSET Event
      /\ back \in {"poll", "custom", "watch"} /\ io.closed
  BY TypesOfHio DEF SocketInv, TypeOK, LoopTypes, KernelTypes, LifeInv,
                    HioDone, HioDelAll, ClearQueue, CloseSocket
<1>2. UNCHANGED <<posted, wakeups, toRun, back, peer, latest, pc, frame, wire, taken, asked>>
  BY DEF HioDone, HioDelAll, ClearQueue, CloseSocket
<1>3. \A g \in Conn : pc'[g] = "idle"
  <2>1. \A g \in Conn : pc[g] = "idle"
    BY <1>1 DEF SocketInv, LifeInv
  <2> QED
    BY <1>2, <2>1
<1>4. LoopTypes'
  BY <1>1, <1>2 DEF SocketInv, TypeOK, LoopTypes, HioDone, HioDelAll, ClearQueue, CloseSocket
<1>5. HistoryTypes'
  BY <1>2 DEF SocketInv, TypeOK, HistoryTypes
<1>6. CASE HioDone
  <2>1. /\ UNCHANGED <<writeQueue, poll, sock, inFlight, chan>>
        /\ loop = "done" /\ loop' = (IF io.ready THEN "del" ELSE "fd")
        /\ io' = [io EXCEPT !.ready = FALSE]
    BY <1>6 DEF HioDone
  <2>2. /\ io' \in Hio /\ ~io'.ready /\ io'.active = io.active /\ io'.closed
        /\ io'.events = io.events /\ io'.bufsize = io.bufsize
    BY <1>1, <2>1 DEF Hio
  <2>3. io.ready <=> sock # 0
    BY <2>1 DEF SocketInv, LifeInv
  <2>4. HioTypes' /\ KernelTypes' /\ WorkerTypes'
    BY <1>2, <2>1, <2>2 DEF SocketInv, TypeOK, HioTypes, KernelTypes, WorkerTypes, Hio
  <2>5. LifeInv'
    BY <1>3, <2>1, <2>2, <2>3 DEF LifeInv
  <2>6. WatchInv'
    BY <2>1, <2>2, <2>3 DEF SocketInv, WatchInv, Unwatched, Cleared
  <2> QED
    BY <1>4, <1>5, <2>4, <2>5, <2>6 DEF SocketInv, TypeOK
<1>7. CASE HioDelAll
  <2>1. /\ UNCHANGED <<writeQueue, sock, inFlight, chan>>
        /\ loop = "del" /\ loop' = "clear"
        /\ io' = HioDel(io, Event) /\ poll' = PollDel(io, Event)
    BY <1>7 DEF HioDelAll, Event
  <2>2. sock # 0 => io.active /\ "R" \in io.events /\ poll = io.events
    BY <2>1 DEF SocketInv, WatchInv, Unwatched
  <2>3. sock = 0 => io.events = {} /\ poll = {}
    BY <2>1 DEF SocketInv, WatchInv, Unwatched
  <2>4. io.events \ Event = {}
    BY <1>1 DEF Hio
  <2>5. /\ io' \in Hio /\ io'.ready = io.ready /\ io'.closed = io.closed
        /\ io'.bufsize = io.bufsize
    <3>1. "R" \in Event
      BY DEF Event
    <3>2. io' \in Hio
      BY <1>1, <2>1, <3>1, ReadyHio
    <3>3. io' = io \/ io' = [io EXCEPT !.events = @ \ Event, !.active = (io.events \ Event # {})]
      BY <2>1 DEF HioDel
    <3> QED
      BY <1>1, <3>2, <3>3 DEF Hio
  <2>6. io'.events = {}
    BY <1>1, <2>1, <2>2, <2>3, <2>4 DEF HioDel, Hio
  <2>7. poll' = {}
    <3>1. CASE sock = 0
      BY <2>1, <2>3, <3>1 DEF PollDel
    <3>2. CASE sock # 0
      <4>1. io.events \cap Event # {} /\ poll # {}
        BY <2>2, <3>2 DEF Event
      <4> QED
        BY <2>1, <2>2, <2>4, <3>2, <4>1 DEF PollDel
    <3> QED
      BY <3>1, <3>2
  <2>8. HioTypes' /\ KernelTypes' /\ WorkerTypes'
    BY <1>2, <2>1, <2>5, <2>7 DEF SocketInv, TypeOK, HioTypes, KernelTypes, WorkerTypes, Hio
  <2>9. LifeInv'
    BY <1>1, <1>3, <2>1, <2>5 DEF SocketInv, LifeInv
  <2>10. WatchInv'
    BY <2>1, <2>5, <2>6, <2>7 DEF SocketInv, WatchInv, Unwatched, Cleared
  <2> QED
    BY <1>4, <1>5, <2>8, <2>9, <2>10 DEF SocketInv, TypeOK
<1>8. CASE ClearQueue
  <2>1. /\ UNCHANGED <<io, poll, sock, inFlight, chan>> /\ writeQueue' = <<>>
        /\ loop = "clear" /\ loop' = "fd"
    BY <1>8 DEF ClearQueue
  <2>2. HioTypes' /\ KernelTypes' /\ WorkerTypes'
    BY <1>1, <1>2, <2>1 DEF SocketInv, TypeOK, HioTypes, KernelTypes, WorkerTypes, Hio
  <2>3. LifeInv'
    BY <1>3, <2>1 DEF SocketInv, LifeInv
  <2>4. WatchInv'
    BY <2>1 DEF SocketInv, WatchInv, Unwatched, Cleared
  <2> QED
    BY <1>4, <1>5, <2>2, <2>3, <2>4 DEF SocketInv, TypeOK
<1>9. CASE CloseSocket
  <2>1. /\ UNCHANGED <<io, writeQueue>> /\ sock' = 0 /\ poll' = {} /\ inFlight' = 0
        /\ loop = "fd" /\ loop' = back
    BY <1>9 DEF CloseSocket
  <2>2. HioTypes' /\ KernelTypes'
    BY <1>1, <1>2, <2>1, BoundsAssumption
    DEF SocketInv, TypeOK, HioTypes, KernelTypes, Hio, BoundsAssumption
  <2>3. WorkerTypes'
    <3>1. \A g \in Conn : [chan[g] EXCEPT !.status = "CLOSED"] \in [id : Nat, status : {"OPENED", "CLOSED"}]
      BY DEF SocketInv, TypeOK, WorkerTypes
    <3>2. chan' = chan \/ chan' = [chan EXCEPT ![io.ctx] = [chan[io.ctx] EXCEPT !.status = "CLOSED"]]
      BY <1>9 DEF CloseSocket
    <3> QED
      BY <1>2, <3>1, <3>2 DEF SocketInv, TypeOK, WorkerTypes
  <2>4. LifeInv'
    BY <1>1, <1>3, <2>1 DEF SocketInv, LifeInv
  <2>5. WatchInv'
    BY <2>1 DEF SocketInv, WatchInv, Unwatched, Cleared
  <2> QED
    BY <1>4, <1>5, <2>2, <2>3, <2>4, <2>5 DEF SocketInv, TypeOK
<1> QED
  BY <1>6, <1>7, <1>8, <1>9

\* An accepted connection finds a hio_t that is not ready, with an empty queue
\* and a descriptor epoll does not know, and is registered for HV_READ.
LEMMA SocketByAccept ==
  ASSUME SocketInv, Accept
  PROVE  SocketInv'
<1> USE DEF loopVars
<1> DEFINE g == latest + 1
           r == HioReady(io)
           h == [r EXCEPT !.ctx = g]
<1>1. /\ io \in Hio /\ latest \in 0..MaxConn /\ latest < MaxConn /\ g \in Conn /\ MaxConn \in Nat
      /\ sock = 0 /\ loop \in {"poll", "read"}
  BY TypesOfHio, BoundsAssumption DEF SocketInv, TypeOK, KernelTypes, Accept, BoundsAssumption, Conn
<1>2. ~io.ready /\ io.events = {} /\ writeQueue = <<>>
  BY <1>1 DEF SocketInv, LifeInv, WatchInv, Unwatched, Cleared
<1>3. r \in Hio /\ r.ready /\ ~r.closed /\ r.events = {} /\ r.bufsize = 0
  BY <1>1, <1>2, ReadyHio DEF HioReady, Hio, Event
<1>4. h \in Hio /\ h.ready /\ ~h.closed /\ h.events = {} /\ h.bufsize = 0
  BY <1>1, <1>3 DEF Hio, Conn
<1>5. /\ UNCHANGED <<writeQueue, posted, wakeups, toRun, loop, back, peer, inFlight, pc, frame, wire, taken, asked>>
      /\ latest' = g /\ sock' = g
      /\ chan' = [chan EXCEPT ![g] = [id |-> h.id, status |-> IF h.closed THEN "CLOSED" ELSE "OPENED"]]
      /\ io' = HioAdd(h, {"R"}) /\ poll' = {"R"}
  BY <1>4 DEF Accept, historyVars
<1>6. io' = [h EXCEPT !.active = TRUE, !.events = @ \cup {"R"}] /\ io' \in Hio
  BY <1>4, <1>5, ReadyHio DEF Event
<1>7. io'.ready /\ ~io'.closed /\ io'.active /\ io'.events = {"R"} /\ io'.bufsize = 0
  BY <1>4, <1>6 DEF Hio
<1>8. HioTypes' /\ KernelTypes'
  BY <1>1, <1>2, <1>5, <1>6 DEF SocketInv, TypeOK, HioTypes, KernelTypes, Hio, Event, Conn
<1>9. LoopTypes' /\ HistoryTypes'
  BY <1>5 DEF SocketInv, TypeOK, LoopTypes, HistoryTypes
<1>10. WorkerTypes'
  <2>1. [id |-> h.id, status |-> IF h.closed THEN "CLOSED" ELSE "OPENED"]
          \in [id : Nat, status : {"OPENED", "CLOSED"}]
    BY <1>4 DEF Hio
  <2> QED
    BY <1>5, <2>1 DEF SocketInv, TypeOK, WorkerTypes
<1>11. LifeInv'
  BY <1>1, <1>5, <1>7 DEF SocketInv, LifeInv, Conn
<1>12. WatchInv'
  BY <1>1, <1>2, <1>5, <1>7 DEF WatchInv, Unwatched, Cleared, Conn
<1> QED
  BY <1>8, <1>9, <1>10, <1>11, <1>12 DEF SocketInv, TypeOK
-----------------------------------------------------------------------------
(* The socket between connections and workers.                             *)

LEMMA SocketStarts ==
  Init => SocketInv
<1> SUFFICES ASSUME Init PROVE SocketInv
  OBVIOUS
<1>1. HioTypes
  BY BoundsAssumption DEF Init, HioTypes, Event, BoundsAssumption
<1>2. LoopTypes /\ KernelTypes /\ WorkerTypes /\ HistoryTypes
  BY BoundsAssumption DEF Init, LoopTypes, KernelTypes, WorkerTypes, HistoryTypes, Event, BoundsAssumption
<1>3. LifeInv /\ WatchInv
  BY DEF Init, LifeInv, WatchInv, Unwatched, Cleared
<1> QED
  BY <1>1, <1>2, <1>3 DEF SocketInv, TypeOK

LEMMA SocketStep ==
  ASSUME ~Races
  PROVE  SocketInv /\ [Next]_vars => SocketInv'
<1> SUFFICES ASSUME SocketInv, [Next]_vars PROVE SocketInv'
  OBVIOUS
<1>1. CASE Callback
  BY <1>1, SocketByEvents, SocketByHandleWrite, SocketByFailures, SocketByDrain, SocketByClose,
     SocketByDone DEF Callback
<1>2. CASE \E g \in Conn : WorkerStep(g)
  BY <1>2, SocketByChecks, SocketByWrite DEF WorkerStep
<1>3. CASE Accept
  BY <1>3, SocketByAccept
<1>4. CASE KeepaliveTimeout \/ CloseTimeout
  BY <1>4, SocketByFailures
<1>5. CASE PeerReads \/ \E how \in {"eof", "reset"} : PeerLeaves(how)
  BY <1>5, SocketByPeer
<1>6. CASE UNCHANGED vars
  BY <1>6 DEF vars, loopVars, kernelVars, workerVars, historyVars, SocketInv, TypeOK, HioTypes,
              LoopTypes, KernelTypes, WorkerTypes, HistoryTypes, LifeInv, WatchInv, Unwatched, Cleared
<1> QED
  BY <1>1, <1>2, <1>3, <1>4, <1>5, <1>6 DEF Next

LEMMA SocketAlways == ASSUME ~Races PROVE Spec => []SocketInv
BY SocketStarts, SocketStep, PTL DEF Spec

\* As long as no close overtakes a worker that is past its tests every variable
\* keeps its type: what hio_write and nio_write count never goes below zero.
THEOREM TypeCorrect == ASSUME ~Races PROVE Spec => []TypeOK
<1>1. SocketInv => TypeOK
  BY DEF SocketInv
<1> QED
  BY <1>1, SocketAlways, PTL

\* Under the same assumption, and for any connections, frames, queue limit and
\* send buffer, write_bufsize is what is queued (nio.c), so that the limit closes
\* no connection but one whose queue has reached it.
THEOREM ExactCount == ASSUME ~Races PROVE Spec => []BufsizeExact
<1>1. SocketInv => BufsizeExact
  BY DEF SocketInv, WatchInv, BufsizeExact, Live, Cleared, LifeInv
<1> QED
  BY <1>1, SocketAlways, PTL

\* Under the same assumption io->events and what epoll knows agree, and are what the
\* queue and the reader need.
LEMMA Watched == SocketInv => QueueIsWatched /\ NobodyDeaf
<1> SUFFICES ASSUME SocketInv PROVE QueueIsWatched /\ NobodyDeaf
  OBVIOUS
<1>1. Live => ~Unwatched /\ ~Cleared
  BY DEF SocketInv, LifeInv, Live, Unwatched, Cleared
<1> QED
  BY <1>1 DEF SocketInv, WatchInv, QueueIsWatched, NobodyDeaf, Live

\* A queue that is not empty is waited for.
THEOREM ConnectionServed == ASSUME ~Races PROVE Spec => []QueueIsWatched
BY Watched, SocketAlways, PTL

\* A connection that is up is read, whatever a worker has written between the
\* queue's emptying and the clearing of its write event.
THEOREM ConnectionRead == ASSUME ~Races PROVE Spec => []NobodyDeaf
BY Watched, SocketAlways, PTL
-----------------------------------------------------------------------------
(* The stream of bytes.                                                    *)

\* The latest connection alone has the id of the hio_t, and only its worker is
\* past its tests, with a frame it may send.
OwnerInv ==
  /\ \A k \in Conn : chan[k].id = 0 <=> k > latest
  /\ latest # 0 => /\ chan[latest].id = io.id
                   /\ \A k \in Conn \ {latest} : chan[k].id < io.id
  /\ sock # 0 => sock = latest
  /\ \A k \in Conn : /\ pc[k] # "idle" => k = sock
                     /\ pc[k] = "write" => frame[k] \in 1..MaxFrames[k]

\* Whatever leads to hio_close on a connection has been asked for on it.
AskedInv ==
  /\ \A k \in Conn : /\ pc[k] = "post" => asked[k]
                     /\ k > latest => peer[k] = "open"
  /\ \A i \in 1..Len(posted) : /\ posted[i] <= io.id
                               /\ posted[i] = io.id /\ sock # 0 => asked[sock]
  /\ sock # 0 /\ (loop = "close" \/ io.close \/ peer[sock] # "open") => asked[sock]

\* What was taken is what was sent and what is queued.
BytesInv ==
  /\ Live => taken[sock] = wire[sock] \o writeQueue
  /\ \A k \in Conn : k > latest => taken[k] = <<>> /\ wire[k] = <<>>

StreamInv == SocketInv /\ OwnerInv /\ AskedInv /\ BytesInv

\* Cutting a sequence and putting it together again.
LEMMA CutAndJoin ==
  ASSUME NEW w \in Seq(Byte), NEW q \in Seq(Byte), NEW n \in 0..Len(q)
  PROVE  /\ w \o SubSeq(q, 1, n) \in Seq(Byte)
         /\ Len(w \o SubSeq(q, 1, n)) = Len(w) + n
         /\ SubSeq(q, n + 1, Len(q)) \in Seq(Byte)
         /\ (w \o SubSeq(q, 1, n)) \o SubSeq(q, n + 1, Len(q)) = w \o q
<1> DEFINE a == SubSeq(q, 1, n)
           b == SubSeq(q, n + 1, Len(q))
<1>1. a \in Seq(Byte) /\ Len(a) = n /\ b \in Seq(Byte)
  BY SubSeqProperties
<1>2. a \o b = q
  <2>1. 1 \in 1..Len(q) + 1 /\ n \in (1 - 1)..Len(q) /\ Len(q) \in n..Len(q)
    OBVIOUS
  <2>2. a \o b = SubSeq(q, 1, Len(q))
    BY <2>1, ConcatAdjacentSubSeq
  <2> QED
    BY <2>2, SubSeqFull
<1>3. w \o a \in Seq(Byte) /\ Len(w \o a) = Len(w) + n /\ (w \o a) \o b = w \o q
  <2> HIDE DEF a, b
  <2>1. w \o a \in Seq(Byte) /\ Len(w \o a) = Len(w) + Len(a)
    BY <1>1, ConcatProperties
  <2>2. (w \o a) \o b = w \o (a \o b)
    BY <1>1, ConcatAssociative
  <2> QED
    BY <1>1, <1>2, <2>1, <2>2
<1> QED
  BY <1>1, <1>3

LEMMA PrefixOfJoin ==
  ASSUME NEW w \in Seq(Byte), NEW q \in Seq(Byte)
  PROVE  SubSeq(w \o q, 1, Len(w)) = w /\ Len(w) \in 0..Len(w \o q)
<1>1. Len(w \o q) = Len(w) + Len(q) /\ Len(w) \in Nat /\ Len(q) \in Nat
  BY ConcatProperties
<1>2. CASE Len(w) = 0
  <2>1. w = <<>> /\ SubSeq(w \o q, 1, 0) = <<>>
    BY <1>2, SubSeqEmpty
  <2> QED
    BY <1>1, <1>2, <2>1
<1>3. CASE Len(w) # 0
  <2>1. SubSeq(w \o q, 1, Len(w)) = SubSeq(w, 1, Len(w))
    BY <1>1, <1>3, SubSeqOfConcat1
  <2> QED
    BY <1>1, <2>1, SubSeqFull
<1> QED
  BY <1>2, <1>3

\* The state of each connection, as ByteStream sees it.
States == [k \in Conn |-> StateOf(k)]

LEMMA StatesKept ==
  ASSUME \A k \in Conn : chan'[k].id = chan[k].id,
         sock' = sock, io'.closed = io.closed
  PROVE  States' = States
BY DEF States, StateOf

\* A frame taken is a step of the stream, and so are bytes sent on.
LEMMA TakeStep ==
  ASSUME NEW g \in Conn, NEW m \in 1..MaxFrames[g], NEW w \in Seq(Byte), NEW q \in Seq(Byte),
         HistoryTypes, StateOf(g) = "up", States' = States, UNCHANGED asked,
         taken' = [taken EXCEPT ![g] = @ \o FrameOf(g, m)],
         wire' = [wire EXCEPT ![g] = w], taken'[g] = w \o q, Len(w) >= Len(wire[g])
  PROVE  Stream!Next
<1>1. wire'[g] = w /\ taken'[g] = w \o q
  BY DEF HistoryTypes
<1>2. wire' = [wire EXCEPT ![g] = SubSeq(taken'[g], 1, Len(w))] /\ Len(w) \in 0..Len(taken'[g])
  BY <1>1, PrefixOfJoin
<1>3. FrameOf(g, m) \in UNION {{FrameOf(k, j) : j \in 1..MaxFrames[k]} : k \in Conn}
  OBVIOUS
<1>4. States[g] = "up"
  BY DEF States
<1>5. Stream!Take(g)
  BY <1>1, <1>2, <1>3, <1>4 DEF Stream!Take, States
<1> QED
  BY <1>5 DEF Stream!Next

LEMMA DeliverStep ==
  ASSUME NEW g \in Conn, NEW w \in Seq(Byte), NEW q \in Seq(Byte),
         HistoryTypes, StateOf(g) = "up", States' = States, UNCHANGED <<taken, asked>>,
         wire' = [wire EXCEPT ![g] = w], taken[g] = w \o q, Len(w) > Len(wire[g])
  PROVE  Stream!Next
<1>1. wire' = [wire EXCEPT ![g] = SubSeq(taken[g], 1, Len(w))]
  BY PrefixOfJoin
<1>2. wire[g] \in Seq(Byte) /\ Len(wire[g]) \in Nat
  BY DEF HistoryTypes
<1>3. Len(w) \in (Len(wire[g]) + 1)..Len(taken[g])
  BY <1>2, PrefixOfJoin
<1>4. States[g] = "up"
  BY DEF States
<1>5. Stream!Deliver(g)
  BY <1>1, <1>3, <1>4 DEF Stream!Deliver, States
<1> QED
  BY <1>5 DEF Stream!Next

LEMMA AskStep ==
  ASSUME NEW g \in Conn, StateOf(g) = "up", States' = States, UNCHANGED <<taken, wire>>,
         asked' = [asked EXCEPT ![g] = TRUE]
  PROVE  Stream!Next
<1>1. States[g] = "up"
  BY DEF States
<1>2. Stream!Ask(g)
  BY <1>1 DEF Stream!Ask, States
<1> QED
  BY <1>2 DEF Stream!Next

LEMMA Stutters ==
  ASSUME States' = States, UNCHANGED historyVars
  PROVE  UNCHANGED Stream!vars
BY DEF Stream!vars, States, historyVars

\* A connection whose socket is open and whose hio_t is not closed is up.
LEMMA UpWhenLive ==
  ASSUME StreamInv, Live
  PROVE  sock \in Conn /\ sock = latest /\ StateOf(sock) = "up"
<1>1. sock \in Conn /\ sock = latest
  BY DEF StreamInv, SocketInv, TypeOK, KernelTypes, OwnerInv, Live, Conn
<1>2. chan[sock].id # 0
  BY <1>1, BoundsAssumption DEF StreamInv, OwnerInv, Conn, BoundsAssumption
<1> QED
  BY <1>1, <1>2 DEF StateOf, Live

\* Steps of the loop outside hio_close that neither send nor change a state:
\* what makes them begin a close has been asked for.
LEMMA StreamByEvents ==
  ASSUME StreamInv, Poll \/ ReadEventfd \/ RunPosted \/ EventsRun \/ HandleRead \/ DrainError
                    \/ HandleWrite
  PROVE  OwnerInv' /\ AskedInv' /\ BytesInv' /\ UNCHANGED Stream!vars
<1> USE DEF kernelVars, workerVars, historyVars
<1>1. /\ UNCHANGED <<writeQueue, sock, peer, latest, chan, pc, frame, wire, taken, asked>>
      /\ io \in Hio /\ posted \in Seq(Nat)
  BY TypesOfHio DEF Poll, ReadEventfd, RunPosted, EventsRun, HandleRead, DrainError, HandleWrite,
                    StreamInv, SocketInv, TypeOK, LoopTypes
<1>2. io'.id = io.id /\ io'.closed = io.closed /\ io'.close = io.close
  BY <1>1 DEF Poll, ReadEventfd, RunPosted, EventsRun, HandleRead, DrainError, HandleWrite, HioDel, Hio
<1>3. OwnerInv'
  BY <1>1, <1>2 DEF StreamInv, OwnerInv
<1>4. BytesInv'
  BY <1>1, <1>2 DEF StreamInv, BytesInv, Live
<1>5. UNCHANGED Stream!vars
  BY <1>1, <1>2, StatesKept, Stutters
<1>6. \A i \in 1..Len(posted') : /\ posted'[i] <= io.id
                                 /\ posted'[i] = io.id /\ sock # 0 => asked[sock]
  <2>1. CASE posted' = posted
    BY <2>1 DEF StreamInv, AskedInv
  <2>2. CASE RunPosted
    <3>1. posted # <<>> /\ posted' = Tail(posted)
      BY <2>2 DEF RunPosted
    <3>2. /\ Len(posted') = Len(posted) - 1 /\ Len(posted) \in Nat
          /\ \A i \in 1..Len(posted') : posted'[i] = posted[i + 1]
      BY <1>1, <3>1, HeadTailProperties
    <3>3. \A i \in 1..Len(posted') : i + 1 \in 1..Len(posted)
      BY <3>2
    <3> QED
      BY <3>2, <3>3 DEF StreamInv, AskedInv
  <2> QED
    BY <2>1, <2>2 DEF Poll, ReadEventfd, EventsRun, HandleRead, DrainError, HandleWrite
<1>7. sock # 0 /\ loop' = "close" => asked[sock]
  <2>1. CASE RunPosted
    <3>1. posted # <<>> /\ (loop' = "close" => Head(posted) = io.id)
      BY <2>1 DEF RunPosted
    <3>2. 1 \in 1..Len(posted) /\ Head(posted) = posted[1]
      BY <1>1, <3>1
    <3> QED
      BY <3>1, <3>2 DEF StreamInv, AskedInv
  <2>2. CASE HandleRead
    BY <2>2 DEF HandleRead, StreamInv, AskedInv
  <2>3. CASE DrainError
    BY <2>3 DEF DrainError, SendFails, StreamInv, AskedInv
  <2>4. CASE Poll \/ ReadEventfd \/ EventsRun \/ HandleWrite
    BY <2>4 DEF Poll, ReadEventfd, EventsRun, HandleWrite
  <2> QED
    BY <2>1, <2>2, <2>3, <2>4
<1>8. AskedInv'
  BY <1>1, <1>2, <1>6, <1>7 DEF StreamInv, AskedInv
<1> QED
  BY <1>3, <1>4, <1>5, <1>8

\* A timer that ends a connection counts as asking, and so does its peer.
LEMMA StreamByOthers ==
  ASSUME StreamInv, \/ KeepaliveTimeout \/ CloseTimeout \/ PeerReads
                    \/ \E how \in {"eof", "reset"} : PeerLeaves(how)
  PROVE  OwnerInv' /\ AskedInv' /\ BytesInv' /\ [Stream!Next]_(Stream!vars)
<1> USE DEF kernelVars, workerVars, historyVars, loopVars
<1>1. /\ UNCHANGED <<writeQueue, posted, sock, latest, chan, pc, frame, wire, taken>>
      /\ io \in Hio
  BY TypesOfHio DEF KeepaliveTimeout, CloseTimeout, PeerReads, PeerLeaves, StreamInv, SocketInv, TypeOK
<1>2. io'.id = io.id /\ io'.closed = io.closed /\ io'.close = io.close
  BY <1>1 DEF KeepaliveTimeout, CloseTimeout, PeerReads, PeerLeaves, Hio
<1>3. OwnerInv'
  BY <1>1, <1>2 DEF StreamInv, OwnerInv
<1>4. BytesInv'
  BY <1>1, <1>2 DEF StreamInv, BytesInv, Live
<1>5. States' = States
  BY <1>1, <1>2, StatesKept
<1>6. CASE CloseTimeout \/ PeerReads
  <2>1. UNCHANGED <<asked, peer>>
    BY <1>6 DEF CloseTimeout, PeerReads
  <2>2. loop' = "close" => loop = "close" \/ io.close
    BY <1>6 DEF CloseTimeout, PeerReads
  <2>3. AskedInv'
    BY <1>1, <1>2, <2>1, <2>2 DEF StreamInv, AskedInv
  <2> QED
    BY <1>1, <1>3, <1>4, <1>5, <2>1, <2>3, Stutters
<1>7. CASE KeepaliveTimeout \/ \E how \in {"eof", "reset"} : PeerLeaves(how)
  <2>1. Live /\ asked' = [asked EXCEPT ![sock] = TRUE]
    BY <1>7 DEF KeepaliveTimeout, PeerLeaves
  <2>2. sock \in Conn /\ sock = latest /\ StateOf(sock) = "up"
    BY <2>1, UpWhenLive
  <2>3. asked'[sock] /\ \A k \in Conn : asked[k] => asked'[k]
    BY <2>1, <2>2 DEF StreamInv, SocketInv, TypeOK, HistoryTypes
  <2>4. \A k \in Conn : k > latest => peer'[k] = peer[k]
    <3>1. peer' = peer \/ \E how : peer' = [peer EXCEPT ![sock] = how]
      BY <1>7 DEF KeepaliveTimeout, PeerLeaves
    <3>2. \A k \in Conn : k > latest => k # sock
      BY <2>2 DEF Conn
    <3> QED
      BY <3>1, <3>2 DEF StreamInv, SocketInv, TypeOK, KernelTypes
  <2>5. AskedInv'
    BY <1>1, <1>2, <2>3, <2>4 DEF StreamInv, AskedInv
  <2>6. Stream!Next
    BY <1>1, <1>5, <2>1, <2>2, AskStep
  <2> QED
    BY <1>3, <1>4, <2>5, <2>6
<1> QED
  BY <1>6, <1>7

\* A worker that passes its tests serves the connection the descriptor is.
LEMMA StreamByChecks ==
  ASSUME StreamInv, NEW g \in Conn, WriteCheck(g) \/ CloseCheck(g) \/ PostClose(g)
  PROVE  OwnerInv' /\ AskedInv' /\ BytesInv' /\ [Stream!Next]_(Stream!vars)
<1> USE DEF kernelVars, historyVars, loopVars
<1>0. /\ chan \in [Conn -> [id : Nat, status : {"OPENED", "CLOSED"}]]
      /\ pc \in [Conn -> {"idle", "write", "post"}] /\ frame \in [Conn -> Nat] /\ latest \in 0..MaxConn
      /\ io.id \in Nat
  BY DEF StreamInv, SocketInv, TypeOK, WorkerTypes, KernelTypes, HioTypes
<1>1. /\ UNCHANGED <<io, writeQueue, sock, peer, latest, loop, wire, taken>>
      /\ \A k \in Conn : chan'[k].id = chan[k].id
      /\ \A k \in Conn \ {g} : pc'[k] = pc[k] /\ frame'[k] = frame[k]
  <2>1. UNCHANGED <<io, writeQueue, sock, peer, latest, loop, wire, taken>>
    BY DEF WriteCheck, CloseCheck, PostClose
  <2>2. \A k \in Conn : chan'[k].id = chan[k].id
    <3>1. chan' = chan \/ chan' = [chan EXCEPT ![g] = [chan[g] EXCEPT !.status = "CLOSED"]]
      BY DEF WriteCheck, CloseCheck, PostClose
    <3>2. [chan[g] EXCEPT !.status = "CLOSED"].id = chan[g].id
      BY <1>0
    <3> QED
      BY <1>0, <3>1, <3>2
  <2>3. \A k \in Conn \ {g} : pc'[k] = pc[k] /\ frame'[k] = frame[k]
    BY <1>0 DEF WriteCheck, CloseCheck, PostClose
  <2> QED
    BY <2>1, <2>2, <2>3
<1>2. IsOpened(g) => sock # 0 /\ g = sock /\ Live
  <2>1. io.ready /\ ~io.closed => sock # 0 /\ sock = latest /\ Live
    BY DEF StreamInv, SocketInv, LifeInv, OwnerInv, Live
  <2>2. chan[g].id = io.id /\ latest # 0 => g = latest
    BY DEF StreamInv, SocketInv, TypeOK, HioTypes, OwnerInv
  <2> QED
    BY <2>1, <2>2 DEF IsOpened
<1>3. pc'[g] # "idle" => g = sock
  BY <1>2 DEF WriteCheck, CloseCheck, PostClose, StreamInv, SocketInv, TypeOK, WorkerTypes
<1>4. pc'[g] = "write" => frame'[g] \in 1..MaxFrames[g]
  BY BoundsAssumption DEF WriteCheck, CloseCheck, PostClose, StreamInv, SocketInv, TypeOK, WorkerTypes,
                          Conn, BoundsAssumption
<1>5. OwnerInv'
  <2>1. latest # 0 => latest \in Conn
    BY <1>0 DEF Conn
  <2>2. \A k \in Conn : chan'[k].id = 0 <=> k > latest'
    BY <1>1 DEF StreamInv, OwnerInv
  <2>3. latest' # 0 => /\ chan'[latest'].id = io'.id
                       /\ \A k \in Conn \ {latest'} : chan'[k].id < io'.id
    BY <1>1, <2>1 DEF StreamInv, OwnerInv
  <2>4. sock' # 0 => sock' = latest'
    BY <1>1 DEF StreamInv, OwnerInv
  <2>5. \A k \in Conn : /\ pc'[k] # "idle" => k = sock'
                        /\ pc'[k] = "write" => frame'[k] \in 1..MaxFrames[k]
    BY <1>1, <1>3, <1>4 DEF StreamInv, OwnerInv
  <2> QED
    BY <2>2, <2>3, <2>4, <2>5 DEF OwnerInv
<1>6. BytesInv'
  BY <1>1 DEF StreamInv, BytesInv, Live
<1>7. States' = States
  BY <1>1, StatesKept
<1>8. CASE WriteCheck(g)
  <2>1. UNCHANGED <<asked, posted>> /\ pc'[g] # "post"
    BY <1>8 DEF WriteCheck, StreamInv, SocketInv, TypeOK, WorkerTypes
  <2>2. AskedInv'
    BY <1>1, <2>1 DEF StreamInv, AskedInv
  <2> QED
    BY <1>1, <1>5, <1>6, <1>7, <2>1, <2>2, Stutters
<1>9. CASE CloseCheck(g)
  <2>1. IsOpened(g) /\ UNCHANGED posted /\ asked' = [asked EXCEPT ![g] = TRUE]
    BY <1>9 DEF CloseCheck
  <2>2. asked'[g] /\ \A k \in Conn : asked[k] => asked'[k]
    BY <2>1 DEF StreamInv, SocketInv, TypeOK, HistoryTypes
  <2>3. sock # 0 => sock \in Conn
    BY <1>2, <2>1
  <2>4. AskedInv'
    BY <1>1, <2>1, <2>2, <2>3 DEF StreamInv, AskedInv
  <2>5. Stream!Next
    BY <1>1, <1>2, <1>7, <2>1, UpWhenLive, AskStep
  <2> QED
    BY <1>5, <1>6, <2>4, <2>5
<1>10. CASE PostClose(g)
  <2>1. /\ UNCHANGED asked /\ posted' = Append(posted, io.id) /\ pc[g] = "post" /\ pc'[g] # "post"
        /\ posted \in Seq(Nat) /\ io.id \in Nat
    BY <1>10 DEF PostClose, StreamInv, SocketInv, TypeOK, WorkerTypes, LoopTypes, HioTypes
  <2>2. g = sock /\ asked[g]
    BY <2>1 DEF StreamInv, OwnerInv, AskedInv
  <2>3. \A i \in 1..Len(posted') : posted'[i] = io.id \/ (i \in 1..Len(posted) /\ posted'[i] = posted[i])
    BY <2>1
  <2>4. AskedInv'
    BY <1>1, <2>1, <2>2, <2>3 DEF StreamInv, AskedInv
  <2> QED
    BY <1>1, <1>5, <1>6, <1>7, <2>1, <2>4, Stutters
<1> QED
  BY <1>8, <1>9, <1>10

\* What a worker writes goes to its own connection, or into its queue.
LEMMA StreamByWrite ==
  ASSUME StreamInv, NEW g \in Conn, LockedWrite(g)
  PROVE  OwnerInv' /\ AskedInv' /\ BytesInv' /\ [Stream!Next]_(Stream!vars)
<1> USE DEF loopVars
<1> DEFINE m == frame[g]
           f == FrameOf(g, m)
<1>1. /\ io \in Hio /\ writeQueue \in Seq(Byte) /\ HistoryTypes /\ latest \in 0..MaxConn
      /\ inFlight \in 0..Room /\ FrameLen \in Nat
      /\ pc \in [Conn -> {"idle", "write", "post"}] /\ frame \in [Conn -> Nat]
  BY TypesOfHio, BoundsAssumption
  DEF StreamInv, SocketInv, TypeOK, KernelTypes, WorkerTypes, BoundsAssumption
<1>2. /\ UNCHANGED <<posted, loop, sock, peer, latest, chan, frame>> /\ pc[g] = "write"
      /\ WriteError(g) \/ WriteDirect(g, f) \/ WriteEnqueue(g, f) \/ WriteOverflow(g)
  BY DEF LockedWrite
<1>3. io.ready /\ ~io.closed /\ g = sock /\ m \in 1..MaxFrames[g]
  BY <1>2 DEF StreamInv, SocketInv, LifeInv, OwnerInv
<1>4. sock # 0 /\ Live
  BY <1>3 DEF StreamInv, SocketInv, LifeInv, Live
<1>5. StateOf(g) = "up" /\ g = latest
  BY <1>3, <1>4, UpWhenLive
<1>6. f \in Seq(Byte) /\ Len(f) = FrameLen
  BY <1>1, FrameIsBytes
<1>7. io'.id = io.id /\ io'.closed = io.closed /\ io'.close = io.close
  <2>1. CASE WriteError(g) \/ WriteDirect(g, f) \/ WriteOverflow(g)
    BY <1>1, <2>1 DEF WriteError, WriteDirect, WriteOverflow, Hio
  <2>2. CASE WriteEnqueue(g, f)
    <3> DEFINE h == IF writeQueue = <<>> THEN HioAdd(io, {"W"}) ELSE io
    <3>1. PICK n : io' = [h EXCEPT !.bufsize = @ + FrameLen - n]
      BY <2>2 DEF WriteEnqueue
    <3>2. h \in Hio /\ h.id = io.id /\ h.closed = io.closed /\ h.close = io.close
      <4>1. "W" \in Event
        BY DEF Event
      <4>2. HioAdd(io, {"W"}) = [io EXCEPT !.active = TRUE, !.events = @ \cup {"W"}]
            /\ HioAdd(io, {"W"}) \in Hio
        BY <1>1, <1>3, <4>1, ReadyHio
      <4>3. CASE h = io
        BY <1>1, <4>3
      <4>4. CASE h = HioAdd(io, {"W"})
        BY <1>1, <4>2, <4>4 DEF Hio
      <4> QED
        BY <4>3, <4>4
    <3> HIDE DEF h
    <3> QED
      BY <3>1, <3>2 DEF Hio
  <2> QED
    BY <1>2, <2>1, <2>2
<1>8. States' = States
  BY <1>2, <1>7, StatesKept
<1>9. pc' = [pc EXCEPT ![g] = "post"] \/ pc' = [pc EXCEPT ![g] = "idle"]
  BY <1>2 DEF WriteError, WriteDirect, WriteEnqueue, WriteOverflow
<1>10. OwnerInv'
  BY <1>1, <1>2, <1>3, <1>7, <1>9 DEF StreamInv, OwnerInv
<1>11. ASSUME \A k \in Conn : asked[k] => asked'[k], pc'[g] = "post" => asked'[g]
       PROVE  AskedInv'
  BY <1>1, <1>2, <1>3, <1>7, <1>9, <1>11 DEF StreamInv, AskedInv
<1>12. CASE WriteError(g)
  <2>1. SendFails /\ UNCHANGED <<writeQueue, wire, taken, asked>>
    BY <1>12 DEF WriteError
  <2>2. asked[g]
    BY <1>3, <1>4, <2>1 DEF SendFails, StreamInv, AskedInv
  <2>3. BytesInv'
    BY <1>2, <1>7, <2>1 DEF StreamInv, BytesInv, Live
  <2> QED
    BY <1>8, <1>10, <1>11, <2>1, <2>2, <2>3, Stutters DEF historyVars
<1>13. CASE WriteOverflow(g)
  <2>1. UNCHANGED <<writeQueue, wire, taken>> /\ asked' = [asked EXCEPT ![g] = TRUE]
    BY <1>13 DEF WriteOverflow
  <2>2. asked'[g] /\ \A k \in Conn : asked[k] => asked'[k]
    BY <1>1, <2>1 DEF HistoryTypes
  <2>3. BytesInv'
    BY <1>2, <1>7, <2>1 DEF StreamInv, BytesInv, Live
  <2>4. Stream!Next
    BY <1>5, <1>8, <2>1, AskStep
  <2> QED
    BY <1>10, <1>11, <2>2, <2>3, <2>4
<1>14. ASSUME NEW w \in Seq(Byte), NEW q \in Seq(Byte),
              wire' = [wire EXCEPT ![g] = w], taken' = [taken EXCEPT ![g] = @ \o f],
              writeQueue' = q, taken[g] \o f = w \o q, Len(w) >= Len(wire[g]),
              UNCHANGED asked, pc' = [pc EXCEPT ![g] = "idle"]
       PROVE  OwnerInv' /\ AskedInv' /\ BytesInv' /\ Stream!Next
  <2>1. taken'[g] = w \o q /\ wire'[g] = w
    BY <1>1, <1>14 DEF HistoryTypes
  <2>2. \A k \in Conn : k > latest => taken'[k] = taken[k] /\ wire'[k] = wire[k]
    BY <1>1, <1>5, <1>14 DEF HistoryTypes, Conn
  <2>3. BytesInv'
    BY <1>2, <1>3, <1>14, <2>1, <2>2 DEF StreamInv, BytesInv
  <2>4. Stream!Next
    BY <1>1, <1>3, <1>5, <1>8, <1>14, <2>1, TakeStep
  <2>5. AskedInv'
    BY <1>1, <1>11, <1>14
  <2> QED
    BY <1>10, <2>3, <2>4, <2>5
<1>15. wire[g] \in Seq(Byte) /\ taken[g] \in Seq(Byte) /\ taken[g] = wire[g] \o writeQueue
  BY <1>1, <1>3, <1>4 DEF HistoryTypes, StreamInv, BytesInv
<1>16. ASSUME NEW n \in 0..FrameLen, writeQueue = <<>>, Sent(f, n),
              writeQueue' = SubSeq(f, n + 1, FrameLen), taken' = [taken EXCEPT ![g] = @ \o f],
              UNCHANGED asked, pc' = [pc EXCEPT ![g] = "idle"]
       PROVE  OwnerInv' /\ AskedInv' /\ BytesInv' /\ Stream!Next
  <2> DEFINE w == wire[g] \o SubSeq(f, 1, n)
             q == SubSeq(f, n + 1, FrameLen)
  <2>1. w \in Seq(Byte) /\ q \in Seq(Byte) /\ w \o q = wire[g] \o f /\ Len(w) = Len(wire[g]) + n
    BY <1>6, <1>15, CutAndJoin
  <2>2. taken[g] = wire[g]
    BY <1>15, <1>16, ConcatEmptySeq
  <2>3. wire' = [wire EXCEPT ![g] = w]
    <3>1. CASE n = 0
      <4>1. w = wire[g]
        BY <1>15, <3>1, SubSeqEmpty, ConcatEmptySeq
      <4> QED
        BY <1>1, <1>16, <3>1, <4>1 DEF Sent, HistoryTypes
    <3>2. CASE n # 0
      BY <1>3, <1>16, <3>2 DEF Sent
    <3> QED
      BY <3>1, <3>2
  <2>4. Len(w) >= Len(wire[g])
    <3>1. Len(wire[g]) \in Nat /\ n \in Nat
      BY <1>1, <1>15
    <3> HIDE DEF w
    <3> QED
      BY <2>1, <3>1
  <2> HIDE DEF w
  <2> QED
    BY <1>14, <1>16, <2>1, <2>2, <2>3, <2>4
<1>17. CASE WriteDirect(g, f)
  <2>1. /\ writeQueue = <<>> /\ Sent(f, FrameLen) /\ UNCHANGED <<writeQueue, asked>>
        /\ taken' = [taken EXCEPT ![g] = @ \o f] /\ pc' = [pc EXCEPT ![g] = "idle"]
    BY <1>17 DEF WriteDirect
  <2>2. SubSeq(f, FrameLen + 1, FrameLen) = <<>>
    BY <1>1, SubSeqEmpty
  <2> QED
    BY <1>1, <1>16, <2>1, <2>2
<1>18. CASE WriteEnqueue(g, f)
  <2> DEFINE n == IF writeQueue = <<>> THEN Sendable(FrameLen) ELSE 0
  <2>1. /\ writeQueue' = writeQueue \o SubSeq(f, n + 1, FrameLen)
        /\ Sent(f, n) /\ UNCHANGED asked
        /\ taken' = [taken EXCEPT ![g] = @ \o f] /\ pc' = [pc EXCEPT ![g] = "idle"]
    BY <1>18 DEF WriteEnqueue
  <2>2. n \in 0..FrameLen
    <3>1. inFlight \in 0..Room /\ FrameLen \in Nat
      BY <1>1
    <3>2. Sendable(FrameLen) \in Nat /\ Sendable(FrameLen) <= FrameLen
      BY <3>1, SendableBounds
    <3> QED
      BY <3>1, <3>2
  <2>3. CASE writeQueue = <<>>
    <3>1. SubSeq(f, n + 1, FrameLen) \in Seq(Byte)
      BY <1>6, <1>15, <2>2, CutAndJoin
    <3>2. writeQueue' = SubSeq(f, n + 1, FrameLen)
      BY <2>1, <2>3, <3>1, ConcatEmptySeq
    <3> HIDE DEF n
    <3> QED
      BY <1>16, <2>1, <2>2, <2>3, <3>2
  <2>4. CASE writeQueue # <<>>
    <3>1. writeQueue' = writeQueue \o f /\ wire' = wire
      BY <1>6, <2>1, <2>4, SubSeqFull DEF Sent
    <3>2. writeQueue \o f \in Seq(Byte)
      BY <1>1, <1>6, ConcatProperties
    <3>3. taken[g] \o f = wire[g] \o (writeQueue \o f)
      <4>1. \A a, b, c \in Seq(Byte) : (a \o b) \o c = a \o (b \o c)
        BY ConcatAssociative
      <4>2. wire[g] \in Seq(Byte) /\ writeQueue \in Seq(Byte) /\ f \in Seq(Byte)
        BY <1>1, <1>6, <1>15
      <4> HIDE DEF f
      <4>3. (wire[g] \o writeQueue) \o f = wire[g] \o (writeQueue \o f)
        BY <4>1, <4>2, Zenon
      <4> QED
        BY <1>15, <4>3, Zenon
    <3>4. wire' = [wire EXCEPT ![g] = wire[g]] /\ Len(wire[g]) \in Nat
      BY <1>1, <1>15, <3>1 DEF HistoryTypes
    <3> DEFINE w == wire[g]
               q == writeQueue \o f
    <3>5. /\ w \in Seq(Byte) /\ q \in Seq(Byte) /\ wire' = [wire EXCEPT ![g] = w]
          /\ writeQueue' = q /\ taken[g] \o f = w \o q /\ Len(w) >= Len(wire[g])
      <4>1. Len(w) >= Len(wire[g])
        BY <3>4
      <4> QED
        BY <1>15, <3>1, <3>2, <3>3, <3>4, <4>1, Zenon
    <3> HIDE DEF w, q
    <3> QED
      BY <1>14, <2>1, <3>5
  <2> QED
    BY <2>3, <2>4
<1> QED
  BY <1>2, <1>12, <1>13, <1>17, <1>18

\* nio_write sends on what was taken, and takes up a close that was asked for.
LEMMA StreamByDrain ==
  ASSUME StreamInv, Drain
  PROVE  OwnerInv' /\ AskedInv' /\ BytesInv' /\ [Stream!Next]_(Stream!vars)
<1> USE DEF workerVars
<1> DEFINE n == IF writeQueue = <<>> THEN 0 ELSE Sendable(Len(writeQueue))
<1>1. /\ io \in Hio /\ writeQueue \in Seq(Byte) /\ HistoryTypes /\ Len(writeQueue) \in Nat
      /\ inFlight \in 0..Room /\ latest \in 0..MaxConn
  BY TypesOfHio DEF StreamInv, SocketInv, TypeOK, KernelTypes
<1>2. /\ UNCHANGED <<posted, poll, sock, peer, latest, chan, pc, frame, taken, asked>>
      /\ loop = "drain"
      /\ Sent(writeQueue, n)
      /\ writeQueue' = SubSeq(writeQueue, n + 1, Len(writeQueue))
      /\ io' = [io EXCEPT !.bufsize = @ - n, !.revents = {}, !.close = @ /\ n < Len(writeQueue)]
      /\ loop' = "close" => io.close
  BY DEF Drain
<1>3. n \in 0..Len(writeQueue)
  <2>1. CASE writeQueue = <<>>
    BY <1>1, <2>1
  <2>2. CASE writeQueue # <<>>
    BY <1>1, <2>2, SendableBounds
  <2> QED
    BY <2>1, <2>2
<1>4. io'.id = io.id /\ io'.closed = io.closed /\ (io'.close => io.close)
  <2> HIDE DEF n
  <2> QED
    BY <1>1, <1>2 DEF Hio
<1>5. OwnerInv'
  BY <1>2, <1>4 DEF StreamInv, OwnerInv
<1>6. AskedInv'
  BY <1>2, <1>4 DEF StreamInv, AskedInv
<1>7. States' = States
  BY <1>2, <1>4, StatesKept
<1>8. CASE writeQueue = <<>>
  <2>1. wire' = wire /\ n = 0
    BY <1>2, <1>8 DEF Sent
  <2>2. writeQueue' = <<>>
    BY <1>1, <1>2, <1>8, <2>1, SubSeqEmpty
  <2>3. BytesInv'
    BY <1>2, <1>4, <1>8, <2>1, <2>2 DEF StreamInv, BytesInv, Live
  <2> QED
    BY <1>2, <1>5, <1>6, <1>7, <2>1, <2>3, Stutters DEF historyVars
<1>9. CASE writeQueue # <<>>
  <2> DEFINE w == wire[sock] \o SubSeq(writeQueue, 1, n)
             q == SubSeq(writeQueue, n + 1, Len(writeQueue))
  <2>1. sock # 0 /\ Live
    <3>1. sock # 0
      BY <1>9 DEF StreamInv, SocketInv, WatchInv, Cleared
    <3>2. ~io.closed
      BY <1>2, <3>1 DEF StreamInv, SocketInv, LifeInv
    <3> QED
      BY <3>1, <3>2 DEF Live
  <2>2. sock \in Conn /\ sock = latest /\ StateOf(sock) = "up"
    BY <2>1, UpWhenLive
  <2>3. wire[sock] \in Seq(Byte) /\ taken[sock] = wire[sock] \o writeQueue
    BY <1>1, <2>1, <2>2 DEF HistoryTypes, StreamInv, BytesInv
  <2>4. w \in Seq(Byte) /\ q \in Seq(Byte) /\ w \o q = taken[sock] /\ Len(w) = Len(wire[sock]) + n
    BY <1>1, <1>3, <2>3, CutAndJoin
  <2>5. wire' = [wire EXCEPT ![sock] = w] /\ (n = 0 => wire' = wire)
    <3>1. CASE n = 0
      <4>1. SubSeq(writeQueue, 1, 0) = <<>>
        BY SubSeqEmpty
      <4>2. w = wire[sock]
        BY <2>3, <3>1, <4>1, ConcatEmptySeq
      <4>3. wire' = wire
        BY <1>2, <3>1 DEF Sent
      <4> QED
        BY <1>1, <4>2, <4>3 DEF HistoryTypes
    <3>2. CASE n # 0
      BY <1>2, <3>2 DEF Sent
    <3> QED
      BY <3>1, <3>2
  <2>6. wire'[sock] = w /\ \A k \in Conn : k > latest => wire'[k] = wire[k]
    <3>1. \A k \in Conn : k > latest => k # sock
      BY <2>2 DEF Conn
    <3> HIDE DEF w
    <3> QED
      BY <1>1, <2>2, <2>5, <3>1 DEF HistoryTypes
  <2>7. BytesInv'
    BY <1>2, <2>4, <2>6 DEF StreamInv, BytesInv
  <2>8. CASE n = 0
    BY <1>2, <1>5, <1>6, <1>7, <2>5, <2>7, <2>8, Stutters DEF historyVars
  <2>9. CASE n # 0
    <3>1. Len(w) > Len(wire[sock])
      <4>1. Len(wire[sock]) \in Nat /\ n \in Nat
        BY <1>3, <2>3
      <4> HIDE DEF w, n
      <4> QED
        BY <2>4, <2>9, <4>1
    <3> HIDE DEF w, q
    <3>2. Stream!Next
      BY <1>1, <1>2, <1>7, <2>2, <2>4, <2>5, <3>1, DeliverStep
    <3> QED
      BY <1>5, <1>6, <2>7, <3>2
  <2> QED
    BY <2>8, <2>9
<1> QED
  BY <1>8, <1>9

\* hio_close closes what has been asked for, and the rest of it is not seen.
LEMMA StreamByClose ==
  ASSUME StreamInv, HioClose \/ HioDone \/ HioDelAll \/ ClearQueue \/ CloseSocket
  PROVE  OwnerInv' /\ AskedInv' /\ BytesInv' /\ [Stream!Next]_(Stream!vars)
<1> USE DEF kernelVars, workerVars, historyVars
<1>1. /\ io \in Hio /\ HistoryTypes /\ latest \in 0..MaxConn
      /\ chan \in [Conn -> [id : Nat, status : {"OPENED", "CLOSED"}]]
      /\ back \in {"poll", "custom", "watch"}
  BY TypesOfHio DEF StreamInv, SocketInv, TypeOK, KernelTypes, WorkerTypes, LoopTypes
<1>2. UNCHANGED <<posted, peer, latest, pc, frame, wire, taken, asked>>
  BY DEF HioClose, HioDone, HioDelAll, ClearQueue, CloseSocket
<1>3. io'.id = io.id
  BY <1>1 DEF HioClose, HioDone, HioDelAll, ClearQueue, CloseSocket, HioDel, Hio
<1>4. loop' # "close"
  BY <1>1 DEF HioClose, HioDone, HioDelAll, ClearQueue, CloseSocket
<1>5. CASE HioClose
  <2>1. UNCHANGED <<writeQueue, sock, chan>> /\ loop = "close"
    BY <1>5 DEF HioClose
  <2>2. OwnerInv'
    BY <1>2, <1>3, <2>1 DEF StreamInv, OwnerInv
  <2>3. AskedInv'
    BY <1>2, <1>3, <1>4, <2>1 DEF StreamInv, AskedInv
  <2>4. io'.closed = io.closed \/ (io' = [io EXCEPT !.closed = TRUE] /\ ~io.closed)
    BY <1>1, <1>5 DEF HioClose, Hio
  <2>5. CASE io'.closed = io.closed
    <3>1. BytesInv'
      BY <1>2, <2>1, <2>5 DEF StreamInv, BytesInv, Live
    <3> QED
      BY <1>2, <2>1, <2>2, <2>3, <2>5, <3>1, StatesKept, Stutters
  <2>6. CASE io' = [io EXCEPT !.closed = TRUE] /\ ~io.closed
    <3>1. io'.closed
      BY <1>1, <2>6 DEF Hio
    <3>2. BytesInv'
      BY <1>2, <2>1, <3>1 DEF StreamInv, BytesInv, Live
    <3>3. CASE sock = 0
      <4>1. States' = States
        BY <2>1, <3>3 DEF States, StateOf, Conn
      <4> QED
        BY <1>2, <2>2, <2>3, <3>2, <4>1, Stutters
    <3>4. CASE sock # 0
      <4>1. sock \in Conn /\ StateOf(sock) = "up" /\ chan[sock].id # 0
        BY <2>6, <3>4, UpWhenLive DEF Live, StateOf
      <4>2. asked[sock]
        BY <2>1, <3>4 DEF StreamInv, AskedInv
      <4>3. States' = [States EXCEPT ![sock] = "down"]
        BY <2>1, <3>1, <4>1 DEF States, StateOf
      <4>4. States[sock] = "up"
        BY <4>1 DEF States
      <4>5. Stream!Close(sock)
        BY <1>2, <4>2, <4>3, <4>4 DEF Stream!Close, States
      <4> QED
        BY <2>2, <2>3, <3>2, <4>1, <4>5 DEF Stream!Next
    <3> QED
      BY <3>3, <3>4
  <2> QED
    BY <2>4, <2>5, <2>6
<1>6. CASE HioDone \/ HioDelAll \/ ClearQueue
  <2>1. UNCHANGED <<sock, chan>>
    BY <1>6 DEF HioDone, HioDelAll, ClearQueue
  <2>2. io.closed /\ io'.closed = io.closed /\ io'.close = io.close
    BY <1>1, <1>6 DEF HioDone, HioDelAll, ClearQueue, HioDel, Hio, StreamInv, SocketInv, LifeInv
  <2>3. OwnerInv'
    BY <1>2, <1>3, <2>1 DEF StreamInv, OwnerInv
  <2>4. AskedInv'
    BY <1>2, <1>3, <1>4, <2>1, <2>2 DEF StreamInv, AskedInv
  <2>5. BytesInv'
    BY <1>2, <2>1, <2>2 DEF StreamInv, BytesInv, Live
  <2> QED
    BY <1>2, <2>1, <2>2, <2>3, <2>4, <2>5, StatesKept, Stutters
<1>7. CASE CloseSocket
  <2>1. UNCHANGED <<io, writeQueue>> /\ sock' = 0 /\ io.closed /\ loop = "fd"
    BY <1>7 DEF CloseSocket, StreamInv, SocketInv, LifeInv
  <2>2. \A k \in Conn : chan'[k].id = chan[k].id
    <3>1. chan' = chan \/ chan' = [chan EXCEPT ![io.ctx] = [chan[io.ctx] EXCEPT !.status = "CLOSED"]]
      BY <1>7 DEF CloseSocket
    <3>2. \A k \in Conn : [chan[k] EXCEPT !.status = "CLOSED"].id = chan[k].id
      BY <1>1
    <3> QED
      BY <1>1, <3>1, <3>2
  <2>3. \A k \in Conn : pc[k] = "idle"
    BY <2>1 DEF StreamInv, SocketInv, LifeInv
  <2>4. OwnerInv'
    <3>1. latest # 0 => latest \in Conn
      BY <1>1 DEF Conn
    <3>2. \A k \in Conn : chan'[k].id = 0 <=> k > latest'
      BY <1>2, <2>2 DEF StreamInv, OwnerInv
    <3>3. latest' # 0 => /\ chan'[latest'].id = io'.id
                         /\ \A k \in Conn \ {latest'} : chan'[k].id < io'.id
      BY <1>2, <1>3, <2>2, <3>1 DEF StreamInv, OwnerInv
    <3>4. \A k \in Conn : pc'[k] = "idle"
      BY <1>2, <2>3
    <3> QED
      BY <2>1, <3>2, <3>3, <3>4 DEF OwnerInv
  <2>5. AskedInv'
    BY <1>2, <1>3, <2>1 DEF StreamInv, AskedInv
  <2>6. BytesInv'
    BY <1>2, <2>1 DEF StreamInv, BytesInv, Live
  <2>7. States' = States
    BY <2>1, <2>2 DEF States, StateOf
  <2> QED
    BY <1>2, <2>4, <2>5, <2>6, <2>7, Stutters
<1> QED
  BY <1>5, <1>6, <1>7

\* An accepted connection is new, and gets an id no other has.
LEMMA StreamByAccept ==
  ASSUME StreamInv, Accept
  PROVE  OwnerInv' /\ AskedInv' /\ BytesInv' /\ [Stream!Next]_(Stream!vars)
<1> USE DEF loopVars, historyVars
<1> DEFINE g == latest + 1
           r == HioReady(io)
           h == [r EXCEPT !.ctx = g]
<1>1. /\ io \in Hio /\ latest \in 0..MaxConn /\ latest < MaxConn /\ g \in Conn /\ MaxConn \in Nat
      /\ sock = 0 /\ loop \in {"poll", "read"} /\ io.id \in Nat /\ HistoryTypes
      /\ chan \in [Conn -> [id : Nat, status : {"OPENED", "CLOSED"}]]
  BY TypesOfHio, BoundsAssumption
  DEF StreamInv, SocketInv, TypeOK, KernelTypes, WorkerTypes, Accept, BoundsAssumption, Conn, Hio
<1>2. ~io.ready /\ writeQueue = <<>> /\ \A k \in Conn : pc[k] = "idle"
  BY <1>1 DEF StreamInv, SocketInv, LifeInv, WatchInv, Cleared
<1>3. r \in Hio /\ ~r.closed /\ ~r.close /\ r.events = {} /\ r.id = io.id + 1 /\ r.ready
  <2>1. r \in Hio
    BY <1>1, ReadyHio DEF Event
  <2> QED
    BY <1>1, <1>2, <2>1 DEF HioReady, Hio
<1>4. h \in Hio /\ ~h.closed /\ ~h.close /\ h.events = {} /\ h.id = io.id + 1 /\ h.ready
  <2>1. ASSUME NEW q \in Hio, NEW c \in 0..MaxConn
        PROVE  /\ [q EXCEPT !.ctx = c] \in Hio
               /\ [q EXCEPT !.ctx = c].closed = q.closed /\ [q EXCEPT !.ctx = c].close = q.close
               /\ [q EXCEPT !.ctx = c].events = q.events /\ [q EXCEPT !.ctx = c].id = q.id
               /\ [q EXCEPT !.ctx = c].ready = q.ready
    BY DEF Hio
  <2>2. g \in 0..MaxConn
    BY <1>1 DEF Conn
  <2> HIDE DEF r, g
  <2> QED
    BY <1>3, <2>1, <2>2
<1>5. /\ UNCHANGED <<writeQueue, posted, loop, peer, pc, frame, wire, taken, asked>>
      /\ latest' = g /\ sock' = g
      /\ chan' = [chan EXCEPT ![g] = [id |-> h.id, status |-> IF h.closed THEN "CLOSED" ELSE "OPENED"]]
      /\ io' = HioAdd(h, {"R"})
  BY <1>4 DEF Accept
<1>6. io' = [h EXCEPT !.active = TRUE, !.events = @ \cup {"R"}]
  BY <1>4, <1>5, ReadyHio DEF Event
<1>7. ~io'.closed /\ ~io'.close /\ io'.id = io.id + 1
  BY <1>4, <1>6 DEF Hio
<1>8. chan'[g].id = io.id + 1 /\ \A k \in Conn \ {g} : chan'[k] = chan[k]
  BY <1>1, <1>4, <1>5
<1>9. \A k \in Conn : chan[k].id <= io.id
  <2>1. CASE latest = 0
    BY <1>1, <2>1 DEF StreamInv, OwnerInv, Conn
  <2>2. CASE latest # 0
    <3>1. latest \in Conn /\ chan[latest].id = io.id
      BY <1>1, <2>2 DEF StreamInv, OwnerInv, Conn
    <3>2. \A k \in Conn \ {latest} : chan[k].id < io.id /\ chan[k].id \in Nat
      BY <1>1, <2>2 DEF StreamInv, OwnerInv
    <3> QED
      BY <1>1, <3>1, <3>2
  <2> QED
    BY <2>1, <2>2
<1>10. OwnerInv'
  <2>1. \A k \in Conn : chan'[k].id = 0 <=> k > g
    <3>1. \A k \in Conn \ {g} : chan[k].id = 0 <=> k > latest
      BY DEF StreamInv, OwnerInv
    <3>2. \A k \in Conn \ {g} : k > latest <=> k > g
      BY <1>1 DEF Conn
    <3>3. io.id + 1 # 0
      BY <1>1
    <3> QED
      BY <1>1, <1>8, <3>1, <3>2, <3>3
  <2>2. \A k \in Conn \ {g} : chan'[k].id < io.id + 1
    <3>1. \A k \in Conn : chan[k].id \in Nat
      BY <1>1
    <3> QED
      BY <1>1, <1>8, <1>9, <3>1
  <2>3. \A k \in Conn : pc'[k] = "idle"
    BY <1>2, <1>5
  <2> QED
    BY <1>5, <1>7, <1>8, <2>1, <2>2, <2>3 DEF OwnerInv
<1>11. AskedInv'
  <2>1. \A i \in 1..Len(posted) : posted[i] <= io.id /\ posted[i] \in Nat
    BY DEF StreamInv, AskedInv, SocketInv, TypeOK, LoopTypes
  <2>2. \A i \in 1..Len(posted') : posted'[i] <= io'.id /\ posted'[i] # io'.id
    BY <1>1, <1>5, <1>7, <2>1
  <2>3. peer'[g] = "open"
    BY <1>1, <1>5 DEF StreamInv, AskedInv, Conn
  <2>4. \A k \in Conn : k > g => peer'[k] = "open"
    BY <1>1, <1>5 DEF StreamInv, AskedInv, Conn
  <2>5. \A k \in Conn : pc'[k] # "post"
    BY <1>2, <1>5
  <2> QED
    BY <1>1, <1>5, <1>7, <2>2, <2>3, <2>4, <2>5 DEF AskedInv
<1>12. BytesInv'
  <2>1. taken[g] = <<>> /\ wire[g] = <<>>
    BY <1>1 DEF StreamInv, BytesInv, Conn
  <2>2. \A k \in Conn : k > g => taken[k] = <<>> /\ wire[k] = <<>>
    BY <1>1 DEF StreamInv, BytesInv, Conn
  <2>3. taken'[sock'] = wire'[sock'] \o writeQueue'
    BY <1>2, <1>5, <2>1, ConcatEmptySeq
  <2> QED
    BY <1>5, <2>2, <2>3 DEF BytesInv
<1>13. Stream!Next
  <2>1. chan[g].id = 0
    BY <1>1 DEF StreamInv, OwnerInv, Conn
  <2>2. States[g] = "new"
    BY <1>1, <2>1 DEF States, StateOf
  <2>3. States' = [States EXCEPT ![g] = "up"]
    <3>1. sock' = g /\ ~io'.closed /\ chan'[g].id # 0
      BY <1>1, <1>5, <1>7, <1>8
    <3>2. \A k \in Conn : (IF chan'[k].id = 0 THEN "new"
                           ELSE IF sock' = k /\ ~io'.closed THEN "up" ELSE "down")
                        = (IF k = g THEN "up" ELSE States[k])
      BY <1>1, <1>8, <3>1 DEF States, StateOf, Conn
    <3>3. States' = [k \in Conn |-> IF chan'[k].id = 0 THEN "new"
                                    ELSE IF sock' = k /\ ~io'.closed THEN "up" ELSE "down"]
      BY DEF States, StateOf
    <3>4. States' = [k \in Conn |-> IF k = g THEN "up" ELSE States[k]]
      BY <3>2, <3>3
    <3> QED
      BY <3>4 DEF States
  <2>4. Stream!Open(g)
    BY <1>5, <2>2, <2>3 DEF Stream!Open, States
  <2> QED
    BY <1>1, <2>4 DEF Stream!Next
<1> QED
  BY <1>10, <1>11, <1>12, <1>13

LEMMA StreamStarts ==
  Init => StreamInv /\ Stream!Init
<1> SUFFICES ASSUME Init PROVE StreamInv /\ Stream!Init
  OBVIOUS
<1>1. OwnerInv /\ AskedInv /\ BytesInv
  BY DEF Init, OwnerInv, AskedInv, BytesInv, Live, Conn
<1>2. Stream!Init
  BY DEF Init, Stream!Init, StateOf
<1> QED
  BY <1>1, <1>2, SocketStarts DEF StreamInv

LEMMA StreamStep ==
  ASSUME ~Races
  PROVE  StreamInv /\ [Next]_vars => StreamInv' /\ [Stream!Next]_(Stream!vars)
<1> SUFFICES ASSUME StreamInv, [Next]_vars PROVE StreamInv' /\ [Stream!Next]_(Stream!vars)
  OBVIOUS
<1>1. SocketInv'
  BY SocketStep DEF StreamInv
<1>2. OwnerInv' /\ AskedInv' /\ BytesInv' /\ [Stream!Next]_(Stream!vars)
  <2>1. CASE Callback
    BY <2>1, StreamByEvents, StreamByDrain, StreamByClose DEF Callback
  <2>2. CASE \E g \in Conn : WorkerStep(g)
    BY <2>2, StreamByChecks, StreamByWrite DEF WorkerStep
  <2>3. CASE Accept
    BY <2>3, StreamByAccept
  <2>4. CASE \/ KeepaliveTimeout \/ CloseTimeout \/ PeerReads
             \/ \E how \in {"eof", "reset"} : PeerLeaves(how)
    BY <2>4, StreamByOthers
  <2>5. CASE UNCHANGED vars
    <3>1. UNCHANGED <<io, writeQueue, posted, loop, sock, peer, latest, chan, pc, frame, wire, taken, asked>>
      BY <2>5 DEF vars, loopVars, kernelVars, workerVars, historyVars
    <3>2. OwnerInv' /\ AskedInv' /\ BytesInv'
      BY <3>1 DEF StreamInv, OwnerInv, AskedInv, BytesInv, Live
    <3> QED
      BY <3>1, <3>2, StatesKept, Stutters DEF historyVars
  <2> QED
    BY <2>1, <2>2, <2>3, <2>4, <2>5 DEF Next
<1> QED
  BY <1>1, <1>2 DEF StreamInv

\* The safety part of ImplementsByteStream, for every value of the constants:
\* as long as no close overtakes a worker that is past its tests, each step of
\* nio.c, hloop.c and Channel.h is a step of ByteStream or none.  A frame is
\* taken by its own connection, sent on in order and without a gap, and only a
\* connection whose close was asked for is closed.
THEOREM StepsOfStream ==
  ASSUME ~Races
  PROVE  Spec => Stream!Init /\ [][Stream!Next]_(Stream!vars)
BY StreamStarts, StreamStep, PTL DEF Spec
=============================================================================
