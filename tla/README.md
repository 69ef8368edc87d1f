# Verification of ODEClientServer

TLA+ models of the ODE client and server, the TLC configurations that check them on small
instances, and theorems about them with proofs for TLAPS. Paths in this text are relative to
the root of the repository; `tla/` is this directory.

    tlc -workers 2 -config SolveRoute_one.cfg SolveRoute.tla     # a run
    tlapm SolveRouteProofs.tla                                   # the proofs of a module

`PROJECT.json` lists the parts of the system, the runs, the source lines behind every
definition, the hazards of the code with the properties aimed at them, the theorems, and for
every property a slip of the code that breaks it.

## 1. The system

A WPF client sends a system of ordinary differential equations by name, with parameters and a
method, to an HTTP server built on libhv; the server solves it and streams the points back as
a JSON document; the client stores the answers as graphs and draws them.

| part | sources | state | operations | what makes it hard |
|---|---|---|---|---|
| routes | `Server/src/Routers.cpp`, `HTTPServer.cpp`, `main.cpp` | per request: the detached thread, its storage, its text buffer | `GET /`, `POST /solve`: parse, start thread, solve, stream, catch | the thread shares writer and response with the IO thread and outlives the connection |
| response writer | `contrib/libhv/http/server/HttpResponseWriter.*`, `HttpMessage.cpp` | `state`, `end`, the response | `Begin`, `EndHeaders`, `WriteChunked`, `WriteBody`, `End` | a protocol of calls; an exception may start another answer at any point |
| connection, handler, socket | `contrib/libhv/http/server/HttpHandler.cpp`, `evpp/Channel.h`, `event/{nio,hevent,hloop,epoll}.c` | status, `hio_t` (flags, events, id, write queue), epoll's interest set, posted events, eventfd, timers | receive, reset, write, close (deferred, posted), timeouts | two threads, reuse of descriptors and of the `hio_t`, full queues, keep-alive |
| request, tasks | `MainWindowViewModel.cs` (form), `ParameterConverter.cs`, `Routers.cpp`, `ParseUtils.cpp`, `TaskManager.cpp` | the form, the body, the parameter map | choose, edit, `ValidateParameters`, `Solve`; `LoadParameters`, `GetTask`, `ExtractInitialConditions`, `ParseDispsFlags` | keys written twice, in C# and C++; reads that throw or are undefined |
| five adaptive solvers | `EulerSolver`, `RK2Solver`, `RK23SSolver`, `STEKSSolver`, `DISPDSolver` | t, y, h | `Step`, `Solve` | rejection and growth of the step through one reference |
| DISPF | `DISPFSolver.cpp` | formula, first stage, t, h | three step functions, `Solve` | a stage carried over between steps, formulas and rejections |
| DISPS | `DISPSSolver.cpp` | variants, index, step | tries, change of scheme | change in the middle of a solution, any set of flags |
| view model | `Client/ViewModels/MainWindowViewModel.cs` | graphs, axes, range, quality, redraw flags | solve, choose, zoom, delete, timer | awaits, and message boxes that let the timer in |
| graph storage, results, chart | `Client/Models/GraphStorage.cs`, `SimulationResult.cs`, `ChartManager.cs` | graphs by name, series | add, look up, clear | equal names, graphs deleted under a redraw |
| client requests | `Client/Models/ServerRequests/*.cs` | none | POST, ping | the time-out of HttpClient |

How they interact. The IO thread parses a request and runs the route's handler; for `/solve`
the handler starts a detached `std::thread` and returns. The thread constructs one solver,
calls `Solve`, and answers through the writer of the request's context; writes go to the
connection's `hio_t` under its own lock, closes are posted to the loop. The client handles an
answer on the UI thread after an `await`; a timer posts `DrawGraphs` to the same thread.
Nothing is persisted, so there is no recovery to model.

What makes each part correct:

* server: what is written on a connection is one well-formed response to its latest request,
  complete, or recognisably cut or broken off by an error text; no other connection's worker
  spoils it beyond the frame each that the code lets through; every request is answered or loses
  its connection; workers end.
* socket: what a worker has written reaches its own peer in order, or the connection is closed;
  it is closed only when somebody asked for it; a queue is drained, a connection is read.
* request: whatever is chosen in the form, the server understands it and solves that problem.
* solvers: the loop ends, stays near the span, and carries its state over in order when it
  rejects a step or changes the formula.
* client: answers are not lost, the axes offered are those of the graphs, and the chart catches
  up with what was chosen once its message boxes end.

## 2. Modules

    SolveService                 what a client is promised
      ^ implemented by
    SolveRoute  --extends-->  HttpResponseWriter
      ^ MCSolveRoute (instances with several connections)
      ^ SolveRouteProofs <- SolveAnswerProofs
    ByteStream                   what a connection promises those who write on it
      ^ implemented by
    HioSocket          <- MCHioSocket (instances), HioSocketProofs
    SolveRequest       <- MCSolveRequest (values), SolveRequestProofs
    AdaptiveSolvers    <- AdaptiveSolversProofs
    DISPFSolver        <- DISPFSolverProofs
    DISPSSolver        <- DISPSSolverProofs
    MainWindowViewModel <- MCMainWindowViewModel (symmetry), MainWindowViewModelProofs

A definition whose comment starts with "Slip:" is not the code. It is a plausible mistake in
the definition that follows it (a forgotten reset, a lost guard, an off-by-one), kept there to
show that the property named for it in `PROJECT.json` would notice.

### HttpResponseWriter, SolveRoute, SolveService

A writer is the record of the two enumeration fields of the class, a response the fields its
methods read. A method is two operators: what becomes of the writer, and the frames (header
block, chunk, last chunk, whole response) it sends. `Receive` is the HTTP client's parser.

The event loop is one thread, so each of its callbacks is one action (`Accept`, `Ping`,
`RejectSolve`, `AcceptSolve`, `Drain`, `LoopClose`, `ReadEof`, `SocketFails`,
`KeepaliveTimeout`, `CloseTimeout`). A worker has a program counter; `Channel::write` is two
actions, `WriteCheck` for `isOpened()` and `HioWrite` for `hio_write()`, because nothing is
held between the two. A document is its pieces 0..n+1: the opening text, n points, the closing
text; the solver is `StorePoint`, `SolveReturns`, `SolveThrows`. The worker's `try` spans the
streaming too: `StreamThrows` is an allocation that fails in `Begin` .. `EndHeaders`, when the
buffer is set up, or while a point or the closing text is appended. The `catch` then finds a
response that is already a chunked one, so that its status comes too late and its text
(`ErrorText`, a piece that no document has) is one more chunk, or, if the headers had not gone
yet, the only chunk of a 500.

Kinds of request stand for the outcome of parsing and solving: `ping`, `malformed` (the IO
thread's catch, 400), `failing` (the worker's catch), `solvable`, `divergent` (a solver that
does not return).

Abstractions worth knowing:

* Clients are sequential: they send a request after the answer to the one before. libhv
  accepts pipelined requests, and then resets the writer under the worker of the first; no
  client here sends them.
* A connection name is used again for a later connection only when its worker has gone;
  `AcceptSolve` relies on that with `pc[c] = "none"`. The old worker and a new connection on
  the same descriptor meet in the runs with two connections.
* The three `hio_write` calls of one `WriteChunked` are one frame. A direct write to the
  socket is an enqueue followed by `Drain`. The check and the post of `Channel::close` are one
  step.
* The answer that the IO thread sends itself is one frame. Its reset of the handler is done at
  once also without keep-alive, where nothing reads it any more.
* A lost frame (full queue, failed socket) leaves a hole: the stream is "cut" from there. The code
  can also lose all three writes of a chunk and go on as if it had never been; that is
  `ChunkVanishes`. It is TRUE in run `overflow` only. `PiecesInOrder`, `RightAnswers`,
  `OnlyTimersCutAnswers` and `ImplementsService` are checked, and their theorems proved, without
  it; with it an answer can be complete and wrong, as that run shows, and `UnfailedAnswersAreRight` is what remains.
* `FdReuse` says whether a descriptor may be accepted again while a worker stands between
  `isOpened()` and `hio_write()`. The code has no guard against it: `FdReuse = FALSE` (run `one`,
  the theorems that say so) is an assumption, `FdReuse = TRUE` (run `pair`) is the code.
* The writes themselves do not throw, nor does the catch.
* Timers may fire whenever they are armed. `MaxThreads` stands for the system refusing a
  thread, which is answered with 400.

`SolveService` knows calls and outcomes only; a solution that an error text breaks off is a
reply of its own, "spoiled". `ImplementsService` maps a complete response to a reply and
anything else to no reply of the service; it includes the promise that no call
stays pending, which for `divergent` requests is kept by the keep-alive timer.

### HioSocket, ByteStream

`SolveRoute` takes libhv's socket as a queue and the name of the connection a descriptor's
`hio_t` carries. `HioSocket` is the layer below: the `hio_t` with its flags, events and
`write_bufsize`; epoll's interest set, with `iowatcher_add_event` choosing ADD or MOD by
`io->events` and failing unnoticed when the kernel disagrees; `custom_events` and the eventfd;
the send buffer; and the `Channel` of each connection. One descriptor is used by connections
1..MaxConn in turn; the `hio_t` is never freed, only its id tells them apart.

| definition | code |
|---|---|
| `WriteCheck`, `LockedWrite` (`WriteError`, `WriteDirect`, `WriteEnqueue`, `WriteOverflow`) | `Channel::write`, `hio_write` before and under `write_mutex` |
| `CloseCheck`, `PostClose` | `Channel::close(true)`, `hio_close_async` (which reads the id when it posts) |
| `Poll`, `ReadEventfd`, `RunPosted`, `EventsRun` | `iowatcher_poll_events`, `eventfd_read_cb`, `hio_close_event_cb` |
| `HandleRead`, `HandleWrite`, `Drain`, `DrainError` | `hio_handle_events`, `nio_write` |
| `HioClose`, `HioDone`, `HioDelAll`, `ClearQueue`, `CloseSocket` | `hio_close`, at the places where another thread may come in between |
| `Accept`, `KeepaliveTimeout`, `CloseTimeout` | `nio_accept` and `hio_get`, the timers |

`loop` is where the loop's thread is, `back` where it continues after `hio_close`. A critical
section of `write_mutex` is one step. Every server loop (libhv starts one per core) has its own
`hio_t` per descriptor; a descriptor that another loop accepts is, for this one, closed, which
is the window `FdReuse` of `SolveRoute`. What a read delivers is left out: the properties ask
only whether the connection is read.

`Races` says whether a close may start while a worker is between its tests and the mutex.
`ByteStream` is what `hloop.h` promises to those who call `hio_write` and `hio_close` from
other threads; `StateOf` maps the ids and the socket to its "new", "up", "down".

### SolveRequest

The form (`SelectEquation`, `SelectMethod`, `ToggleFlag`, `EditValue`), what `Solve` makes of
it, and the server's reads one after the other (`Parse` on the IO thread, `ReadTimes`,
`LoadParameters`, `ExtractInitialConditions`, `GetTask`, `Dispatch` in the worker) with what
each does to a body it does not like: 400, 500, or undefined behaviour (a key missing from a
`const` json, `y0` shorter than the system). The kinds of request of `SolveRoute` are the
outcomes here: 400 is `malformed`, 500 `failing`, `solving` the other two. Numbers are ranks;
an edit to 0 or 1 makes t0 and t1 equal or swaps them, one to -2 is below the form's limit.
`OtherClientSends` sends bodies that differ from a form's in one place or two: a key missing, a
value that is no number, another equation or method, a condition too many. `GetTask` compares
only the number of conditions with the dimension, so a body with `y0_init` and `y2_init` for a
system of two variables is solved; the model, and `Solvable`, say the same.

### AdaptiveSolvers

The five loops differ in where an attempt is shortened (inside `Step` or by an exception), in
what a rejection halves (attempt or base step), and in the growth they allow; the actions
`Attempt`, `Accept`, `Reject`, `Shorten`, `Finish` have a disjunct or a bound for each. What
an error estimate says is arbitrary. Time is a number of ticks; an attempt of no tick is one
below the least step (1e-12; for Euler and RK2 zero). `reached` is a history variable: the
time the accepted attempts covered, to be compared with `t`, the time stored.

A tolerance is assumed positive. With another one, or an estimate that is NaN, factors are no
numbers; RK2's loop without an exit is what is left of that here.

### DISPFSolver

The first stage `k[..][0]` is kept as the time f was evaluated at and whether it is scaled by
the current step. A and B evaluate f at the end of the step as it was made, scale the step only
then, and `Solve` adds the scaled step to t: the next step starts at another time than its first
stage was evaluated at, unless the factor was 1. `FirstStageFollows` says how far apart the two
can be and which stage a step of each formula can meet; for the server's problems the difference
matters only to ForcedOscillator, whose right-hand side depends on t. `start` is a history
variable: where the last accepted step started. In the server gamma is 0, so the test of the
eigenvalue estimate never holds and the early `break` is never taken: J and K have no effect and
are left out.

### DISPSSolver

Variants are the records of the constructor, with gamma in hundredths. `SwitchScheme` picks
what the code's loop finds: no enabled variant has a higher order, or the same order and a
smaller gamma. `switches` is a history variable. A request without a flag makes the
constructor throw; for the route that is a `failing` request.

### MainWindowViewModel

All handlers run on the UI thread, one at a time, except that an `await` or an open message
box lets others in. A solve is `Solve` up to the await and `Answer` or `AnswerFails` after it.
A redraw that meets a graph without the chosen axes opens a message box and stands on the
stack `draws`; the timer may enter `DrawGraphs` again; `CloseBox` resumes the innermost one.
Axes are numbers, because the axes of every answer are a prefix of t, y0, y1, ...; the visible
range and the data's extent are members of a small set, so that `UpdateScale` is a choice. The
chart is the set of its series: that nested redraws can add the same series twice is not seen.

The code has no limit to the boxes, the model has `MaxBoxes`: a tick with that many open is a step
left out of the model. A safety property loses the states beyond it and nothing else; the theorems
have no bound. A liveness property would be helped by it, so `ChartCatchesUp` is stated under a
condition that keeps it from resting on the bound: either at most one stored graph lacks the
chosen axes from some time on, and then closing one box stores the range and the ticks have
nothing to do; or the boxes are below the bound from some time on, so that the bound stops
nothing.

## 3. Runs

| run | instance | shows |
|---|---|---|
| `one` | one connection, every kind of request, 2 points, queue of 2 | framing, order of pieces, right answers, nothing after the end, only timers cut answers, workers advance and leave, the service is implemented |
| `pair` | two connections, two descriptors, descriptors reused at any time, failing requests, queue of 1 | a foreign frame comes only from a worker that stood past its test when the connection was accepted, one each |
| `overflow` (violation) | one connection, 3 points, queue of 2 | an answer taken for complete from which a chunk is missing |
| `socket` | one descriptor, 2 connections, 3 and 1 frames of 2 bytes, queue of 3 bytes, 2 bytes in the kernel, no close between a worker's tests and its mutex | types, exact count of queued bytes, no queue unwatched, no posted close left behind, no connection unread, `ByteStream` implemented |
| `race` (violation) | the same, closes at any time | the window between `isOpened()` and the mutex of `hio_write()` |
| `requests` | all equations and methods, 2 edits of 3 values, 2 check boxes, bodies with one or two things wrong | types, the form is understood, its own problem is solved, exactly the solvable bodies are solved |
| `redraw` | problems with 2 and 3 axes, one solve at a time, 2 titles, 2 graphs, 2 ranges, 2 boxes | axes match graphs, no redraw lost, no answer lost to a name |
| `boxes` | the same problems, one solve at a time, 3 graphs of which two can lack the axes, 2 boxes | the boxes end and the chart catches up, under its condition |
| `loops` | five solvers, span 5, first step 2, 3 retries | bounded overshoot, bounded drift, every step uses something up, termination |
| `time` (violation) | RK2 | stored time is not integrated time |
| `orders` | orders 0, 1, 2, 5, span 6 | the first stage is that of the step before, orders change stepwise, bounded overshoot |
| `schemes` | all 63 sets of flags, span 6, 3 tries | within the span, one change at most |

Why the bounds are enough. A queue of 2 is full after the headers and one chunk, so every
later write can meet a full queue; 2 points make a flush in the middle of the loop and one
after it. Two connections are the least for a foreign write, with a second descriptor there is an accept that is
none of the worker's business, the requests that fail at once have the shortest worker that writes;
the proof removes all of these bounds. On the socket, the frames are one in the kernel, one queued, one over the
limit; the second connection is enough to see what the first has left in the `hio_t`; a frame of
two bytes can be cut between kernel and queue. Two edits are needed to set both t0 and t1. Two boxes nest one redraw in another. A redraw with two boxes of its own needs two graphs that lack the
axes and a third that has them: these are the 3 graphs of `boxes`, which has one title and one
range so that TLC can decide liveness on it (a new range is drawn as an answer is: by a redraw of
everything). In `redraw` a title can be edited, and the graphs deleted, between a request and its answer; that
two answers cannot collide either, with any number of solves in flight, is the theorem
`GraphsAdded`. Titles are interchangeable, and `redraw`, without liveness, uses that.
Spans of 5 and 6 ticks allow several accepted steps, growth beyond the span, and steps that
shrink to nothing. The counters of tries and retries are 3 instead of 10 and 30: only
"another" and "the last" differ. `CHECK_DEADLOCK FALSE` stands where the system may stop: a
solver that is done, a client whose graphs and requests are used up.

Fairness. Server: every worker thread is scheduled; the loop drains a queue that a client
reads, runs posted closes and sees the end of a stream; and the idle timer fires in the end on
a connection on which only a worker computes (libhv arms it on every connection, 75 s).
Nothing is assumed of clients. Socket: the loop's thread runs; a worker inside `hio_write` or
`hio_close_async` gets on (whether it ever calls them is open); the timer of a deferred close
fires (60 s), and the idle timer does on a connection whose peer takes nothing more, with bytes
queued (75 s). Nothing is assumed of the peer. Solvers: the thread that runs `Solve` takes steps. View model:
the timer ticks (`AutoReset = true`) and a user who sees a message box closes it;
`ChartCatchesUp` is conditional on user and server being quiet from some time on, and on what is
said of boxes in section 2.

### Where the code and its documents disagree

* `race`: `hloop.h` calls `hio_write` thread-safe and `Channel.h` its `write`; between the tests
  and the mutex the loop can close the descriptor and accept another connection on it. The
  worker's bytes then reach that connection; or the worker comes after `hio_done` and before the
  accept, and its `hio_add(HV_WRITE)` makes the dead `hio_t` ready again with HV_WRITE in its
  events, so that the accept finds it ready, asks epoll to modify a descriptor it does not know,
  and the new connection is never read.
* `overflow`: the route does not look at what `WriteChunked` returns. When the queue (16 MB) has
  room for none of a chunk's three writes the chunk is lost whole, a piece of the document or the
  error text that should end it; the close that libhv posts is
  run by the loop, and if the loop has drained the queue and the worker has finished by then, the
  client has a complete 200 answer with a part missing.
* `time`: `Step` scales the step by reference for the next attempt, and `Solve` adds the
  scaled value to t although y has moved over the unscaled one. What can still be said is
  `OvershootBounded` and `ClockWithinFactor`. DISPS alone does it right (`WithinSpan`).

Seen on the way and not the subject of a run:

* `README.md:186` says the data is sent in chunks as it is computed; the route sends its first
  byte after `Solve` has returned (`Routers.cpp:102`). The model has it so (`SolveReturns`
  before `StreamHead`).
* `RK2Solver::Step` loops until the estimate is small enough, with no least step; NaN never is
  (VanDerPol with p = 0, which the form accepts). `Terminates` leaves RK2 out.
* `SwitchScheme` prefers the higher order and then the smaller gamma also when it is called
  because the interval of stability was left: Disps13 (17) is followed by Disps23 (6), and there
  is no way back.
* A key of the span that is missing is undefined behaviour (`operator[]` of a `const` json), and
  so are a missing I, J or K with DISPF and a `y0` of the wrong length; a missing parameter of
  the problem is silently 0. `FormIsUnderstood` says that the client's form never comes there.
* A request for DISPS without a check box is answered 500; the form lets it through.
* An exception while the document is being streamed (`Routers.cpp:102-155`) is caught where the
  headers have already gone: `README.md:187` says an error is answered 500 with a description, the
  client gets a complete chunked 200 whose body is the beginning of the document and then
  "Error: ...". It does not parse as JSON, so the client reports an error. `RightAnswers` names this
  outcome (`SpoiledDocument`).
* With two stored graphs that lack the chosen axes a redraw opens two message boxes, one after the
  other, and stores its range only after the second. Each tick between them begins a newer redraw
  with two boxes of its own: the boxes need not end though the user closes every one of them
  (`MainWindowViewModel.cs:567`, `:580`). `ChartCatchesUp` claims nothing there.
* DISPF's cut last step leaves its first stage scaled by the uncut step, and B after C works with
  the stage of the step before: `FirstStageFollows` states both as exceptions.
* A redraw that ends late stores the range it began with. With message boxes open it can
  restore the range of now while an inner redraw has drawn another one; the chart then stays
  cut to the wrong range until the next change. `NoStaleRange` therefore is
  proved where no box opens, and `NoLostRedraw` speaks of axes only.
* While the visible range differs from the last one drawn, every tick of the timer opens a
  further message box for the same graph. The text of the box names two constants and not the
  chosen axes.
* `SaveGraphAsExcel` reports success and writes nothing.
* The flags `Disps16`, `Disps26` and `Disps33`, which the client
  also sends, are not read.
* The README's example request has `y0` as an array; `LoadParameters` reads numbers, and the
  answer is 500. Errors are documented as 500, but a body that does not parse is answered 400.
* `DISPDSolver::switchScheme(false)` computes coefficients from a `g` that nothing has set.
* A step that has become too small ends `Solve` silently (not in RK2 and DISPF); the points so far
  are answered as a success.

## 4. Proofs

The theorems hold for all values of the constants that satisfy the named assumptions.

* `SolveRouteProofs`. `TypeCorrect`: `Safety => []TypeOK`. Not inductive by itself: `HioWrite`
  takes the head of the worker's unfinished calls, so `CallsInv` says that an armed worker has
  one. `ForeignBytes`: `Safety => ForeignBytesAreStale`, for any number of connections and
  descriptors, and whether descriptors are reused under a worker or not. What the code promises
  here is less than one would like: `isOpened()` and `hio_write()` are two steps, and a worker
  between them writes a frame into whatever connection the descriptor has by then. What it does
  promise is the comparison of ids: over a connection that is alive no other's worker gets past
  `isOpened()`, because an open `hio_t` carries the id of that connection and no other (`OwnersInv`, a
  part of it, needs no assumption). So the intruders of a connection only become fewer, one per
  frame. Run `race` shows, one layer below, that the frame does get through. With
  `FdReuse = FALSE` the stronger `SocketInv` holds (an armed worker's `hio_t` is its own or
  closed), on which the theorems about answers are built. `WorkerProgress`:
  `Safety => WorkersAdvance`, without any assumption. The measure is lexicographic: the stage of
  the worker (a flush belongs to the part of the document it returns to), the next point, the
  label within the stage, the frames of the call that is not finished, and the test of the next
  one. All five are bounded, so a worker that is scheduled ends; the prover has the steps, and
  what follows from fairness (`WorkersLeave`) is TLC's.
* `SolveAnswerProofs`, about what the client reads. If `FdReuse = FALSE`: `WellFormedAnswers`
  (`WellFramed`) and `FinalAnswers` (`NothingAfterTheEnd`). The argument is `AnswerInv`: a worker
  leaves at most one frame to write behind each of its calls (two when the catch finds headers
  announced and not sent: the header block and the error text), so what has been read and those
  frames must fit; the writer and the response it shares with the next request are fresh until it
  starts its answer; and the client asks again only when the worker has made its last call. Where
  a full queue may take none of the three writes of a chunk, what the client reads can be
  complete and wrong; `UnfailedAnswers` (`UnfailedAnswersAreRight`) says that it then came over
  a connection whose error was set when the chunk was lost. If, besides, `ChunkVanishes = FALSE`
  (that does not occur): `OrderedAnswers` (`PiecesInOrder`), `CorrectAnswers` (`RightAnswers`),
  `DeliveredAnswers` (`OnlyTimersCutAnswers`), and `StepsOfService`: the first state and every
  step are those of `SolveService`, or none. `WholeInv` adds which pieces have been sent at each
  place of the worker, and who may close: while a client waits for the end of an answer nobody
  has asked for a close, and once it is in the queue a close waits for it. It says so of
  connections that are `Sound` only; for the others `Base` remains, which is what the next
  connection of that name is built on. Run `overflow` shows
  what happens without the second assumption, run `race` without the first. Run `one` has
  ChunkVanishes FALSE and a single connection, which cannot lose its descriptor to another.
* `HioSocketProofs`. `NoCloseLeftBehind`: `Spec => []EventsCounted`, with and without races;
  `CountInv` adds to it where `eventfd_read_cb` can stand while events are left to take.
  If `~Races`: `TypeCorrect`, `ExactCount` (`BufsizeExact`), `ConnectionServed`
  (`QueueIsWatched`) and `ConnectionRead` (`NobodyDeaf`). None of them is inductive: what
  `hio_close` has undone at each of its five steps (`LifeInv`: ready, closed; `WatchInv`: events,
  epoll, queue, count) must be known, since the next `Accept` builds on what is left of the
  `hio_t`. `StepsOfStream`: if `~Races`, every step
  is one of `ByteStream` or none. `OwnerInv`: the latest connection alone has the id of the
  `hio_t`, and only its worker is past its tests; `AskedInv`: whatever leads to `hio_close` was
  asked for, also a close still posted; `BytesInv`: what was taken is what was sent followed by
  what is queued. That a close is posted with an id read after the mutex was given back is
  harmless because no other connection can have the `hio_t` before the worker has posted: that
  is where `~Races` is used. Run `race` shows what happens without it.
* `SolveRequestProofs`. `RequestTypes`, `FormUnderstood`, `FormSolved`, `SolvableSolved`: the
  types and the three properties of the run, for all values, limits, sets of check boxes and
  numbers of edits. `RequestInv` has four parts. `FormKept`: the form has the keys of its
  equation in their order, whatever was chosen and edited since. `BodyKept`: a request of the
  form is still what the form says, and the form is valid. `ConditionsRead`: what
  `ExtractInitialConditions` has put together. `Passed`: a read that has not thrown has shown
  one part of `Solvable`, and one that has thrown has refuted one. The order in which the
  `unordered_map` gives out the conditions is any; that sorting removes it is what the lemmas
  `SortedIndices`, `SortedConditions` and `InOrder` say. `NotANumberAssumption` says that what
  stands for "no number" in a body is not a number.
* `AdaptiveSolversProofs`. `TypeCorrect`, `NoGreatOvershoot`, `ClockDrift`, from `AttemptInv`:
  an attempt fits into what is left of the span, as it was cut at the head of the loop and
  only shortened since. `AcceptInv` is the arithmetic. `Progress`: `Safety => StepsAdvance`, the
  part of `Terminates` that is not about fairness. `BaseInv` says why a rejected or vanishing
  step always shortens the base: `Step` is entered with an attempt of a tick at least, cut from
  a base no shorter. DISPD may shorten the attempt to nothing, and then only its base is known.
* `DISPFSolverProofs`. `StageFollows`, `OrdersChange`, `NoGreatOvershoot`, `TypeCorrect`, from
  `StepFits` (as above) and `LeftInOrder`: what a step leaves to the next one.
* `DISPSSolverProofs`. `TimeWithinSpan`, `AtMostOneChange`, `TypeCorrect`. `SchemeInv` says
  that once the scheme has changed it is the best of the enabled ones, and `BestIsUnique` that
  the best is unique because no two variants agree in order and gamma.
* `MainWindowViewModelProofs`. `TypeCorrect`, `AxesOfGraphs`, `GraphsAdded`, from `Inv`: the
  axes offered are the longest list of a stored graph, and the number in the name of a graph is
  its place in the storage. `ChartOfGraphs`: `Spec => []NoLostRedraw`. A redraw entered while
  another waits at its box clears what the other has painted, and the other, when it is resumed,
  goes on where it was. `RedrawInv` says why nothing is lost: as long as nobody has raised
  `_draw_anyway` since, the redraw that began last is the innermost one, and what it has not
  painted it has still to do. `ChartInRange`: `Spec => []NoStaleRange` if all problems have the
  same axes (`RangeInv`: no box, so no redraw is ever left half done).

Only model-checked: what depends on fairness, which is beyond the prover (`WorkersLeave`, the
liveness of `ImplementsService` and of `ImplementsByteStream`, `Terminates`, `ChartCatchesUp`).
Every other property of a passing run has its theorem. Of `WorkersLeave` and `Terminates` the
part about single steps is proved (`WorkersAdvance`, `StepsAdvance`).

One property has a theorem and no run of its own: `UnfailedAnswersAreRight`. To see it on an
instance, take `SolveRoute_overflow.cfg` with `UnfailedAnswersAreRight` for its invariant
(`ChunkVanishes = TRUE`, one connection; some seconds), or `MCSolveRoute_pair.cfg` with
`ChunkVanishes = TRUE` (two connections; some minutes).

## 5. Not modelled

* The arithmetic of the solvers: stages, norms, estimates, accuracy of the points.
* libhv beyond what the routes drive: TLS, static files, WebSocket, proxying, kcp, its own
  parsers of HTTP and JSON, the other pollers (kqueue, IOCP, select, ...). These vendored files
  are most of the lines of the repository, and no behaviour of this program is in them.
* Pipelined requests: no client here sends one.
* The client's exports, the ping and CPU status loop, the windows.
* `DISPSSolver_old.cpp`: compiled, never constructed.

## 6. Plan

Done, in this order: writer, route and service with their runs; proofs of types and of
`ForeignBytes`; view model; the five loops, DISPF, DISPS and their proofs; the socket below
the route, its stream and their proofs; requests from the form to the solver; the view model's
proofs; the answers of the route and its steps as steps of the service; the proofs about
requests, about answers over connections that may lose a chunk, and about progress.

Next:

1. `DownsamplePoints` as an operator against a reference (first point kept, order kept, no index
   out of range); the ping loop; exports.
2. A composition of view model, connection and route: an answer the client stores is a whole
   document of the request it sent.
