------------------------- MODULE HttpResponseWriter -------------------------
(***************************************************************************)
(* The response writer of libhv, the object through which a worker thread  *)
(* of the /solve route answers: its call protocol (contrib/libhv/http/     *)
(* server/HttpResponseWriter.{h,cpp}) and the byte stream it produces.     *)
(*                                                                         *)
(* A writer is a record of the two enumeration fields the class keeps, a   *)
(* response a record of the fields its methods read.  Bytes are abstracted *)
(* to frames: the header block, one chunk, the last (empty) chunk, or a    *)
(* whole response dumped at once.  A call is two operators: the writer it  *)
(* leaves behind, and the sequence of frames it hands to the socket.       *)
(***************************************************************************)
EXTENDS Naturals, Sequences

WriterState == {"SEND_BEGIN", "SEND_HEADER", "SEND_BODY",
                "SEND_CHUNKED", "SEND_CHUNKED_END", "SEND_END"}

Writer == [state : WriterState, end : {"SEND_BEGIN", "SEND_END"}]

Code == {200, 400, 500}

Response == [code : Code, chunked : BOOLEAN, keepAlive : BOOLEAN]

\* What a chunk carries is the set of document pieces in it (see SolveRoute).
HeadFrame(code)   == [kind |-> "head",  code |-> code, items |-> {}]
ChunkFrame(items) == [kind |-> "chunk", code |-> 0,    items |-> items]
LastFrame         == [kind |-> "last",  code |-> 0,    items |-> {}]
FullFrame(code)   == [kind |-> "full",  code |-> code, items |-> {}]

Frame == [kind : {"head", "chunk", "last", "full"}, code : Code \cup {0},
          items : SUBSET Nat]
-----------------------------------------------------------------------------
\* HttpMessage::Reset and HttpResponse::Reset: an empty 200.
FreshResponse(keepAlive) ==
  [code |-> 200, chunked |-> FALSE, keepAlive |-> keepAlive]

\* Begin: both fields back to SEND_BEGIN.
Begin == [state |-> "SEND_BEGIN", end |-> "SEND_BEGIN"]

\* EndHeaders: only the first one of a response writes, the others return -1.
EndHeaders(w) ==
  IF w.state = "SEND_BEGIN" THEN [w EXCEPT !.state = "SEND_HEADER"] ELSE w

EndHeadersOut(w, r) ==
  IF w.state = "SEND_BEGIN" THEN <<HeadFrame(r.code)>> ELSE <<>>

\* WriteChunked: writes the headers first when nobody has; an empty payload
\* is the end of the chunked body.
WriteChunked(w, items) ==
  [w EXCEPT !.state = IF items = {} THEN "SEND_CHUNKED_END" ELSE "SEND_CHUNKED"]

WriteChunkedOut(w, r, items) ==
  EndHeadersOut(w, r) \o <<IF items = {} THEN LastFrame ELSE ChunkFrame(items)>>

\* WriteBody: chunked when the response says so; before the headers it only
\* grows response->body (dumped later, whatever it is, by FullFrame), after
\* them it writes.
WriteBody(w, r, items) ==
  IF r.chunked THEN WriteChunked(w, items)
  ELSE IF w.state = "SEND_BEGIN" THEN w
  ELSE [w EXCEPT !.state = "SEND_BODY"]

WriteBodyOut(w, r, items) ==
  IF r.chunked THEN WriteChunkedOut(w, r, items)
  ELSE IF w.state = "SEND_BEGIN" THEN <<>>
  ELSE <<ChunkFrame(items)>>

\* End on a connected writer: the last chunk of a chunked body, otherwise
\* whatever of the response has not been dumped yet; a second End does nothing.
End(w) ==
  IF w.end = "SEND_END" THEN w
  ELSE IF w.state \in {"SEND_CHUNKED", "SEND_BODY"}
       THEN [state |-> IF w.state = "SEND_CHUNKED" THEN "SEND_CHUNKED_END" ELSE w.state,
             end |-> "SEND_END"]
  ELSE [state |-> "SEND_BODY", end |-> "SEND_END"]

\* Slips of End, kept to see that the properties notice them: the branch for
\* chunked bodies forgotten, and its else forgotten.
EndOutForgetsChunks(w, r) ==
  IF w.end = "SEND_END" \/ w.state = "SEND_BODY" THEN <<>> ELSE <<FullFrame(r.code)>>

EndOutFallsThrough(w, r) ==
  IF w.end = "SEND_END" \/ w.state = "SEND_BODY" THEN <<>>
  ELSE IF w.state = "SEND_CHUNKED" THEN <<LastFrame, FullFrame(r.code)>>
  ELSE <<FullFrame(r.code)>>

EndOut(w, r) ==
  IF w.end = "SEND_END" THEN <<>>
  ELSE IF w.state = "SEND_CHUNKED" THEN <<LastFrame>>
  ELSE IF w.state = "SEND_BODY" THEN <<>>
  ELSE IF w.state = "SEND_HEADER" THEN <<ChunkFrame({})>>
  ELSE <<FullFrame(r.code)>>
-----------------------------------------------------------------------------
\* The HTTP client's reading of the stream: the state of its response parser
\* after the frames accepted so far.  "cut" is a stream with a hole, "broken"
\* one that no HTTP parser accepts.  src collects the connections whose
\* workers the bytes came from.
Stream(Conn) == [phase : {"none", "open", "done", "cut", "broken"},
                 code : Code \cup {0}, items : SUBSET Nat, src : SUBSET Conn]

EmptyStream == [phase |-> "none", code |-> 0, items |-> {}, src |-> {}]

Receive(s, f, from) ==
  LET t == [s EXCEPT !.src = @ \cup {from}]
  IN  IF s.phase = "cut" THEN t
      ELSE IF s.phase = "none" /\ f.kind = "head"
           THEN [t EXCEPT !.phase = "open", !.code = f.code]
      ELSE IF s.phase = "none" /\ f.kind = "full"
           THEN [t EXCEPT !.phase = "done", !.code = f.code]
      ELSE IF s.phase = "open" /\ f.kind = "chunk" /\ s.items \cap f.items = {}
           THEN [t EXCEPT !.items = @ \cup f.items]
      ELSE IF s.phase = "open" /\ f.kind = "last"
           THEN [t EXCEPT !.phase = "done"]
      ELSE [t EXCEPT !.phase = "broken"]
=============================================================================
