----------------------------- MODULE ByteStream -----------------------------
(***************************************************************************)
(* What a connection promises to those who write on it (hloop.h: hio_write *)
(* and hio_close may be called by other threads): the peer receives, in    *)
(* order and without a gap, the bytes of the frames that were taken, until *)
(* the connection is closed; it is closed only when somebody asked for it; *)
(* and what was taken is delivered or the connection is closed.            *)
(***************************************************************************)
EXTENDS Naturals, Sequences

CONSTANTS
  Link,     \* connections
  Frames    \* the frames that may be written, each the sequence of its bytes

VARIABLES
  state,    \* of each connection: "new", "up", "down"
  taken,    \* the bytes of the frames taken from its writers
  received, \* the bytes its peer has been sent
  asked     \* somebody has asked for its close, or something has failed

vars == <<state, taken, received, asked>>
-----------------------------------------------------------------------------
Open(l) ==
  /\ state[l] = "new"
  /\ state' = [state EXCEPT ![l] = "up"]
  /\ UNCHANGED <<taken, received, asked>>

\* A frame is taken, and some of the bytes taken so far are sent on.
Take(l) ==
  /\ state[l] = "up"
  /\ \E f \in Frames : taken' = [taken EXCEPT ![l] = @ \o f]
  /\ \E n \in 0..Len(taken'[l]) : received' = [received EXCEPT ![l] = SubSeq(taken'[l], 1, n)]
  /\ Len(received'[l]) >= Len(received[l])
  /\ UNCHANGED <<state, asked>>

Deliver(l) ==
  /\ state[l] = "up"
  /\ \E n \in (Len(received[l]) + 1)..Len(taken[l]) :
       received' = [received EXCEPT ![l] = SubSeq(taken[l], 1, n)]
  /\ UNCHANGED <<state, taken, asked>>

Ask(l) ==
  /\ state[l] = "up"
  /\ asked' = [asked EXCEPT ![l] = TRUE]
  /\ UNCHANGED <<state, taken, received>>

\* What has been asked for may be granted in the same step.
Close(l) ==
  /\ state[l] = "up" /\ asked[l]
  /\ state' = [state EXCEPT ![l] = "down"]
  /\ UNCHANGED <<taken, received, asked>>

Init ==
  /\ state = [l \in Link |-> "new"]
  /\ taken = [l \in Link |-> <<>>]
  /\ received = [l \in Link |-> <<>>]
  /\ asked = [l \in Link |-> FALSE]

Next == \E l \in Link : Open(l) \/ Take(l) \/ Deliver(l) \/ Ask(l) \/ Close(l)

\* Nothing that was taken stays behind on a connection that is up, and no close
\* that was asked for is forgotten.
Delivered(l) == state[l] = "up" /\ received[l] # taken[l]
                  ~> state[l] = "down" \/ received[l] = taken[l]
Closed(l)    == asked[l] ~> state[l] = "down"

Spec == Init /\ [][Next]_vars /\ \A l \in Link : Delivered(l) /\ Closed(l)
=============================================================================
