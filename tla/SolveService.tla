---------------------------- MODULE SolveService ----------------------------
(***************************************************************************)
(* What the HTTP service of the ODE server promises to a client, without   *)
(* threads, writers or sockets: a connection carries one call at a time,   *)
(* and every call ends either with one reply that the kind of the call     *)
(* allows or with the loss of the connection.  A connection on which       *)
(* nothing is outstanding may be lost and taken up again at any time.      *)
(***************************************************************************)
CONSTANTS Conn,      \* connections
          Requests   \* kinds of call the clients make

VARIABLES call,      \* the kind of the latest call of a connection
          outcome    \* what has become of it

vars == <<call, outcome>>

\* "solution" is a complete result document; "spoiled" one that was given up for
\* the text of an error after its beginning had been sent, "failed" an error alone.
\* There is no document that lacks a part and does not say so.
Replies(k) ==
  CASE k = "ping"      -> {"pong"}
    [] k = "malformed" -> {"rejected"}
    [] k = "failing"   -> {"rejected", "failed"}
    [] k = "solvable"  -> {"rejected", "failed", "spoiled", "solution"}
    [] k = "divergent" -> {"rejected"}

Outcome == {"none", "pending", "dropped"} \cup UNION {Replies(k) : k \in Requests}

Init == /\ call \in [Conn -> Requests \cup {"ping"}]
        /\ outcome = [c \in Conn |-> "dropped"]

\* A connection is accepted.
Open(c) == /\ outcome[c] # "pending"
           /\ outcome' = [outcome EXCEPT ![c] = "none"]
           /\ UNCHANGED call

\* The client calls, the previous call having been replied to.
Call(c, k) == /\ outcome[c] \notin {"pending", "dropped"}
              /\ call' = [call EXCEPT ![c] = k]
              /\ outcome' = [outcome EXCEPT ![c] = "pending"]

Reply(c) == /\ outcome[c] = "pending"
            /\ \E r \in Replies(call[c]) : outcome' = [outcome EXCEPT ![c] = r]
            /\ UNCHANGED call

Drop(c) == /\ outcome' = [outcome EXCEPT ![c] = "dropped"]
           /\ UNCHANGED call

Next == \E c \in Conn : \/ Open(c) \/ Reply(c) \/ Drop(c)
                        \/ \E k \in Requests : Call(c, k)

\* No call stays pending for ever.
Fairness == \A c \in Conn : WF_vars(outcome[c] = "pending" /\ (Reply(c) \/ Drop(c)))

Spec == Init /\ [][Next]_vars /\ Fairness
=============================================================================
