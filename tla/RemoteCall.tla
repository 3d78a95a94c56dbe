----------------------------- MODULE RemoteCall -----------------------------
(***************************************************************************)
(* What a RiiFS mount promises to the filesystem module.  A call gives     *)
(* commands to the server, one at a time.  Each is carried out at most     *)
(* once, with the arguments of the call, before its answer is returned;    *)
(* what the call learns is that answer.  It goes without one only when the *)
(* connection is gone, and then it learns of a failure, and nobody knows   *)
(* whether the command was carried out.                                    *)
(***************************************************************************)
EXTENDS Integers, Sequences

CONSTANTS
  Kinds,       \* the kinds of calls
  Requests,    \* what a call may ask of the server
  Results,     \* what the server may answer; a failure is negative
  Nothing      \* no request

VARIABLES
  call,        \* the kind of the call in progress, or "none"
  up,          \* whether there is a connection
  request,     \* the request of the call that has no answer yet, or Nothing
  performed,   \* each time that request was carried out, and with what result
  failed       \* what the call has learned from its last request

vars == <<call, up, request, performed, failed>>

Init == call = "none" /\ ~ up /\ request = Nothing /\ performed = << >> /\ ~ failed

\* A call begins, and may connect, or it ends, and may disconnect; or it is
\* followed at once by one of another kind.
Turn ==
  /\ request = Nothing
  /\ call' \in (Kinds \cup {"none"}) \ {call}
  /\ \/ up' = up
     \/ call = "none" /\ up' = TRUE
     \/ call' = "none" /\ up' = FALSE
  /\ failed' = FALSE
  /\ UNCHANGED <<request, performed>>

Ask ==
  /\ call # "none" /\ request = Nothing
  /\ request' \in Requests
  /\ UNCHANGED <<call, up, performed, failed>>

\* The server carries the request out, for the first time; the last request of
\* all ends the connection.
Perform ==
  /\ up /\ request # Nothing /\ performed = << >>
  /\ \E r \in Results : performed' = <<[req |-> request, ret |-> r]>>
  /\ up' \in {up, FALSE}
  /\ UNCHANGED <<call, request, failed>>

\* The call learns what came of its request.
Answer ==
  /\ request # Nothing /\ performed # << >>
  /\ request' = Nothing /\ performed' = << >>
  /\ failed' = (performed[1].ret < 0)
  /\ UNCHANGED <<call, up>>

\* Without a connection the call learns that its request has failed, carried
\* out or not, or that none can be made.
Fail ==
  /\ call # "none" /\ ~ up
  /\ request' = Nothing /\ performed' = << >>
  /\ failed' = TRUE
  /\ UNCHANGED <<call, up>>

\* The connection may be lost at any time.
Lose == up /\ up' = FALSE /\ UNCHANGED <<call, request, performed, failed>>

Next == Turn \/ Ask \/ Perform \/ Answer \/ Fail \/ Lose

Spec == Init /\ [][Next]_vars
=============================================================================
