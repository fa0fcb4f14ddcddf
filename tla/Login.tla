------------------------------- MODULE Login -------------------------------
(***************************************************************************)
(* What connect() promises: a client that is told that it is connected is  *)
(* connected to a server that has approved it, in the session that the     *)
(* call has opened; every other call ends with the client disconnected.    *)
(***************************************************************************)

VARIABLES
  client,   \* "down", "logging_in", "up"
  server    \* what the peer of the client's socket has decided:
            \* "none", "deciding", "approved", "ready", "refused"

vars == <<client, server>>

Init == client = "down" /\ server = "none"

Dial    == client = "down" /\ client' = "logging_in" /\ server' = "none"
Accept  == client = "logging_in" /\ server = "none" /\ server' = "deciding" /\ UNCHANGED client
Decide  == /\ client = "logging_in"
           /\ \/ server = "deciding" /\ server' \in {"approved", "refused"}
              \/ server = "approved" /\ server' \in {"ready", "refused"}
           /\ UNCHANGED client
Succeed == client = "logging_in" /\ server = "ready" /\ client' = "up" /\ UNCHANGED server
GiveUp  == client = "logging_in" /\ client' = "down" /\ server' = "none"
Lose    == client = "up" /\ client' = "down" /\ server' = "none"

Next == Dial \/ Accept \/ Decide \/ Succeed \/ GiveUp \/ Lose

\* A login never makes the client "up" unless the server is ready.
Spec == Init /\ [][Next]_vars

\* A login that was begun comes to an end.
FairSpec == Spec /\ WF_vars(Succeed \/ GiveUp)

=============================================================================
