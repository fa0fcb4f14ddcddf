--------------------------- MODULE ResponseInStep ---------------------------
(***************************************************************************)
(* How read_response_fsm and the server that it listens to go together,    *)
(* while a response is read: the relation that the proofs are about.       *)
(***************************************************************************)
EXTENDS ReadResponseFsm, PgBackend

Fsms == [cur : Int, st : FsmStates, copy : BOOLEAN]
Backends == [pos : Int, ph : BackendPhases, skip : BOOLEAN]

\* The states of the machine and the phases of the backend that belong together
\* in the answer to a message of type t.
Agree(t) ==
  {<<"msg_first", "start">>} \cup
  (IF t = "execute"
   THEN {<<"msg_first", "rows">>, <<"exec_copy_out", "copy">>,
         <<"exec_copy_out_needs_command_complete", "copied">>}
   ELSE IF t = "query"
   THEN {<<"query_first", "results">>, <<"query_rows", "rows">>, <<"query_copy_out", "copy">>,
         <<"query_copy_out_needs_command_complete", "copied">>, <<"query_needs_ready", "ready">>}
   ELSE {})

\* The machine is at the message that the backend answers, or at flushes before it.
Follows(r, f, s) ==
  /\ ~ s.skip
  /\ s.pos \in 1..Len(r) /\ f.cur \in 1..s.pos
  /\ \A k \in f.cur..(s.pos - 1) : r[k] = "flush"
  /\ <<f.st, s.ph>> \in Agree(r[s.pos])

\* After an error the machine waits at the sync that the backend gets to next.
Skips(r, f, s) ==
  /\ s.skip /\ s.ph = "start" /\ f.st = "msg_first"
  /\ f.cur \in 1..Len(r) /\ r[f.cur] = "sync"
  /\ s.pos \in 1..f.cur
  /\ \A k \in s.pos..(f.cur - 1) : r[k] # "sync"

InStep(r, f, s) == Follows(r, f, s) \/ Skips(r, f, s)

\* What resuming the machine leads to, with the backend in state s then.
Kept(r, out, s) ==
  /\ out.fsm \in Fsms /\ s \in Backends
  /\ \/ out.type = "read" /\ out.ec = "ok" /\ InStep(r, out.fsm, s)
     \/ out.type = "done" /\ out.ec = "ok" /\ Finished(r, s)
     \/ out.type = "done" /\ out.ec = "copy_not_allowed" /\ ~ out.fsm.copy
=============================================================================
