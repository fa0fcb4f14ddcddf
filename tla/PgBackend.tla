----------------------------- MODULE PgBackend -----------------------------
(***************************************************************************)
(* The server side of a connection, external to the library: how a         *)
(* PostgreSQL backend answers the messages of one request.  The grammar is *)
(* the one the comments of read_response_fsm.cpp give for each message.    *)
(*                                                                         *)
(* The state is a record: pos is the message being answered, ph how far    *)
(* its answer has got, skip whether messages are being discarded until the *)
(* next sync because of an error.                                          *)
(***************************************************************************)
EXTENDS Request

BackendPhases == {"start", "rows", "results", "copy", "copied", "ready"}

NewBackend == [pos |-> 1, ph |-> "start", skip |-> FALSE]

Finished(r, s) == s.pos > Len(r)

\* Messages that the backend passes over without answering.
Silent(r, s) ==
  /\ ~Finished(r, s)
  /\ r[s.pos] = "flush" \/ (s.skip /\ r[s.pos] # "sync")

PassOver(s) == [s EXCEPT !.pos = @ + 1]

Ended(s)    == [pos |-> s.pos + 1, ph |-> "start", skip |-> FALSE]
Failed(s)   == [pos |-> s.pos + 1, ph |-> "start", skip |-> TRUE]
InPhase(s, ph) == [s EXCEPT !.ph = ph]

\* The answers to an execute, as pairs <<message, next state>>.
ExecuteReplies(s) ==
  {<<"error_response", Failed(s)>>} \cup
  CASE s.ph = "start" ->
         {<<k, Ended(s)>> : k \in {"command_complete", "portal_suspended",
                                   "empty_query_response"}} \cup
         {<<"data_row", InPhase(s, "rows")>>, <<"copy_out_response", InPhase(s, "copy")>>}
    [] s.ph = "rows" ->
         {<<k, Ended(s)>> : k \in {"command_complete", "portal_suspended"}} \cup
         {<<"data_row", s>>}
    [] s.ph = "copy"   -> {<<"copy_data", s>>, <<"copy_done", InPhase(s, "copied")>>}
    [] s.ph = "copied" -> {<<"command_complete", Ended(s)>>}

\* The answers to a simple query, which may hold several statements.
QueryReplies(s) ==
  LET error == <<"error_response", InPhase(s, "ready")>>
      statement == {<<"row_description", InPhase(s, "rows")>>,
                    <<"command_complete", InPhase(s, "results")>>,
                    <<"copy_out_response", InPhase(s, "copy")>>, error}
  IN  CASE s.ph = "start" ->
             statement \cup {<<"empty_query_response", InPhase(s, "ready")>>}
        [] s.ph = "results" -> statement \cup {<<"ready_for_query", Ended(s)>>}
        [] s.ph = "rows" ->
             {<<"data_row", s>>, <<"command_complete", InPhase(s, "results")>>, error}
        [] s.ph = "copy" ->
             {<<"copy_data", s>>, <<"copy_done", InPhase(s, "copied")>>, error}
        [] s.ph = "copied" -> {<<"command_complete", InPhase(s, "results")>>, error}
        [] s.ph = "ready"  -> {<<"ready_for_query", Ended(s)>>}

\* The answers to the message at pos.
Replies(r, s) ==
  LET fails == <<"error_response", Failed(s)>>
  IN  IF Finished(r, s) \/ Silent(r, s) THEN {}
      ELSE CASE r[s.pos] = "bind"  -> {<<"bind_complete", Ended(s)>>, fails}
             [] r[s.pos] = "close" -> {<<"close_complete", Ended(s)>>, fails}
             [] r[s.pos] = "parse" -> {<<"parse_complete", Ended(s)>>, fails}
             [] r[s.pos] = "describe" ->
                  {<<"row_description", Ended(s)>>, <<"no_data", Ended(s)>>, fails}
             [] r[s.pos] = "execute" -> ExecuteReplies(s)
             [] r[s.pos] = "query"   -> QueryReplies(s)
             [] r[s.pos] = "sync"    -> {<<"ready_for_query", Ended(s)>>}

\* The ReadyForQuery messages that the backend has yet to send: queries that
\* are discarded are not answered.
OwedRfqs(r, s) ==
  Cardinality({i \in RfqPositions(r, s.pos) :
    ~(s.skip /\ \A j \in s.pos..i : r[j] # "sync")})
=============================================================================
