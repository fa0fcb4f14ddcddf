-------------------------- MODULE ReadResponseFsm --------------------------
(***************************************************************************)
(* protocol::read_response_fsm: matches the messages of the server with    *)
(* the messages of one request and feeds the response handler.             *)
(*                                                                         *)
(* A state machine is a record: cur is current_ (counted from 1), st is    *)
(* state_, copy is allow_copy_.  Resuming it yields an outcome: the new    *)
(* machine, whether it is done, the error code, and the calls made to      *)
(* handler.on_message() as pairs <<position in the request, message>>.     *)
(***************************************************************************)
EXTENDS Request

FsmStates ==
  {"msg_first", "query_first", "query_needs_ready", "query_rows",
   "exec_copy_out", "exec_copy_out_needs_command_complete",
   "query_copy_out", "query_copy_out_needs_command_complete"}

\* Messages that the server may send at any point.
AsyncKinds == {"notice_response", "notification_response", "parameter_status"}

NewFsm(copy) == [cur |-> 1, st |-> "msg_first", copy |-> copy]

\* return result_type::read, after moving to st and calling the handler.
Read(f, st, kinds) ==
  [fsm |-> [f EXCEPT !.st = st], type |-> "read", ec |-> "ok",
   calls |-> [i \in 1..Len(kinds) |-> <<f.cur, kinds[i]>>]]

\* return an error: the machine stays where it is.
Fail(f, ec) == [fsm |-> f, type |-> "done", ec |-> ec, calls |-> <<>>]

Unexpected(f) == Fail(f, "unexpected_message")

\* advance(); every caller is, or has just been set to be, in msg_first.
NeverDone(r, f, kinds) ==  \* mutant: the end of the request is not noticed
  [fsm |-> [f EXCEPT !.cur = @ + 1, !.st = "msg_first"], type |-> "read", ec |-> "ok",
   calls |-> [i \in 1..Len(kinds) |-> <<f.cur, kinds[i]>>]]

DoneBeforeSync(r, f, kinds) ==  \* mutant: the last message is not waited for
  [fsm |-> [f EXCEPT !.cur = @ + 1, !.st = "msg_first"],
   type |-> IF f.cur + 1 >= Len(r) THEN "done" ELSE "read", ec |-> "ok",
   calls |-> [i \in 1..Len(kinds) |-> <<f.cur, kinds[i]>>]]

Advance(r, f, kinds) ==
  [fsm |-> [f EXCEPT !.cur = @ + 1, !.st = "msg_first"],
   type |-> IF f.cur + 1 > Len(r) THEN "done" ELSE "read", ec |-> "ok",
   calls |-> [i \in 1..Len(kinds) |-> <<f.cur, kinds[i]>>]]

\* The first sync after position i, or the end of the request.
NextSync(r, i) ==
  CHOOSE j \in (i + 1)..(Len(r) + 1) :
    /\ j <= Len(r) => r[j] = "sync"
    /\ \A k \in (i + 1)..(j - 1) : r[k] # "sync"

ErrorEndsMessage(r, f) ==  \* mutant: only the failing message is given up
  [fsm |-> [f EXCEPT !.cur = @ + 1, !.st = "msg_first"], type |-> "read", ec |-> "ok",
   calls |-> <<<<f.cur, "error_response">>>>]

SkipsQuietly(r, f) ==  \* mutant: the handler is not told what was skipped
  [fsm |-> [f EXCEPT !.cur = NextSync(r, @), !.st = "msg_first"], type |-> "read", ec |-> "ok",
   calls |-> <<<<f.cur, "error_response">>>>]

\* The loop of handle_error(): Skipped(r, i)[j] are the calls for the messages
\* after position i and up to j.
Skipped(r, i) ==
  LET skipped[j \in i..Len(r)] ==
        IF j = i THEN <<>>
        ELSE IF r[j] = "flush" THEN skipped[j - 1]
        ELSE Append(skipped[j - 1], <<j, "message_skipped">>)
  IN  skipped

\* handle_error(): what follows up to the next sync is reported as skipped.
HandleError(r, f) ==
  LET s == NextSync(r, f.cur)
  IN  [fsm |-> [f EXCEPT !.cur = s, !.st = "msg_first"],
       type |-> IF s <= Len(r) THEN "read" ELSE "done",
       ec |-> IF s <= Len(r) THEN "ok" ELSE "request_ends_without_sync",
       calls |-> <<<<f.cur, "error_response">>>> \o Skipped(r, f.cur)[s - 1]]

\* handle_bind(), handle_close(), handle_parse(): one message ends them.
HandleBind(r, f, k) ==
  CASE k = "error_response" -> HandleError(r, f)
    [] k = "bind_complete"  -> Advance(r, f, <<k>>)
    [] OTHER                -> Unexpected(f)

HandleClose(r, f, k) ==
  CASE k = "error_response" -> HandleError(r, f)
    [] k = "close_complete" -> Advance(r, f, <<k>>)
    [] OTHER                -> Unexpected(f)

HandleParse(r, f, k) ==
  CASE k = "error_response" -> HandleError(r, f)
    [] k = "parse_complete" -> Advance(r, f, <<k>>)
    [] OTHER                -> Unexpected(f)

\* handle_describe() knows only the description of a portal.
HandleDescribe(r, f, k) ==
  CASE k = "error_response"               -> HandleError(r, f)
    [] k \in {"row_description", "no_data"} -> Advance(r, f, <<"row_description">>)
    [] OTHER                              -> Unexpected(f)

\* handle_sync()
HandleSync(r, f, k) ==
  IF k = "ready_for_query" THEN Advance(r, f, <<>>) ELSE Unexpected(f)

\* A COPY OUT block begins: the handler sees an empty resultset.
StartCopy(f, st) ==
  IF f.copy THEN Read(f, st, <<"row_description">>) ELSE Fail(f, "copy_not_allowed")

HandleExecute(r, f, k) ==
  CASE f.st \in {"msg_first", "exec_copy_out", "exec_copy_out_needs_command_complete"}
         /\ k = "error_response" -> HandleError(r, f)
    [] f.st = "msg_first" /\ k = "copy_out_response" -> StartCopy(f, "exec_copy_out")
    [] f.st = "msg_first"
         /\ k \in {"command_complete", "empty_query_response", "portal_suspended"} ->
         Advance(r, f, <<k>>)
    [] f.st = "msg_first" /\ k = "data_row" -> Read(f, f.st, <<k>>)
    [] f.st = "exec_copy_out" /\ k = "copy_data" -> Read(f, f.st, <<>>)
    [] f.st = "exec_copy_out" /\ k = "copy_done" ->
         Read(f, "exec_copy_out_needs_command_complete", <<>>)
    [] f.st = "exec_copy_out_needs_command_complete" /\ k = "command_complete" ->
         Advance(r, f, <<k>>)
    [] OTHER -> Unexpected(f)

HandleQuery(r, f, k) ==
  LET first == f.st \in {"msg_first", "query_first"}
      inside == f.st \in {"query_rows", "query_copy_out", "query_copy_out_needs_command_complete"}
  IN
  CASE (first \/ inside) /\ k = "error_response" -> Read(f, "query_needs_ready", <<k>>)
    [] first /\ k = "copy_out_response" -> StartCopy(f, "query_copy_out")
    [] first /\ k = "row_description" -> Read(f, "query_rows", <<k>>)
    [] first /\ k = "command_complete" -> Read(f, "query_first", <<"row_description", k>>)
    [] f.st = "msg_first" /\ k = "empty_query_response" -> Read(f, "query_needs_ready", <<k>>)
    [] f.st \in {"query_first", "query_needs_ready"} /\ k = "ready_for_query" ->
         Advance(r, f, <<>>)
    [] f.st = "query_rows" /\ k = "data_row" -> Read(f, f.st, <<k>>)
    [] f.st = "query_rows" /\ k = "command_complete" -> Read(f, "query_first", <<k>>)
    [] f.st = "query_copy_out" /\ k = "copy_data" -> Read(f, f.st, <<>>)
    [] f.st = "query_copy_out" /\ k = "copy_done" ->
         Read(f, "query_copy_out_needs_command_complete", <<>>)
    [] f.st = "query_copy_out_needs_command_complete" /\ k = "command_complete" ->
         Read(f, "query_first", <<k>>)
    [] OTHER -> Unexpected(f)

\* The position at which resume() looks: nothing is expected for a flush.
SkipFlush(r, i) ==
  CHOOSE j \in i..Len(r) : r[j] # "flush" /\ \A k \in i..(j - 1) : r[k] = "flush"

\* resume()
Resume(r, f, k) ==
  LET g == [f EXCEPT !.cur = SkipFlush(r, @)]
      t == r[g.cur]
  IN
  CASE k \in AsyncKinds -> Read(f, f.st, <<>>)
    [] k \notin AsyncKinds /\ t = "bind"     -> HandleBind(r, g, k)
    [] k \notin AsyncKinds /\ t = "close"    -> HandleClose(r, g, k)
    [] k \notin AsyncKinds /\ t = "describe" -> HandleDescribe(r, g, k)
    [] k \notin AsyncKinds /\ t = "execute"  -> HandleExecute(r, g, k)
    [] k \notin AsyncKinds /\ t = "parse"    -> HandleParse(r, g, k)
    [] k \notin AsyncKinds /\ t = "query"    -> HandleQuery(r, g, k)
    [] k \notin AsyncKinds /\ t = "sync"     -> HandleSync(r, g, k)

\* get_remaining_messages()
RemainingRfqs(r, f) == GetExpectedRfqs(r, f.cur)
=============================================================================
