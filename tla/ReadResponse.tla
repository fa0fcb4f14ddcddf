---------------------------- MODULE ReadResponse ----------------------------
(***************************************************************************)
(* One request and its response: setup_request() checks the request and    *)
(* asks the handlers which answers they take, the backend answers, and     *)
(* read_response_fsm follows the answers and hands them to the handlers.   *)
(* What the machine does depends only on the order of the messages, so     *)
(* each one is delivered as it is sent.                                    *)
(***************************************************************************)
EXTENDS ReadResponseFsm, PgBackend, Handlers

CONSTANTS
  Jobs,             \* what is tried: requests, each with the kinds of its handlers
  RowDescriptions,  \* the columns that resultsets have
  Values,           \* the values that fields have
  MaxCommands,      \* bound: the commands that a response completes
  MaxRows           \* bound: its rows, COPY data included

ASSUME ResponseParams ==
  /\ Jobs \subseteq [req : Seq(MessageTypes), kinds : Seq(Kinds)]
  /\ MaxCommands \in Nat /\ MaxRows \in Nat

VARIABLES req,    \* the request
          resp,   \* the response object with its handlers
          phase,  \* what the caller of the machine is doing
          ec,     \* the error code that ended the operation
          fsm,    \* the state machine
          srv,    \* the backend
          sent,   \* what the backend has answered
          seen    \* what the handlers have been told about each message of req

vars == <<req, resp, phase, ec, fsm, srv, sent, seen>>

-----------------------------------------------------------------------------
(* What a response handler may rely on: each message of the request is     *)
(* reported by one answer, and the answer to a query is a list of          *)
(* resultsets, each one opened by a description.                           *)

HandlerStates == {"nothing", "open", "between", "ended", "broken"}

\* The answers so far to a message of type t, after one more call.
After(t, s, k) ==
  CASE s \in {"ended", "broken"} -> "broken"
    [] s \notin {"ended", "broken"} /\ k = "message_skipped" ->
         IF s = "nothing" THEN "ended" ELSE "broken"
    [] s \notin {"ended", "broken"} /\ k = "error_response" -> "ended"
    [] s \notin {"ended", "broken"} /\ k \notin {"message_skipped", "error_response"} ->
         CASE t = "execute" /\ k \in {"row_description", "data_row"} -> "open"
           [] t = "query" /\ k = "row_description" -> IF s = "open" THEN "broken" ELSE "open"
           [] t = "query" /\ k = "data_row" -> IF s = "open" THEN "open" ELSE "broken"
           [] t = "query" /\ k = "command_complete" ->
                IF s = "open" THEN "between" ELSE "broken"
           [] t = "query" /\ k = "empty_query_response" ->
                IF s = "nothing" THEN "ended" ELSE "broken"
           [] OTHER -> "ended"

\* The calls of one resumption; at most two concern the same message.
AfterCalls(calls) ==
  [i \in DOMAIN seen |->
     LET mine == {j \in DOMAIN calls : calls[j][1] = i}
         one  == After(req[i], seen[i], calls[Min(mine)][2])
     IN  IF mine = {} THEN seen[i]
         ELSE IF Min(mine) = Max(mine) THEN one ELSE After(req[i], one, calls[Max(mine)][2])]

-----------------------------------------------------------------------------
(* The data in the answers.  check looks at no data: with it alone, data   *)
(* is empty and only errors are remembered.                                *)

Quiet == [i \in DOMAIN resp.handlers |-> resp.handlers[i].kind] = <<"check">>

Described(log) ==
  LET at == {i \in DOMAIN log : log[i].kind \in {"row_description", "no_data"}}
  IN  IF at = {} THEN <<>> ELSE log[Max(at)].data

DataOf(k) ==
  CASE k = "row_description" -> IF Quiet THEN {<<>>} ELSE RowDescriptions
    [] k = "data_row" -> IF Quiet THEN {<<>>} ELSE [DOMAIN Described(sent) -> Values]
    [] k = "command_complete" -> {Len(sent) + 1}  \* a tag of its own
    [] OTHER -> {<<>>}

\* The portal of a COPY, or of nothing, is described as one without columns.
Sensible(k) ==
  k \in {"copy_out_response", "empty_query_response"} /\ req[srv.pos] = "execute" =>
    Described(sent) = <<>>

HowMany(kinds) == Cardinality({i \in DOMAIN sent : sent[i].kind \in kinds})

WithinBounds(k) ==
  Quiet \/ /\ k \in {"data_row", "copy_data"} => HowMany({"data_row", "copy_data"}) < MaxRows
           /\ k \in {"row_description", "copy_out_response", "command_complete"} =>
                HowMany({"command_complete"}) < MaxCommands

Log(k, data) ==
  IF Quiet /\ k # "error_response" THEN sent
  ELSE Append(sent, [pos |-> srv.pos, kind |-> k, data |-> data])

-----------------------------------------------------------------------------
\* An object with one handler may have served before; response::current_ never
\* goes back, so an object with several may not.
Init ==
  /\ \E job \in Jobs, new \in BOOLEAN :
       /\ new \/ Len(job.kinds) = 1
       /\ req = job.req
       /\ resp = NewResponse([i \in DOMAIN job.kinds |->
                    IF new THEN NewHandler(job.kinds[i]) ELSE UsedHandler(job.kinds[i])])
  /\ phase = "setup" /\ ec = "ok"
  /\ fsm \in {NewFsm(copy) : copy \in BOOLEAN}  \* exec_some() and exec()
  /\ srv = NewBackend /\ sent = <<>>
  /\ seen = [i \in 1..Len(req) |-> "nothing"]

\* setup_request(); a request that passes is written to the server.
Setup ==
  /\ phase = "setup"
  /\ \E res \in SetupRequest(req, resp.handlers) :
       /\ ec' = res.ec
       /\ phase' = IF ec' = "ok" THEN "reading" ELSE "rejected"
       /\ resp' = IF ec' # "ok" THEN resp
                  ELSE [resp EXCEPT !.offsets = res.offsets,
                                    !.handlers = [i \in DOMAIN @ |-> Reset(@[i])]]
  /\ UNCHANGED <<req, fsm, srv, sent, seen>>

BackendPassesOver ==
  /\ phase = "reading" /\ Silent(req, srv)
  /\ srv' = PassOver(srv)
  /\ UNCHANGED <<req, resp, phase, ec, fsm, sent, seen>>

\* The calls of a resumption with a message of kind k, one after the other.  A
\* description that the machine makes up has no columns.
AfterTold(calls, k, data) ==
  LET upto[n \in 0..Len(calls)] ==
        IF n = 0 THEN resp
        ELSE ResponseOn(upto[n - 1],
               [pos |-> calls[n][1], kind |-> calls[n][2],
                data |-> IF calls[n][2] = k THEN data ELSE <<>>])
  IN  upto[Len(calls)]

\* The machine is resumed with a message, and the caller stops when it is done.
Deliver(k, data) ==
  LET out == Resume(req, fsm, k)
  IN  /\ fsm' = out.fsm
      /\ resp' = AfterTold(out.calls, k, data)
      /\ seen' = AfterCalls(out.calls)
      /\ ec' = out.ec
      /\ phase' = IF out.type = "done" THEN "done" ELSE "reading"

BackendReplies ==
  /\ phase = "reading"
  /\ \E reply \in Replies(req, srv) :
       /\ WithinBounds(reply[1]) /\ Sensible(reply[1])
       /\ srv' = reply[2]
       /\ \E data \in DataOf(reply[1]) :
            /\ sent' = Log(reply[1], data)
            /\ Deliver(reply[1], data)
  /\ UNCHANGED req

BackendInterjects ==
  /\ phase = "reading"
  /\ \E k \in AsyncKinds : Deliver(k, <<>>)
  /\ UNCHANGED <<req, srv, sent>>

Next == Setup \/ BackendPassesOver \/ BackendReplies \/ BackendInterjects

Spec == Init /\ [][Next]_vars

-----------------------------------------------------------------------------
(* Properties *)

TypeOK ==
  /\ req \in Seq(MessageTypes)
  /\ phase \in {"setup", "rejected", "reading", "done"}
  /\ fsm \in [cur : 1..(Len(req) + 1), st : FsmStates, copy : BOOLEAN]
  /\ srv \in [pos : 1..(Len(req) + 1), ph : BackendPhases, skip : BOOLEAN]
  /\ seen \in [1..Len(req) -> HandlerStates]

\* check_request() accepts exactly the requests made of whole units, so that
\* "we can manage errors by counting ready_for_query messages".
AcceptsWholeUnits ==
  phase # "setup" =>
    (~WellFormed(req) <=>
       phase = "rejected" /\ ec \notin {"incompatible_response_type", "incompatible_response_length"})

\* Whatever the backend answers, however errors cut the batches short and
\* wherever asynchronous messages fall, the machine takes every message (except
\* for a COPY OUT that the caller did not allow) and is done exactly with the
\* last one: it leaves nothing on the wire for the next request, and waits for
\* nothing.
EndsWithResponse ==
  /\ phase = "done" => ec = "ok" \/ (ec = "copy_not_allowed" /\ ~fsm.copy)
  /\ phase \in {"reading", "done"} /\ ec = "ok" =>
       ((phase = "done") <=> Finished(req, srv))

\* At every point of the response, abandoning it and counting the messages that
\* remain (read_response_stream_fsm::abandon_current) gives the number of
\* ReadyForQuery messages that the backend still owes, and it is not zero.
RfqsMatch ==
  phase = "reading" =>
    /\ RemainingRfqs(req, fsm) = OwedRfqs(req, srv)
    /\ RemainingRfqs(req, fsm) > 0

\* The handler is told about the messages of the request in order, about each
\* one completely and once, also when an error makes the server skip some.
HandlerContract ==
  phase \in {"reading", "done"} =>
    \A i \in 1..Len(req) :
      /\ seen[i] # "broken"
      /\ i > fsm.cur \/ req[i] \in {"flush", "sync"} => seen[i] = "nothing"
      /\ i < fsm.cur /\ req[i] \notin {"flush", "sync"} =>
           seen[i] = "ended" \/ (req[i] = "query" /\ seen[i] = "between")

-----------------------------------------------------------------------------
(* The handlers *)

Segment(i) == ((IF i = 1 THEN 0 ELSE resp.offsets[i - 1]) + 1)..resp.offsets[i]
Own(i) == SelectSeq(sent, LAMBDA m : m.pos \in Segment(i))

\* The messages of the request in the part of handler i, from the first to the
\* last that has an answer: the syncs between them are part of it.
Content(i) ==
  LET answered == {j \in Segment(i) : req[j] \notin {"sync", "flush"}}
  IN  IF answered = {} THEN <<>>
      ELSE SelectSeq(SubSeq(req, Min(answered), Max(answered)), LAMBDA t : t # "flush")

\* Resultsets, one after another: queries, and executes with one describe each,
\* with "no sync messages in between" (responses.cpp:93).
ResultsetEnds(c) == {j \in DOMAIN c : c[j] \in {"query", "execute"}}

IsResultsets(c) ==
  /\ c # <<>> /\ Len(c) \in ResultsetEnds(c)
  /\ \A j \in ResultsetEnds(c) :
       LET before == {k \in 1..(j - 1) : \A l \in k..(j - 1) : l \notin ResultsetEnds(c)}
       IN  IF c[j] = "query" THEN before = {}
           ELSE /\ \A k \in before : c[k] \in {"parse", "bind", "describe"}
                /\ Cardinality({k \in before : c[k] = "describe"}) = 1

Takes(kind, c) ==
  CASE kind = "check" -> TRUE
    [] kind = "check_parse" -> c = <<"parse">>
    [] kind = "check_close" -> c = <<"close">>
    [] kind = "describe_into" -> c = <<"describe">>
    [] kind = "resultsets_handler" -> IsResultsets(c)
    [] kind \in {"check_execute", "resultset_callback"} ->
         IsResultsets(c) /\ Cardinality(ResultsetEnds(c)) = 1

\* A request that setup_request() lets through is shared out completely, and
\* each handler has the messages whose answers it can take; none of them goes
\* beyond the request, although resultset_setup() may look there.
FitsRequest ==
  phase \in {"reading", "done"} =>
    /\ resp.offsets[Len(resp.offsets)] = Len(req)
    /\ \A i \in DOMAIN resp.handlers :
         resp.offsets[i] <= Len(req) /\ Takes(resp.handlers[i].kind, Content(i))

\* When the response is over, result() is an error if the server has sent one,
\* and a server error in result() is the first that was sent.
ErrorsReported ==
  phase = "done" /\ ec = "ok" =>
    LET errors == {sent[i].pos : i \in {j \in DOMAIN sent : sent[j].kind = "error_response"}}
        res == ResponseResult(resp)
    IN  /\ errors # {} => res # NoError
        /\ res[1] = "server" => errors # {} /\ res[3] = Min(errors)

\* The only assertions of the handlers that can fail are those of the cases the
\* code lists as not managed yet: skipped messages, empty queries, and several
\* resultsets for one resultset_callback; and a COPY OUT that is executed with
\* the extended protocol, which is described twice.
OnlyKnownGaps ==
  /\ ~resp.failed
  /\ \A i \in DOMAIN resp.handlers :
       /\ resp.handlers[i].failed \subseteq
            {"message_skipped", "empty_query_response", "second_resultset", "state"}
       /\ resp.handlers[i].failed = {"state"} =>
            \E m \in Range(sent) : m.kind = "copy_out_response" /\ req[m.pos] = "execute"

\* "The rest of the messages shouldn't arrive": no assertion of a handler fails.
NoAssertionFails == \A i \in DOMAIN resp.handlers : resp.handlers[i].failed = {}

-----------------------------------------------------------------------------
(* What the user should see, from what the server has sent.                *)

EndKinds == {"command_complete", "portal_suspended", "error_response"}

Resultset(log, from, to) ==
  LET part == SubSeq(log, from, to)
      cols == Described(part)
      rows == SelectSeq(part, LAMBDA m : m.kind = "data_row")
  IN  [cols |-> cols,
       rows |-> IF cols = <<>> THEN <<>> ELSE [i \in DOMAIN rows |-> rows[i].data],
       info |-> [tag |-> IF log[to].kind = "command_complete" THEN log[to].data ELSE 0,
                 suspended |-> log[to].kind = "portal_suspended"],
       err |-> IF log[to].kind = "error_response" THEN ServerError(log[to].pos) ELSE NoError]

ExpectedResultsets(log) ==
  LET ends == SelectSeq([i \in DOMAIN log |-> i], LAMBDA i : log[i].kind \in EndKinds)
  IN  [n \in DOMAIN ends |->
         Resultset(log, IF n = 1 THEN 1 ELSE ends[n - 1] + 1, ends[n])]

\* The rows that the callback is called with: all those up to the first that
\* does not fit T, if the columns do and no error came before them.
ExpectedRows(log) ==
  LET cols == Described(log)
      before(m) == \E i \in DOMAIN log :
                     log[i] = m /\ \A j \in 1..i : log[j].kind # "error_response"
      rows == SelectSeq(log, LAMBDA m : m.kind = "data_row" /\ before(m))
      named(f) == {c \in DOMAIN cols : cols[c].name = NameTable[f]}
      fits == \A f \in DOMAIN NameTable :
                named(f) # {} /\ cols[Max(named(f))].type = "int4"
      good(i) == \A f \in DOMAIN NameTable :
                   LET v == rows[i].data[Max(named(f))]
                   IN  IF v = Null THEN f = 2 ELSE v # <<>> /\ \A j \in DOMAIN v : v[j] < 10
      n == IF ~fits THEN 0
           ELSE Max({0} \cup {m \in DOMAIN rows : \A i \in 1..m : good(i)})
  IN  [i \in 1..n |-> [f \in DOMAIN NameTable |-> rows[i].data[Max(named(f))]]]

\* At every moment each handler holds exactly what the server has sent for its
\* part of the request: the resultsets seen through the views, the rows given
\* to the callback, the description, the command tag.
ResultsMatch ==
  phase \in {"reading", "done"} /\ ec = "ok" /\ ~Quiet =>
    \A i \in DOMAIN resp.handlers :
      LET h == resp.handlers[i]
          all == [offset |-> 0, length |-> Len(h.obj.descr)]
          log == Own(i)
          tags == SelectSeq(log, LAMBDA m : m.kind = "command_complete")
      IN
      CASE h.kind = "resultsets_handler" ->
             [n \in DOMAIN h.obj.results |-> ResultsetView(h.obj, h.obj.results[n])]
               = ExpectedResultsets(log)
        [] h.kind = "describe_into" -> FieldDescriptions(h.obj, all) = Described(log)
        [] h.kind = "check_execute" ->
             h.info.tag = IF tags = <<>> THEN 0 ELSE tags[Len(tags)].data
        [] h.kind = "resultset_callback" ->
             h.failed = {} => h.out = ExpectedRows(log)
        [] OTHER -> TRUE

\* "If any of the messages we expect was skipped due to a previous error, that's
\* an error": a resultset_callback that reports success has had its resultset
\* to the end, and all of its rows.
NoSilentSkip ==
  phase = "done" /\ ec = "ok" =>
    \A i \in DOMAIN resp.handlers :
      LET h == resp.handlers[i]
          log == Own(i)
      IN  h.kind = "resultset_callback" /\ h.err = NoError /\ h.failed = {} =>
            /\ \E m \in Range(log) : m.kind \in {"command_complete", "portal_suspended"}
            /\ Len(h.out) = Len(SelectSeq(log, LAMBDA m : m.kind = "data_row"))

\* The handlers tell the caller of every error, and report no success for what
\* an error has skipped.
ErrorsAreTold == ErrorsReported /\ NoSilentSkip

\* Every variable has its type, the handlers hold what the server sent, at every
\* moment, and no assertion of theirs fails but the ones of the listed gaps.
ResultsAreHeld == TypeOK /\ ResultsMatch /\ OnlyKnownGaps

=============================================================================
