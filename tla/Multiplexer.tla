---------------------------- MODULE Multiplexer ----------------------------
(***************************************************************************)
(* detail::multiplexer: the queue of requests that share one connection,   *)
(* with read_response_stream_fsm, which gives each response to the request *)
(* it belongs to.                                                          *)
(*                                                                         *)
(* A multiplexer is a record: elems is elems_, where a request is known by *)
(* an identifier; numPending is num_pending_; st, fsm and rfq are status_, *)
(* fsm_ and remaining_rfq_ of the stream machine.  The operations return   *)
(* the new record, with the calls to on_done() and the data to write where *)
(* there are any.                                                          *)
(***************************************************************************)
EXTENDS ReadResponseFsm

ElemStatuses == {"pending", "in_flight", "abandoned_pending", "abandoned_in_flight"}

NewMultiplexer ==
  [elems |-> <<>>, numPending |-> 0, st |-> "initial", fsm |-> NewFsm(FALSE), rfq |-> 0]

Add(m, id) ==
  [m EXCEPT !.elems = Append(@, [id |-> id, st |-> "pending", rfq |-> 0]),
            !.numPending = @ + 1]

PendingOffset(m) == Len(m.elems) - m.numPending

\* abandon_current(): the rest of the response that is being read is ignored.
CountsWholeRequest(m, req) ==  \* mutant: what was read already is counted too
  [m EXCEPT !.st = "ignoring", !.rfq = GetExpectedRfqs(req, 1)]

AbandonCurrent(m, req) == [m EXCEPT !.st = "ignoring", !.rfq = RemainingRfqs(req, m.fsm)]

\* cancel(), of the element at position i, whose request is req.
ForgetsProgress(m, i, req) ==  \* mutant: a response that is being read counts as unread
  [m EXCEPT !.elems[i].st = IF @ = "pending" THEN "abandoned_pending" ELSE "abandoned_in_flight",
            !.elems[i].rfq = GetExpectedRfqs(req, 1)]

Cancel(m, i, req) ==
  CASE m.elems[i].st = "pending" ->
         [m EXCEPT !.elems[i].st = "abandoned_pending"]
    [] m.elems[i].st = "in_flight" /\ i = 1 /\ m.st = "reading" ->
         AbandonCurrent([m EXCEPT !.elems[i].st = "abandoned_in_flight"], req)
    [] m.elems[i].st = "in_flight" /\ ~(i = 1 /\ m.st = "reading") ->
         [m EXCEPT !.elems[i].st = "abandoned_in_flight",
                   !.elems[i].rfq = GetExpectedRfqs(req, 1)]

\* prepare_write(): the pending elements that are alive are put in the buffer.
WritesAbandoned(m) ==  \* mutant: requests that were cancelled are written too
  [mpx |-> [m EXCEPT !.elems = [i \in DOMAIN @ |->
                       IF i > PendingOffset(m) THEN [@[i] EXCEPT !.st = "in_flight"] ELSE @[i]],
                     !.numPending = 0],
   buffer |-> [i \in 1..m.numPending |-> m.elems[PendingOffset(m) + i].id]]

\* The loop of prepare_write(): WriteBuffer(m)[i] is the buffer after element i.
WriteBuffer(m) ==
  LET buffer[i \in PendingOffset(m)..Len(m.elems)] ==
        IF i = PendingOffset(m) THEN <<>>
        ELSE IF m.elems[i].st = "pending" THEN Append(buffer[i - 1], m.elems[i].id)
        ELSE buffer[i - 1]
  IN  buffer

PrepareWrite(m) ==
  [mpx |-> [m EXCEPT !.elems = [i \in DOMAIN @ |->
                       IF i > PendingOffset(m) /\ @[i].st = "pending"
                       THEN [@[i] EXCEPT !.st = "in_flight"] ELSE @[i]],
                     !.numPending = 0],
   buffer |-> WriteBuffer(m)[Len(m.elems)]]

-----------------------------------------------------------------------------
\* The first element that is still interesting, when a response begins.
FirstNotAbandoned(elems) ==
  CHOOSE i \in 1..(Len(elems) + 1) :
    /\ i <= Len(elems) => elems[i].st # "abandoned_pending"
    /\ \A j \in 1..(i - 1) : elems[j].st = "abandoned_pending"

Pop(m) == [m EXCEPT !.elems = Tail(@), !.st = "initial"]

\* A response begins, in on_message(): num_pending_ is left alone.
StartResponse(m) ==
  LET rest == SubSeq(m.elems, FirstNotAbandoned(m.elems), Len(m.elems))
  IN  IF rest = <<>> THEN [m EXCEPT !.elems = <<>>]
      ELSE IF rest[1].st = "abandoned_in_flight"
           THEN [m EXCEPT !.elems = rest, !.st = "ignoring", !.rfq = rest[1].rfq]
           ELSE [m EXCEPT !.elems = rest, !.st = "reading", !.fsm = NewFsm(FALSE)]

Ignore(m, k) ==
  IF k # "ready_for_query" THEN m
  ELSE IF m.rfq = 1 THEN [Pop(m) EXCEPT !.rfq = 0] ELSE [m EXCEPT !.rfq = @ - 1]

DoneAtError(m, req, k) ==  \* mutant: an error is taken for the end of the response
  LET out == Resume(req, m.fsm, k)
  IN  IF out.type = "done" \/ k = "error_response"
      THEN [mpx |-> Pop([m EXCEPT !.fsm = out.fsm]), ec |-> out.ec,
            done |-> {<<m.elems[1].id, out.ec>>}]
      ELSE [mpx |-> [m EXCEPT !.fsm = out.fsm], ec |-> "ok", done |-> {}]

Follow(m, req, k) ==
  LET out == Resume(req, m.fsm, k)
  IN  IF out.type = "done"
      THEN [mpx |-> Pop([m EXCEPT !.fsm = out.fsm]), ec |-> out.ec,
            done |-> {<<m.elems[1].id, out.ec>>}]
      ELSE [mpx |-> [m EXCEPT !.fsm = out.fsm], ec |-> "ok", done |-> {}]

\* on_message(); reqs gives the request of each identifier.
OnMessage(m, reqs, k) ==
  LET started == IF m.st = "initial" THEN StartResponse(m) ELSE m
  IN  CASE k \in AsyncKinds -> [mpx |-> m, ec |-> "ok", done |-> {}]
        [] k \notin AsyncKinds /\ started.st = "initial" ->
             [mpx |-> started, ec |-> "unmatched_request", done |-> {}]
        [] k \notin AsyncKinds /\ started.st = "reading" ->
             Follow(started, reqs[started.elems[1].id], k)
        [] k \notin AsyncKinds /\ started.st = "ignoring" ->
             [mpx |-> Ignore(started, k), ec |-> "ok", done |-> {}]

\* cleanup(): the requests in flight are cancelled, the pending ones stay.
KeepsInFlight(m) ==  \* mutant: the requests in flight are kept for the next connection
  LET IsAlive(elm) == elm.st \in {"pending", "in_flight"}
      alive == SelectSeq(m.elems, IsAlive)
  IN  [mpx |-> [m EXCEPT !.elems = [i \in DOMAIN alive |-> [alive[i] EXCEPT !.st = "pending"]],
                         !.numPending = Len(alive), !.st = "initial"],
       done |-> {}]

Cleanup(m) ==
  [mpx |-> [m EXCEPT !.elems = SubSeq(@, PendingOffset(m) + 1, Len(@)), !.st = "initial"],
   done |-> {<<m.elems[i].id, "operation_canceled">> :
               i \in {j \in 1..PendingOffset(m) : m.elems[j].st = "in_flight"}}]
=============================================================================
