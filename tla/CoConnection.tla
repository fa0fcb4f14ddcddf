---------------------------- MODULE CoConnection ----------------------------
(***************************************************************************)
(* co_connection over an established session: exec(), which drives an      *)
(* exec_fsm, and setup_request() with exec_some(), which drive an          *)
(* exec_some_fsm and hand out views of the read buffer during COPY OUT.    *)
(*                                                                         *)
(* A step is what the coroutine does between two suspensions, except that  *)
(* each pass of the loop over the messages in the buffer ("parsing") is a  *)
(* step of its own: nothing else that the connection owns runs meanwhile.  *)
(***************************************************************************)
EXTENDS ReadResponseFsm, PgBackend, ReadBuffer, Framing

CONSTANTS Plans,        \* what the application may do: calls [api, req] in order
          KeepsGoing,   \* whether it goes on after copy_not_allowed
          InitialSize,  \* of the read buffer
          MaxFrames     \* bound: from then on the backend only ends its answers

ASSUME ConnectionParams == InitialSize \in 0..SizeMax /\ KeepsGoing \in BOOLEAN

VARIABLES
  plan,      \* the calls that it makes
  buf,       \* connection_state::read_buffer
  inflight,  \* the bytes that the backend has sent and nobody has read
  frames,    \* all the messages it has sent: [kind, rq]
  srv,       \* the requests it has to answer, and how far it has got with the first
  pc,        \* what the connection is doing
  op,        \* the current operation and its state machine
  copyBufs,  \* copy_out_buffers: views of the read buffer
  ret,       \* what the last call returned
  handed,    \* how many frames the state machines have been given (an observer)
  taken      \* the COPY data that the application has been given (an observer)

vars == <<plan, buf, inflight, frames, srv, pc, op, copyBufs, ret, handed, taken>>

\* n counts the calls; engaged is exec_some_fsm.has_value(); pt its resume_point_.
NoOp(n) == [n |-> n, engaged |-> FALSE, pt |-> 0, consumed |-> 0, fsm |-> NewFsm(FALSE)]

CurReq == plan[op.n].req
CurApi == plan[op.n].api

BodySize(k) == IF k = "copy_data" THEN 2 ELSE 0
FrameLens == [f \in DOMAIN frames |-> HeaderSize + BodySize(frames[f].kind)]
Malformed == {f \in DOMAIN frames : frames[f].kind = "malformed"}

Init ==
  /\ plan \in Plans
  /\ buf = NewBuffer(InitialSize)
  /\ inflight = <<>> /\ frames = <<>>
  /\ srv = [todo |-> <<>>, st |-> NewBackend]
  /\ pc = "idle" /\ op = NoOp(0) /\ copyBufs = <<>> /\ ret = "ok"
  /\ handed = 0 /\ taken = {}

-----------------------------------------------------------------------------
(* The backend and the network *)

Answering == srv.todo # <<>>
AnsweredReq == plan[Head(srv.todo)].req

\* The backend gets to the state st of its answer to the first request.
BackendAt(st) ==
  srv' = IF Finished(AnsweredReq, st) THEN [todo |-> Tail(srv.todo), st |-> NewBackend]
         ELSE [srv EXCEPT !.st = st]

\* The message k for the request rq travels towards the client.
Emit(k, rq) ==
  /\ frames' = Append(frames, [kind |-> k, rq |-> rq])
  /\ inflight' = inflight \o FrameBytes(Len(frames) + 1, HeaderSize + BodySize(k))

BackendReplies ==
  /\ Answering
  /\ \E reply \in Replies(AnsweredReq, srv.st) :
       /\ Len(frames) >= MaxFrames => reply[1] \in {"error_response", "ready_for_query"}
       /\ Emit(reply[1], Head(srv.todo))
       /\ BackendAt(reply[2])
  /\ UNCHANGED <<plan, buf, pc, op, copyBufs, ret, handed, taken>>

BackendPassesOver ==
  /\ Answering /\ Silent(AnsweredReq, srv.st)
  /\ BackendAt(PassOver(srv.st))
  /\ UNCHANGED <<plan, buf, inflight, frames, pc, op, copyBufs, ret, handed, taken>>

\* Asynchronous messages, and messages that this library cannot parse.
BackendInterjects ==
  /\ Len(frames) < MaxFrames
  /\ \E k \in {"notice_response", "malformed"} : Emit(k, 0)
  /\ UNCHANGED <<plan, buf, srv, pc, op, copyBufs, ret, handed, taken>>

-----------------------------------------------------------------------------
(* The operations *)

\* The operation ends with ec.  After an error the application gives the
\* connection up, unless it takes the error for one of its request only.
Finish(ec) ==
  /\ ret' = ec
  /\ op' = NoOp(op.n)
  /\ pc' = IF ec \in {"ok", "empty_request", "request_ends_without_sync",
                      "request_mixes_simple_advanced_protocols", "incompatible_response"}
              \/ (ec = "copy_not_allowed" /\ KeepsGoing)
           THEN "idle" ELSE "closed"

\* exec(): the first resume() of exec_fsm.
Exec ==
  /\ pc = "idle" /\ op.n < Len(plan) /\ plan[op.n + 1].api = "exec"
  /\ op' = NoOp(op.n + 1)
  /\ \E ec \in SetupOutcomes(plan[op.n + 1].req) :
       IF ec = "ok" THEN pc' = "writing" /\ UNCHANGED ret
       ELSE ret' = ec /\ UNCHANGED pc
  /\ UNCHANGED <<plan, buf, inflight, frames, srv, copyBufs, handed, taken>>

\* setup_request(), which asserts that exec_some_fsm is empty.
SetupRequest ==
  /\ pc = "idle" /\ op.n < Len(plan) /\ plan[op.n + 1].api = "exec_some"
  /\ pc' = "ready"
  /\ op' = [NoOp(op.n + 1) EXCEPT !.engaged = TRUE, !.fsm = NewFsm(TRUE)]
  /\ UNCHANGED <<plan, buf, inflight, frames, srv, copyBufs, ret, handed, taken>>

\* exec_some() for the first time: the checks, and the write of the request.
ExecSome ==
  /\ pc = "ready"
  /\ \E ec \in SetupOutcomes(CurReq) :
       IF ec = "ok"
       THEN pc' = "writing" /\ op' = [op EXCEPT !.pt = 1] /\ copyBufs' = <<>> /\ UNCHANGED ret
       ELSE Finish(ec) /\ UNCHANGED copyBufs
  /\ UNCHANGED <<plan, buf, inflight, frames, srv, handed, taken>>

ReadsFirst(b) ==  \* mutant: what is already in the buffer is not looked at
  LET missing == MessageMissingBytes(CommittedArea(b), FrameLens)
  IN  /\ buf' = Prepare(b, IF missing = 0 THEN HeaderSize ELSE missing)
      /\ pc' = "reading"

\* read_some_messages(): reads until the buffer b starts with a whole message.
ReadSomeMessages(b) ==
  LET missing == MessageMissingBytes(CommittedArea(b), FrameLens)
  IN  /\ buf' = IF missing = 0 THEN b ELSE Prepare(b, missing)
      /\ pc' = IF missing = 0 THEN "parsing" ELSE "reading"

ConsumesLater ==  \* mutant: the batch is not consumed, but forgotten
  /\ ReadSomeMessages(buf)
  /\ op' = [op EXCEPT !.pt = 2, !.consumed = 0]

\* The head of the outer loop of exec_some_fsm.
NextBatch ==
  /\ ReadSomeMessages(Consume(buf, op.consumed))
  /\ op' = [op EXCEPT !.pt = 2, !.consumed = 0]

\* The request is written; the reading begins.
WriteDone ==
  /\ pc = "writing"
  /\ srv' = [srv EXCEPT !.todo = Append(@, op.n)]
  /\ IF CurApi = "exec" THEN pc' = "parsing" /\ UNCHANGED <<buf, op>> ELSE NextBatch
  /\ UNCHANGED <<plan, inflight, frames, copyBufs, ret, handed, taken>>

\* A read ends with n bytes.
ReadDone(n) ==
  /\ pc = "reading"
  /\ n <= PreparedSize(buf)
  /\ LET b == Commit(Fill(buf, SubSeq(inflight, 1, n)), n)
     IN  IF CurApi = "exec" THEN buf' = b /\ pc' = "parsing" ELSE ReadSomeMessages(b)
  /\ inflight' = SubSeq(inflight, n + 1, Len(inflight))
  /\ UNCHANGED <<plan, frames, srv, op, copyBufs, ret, handed, taken>>

\* An I/O error: exec_fsm returns it; exec_some() does too, and leaves its
\* state machine as it is.
IoFails ==
  /\ pc \in {"writing", "reading"}
  /\ ret' = "io_error"
  /\ pc' = "closed"
  /\ UNCHANGED <<plan, buf, inflight, frames, srv, op, copyBufs, handed, taken>>

\* The read of exec_some() is cancelled; the application may call it again.
ReadCancelled ==
  /\ pc = "reading" /\ CurApi = "exec_some"
  /\ ret' = "canceled"
  /\ pc' = "returned"
  /\ UNCHANGED <<plan, buf, inflight, frames, srv, op, copyBufs, handed, taken>>

\* One pass of the loop of exec_fsm.
ParseForExec ==
  /\ pc = "parsing" /\ CurApi = "exec"
  /\ LET res == ParseMessage(CommittedArea(buf), FrameLens, Malformed)
     IN
     \/ /\ res.ec = "needs_more"
        /\ buf' = Prepare(buf, res.size)
        /\ pc' = "reading"
        /\ UNCHANGED <<op, ret, handed>>
     \/ /\ res.ec = "ok"
        /\ buf' = Consume(buf, res.size)
        /\ handed' = handed + 1
        /\ LET out == Resume(CurReq, op.fsm, frames[res.frame].kind)
           IN  IF out.type = "done" THEN Finish(out.ec)
               ELSE op' = [op EXCEPT !.fsm = out.fsm] /\ UNCHANGED <<pc, ret>>
     \/ /\ res.ec \notin {"ok", "needs_more"}
        /\ Finish(res.ec)
        /\ UNCHANGED <<buf, handed>>
  /\ UNCHANGED <<plan, inflight, frames, srv, copyBufs, taken>>

\* A view of the body of the message at offset off of the committed area.
\* Reallocation always changes the size, so the size identifies the memory.
View(f, off) ==
  [frame |-> f, size |-> buf.size, first |-> buf.co + off + HeaderSize,
   len |-> FrameLens[f] - HeaderSize]

\* exec_some() returns t to the application, and goes on from pt when called again.
Yield(t, pt, views) ==
  /\ ret' = t
  /\ pc' = "returned"
  /\ op' = [op EXCEPT !.pt = pt]
  /\ copyBufs' = views
  /\ taken' = taken \cup {views[i].frame : i \in DOMAIN views}

\* What exec_some_fsm does with a message that did not end the response.
ReactHoldsViews(k, next, v) ==  \* mutant: COPY data is returned in the next batch only
  IF k = "copy_out_response"
  THEN /\ ret' = "copy_out" /\ pc' = "returned" /\ op' = [next EXCEPT !.pt = 4]
       /\ UNCHANGED <<copyBufs, taken>>
  ELSE IF k \in {"copy_done", "error_response"}
  THEN /\ ret' = "copy_eof" /\ pc' = "returned" /\ copyBufs' = <<>>
       /\ op' = [next EXCEPT !.pt = IF k = "copy_done" THEN 5 ELSE 6]
       /\ UNCHANGED taken
  ELSE /\ op' = next
       /\ copyBufs' = IF k = "copy_data" THEN Append(copyBufs, v) ELSE copyBufs
       /\ UNCHANGED <<pc, ret, taken>>

React(k, next, v) ==
  IF k = "copy_out_response"
  THEN /\ ret' = "copy_out" /\ pc' = "returned" /\ op' = [next EXCEPT !.pt = 4]
       /\ UNCHANGED <<copyBufs, taken>>
  ELSE IF k \in {"copy_done", "error_response"}
  THEN /\ ret' = "copy_eof" /\ pc' = "returned"
       /\ op' = [next EXCEPT !.pt = IF k = "copy_done" THEN 5 ELSE 6]
       /\ taken' = taken \cup {copyBufs[i].frame : i \in DOMAIN copyBufs}
       /\ UNCHANGED copyBufs
  ELSE /\ op' = next
       /\ copyBufs' = IF k = "copy_data" THEN Append(copyBufs, v) ELSE copyBufs
       /\ UNCHANGED <<pc, ret, taken>>

\* The batch is used up: COPY data is returned before the buffer is touched.
KeepsReading ==  \* mutant: views are kept while more is read
  NextBatch /\ UNCHANGED <<copyBufs, ret, taken>>

BatchEnds ==
  IF copyBufs # <<>> THEN Yield("copy_data", 3, copyBufs) /\ UNCHANGED buf
  ELSE NextBatch /\ UNCHANGED <<copyBufs, ret, taken>>

\* One pass of the inner loop of exec_some_fsm.
ParseForExecSome ==
  /\ pc = "parsing" /\ CurApi = "exec_some"
  /\ LET area == CommittedArea(buf)
         res == ParseMessage(SubSeq(area, op.consumed + 1, Len(area)), FrameLens, Malformed)
     IN
     \/ /\ res.ec = "needs_more"
        /\ BatchEnds
        /\ UNCHANGED handed
     \/ /\ res.ec = "ok"
        /\ handed' = handed + 1
        /\ LET k    == frames[res.frame].kind
               out  == Resume(CurReq, op.fsm, k)
               next == [op EXCEPT !.fsm = out.fsm, !.consumed = @ + res.size]
           IN  IF out.type = "done"
               THEN /\ buf' = Consume(buf, next.consumed)
                    /\ Finish(out.ec)
                    /\ UNCHANGED <<copyBufs, taken>>
               ELSE /\ React(k, next, View(res.frame, op.consumed))
                    /\ UNCHANGED buf
     \/ /\ res.ec \notin {"ok", "needs_more"}
        /\ Finish(res.ec)
        /\ UNCHANGED <<buf, handed, copyBufs, taken>>
  /\ UNCHANGED <<plan, inflight, frames, srv>>

\* exec_some() is called again.
ExecSomeAgain ==
  /\ pc = "returned"
  /\ copyBufs' = IF op.pt \in {3, 5, 6} THEN <<>> ELSE copyBufs
  /\ IF op.pt = 3 THEN NextBatch ELSE pc' = "parsing" /\ UNCHANGED <<buf, op>>
  /\ UNCHANGED <<plan, inflight, frames, srv, ret, handed, taken>>

BackendStep == BackendReplies \/ BackendPassesOver
Reads == \E n \in 1..Len(inflight) : ReadDone(n)
ClientStep ==
  \/ Exec \/ SetupRequest \/ ExecSome \/ WriteDone \/ Reads
  \/ ParseForExec \/ ParseForExecSome \/ ExecSomeAgain

Next == BackendStep \/ BackendInterjects \/ ClientStep \/ IoFails \/ ReadCancelled

Spec == Init /\ [][Next]_vars

\* The backend answers, reads and writes end, the application keeps calling.
FairSpec == Spec /\ WF_vars(BackendStep) /\ WF_vars(ClientStep)

-----------------------------------------------------------------------------
(* Properties *)

Kinds ==
  AsyncKinds \cup {"malformed", "error_response", "ready_for_query", "bind_complete",
    "close_complete", "parse_complete", "row_description", "no_data", "command_complete",
    "portal_suspended", "empty_query_response", "data_row", "copy_out_response", "copy_data",
    "copy_done"}

TypeOK ==
  /\ frames \in Seq([kind : Kinds, rq : 0..Len(plan)])
  /\ pc \in {"idle", "ready", "writing", "reading", "parsing", "returned", "closed"}
  /\ op.n \in 0..Len(plan) /\ op.pt \in 0..6 /\ op.engaged \in BOOLEAN
  /\ op.consumed \in 0..CommittedSize(buf)
  /\ handed \in 0..Len(frames)
  /\ taken \subseteq 1..handed
  /\ pc \in {"ready", "returned"} => op.engaged

\* However the stream is cut into reads, and wherever exec() and exec_some()
\* keep their position (in the buffer or in consumed_), what lies ahead is
\* exactly the frames that have not been handed over, from the first byte on:
\* no message is skipped, repeated or cut, also across operations.  (Every
\* variable has its type too.)
StreamInStep == TypeOK /\
  LET area  == CommittedArea(buf)
      ahead == SubSeq(area, op.consumed + 1, Len(area)) \o inflight
      RECURSIVE From(_)
      From(f) == IF f > Len(frames) THEN <<>>
                 ELSE FrameBytes(f, FrameLens[f]) \o From(f + 1)
  IN  pc # "closed" => ahead = From(handed + 1)

\* The state machine of a request is given the answers to that request only.
AnswersMatch ==
  [][handed' # handed => frames[handed'].rq \in {0, op.n}]_vars

\* The views that exec_some() returns, and the ones it collects, refer to bytes
\* of their own message: the buffer is neither moved nor reallocated nor
\* overwritten under them until the application calls again.
ViewsIntact ==
  \A i \in DOMAIN copyBufs :
    LET v == copyBufs[i]
    IN  /\ v.size = buf.size
        /\ \A j \in 0..(v.len - 1) :
             buf.mem[v.first + j] = <<v.frame, HeaderSize + 1 + j>>

\* When a call of exec_some() has returned, or the response has ended, the
\* application holds all the COPY data that the state machine has seen.
NoCopyDataLost ==
  pc \in {"returned", "idle"} =>
    \/ ret \in {"canceled", "copy_not_allowed"}
    \/ \A f \in 1..handed : frames[f].kind = "copy_data" => f \in taken

\* A read waits for the server only when no whole message is buffered.
ReadsOnlyIfNeeded ==
  pc = "reading" =>
    ParseMessage(CommittedArea(buf), FrameLens, Malformed).ec = "needs_more"

\* Every call ends, and the application gets to the end of its plan, unless an
\* I/O error or a message that cannot be parsed comes first, or reads are
\* cancelled for ever.
EveryCallReturns ==
  \/ <>(pc = "closed" \/ (pc = "idle" /\ op.n = Len(plan)))
  \/ []<>(pc = "returned" /\ ret = "canceled")

\* COPY data reaches the application whole: every piece, and each one readable
\* until the next call.
CopyDataIntact == ViewsIntact /\ NoCopyDataLost

=============================================================================
