----------------------- MODULE MultiplexedConnection -----------------------
(***************************************************************************)
(* co_multiplexed_connection: run() keeps a connection open and runs a     *)
(* writer and a reader on it, while any number of exec() calls share it    *)
(* through the multiplexer.  The coroutines run on one executor, so an     *)
(* action is what one of them does between two suspensions.                *)
(*                                                                         *)
(* The other end is a PostgreSQL backend that answers the requests in the  *)
(* order in which they arrive.  The connection may be lost at any point.   *)
(* Of the queue of notifications only its backpressure appears: whether it *)
(* has space is up to the tasks that read it.  NotificationQueue has the   *)
(* queue itself.                                                           *)
(***************************************************************************)
EXTENDS Multiplexer, PgBackend, ExecCalls

CONSTANTS
  Interjections, \* what the backend sends unasked: a set of asynchronous kinds
  MaxInTransit,  \* how many messages from the server fit in the network
  MaxLosses,     \* how many times the connection is lost
  MayStop        \* whether run() may be cancelled

ASSUME MultiplexParams ==
  /\ Interjections \subseteq AsyncKinds
  /\ MaxInTransit \in Nat \ {0} /\ MaxLosses \in Nat
  /\ MayStop \in BOOLEAN

VARIABLES
  mpx,       \* the multiplexer
  exec,      \* where each call to exec() is
  done,      \* done_event of each call
  result,    \* what each call returned, or is about to
  writeEvt,  \* the event write_evt
  run,       \* where run() is
  stopReq,   \* run() has been asked to stop
  writer,    \* where writer() is
  reader,    \* where reader() is
  stale,     \* bytes of an earlier connection are left in the read buffer
  buffer,    \* the requests of the write buffer that have not left yet
  link,      \* the connection is open
  backlog,   \* requests that the backend has received and not finished
  srv,       \* the backend, for the first of them
  transit,   \* messages from the backend that have not been read
  losses,    \* how many times the connection was lost
  sent,      \* how many times each request was put in the write buffer
  served     \* the requests that the backend has finished

execVars == <<exec, done, result>>
taskVars == <<run, stopReq, writer, reader>>
netVars  == <<buffer, link, backlog, srv, transit, losses, served>>
vars == <<mpx, execVars, writeEvt, taskVars, stale, netVars, sent>>

Init ==
  /\ mpx = NewMultiplexer
  /\ exec = [e \in Execs |-> "idle"]
  /\ done = [e \in Execs |-> FALSE]
  /\ result = [e \in Execs |-> "none"]
  /\ writeEvt = FALSE
  /\ run = "connecting" /\ stopReq = FALSE /\ writer = "ended" /\ reader = "ended"
  /\ stale = FALSE /\ buffer = <<>> /\ link = FALSE
  /\ backlog = <<>> /\ srv = NewBackend /\ transit = <<>>
  /\ losses = 0 /\ sent = [e \in Execs |-> 0] /\ served = {}

-----------------------------------------------------------------------------
(* exec() *)

\* The calls to on_done() that the multiplexer makes.
Notify(calls) ==
  LET ids == {c[1] : c \in calls}
  IN  /\ done' = [e \in Execs |-> done[e] \/ e \in ids]
      /\ result' = [e \in Execs |->
                      IF e \in ids THEN (CHOOSE c \in calls : c[1] = e)[2] ELSE result[e]]
      /\ exec' = [e \in Execs |-> IF e \in ids /\ exec[e] = "waiting" THEN "woken" ELSE exec[e]]

EnqueueSilently(e) ==  \* mutant: write_evt is not set
  /\ mpx' = Add(mpx, e)
  /\ exec' = [exec EXCEPT ![e] = "waiting"]
  /\ UNCHANGED <<writeEvt, writer, done, result, run, stopReq, reader>>

Enqueue(e) ==
  /\ mpx' = Add(mpx, e)
  /\ exec' = [exec EXCEPT ![e] = "waiting"]
  /\ writeEvt' = TRUE
  /\ writer' = IF writer = "asleep" THEN "woken" ELSE writer
  /\ UNCHANGED <<done, result, run, stopReq, reader>>

Reject(e, ec) ==
  /\ exec' = [exec EXCEPT ![e] = "returned"]
  /\ result' = [result EXCEPT ![e] = ec]
  /\ UNCHANGED <<mpx, done, writeEvt, taskVars>>

ExecCalled(e) ==
  /\ exec[e] = "idle"
  /\ \E ec \in SetupOutcomes(RequestOf[e]) : IF ec = "ok" THEN Enqueue(e) ELSE Reject(e, ec)
  /\ UNCHANGED <<stale, netVars, sent>>

\* The caller cancels; exec() is resumed later, and the response may come first.
ExecCancelled(e) ==
  /\ exec[e] = "waiting" /\ exec' = [exec EXCEPT ![e] = "woken"]
  /\ UNCHANGED <<mpx, done, result, writeEvt, taskVars, stale, netVars, sent>>

\* The position of the element of e, which exec() keeps a pointer to.
ElemOf(e) == CHOOSE i \in 1..Len(mpx.elems) : mpx.elems[i].id = e

ExecResumes(e) ==
  /\ exec[e] = "woken" /\ exec' = [exec EXCEPT ![e] = "returned"]
  /\ IF done[e] THEN UNCHANGED <<mpx, result>>
     ELSE /\ mpx' = Cancel(mpx, ElemOf(e), RequestOf[e])
          /\ result' = [result EXCEPT ![e] = "canceled"]
  /\ UNCHANGED <<done, writeEvt, taskVars, stale, netVars, sent>>

-----------------------------------------------------------------------------
(* run() *)

\* The connection is established on a clean socket, and the tasks start.
ConnectSucceeds ==
  /\ run = "connecting" /\ ~stopReq /\ ~stale
  /\ run' = "running" /\ writer' = "woken" /\ reader' = "reading"
  /\ link' = TRUE /\ buffer' = <<>> /\ backlog' = <<>> /\ srv' = NewBackend /\ transit' = <<>>
  /\ UNCHANGED <<mpx, execVars, writeEvt, stopReq, stale, losses, sent, served>>

\* It is not; each attempt reads some of what is left in the buffer.
ConnectFails ==
  /\ run = "connecting" /\ ~stopReq
  /\ run' = "delay"
  /\ stale' \in {FALSE, stale}
  /\ UNCHANGED <<mpx, execVars, writeEvt, stopReq, writer, reader, netVars, sent>>

DelayElapses ==
  /\ run = "delay" /\ ~stopReq /\ run' = "connecting"
  /\ UNCHANGED <<mpx, execVars, writeEvt, stopReq, writer, reader, stale, netVars, sent>>

StopRequested ==
  /\ MayStop /\ run # "stopped" /\ ~stopReq /\ stopReq' = TRUE
  /\ UNCHANGED <<mpx, execVars, writeEvt, run, writer, reader, stale, netVars, sent>>

\* A cancelled run() returns as soon as it is resumed.
Stopped ==
  /\ stopReq /\ run \in {"connecting", "delay"} /\ run' = "stopped"
  /\ UNCHANGED <<mpx, execVars, writeEvt, stopReq, writer, reader, stale, netVars, sent>>

\* when_any(writer(), reader()) asks both to stop when one of them returns without
\* an error; an error, which is how reader() ends when it cannot read, does not count.
TasksStopping == stopReq \/ writer = "ended" \/ reader = "ended"

\* Both have returned, and nobody uses the connection any more.
TasksEnd ==
  /\ run = "running" /\ writer = "ended" /\ reader \in {"ended", "failed"}
  /\ link' = FALSE
  /\ IF stopReq
     THEN run' = "stopped" /\ UNCHANGED <<mpx, execVars>>
     ELSE LET out == Cleanup(mpx)
          IN  run' = "delay" /\ mpx' = out.mpx /\ Notify(out.done)
  /\ UNCHANGED <<writeEvt, stopReq, writer, reader, stale, sent>>
  /\ UNCHANGED <<buffer, backlog, srv, transit, losses, served>>

-----------------------------------------------------------------------------
(* writer() *)

WriterLoop ==
  LET out == PrepareWrite(mpx)
  IN  /\ mpx' = out.mpx
      /\ buffer' = out.buffer
      /\ IF out.buffer = <<>>
         THEN writer' = "asleep" /\ writeEvt' = FALSE
         ELSE writer' = "writing" /\ UNCHANGED writeEvt
      /\ sent' = [e \in Execs |->
           sent[e] + Cardinality({i \in DOMAIN out.buffer : out.buffer[i] = e})]

WriterResumes ==
  /\ run = "running" /\ writer = "woken" /\ WriterLoop
  /\ UNCHANGED <<execVars, run, stopReq, reader, stale>>
  /\ UNCHANGED <<link, backlog, srv, transit, losses, served>>

WriteCompletes ==
  /\ writer = "writing" /\ buffer = <<>> /\ WriterLoop
  /\ UNCHANGED <<execVars, run, stopReq, reader, stale>>
  /\ UNCHANGED <<link, backlog, srv, transit, losses, served>>

\* The write fails because the connection is gone, or is cancelled with the wait.
WriterEnds ==
  /\ \/ writer = "writing" /\ (~link \/ TasksStopping)
     \/ writer = "asleep" /\ TasksStopping
  /\ writer' = "ended"
  /\ UNCHANGED <<mpx, execVars, writeEvt, run, stopReq, reader, stale, netVars, sent>>

-----------------------------------------------------------------------------
(* reader() *)

\* A message is parsed and delivered.  After an error reader() returns, without an
\* error code, and what it has read stays in the buffer.
ReaderDelivers ==
  /\ reader = "reading" /\ transit # <<>> /\ Head(transit).kind # "notification_response"
  /\ LET out == OnMessage(mpx, RequestOf, Head(transit).kind)
     IN  /\ mpx' = out.mpx
         /\ Notify(out.done)
         /\ reader' = IF out.ec = "ok" THEN "reading" ELSE "ended"
         /\ stale' = (stale \/ out.ec # "ok")
  /\ transit' = Tail(transit)
  /\ UNCHANGED <<writeEvt, run, stopReq, writer, sent>>
  /\ UNCHANGED <<buffer, link, backlog, srv, losses, served>>

\* A notification: try_add_notify() adds it, or add_notify() waits for space.
ReaderNotifies ==
  /\ reader = "reading" /\ transit # <<>> /\ Head(transit).kind = "notification_response"
  /\ reader' \in {"reading", "adding"}
  /\ transit' = Tail(transit)
  /\ UNCHANGED <<mpx, execVars, writeEvt, run, stopReq, writer, stale, sent>>
  /\ UNCHANGED <<buffer, link, backlog, srv, losses, served>>

\* A task has read the events, and the reader goes on.
ReaderAdds ==
  /\ reader = "adding" /\ reader' = "reading"
  /\ UNCHANGED <<mpx, execVars, writeEvt, run, stopReq, writer, stale, netVars, sent>>

\* add_notify() is cancelled: reader() returns, and leaves what it has read.
ReaderGivesUp ==
  /\ reader = "adding" /\ TasksStopping
  /\ reader' = "ended" /\ stale' = TRUE
  /\ UNCHANGED <<mpx, execVars, writeEvt, run, stopReq, writer, netVars, sent>>

\* The read fails or is cancelled; part of a message may be in the buffer.
ReaderFails ==
  /\ reader = "reading"
  /\ (~link /\ transit = <<>>) \/ TasksStopping
  /\ reader' = "failed"
  /\ stale' \in {stale, TRUE}
  /\ UNCHANGED <<mpx, execVars, writeEvt, run, stopReq, writer, netVars, sent>>

-----------------------------------------------------------------------------
(* The network and the backend *)

\* A request leaves the write buffer; on a dead connection it goes nowhere.
Transmit ==
  /\ writer = "writing" /\ buffer # <<>>
  /\ buffer' = Tail(buffer)
  /\ backlog' = IF link THEN Append(backlog, Head(buffer)) ELSE backlog
  /\ UNCHANGED <<mpx, execVars, writeEvt, taskVars, stale, sent>>
  /\ UNCHANGED <<link, srv, transit, losses, served>>

BackendPassesOver ==
  /\ link /\ backlog # <<>> /\ Silent(RequestOf[Head(backlog)], srv)
  /\ srv' = PassOver(srv)
  /\ UNCHANGED <<mpx, execVars, writeEvt, taskVars, stale, sent>>
  /\ UNCHANGED <<buffer, link, backlog, transit, losses, served>>

BackendReplies ==
  /\ link /\ backlog # <<>> /\ Len(transit) < MaxInTransit
  /\ \E reply \in Replies(RequestOf[Head(backlog)], srv) :
       /\ transit' = Append(transit, [owner |-> Head(backlog), kind |-> reply[1]])
       /\ IF Finished(RequestOf[Head(backlog)], reply[2])
          THEN /\ backlog' = Tail(backlog) /\ srv' = NewBackend
               /\ served' = served \cup {Head(backlog)}
          ELSE srv' = reply[2] /\ UNCHANGED <<backlog, served>>
  /\ UNCHANGED <<mpx, execVars, writeEvt, taskVars, stale, sent, buffer, link, losses>>

BackendInterjects ==
  /\ link /\ Len(transit) < MaxInTransit
  /\ \E k \in Interjections : transit' = Append(transit, [owner |-> None, kind |-> k])
  /\ UNCHANGED <<mpx, execVars, writeEvt, taskVars, stale, sent>>
  /\ UNCHANGED <<buffer, link, backlog, srv, losses, served>>

\* The connection breaks: what the network holds may still arrive, up to a point.
ConnectionLost ==
  /\ link /\ losses < MaxLosses
  /\ link' = FALSE /\ losses' = losses + 1
  /\ \E n \in 0..Len(transit) : transit' = SubSeq(transit, 1, n)
  /\ UNCHANGED <<mpx, execVars, writeEvt, taskVars, stale, sent, buffer, backlog, srv, served>>

\* The server shuts an idle connection down, and says so with a FATAL error.
BackendShutsDown ==
  /\ link /\ backlog = <<>> /\ Len(transit) < MaxInTransit
  /\ link' = FALSE
  /\ transit' = Append(transit, [owner |-> None, kind |-> "error_response"])
  /\ UNCHANGED <<mpx, execVars, writeEvt, taskVars, stale, sent, buffer, backlog, srv>>
  /\ UNCHANGED <<losses, served>>

-----------------------------------------------------------------------------
Next ==
  \/ \E e \in Execs : ExecCalled(e) \/ ExecCancelled(e) \/ ExecResumes(e)
  \/ ConnectSucceeds \/ ConnectFails \/ DelayElapses \/ StopRequested \/ Stopped \/ TasksEnd
  \/ WriterResumes \/ WriteCompletes \/ WriterEnds \/ ReaderDelivers \/ ReaderFails
  \/ ReaderNotifies \/ ReaderAdds \/ ReaderGivesUp
  \/ Transmit \/ BackendPassesOver \/ BackendReplies \/ BackendInterjects
  \/ ConnectionLost

Spec == Init /\ [][Next]_vars

\* With a server that does not only answer requests.
ShutdownSpec == Init /\ [][Next \/ BackendShutsDown]_vars

-----------------------------------------------------------------------------
(* Properties *)

\* The pending elements are at the end of the queue, as num_pending_ says, so
\* that prepare_write() and cleanup() meet only the statuses they expect.
TypeOK ==
  /\ mpx.numPending \in 0..Len(mpx.elems)
  /\ \A i \in 1..Len(mpx.elems) :
       /\ mpx.elems[i].id \in Execs /\ mpx.elems[i].rfq \in Nat
       /\ mpx.elems[i].st \in IF i > PendingOffset(mpx)
                              THEN {"pending", "abandoned_pending"}
                              ELSE ElemStatuses \ {"pending"}
  /\ mpx.st \in {"initial", "reading", "ignoring"}
  /\ exec \in [Execs -> {"idle", "waiting", "woken", "returned"}]
  /\ done \in [Execs -> BOOLEAN]
  /\ run \in {"connecting", "running", "delay", "stopped"}
  /\ writer \in {"asleep", "woken", "writing", "ended"}
  /\ reader \in {"reading", "adding", "ended", "failed"}
  /\ writeEvt \in BOOLEAN /\ stopReq \in BOOLEAN /\ stale \in BOOLEAN /\ link \in BOOLEAN
  /\ sent \in [Execs -> Nat] /\ served \subseteq Execs

Live(e) == {i \in 1..Len(mpx.elems) :
              mpx.elems[i].id = e /\ mpx.elems[i].st \in {"pending", "in_flight"}}

\* The multiplexer refers to the request, the handler and the callback of a call
\* exactly while exec() waits for them ("On cancellation, elm is valid"): it never
\* calls into a call that has returned, and exec() never cancels an element that
\* is gone.  A response is followed only for such a call.
ReferencesAreAlive ==
  /\ \A e \in Execs :
       Cardinality(Live(e)) = IF exec[e] \in {"waiting", "woken"} /\ ~done[e] THEN 1 ELSE 0
  /\ mpx.st = "reading" => mpx.elems # <<>> /\ mpx.elems[1].st = "in_flight"
  /\ mpx.st = "ignoring" =>
       mpx.elems # <<>> /\ mpx.elems[1].st = "abandoned_in_flight" /\ mpx.rfq > 0

\* exec() returns success only after the backend has finished its request and
\* every message of the response has been read.
SuccessIsComplete ==
  \A e \in Execs : done[e] /\ result[e] = "ok" =>
    e \in served /\ \A i \in 1..Len(transit) : transit[i].owner # e

InFlight(e) == {i \in 1..Len(mpx.elems) :
                  mpx.elems[i].id = e /\ mpx.elems[i].st \in {"in_flight", "abandoned_in_flight"}}

\* The responses that are due on the connection, in the order in which they come.
Due == [i \in 1..Len(transit) |-> transit[i].owner] \o backlog \o buffer

\* The queue mirrors the connection: the elements in flight, cancelled ones
\* included, are the requests whose response is not complete, in the same order.
\* Every message is thus given to the request it answers, however calls are
\* cancelled before, during and after their write.  (Every variable has its
\* type too.)
QueueMirrorsConnection == TypeOK /\
  (link /\ reader \in {"reading", "adding"} =>
    /\ \A e \in Execs : InFlight(e) # {} <=> \E i \in DOMAIN Due : Due[i] = e
    /\ \A i, j \in DOMAIN Due : i < j /\ None \notin {Due[i], Due[j]} =>
         \A a \in InFlight(Due[i]), b \in InFlight(Due[j]) : a <= b)

\* A request is sent once at most, also when the connection is lost: the library
\* never repeats a request that the server may have executed.
SentOnce == \A e \in Execs : sent[e] <= 1

\* A call that was cancelled before its request was written is never written.
NotSentAfterReturn ==
  [][\A e \in Execs : exec[e] = "returned" => sent'[e] = sent[e]]_vars

\* The assertion of read_response_stream_fsm::on_message(): a response begins
\* only when the request at the front of the queue has been written.
FrontIsInFlight ==
  reader = "reading" /\ transit # <<>> /\ Head(transit).kind \notin AsyncKinds
    /\ mpx.st = "initial" /\ FirstNotAbandoned(mpx.elems) <= Len(mpx.elems) =>
      mpx.elems[FirstNotAbandoned(mpx.elems)].st # "pending"

-----------------------------------------------------------------------------
\* Coroutines that can go on do, the network delivers, the backend answers and
\* lets a resultset end, connecting works now and then, and some task reads the
\* events, so that space_available_ is set (BackpressureEnds of NotificationQueue).
BackendGoesOn == BackendReplies /\ <<srv, backlog>>' # <<srv, backlog>>

Fairness ==
  /\ \A e \in Execs : WF_vars(ExecResumes(e))
  /\ SF_vars(ConnectSucceeds) /\ WF_vars(DelayElapses)
  /\ WF_vars(Stopped) /\ WF_vars(TasksEnd)
  /\ WF_vars(WriterResumes) /\ WF_vars(WriteCompletes) /\ WF_vars(WriterEnds)
  /\ WF_vars(ReaderDelivers) /\ WF_vars(ReaderFails)
  /\ WF_vars(ReaderNotifies) /\ WF_vars(ReaderAdds) /\ WF_vars(ReaderGivesUp)
  /\ WF_vars(Transmit) /\ WF_vars(BackendPassesOver) /\ SF_vars(BackendGoesOn)

FairSpec == Spec /\ Fairness

\* Every call to exec() returns, as long as the connection is not lost and the
\* events are read: also when notifications, for which the reader waits, come
\* before and between the messages of its response.
EveryExecReturns ==
  \A e \in Execs : (exec[e] \in {"waiting", "woken"}) ~> (exec[e] = "returned")

\* "These tasks don't return an error code so when_any finishes when they return":
\* when the reader returns, run() goes on to clean up and reconnect.
ReaderEndsTasks == (run = "running" /\ reader \in {"ended", "failed"}) ~> (run # "running")
=============================================================================
