------------------- MODULE MultiplexedConnection_steps -------------------
(***************************************************************************)
(* The inductive invariant of the multiplexed connection: it holds in the  *)
(* beginning, every step keeps it, and it implies the properties.  What    *)
(* the steps take from read_response_fsm and the backend is Facts.         *)
(***************************************************************************)
EXTENDS MultiplexedConnection, Multiplexer_proofs

\* The time, in seconds, that a prover may take for a leaf.
USE ZenonT(20)

-----------------------------------------------------------------------------
(* The inductive invariant *)

\* What has been written and is not finished was sent once, and belongs to one call.
Pipe(sn, sv, bl, bf) ==
  /\ \A i \in 1..Len(bl) : sn[bl[i]] = 1 /\ bl[i] \notin sv
  /\ \A i \in 1..Len(bf) : sn[bf[i]] = 1 /\ bf[i] \notin sv
  /\ \A i, j \in 1..Len(bl) : bl[i] = bl[j] => i = j
  /\ \A i, j \in 1..Len(bf) : bf[i] = bf[j] => i = j
  /\ \A i \in 1..Len(bl), j \in 1..Len(bf) : bl[i] # bf[j]

\* What is pending has not been sent.
Unsent(m, sn) == \A i \in 1..Len(m.elems) : m.elems[i].st = "pending" => sn[m.elems[i].id] = 0

Sending ==
  /\ sent \in [Execs -> 0..1] /\ served \subseteq Execs
  /\ backlog \in Seq(Execs) /\ buffer \in Seq(Execs)
  /\ \A e \in Execs : exec[e] = "idle" => ~ done[e] /\ sent[e] = 0
  /\ \A e \in served : sent[e] = 1
  /\ Unsent(mpx, sent) /\ Pipe(sent, served, backlog, buffer)

CallTypes ==
  /\ exec \in [Execs -> {"idle", "waiting", "woken", "returned"}]
  /\ done \in [Execs -> BOOLEAN] /\ result = [e \in Execs |-> result[e]]

\* Between two connections nothing is in flight and nothing is being read, and the
\* writer sleeps only when everything has left the write buffer.
Tasks ==
  /\ run \in {"connecting", "running", "delay", "stopped"}
  /\ writer \in {"asleep", "woken", "writing", "ended"}
  /\ reader \in {"reading", "adding", "ended", "failed"}
  /\ writeEvt \in BOOLEAN /\ stopReq \in BOOLEAN /\ stale \in BOOLEAN /\ link \in BOOLEAN
  /\ run # "running" => writer = "ended" /\ reader \in {"ended", "failed"}
  /\ run \in {"connecting", "delay"} => PendingOffset(mpx) = 0
  /\ writer \in {"asleep", "woken"} => buffer = <<>>

Mirror ==
  reader \in {"reading", "adding"} =>
    \E o, c, B : /\ Mirrored(mpx, transit, o, c, B, served)
                 /\ link => Ends(transit, o, c, B, srv, backlog, buffer)

Arriving == \E M : transit \in Seq(M)

IInv ==
  /\ CallTypes /\ Tasks /\ Arriving /\ Queue(mpx, exec, done)
  /\ Sending /\ SuccessIsComplete /\ Mirror

LEMMA Initially == Init => IInv
  <1>1. SUFFICES ASSUME Init PROVE IInv
    OBVIOUS
  <1> DEFINE q == <<>>
             z == 0
  <1>2. q \in Seq(Elems) /\ q \in Seq(Execs) /\ Len(q) = 0 /\ z \in Nat /\ z = 0
    BY SeqEmpty
  <1>4. /\ mpx.elems = q /\ mpx.numPending = z /\ mpx.st = "initial" /\ mpx.fsm = Fresh
        /\ mpx.rfq = z
    BY <1>1 DEF Init, NewMultiplexer, Fresh
  <1>5. mpx = [elems |-> q, numPending |-> z, st |-> "initial", fsm |-> Fresh, rfq |-> z]
    BY <1>1 DEF Init, NewMultiplexer, Fresh
  <1> HIDE DEF q, z
  <1>6. mpx \in Mpxs
    BY <1>2, <1>5, SMTT(20) DEF Mpxs, Fresh, NewFsm, Fsms, FsmStates
  <1>7. Len(mpx.elems) = 0 /\ PendingOffset(mpx) = 0
    BY <1>2, <1>4, SMTT(20) DEF PendingOffset
  <1>10. \A e \in Execs : exec[e] = "idle" /\ ~ done[e]
    BY <1>1 DEF Init
  <1>11. Queue(mpx, exec, done)
    BY <1>4, <1>7, <1>10, <1>2, <1>6, SMTT(20) DEF Queue, Owned, Front, Waits, Shape
  <1>12. Tasks
    BY <1>1, <1>7 DEF Init, Tasks
  <1>15. SuccessIsComplete
    BY <1>10 DEF SuccessIsComplete
  <1>16. Mirror
    BY <1>1 DEF Init, Mirror
  <1>. QED
    BY <1>11, <1>12, <1>15, <1>16, <1>1, SeqEmpty, <1>7, <1>10, SMTT(20) DEF IInv, Init, CallTypes,
       Arriving, Unsent, Pipe, Sending

\* A step that leaves the queue and the network alone.
LEMMA MirrorSame ==
  ASSUME Mirror, UNCHANGED <<mpx, netVars>>,
         reader' \in {"reading", "adding"} => reader \in {"reading", "adding"}
  PROVE  Mirror'
  BY DEF Mirror, netVars

LEMMA SendingSame ==
  ASSUME Sending, UNCHANGED <<mpx, netVars, sent, done>>,
         \A e \in Execs : exec'[e] = "idle" => exec[e] = "idle"
  PROVE  Sending'
  BY DEF Sending, netVars

LEMMA SuccessSame ==
  ASSUME SuccessIsComplete, UNCHANGED <<netVars, done, result>>
  PROVE  SuccessIsComplete'
  BY DEF SuccessIsComplete, netVars

LEMMA ArrivingSame ==
  ASSUME Arriving, UNCHANGED transit
  PROVE  Arriving'
  BY DEF Arriving

\* The steps of the tasks that do not touch the queue or the network.
LEMMA QuietSteps ==
  ASSUME IInv, ConnectFails \/ DelayElapses \/ StopRequested \/ Stopped \/ WriterEnds
                 \/ ReaderAdds \/ ReaderGivesUp \/ ReaderFails
  PROVE  IInv'
  <1>1. UNCHANGED <<mpx, exec, done, result, sent, netVars, buffer, transit>>
    BY DEF ConnectFails, DelayElapses, StopRequested, Stopped, WriterEnds, ReaderAdds,
       ReaderGivesUp, ReaderFails, execVars, netVars
  <1>2. Tasks'
    BY <1>1 DEF IInv, Tasks, ConnectFails, DelayElapses, StopRequested, Stopped, WriterEnds,
       ReaderAdds, ReaderGivesUp, ReaderFails, netVars
  <1>3. reader' \in {"reading", "adding"} => reader \in {"reading", "adding"}
    BY DEF ConnectFails, DelayElapses, StopRequested, Stopped, WriterEnds, ReaderAdds,
       ReaderGivesUp, ReaderFails
  <1>. QED
    BY <1>2, <1>1, <1>3, MirrorSame, SendingSame, SuccessSame, ArrivingSame DEF IInv, CallTypes

-----------------------------------------------------------------------------
(* The steps keep the invariant *)

LEMMA ExecCalledStep ==
  ASSUME Facts, IInv, NEW e \in Execs, ExecCalled(e)
  PROVE  IInv'
  <1>0. PICK ec \in SetupOutcomes(RequestOf[e]) : IF ec = "ok" THEN Enqueue(e) ELSE Reject(e, ec)
    BY DEF ExecCalled
  <1>1. exec[e] = "idle" /\ UNCHANGED <<stale, sent, netVars, transit, buffer, link>>
    BY DEF ExecCalled, netVars
  <1>2. CallTypes /\ Tasks /\ Arriving /\ Queue(mpx, exec, done) /\ Sending /\ SuccessIsComplete
        /\ Mirror
    BY DEF IInv
  <1>3. ~ done[e] /\ sent[e] = 0
    BY <1>1, <1>2 DEF Sending
  <1>4. mpx \in Mpxs /\ mpx.numPending <= Len(mpx.elems)
    BY <1>2 DEF Queue, Shape
  <1>5. Arriving'
    BY <1>1, <1>2, ArrivingSame
  <1>6. CASE ec = "ok"
    <2>1. Enqueue(e)
      BY <1>0, <1>6
    <2>2. WellFormed(RequestOf[e])
      BY <1>0, <1>6, RequestType, CheckIsExact DEF SetupOutcomes
    <2>3. mpx' = Add(mpx, e) /\ exec' = [exec EXCEPT ![e] = "waiting"]
          /\ UNCHANGED <<done, result, run, stopReq, reader>>
      BY <2>1 DEF Enqueue
    <2>4. Queue(mpx, exec, done)'
      BY <2>2, <2>3, <1>1, <1>2, <1>3, QueueAdd DEF CallTypes
    <2> DEFINE y == [id |-> e, st |-> "pending", rfq |-> 0]
    <2>6. /\ mpx'.elems = Append(mpx.elems, y) /\ mpx'.numPending = mpx.numPending + 1
      BY <2>3, <1>4, AddIs
    <2>8. mpx.elems \in Seq(Elems) /\ Len(mpx.elems) \in Nat /\ mpx.numPending \in Nat
      BY <1>4, SeqLen DEF Mpxs
    <2> HIDE DEF y
    <2>10. /\ Len(mpx'.elems) = Len(mpx.elems) + 1 /\ mpx'.elems[Len(mpx.elems) + 1] = y
           /\ \A i \in 1..Len(mpx.elems) : mpx'.elems[i] = mpx.elems[i]
      BY <2>6, <2>8, SeqAppend, SMTT(20) DEF Elems, ElemStatuses, y
    <2>12. Tasks'
      BY <1>1, <1>2, <2>1, <2>3, <2>6, <2>8, <2>10, SMTT(20) DEF Enqueue, Tasks, PendingOffset
    <2>13. Unsent(mpx, sent)'
      <3>2. Unsent(mpx, sent)
        BY <1>2 DEF Sending
      <3>. QED
        BY <3>2, <2>10, <1>1, <1>3, <2>8, SMTT(20) DEF Unsent, y
    <2>. QED
      BY <2>4, <2>12, <1>5, <2>3, <1>2, <1>1, <2>13, SuccessSame, MirrorAdd, SMTT(20) DEF IInv, CallTypes,
         Sending, netVars, Mirror
  <1>7. CASE ec # "ok"
    <2>2. /\ exec' = [exec EXCEPT ![e] = "returned"] /\ result' = [result EXCEPT ![e] = ec]
          /\ UNCHANGED <<mpx, done, writeEvt, run, stopReq, writer, reader>>
      BY <1>0, <1>7 DEF Reject, taskVars
    <2>4. \A d \in Execs : exec'[d] = "idle" => exec[d] = "idle"
      BY <2>2, <1>2 DEF CallTypes
    <2>5. \A d \in Execs : Waits(exec', done', d) <=> Waits(exec, done, d)
      BY <2>2, <1>1, <1>2 DEF CallTypes, Waits
    <2>6. Queue(mpx, exec, done)'
      BY <2>2, <2>4, <2>5, <1>2, QueueSame
    <2>. QED
      BY <2>6, <1>5, <2>2, <1>2, <1>1, <2>4, SendingSame, <1>3, MirrorSame, SMTT(20) DEF IInv, CallTypes,
         Tasks, SuccessIsComplete, netVars
  <1>. QED
    BY <1>6, <1>7

\* The element of a call that waits.
LEMMA ElemOfIs ==
  ASSUME Queue(mpx, exec, done), NEW e \in Execs, Waits(exec, done, e)
  PROVE  /\ ElemOf(e) \in 1..Len(mpx.elems) /\ mpx.elems[ElemOf(e)].id = e
         /\ mpx.elems[ElemOf(e)].st \in {"pending", "in_flight"}
  BY DEF Queue, Owned, ElemOf

LEMMA ExecCancelledStep ==
  ASSUME IInv, NEW e \in Execs, ExecCancelled(e)
  PROVE  IInv'
  <1>1. /\ exec[e] = "waiting" /\ exec' = [exec EXCEPT ![e] = "woken"]
        /\ UNCHANGED <<mpx, done, result, writeEvt, run, stopReq, writer, reader, stale>>
        /\ UNCHANGED <<sent, netVars, transit, buffer, link>>
    BY DEF ExecCancelled, taskVars, netVars
  <1>2. CallTypes /\ Tasks /\ Arriving /\ Queue(mpx, exec, done) /\ Sending /\ SuccessIsComplete
        /\ Mirror
    BY DEF IInv
  <1>4. \A d \in Execs : exec'[d] = "idle" => exec[d] = "idle"
    BY <1>1, <1>2 DEF CallTypes
  <1>5. \A d \in Execs : Waits(exec', done', d) <=> Waits(exec, done, d)
    BY <1>1, <1>2 DEF CallTypes, Waits
  <1>6. Queue(mpx, exec, done)'
    BY <1>1, <1>2, <1>4, <1>5, QueueSame
  <1>. QED
    BY <1>6, <1>1, <1>2, <1>4, SendingSame, SuccessSame, MirrorSame, ArrivingSame DEF IInv,
       CallTypes, Tasks

LEMMA ExecResumesStep ==
  ASSUME Facts, IInv, NEW e \in Execs, ExecResumes(e)
  PROVE  IInv'
  <1>1. /\ exec[e] = "woken" /\ exec' = [exec EXCEPT ![e] = "returned"]
        /\ UNCHANGED <<done, writeEvt, run, stopReq, writer, reader, stale>>
        /\ UNCHANGED <<sent, netVars, transit, buffer, link>>
    BY DEF ExecResumes, taskVars, netVars
  <1>2. CallTypes /\ Tasks /\ Arriving /\ Queue(mpx, exec, done) /\ Sending /\ SuccessIsComplete
        /\ Mirror
    BY DEF IInv
  <1>3. \A d \in Execs : exec'[d] = "idle" => exec[d] = "idle"
    BY <1>1, <1>2 DEF CallTypes
  <1>4. CASE done[e]
    <2>1. UNCHANGED <<mpx, result>>
      BY <1>4 DEF ExecResumes
    <2>3. \A d \in Execs : Waits(exec', done', d) <=> Waits(exec, done, d)
      BY <1>1, <1>2, <1>4 DEF CallTypes, Waits
    <2>4. Queue(mpx, exec, done)'
      BY <2>1, <2>3, <1>2, <1>3, QueueSame
    <2>. QED
      BY <2>4, <2>1, <1>1, <1>2, <1>3, SendingSame, SuccessSame, MirrorSame, ArrivingSame
         DEF IInv, CallTypes, Tasks
  <1>5. CASE ~ done[e]
    <2> DEFINE i == ElemOf(e)
               r == RequestOf[e]
    <2>1. mpx' = Cancel(mpx, i, r) /\ result' = [result EXCEPT ![e] = "canceled"]
      BY <1>5 DEF ExecResumes
    <2>2. Waits(exec, done, e)
      BY <1>1, <1>5 DEF Waits
    <2>3. i \in 1..Len(mpx.elems) /\ mpx.elems[i].id = e
          /\ mpx.elems[i].st \in {"pending", "in_flight"}
      BY <2>2, <1>2, ElemOfIs
    <2> HIDE DEF i
    <2>4. mpx \in Mpxs /\ mpx.numPending <= Len(mpx.elems) /\ r \in Seq(MessageTypes)
      BY <1>2, RequestType DEF Queue, Shape
    <2>5. Queue(mpx, exec, done)'
      BY <2>1, <2>2, <2>3, <1>1, <1>2, QueueCancel DEF CallTypes
    <2>7. /\ Len(mpx'.elems) = Len(mpx.elems) /\ mpx'.numPending = mpx.numPending
          /\ \A j \in 1..Len(mpx.elems) : j # i => mpx'.elems[j] = mpx.elems[j]
          /\ mpx'.elems[i].st # "pending"
      BY <2>1, <2>3, <2>4, CancelIs, SMTT(20)
    <2>9. Tasks'
      BY <1>1, <1>2, <2>7 DEF Tasks, PendingOffset
    <2>10. Unsent(mpx, sent)'
      BY <2>7, <1>1, <1>2 DEF Unsent, Sending
    <2>11. Sending'
      BY <2>10, <1>1, <1>2, <1>3 DEF Sending, netVars
    <2>13. Mirror'
      BY <1>2, <1>1, <2>1, <2>3, MirrorCancel, SMTT(20) DEF Arriving, Mirror, netVars
    <2>. QED
      BY <2>5, <2>9, <2>11, <2>13, <2>1, <1>1, <1>2, <1>5, ArrivingSame DEF IInv, CallTypes,
         SuccessIsComplete, netVars
  <1>. QED
    BY <1>4, <1>5

LEMMA ConnectSucceedsStep ==
  ASSUME IInv, ConnectSucceeds
  PROVE  IInv'
  <1>1. /\ run = "connecting" /\ run' = "running" /\ writer' = "woken" /\ reader' = "reading"
        /\ link' = TRUE /\ buffer' = <<>> /\ backlog' = <<>> /\ srv' = NewBackend
        /\ transit' = <<>>
        /\ UNCHANGED <<mpx, exec, done, result, writeEvt, stopReq, stale, sent, served>>
    BY DEF ConnectSucceeds, execVars
  <1>2. CallTypes /\ Tasks /\ Queue(mpx, exec, done) /\ Sending /\ SuccessIsComplete
    BY DEF IInv
  <1>10. Mirror'
    BY <1>1, <1>2, MirrorBegins DEF Tasks, Mirror
  <1>. QED
    BY <1>10, <1>1, <1>2, SeqEmpty, SMTT(20) DEF IInv, CallTypes, Tasks, Arriving, Sending, Pipe,
       SuccessIsComplete

\* What the calls to on_done() change.
LEMMA NotifyIs ==
  ASSUME CallTypes, NEW calls, Notify(calls)
  PROVE  /\ CallTypes'
         /\ \A e \in Execs :
              /\ exec'[e] = "idle" => exec[e] = "idle"
              /\ Waits(exec', done', e) <=> Waits(exec, done, e) /\ ~ \E c \in calls : c[1] = e
              /\ done'[e] => done[e] \/ \E c \in calls : c[1] = e
              /\ (~ \E c \in calls : c[1] = e) => result'[e] = result[e]
              /\ (\E c \in calls : c[1] = e) => \E c \in calls : c[1] = e /\ result'[e] = c[2]
  <1> DEFINE ids == {c[1] : c \in calls}
             Result(e) == (CHOOSE c \in calls : c[1] = e)[2]
  <1>1. /\ done' = [e \in Execs |-> done[e] \/ e \in ids]
        /\ result' = [e \in Execs |-> IF e \in ids THEN Result(e) ELSE result[e]]
        /\ exec' = [e \in Execs |-> IF e \in ids /\ exec[e] = "waiting" THEN "woken" ELSE exec[e]]
    BY DEF Notify
  <1>3. \A e \in Execs : (\E c \in calls : c[1] = e) =>
                           \E c \in calls : c[1] = e /\ Result(e) = c[2]
    <2>1. SUFFICES ASSUME NEW e \in Execs, \E c \in calls : c[1] = e
                   PROVE  \E c \in calls : c[1] = e /\ Result(e) = c[2]
      OBVIOUS
    <2> DEFINE d == CHOOSE c \in calls : c[1] = e
    <2>2. d \in calls /\ d[1] = e
      BY <2>1
    <2>3. Result(e) = d[2]
      OBVIOUS
    <2>. QED
      BY <2>2, <2>3
  <1> HIDE DEF ids, Result
  <1>4. exec \in [Execs -> {"idle", "waiting", "woken", "returned"}] /\ done \in [Execs -> BOOLEAN]
    BY DEF CallTypes
  <1>6. ASSUME NEW e \in Execs
        PROVE  /\ exec'[e] = "idle" => exec[e] = "idle"
               /\ Waits(exec', done', e) <=> Waits(exec, done, e) /\ e \notin ids
               /\ done'[e] => done[e] \/ e \in ids
               /\ e \notin ids => result'[e] = result[e]
               /\ e \in ids => result'[e] = Result(e)
    BY <1>1, <1>4 DEF Waits
  <1>. QED
    BY <1>3, <1>6, <1>1, <1>4, SMTT(20) DEF ids, CallTypes

\* Nobody is told anything.
LEMMA NotifyNobody ==
  ASSUME CallTypes, NEW calls, Notify(calls), calls = {}
  PROVE  UNCHANGED <<exec, done, result>>
  BY DEF Notify, CallTypes

LEMMA TasksEndStep ==
  ASSUME IInv, TasksEnd
  PROVE  IInv'
  <1>1. /\ run = "running" /\ writer = "ended" /\ reader \in {"ended", "failed"} /\ link' = FALSE
        /\ UNCHANGED <<writeEvt, stopReq, writer, reader, stale, sent>>
        /\ UNCHANGED <<buffer, backlog, srv, transit, served>>
    BY DEF TasksEnd
  <1>2. CallTypes /\ Tasks /\ Queue(mpx, exec, done) /\ Sending /\ SuccessIsComplete /\ Arriving
    BY DEF IInv
  <1>3. Mirror' /\ Arriving'
    BY <1>1, <1>2, ArrivingSame DEF Mirror
  <1>4. CASE stopReq
    <2>1. run' = "stopped" /\ UNCHANGED <<mpx, exec, done, result>>
      BY <1>4 DEF TasksEnd, execVars
    <2>2. CallTypes' /\ Queue(mpx, exec, done)' /\ Tasks' /\ Sending' /\ SuccessIsComplete'
      <3>2. Tasks'
        BY <2>1, <1>1, <1>2 DEF Tasks
      <3>. QED
        BY <3>2, <2>1, <1>2, <1>1 DEF CallTypes, Sending, SuccessIsComplete
    <2>. QED
      BY <2>2, <1>3 DEF IInv
  <1>5. CASE ~ stopReq
    <2> DEFINE out == Cleanup(mpx)
               p == PendingOffset(mpx)
    <2>1. run' = "delay" /\ mpx' = out.mpx /\ Notify(out.done)
      BY <1>5 DEF TasksEnd
    <2>2. out.done = {<<mpx.elems[i].id, "operation_canceled">> :
                        i \in {j \in 1..p : mpx.elems[j].st = "in_flight"}}
      BY DEF Cleanup
    <2> HIDE DEF out
    <2>3. mpx \in Mpxs /\ mpx.numPending <= Len(mpx.elems)
      BY <1>2 DEF Queue, Shape
    <2>4. p \in 0..Len(mpx.elems) /\ Len(mpx.elems) \in Nat /\ p = Len(mpx.elems) - mpx.numPending
          /\ mpx.numPending \in Nat
      BY <2>3, OffsetIs DEF Mpxs
    <2>5. \A c \in out.done : /\ c[2] = "operation_canceled"
                              /\ \E i \in 1..p : mpx.elems[i].id = c[1] /\ mpx.elems[i].st = "in_flight"
      BY <2>2, SMTT(20)
    <2>6. \A i \in 1..p : mpx.elems[i].st = "in_flight" => \E c \in out.done : c[1] = mpx.elems[i].id
      <3>1. ASSUME NEW i \in 1..p, mpx.elems[i].st = "in_flight"
            PROVE  \E c \in out.done : c[1] = mpx.elems[i].id
        <4>1. <<mpx.elems[i].id, "operation_canceled">> \in out.done
          BY <3>1, <2>2
        <4>. QED
          BY <4>1
      <3>. QED
        BY <3>1
    <2>7. /\ CallTypes'
          /\ \A e \in Execs :
               /\ exec'[e] = "idle" => exec[e] = "idle"
               /\ Waits(exec', done', e) <=> Waits(exec, done, e) /\ ~ \E c \in out.done : c[1] = e
               /\ done'[e] => done[e] \/ \E c \in out.done : c[1] = e
               /\ (~ \E c \in out.done : c[1] = e) => result'[e] = result[e]
               /\ (\E c \in out.done : c[1] = e) => \E c \in out.done : c[1] = e /\ result'[e] = c[2]
      BY <2>1, <1>2, NotifyIs
    <2>8. ASSUME NEW e \in Execs
          PROVE  Waits(exec', done', e) <=>
                   Waits(exec, done, e) /\ ~ \E i \in 1..p : mpx.elems[i].id = e
      <3>1. ASSUME Waits(exec, done, e), NEW i \in 1..p, mpx.elems[i].id = e
            PROVE  mpx.elems[i].st = "in_flight"
        BY <1>2, <2>4, <3>1, SMTT(20) DEF Queue, Owned, Shape
      <3>. QED
        BY <3>1, <2>5, <2>6, <2>7, SMTT(20)
    <2>9. Queue(mpx', exec', done') /\ PendingOffset(mpx') = 0
      BY <1>2, <2>1, <2>7, <2>8, QueueCleanup, SMTT(20) DEF out
    <2>10. Tasks'
      BY <2>1, <2>9, <1>1, <1>2 DEF Tasks
    <2>11. Unsent(mpx', sent')
      <3>1. /\ Len(mpx'.elems) = mpx.numPending
            /\ \A i \in 1..mpx.numPending : mpx'.elems[i] = mpx.elems[p + i]
        BY <2>1, <2>3, CleanupIs DEF out
      <3>2. \A i \in 1..mpx.numPending : p + i \in 1..Len(mpx.elems)
        BY <2>4, SMTT(20)
      <3>3. Unsent(mpx, sent)
        BY <1>2 DEF Sending
      <3>. QED
        BY <3>1, <3>2, <3>3, <1>1, SMTT(20) DEF Unsent
    <2>12. Sending'
      <3>1. ASSUME NEW e \in Execs, exec'[e] = "idle" PROVE ~ done'[e] /\ sent'[e] = 0
        <4>1. exec[e] = "idle" /\ ~ done[e] /\ sent[e] = 0
          BY <3>1, <2>7, <1>2 DEF Sending
        <4>2. ASSUME NEW c \in out.done, c[1] = e PROVE FALSE
          BY <1>2, <2>5, <2>4, <4>2, <4>1, SMTT(20) DEF Queue, Owned
        <4>. QED
          BY <4>1, <4>2, <2>7, <1>1
      <3>. QED
        BY <3>1, <2>11, <1>1, <1>2 DEF Sending
    <2>. QED
      BY <2>7, <2>9, <2>10, <2>12, <1>3, <1>1, <1>2, <2>5, SMTT(20) DEF IInv, SuccessIsComplete
  <1>. QED
    BY <1>4, <1>5

\* A call is written once at most in a round of the writer.
LEMMA CountIs ==
  ASSUME Facts, NEW b \in Seq(Execs), \A i, j \in 1..Len(b) : b[i] = b[j] => i = j, NEW e \in Execs
  PROVE  Cardinality({i \in DOMAIN b : b[i] = e}) =
           IF \E i \in 1..Len(b) : b[i] = e THEN 1 ELSE 0
  <1>1. DOMAIN b = 1..Len(b)
    BY SeqLen
  <1>2. CASE \E i \in 1..Len(b) : b[i] = e
    <2>1. PICK i \in 1..Len(b) : b[i] = e
      BY <1>2
    <2>2. {j \in DOMAIN b : b[j] = e} = {i}
      BY <1>1, <2>1
    <2>. QED
      BY <2>2, <1>2, SmallSetIs
  <1>3. CASE ~ \E i \in 1..Len(b) : b[i] = e
    <2>1. {j \in DOMAIN b : b[j] = e} = {}
      BY <1>1, <1>3
    <2>. QED
      BY <2>1, <1>3, SmallSetIs
  <1>. QED
    BY <1>2, <1>3

LEMMA WriterLoopStep ==
  ASSUME Facts, IInv, WriterLoop, buffer = <<>>, run = "running",
         UNCHANGED <<exec, done, result, run, stopReq, reader, stale>>,
         UNCHANGED <<link, backlog, srv, transit, served>>
  PROVE  IInv'
  <1> DEFINE b == PrepareWrite(mpx).buffer
  <1>1. /\ mpx' = PrepareWrite(mpx).mpx /\ buffer' = b
        /\ writer' \in {"asleep", "writing"} /\ (writer' = "asleep" => b = <<>>)
        /\ writeEvt' \in {writeEvt, FALSE}
        /\ sent' = [e \in Execs |-> sent[e] + Cardinality({i \in DOMAIN b : b[i] = e})]
    BY DEF WriterLoop
  <1>2. CallTypes /\ Tasks /\ Queue(mpx, exec, done) /\ Sending /\ SuccessIsComplete /\ Arriving
        /\ Mirror
    BY DEF IInv
  <1>3. /\ Sound(b) /\ b \in Seq(Execs) /\ Len(b) \in Nat
        /\ \A j \in 1..Len(b) : \E i \in 1..Len(mpx.elems) :
             mpx.elems[i].id = b[j] /\ mpx.elems[i].st = "pending"
        /\ \A j, k \in 1..Len(b) : b[j] = b[k] => j = k
    <2>1. PendingOnce(mpx, b)
      BY <1>2, BufferIs
    <2> HIDE DEF b
    <2>. QED
      BY <2>1 DEF PendingOnce
  <1>6. Tasks'
    BY <1>1, <1>2 DEF Tasks
  <1>8. PICK M : transit \in Seq(M)
    BY <1>2 DEF Arriving
  <1>9. Mirror'
    BY <1>1, <1>2, <1>8, MirrorWrite DEF Mirror
  <1> HIDE DEF b
  <1>10. \A j \in 1..Len(b) : b[j] \in Execs /\ sent[b[j]] = 0
    <2>1. ASSUME NEW j \in 1..Len(b) PROVE b[j] \in Execs /\ sent[b[j]] = 0
      <3>1. PICK i \in 1..Len(mpx.elems) : mpx.elems[i].id = b[j] /\ mpx.elems[i].st = "pending"
        BY <1>3
      <3>2. sent[mpx.elems[i].id] = 0
        BY <3>1, <1>2 DEF Sending, Unsent
      <3>. QED
        BY <3>1, <3>2, <1>3, SeqElem
    <2>. QED
      BY <2>1
  <1>11. \A e \in Execs : sent'[e] = IF \E i \in 1..Len(b) : b[i] = e THEN 1 ELSE sent[e]
    <2>1. ASSUME NEW e \in Execs
          PROVE  sent'[e] = IF \E i \in 1..Len(b) : b[i] = e THEN 1 ELSE sent[e]
      <3>2. Cardinality({i \in DOMAIN b : b[i] = e}) =
              IF \E i \in 1..Len(b) : b[i] = e THEN 1 ELSE 0
        BY <1>3, CountIs
      <3>. QED
        BY <3>2, <1>1, <1>2, <1>10, SMTT(20) DEF Sending
    <2>. QED
      BY <2>1
  <1>13. \A e \in Execs : sent[e] = 1 => sent'[e] = 1 /\ \A j \in 1..Len(b) : b[j] # e
    BY <1>10, <1>11, SMTT(20)
  <1>14. Pipe(sent, served, backlog, buffer)'
    <2>6. Pipe(sent', served, backlog, b)
      BY <1>10, <1>11, <1>13, <1>2, SeqElem, <1>3, SMTT(20) DEF Pipe, Sending
    <2>. QED
      BY <2>6, <1>1
  <1>15. Unsent(mpx, sent)'
    BY <1>1, <1>2, PrepareIs, SMTT(20) DEF Queue, Shape, Unsent
  <1>16. \A e \in Execs : exec'[e] = "idle" => ~ done'[e] /\ sent'[e] = 0
    <2>1. ASSUME NEW e \in Execs, exec[e] = "idle" PROVE sent'[e] = 0
      <3>1. ASSUME NEW j \in 1..Len(b), b[j] = e PROVE FALSE
        BY <1>3, <1>2, <2>1, <3>1, SMTT(20) DEF Queue, Owned
      <3>. QED
        BY <3>1, <1>11, <2>1, <1>2 DEF Sending
    <2>. QED
      BY <2>1, <1>2 DEF Sending
  <1>18. Sending'
    BY <1>1, <1>2, <1>3, <1>14, <1>15, <1>16, <1>11, <1>13, SMTT(20) DEF Sending
  <1>. QED
    BY <1>6, <1>9, <1>18, <1>1, <1>2, QueuePrepare, ArrivingSame DEF IInv, CallTypes,
       SuccessIsComplete

LEMMA WriterSteps ==
  ASSUME Facts, IInv, WriterResumes \/ WriteCompletes
  PROVE  IInv'
  BY WriterLoopStep DEF WriterResumes, WriteCompletes, execVars, IInv, Tasks

\* The end of a response that a call waits for, or an error in it.
LEMMA SuccessTold ==
  ASSUME IInv, NEW e \in Execs, NEW ec, Notify({<<e, ec>>}), transit # <<>>,
         transit' = Tail(transit), UNCHANGED served,
         ec = "ok" => e \in served /\ \A i \in 1..Len(transit') : transit'[i].owner # e
  PROVE  SuccessIsComplete'
  BY NotifyIs, SeqTail, SeqLen, SMTT(20) DEF IInv, Arriving, SuccessIsComplete

\* Fewer messages are left.
LEMMA SuccessLeft ==
  ASSUME SuccessIsComplete, Arriving, transit # <<>>, transit' = Tail(transit),
         UNCHANGED <<done, result, served>>
  PROVE  SuccessIsComplete' /\ Arriving'
  BY SeqTail, SeqLen, SMTT(20) DEF Arriving, SuccessIsComplete

LEMMA UnsentWithin ==
  ASSUME NEW m, NEW w, Within(w, m), NEW sn, Unsent(m, sn)
  PROVE  Unsent(w, sn)
  BY DEF Within, Unsent

\* What a step of the reader keeps when it goes on with the queue and nobody is told
\* anything.
LEMMA ReaderGoesOn ==
  ASSUME IInv, transit # <<>>, transit' = Tail(transit), reader \in {"reading", "adding"},
         reader' \in {"reading", "adding"}, stale' = stale,
         UNCHANGED <<exec, done, result, writeEvt, run, stopReq, writer, sent>>,
         UNCHANGED <<buffer, link, backlog, srv, served>>,
         Queue(mpx', exec, done), Within(mpx', mpx),
         NEW o, NEW c, NEW B, link => Ends(transit, o, c, B, srv, backlog, buffer),
         Delivered(mpx', transit, o, c, B, served)
  PROVE  IInv'
  BY SuccessLeft, UnsentWithin DEF IInv, CallTypes, Tasks, Sending, Delivered, Mirror

LEMMA ReaderNotifiesStep ==
  ASSUME Facts, IInv, ReaderNotifies
  PROVE  IInv'
  <1>1. /\ reader = "reading" /\ transit # <<>> /\ Head(transit).kind = "notification_response"
        /\ reader' \in {"reading", "adding"} /\ transit' = Tail(transit) /\ mpx' = mpx
        /\ stale' = stale
        /\ UNCHANGED <<exec, done, result, writeEvt, run, stopReq, writer, sent>>
        /\ UNCHANGED <<buffer, link, backlog, srv, served>>
    BY DEF ReaderNotifies, execVars
  <1>2. PICK o, c, B : /\ Mirrored(mpx, transit, o, c, B, served)
                       /\ link => Ends(transit, o, c, B, srv, backlog, buffer)
    BY <1>1 DEF IInv, Mirror
  <1>3. PICK M : transit \in Seq(M)
    BY DEF IInv, Arriving
  <1>. QED
    BY <1>1, <1>2, ReaderGoesOn, <1>3, DeliverAsync DEF AsyncKinds, IInv, Queue, Shape, Within

LEMMA ReaderDeliversStep ==
  ASSUME Facts, IInv, ReaderDelivers
  PROVE  IInv'
  <1> DEFINE k == Head(transit).kind
             out == OnMessage(mpx, RequestOf, k)
  <1>1. /\ reader = "reading" /\ transit # <<>> /\ mpx' = out.mpx /\ Notify(out.done)
        /\ reader' = (IF out.ec = "ok" THEN "reading" ELSE "ended")
        /\ stale' = (stale \/ out.ec # "ok") /\ transit' = Tail(transit)
        /\ UNCHANGED <<writeEvt, run, stopReq, writer, sent>>
        /\ UNCHANGED <<buffer, link, backlog, srv, served>>
    BY DEF ReaderDelivers
  <1>2. CallTypes /\ Tasks /\ Queue(mpx, exec, done) /\ Sending /\ SuccessIsComplete /\ Arriving
        /\ mpx \in Mpxs
    BY DEF IInv, Queue, Shape
  <1>3. PICK o, c, B : /\ Mirrored(mpx, transit, o, c, B, served)
                       /\ link => Ends(transit, o, c, B, srv, backlog, buffer)
    BY <1>1 DEF IInv, Mirror
  <1>4. PICK M : transit \in Seq(M)
    BY <1>2 DEF Arriving
  <1>5. ASSUME out.done = {}, out.ec = "ok", Queue(out.mpx, exec, done), Within(out.mpx, mpx),
               Delivered(out.mpx, transit, o, c, B, served)
        PROVE  IInv'
    BY <1>1, <1>2, <1>5, <1>3, NotifyNobody, ReaderGoesOn DEF Tasks
  <1>6. CASE k \in AsyncKinds
    <2>2. Delivered(mpx, transit, o, c, B, served)
      BY <1>2, <1>3, <1>4, <1>1, <1>6, DeliverAsync
    <2>3. Within(mpx, mpx)
      BY DEF Within
    <2>. QED
      BY <2>2, <2>3, <1>2, <1>5, <1>6 DEF OnMessage
  <1>7. CASE k \notin AsyncKinds
    <2>1. \/ /\ out.done = {} /\ out.ec = "ok" /\ Queue(out.mpx, exec, done) /\ Within(out.mpx, mpx)
             /\ Delivered(out.mpx, transit, o, c, B, served)
          \/ /\ out.done = {<<o[1], out.ec>>} /\ Within(out.mpx, mpx) /\ o[1] \in Execs
             /\ \E x : /\ Queue(x, exec, done) /\ x.st # "initial" /\ x.elems[1].id = o[1]
                       /\ Popped(x, out.mpx)
             /\ out.ec = "ok" =>
                  /\ o[1] \in served /\ Delivered(out.mpx, transit, o, c, B, served)
                  /\ \A i \in 1..Len(Tail(transit)) : Tail(transit)[i].owner # o[1]
      BY <1>1, <1>2, <1>3, <1>4, <1>7, DeliverReply
    <2> HIDE DEF out
    <2>2. ASSUME out.done = {<<o[1], out.ec>>}, Within(out.mpx, mpx), o[1] \in Execs,
                 NEW x, Queue(x, exec, done), x.st # "initial", x.elems[1].id = o[1],
                 Popped(x, out.mpx),
                 out.ec = "ok" =>
                   /\ o[1] \in served /\ Delivered(out.mpx, transit, o, c, B, served)
                   /\ \A i \in 1..Len(Tail(transit)) : Tail(transit)[i].owner # o[1]
          PROVE  IInv'
      <3> DEFINE e == o[1]
                 calls == out.done
      <3>2. \A d : (\E a \in calls : a[1] = d) <=> d = e
        BY <2>2, SMTT(20)
      <3> HIDE DEF e, calls
      <3>3. /\ CallTypes'
            /\ \A d \in Execs :
                 /\ exec'[d] = "idle" => exec[d] = "idle"
                 /\ Waits(exec', done', d) <=> Waits(exec, done, d) /\ ~ \E a \in calls : a[1] = d
                 /\ done'[d] => done[d] \/ \E a \in calls : a[1] = d
        BY NotifyIs, <1>1, <1>2, SMTT(20) DEF calls
      <3>5. Queue(mpx', exec', done')
        BY <1>1, <2>2, <3>3, QueuePop, <3>2, SMTT(20) DEF Popped, e
      <3>6. SuccessIsComplete'
        <4>1. Notify({<<e, out.ec>>}) /\ e \in Execs
          BY <2>2, <1>1 DEF e
        <4>2. out.ec = "ok" => e \in served /\ \A i \in 1..Len(transit') : transit'[i].owner # e
          BY <2>2, <1>1 DEF e
        <4>. QED
          BY <4>1, <4>2, <1>1, SuccessTold
      <3>9. Sending'
        <4>2. exec[e] # "idle"
          BY <2>2, SeqLen, SeqEmpty, SMTT(20) DEF Queue, Shape, Front, Mpxs, Owned, e
        <4>3. \A d \in Execs : exec'[d] = "idle" => ~ done'[d] /\ sent[d] = 0
          BY <4>2, <3>2, <3>3, <1>2 DEF Sending
        <4>. QED
          BY <4>3, <1>1, <1>2, <2>2, UnsentWithin DEF Sending
      <3>10. Mirror'
        BY <1>1, <1>3, <2>2 DEF Delivered, Mirror
      <3>. QED
        BY <3>3, <3>5, <3>6, <3>9, <3>10, <1>1, <1>2, <1>4, SeqTail DEF IInv, Tasks, Arriving
    <2>. QED
      BY <2>1, <2>2, <1>5
  <1>. QED
    BY <1>6, <1>7

-----------------------------------------------------------------------------
(* The steps of the network and of the backend *)

LEMMA PipeTransmit ==
  ASSUME NEW sn, NEW sv, NEW bl \in Seq(Execs), NEW bf \in Seq(Execs), Pipe(sn, sv, bl, bf),
         bf # <<>>
  PROVE  /\ Append(bl, Head(bf)) \in Seq(Execs) /\ Tail(bf) \in Seq(Execs)
         /\ Pipe(sn, sv, Append(bl, Head(bf)), Tail(bf))
         /\ Pipe(sn, sv, bl, Tail(bf))
  BY SeqLen, SeqEmpty, SeqTail, SeqAppend, SMTT(20) DEF Pipe

LEMMA PipeFinish ==
  ASSUME NEW sn, NEW sv, NEW bl \in Seq(Execs), NEW bf \in Seq(Execs), Pipe(sn, sv, bl, bf),
         bl # <<>>
  PROVE  /\ Tail(bl) \in Seq(Execs) /\ Head(bl) \in Execs
         /\ sn[Head(bl)] = 1 /\ Head(bl) \notin sv
         /\ Pipe(sn, sv \cup {Head(bl)}, Tail(bl), bf)
  BY SeqLen, SeqEmpty, SeqTail, SMTT(20) DEF Pipe

\* The network and the backend leave the client alone.
LEMMA ClientAlone ==
  ASSUME IInv, UNCHANGED <<mpx, exec, done, result, writeEvt, run, stopReq, writer, reader, stale>>,
         writer = "writing" \/ buffer' = buffer, link' \in BOOLEAN
  PROVE  CallTypes' /\ Queue(mpx, exec, done)' /\ Tasks'
  BY DEF IInv, CallTypes, Tasks

LEMMA TransmitStep ==
  ASSUME IInv, Transmit
  PROVE  IInv'
  <1>1. /\ writer = "writing" /\ buffer # <<>> /\ buffer' = Tail(buffer)
        /\ backlog' = (IF link THEN Append(backlog, Head(buffer)) ELSE backlog)
        /\ UNCHANGED <<mpx, exec, done, result, writeEvt, run, stopReq, writer, reader, stale>>
        /\ UNCHANGED <<sent, link, srv, transit, served>>
    BY DEF Transmit, execVars, taskVars
  <1>2. Sending /\ SuccessIsComplete /\ Arriving /\ Mirror /\ link \in BOOLEAN
    BY DEF IInv, Tasks
  <1>5. /\ Append(backlog, Head(buffer)) \in Seq(Execs) /\ Tail(buffer) \in Seq(Execs)
        /\ Pipe(sent, served, Append(backlog, Head(buffer)), Tail(buffer))
        /\ Pipe(sent, served, backlog, Tail(buffer))
    BY <1>1, <1>2, PipeTransmit DEF Sending
  <1>8. PICK M : transit \in Seq(M)
    BY <1>2 DEF Arriving
  <1>. QED
    BY <1>1, <1>2, ClientAlone, ArrivingSame, <1>8, MirrorTransmit, <1>5 DEF IInv,
       SuccessIsComplete, Mirror, Sending

LEMMA SeqGrows ==
  ASSUME NEW M, NEW x, NEW q \in Seq(M)
  PROVE  q \in Seq(M \cup {x})
  BY SeqLen, SeqElem, SMTT(20)

\* A message is added to what is on its way.
LEMMA ArrivingMore ==
  ASSUME Arriving, NEW msg, transit' = Append(transit, msg)
  PROVE  /\ \E M : transit \in Seq(M) /\ msg \in M
         /\ Arriving'
         /\ \A i \in 1..Len(transit') :
              \/ transit'[i] = msg
              \/ i \in 1..Len(transit) /\ transit'[i] = transit[i]
  <1>1. PICK M : transit \in Seq(M)
    BY DEF Arriving
  <1> DEFINE N == M \cup {msg}
  <1>2. transit \in Seq(N) /\ msg \in N
    BY <1>1, SeqGrows
  <1> HIDE DEF N
  <1>. QED
    BY <1>2, SeqAppend, SeqLen, SMTT(20) DEF Arriving

LEMMA BackendPassesOverStep ==
  ASSUME Facts, IInv, BackendPassesOver
  PROVE  IInv'
  <1>2. Sending /\ SuccessIsComplete /\ Arriving /\ Mirror /\ link \in BOOLEAN /\ mpx \in Mpxs
    BY DEF IInv, Tasks, Queue, Shape
  <1>6. PICK M : transit \in Seq(M)
    BY <1>2 DEF Arriving
  <1>. QED
    BY <1>2, ClientAlone, ArrivingSame, <1>6, MirrorPass DEF IInv, SuccessIsComplete, Sending,
       Mirror, BackendPassesOver, execVars, taskVars

LEMMA BackendRepliesStep ==
  ASSUME Facts, IInv, BackendReplies
  PROVE  IInv'
  <1> DEFINE h == Head(backlog)
             r == RequestOf[Head(backlog)]
  <1>1. PICK reply \in Replies(r, srv) :
          /\ transit' = Append(transit, [owner |-> h, kind |-> reply[1]])
          /\ IF Finished(r, reply[2])
             THEN backlog' = Tail(backlog) /\ srv' = NewBackend /\ served' = served \cup {h}
             ELSE srv' = reply[2] /\ UNCHANGED <<backlog, served>>
    BY DEF BackendReplies
  <1> DEFINE msg == [owner |-> h, kind |-> reply[1]]
  <1>2. /\ link /\ backlog # <<>>
        /\ UNCHANGED <<mpx, exec, done, result, writeEvt, run, stopReq, writer, reader, stale>>
        /\ UNCHANGED <<sent, link, buffer>>
    BY DEF BackendReplies, execVars, taskVars
  <1>3. Sending /\ SuccessIsComplete /\ Arriving /\ Mirror /\ link \in BOOLEAN /\ mpx \in Mpxs
    BY DEF IInv, Tasks, Queue, Shape
  <1>5. msg.owner = h /\ msg.kind = reply[1] /\ transit' = Append(transit, msg)
    BY <1>1
  <1>6. /\ Tail(backlog) \in Seq(Execs) /\ h \in Execs /\ sent[h] = 1 /\ h \notin served
        /\ Pipe(sent, served \cup {h}, Tail(backlog), buffer)
    BY <1>2, <1>3, PipeFinish DEF Sending
  <1> HIDE DEF msg
  <1>7. /\ \E M : transit \in Seq(M) /\ msg \in M
        /\ Arriving'
        /\ \A i \in 1..Len(transit') :
             transit'[i] = msg \/ (i \in 1..Len(transit) /\ transit'[i] = transit[i])
    BY <1>3, <1>5, ArrivingMore
  <1>8. PICK M : transit \in Seq(M) /\ msg \in M
    BY <1>7
  <1>11. /\ Pipe(sent, served', backlog', buffer) /\ served' \subseteq Execs
         /\ backlog' \in Seq(Execs) /\ \A e \in served' : sent[e] = 1
    <2>1. CASE Finished(r, reply[2])
      BY <2>1, <1>1, <1>3, <1>6 DEF Sending
    <2>2. CASE ~ Finished(r, reply[2])
      BY <2>2, <1>1, <1>3 DEF Sending
    <2>. QED
      BY <2>1, <2>2
  <1>13. Mirror'
    <2>1. SUFFICES ASSUME reader \in {"reading", "adding"}
                   PROVE  \E o, c, B : /\ Mirrored(mpx, transit', o, c, B, served')
                                       /\ Ends(transit', o, c, B, srv', backlog', buffer)
      BY <1>2 DEF Mirror
    <2>2. PICK o, c, B : /\ Mirrored(mpx, transit, o, c, B, served)
                         /\ Ends(transit, o, c, B, srv, backlog, buffer)
      BY <2>1, <1>2, <1>3 DEF Mirror
    <2> HIDE DEF r
    <2>4. Continues(mpx, Append(transit, msg), o, served, backlog, buffer, r, reply[2])
      BY <2>2, <1>2, <1>3, <1>5, <1>8, MirrorReply DEF r
    <2>5. CASE Finished(r, reply[2])
      BY <2>4, <2>5, <1>1, <1>5 DEF Continues
    <2>6. CASE ~ Finished(r, reply[2])
      BY <2>4, <2>6, <1>1, <1>5 DEF Continues
    <2>. QED
      BY <2>5, <2>6
  <1>. QED
    BY <1>7, <1>13, <1>2, <1>3, ClientAlone, <1>5, <1>6, <1>1, <1>11, SMTT(20) DEF IInv, SuccessIsComplete,
       Sending

LEMMA BackendInterjectsStep ==
  ASSUME IInv, BackendInterjects
  PROVE  IInv'
  <1>1. PICK k \in Interjections : transit' = Append(transit, [owner |-> None, kind |-> k])
    BY DEF BackendInterjects
  <1> DEFINE msg == [owner |-> None, kind |-> k]
  <1>2. UNCHANGED <<mpx, exec, done, result, writeEvt, run, stopReq, writer, reader, stale>>
    BY DEF BackendInterjects, execVars, taskVars
  <1>4. Sending /\ SuccessIsComplete /\ Arriving /\ Mirror /\ link \in BOOLEAN /\ mpx \in Mpxs
    BY DEF IInv, Tasks, Queue, Shape
  <1>6. msg.owner = None /\ msg.kind \in AsyncKinds /\ transit' = Append(transit, msg)
    BY <1>1, MultiplexParams
  <1> HIDE DEF msg
  <1>7. /\ \E M : transit \in Seq(M) /\ msg \in M
        /\ Arriving'
        /\ \A i \in 1..Len(transit') :
             transit'[i] = msg \/ (i \in 1..Len(transit) /\ transit'[i] = transit[i])
    BY <1>4, <1>6, ArrivingMore
  <1>8. PICK M : transit \in Seq(M) /\ msg \in M
    BY <1>7
  <1>3. UNCHANGED <<sent, buffer, backlog, srv, served, link>>
    BY DEF BackendInterjects
  <1>9. CallTypes' /\ Queue(mpx, exec, done)' /\ Tasks'
    BY <1>2, <1>3, <1>4, ClientAlone
  <1>10. Sending'
    BY <1>2, <1>3, <1>4 DEF Sending
  <1>11. SuccessIsComplete'
    <2>1. ASSUME NEW e \in Execs, done[e], result[e] = "ok"
          PROVE  e \in served /\ \A i \in 1..Len(transit') : transit'[i].owner # e
      <3>1. e \in served /\ \A i \in 1..Len(transit) : transit[i].owner # e
        BY <2>1, <1>4 DEF SuccessIsComplete
      <3>2. msg.owner # e
        BY <1>6, NoneIsNoCall
      <3>. QED
        BY <3>1, <3>2, <1>7
    <2>. QED
      BY <2>1, <1>2, <1>3 DEF SuccessIsComplete
  <1>12. Mirror'
    <2>1. SUFFICES ASSUME reader \in {"reading", "adding"} PROVE Mirror'
      BY <1>2 DEF Mirror
    <2>2. PICK o, c, B : /\ Mirrored(mpx, transit, o, c, B, served)
                         /\ link => Ends(transit, o, c, B, srv, backlog, buffer)
      BY <1>4, <2>1 DEF Mirror
    <2>3. PICK cc, BB :
            /\ Mirrored(mpx, Append(transit, msg), o, cc, BB, served)
            /\ \A sr, bl, bf : Ends(transit, o, c, B, sr, bl, bf) =>
                                 Ends(Append(transit, msg), o, cc, BB, sr, bl, bf)
      BY <2>2, <1>4, <1>6, <1>8, MirrorInterject
    <2>. QED
      BY <2>2, <2>3, <1>2, <1>3, <1>6 DEF Mirror
  <1>. QED
    BY <1>7, <1>9, <1>10, <1>11, <1>12 DEF IInv

LEMMA ConnectionLostStep ==
  ASSUME IInv, ConnectionLost
  PROVE  IInv'
  <1>1. PICK n \in 0..Len(transit) : transit' = SubSeq(transit, 1, n)
    BY DEF ConnectionLost
  <1>2. /\ UNCHANGED <<mpx, exec, done, result, writeEvt, run, stopReq, writer, reader, stale>>
        /\ link' = FALSE
    BY DEF ConnectionLost, execVars, taskVars
  <1>3. UNCHANGED <<sent, buffer, backlog, srv, served>>
    BY DEF ConnectionLost
  <1>4. Sending /\ SuccessIsComplete /\ Arriving /\ Mirror
    BY DEF IInv
  <1>5. CallTypes' /\ Queue(mpx, exec, done)' /\ Tasks'
    BY <1>2, <1>3, ClientAlone
  <1>6. PICK M : transit \in Seq(M)
    BY <1>4 DEF Arriving
  <1>7. /\ transit' \in Seq(M) /\ Len(transit') = n /\ n \in Nat /\ Len(transit) \in Nat
        /\ \A i \in 1..n : transit'[i] = transit[i] /\ i \in 1..Len(transit)
    BY <1>6, <1>1, SeqLen, SeqPart, SMTT(20)
  <1>10. Mirror'
    BY <1>2, <1>3, <1>4, <1>1, <1>6, MirrorLost DEF Mirror
  <1>11. Sending'
    BY <1>2, <1>3, <1>4 DEF Sending
  <1>12. SuccessIsComplete'
    BY <1>2, <1>3, <1>4, <1>7 DEF SuccessIsComplete
  <1>. QED
    BY <1>5, <1>7, <1>10, <1>11, <1>12 DEF IInv, Arriving

-----------------------------------------------------------------------------
(* What follows from the invariant *)

LEMMA Inductive ==
  ASSUME Facts, IInv, [Next]_vars
  PROVE  IInv'
  <1>1. CASE UNCHANGED vars
    BY <1>1, ClientAlone, SendingSame, SuccessSame, ArrivingSame, MirrorSame DEF vars, execVars,
       taskVars, netVars, IInv, Tasks
  <1>2. ASSUME NEW e \in Execs, ExecCalled(e) \/ ExecCancelled(e) \/ ExecResumes(e) PROVE IInv'
    BY <1>2, ExecCalledStep, ExecCancelledStep, ExecResumesStep
  <1>3. CASE ConnectFails \/ DelayElapses \/ StopRequested \/ Stopped \/ WriterEnds
               \/ ReaderAdds \/ ReaderGivesUp \/ ReaderFails
    BY <1>3, QuietSteps
  <1>4. CASE ConnectSucceeds \/ TasksEnd
    BY <1>4, ConnectSucceedsStep, TasksEndStep
  <1>5. CASE WriterResumes \/ WriteCompletes
    BY <1>5, WriterSteps
  <1>6. CASE ReaderDelivers \/ ReaderNotifies
    BY <1>6, ReaderDeliversStep, ReaderNotifiesStep
  <1>7. CASE Transmit \/ BackendPassesOver \/ BackendReplies \/ BackendInterjects \/ ConnectionLost
    BY <1>7, TransmitStep, BackendPassesOverStep, BackendRepliesStep, BackendInterjectsStep,
       ConnectionLostStep
  <1>. QED
    BY <1>1, <1>2, <1>3, <1>4, <1>5, <1>6, <1>7 DEF Next

LEMMA LiveIs ==
  ASSUME Facts, IInv, NEW e \in Execs
  PROVE  Cardinality(Live(e)) = IF exec[e] \in {"waiting", "woken"} /\ ~done[e] THEN 1 ELSE 0
  <1>1. Queue(mpx, exec, done)
    BY DEF IInv
  <1>2. CASE Waits(exec, done, e)
    <2>1. Live(e) = {ElemOf(e)}
      BY <1>1, <1>2, ElemOfIs, SMTT(20) DEF Live, Queue, Shape
    <2>. QED
      BY <2>1, <1>2, SmallSetIs DEF Waits
  <1>3. CASE ~ Waits(exec, done, e)
    <2>1. Live(e) = {}
      BY <1>1, <1>3 DEF Live, Queue, Owned
    <2>. QED
      BY <2>1, <1>3, SmallSetIs DEF Waits
  <1>. QED
    BY <1>2, <1>3

LEMMA WriterLeavesReturned ==
  ASSUME Facts, IInv, WriterLoop, NEW e \in Execs, exec[e] = "returned"
  PROVE  sent'[e] = sent[e]
  <1> DEFINE b == PrepareWrite(mpx).buffer
  <1>2. Queue(mpx, exec, done)
    BY DEF IInv
  <1>3. /\ b \in Seq(Execs)
        /\ \A j \in 1..Len(b) : \E i \in 1..Len(mpx.elems) :
             mpx.elems[i].id = b[j] /\ mpx.elems[i].st = "pending"
        /\ \A j, k \in 1..Len(b) : b[j] = b[k] => j = k
    <2>1. PendingOnce(mpx, b)
      BY <1>2, BufferIs
    <2> HIDE DEF b
    <2>. QED
      BY <2>1 DEF PendingOnce
  <1> HIDE DEF b
  <1>4. \A j \in 1..Len(b) : b[j] # e
    BY <1>2, <1>3, SMTT(20) DEF Queue, Owned, Waits
  <1>5. Cardinality({i \in DOMAIN b : b[i] = e}) = 0
    BY <1>3, <1>4, CountIs
  <1>. QED
    BY <1>5, SMTT(20) DEF WriterLoop, b, IInv, Sending

-----------------------------------------------------------------------------
(* The queue mirrors the connection *)

LEMMA HasTypes == IInv => TypeOK
  <1> SUFFICES ASSUME IInv PROVE TypeOK
    OBVIOUS
  <1>1. CallTypes /\ Tasks /\ Queue(mpx, exec, done) /\ Sending
    BY DEF IInv
  <1>2. mpx \in Mpxs /\ mpx.numPending <= Len(mpx.elems)
    BY <1>1 DEF Queue, Shape
  <1>3. /\ Len(mpx.elems) \in Nat /\ \A i \in 1..Len(mpx.elems) : mpx.elems[i] \in Elems
        /\ mpx.numPending \in Nat /\ mpx.st \in {"initial", "reading", "ignoring"}
    BY <1>2, OffsetIs DEF Mpxs
  <1>. QED
    BY <1>1, <1>3, <1>2, SMTT(20) DEF TypeOK, CallTypes, Tasks, Sending, Elems, Queue, Shape

\* The elements in flight of the requests in o.
LEMMA FlightIs ==
  ASSUME Queue(mpx, exec, done), NEW o, NEW h,
         Places(mpx.elems, 1, PendingOffset(mpx), InFlightStatuses, o, h)
  PROVE  /\ \A j \in 1..Len(o) : InFlight(o[j]) = {h[j]} /\ h[j] \in Int
         /\ \A e \in Execs : InFlight(e) # {} => \E j \in 1..Len(o) : o[j] = e
  <1>1. Shape(mpx) /\ mpx \in Mpxs /\ mpx.numPending <= Len(mpx.elems)
    BY DEF Queue, Shape
  <1>2. PendingOffset(mpx) \in 0..Len(mpx.elems) /\ Len(mpx.elems) \in Nat
    BY <1>1, OffsetIs
  <1>3. \A i \in 1..PendingOffset(mpx) : i \in 1..Len(mpx.elems) /\ i \in Int
    BY <1>2, SMTT(20)
  <1>5. ASSUME NEW j \in 1..Len(o) PROVE InFlight(o[j]) = {h[j]} /\ h[j] \in Int
    BY <1>1, <1>3, SMTT(20) DEF Places, Shape, InFlight, InFlightStatuses
  <1>6. ASSUME NEW e \in Execs, InFlight(e) # {} PROVE \E j \in 1..Len(o) : o[j] = e
    <2>1. PICK i \in 1..Len(mpx.elems) :
            mpx.elems[i].id = e /\ mpx.elems[i].st \in InFlightStatuses
      BY <1>6 DEF InFlight, InFlightStatuses
    <2>2. i \in 1..PendingOffset(mpx)
      BY <2>1, <1>1, <1>2, SMTT(20) DEF Shape, InFlightStatuses
    <2>. QED
      BY <2>1, <2>2, SMTT(20) DEF Places
  <1>. QED
    BY <1>5, <1>6

\* The position, in the order of the queue, of the request that response i belongs to.
At(c, T, i) == IF i <= T THEN c[i] + 1 ELSE c[T + 1] + (i - T)

LEMMA DueParts ==
  ASSUME NEW M, NEW tr \in Seq(M), NEW bl \in Seq(Execs), NEW bf \in Seq(Execs),
         NEW D, D = [i \in 1..Len(tr) |-> tr[i].owner] \o bl \o bf
  PROVE  /\ DOMAIN D = 1..(Len(tr) + Len(bl) + Len(bf))
         /\ \A i \in 1..Len(tr) : D[i] = tr[i].owner
         /\ \A j \in 1..Len(bl) : D[Len(tr) + j] = bl[j]
         /\ \A j \in 1..Len(bf) : D[Len(tr) + Len(bl) + j] = bf[j]
  <1> DEFINE T == Len(tr)
             a == [i \in 1..T |-> tr[i].owner]
             W == {tr[i].owner : i \in 1..T} \cup Execs
             d == a \o bl
  <1>1. T \in Nat /\ Len(bl) \in Nat /\ Len(bf) \in Nat
    BY SeqLen
  <1>2. \A i \in 1..T : tr[i].owner \in W
    OBVIOUS
  <1> HIDE DEF W, T
  <1>5. a \in Seq(W) /\ Len(a) = T /\ \A i \in 1..T : a[i] = tr[i].owner
    BY <1>1, <1>2, SeqLen, SMTT(20)
  <1>6. bl \in Seq(W) /\ bf \in Seq(W)
    BY <1>1, SeqLen, SeqElem, SMTT(20) DEF W
  <1> HIDE DEF a
  <1>7. /\ d \in Seq(W) /\ Len(d) = T + Len(bl)
        /\ \A i \in 1..(T + Len(bl)) : d[i] = IF i <= T THEN a[i] ELSE bl[i - T]
    BY <1>5, <1>6, SeqConcat
  <1> HIDE DEF d
  <1>9. /\ D \in Seq(W) /\ Len(D) = T + Len(bl) + Len(bf)
        /\ \A i \in 1..(T + Len(bl) + Len(bf)) :
             D[i] = IF i <= T + Len(bl) THEN d[i] ELSE bf[i - (T + Len(bl))]
    BY <1>6, <1>7, SeqConcat, SMTT(20) DEF a, T, d
  <1>12. ASSUME NEW j \in 1..Len(bl) PROVE D[T + j] = bl[j]
    <2> DEFINE i == T + j
    <2>1. /\ i \in 1..(T + Len(bl)) /\ i \in 1..(T + Len(bl) + Len(bf)) /\ ~ (i <= T)
          /\ i <= T + Len(bl) /\ i - T = j
      BY <1>1, SMTT(20)
    <2> HIDE DEF i
    <2>2. D[i] = bl[j]
      BY <2>1, <1>7, <1>9
    <2>. QED
      BY <2>2 DEF i
  <1>13. ASSUME NEW j \in 1..Len(bf) PROVE D[T + Len(bl) + j] = bf[j]
    BY <1>1, <1>9, SMTT(20)
  <1>. QED
    BY <1>12, <1>13, <1>9, SeqLen, <1>1, <1>5, <1>7, SMTT(20) DEF T

\* Where the responses that are due, D, belong in the order o of the queue.
Located(D, o, c, T) ==
  /\ \A i \in DOMAIN D : D[i] # None => At(c, T, i) \in 1..Len(o) /\ D[i] = o[At(c, T, i)]
  /\ \A i, j \in DOMAIN D : i < j => At(c, T, i) <= At(c, T, j)
  /\ \A p \in 1..Len(o) : \E i \in DOMAIN D : D[i] = o[p]

DueOf(tr, bl, bf) == [i \in 1..Len(tr) |-> tr[i].owner] \o bl \o bf

LEMMA DueIs ==
  ASSUME Facts, NEW M, NEW tr \in Seq(M), NEW m, NEW o, NEW c, NEW B, NEW sv,
         Mirrored(m, tr, o, c, B, sv), NEW sr, NEW bl, NEW bf, Ends(tr, o, c, B, sr, bl, bf),
         NEW D, D = DueOf(tr, bl, bf)
  PROVE  Located(D, o, c, Len(tr))
  <1> DEFINE T == Len(tr)
             k == c[T + 1]
             n == Len(bl)
  <1>1. Stream(tr, o, c, B, sv) /\ T \in Nat /\ Len(o) \in Nat /\ k \in Nat /\ k <= Len(o)
    BY EndTypes, SMTT(20)
  <1>2. /\ bl \in Seq(Execs) /\ bf \in Seq(Execs) /\ Len(o) = k + n + Len(bf)
        /\ \A j \in 1..n : o[k + j] = bl[j]
        /\ \A j \in 1..Len(bf) : o[k + n + j] = bf[j]
    BY DEF Ends, Ahead
  <1>3. n \in Nat /\ Len(bf) \in Nat
    BY <1>2, SeqLen
  <1>4. /\ DOMAIN D = 1..(T + n + Len(bf)) /\ \A i \in 1..T : D[i] = tr[i].owner
        /\ \A j \in 1..n : D[T + j] = bl[j]
        /\ \A j \in 1..Len(bf) : D[T + n + j] = bf[j]
    BY <1>2, DueParts, SMTT(20) DEF DueOf
  <1>5. /\ \A i \in 1..(T + 1) : c[i] \in Nat /\ c[i] <= Len(o)
        /\ c[1] = 0
        /\ \A i, j \in 1..(T + 1) : i <= j => c[i] <= c[j]
        /\ \A i \in 1..T : Answers(o, sv, tr[i], c[i], B[i], c[i + 1], B[i + 1])
    BY <1>1, StreamTypes, SMTT(20) DEF Stream
  <1>6. \A i \in 1..T : /\ tr[i].owner = None \/ (c[i] < Len(o) /\ tr[i].owner = o[c[i] + 1])
                        /\ c[i + 1] = c[i] \/ (c[i + 1] = c[i] + 1 /\ tr[i].owner = o[c[i] + 1])
    BY <1>5 DEF Answers
  <1> HIDE DEF T, k, n
  <1>7. ASSUME NEW j \in 1..(n + Len(bf)) PROVE D[T + j] = o[k + j]
    <2>1. CASE j <= n
      BY <1>3, <1>2, <1>4, <2>1, SMTT(20)
    <2>2. CASE ~ (j <= n)
      <3> DEFINE l == j - n
      <3>1. l \in 1..Len(bf) /\ T + n + l = T + j /\ k + n + l = k + j
        BY <2>2, <1>1, <1>3, SMTT(20)
      <3> HIDE DEF l
      <3>. QED
        BY <3>1, <1>2, <1>4, SMTT(20)
    <2>. QED
      BY <2>1, <2>2
  <1>8. ASSUME NEW i \in DOMAIN D, D[i] # None
        PROVE  At(c, T, i) \in 1..Len(o) /\ D[i] = o[At(c, T, i)]
    <2>1. i \in 1..(T + n + Len(bf)) /\ i \in Int
      BY <1>4, <1>1, <1>3, SMTT(20)
    <2>2. CASE i <= T
      <3>1. i \in 1..T /\ i \in 1..(T + 1) /\ At(c, T, i) = c[i] + 1
        BY <2>1, <2>2, <1>1, SMTT(20) DEF At
      <3>3. c[i] < Len(o) /\ D[i] = o[c[i] + 1] /\ c[i] \in Nat
        BY <3>1, <1>5, <1>6, <1>8, <1>4
      <3>. QED
        BY <3>1, <3>3, <1>1, SMTT(20)
    <2>3. CASE ~ (i <= T)
      <3> DEFINE j == i - T
      <3>1. j \in 1..(n + Len(bf)) /\ T + j = i
        BY <2>1, <2>3, <1>1, <1>3, SMTT(20)
      <3> HIDE DEF j
      <3>3. k + j \in 1..Len(o)
        BY <3>1, <1>1, <1>2, <1>3, SMTT(20)
      <3>. QED
        BY <3>1, <3>3, <1>7, <2>3 DEF At, k, j
    <2>. QED
      BY <2>2, <2>3
  <1>9. ASSUME NEW i \in DOMAIN D, NEW j \in DOMAIN D, i < j PROVE At(c, T, i) <= At(c, T, j)
    <2>1. /\ i \in 1..(T + n + Len(bf)) /\ i \in Int /\ i >= 1
          /\ j \in 1..(T + n + Len(bf)) /\ j \in Int /\ j >= 1
      BY <1>4, <1>1, <1>3, SMTT(20)
    <2>2. CASE j <= T
      <3>1. /\ i \in 1..(T + 1) /\ j \in 1..(T + 1) /\ i <= T /\ i <= j
            /\ At(c, T, i) = c[i] + 1 /\ At(c, T, j) = c[j] + 1
        BY <2>1, <2>2, <1>1, <1>9, SMTT(20) DEF At
      <3>. QED
        BY <3>1, <1>5, SMTT(20)
    <2>3. CASE i <= T /\ ~ (j <= T)
      <3>1. /\ i \in 1..(T + 1) /\ T + 1 \in 1..(T + 1) /\ i <= T + 1 /\ j - T >= 1 /\ j - T \in Int
            /\ At(c, T, i) = c[i] + 1 /\ At(c, T, j) = k + (j - T)
        BY <2>1, <2>3, <1>1, SMTT(20) DEF At, k
      <3>. QED
        BY <3>1, <1>1, <1>5, SMTT(20) DEF k
    <2>4. CASE ~ (i <= T)
      BY <1>1, <1>9, <2>1, <2>4, SMTT(20) DEF At, k
    <2>. QED
      BY <2>2, <2>3, <2>4
  <1>10. ASSUME NEW p \in 1..Len(o) PROVE \E i \in DOMAIN D : D[i] = o[p]
    <2>1. p \in Nat /\ p >= 1 /\ p <= Len(o)
      BY <1>1, SMTT(20)
    <2>2. CASE p > k
      <3> DEFINE j == p - k
      <3>1. j \in 1..(n + Len(bf)) /\ k + j = p
        BY <2>1, <2>2, <1>1, <1>2, <1>3, SMTT(20)
      <3> HIDE DEF j
      <3>2. T + j \in DOMAIN D
        BY <3>1, <1>1, <1>3, <1>4, SMTT(20)
      <3>. QED
        BY <3>1, <3>2, <1>7
    <2>3. CASE ~ (p > k)
      <3> DEFINE S == {i \in 1..(T + 1) : p <= c[i]}
      <3>1. T + 1 \in S
        BY <1>1, <2>1, <2>3, SMTT(20) DEF k
      <3>2. S \in SUBSET Nat
        BY <1>1, SMTT(20)
      <3>3. PICK x \in S : \A y \in S : x <= y
        BY <3>1, <3>2, LeastIs
      <3>4. x \in 1..(T + 1) /\ p <= c[x] /\ x \in Nat
        BY <3>2
      <3> DEFINE i == x - 1
      <3>6. i \in 1..T /\ i \in 1..(T + 1) /\ i + 1 = x /\ i < x /\ i \in Nat
        BY <3>4, <1>1, <2>1, <1>5, SMTT(20)
      <3>7. ~ (p <= c[i])
        BY <3>3, <3>4, <3>6, SMTT(20)
      <3> HIDE DEF i, S
      <3>10. c[x] = c[i] + 1 /\ tr[i].owner = o[c[i] + 1]
        BY <3>6, <1>6, <3>4, <3>7
      <3>11. p = c[i] + 1
        BY <3>4, <3>7, <3>10, <2>1, <3>6, <1>5, SMTT(20)
      <3>. QED
        BY <3>10, <3>11, <1>1, <1>3, <1>4, <3>6, SMTT(20)
    <2>. QED
      BY <2>2, <2>3
  <1>. QED
    BY <1>8, <1>9, <1>10 DEF T, Located

LEMMA HoldsReferences ==
  ASSUME Facts, IInv
  PROVE  ReferencesAreAlive
  BY LiveIs DEF IInv, Queue, ReferencesAreAlive, Front

LEMMA WritesForNone ==
  ASSUME Facts, IInv, Next
  PROVE  \A e \in Execs : exec[e] = "returned" => sent'[e] = sent[e]
  <1> DEFINE A == \A e \in Execs : exec[e] = "returned" => sent'[e] = sent[e]
  <1>1. ASSUME WriterResumes \/ WriteCompletes PROVE A
    BY <1>1, WriterLeavesReturned DEF WriterResumes, WriteCompletes
  <1>2. ASSUME NEW e \in Execs, ExecCalled(e) \/ ExecCancelled(e) \/ ExecResumes(e)
        PROVE  UNCHANGED sent
    BY <1>2 DEF ExecCalled, ExecCancelled, ExecResumes
  <1>3. ASSUME ConnectSucceeds \/ ConnectFails \/ DelayElapses \/ StopRequested \/ Stopped
                 \/ TasksEnd \/ WriterEnds
        PROVE  UNCHANGED sent
    BY <1>3 DEF ConnectSucceeds, ConnectFails, DelayElapses, StopRequested, Stopped, TasksEnd,
       WriterEnds
  <1>4. ASSUME ReaderDelivers \/ ReaderFails \/ ReaderNotifies \/ ReaderAdds \/ ReaderGivesUp
        PROVE  UNCHANGED sent
    BY <1>4 DEF ReaderDelivers, ReaderFails, ReaderNotifies, ReaderAdds, ReaderGivesUp
  <1>5. ASSUME Transmit \/ BackendPassesOver \/ BackendReplies \/ BackendInterjects
                 \/ ConnectionLost
        PROVE  UNCHANGED sent
    BY <1>5 DEF Transmit, BackendPassesOver, BackendReplies, BackendInterjects, ConnectionLost
  <1> HIDE DEF A
  <1>. QED
    BY <1>1, <1>2, <1>3, <1>4, <1>5 DEF Next, A

LEMMA FrontFlies ==
  ASSUME Facts, IInv
  PROVE  FrontIsInFlight
  <1> DEFINE p == FirstNotAbandoned(mpx.elems)
  <1>1. ASSUME reader = "reading", transit # <<>>, Head(transit).kind \notin AsyncKinds,
               mpx.st = "initial", p <= Len(mpx.elems)
        PROVE  mpx.elems[p].st # "pending"
    <2>1. Queue(mpx, exec, done) /\ Mirror /\ Arriving
      BY <1>1 DEF IInv
    <2>2. PICK M : transit \in Seq(M)
      BY <2>1 DEF Arriving
    <2>3. PICK o, c, B : Mirrored(mpx, transit, o, c, B, served)
      BY <2>1, <1>1 DEF Mirror
    <2>6. PICK k \in 1..PendingOffset(mpx) : FirstAt(mpx, k)
      BY <2>1, OrderFirst, <2>2, <1>1, FirstMessage, StreamTypes, <2>3 DEF Mirrored
    <2>. QED
      BY <2>6, FirstIs, <2>1, OffsetIs, SMTT(20) DEF FirstAt, Queue, Shape
  <1>. QED
    BY <1>1 DEF FrontIsInFlight

LEMMA QueueMirrors ==
  ASSUME Facts, IInv
  PROVE  QueueMirrorsConnection
  <1>1. ASSUME link, reader \in {"reading", "adding"}
        PROVE  /\ \A e \in Execs : InFlight(e) # {} <=> \E i \in DOMAIN Due : Due[i] = e
               /\ \A i, j \in DOMAIN Due : i < j /\ None \notin {Due[i], Due[j]} =>
                    \A a \in InFlight(Due[i]), b \in InFlight(Due[j]) : a <= b
    <2>1. Queue(mpx, exec, done) /\ Mirror /\ Arriving
      BY <1>1 DEF IInv
    <2>2. PICK M : transit \in Seq(M)
      BY <2>1 DEF Arriving
    <2>3. PICK o, c, B : /\ Mirrored(mpx, transit, o, c, B, served)
                         /\ Ends(transit, o, c, B, srv, backlog, buffer)
      BY <2>1, <1>1 DEF Mirror
    <2>5. PICK h : Places(mpx.elems, 1, PendingOffset(mpx), InFlightStatuses, o, h)
      BY <2>3 DEF InOrder, Lists, Mirrored
    <2>6. /\ \A j \in 1..Len(o) : InFlight(o[j]) = {h[j]} /\ h[j] \in Int
          /\ \A e \in Execs : InFlight(e) # {} => \E j \in 1..Len(o) : o[j] = e
      BY <2>1, <2>5, FlightIs
    <2> DEFINE T == Len(transit)
    <2>8. Located(Due, o, c, T)
      <3>1. Due = DueOf(transit, backlog, buffer)
        BY DEF Due, DueOf
      <3>. QED
        BY <2>2, <2>3, <3>1, DueIs
    <2> HIDE DEF T
    <2>9. ASSUME NEW e \in Execs
          PROVE  InFlight(e) # {} <=> \E i \in DOMAIN Due : Due[i] = e
      <3>1. ASSUME InFlight(e) # {} PROVE \E i \in DOMAIN Due : Due[i] = e
        BY <3>1, <2>6, <2>8 DEF Located
      <3>2. ASSUME NEW i \in DOMAIN Due, Due[i] = e PROVE InFlight(e) # {}
        <4>1. Due[i] # None
          BY <3>2, NoneIsNoCall
        <4>. QED
          BY <3>2, <4>1, <2>6, <2>8 DEF Located
      <3>. QED
        BY <3>1, <3>2
    <2>10. ASSUME NEW i \in DOMAIN Due, NEW j \in DOMAIN Due, i < j, Due[i] # None, Due[j] # None,
                  NEW a \in InFlight(Due[i]), NEW b \in InFlight(Due[j])
           PROVE  a <= b
      <3> DEFINE p == At(c, T, i)
                 q == At(c, T, j)
      <3>1. p \in 1..Len(o) /\ q \in 1..Len(o) /\ p <= q /\ Due[i] = o[p] /\ Due[j] = o[q]
        BY <2>8, <2>10 DEF Located
      <3> HIDE DEF p, q
      <3>2. a = h[p] /\ b = h[q] /\ a \in Int /\ b \in Int
        BY <3>1, <2>6
      <3>. QED
        BY <3>1, <3>2, <2>5, SMTT(20) DEF Places
    <2>. QED
      BY <2>9, <2>10
  <1>. QED
    BY <1>1, HasTypes DEF QueueMirrorsConnection
=============================================================================
