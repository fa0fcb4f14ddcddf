------------------------ MODULE Multiplexer_proofs ------------------------
(***************************************************************************)
(* What the operations of the multiplexer do to the queue, to the requests *)
(* in flight and to the messages in transit.                               *)
(***************************************************************************)
EXTENDS Multiplexer, ResponseInStep, ExecCalls, TLAPS

\* The time, in seconds, that a prover may take for a leaf.
USE ZenonT(20)

-----------------------------------------------------------------------------
(* Sequences *)

LEMMA SeqLen ==
  ASSUME NEW S, NEW q \in Seq(S)
  PROVE  Len(q) \in Nat /\ q \in [1..Len(q) -> S] /\ DOMAIN q = 1..Len(q)
  BY SMTT(20)

LEMMA SeqElem ==
  ASSUME NEW S, NEW q \in Seq(S), NEW i \in 1..Len(q)
  PROVE  q[i] \in S
  BY SMTT(20)

LEMMA SeqEmpty ==
  ASSUME NEW S
  PROVE  /\ <<>> \in Seq(S) /\ Len(<<>>) = 0
         /\ \A q \in Seq(S) : q # <<>> => Len(q) \in Nat \ {0}
  BY SMTT(20)

LEMMA SeqTail ==
  ASSUME NEW S, NEW q \in Seq(S), q # <<>>
  PROVE  /\ Head(q) \in S /\ Tail(q) \in Seq(S) /\ Len(Tail(q)) = Len(q) - 1
         /\ \A i \in 1..Len(Tail(q)) : Tail(q)[i] = q[i + 1]
  BY SMTT(20)

LEMMA SeqAppend ==
  ASSUME NEW S, NEW q \in Seq(S), NEW x \in S
  PROVE  /\ Append(q, x) \in Seq(S) /\ Append(q, x) # <<>> /\ Len(Append(q, x)) = Len(q) + 1
         /\ \A i \in 1..Len(q) : Append(q, x)[i] = q[i]
         /\ Append(q, x)[Len(q) + 1] = x
  BY SMTT(20)

LEMMA SeqConcat ==
  ASSUME NEW S, NEW p \in Seq(S), NEW q \in Seq(S)
  PROVE  /\ p \o q \in Seq(S) /\ Len(p \o q) = Len(p) + Len(q)
         /\ \A i \in 1..(Len(p) + Len(q)) :
              (p \o q)[i] = IF i <= Len(p) THEN p[i] ELSE q[i - Len(p)]
  BY SMTT(20)

LEMMA SeqPart ==
  ASSUME NEW S, NEW q, NEW m \in Int, NEW n \in Int, \A i \in m..n : q[i] \in S
  PROVE  /\ SubSeq(q, m, n) \in Seq(S)
         /\ Len(SubSeq(q, m, n)) = IF m <= n THEN n - m + 1 ELSE 0
         /\ \A i \in 1..(n - m + 1) : SubSeq(q, m, n)[i] = q[m + i - 1]
  BY SMTT(20)

-----------------------------------------------------------------------------
(* What module MultiplexedConnection_proofs takes from the proofs about    *)
(* read_response_fsm and from the theory of finite sets.                   *)

LeastNumber == \A S \in SUBSET Nat : S # {} => \E p \in S : \A q \in S : p <= q

SmallSets == Cardinality({}) = 0 /\ \A x : Cardinality({x}) = 1

RfqsAreCounted == \A r \in Seq(MessageTypes), i \in Int : GetExpectedRfqs(r, i) \in Nat

UnitsAreChecked == \A r \in Seq(MessageTypes) : (CheckRequest(r) = "ok") <=> WellFormed(r)

\* A machine that is in step with the server, and owes what the server owes.
Owes(r, f, s) == RemainingRfqs(r, f) = OwedRfqs(r, s) /\ RemainingRfqs(r, f) > 0

\* The server passes over a message.
Passes(r, f, s) == Silent(r, s) => PassOver(s) \in Backends /\ InStep(r, f, PassOver(s))

\* The server gives an answer: the machine follows it, another one can, and it counts.
Replied(r, f, s, reply) ==
  /\ Kept(r, Resume(r, f, reply[1]), reply[2]) /\ Resume(r, f, reply[1]).fsm.copy = f.copy
  /\ reply[2] \in Backends /\ reply[1] \notin AsyncKinds
  /\ ~ Finished(r, reply[2]) => \E h \in Fsms : InStep(r, h, reply[2])
  /\ OwedRfqs(r, s) = OwedRfqs(r, reply[2]) + (IF reply[1] = "ready_for_query" THEN 1 ELSE 0)

MachineFollows ==
  \A r \in Seq(MessageTypes), f \in Fsms, s \in Backends : WellFormed(r) /\ InStep(r, f, s) =>
    Owes(r, f, s) /\ Passes(r, f, s) /\ \A reply \in Replies(r, s) : Replied(r, f, s, reply)

EndOwesNothing ==
  \A r \in Seq(MessageTypes), s \in Backends : Finished(r, s) => OwedRfqs(r, s) = 0

Facts == /\ LeastNumber /\ SmallSets /\ RfqsAreCounted /\ UnitsAreChecked
         /\ MachineFollows /\ EndOwesNothing

LEMMA LeastIs ==
  ASSUME Facts, NEW S \in SUBSET Nat, S # {}
  PROVE  \E p \in S : \A q \in S : p <= q
  BY DEF Facts, LeastNumber

LEMMA SmallSetIs ==
  ASSUME Facts
  PROVE  Cardinality({}) = 0 /\ \A x : Cardinality({x}) = 1
  BY DEF Facts, SmallSets

LEMMA RfqCount ==
  ASSUME Facts, NEW r \in Seq(MessageTypes), NEW i \in Int
  PROVE  GetExpectedRfqs(r, i) \in Nat
  BY DEF Facts, RfqsAreCounted

LEMMA CheckIsExact ==
  ASSUME Facts, NEW r \in Seq(MessageTypes)
  PROVE  (CheckRequest(r) = "ok") <=> WellFormed(r)
  BY DEF Facts, UnitsAreChecked

LEMMA OwesTheSame ==
  ASSUME Facts, NEW r \in Seq(MessageTypes), WellFormed(r), NEW f \in Fsms, NEW s \in Backends,
         InStep(r, f, s)
  PROVE  RemainingRfqs(r, f) = OwedRfqs(r, s) /\ RemainingRfqs(r, f) > 0
  BY DEF Facts, MachineFollows, Owes

LEMMA PassFollowed ==
  ASSUME Facts, NEW r \in Seq(MessageTypes), WellFormed(r), NEW f \in Fsms, NEW s \in Backends,
         InStep(r, f, s), Silent(r, s)
  PROVE  PassOver(s) \in Backends /\ InStep(r, f, PassOver(s))
  BY DEF Facts, MachineFollows, Passes

LEMMA ReplyFollowed ==
  ASSUME Facts, NEW r \in Seq(MessageTypes), WellFormed(r), NEW f \in Fsms, NEW s \in Backends,
         InStep(r, f, s), NEW reply \in Replies(r, s)
  PROVE  /\ Kept(r, Resume(r, f, reply[1]), reply[2]) /\ reply[1] \notin AsyncKinds
         /\ Resume(r, f, reply[1]).fsm.copy = f.copy
  BY DEF Facts, MachineFollows, Replied

LEMMA ReplyCounts ==
  ASSUME Facts, NEW r \in Seq(MessageTypes), WellFormed(r), NEW f \in Fsms, NEW s \in Backends,
         InStep(r, f, s), NEW reply \in Replies(r, s)
  PROVE  OwedRfqs(r, s) =
           OwedRfqs(r, reply[2]) + (IF reply[1] = "ready_for_query" THEN 1 ELSE 0)
  BY DEF Facts, MachineFollows, Replied

LEMMA ReplyLeads ==
  ASSUME Facts, NEW r \in Seq(MessageTypes), WellFormed(r), NEW s \in Backends, NEW f \in Fsms,
         InStep(r, f, s), NEW reply \in Replies(r, s)
  PROVE  /\ reply[2] \in Backends /\ reply[1] \notin AsyncKinds
         /\ ~ Finished(r, reply[2]) => \E h \in Fsms : InStep(r, h, reply[2])
  BY DEF Facts, MachineFollows, Replied

LEMMA NothingOwed ==
  ASSUME Facts, NEW r \in Seq(MessageTypes), NEW s \in Backends, Finished(r, s)
  PROVE  OwedRfqs(r, s) = 0
  BY DEF Facts, EndOwesNothing

-----------------------------------------------------------------------------
(* The queue *)

Elems == [id : Execs, st : ElemStatuses, rfq : Nat]

Mpxs == [elems : Seq(Elems), numPending : Nat, st : {"initial", "reading", "ignoring"},
         fsm : Fsms, rfq : Nat]

\* The machine that reads a response, at its beginning.
Fresh == NewFsm(FALSE)

\* The calls that wait for the multiplexer.
Waits(ex, dn, e) == ex[e] \in {"waiting", "woken"} /\ ~ dn[e]

\* The pending elements are last, as num_pending_ says, and a call has one element.
Shape(m) ==
  /\ m \in Mpxs /\ m.numPending <= Len(m.elems)
  /\ \A i \in 1..Len(m.elems) :
       m.elems[i].st \in IF i > PendingOffset(m) THEN {"pending", "abandoned_pending"}
                         ELSE ElemStatuses \ {"pending"}
  /\ \A i, j \in 1..Len(m.elems) : m.elems[i].id = m.elems[j].id => i = j

\* The elements that are not abandoned are those of the calls that wait, and an
\* abandoned one knows how many ReadyForQuery messages end its response.
Owned(m, ex, dn) ==
  /\ \A i \in 1..Len(m.elems) :
       /\ ex[m.elems[i].id] # "idle" /\ WellFormed(RequestOf[m.elems[i].id])
       /\ m.elems[i].st \in {"pending", "in_flight"} <=> Waits(ex, dn, m.elems[i].id)
       /\ m.elems[i].st = "abandoned_in_flight" /\ ~(i = 1 /\ m.st = "ignoring") =>
            m.elems[i].rfq = GetExpectedRfqs(RequestOf[m.elems[i].id], 1)
  /\ \A e \in Execs : Waits(ex, dn, e) => \E i \in 1..Len(m.elems) : m.elems[i].id = e

\* The response that is being read is that of the first element.
Front(m) ==
  /\ m.st = "reading" =>
       /\ m.elems # <<>> /\ m.elems[1].st = "in_flight"
       /\ \E s \in Backends : InStep(RequestOf[m.elems[1].id], m.fsm, s)
  /\ m.st = "ignoring" => m.elems # <<>> /\ m.elems[1].st = "abandoned_in_flight" /\ m.rfq > 0

Queue(m, ex, dn) == Shape(m) /\ Owned(m, ex, dn) /\ Front(m)

LEMMA RequestType == \A e \in Execs : RequestOf[e] \in Seq(MessageTypes)
  BY ExecParams

LEMMA Suffix ==
  ASSUME NEW S, NEW q \in Seq(S), NEW p \in 0..Len(q)
  PROVE  /\ SubSeq(q, p + 1, Len(q)) \in Seq(S) /\ Len(SubSeq(q, p + 1, Len(q))) = Len(q) - p
         /\ \A i \in 1..(Len(q) - p) : SubSeq(q, p + 1, Len(q))[i] = q[p + i]
  BY SeqLen, SeqElem, SeqPart, SMTT(20)

LEMMA RemainingType ==
  ASSUME Facts, NEW r \in Seq(MessageTypes), NEW f \in Fsms
  PROVE  RemainingRfqs(r, f) \in Nat
  BY RfqCount DEF RemainingRfqs, Fsms

\* A response that has not begun.
LEMMA FreshInStep ==
  ASSUME Facts, NEW r \in Seq(MessageTypes), WellFormed(r)
  PROVE  /\ NewBackend \in Backends /\ Fresh \in Fsms
         /\ InStep(r, Fresh, NewBackend)
         /\ GetExpectedRfqs(r, 1) = OwedRfqs(r, NewBackend) /\ GetExpectedRfqs(r, 1) > 0
         /\ GetExpectedRfqs(r, 1) \in Nat
  <1>1. NewBackend \in Backends
    BY SMTT(20) DEF NewBackend, Backends, BackendPhases
  <1>2. Fresh \in Fsms
    BY SMTT(20) DEF Fresh, NewFsm, Fsms, FsmStates
  <1>4. Follows(r, Fresh, NewBackend)
    BY SeqEmpty, SMTT(20) DEF NewBackend, Fresh, NewFsm, Follows, Agree, WellFormed
  <1>. QED
    BY <1>1, <1>2, <1>4, OwesTheSame, RfqCount, SMTT(20) DEF InStep, RemainingRfqs, Fresh, NewFsm

LEMMA OffsetIs ==
  ASSUME NEW m \in Mpxs, m.numPending <= Len(m.elems)
  PROVE  /\ Len(m.elems) \in Nat /\ PendingOffset(m) \in 0..Len(m.elems)
         /\ PendingOffset(m) = Len(m.elems) - m.numPending
         /\ m.elems \in Seq(Elems) /\ \A i \in 1..Len(m.elems) : m.elems[i] \in Elems
  BY SeqLen, SeqElem, SMTT(20) DEF Mpxs, PendingOffset

-----------------------------------------------------------------------------
(* The operations on the queue *)

LEMMA AddIs ==
  ASSUME NEW m \in Mpxs, NEW e \in Execs
  PROVE  /\ Add(m, e) \in Mpxs
         /\ Add(m, e).elems = Append(m.elems, [id |-> e, st |-> "pending", rfq |-> 0])
         /\ Add(m, e).numPending = m.numPending + 1 /\ Add(m, e).st = m.st
         /\ Add(m, e).fsm = m.fsm /\ Add(m, e).rfq = m.rfq
  <1> DEFINE x == [id |-> e, st |-> "pending", rfq |-> 0]
             y == Append(m.elems, x)
             n == m.numPending + 1
  <1>2. y \in Seq(Elems) /\ n \in Nat
    BY SeqAppend, SMTT(20) DEF Mpxs, Elems, ElemStatuses
  <1>3. Add(m, e) = [m EXCEPT !.elems = y, !.numPending = n]
    BY DEF Add
  <1> HIDE DEF y, n
  <1>4. Add(m, e) \in Mpxs
    BY <1>2, <1>3 DEF Mpxs
  <1>. QED
    BY <1>4, <1>3 DEF y, n, Mpxs

\* An element changes, and nothing else of the queue.
LEMMA ElemChanges ==
  ASSUME NEW q \in Seq(Elems), NEW i \in 1..Len(q), NEW x \in Elems
  PROVE  /\ [q EXCEPT ![i] = x] \in Seq(Elems) /\ Len([q EXCEPT ![i] = x]) = Len(q)
         /\ [q EXCEPT ![i] = x][i] = x
         /\ \A j \in 1..Len(q) : j # i => [q EXCEPT ![i] = x][j] = q[j]
  BY SeqLen, SMTT(20)

LEMMA CancelIs ==
  ASSUME Facts, NEW m \in Mpxs, NEW i \in 1..Len(m.elems), NEW r \in Seq(MessageTypes),
         NEW w, w = Cancel(m, i, r), m.elems[i].st \in {"pending", "in_flight"}
  PROVE  /\ w \in Mpxs /\ Len(w.elems) = Len(m.elems) /\ w.numPending = m.numPending
         /\ w.fsm = m.fsm
         /\ w.elems[i].id = m.elems[i].id
         /\ \A j \in 1..Len(m.elems) : j # i => w.elems[j] = m.elems[j]
         /\ w.elems[i].st = IF m.elems[i].st = "pending" THEN "abandoned_pending"
                            ELSE "abandoned_in_flight"
         /\ IF m.elems[i].st = "in_flight" /\ i = 1 /\ m.st = "reading"
            THEN w.st = "ignoring" /\ w.rfq = RemainingRfqs(r, m.fsm)
            ELSE /\ w.st = m.st /\ w.rfq = m.rfq
                 /\ m.elems[i].st = "in_flight" => w.elems[i].rfq = GetExpectedRfqs(r, 1)
  <1>0. m.elems \in Seq(Elems) /\ m.elems[i] \in Elems
    BY SeqElem DEF Mpxs
  <1>1. CASE m.elems[i].st = "pending"
    <2> DEFINE x == [m.elems[i] EXCEPT !.st = "abandoned_pending"]
               q == [m.elems EXCEPT ![i] = x]
    <2>1. x \in Elems /\ x.id = m.elems[i].id /\ x.st = "abandoned_pending"
      BY <1>0 DEF Elems, ElemStatuses
    <2>2. w = [m EXCEPT !.elems = q]
      BY <1>1 DEF Cancel
    <2> HIDE DEF x
    <2>3. /\ q \in Seq(Elems) /\ Len(q) = Len(m.elems) /\ q[i] = x
          /\ \A j \in 1..Len(m.elems) : j # i => q[j] = m.elems[j]
      BY <2>1, <1>0, ElemChanges, SMTT(20)
    <2> HIDE DEF q
    <2>4. w \in Mpxs /\ w.elems = q
      BY <2>2, <2>3 DEF Mpxs
    <2>. QED
      BY <1>1, <2>1, <2>3, <2>4, <2>2 DEF Mpxs
  <1>2. CASE m.elems[i].st = "in_flight" /\ i = 1 /\ m.st = "reading"
    <2> DEFINE x == [m.elems[i] EXCEPT !.st = "abandoned_in_flight"]
               q == [m.elems EXCEPT ![i] = x]
               n == RemainingRfqs(r, m.fsm)
    <2>1. x \in Elems /\ x.id = m.elems[i].id /\ x.st = "abandoned_in_flight"
      BY <1>0 DEF Elems, ElemStatuses
    <2>4. w = [m EXCEPT !.elems = q, !.st = "ignoring", !.rfq = n]
      BY <1>2 DEF AbandonCurrent, Cancel, Mpxs
    <2>5. n \in Nat
      BY RemainingType DEF Mpxs
    <2> HIDE DEF x, n
    <2>6. /\ q \in Seq(Elems) /\ Len(q) = Len(m.elems) /\ q[i] = x
          /\ \A j \in 1..Len(m.elems) : j # i => q[j] = m.elems[j]
      BY <2>1, <1>0, ElemChanges, SMTT(20)
    <2> HIDE DEF q
    <2>7. w \in Mpxs
      BY <2>4, <2>5, <2>6 DEF Mpxs
    <2>8. w.elems = q /\ w.st = "ignoring" /\ w.rfq = n
      BY <2>4 DEF Mpxs
    <2>9. w.fsm = m.fsm /\ w.numPending = m.numPending
      BY <2>4 DEF Mpxs
    <2>. QED
      BY <1>2, <2>1, <2>6, <2>7, <2>8, <2>9 DEF n
  <1>3. CASE m.elems[i].st = "in_flight" /\ ~(i = 1 /\ m.st = "reading")
    <2> DEFINE g == GetExpectedRfqs(r, 1)
               y == [m.elems[i] EXCEPT !.st = "abandoned_in_flight"]
               p == [m.elems EXCEPT ![i] = y]
               x == [p[i] EXCEPT !.rfq = g]
               q == [p EXCEPT ![i] = x]
    <2>1. w = [m EXCEPT !.elems = q]
      BY <1>3 DEF Cancel
    <2>2. g \in Nat
      BY RfqCount, SMTT(20)
    <2> HIDE DEF g
    <2>3. y \in Elems /\ y.id = m.elems[i].id /\ y.st = "abandoned_in_flight"
      BY <1>0 DEF Elems, ElemStatuses
    <2> HIDE DEF y
    <2>4. /\ p \in Seq(Elems) /\ Len(p) = Len(m.elems) /\ p[i] = y
          /\ \A j \in 1..Len(m.elems) : j # i => p[j] = m.elems[j]
      BY <2>3, <1>0, ElemChanges, SMTT(20)
    <2> HIDE DEF p
    <2>5. x \in Elems /\ x.id = m.elems[i].id /\ x.st = "abandoned_in_flight" /\ x.rfq = g
      BY <2>2, <2>3, <2>4 DEF Elems
    <2> HIDE DEF x
    <2>6. /\ q \in Seq(Elems) /\ Len(q) = Len(m.elems) /\ q[i] = x
          /\ \A j \in 1..Len(m.elems) : j # i => q[j] = m.elems[j]
      BY <2>4, <2>5, ElemChanges, SMTT(20)
    <2> HIDE DEF q
    <2>7. w \in Mpxs /\ w.elems = q
      BY <2>1, <2>6 DEF Mpxs
    <2>. QED
      BY <1>3, <2>5, <2>6, <2>7, <2>1 DEF g, Mpxs
  <1>. QED
    BY <1>1, <1>2, <1>3

LEMMA PopIs ==
  ASSUME NEW m \in Mpxs, m.elems # <<>>
  PROVE  /\ Pop(m) \in Mpxs /\ Pop(m).elems = Tail(m.elems) /\ Pop(m).st = "initial"
         /\ Pop(m).numPending = m.numPending /\ Pop(m).fsm = m.fsm /\ Pop(m).rfq = m.rfq
  <1> DEFINE q == Tail(m.elems)
  <1>1. q \in Seq(Elems)
    BY SeqTail DEF Mpxs
  <1> HIDE DEF q
  <1>2. Pop(m) = [m EXCEPT !.elems = q, !.st = "initial"]
    BY DEF Pop, q
  <1>3. Pop(m) \in Mpxs
    BY <1>1, <1>2 DEF Mpxs
  <1>. QED
    BY <1>3, <1>2 DEF q, Mpxs

LEMMA FsmChanges ==
  ASSUME NEW m \in Mpxs, NEW f \in Fsms
  PROVE  LET w == [m EXCEPT !.fsm = f]
         IN  /\ w \in Mpxs /\ w.elems = m.elems /\ w.numPending = m.numPending
             /\ w.st = m.st /\ w.fsm = f /\ w.rfq = m.rfq
  BY DEF Mpxs

LEMMA RfqChanges ==
  ASSUME NEW m \in Mpxs, NEW n \in Nat
  PROVE  LET w == [m EXCEPT !.rfq = n]
         IN  /\ w \in Mpxs /\ w.elems = m.elems /\ w.numPending = m.numPending
             /\ w.st = m.st /\ w.fsm = m.fsm /\ w.rfq = n
  BY DEF Mpxs

LEMMA CleanupIs ==
  ASSUME NEW m \in Mpxs, m.numPending <= Len(m.elems), NEW w, w = Cleanup(m).mpx
  PROVE  /\ w \in Mpxs /\ w.st = "initial" /\ w.numPending = m.numPending
         /\ Len(w.elems) = m.numPending
         /\ \A i \in 1..m.numPending : w.elems[i] = m.elems[PendingOffset(m) + i]
  <1> DEFINE p == PendingOffset(m)
             q == SubSeq(m.elems, p + 1, Len(m.elems))
  <1>1. /\ m.elems \in Seq(Elems) /\ p \in 0..Len(m.elems) /\ Len(m.elems) \in Nat
        /\ p = Len(m.elems) - m.numPending /\ m.numPending \in Nat
    BY OffsetIs DEF Mpxs
  <1>2. w = [m EXCEPT !.elems = q, !.st = "initial"]
    BY DEF Cleanup
  <1> HIDE DEF p
  <1>3. /\ q \in Seq(Elems) /\ Len(q) = m.numPending
        /\ \A i \in 1..m.numPending : q[i] = m.elems[p + i]
    <2>1. /\ q \in Seq(Elems) /\ Len(q) = Len(m.elems) - p
          /\ \A i \in 1..(Len(m.elems) - p) : q[i] = m.elems[p + i]
      BY <1>1, Suffix
    <2> HIDE DEF q
    <2>. QED
      BY <2>1, <1>1, SMTT(20)
  <1> HIDE DEF q
  <1>4. w \in Mpxs
    BY <1>2, <1>3 DEF Mpxs
  <1>. QED
    BY <1>3, <1>4, <1>2 DEF p, Mpxs

-----------------------------------------------------------------------------
(* The queue keeps its shape *)

\* The calls go on, and as many of them wait as before.
LEMMA QueueSame ==
  ASSUME NEW m, NEW ex, NEW dn, Queue(m, ex, dn), NEW xx, NEW dd,
         \A e \in Execs : xx[e] = "idle" => ex[e] = "idle",
         \A e \in Execs : Waits(xx, dd, e) <=> Waits(ex, dn, e)
  PROVE  Queue(m, xx, dd)
  BY OffsetIs DEF Queue, Shape, Elems, Owned

LEMMA QueueAdd ==
  ASSUME NEW m, NEW ex \in [Execs -> {"idle", "waiting", "woken", "returned"}], NEW dn,
         Queue(m, ex, dn), NEW e \in Execs, ex[e] = "idle", ~ dn[e], WellFormed(RequestOf[e])
  PROVE  Queue(Add(m, e), [ex EXCEPT ![e] = "waiting"], dn)
  <1> DEFINE w == Add(m, e)
             x == [id |-> e, st |-> "pending", rfq |-> 0]
             xx == [ex EXCEPT ![e] = "waiting"]
             n == Len(m.elems)
  <1>1. /\ w \in Mpxs /\ w.elems = Append(m.elems, x) /\ w.numPending = m.numPending + 1
        /\ w.st = m.st /\ w.fsm = m.fsm /\ w.rfq = m.rfq
    BY AddIs DEF Queue, Shape
  <1>2. /\ n \in Nat /\ PendingOffset(m) \in 0..n /\ m.elems \in Seq(Elems)
        /\ \A i \in 1..n : m.elems[i] \in Elems
        /\ m.numPending \in Nat /\ m.numPending <= n
    BY OffsetIs DEF Queue, Shape, Mpxs
  <1>3. \A i \in 1..n : m.elems[i].id \in Execs /\ m.elems[i].id # e
    BY <1>2 DEF Queue, Owned, Elems
  <1> HIDE DEF w
  <1>5. Len(w.elems) = n + 1 /\ w.elems[n + 1] = x /\ \A i \in 1..n : w.elems[i] = m.elems[i]
    BY <1>1, <1>2, SeqAppend, SMTT(20) DEF Elems, ElemStatuses
  <1>7. \A i \in 1..Len(w.elems) : i \in 1..n \/ i = n + 1
    BY <1>2, <1>5, SMTT(20)
  <1>8. Shape(w)
    BY <1>2, <1>5, <1>7, <1>3, <1>1, SMTT(20) DEF Queue, Shape, PendingOffset
  <1>9. \A d \in Execs : /\ d # e => xx[d] = ex[d] /\ (Waits(xx, dn, d) <=> Waits(ex, dn, d))
                         /\ d = e => xx[d] = "waiting" /\ Waits(xx, dn, d)
    BY DEF Waits
  <1> HIDE DEF xx
  <1>10. Owned(w, xx, dn)
    <2>1. \A i \in 1..n : i \in 1..Len(w.elems)
      BY <1>2, <1>5, SMTT(20)
    <2>2. \A i \in 1..Len(w.elems) : xx[w.elems[i].id] # "idle" /\ WellFormed(RequestOf[w.elems[i].id])
      BY <1>3, <1>5, <1>7, <1>9, SMTT(20) DEF Queue, Owned
    <2>3. \A i \in 1..Len(w.elems) :
            w.elems[i].st \in {"pending", "in_flight"} <=> Waits(xx, dn, w.elems[i].id)
      BY <1>3, <1>5, <1>7, <1>9, SMTT(20) DEF Queue, Owned
    <2>5. \A d \in Execs : Waits(xx, dn, d) => \E i \in 1..Len(w.elems) : w.elems[i].id = d
      <3>1. SUFFICES ASSUME NEW d \in Execs, Waits(xx, dn, d)
                     PROVE  \E i \in 1..Len(w.elems) : w.elems[i].id = d
        OBVIOUS
      <3>2. CASE d = e
        BY <1>2, <1>5, <3>2, SMTT(20)
      <3>3. CASE d # e
        BY <1>9, <1>5, <2>1, <3>1, <3>3, SMTT(20) DEF Queue, Owned
      <3>. QED
        BY <3>2, <3>3
    <2>. QED
      BY <2>2, <2>3, <2>5, <1>1, <1>5, <1>7, SMTT(20) DEF Owned, Queue
  <1>. QED
    BY <1>8, <1>10, <1>2, <1>5, <1>1, SeqEmpty, SMTT(20) DEF Queue, w, xx, Front

LEMMA QueueCancel ==
  ASSUME Facts, NEW m, NEW ex \in [Execs -> {"idle", "waiting", "woken", "returned"}], NEW dn,
         Queue(m, ex, dn), NEW e \in Execs, Waits(ex, dn, e),
         NEW i \in 1..Len(m.elems), m.elems[i].id = e
  PROVE  Queue(Cancel(m, i, RequestOf[e]), [ex EXCEPT ![e] = "returned"], dn)
  <1> DEFINE w == Cancel(m, i, RequestOf[e])
             xx == [ex EXCEPT ![e] = "returned"]
             n == Len(m.elems)
  <1>1. /\ n \in Nat /\ PendingOffset(m) \in 0..n /\ m.elems \in Seq(Elems)
        /\ \A j \in 1..n : m.elems[j] \in Elems
        /\ m.numPending \in Nat /\ m.numPending <= n /\ m \in Mpxs
    BY OffsetIs DEF Queue, Shape, Mpxs
  <1>2. RequestOf[e] \in Seq(MessageTypes) /\ WellFormed(RequestOf[e])
    BY RequestType DEF Queue, Owned
  <1>3. m.elems[i].st \in {"pending", "in_flight"}
    BY DEF Queue, Owned
  <1>4. /\ w \in Mpxs /\ Len(w.elems) = n /\ w.numPending = m.numPending
        /\ w.fsm = m.fsm
        /\ w.elems[i].id = e
        /\ \A j \in 1..n : j # i => w.elems[j] = m.elems[j]
        /\ w.elems[i].st = IF m.elems[i].st = "pending" THEN "abandoned_pending"
                           ELSE "abandoned_in_flight"
        /\ IF m.elems[i].st = "in_flight" /\ i = 1 /\ m.st = "reading"
           THEN w.st = "ignoring" /\ w.rfq = RemainingRfqs(RequestOf[e], m.fsm)
           ELSE /\ w.st = m.st /\ w.rfq = m.rfq
                /\ m.elems[i].st = "in_flight" =>
                     w.elems[i].rfq = GetExpectedRfqs(RequestOf[e], 1)
    BY <1>1, <1>2, <1>3, CancelIs, SMTT(20)
  <1> HIDE DEF w
  <1>6. \A j \in 1..n : w.elems[j].id = m.elems[j].id /\ m.elems[j].id \in Execs
    BY <1>1, <1>4 DEF Elems
  <1>8. Shape(w)
    <2>1. \A j \in 1..Len(w.elems) :
            w.elems[j].st \in IF j > PendingOffset(w) THEN {"pending", "abandoned_pending"}
                              ELSE ElemStatuses \ {"pending"}
      BY <1>4, <1>3 DEF Queue, Shape, ElemStatuses, PendingOffset
    <2>. QED
      BY <2>1, <1>1, <1>4, <1>6 DEF Shape, Queue
  <1>9. \A d \in Execs : /\ d # e => xx[d] = ex[d] /\ (Waits(xx, dn, d) <=> Waits(ex, dn, d))
                         /\ d = e => xx[d] = "returned" /\ ~ Waits(xx, dn, d)
    BY DEF Waits
  <1> HIDE DEF xx
  <1>10. Owned(w, xx, dn)
    <2>1. \A j \in 1..Len(w.elems) : xx[w.elems[j].id] # "idle" /\ WellFormed(RequestOf[w.elems[j].id])
      BY <1>4, <1>6, <1>9, SMTT(20) DEF Queue, Owned
    <2>2. \A j \in 1..Len(w.elems) :
            w.elems[j].st \in {"pending", "in_flight"} <=> Waits(xx, dn, w.elems[j].id)
      BY <1>4, <1>6, <1>9, SMTT(20) DEF Queue, Owned, Shape
    <2>4. \A d \in Execs : Waits(xx, dn, d) => \E j \in 1..Len(w.elems) : w.elems[j].id = d
      BY <1>4, <1>6, <1>9, SMTT(20) DEF Queue, Owned
    <2>. QED
      BY <2>1, <2>2, <2>4, <1>4, <1>6, <1>3, SMTT(20) DEF Owned, Queue
  <1>11. Front(w)
    <2>1. m.elems # <<>> /\ w.elems # <<>> /\ 1 \in 1..n
      BY <1>1, <1>4, SeqEmpty, SMTT(20)
    <2>2. CASE m.elems[i].st = "in_flight" /\ i = 1 /\ m.st = "reading"
      BY <1>1, <1>2, <1>4, <2>2, <2>1, OwesTheSame DEF Queue, Front, Mpxs
    <2>3. CASE ~(m.elems[i].st = "in_flight" /\ i = 1 /\ m.st = "reading")
      BY <1>1, <1>3, <1>4, <2>3, <2>1 DEF Mpxs, Queue, Front
    <2>. QED
      BY <2>2, <2>3
  <1>. QED
    BY <1>8, <1>10, <1>11 DEF Queue, w, xx

\* The first element leaves the queue; if its call was waiting, it is told.
LEMMA QueuePop ==
  ASSUME NEW m, NEW ex, NEW dn, Queue(m, ex, dn), m.st # "initial",
         NEW w \in Mpxs, w.elems = Tail(m.elems), w.numPending = m.numPending, w.st = "initial",
         NEW xx, NEW dd,
         \A e \in Execs : xx[e] = "idle" => ex[e] = "idle",
         \A e \in Execs : Waits(xx, dd, e) <=> Waits(ex, dn, e) /\ e # m.elems[1].id
  PROVE  Queue(w, xx, dd)
  <1> DEFINE n == Len(m.elems)
  <1>1. /\ n \in Nat /\ PendingOffset(m) \in 0..n /\ m.elems \in Seq(Elems)
        /\ \A j \in 1..n : m.elems[j] \in Elems /\ m.elems[j].id \in Execs
        /\ m.numPending \in Nat /\ m.numPending <= n /\ PendingOffset(m) = n - m.numPending
        /\ m.st \in {"initial", "reading", "ignoring"}
    BY OffsetIs DEF Queue, Shape, Mpxs, Elems
  <1>2. m.elems # <<>> /\ m.elems[1].st \notin {"pending", "abandoned_pending"}
    BY <1>1 DEF Queue, Front
  <1>3. n >= 1 /\ 1 \in 1..n
    BY <1>1, <1>2, SeqEmpty, SMTT(20)
  <1>5. Len(w.elems) = n - 1 /\ \A i \in 1..(n - 1) : w.elems[i] = m.elems[i + 1]
    BY <1>1, <1>2, SeqTail, SMTT(20)
  <1>6. PendingOffset(w) = PendingOffset(m) - 1 /\ w.numPending <= Len(w.elems)
    BY <1>1, <1>5, <1>2, <1>3, SMTT(20) DEF PendingOffset, Queue, Shape
  <1>7. \A i \in 1..Len(w.elems) : /\ i + 1 \in 1..n /\ w.elems[i] = m.elems[i + 1] /\ i + 1 # 1
                                   /\ i > PendingOffset(w) <=> i + 1 > PendingOffset(m)
    BY <1>1, <1>5, <1>6, SMTT(20)
  <1>9. \A i \in 2..n : m.elems[i].id # m.elems[1].id
    BY <1>3, SMTT(20) DEF Queue, Shape
  <1>10. Owned(w, xx, dd)
    <2>1. \A i \in 1..Len(w.elems) : w.elems[i].id \in Execs /\ w.elems[i].id # m.elems[1].id
      BY <1>1, <1>7, <1>9, SMTT(20)
    <2>5. ASSUME NEW e \in Execs, Waits(xx, dd, e)
          PROVE  \E i \in 1..Len(w.elems) : w.elems[i].id = e
      <3>1. PICK i \in 1..n : m.elems[i].id = e
        BY <2>5 DEF Queue, Owned
      <3>3. i - 1 \in 1..Len(w.elems) /\ (i - 1) + 1 = i
        BY <1>1, <1>5, <3>1, <2>5, SMTT(20)
      <3>. QED
        BY <3>1, <3>3, <1>7
    <2>. QED
      BY <2>5, <1>7, <2>1, SMTT(20) DEF Owned, Queue
  <1>. QED
    BY <1>10, <1>7, <1>6, SMTT(20) DEF Queue, Front, Shape

\* The response to a request goes on.
LEMMA QueueFollow ==
  ASSUME NEW m, NEW ex, NEW dn, Queue(m, ex, dn), m.st = "reading",
         NEW f \in Fsms, NEW s \in Backends, InStep(RequestOf[m.elems[1].id], f, s)
  PROVE  Queue([m EXCEPT !.fsm = f], ex, dn)
  BY FsmChanges, SMTT(20) DEF Queue, Shape, PendingOffset, Owned, Front

\* So does one that is ignored.
LEMMA QueueIgnore ==
  ASSUME NEW m, NEW ex, NEW dn, Queue(m, ex, dn), m.st = "ignoring", NEW n \in Nat, n > 0
  PROVE  Queue([m EXCEPT !.rfq = n], ex, dn)
  BY RfqChanges, SMTT(20) DEF Queue, Shape, PendingOffset, Owned, Front

\* The connection has gone: the elements in flight leave the queue.
LEMMA QueueCleanup ==
  ASSUME NEW m, NEW ex, NEW dn, Queue(m, ex, dn), NEW w, w = Cleanup(m).mpx,
         NEW xx, NEW dd,
         \A e \in Execs : xx[e] = "idle" => ex[e] = "idle",
         \A e \in Execs : Waits(xx, dd, e) <=>
           Waits(ex, dn, e) /\ ~ \E i \in 1..PendingOffset(m) : m.elems[i].id = e
  PROVE  Queue(w, xx, dd) /\ PendingOffset(w) = 0 /\ w.st = "initial"
  <1> DEFINE n == Len(m.elems)
             p == PendingOffset(m)
  <1>1. /\ n \in Nat /\ p \in 0..n /\ m.elems \in Seq(Elems)
        /\ \A j \in 1..n : m.elems[j] \in Elems /\ m.elems[j].id \in Execs
        /\ m.numPending \in Nat /\ m.numPending <= n /\ p = n - m.numPending
    BY OffsetIs DEF Queue, Shape, Mpxs, Elems
  <1>2. /\ w \in Mpxs /\ w.st = "initial" /\ w.numPending = m.numPending
        /\ Len(w.elems) = m.numPending
        /\ \A i \in 1..m.numPending : w.elems[i] = m.elems[p + i]
    BY CleanupIs, SMTT(20) DEF Queue, Shape
  <1>3. PendingOffset(w) = 0
    BY <1>1, <1>2, SMTT(20) DEF PendingOffset
  <1> HIDE DEF p
  <1>4. \A i \in 1..Len(w.elems) : /\ p + i \in 1..n /\ w.elems[i] = m.elems[p + i]
                                   /\ p + i > p /\ i > PendingOffset(w)
    <2>1. \A i \in 1..m.numPending : p + i \in 1..n /\ p + i > p /\ i > 0
      BY <1>1, SMTT(20)
    <2>. QED
      BY <2>1, <1>2, <1>3, Zenon
  <1>5. Shape(w)
    <2>3. ASSUME NEW i \in 1..Len(w.elems), NEW j \in 1..Len(w.elems), w.elems[i].id = w.elems[j].id
          PROVE  i = j
      <3>1. p + i \in 1..n /\ p + j \in 1..n /\ m.elems[p + i].id = m.elems[p + j].id
        BY <1>4, <2>3
      <3>2. p + i = p + j
        BY <3>1 DEF Queue, Shape
      <3>. QED
        BY <3>2, <1>1, SMTT(20)
    <2>5. w.numPending <= Len(w.elems)
      BY <1>1, <1>2, SMTT(20)
    <2>. QED
      BY <2>3, <2>5, <1>2, <1>4 DEF Shape, Queue, p
  <1>6. Owned(w, xx, dd)
    <2>1. \A i \in 1..Len(w.elems) :
            w.elems[i].id \in Execs /\ ~ \E j \in 1..p : m.elems[j].id = w.elems[i].id
      <3>1. \A j \in 1..p : j \in 1..n
        BY <1>1, SMTT(20)
      <3>2. \A i \in 1..Len(w.elems), j \in 1..p : m.elems[j].id = w.elems[i].id => j = p + i
        BY <3>1, <1>4, SMTT(20) DEF Queue, Shape
      <3>3. \A i \in 1..Len(w.elems), j \in 1..p : j # p + i
        BY <1>1, <1>4, SMTT(20)
      <3>. QED
        BY <3>2, <3>3, <1>1, <1>4
    <2>3. \A i \in 1..Len(w.elems) :
            w.elems[i].st \in {"pending", "in_flight"} <=> Waits(xx, dd, w.elems[i].id)
      BY <1>4, <2>1 DEF Queue, Owned, p
    <2>4. \A i \in 1..Len(w.elems) : w.elems[i].st # "abandoned_in_flight"
      BY <1>4 DEF Queue, Shape, p
    <2>5. ASSUME NEW e \in Execs, Waits(xx, dd, e)
          PROVE  \E i \in 1..Len(w.elems) : w.elems[i].id = e
      <3>1. PICK i \in 1..n : m.elems[i].id = e
        BY <2>5 DEF Queue, Owned
      <3>3. i - p \in 1..Len(w.elems) /\ p + (i - p) = i
        <4>1. n \in Nat /\ p \in 0..n /\ Len(w.elems) = n - p
          BY <1>1, <1>2, SMTT(20)
        <4>. QED
          BY <4>1, <3>1, <2>5, SMTT(20) DEF p
      <3>. QED
        BY <3>1, <3>3, <1>4
    <2>. QED
      BY <2>3, <2>4, <2>5, <1>4, <2>1, SMTT(20) DEF Owned, Queue
  <1>. QED
    BY <1>2, <1>3, <1>5, <1>6 DEF Queue, Front

-----------------------------------------------------------------------------
(* A response begins: elements that were cancelled while they were pending are dropped *)

LEMMA FirstIs ==
  ASSUME NEW q \in Seq(Elems), NEW p \in 1..Len(q), q[p].st # "abandoned_pending",
         \A j \in 1..(p - 1) : q[j].st = "abandoned_pending"
  PROVE  FirstNotAbandoned(q) = p
  BY SeqLen, SMTT(20) DEF FirstNotAbandoned

\* p is the first element that was not cancelled while it was pending.
FirstAt(m, p) ==
  /\ p \in 1..Len(m.elems) /\ m.elems[p].st # "abandoned_pending"
  /\ \A j \in 1..(p - 1) : m.elems[j].st = "abandoned_pending"

\* w is m once it has begun to read the response of the element after the first k.
Starts(m, w, k) ==
  /\ w \in Mpxs /\ w.numPending = m.numPending
  /\ Len(w.elems) = Len(m.elems) - k
  /\ \A i \in 1..Len(w.elems) : w.elems[i] = m.elems[k + i]
  /\ IF m.elems[k + 1].st = "abandoned_in_flight"
     THEN w.st = "ignoring" /\ w.rfq = m.elems[k + 1].rfq
     ELSE w.st = "reading" /\ w.fsm = Fresh

LEMMA StartIs ==
  ASSUME NEW m \in Mpxs, NEW k \in Nat, NEW p, p = k + 1, FirstAt(m, p), NEW w, w = StartResponse(m)
  PROVE  Starts(m, w, k)
  <1> DEFINE q == SubSeq(m.elems, p, Len(m.elems))
  <1>1. m.elems \in Seq(Elems) /\ Len(m.elems) \in Nat
    BY SeqLen DEF Mpxs
  <1>2. p \in 1..Len(m.elems) /\ FirstNotAbandoned(m.elems) = p
    BY <1>1, FirstIs DEF FirstAt
  <1>3. w = IF q = <<>> THEN [m EXCEPT !.elems = <<>>]
            ELSE IF q[1].st = "abandoned_in_flight"
            THEN [m EXCEPT !.elems = q, !.st = "ignoring", !.rfq = q[1].rfq]
            ELSE [m EXCEPT !.elems = q, !.st = "reading", !.fsm = Fresh]
    BY <1>2 DEF StartResponse, Fresh
  <1>4. /\ q \in Seq(Elems) /\ Len(q) = Len(m.elems) - k
        /\ \A i \in 1..(Len(m.elems) - k) : q[i] = m.elems[k + i]
    <2>1. k \in 0..Len(m.elems)
      BY <1>1, <1>2, SMTT(20)
    <2>. QED
      BY <1>1, <2>1, Suffix
  <1> HIDE DEF q
  <1>5. q # <<>> /\ 1 \in 1..Len(q) /\ q[1] = m.elems[p] /\ q[1] \in Elems
    BY <1>1, <1>2, <1>4, SeqEmpty, SeqElem, SMTT(20)
  <1>6. CASE q[1].st = "abandoned_in_flight"
    <2> DEFINE n == q[1].rfq
    <2>1. n \in Nat
      BY <1>5 DEF Elems
    <2>2. w = [m EXCEPT !.elems = q, !.st = "ignoring", !.rfq = n]
      BY <1>3, <1>5, <1>6
    <2> HIDE DEF n
    <2>3. w \in Mpxs
      BY <2>1, <2>2, <1>4 DEF Mpxs
    <2>. QED
      BY <2>3, <1>4, <1>5, <1>6, <2>2 DEF n, Mpxs, Starts
  <1>7. CASE q[1].st # "abandoned_in_flight"
    <2> DEFINE f == Fresh
    <2>1. f \in Fsms
      BY SMTT(20) DEF Fresh, NewFsm, Fsms, FsmStates
    <2>2. w = [m EXCEPT !.elems = q, !.st = "reading", !.fsm = f]
      BY <1>3, <1>5, <1>7
    <2> HIDE DEF f
    <2>3. w \in Mpxs
      BY <2>1, <2>2, <1>4 DEF Mpxs
    <2>. QED
      BY <2>3, <1>4, <1>5, <1>7, <2>2 DEF f, Mpxs, Starts
  <1>. QED
    BY <1>6, <1>7

LEMMA QueueStart ==
  ASSUME Facts, NEW m, NEW ex, NEW dn, Queue(m, ex, dn), m.st = "initial",
         NEW p \in 1..PendingOffset(m), FirstAt(m, p), NEW w, w = StartResponse(m)
  PROVE  Queue(w, ex, dn) /\ PendingOffset(w) = PendingOffset(m) - (p - 1)
  <1> DEFINE n == Len(m.elems)
             k == p - 1
  <1>1. /\ n \in Nat /\ PendingOffset(m) \in 0..n /\ m.elems \in Seq(Elems)
        /\ \A j \in 1..n : m.elems[j] \in Elems /\ m.elems[j].id \in Execs
        /\ m.numPending \in Nat /\ m.numPending <= n /\ PendingOffset(m) = n - m.numPending
    BY OffsetIs DEF Queue, Shape, Mpxs, Elems
  <1>2. p \in 1..n
    BY <1>1, SMTT(20)
  <1>3. /\ w \in Mpxs /\ w.numPending = m.numPending
        /\ Len(w.elems) = Len(m.elems) - k
        /\ \A i \in 1..Len(w.elems) : w.elems[i] = m.elems[k + i]
        /\ IF m.elems[p].st = "abandoned_in_flight"
           THEN w.st = "ignoring" /\ w.rfq = m.elems[p].rfq
           ELSE w.st = "reading" /\ w.fsm = Fresh
    <2>1. m \in Mpxs /\ k \in Nat /\ p = k + 1
      BY <1>2, SMTT(20) DEF Queue, Shape
    <2> HIDE DEF k
    <2>2. Starts(m, w, k)
      BY <2>1, StartIs
    <2>. QED
      BY <2>1, <2>2 DEF Starts
  <1>4. k \in 0..(n - 1) /\ k + 1 = p
    BY <1>2, SMTT(20)
  <1> HIDE DEF k
  <1>5. PendingOffset(w) = PendingOffset(m) - k /\ w.numPending <= Len(w.elems)
    BY <1>1, <1>3, <1>4, SMTT(20) DEF PendingOffset
  <1>6. \A i \in 1..Len(w.elems) : /\ k + i \in 1..n /\ w.elems[i] = m.elems[k + i]
                                   /\ i > PendingOffset(w) <=> k + i > PendingOffset(m)
                                   /\ i # 1 => k + i # 1
    <2>1. /\ n \in Nat /\ PendingOffset(m) \in Nat /\ k \in 0..(n - 1)
          /\ Len(w.elems) = n - k /\ PendingOffset(w) = PendingOffset(m) - k
      BY <1>1, <1>3, <1>4, <1>5, SMTT(20)
    <2>. QED
      BY <1>3, <2>1, SMTT(20)
  <1>7. Shape(w)
    <2>1. \A i \in 1..Len(w.elems) :
            w.elems[i].st \in IF i > PendingOffset(w) THEN {"pending", "abandoned_pending"}
                              ELSE ElemStatuses \ {"pending"}
      BY <1>6 DEF Queue, Shape
    <2>3. ASSUME NEW i \in 1..Len(w.elems), NEW j \in 1..Len(w.elems), w.elems[i].id = w.elems[j].id
          PROVE  i = j
      <3>1. k + i \in 1..n /\ k + j \in 1..n /\ m.elems[k + i].id = m.elems[k + j].id
        BY <1>6, <2>3
      <3>2. k + i = k + j
        BY <3>1 DEF Queue, Shape
      <3>. QED
        BY <3>2, <1>4, SMTT(20)
    <2>. QED
      BY <2>1, <2>3, <1>3, <1>5 DEF Shape
  <1>8. w.elems # <<>> /\ 1 \in 1..Len(w.elems) /\ w.elems[1] = m.elems[p]
    BY <1>1, <1>3, <1>4, SeqEmpty, SMTT(20)
  <1>9. \A d \in Execs : Waits(ex, dn, d) => \E i \in 1..Len(w.elems) : w.elems[i].id = d
    <2>1. SUFFICES ASSUME NEW d \in Execs, Waits(ex, dn, d)
                   PROVE  \E i \in 1..Len(w.elems) : w.elems[i].id = d
      OBVIOUS
    <2>2. PICK i \in 1..n : m.elems[i].id = d
      BY <2>1 DEF Queue, Owned
    <2>4. i \notin 1..(p - 1)
      BY <2>1, <2>2 DEF FirstAt, Queue, Owned
    <2>5. i - k \in 1..Len(w.elems) /\ k + (i - k) = i
      BY <2>4, <1>1, <1>3, <1>4, SMTT(20)
    <2>. QED
      BY <2>2, <2>5, <1>6
  <1>10. Owned(w, ex, dn)
    <2>2. \A i \in 1..Len(w.elems) : w.elems[i].st = "abandoned_in_flight" =>
            w.elems[i].rfq = GetExpectedRfqs(RequestOf[w.elems[i].id], 1)
      BY <1>6, SMTT(20) DEF Queue, Owned
    <2>3. ASSUME NEW i \in 1..Len(w.elems)
          PROVE  /\ ex[w.elems[i].id] # "idle" /\ WellFormed(RequestOf[w.elems[i].id])
                 /\ w.elems[i].st \in {"pending", "in_flight"} <=> Waits(ex, dn, w.elems[i].id)
      BY <1>6 DEF Owned, Queue
    <2>. QED
      BY <2>2, <2>3, <1>9 DEF Owned
  <1>11. Front(w)
    BY <1>1, <1>2, <1>3, <1>8, FreshInStep, RequestType, SMTT(20) DEF Queue, Owned, Front, Shape,
       ElemStatuses, FirstAt
  <1>. QED
    BY <1>5, <1>7, <1>10, <1>11 DEF Queue, k

-----------------------------------------------------------------------------
(* The writer takes the requests *)

LEMMA PrepareIs ==
  ASSUME NEW m \in Mpxs, NEW w, w = PrepareWrite(m).mpx
  PROVE  /\ w \in Mpxs /\ w.numPending = 0 /\ w.st = m.st /\ w.fsm = m.fsm /\ w.rfq = m.rfq
         /\ Len(w.elems) = Len(m.elems)
         /\ \A i \in 1..Len(m.elems) :
              /\ w.elems[i].id = m.elems[i].id /\ w.elems[i].rfq = m.elems[i].rfq
              /\ w.elems[i].st = IF i > PendingOffset(m) /\ m.elems[i].st = "pending"
                                 THEN "in_flight" ELSE m.elems[i].st
  <1> DEFINE y(i) == IF i > PendingOffset(m) /\ m.elems[i].st = "pending"
                     THEN [m.elems[i] EXCEPT !.st = "in_flight"] ELSE m.elems[i]
             q == [i \in 1..Len(m.elems) |-> y(i)]
  <1>1. /\ m.elems \in Seq(Elems) /\ Len(m.elems) \in Nat /\ DOMAIN m.elems = 1..Len(m.elems)
        /\ \A i \in 1..Len(m.elems) : m.elems[i] \in Elems
    BY SeqLen, SeqElem DEF Mpxs
  <1>2. w = [m EXCEPT !.elems = q, !.numPending = 0]
    BY <1>1 DEF PrepareWrite
  <1>3. \A i \in 1..Len(m.elems) :
          /\ y(i) \in Elems /\ y(i).id = m.elems[i].id /\ y(i).rfq = m.elems[i].rfq
          /\ y(i).st = IF i > PendingOffset(m) /\ m.elems[i].st = "pending"
                       THEN "in_flight" ELSE m.elems[i].st
    BY <1>1 DEF Elems, ElemStatuses
  <1> HIDE DEF y
  <1>4. q \in Seq(Elems) /\ Len(q) = Len(m.elems) /\ \A i \in 1..Len(m.elems) : q[i] = y(i)
    BY <1>1, <1>3, SMTT(20)
  <1>7. q \in Seq(Elems)
    BY <1>4
  <1> HIDE DEF q
  <1>5. w \in Mpxs
    <2> DEFINE z == 0
    <2>1. z \in Nat /\ w = [m EXCEPT !.elems = q, !.numPending = z]
      BY <1>2
    <2> HIDE DEF z
    <2>. QED
      BY <2>1, <1>7 DEF Mpxs
  <1>. QED
    BY <1>3, <1>4, <1>5, <1>2, SMTT(20) DEF Mpxs

LEMMA QueuePrepare ==
  ASSUME NEW m, NEW ex, NEW dn, Queue(m, ex, dn), NEW w, w = PrepareWrite(m).mpx
  PROVE  Queue(w, ex, dn) /\ PendingOffset(w) = Len(m.elems) /\ w.st = m.st
  <1> DEFINE n == Len(m.elems)
  <1>1. /\ n \in Nat /\ PendingOffset(m) \in 0..n /\ m.elems \in Seq(Elems) /\ m \in Mpxs
        /\ \A j \in 1..n : m.elems[j] \in Elems /\ m.elems[j].id \in Execs
    BY OffsetIs DEF Queue, Shape, Elems
  <1>2. /\ w \in Mpxs /\ w.numPending = 0 /\ w.st = m.st /\ w.fsm = m.fsm /\ w.rfq = m.rfq
        /\ Len(w.elems) = n
        /\ \A i \in 1..n :
             /\ w.elems[i].id = m.elems[i].id /\ w.elems[i].rfq = m.elems[i].rfq
             /\ w.elems[i].st = IF i > PendingOffset(m) /\ m.elems[i].st = "pending"
                                THEN "in_flight" ELSE m.elems[i].st
    BY <1>1, PrepareIs, SMTT(20)
  <1>3. PendingOffset(w) = n
    BY <1>1, <1>2, SMTT(20) DEF PendingOffset
  <1>5. Shape(w)
    <2>1. ASSUME NEW i \in 1..Len(w.elems)
          PROVE  w.elems[i].st \in ElemStatuses \ {"pending"} /\ ~(i > PendingOffset(w))
      <3>1. i \in 1..n /\ ~(i > PendingOffset(w))
        BY <1>1, <1>2, <1>3, SMTT(20)
      <3>2. CASE i > PendingOffset(m)
        BY <1>2, <3>1, <3>2 DEF Queue, Shape, ElemStatuses
      <3>3. CASE ~(i > PendingOffset(m))
        BY <1>2, <3>1, <3>3 DEF Queue, Shape
      <3>. QED
        BY <3>1, <3>2, <3>3
    <2>2. w.numPending <= Len(w.elems)
      BY <1>1, <1>2, SMTT(20)
    <2>3. ASSUME NEW i \in 1..Len(w.elems), NEW j \in 1..Len(w.elems), w.elems[i].id = w.elems[j].id
          PROVE  i = j
      <3>1. i \in 1..n /\ j \in 1..n /\ m.elems[i].id = m.elems[j].id
        BY <1>2, <2>3
      <3>. QED
        BY <3>1 DEF Queue, Shape
    <2>. QED
      BY <1>2, <2>1, <2>2, <2>3 DEF Shape
  <1>6. Owned(w, ex, dn)
    <2>4. \A i \in 1..Len(w.elems) :
            w.elems[i].st = "abandoned_in_flight" /\ ~(i = 1 /\ w.st = "ignoring") =>
              w.elems[i].rfq = GetExpectedRfqs(RequestOf[w.elems[i].id], 1)
      BY <1>2, SMTT(20) DEF Queue, Owned
    <2>5. \A d \in Execs : Waits(ex, dn, d) => \E i \in 1..Len(w.elems) : w.elems[i].id = d
      BY <1>2, SMTT(20) DEF Queue, Owned
    <2>. QED
      BY <2>4, <2>5, <1>2, SMTT(20) DEF Owned, Queue
  <1>. QED
    BY <1>2, <1>3, <1>5, <1>6, <1>1, SeqEmpty, SMTT(20) DEF Queue, Front

\* What the loop of prepare_write() adds to the buffer for element i.
Next1(m, b, i) == IF m.elems[i].st = "pending" THEN Append(b, m.elems[i].id) ELSE b

\* f is the loop up to element n.
Loops(m, f, n) ==
  f = [i \in PendingOffset(m)..n |-> IF i = PendingOffset(m) THEN <<>> ELSE Next1(m, f[i - 1], i)]

LEMMA LoopsExist ==
  ASSUME Facts, NEW m \in Mpxs, m.numPending <= Len(m.elems), NEW n \in PendingOffset(m)..Len(m.elems)
  PROVE  \E f : Loops(m, f, n)
  <1> DEFINE p == PendingOffset(m)
             S == {i \in p..Len(m.elems) : ~ \E f : Loops(m, f, i)}
  <1>1. p \in Nat /\ Len(m.elems) \in Nat
    BY OffsetIs, SMTT(20)
  <1>2. SUFFICES ASSUME S # {} PROVE FALSE
    OBVIOUS
  <1>3. S \in SUBSET Nat
    BY <1>1, SMTT(20)
  <1>4. PICK k \in S : \A q \in S : k <= q
    BY <1>2, <1>3, LeastIs
  <1>5. k \in p..Len(m.elems) /\ ~ \E f : Loops(m, f, k)
    BY <1>4
  <1> HIDE DEF p
  <1>6. CASE k = p
    <2> DEFINE g == [i \in p..k |-> <<>>]
    <2>3. Loops(m, g, k)
      BY <1>1, <1>6, SMTT(20) DEF Loops, p
    <2>. QED
      BY <2>3, <1>5
  <1>7. CASE k # p
    <2>1. k - 1 \in p..Len(m.elems) /\ ~(k <= k - 1) /\ k \in Int
      BY <1>1, <1>5, <1>7, SMTT(20)
    <2>3. PICK f : Loops(m, f, k - 1)
      BY <2>1, <1>4 DEF S, p
    <2> DEFINE g == [i \in p..k |-> IF i = k THEN Next1(m, f[k - 1], k) ELSE f[i]]
    <2>5. \A i \in p..k : g[i] = IF i = p THEN <<>> ELSE Next1(m, g[i - 1], i)
      BY <1>1, <1>7, <2>1, <2>3, SMTT(20) DEF Loops, p
    <2> HIDE DEF g
    <2>8. Loops(m, g, k)
      BY <2>5 DEF Loops, p, g
    <2>. QED
      BY <2>8, <1>5
  <1>. QED
    BY <1>6, <1>7

LEMMA WriteBufferLoops ==
  ASSUME Facts, NEW m \in Mpxs, m.numPending <= Len(m.elems)
  PROVE  Loops(m, WriteBuffer(m), Len(m.elems))
  <1>2. WriteBuffer(m) = CHOOSE f : Loops(m, f, Len(m.elems))
    BY DEF Loops, Next1, WriteBuffer
  <1>. QED
    BY <1>2, LoopsExist, OffsetIs, SMTT(20)

-----------------------------------------------------------------------------
(* The requests of the elements that have some status, in the order of the queue *)

\* h[j] is the place, between lo and hi, of the element whose request is b[j].
Places(q, lo, hi, St, b, h) ==
  /\ h \in [1..Len(b) -> lo..hi]
  /\ \A j, k \in 1..Len(b) : j < k => h[j] < h[k]
  /\ \A j \in 1..Len(b) : q[h[j]].id = b[j] /\ q[h[j]].st \in St
  /\ \A i \in lo..hi : q[i].st \in St => \E j \in 1..Len(b) : h[j] = i

Lists(q, lo, hi, St, b) == b \in Seq(Execs) /\ \E h : Places(q, lo, hi, St, b, h)

LEMMA ListsNone ==
  ASSUME NEW q, NEW St, NEW lo \in Int, NEW hi \in Int, \A i \in lo..hi : q[i].st \notin St
  PROVE  Lists(q, lo, hi, St, <<>>)
  <1> DEFINE h == [j \in 1..0 |-> lo]
  <1>1. Len(<<>>) = 0 /\ <<>> \in Seq(Execs) /\ \A j \in 1..0 : FALSE
    BY SMTT(20)
  <1>3. Places(q, lo, hi, St, <<>>, h)
    BY <1>1 DEF Places
  <1>. QED
    BY <1>1, <1>3 DEF Lists

LEMMA ListsPass ==
  ASSUME NEW q, NEW St, NEW lo \in Int, NEW hi \in Int, NEW b, Lists(q, lo, hi - 1, St, b),
         q[hi].st \notin St
  PROVE  Lists(q, lo, hi, St, b)
  <1>1. PICK h : Places(q, lo, hi - 1, St, b, h)
    BY DEF Lists
  <1>. QED
    BY <1>1, SMTT(20) DEF Lists, Places

LEMMA ListsAppend ==
  ASSUME NEW q, NEW St, NEW lo \in Int, NEW hi \in Int, NEW b, Lists(q, lo, hi - 1, St, b),
         lo <= hi, q[hi].st \in St, q[hi].id \in Execs
  PROVE  Lists(q, lo, hi, St, Append(b, q[hi].id))
  <1> DEFINE c == Append(b, q[hi].id)
             n == Len(b)
  <1>1. PICK h : Places(q, lo, hi - 1, St, b, h)
    BY DEF Lists
  <1>2. /\ b \in Seq(Execs) /\ n \in Nat
        /\ c \in Seq(Execs) /\ Len(c) = n + 1 /\ c[n + 1] = q[hi].id /\ \A j \in 1..n : c[j] = b[j]
    BY SeqAppend, SeqLen, SMTT(20) DEF Lists
  <1> HIDE DEF c
  <1> DEFINE g == [j \in 1..(n + 1) |-> IF j = n + 1 THEN hi ELSE h[j]]
  <1>5. \A j \in 1..(n + 1) : j \in 1..n \/ j = n + 1
    BY <1>2, SMTT(20)
  <1>6. \A j \in 1..n : j \in 1..(n + 1) /\ j # n + 1 /\ n + 1 \in 1..(n + 1)
    BY <1>2, SMTT(20)
  <1>7. \A j \in 1..n : h[j] \in lo..(hi - 1)
    BY <1>1 DEF Places
  <1>8. g[n + 1] = hi /\ \A j \in 1..n : g[j] = h[j]
    BY <1>2, <1>6, SMTT(20)
  <1> HIDE DEF g, n
  <1>11. \A j \in 1..(n + 1) : q[g[j]].id = c[j] /\ q[g[j]].st \in St
    BY <1>1, <1>2, <1>5, <1>8 DEF Places, n
  <1>13. Places(q, lo, hi, St, c, g)
    BY <1>2, <1>11, <1>5, <1>7, <1>8, <1>1, <1>6, SMTT(20) DEF Places, g, n
  <1>. QED
    BY <1>2, <1>13 DEF Lists, c

\* The loop of prepare_write() collects the requests of the elements that are pending.
LEMMA WriteBufferLists ==
  ASSUME Facts, NEW m \in Mpxs, m.numPending <= Len(m.elems)
  PROVE  Lists(m.elems, PendingOffset(m) + 1, Len(m.elems), {"pending"}, PrepareWrite(m).buffer)
  <1> DEFINE p == PendingOffset(m)
             n == Len(m.elems)
             b == WriteBuffer(m)
             S == {i \in p..n : ~ Lists(m.elems, p + 1, i, {"pending"}, b[i])}
  <1>1. p \in 0..n /\ n \in Nat /\ \A i \in 1..n : m.elems[i] \in Elems
    BY OffsetIs
  <1>2. b = [i \in p..n |-> IF i = p THEN <<>> ELSE Next1(m, b[i - 1], i)]
    BY WriteBufferLoops DEF Loops
  <1> HIDE DEF b, p
  <1>4. \A i \in p..n : b[i] = IF i = p THEN <<>> ELSE Next1(m, b[i - 1], i)
    BY <1>2
  <1>5. ASSUME S # {} PROVE FALSE
    <2>1. S \in SUBSET Nat
      BY <1>1, SMTT(20)
    <2>2. PICK k \in S : \A i \in S : k <= i
      BY <1>5, <2>1, LeastIs
    <2>3. k \in p..n /\ ~ Lists(m.elems, p + 1, k, {"pending"}, b[k])
      BY <2>2
    <2>4. CASE k = p
      BY <1>1, <1>4, <2>3, <2>4, ListsNone, SMTT(20)
    <2>5. CASE k # p
      <3>1. k - 1 \in p..n /\ ~(k <= k - 1) /\ k \in 1..n /\ k \in Int /\ p + 1 \in Int /\ p + 1 <= k
        BY <1>1, <2>3, <2>5, SMTT(20)
      <3>2. Lists(m.elems, p + 1, k - 1, {"pending"}, b[k - 1])
        BY <3>1, <2>2
      <3>3. b[k] = Next1(m, b[k - 1], k)
        BY <2>3, <2>5, <1>4
      <3>4. CASE m.elems[k].st = "pending"
        BY <1>1, <2>3, <3>3, <3>4, <3>1, <3>2, ListsAppend, SMTT(20) DEF Next1, Elems
      <3>5. CASE m.elems[k].st # "pending"
        BY <2>3, <3>3, <3>5, <3>1, <3>2, ListsPass DEF Next1
      <3>. QED
        BY <3>4, <3>5
    <2>. QED
      BY <2>4, <2>5
  <1>. QED
    BY <1>5, <1>1, SMTT(20) DEF p, PrepareWrite, b

LEMMA ListsConcat ==
  ASSUME NEW q, NEW St, NEW lo \in Int, NEW mi \in Int, NEW hi \in Int, lo <= mi + 1, mi <= hi,
         NEW a, NEW b, Lists(q, lo, mi, St, a), Lists(q, mi + 1, hi, St, b)
  PROVE  Lists(q, lo, hi, St, a \o b)
  <1> DEFINE c == a \o b
             n == Len(a)
             l == Len(b)
  <1>1. PICK f : Places(q, lo, mi, St, a, f)
    BY DEF Lists
  <1>2. PICK g : Places(q, mi + 1, hi, St, b, g)
    BY DEF Lists
  <1>3. a \in Seq(Execs) /\ b \in Seq(Execs) /\ n \in Nat /\ l \in Nat
    BY SeqLen DEF Lists
  <1>4. /\ c \in Seq(Execs) /\ Len(c) = n + l
        /\ \A j \in 1..(n + l) : c[j] = IF j <= n THEN a[j] ELSE b[j - n]
    BY <1>3, SeqConcat
  <1> DEFINE h == [j \in 1..(n + l) |-> IF j <= n THEN f[j] ELSE g[j - n]]
  <1>5. \A j \in 1..n : f[j] \in lo..mi
    BY <1>1 DEF Places
  <1>6. \A j \in 1..l : g[j] \in (mi + 1)..hi
    BY <1>2 DEF Places
  <1>7. \A j \in 1..(n + l) : \/ j \in 1..n /\ j <= n
                              \/ j - n \in 1..l /\ ~(j <= n)
    BY <1>3, SMTT(20)
  <1>8. \A j \in 1..(n + l) : h[j] = IF j <= n THEN f[j] ELSE g[j - n]
    OBVIOUS
  <1> HIDE DEF h, c, n, l
  <1>10. \A j, k \in 1..(n + l) : j < k => h[j] < h[k]
    <2>1. SUFFICES ASSUME NEW j \in 1..(n + l), NEW k \in 1..(n + l), j < k PROVE h[j] < h[k]
      OBVIOUS
    <2>2. CASE k <= n
      BY <1>3, <1>1, <1>8, <2>1, <2>2, SMTT(20) DEF Places, n
    <2>3. CASE j <= n /\ ~(k <= n)
      BY <1>7, <1>5, <1>6, <1>8, <2>3, SMTT(20)
    <2>4. CASE ~(j <= n)
      <3>1. j - n \in 1..l /\ k - n \in 1..l /\ j - n < k - n /\ ~(k <= n)
        BY <2>1, <2>4, <1>3, <1>7, SMTT(20)
      <3>. QED
        BY <3>1, <2>4, <1>8, <1>2 DEF Places, l
    <2>. QED
      BY <2>2, <2>3, <2>4, <1>3
  <1>11. \A j \in 1..(n + l) : q[h[j]].id = c[j] /\ q[h[j]].st \in St
    <2>1. SUFFICES ASSUME NEW j \in 1..(n + l) PROVE q[h[j]].id = c[j] /\ q[h[j]].st \in St
      OBVIOUS
    <2>2. CASE j <= n
      BY <1>7, <1>1, <1>4, <1>8, <2>2 DEF Places, n
    <2>3. CASE ~(j <= n)
      BY <1>7, <1>2, <1>4, <1>8, <2>3, SMTT(20) DEF Places, l
    <2>. QED
      BY <2>2, <2>3
  <1>12. \A i \in lo..hi : q[i].st \in St => \E j \in 1..(n + l) : h[j] = i
    <2>1. SUFFICES ASSUME NEW i \in lo..hi, q[i].st \in St PROVE \E j \in 1..(n + l) : h[j] = i
      OBVIOUS
    <2>2. CASE i <= mi
      <3>2. PICK j \in 1..n : f[j] = i
        BY <2>1, <1>1, <2>2, SMTT(20) DEF Places, n
      <3>. QED
        BY <3>2, <1>8, <1>3, SMTT(20)
    <2>3. CASE ~(i <= mi)
      <3>2. PICK j \in 1..l : g[j] = i
        BY <2>1, <1>2, <2>3, SMTT(20) DEF Places, l
      <3>3. n + j \in 1..(n + l) /\ ~(n + j <= n) /\ (n + j) - n = j
        BY <1>3, SMTT(20)
      <3>. QED
        BY <3>2, <3>3, <1>8
    <2>. QED
      BY <2>2, <2>3
  <1>13. Places(q, lo, hi, St, c, h)
    BY <1>4, <1>10, <1>11, <1>12, <1>5, <1>6, <1>7, SMTT(20) DEF Places, h, n, l
  <1>. QED
    BY <1>4, <1>13 DEF Lists, c

LEMMA ListsSame ==
  ASSUME NEW q, NEW r, NEW St, NEW Su, NEW lo, NEW hi, NEW b, Lists(q, lo, hi, St, b),
         \A i \in lo..hi : r[i].id = q[i].id /\ (r[i].st \in Su <=> q[i].st \in St)
  PROVE  Lists(r, lo, hi, Su, b)
  <1>1. PICK h : Places(q, lo, hi, St, b, h)
    BY DEF Lists
  <1>3. Places(r, lo, hi, Su, b, h)
    BY <1>1 DEF Places
  <1>. QED
    BY <1>3 DEF Lists

\* Elements that have other statuses are left out, and the others renumbered.
LEMMA ListsShift ==
  ASSUME NEW q, NEW r, NEW St, NEW n \in Nat, NEW hi \in Nat, n <= hi,
         NEW b, Lists(q, 1, hi, St, b),
         \A i \in 1..n : q[i].st \notin St,
         \A i \in 1..(hi - n) : r[i] = q[n + i]
  PROVE  Lists(r, 1, hi - n, St, b)
  <1> DEFINE l == Len(b)
  <1>1. PICK h : Places(q, 1, hi, St, b, h)
    BY DEF Lists
  <1> DEFINE g == [j \in 1..l |-> h[j] - n]
  <1>3. ASSUME NEW j \in 1..l
        PROVE  /\ g[j] = h[j] - n /\ h[j] - n \in 1..(hi - n)
               /\ n + (h[j] - n) = h[j] /\ h[j] \in Int
    <2>1. h[j] \in 1..hi /\ h[j] \notin 1..n
      BY <1>1 DEF Places
    <2>2. g[j] = h[j] - n
      OBVIOUS
    <2> HIDE DEF g, l
    <2>. QED
      BY <2>1, <2>2, SMTT(20)
  <1> HIDE DEF g, l
  <1>5. \A j \in 1..l : r[g[j]] = q[h[j]]
    BY <1>3
  <1>6. \A j, k \in 1..l : j < k => g[j] < g[k]
    BY <1>1, <1>3, SMTT(20) DEF Places, l
  <1>7. \A j \in 1..l : r[g[j]].id = b[j] /\ r[g[j]].st \in St
    BY <1>1, <1>5 DEF Places, l
  <1>8. \A i \in 1..(hi - n) : r[i].st \in St => \E j \in 1..l : g[j] = i
    <2>1. SUFFICES ASSUME NEW i \in 1..(hi - n), r[i].st \in St PROVE \E j \in 1..l : g[j] = i
      OBVIOUS
    <2>2. n + i \in 1..hi /\ q[n + i].st \in St /\ (n + i) - n = i
      BY <2>1, SMTT(20)
    <2>3. PICK j \in 1..l : h[j] = n + i
      BY <2>2, <1>1 DEF Places, l
    <2>. QED
      BY <2>2, <2>3, <1>3, SMTT(20)
  <1>9. Places(r, 1, hi - n, St, b, g)
    BY <1>6, <1>7, <1>8, <1>3 DEF Places, l, g
  <1>. QED
    BY <1>9 DEF Lists

\* r is q without its first element, up to hi.
IsTail(r, q, hi) == \A i \in 1..(hi - 1) : r[i] = q[i + 1]

\* The first element leaves the queue, and it was one of those listed.
LEMMA ListsTail ==
  ASSUME NEW q, NEW r, NEW St, NEW hi \in Nat, hi > 0, NEW b, Lists(q, 1, hi, St, b),
         q[1].st \in St, IsTail(r, q, hi)
  PROVE  b # <<>> /\ b[1] = q[1].id /\ Lists(r, 1, hi - 1, St, Tail(b))
  <1> DEFINE l == Len(b)
  <1>1. PICK h : Places(q, 1, hi, St, b, h)
    BY DEF Lists
  <1>2. b \in Seq(Execs) /\ l \in Nat
    BY SeqLen DEF Lists
  <1>3. \A j \in 1..l : h[j] \in 1..hi
    BY <1>1 DEF Places
  <1>4. PICK z \in 1..l : h[z] = 1
    BY <1>1, SMTT(20) DEF Places
  <1>5. z = 1 /\ 1 \in 1..l
    BY <1>2, <1>4, <1>1, <1>3, SMTT(20) DEF Places
  <1>6. b # <<>> /\ b[1] = q[1].id
    BY <1>1, <1>2, <1>4, <1>5, SeqEmpty, SMTT(20) DEF Places
  <1> DEFINE t == Tail(b)
             g == [j \in 1..(l - 1) |-> h[j + 1] - 1]
  <1>7. t \in Seq(Execs) /\ Len(t) = l - 1 /\ \A j \in 1..(l - 1) : t[j] = b[j + 1]
    BY <1>2, <1>6, SeqTail
  <1>8. \A j \in 1..(l - 1) : j + 1 \in 1..l /\ 1 < j + 1
    BY <1>2, SMTT(20)
  <1>10. \A j \in 1..(l - 1) : /\ g[j] = h[j + 1] - 1 /\ g[j] \in 1..(hi - 1)
                               /\ g[j] + 1 = h[j + 1] /\ h[j + 1] \in Int
    BY <1>1, <1>5, <1>8, <1>3, <1>4, SMTT(20) DEF Places
  <1> HIDE DEF g, t, l
  <1>12. \A j, k \in 1..(l - 1) : j < k => g[j] < g[k]
    BY <1>8, <1>1, <1>10, SMTT(20) DEF Places, l
  <1>13. \A j \in 1..(l - 1) : r[g[j]].id = t[j] /\ r[g[j]].st \in St
    <2>1. \A j \in 1..(l - 1) : r[g[j]] = q[h[j + 1]]
      BY <1>10 DEF IsTail
    <2>. QED
      BY <2>1, <1>1, <1>7, <1>8, SMTT(20) DEF Places, l
  <1>14. \A i \in 1..(hi - 1) : r[i].st \in St => \E j \in 1..(l - 1) : g[j] = i
    <2>1. SUFFICES ASSUME NEW i \in 1..(hi - 1), r[i].st \in St
                   PROVE  \E j \in 1..(l - 1) : g[j] = i
      OBVIOUS
    <2>2. i + 1 \in 1..hi /\ q[i + 1].st \in St
      BY <2>1, SMTT(20) DEF IsTail
    <2>3. PICK j \in 1..l : h[j] = i + 1
      BY <2>2, <1>1 DEF Places, l
    <2>5. j - 1 \in 1..(l - 1) /\ (j - 1) + 1 = j
      BY <1>2, <2>3, <1>4, <1>5, SMTT(20)
    <2>. QED
      BY <2>5, <2>3, <1>10, SMTT(20)
  <1>15. Places(r, 1, hi - 1, St, t, g)
    BY <1>7, <1>12, <1>13, <1>14, <1>10 DEF Places, g, l
  <1>. QED
    BY <1>6, <1>7, <1>15 DEF Lists, t

-----------------------------------------------------------------------------
(* The requests in flight, in the order in which they were written *)

InFlightStatuses == {"in_flight", "abandoned_in_flight"}

InOrder(m, o) == Lists(m.elems, 1, PendingOffset(m), InFlightStatuses, o)

LEMMA OrderEmpty ==
  ASSUME NEW m, PendingOffset(m) = 0
  PROVE  InOrder(m, <<>>)
  BY ListsNone, SMTT(20) DEF InOrder

LEMMA OrderSame ==
  ASSUME NEW m, NEW o, InOrder(m, o), NEW w, PendingOffset(w) = PendingOffset(m),
         \A i \in 1..PendingOffset(m) :
           /\ w.elems[i].id = m.elems[i].id
           /\ w.elems[i].st \in InFlightStatuses <=> m.elems[i].st \in InFlightStatuses
  PROVE  InOrder(w, o)
  BY ListsSame DEF InOrder

LEMMA OrderAdd ==
  ASSUME NEW m, NEW ex, NEW dn, Queue(m, ex, dn), NEW o, InOrder(m, o), NEW e \in Execs
  PROVE  InOrder(Add(m, e), o)
  <1> DEFINE w == Add(m, e)
             x == [id |-> e, st |-> "pending", rfq |-> 0]
  <1>1. m \in Mpxs /\ m.numPending <= Len(m.elems) /\ m.numPending \in Nat
    BY DEF Queue, Shape, Mpxs
  <1>2. w.elems = Append(m.elems, x) /\ w.numPending = m.numPending + 1
    BY <1>1, AddIs
  <1>3. /\ Len(m.elems) \in Nat /\ PendingOffset(m) \in 0..Len(m.elems) /\ m.elems \in Seq(Elems)
        /\ PendingOffset(m) = Len(m.elems) - m.numPending
    BY <1>1, OffsetIs
  <1> HIDE DEF w, x
  <1>5. Len(w.elems) = Len(m.elems) + 1 /\ \A i \in 1..Len(m.elems) : w.elems[i] = m.elems[i]
    BY <1>2, <1>3, SeqAppend, SMTT(20) DEF Elems, ElemStatuses, x
  <1>6. PendingOffset(w) = PendingOffset(m)
    BY <1>1, <1>2, <1>3, <1>5, SMTT(20) DEF PendingOffset
  <1>. QED
    BY <1>6, OrderSame, <1>3, <1>5, SMTT(20) DEF w

LEMMA OrderCancel ==
  ASSUME Facts, NEW m, NEW ex, NEW dn, Queue(m, ex, dn), NEW o, InOrder(m, o),
         NEW i \in 1..Len(m.elems), m.elems[i].st \in {"pending", "in_flight"},
         NEW r \in Seq(MessageTypes)
  PROVE  InOrder(Cancel(m, i, r), o)
  <1> DEFINE w == Cancel(m, i, r)
  <1>1. m \in Mpxs /\ m.numPending <= Len(m.elems)
    BY DEF Queue, Shape
  <1>2. /\ Len(w.elems) = Len(m.elems) /\ w.numPending = m.numPending
        /\ w.elems[i].id = m.elems[i].id
        /\ \A j \in 1..Len(m.elems) : j # i => w.elems[j] = m.elems[j]
        /\ w.elems[i].st = IF m.elems[i].st = "pending" THEN "abandoned_pending"
                           ELSE "abandoned_in_flight"
    BY <1>1, CancelIs, SMTT(20)
  <1> HIDE DEF w
  <1>5. \A j \in 1..Len(m.elems) :
          /\ w.elems[j].id = m.elems[j].id
          /\ w.elems[j].st \in InFlightStatuses <=> m.elems[j].st \in InFlightStatuses
    BY <1>2 DEF InFlightStatuses
  <1>. QED
    BY <1>5, OrderSame, <1>2, <1>1, OffsetIs, SMTT(20) DEF w, PendingOffset

LEMMA OrderPrepare ==
  ASSUME Facts, NEW m, NEW ex, NEW dn, Queue(m, ex, dn), NEW o, InOrder(m, o),
         NEW w, w = PrepareWrite(m).mpx, NEW b, b = PrepareWrite(m).buffer
  PROVE  InOrder(w, o \o b)
  <1> DEFINE n == Len(m.elems)
             p == PendingOffset(m)
  <1>1. m \in Mpxs /\ m.numPending <= n /\ n \in Nat /\ p \in 0..n
    BY OffsetIs DEF Queue, Shape
  <1>3. \A i \in 1..n : /\ w.elems[i].id = m.elems[i].id
                        /\ w.elems[i].st = IF i > p /\ m.elems[i].st = "pending"
                                           THEN "in_flight" ELSE m.elems[i].st
    BY <1>1, PrepareIs, SMTT(20)
  <1> HIDE DEF p
  <1>7. Lists(w.elems, 1, p, InFlightStatuses, o)
    BY <1>1, <1>3, ListsSame, SMTT(20) DEF InOrder, p
  <1>8. Lists(w.elems, p + 1, n, InFlightStatuses, b)
    BY <1>1, <1>3, ListsSame, WriteBufferLists, SMTT(20) DEF InFlightStatuses, Queue, Shape, p
  <1>. QED
    BY QueuePrepare, <1>7, <1>8, ListsConcat, <1>1, SMTT(20) DEF InOrder

\* The front of the queue, when a response begins.
LEMMA OrderFirst ==
  ASSUME NEW m, NEW ex, NEW dn, Queue(m, ex, dn), NEW o, InOrder(m, o), o # <<>>
  PROVE  \E p \in 1..PendingOffset(m) : FirstAt(m, p) /\ m.elems[p].id = o[1]
  <1> DEFINE l == PendingOffset(m)
             S == {i \in 1..l : m.elems[i].st \in InFlightStatuses}
  <1>1. m \in Mpxs /\ l \in 0..Len(m.elems) /\ Len(m.elems) \in Nat
    BY OffsetIs DEF Queue, Shape
  <1>2. PICK h : Places(m.elems, 1, l, InFlightStatuses, o, h)
    BY DEF InOrder, Lists
  <1>3. o \in Seq(Execs) /\ 1 \in 1..Len(o)
    BY SeqEmpty, SeqLen, SMTT(20) DEF InOrder, Lists
  <1>4. h[1] \in 1..l /\ m.elems[h[1]].id = o[1] /\ m.elems[h[1]].st \in InFlightStatuses
    BY <1>2, <1>3 DEF Places
  <1>6. ASSUME NEW j \in 1..(h[1] - 1) PROVE m.elems[j].st = "abandoned_pending"
    <2>1. j \in 1..l /\ j \in 1..Len(m.elems) /\ j < h[1] /\ ~(j > l)
      BY <1>1, <1>4, SMTT(20)
    <2>2. m.elems[j].st \notin InFlightStatuses
      BY <1>2, <1>3, <1>4, <2>1, SMTT(20) DEF Places
    <2>. QED
      BY <2>2, <2>1 DEF ElemStatuses, InFlightStatuses, Queue, Shape
  <1>. QED
    BY <1>4, <1>6, <1>1, SMTT(20) DEF FirstAt, InFlightStatuses

LEMMA OrderStart ==
  ASSUME Facts, NEW m, NEW ex, NEW dn, Queue(m, ex, dn), m.st = "initial", NEW o, InOrder(m, o),
         NEW p \in 1..PendingOffset(m), FirstAt(m, p), NEW w, w = StartResponse(m)
  PROVE  InOrder(w, o) /\ w.elems[1] = m.elems[p] /\ w.elems # <<>>
  <1> DEFINE l == PendingOffset(m)
             k == p - 1
  <1>1. m \in Mpxs /\ l \in 0..Len(m.elems) /\ Len(m.elems) \in Nat
    BY OffsetIs DEF Queue, Shape
  <1>2. k \in Nat /\ p = k + 1 /\ k <= l /\ k + 1 <= Len(m.elems)
    BY <1>1, SMTT(20)
  <1>3. PendingOffset(w) = l - k
    BY QueueStart
  <1> HIDE DEF k
  <1>4. w \in Mpxs /\ Len(w.elems) = Len(m.elems) - k /\ \A i \in 1..Len(w.elems) : w.elems[i] = m.elems[k + i]
    <2>1. /\ w \in Mpxs /\ w.numPending = m.numPending
          /\ Len(w.elems) = Len(m.elems) - k
          /\ \A i \in 1..Len(w.elems) : w.elems[i] = m.elems[k + i]
          /\ IF m.elems[p].st = "abandoned_in_flight"
             THEN w.st = "ignoring" /\ w.rfq = m.elems[p].rfq
             ELSE w.st = "reading" /\ w.fsm = Fresh
      <3>1. m \in Mpxs /\ k \in Nat /\ p = k + 1
        BY <1>1, <1>2
      <3>2. Starts(m, w, k)
        BY <3>1, StartIs
      <3>. QED
        BY <3>1, <3>2 DEF Starts
    <2>. QED
      BY <2>1
  <1>5. \A i \in 1..(l - k) : w.elems[i] = m.elems[k + i]
    <2>. QED
      BY <1>4, <1>1, <1>2, SMTT(20)
  <1>6. \A i \in 1..k : m.elems[i].st \notin InFlightStatuses
    BY <1>2, SMTT(20) DEF FirstAt, InFlightStatuses
  <1>7. Lists(w.elems, 1, l - k, InFlightStatuses, o)
    <2>1. Lists(m.elems, 1, l, InFlightStatuses, o) /\ l \in Nat
      BY <1>1, SMTT(20) DEF InOrder
    <2> HIDE DEF l
    <2>. QED
      BY <2>1, <1>2, <1>5, <1>6, ListsShift
  <1>. QED
    BY <1>3, <1>7, <1>2, <1>4, SeqEmpty, <1>1, SMTT(20) DEF InOrder

LEMMA OrderPop ==
  ASSUME NEW m, NEW ex, NEW dn, Queue(m, ex, dn), m.st # "initial", NEW o, InOrder(m, o),
         NEW w \in Mpxs, w.elems = Tail(m.elems), w.numPending = m.numPending
  PROVE  o # <<>> /\ o[1] = m.elems[1].id /\ InOrder(w, Tail(o))
  <1> DEFINE l == PendingOffset(m)
             n == Len(m.elems)
  <1>1. /\ m \in Mpxs /\ l \in 0..n /\ n \in Nat /\ m.elems \in Seq(Elems)
        /\ m.numPending \in Nat /\ l = n - m.numPending
        /\ m.st \in {"initial", "reading", "ignoring"}
    BY OffsetIs DEF Queue, Shape, Mpxs
  <1>2. m.elems # <<>> /\ m.elems[1].st \in InFlightStatuses
    BY <1>1 DEF Queue, Front, InFlightStatuses
  <1>4. l > 0
    BY <1>1, <1>2, SeqEmpty, SMTT(20) DEF Queue, Shape, InFlightStatuses
  <1>5. Len(w.elems) = n - 1 /\ \A i \in 1..(n - 1) : w.elems[i] = m.elems[i + 1]
    BY <1>1, <1>2, SeqTail, SMTT(20)
  <1>10. IsTail(w.elems, m.elems, l)
    BY <1>1, <1>5, SMTT(20) DEF IsTail
  <1>8. l \in Nat /\ Lists(m.elems, 1, l, InFlightStatuses, o)
    BY <1>1, SMTT(20) DEF InOrder
  <1> HIDE DEF l
  <1>9. o # <<>> /\ o[1] = m.elems[1].id /\ Lists(w.elems, 1, l - 1, InFlightStatuses, Tail(o))
    BY <1>2, <1>4, <1>8, <1>10, ListsTail
  <1>. QED
    BY <1>9, <1>1, <1>5, SMTT(20) DEF InOrder, PendingOffset, l

-----------------------------------------------------------------------------
(* The messages in transit *)

\* A machine in step with the backend in state s is in step with it in state t.
After(r, s, t) ==
  /\ \A f \in Fsms : InStep(r, f, s) => InStep(r, f, t)
  /\ OwedRfqs(r, s) = OwedRfqs(r, t)

\* The request that is answered when k of the requests o have been.
Answered(o, k) == RequestOf[o[k + 1]]

\* The backend may be in state s then.
Fits(o, k, s) ==
  IF k < Len(o) THEN \E f \in Fsms : InStep(Answered(o, k), f, s) ELSE s = NewBackend

\* The backend goes from state s to state t without sending anything.
Arrives(o, k, s, t) == IF k < Len(o) THEN After(Answered(o, k), s, t) ELSE t = NewBackend

\* The backend, in state s after k requests, sends msg and gets to state t after kk
\* of them; the requests sv are finished.
Answers(o, sv, msg, k, s, kk, t) ==
  \/ msg.owner = None /\ msg.kind \in AsyncKinds /\ kk = k /\ Arrives(o, k, s, t)
  \/ /\ k < Len(o) /\ msg.owner = o[k + 1]
     /\ \E reply \in Replies(Answered(o, k), s) :
          /\ reply[1] = msg.kind
          /\ IF Finished(Answered(o, k), reply[2])
             THEN kk = k + 1 /\ o[k + 1] \in sv /\ Arrives(o, k + 1, NewBackend, t)
             ELSE kk = k /\ Arrives(o, k, reply[2], t)

Sound(o) == o \in Seq(Execs) /\ \A j \in 1..Len(o) : WellFormed(RequestOf[o[j]])

\* The messages tr answer the requests o: before message i the backend had finished
\* c[i] of them and was in state B[i].
Stream(tr, o, c, B, sv) ==
  /\ Sound(o)
  /\ c \in [1..(Len(tr) + 1) -> 0..Len(o)] /\ B \in [1..(Len(tr) + 1) -> Backends] /\ c[1] = 0
  /\ \A i, j \in 1..(Len(tr) + 1) : i <= j => c[i] <= c[j]
  /\ \A i \in 1..(Len(tr) + 1) : Fits(o, c[i], B[i])
  /\ \A i \in 1..Len(tr) : Answers(o, sv, tr[i], c[i], B[i], c[i + 1], B[i + 1])

LEMMA AnsweredIs ==
  ASSUME NEW o, Sound(o), NEW k \in Nat, k < Len(o)
  PROVE  Answered(o, k) \in Seq(MessageTypes) /\ WellFormed(Answered(o, k)) /\ o[k + 1] \in Execs
  BY SeqLen, SeqElem, RequestType, SMTT(20) DEF Sound, Answered

LEMMA FreshFits ==
  ASSUME Facts, NEW o, Sound(o), NEW k \in Nat
  PROVE  Fits(o, k, NewBackend) /\ Arrives(o, k, NewBackend, NewBackend)
  BY AnsweredIs, FreshInStep DEF Fits, Arrives, After

\* More requests are written.
LEMMA StreamExtend ==
  ASSUME Facts, NEW M, NEW tr \in Seq(M), NEW o, NEW c, NEW B, NEW sv, Stream(tr, o, c, B, sv),
         NEW b, Sound(b)
  PROVE  Stream(tr, o \o b, c, B, sv)
  <1> DEFINE q == o \o b
             n == Len(o)
             T == Len(tr)
  <1>1. o \in Seq(Execs) /\ b \in Seq(Execs) /\ n \in Nat /\ Len(b) \in Nat /\ T \in Nat
    BY SeqLen DEF Stream, Sound
  <1>2. /\ q \in Seq(Execs) /\ Len(q) = n + Len(b)
        /\ \A j \in 1..(n + Len(b)) : q[j] = IF j <= n THEN o[j] ELSE b[j - n]
    BY <1>1, SeqConcat
  <1> HIDE DEF q
  <1>3. Sound(q)
    <2>1. ASSUME NEW j \in 1..Len(q) PROVE WellFormed(RequestOf[q[j]])
      <3>1. CASE j <= n
        <4>1. j \in 1..n /\ q[j] = o[j]
          BY <3>1, <1>1, <1>2, SMTT(20)
        <4>. QED
          BY <4>1 DEF Stream, Sound
      <3>2. CASE ~(j <= n)
        <4>1. j - n \in 1..Len(b) /\ q[j] = b[j - n]
          BY <3>2, <1>1, <1>2, SMTT(20)
        <4>. QED
          BY <4>1 DEF Sound
      <3>. QED
        BY <3>1, <3>2
    <2>. QED
      BY <2>1, <1>2 DEF Sound
  <1>4. \A k \in Nat : k < n => k < Len(q) /\ q[k + 1] = o[k + 1] /\ Answered(q, k) = Answered(o, k)
    BY <1>1, <1>2, SMTT(20) DEF Answered
  <1>5. \A i \in 1..(T + 1) : c[i] \in 0..n /\ c[i] \in Nat /\ B[i] \in Backends
    BY SMTT(20) DEF Stream
  <1>7. \A k \in Nat : \A s, t : Arrives(o, k, s, t) /\ (k < n \/ s = NewBackend) => Arrives(q, k, s, t)
    BY <1>4, <1>3, FreshFits DEF Arrives
  <1>8. \A i \in 1..(T + 1) : Fits(q, c[i], B[i])
    BY <1>5, <1>4, <1>3, FreshFits DEF Stream, Fits
  <1>9. ASSUME NEW i \in 1..T
        PROVE  Answers(q, sv, tr[i], c[i], B[i], c[i + 1], B[i + 1])
    <2>2. c[i] \in Nat /\ Fits(o, c[i], B[i]) /\ Answers(o, sv, tr[i], c[i], B[i], c[i + 1], B[i + 1])
      BY <1>5, <1>1, SMTT(20) DEF Stream
    <2>3. CASE tr[i].owner = None /\ tr[i].kind \in AsyncKinds /\ c[i + 1] = c[i]
               /\ Arrives(o, c[i], B[i], B[i + 1])
      BY <1>7, <2>2, <2>3 DEF Fits, Answers
    <2>4. CASE c[i] < n /\ tr[i].owner = o[c[i] + 1] /\
               \E reply \in Replies(Answered(o, c[i]), B[i]) :
                 /\ reply[1] = tr[i].kind
                 /\ IF Finished(Answered(o, c[i]), reply[2])
                    THEN c[i + 1] = c[i] + 1 /\ o[c[i] + 1] \in sv
                         /\ Arrives(o, c[i] + 1, NewBackend, B[i + 1])
                    ELSE c[i + 1] = c[i] /\ Arrives(o, c[i], reply[2], B[i + 1])
      BY <1>4, <1>7, <2>4, <2>2, SMTT(20) DEF Answers
    <2>. QED
      BY <2>2, <2>3, <2>4 DEF Answers
  <1>. QED
    BY <1>3, <1>8, <1>9, <1>1, <1>2, <1>5, SMTT(20) DEF Stream, q

\* The network loses what comes after n messages.
LEMMA StreamTruncate ==
  ASSUME NEW M, NEW tr \in Seq(M), NEW o, NEW c, NEW B, NEW sv, Stream(tr, o, c, B, sv),
         NEW n \in 0..Len(tr)
  PROVE  Stream(SubSeq(tr, 1, n), o, [i \in 1..(n + 1) |-> c[i]], [i \in 1..(n + 1) |-> B[i]], sv)
  <1> DEFINE t == SubSeq(tr, 1, n)
             cc == [i \in 1..(n + 1) |-> c[i]]
             BB == [i \in 1..(n + 1) |-> B[i]]
             T == Len(tr)
  <1>1. T \in Nat /\ \A i \in 1..T : tr[i] \in M
    BY SeqLen, SeqElem
  <1>2. n \in Nat /\ n <= T
    BY <1>1, SMTT(20)
  <1>4. \A i \in 1..(n + 1) : i \in 1..(T + 1) /\ cc[i] = c[i] /\ BB[i] = B[i]
    BY <1>1, <1>2, SMTT(20)
  <1>6. 1 \in 1..(n + 1)
    BY <1>2, SMTT(20)
  <1>7. cc \in [1..(n + 1) -> 0..Len(o)] /\ BB \in [1..(n + 1) -> Backends] /\ cc[1] = 0
    BY <1>4, <1>6 DEF Stream
  <1>8. \A i \in 1..n : tr[i] \in M /\ i \in 1..T /\ i \in 1..(n + 1) /\ i + 1 \in 1..(n + 1)
    BY <1>1, <1>2, SMTT(20)
  <1>9. Len(t) = n /\ \A i \in 1..n : t[i] = tr[i]
    BY <1>8, <1>2, SeqPart, SMTT(20)
  <1> HIDE DEF cc, BB, t
  <1>10. /\ \A i, j \in 1..(n + 1) : i <= j => cc[i] <= cc[j]
         /\ \A i \in 1..(n + 1) : Fits(o, cc[i], BB[i])
    BY <1>4 DEF Stream
  <1>11. \A i \in 1..n : Answers(o, sv, t[i], cc[i], BB[i], cc[i + 1], BB[i + 1])
    BY <1>4, <1>8, <1>9 DEF Stream
  <1>12. Stream(t, o, cc, BB, sv)
    BY <1>7, <1>9, <1>10, <1>11 DEF Stream
  <1>. QED
    BY <1>12 DEF t, cc, BB

\* The first message is read, and the response it belongs to goes on.
LEMMA StreamSkip ==
  ASSUME NEW M, NEW tr \in Seq(M), NEW o, NEW c, NEW B, NEW sv, Stream(tr, o, c, B, sv),
         tr # <<>>, c[2] = 0
  PROVE  Stream(Tail(tr), o, [i \in 1..Len(tr) |-> c[i + 1]], [i \in 1..Len(tr) |-> B[i + 1]], sv)
  <1> DEFINE t == Tail(tr)
             T == Len(tr)
             cc == [i \in 1..T |-> c[i + 1]]
             BB == [i \in 1..T |-> B[i + 1]]
  <1>1. T \in Nat /\ T >= 1 /\ Len(t) = T - 1 /\ \A i \in 1..(T - 1) : t[i] = tr[i + 1]
    BY SeqLen, SeqEmpty, SeqTail, SMTT(20)
  <1>3. \A i \in 1..T : i + 1 \in 1..(T + 1) /\ cc[i] = c[i + 1] /\ BB[i] = B[i + 1]
    BY <1>1, SMTT(20)
  <1>4. \A i \in 1..(T - 1) : i + 1 \in 1..T /\ i \in 1..T
    BY <1>1, SMTT(20)
  <1> HIDE DEF cc, BB, t
  <1>6. \A i, j \in 1..T : i <= j => cc[i] <= cc[j]
    <2>1. ASSUME NEW i \in 1..T, NEW j \in 1..T, i <= j PROVE cc[i] <= cc[j]
      <3>1. i + 1 \in 1..(T + 1) /\ j + 1 \in 1..(T + 1) /\ i + 1 <= j + 1
        BY <2>1, <1>1, SMTT(20)
      <3>. QED
        BY <3>1, <1>3 DEF Stream
    <2>. QED
      BY <2>1
  <1>8. \A i \in 1..(T - 1) : Answers(o, sv, t[i], cc[i], BB[i], cc[i + 1], BB[i + 1])
    <2>1. ASSUME NEW i \in 1..(T - 1)
          PROVE  Answers(o, sv, t[i], cc[i], BB[i], cc[i + 1], BB[i + 1])
      <3>. QED
        BY <1>1, <1>3, <1>4 DEF Stream
    <2>. QED
      BY <2>1
  <1>. QED
    BY <1>1, <1>6, <1>8, <1>3, SMTT(20) DEF t, cc, BB, Stream

\* The first message is read, and it ends a response.
LEMMA StreamFinish ==
  ASSUME NEW M, NEW tr \in Seq(M), NEW o, NEW c, NEW B, NEW sv, Stream(tr, o, c, B, sv),
         tr # <<>>, c[2] = 1, o # <<>>
  PROVE  Stream(Tail(tr), Tail(o), [i \in 1..Len(tr) |-> c[i + 1] - 1],
                [i \in 1..Len(tr) |-> B[i + 1]], sv)
  <1> DEFINE t == Tail(tr)
             q == Tail(o)
             n == Len(o)
             T == Len(tr)
             cc == [i \in 1..T |-> c[i + 1] - 1]
             BB == [i \in 1..T |-> B[i + 1]]
  <1>1. T \in Nat /\ T >= 1 /\ Len(t) = T - 1 /\ \A i \in 1..(T - 1) : t[i] = tr[i + 1]
    BY SeqLen, SeqEmpty, SeqTail, SMTT(20)
  <1>3. o \in Seq(Execs) /\ n \in Nat /\ n >= 1
    BY SeqLen, SeqEmpty, SMTT(20) DEF Stream, Sound
  <1>4. q \in Seq(Execs) /\ Len(q) = n - 1 /\ \A j \in 1..(n - 1) : q[j] = o[j + 1]
    BY <1>3, SeqTail
  <1> HIDE DEF q
  <1>5. Sound(q)
    <2>1. \A j \in 1..(n - 1) : j + 1 \in 1..n
      BY <1>3, SMTT(20)
    <2>2. \A j \in 1..(n - 1) : WellFormed(RequestOf[q[j]])
      BY <2>1, <1>4 DEF Stream, Sound
    <2>. QED
      BY <2>2, <1>4 DEF Sound
  <1>6. \A i \in 1..T : i + 1 \in 1..(T + 1) /\ cc[i] = c[i + 1] - 1 /\ BB[i] = B[i + 1]
    BY <1>1, SMTT(20)
  <1>7. \A i \in 1..T : c[i + 1] \in 1..n
    <2>1. ASSUME NEW i \in 1..T PROVE c[i + 1] \in 1..n
      <3>2. c[2] <= c[i + 1] /\ c[i + 1] \in 0..n
        BY <1>1, SMTT(20) DEF Stream
      <3>. QED
        BY <3>2, SMTT(20)
    <2>. QED
      BY <2>1
  <1>8. \A i \in 1..T : cc[i] \in 0..Len(q) /\ cc[i] \in Nat /\ cc[i] + 1 = c[i + 1] /\ c[i + 1] \in Int
    BY <1>6, <1>7, <1>3, <1>4, SMTT(20)
  <1>9. cc \in [1..T -> 0..Len(q)] /\ BB \in [1..T -> Backends]
    <2>2. BB \in [1..T -> Backends]
      BY <1>6 DEF Stream
    <2>. QED
      BY <2>2, <1>8
  <1>10. cc[1] = 0 /\ \A i \in 1..(T - 1) : i + 1 \in 1..T /\ i \in 1..T
    BY <1>1, SMTT(20)
  <1> HIDE DEF cc, BB, t
  <1>11. \A k \in Nat : k < Len(q) => /\ k + 1 < n /\ k + 1 \in Nat /\ q[k + 1] = o[(k + 1) + 1]
                                      /\ Answered(q, k) = Answered(o, k + 1)
    <2>1. ASSUME NEW k \in Nat, k < Len(q)
          PROVE  /\ k + 1 < n /\ k + 1 \in Nat /\ q[k + 1] = o[(k + 1) + 1]
                 /\ Answered(q, k) = Answered(o, k + 1)
      <3>1. k + 1 < n /\ k + 1 \in 1..Len(q) /\ k + 1 \in Nat
        BY <2>1, <1>3, <1>4, SMTT(20)
      <3>2. q[k + 1] = o[(k + 1) + 1]
        BY <3>1, <1>4
      <3>. QED
        BY <3>1, <3>2 DEF Answered
    <2>. QED
      BY <2>1
  <1>12. \A k \in Nat : k + 1 < n => k < Len(q)
    BY <1>3, <1>4, SMTT(20)
  <1>14. \A k \in Nat : \A s, u : Arrives(o, k + 1, s, u) => Arrives(q, k, s, u)
    BY <1>11, <1>12 DEF Arrives
  <1>15. \A i, j \in 1..T : i <= j => cc[i] <= cc[j]
    <2>1. ASSUME NEW i \in 1..T, NEW j \in 1..T, i <= j PROVE cc[i] <= cc[j]
      <3>2. c[i + 1] <= c[j + 1]
        BY <2>1, <1>1, SMTT(20) DEF Stream
      <3>. QED
        BY <3>2, <1>8, SMTT(20)
    <2>. QED
      BY <2>1
  <1>16. \A i \in 1..T : Fits(q, cc[i], BB[i])
    BY <1>6, <1>8, <1>11, <1>12 DEF Stream, Fits
  <1>17. ASSUME NEW i \in 1..(T - 1)
         PROVE  Answers(q, sv, t[i], cc[i], BB[i], cc[i + 1], BB[i + 1])
    <2> DEFINE k == cc[i]
               l == cc[i + 1]
               s == BB[i]
               u == BB[i + 1]
    <2>1. i \in 1..T /\ i + 1 \in 1..T
      BY <1>10
    <2>2. /\ k \in Nat /\ l \in Nat /\ k + 1 = c[i + 1] /\ l + 1 = c[(i + 1) + 1]
          /\ s = B[i + 1] /\ u = B[(i + 1) + 1] /\ t[i] = tr[i + 1]
      BY <2>1, <1>1, <1>6, <1>8
    <2> HIDE DEF k, l, s, u
    <2>4. Answers(o, sv, t[i], k + 1, s, l + 1, u)
      BY <2>2, <2>1 DEF Stream
    <2>5. Answers(q, sv, t[i], k, s, l, u)
      BY <1>14, <1>11, <1>12, <2>2, <2>4, SMTT(20) DEF Answers
    <2>. QED
      BY <2>5 DEF k, l, s, u
  <1>18. Stream(t, q, cc, BB, sv)
    BY <1>1, <1>5, <1>9, <1>10, <1>15, <1>16, <1>17, SMTT(20) DEF Stream, t
  <1>. QED
    BY <1>18 DEF t, q, cc, BB

\* The backend sends a message.
\* The messages are tr and msg, after which the backend is in state t and has
\* answered k requests.
Extended(tr, msg, o, B, sv, k, t) ==
  \E cc, BB : /\ Stream(Append(tr, msg), o, cc, BB, sv) /\ BB[1] = B[1]
              /\ cc[Len(tr) + 2] = k /\ BB[Len(tr) + 2] = t

LEMMA StreamAppend ==
  ASSUME NEW M, NEW tr \in Seq(M), NEW o, NEW c, NEW B, NEW sv, Stream(tr, o, c, B, sv),
         NEW msg \in M, NEW t \in Backends, NEW k \in 0..Len(o),
         c[Len(tr) + 1] <= k, Fits(o, k, t),
         Answers(o, sv, msg, c[Len(tr) + 1], B[Len(tr) + 1], k, t)
  PROVE  Extended(tr, msg, o, B, sv, k, t)
  <1> DEFINE T == Len(tr)
             a == Append(tr, msg)
             cc == [i \in 1..(T + 2) |-> IF i = T + 2 THEN k ELSE c[i]]
             BB == [i \in 1..(T + 2) |-> IF i = T + 2 THEN t ELSE B[i]]
  <1>1. T \in Nat
    BY SeqLen
  <1>2. Len(a) = T + 1 /\ a[T + 1] = msg /\ \A i \in 1..T : a[i] = tr[i]
    BY SeqAppend, SMTT(20)
  <1> HIDE DEF a
  <1>4. \A i \in 1..(T + 2) : i \in 1..(T + 1) \/ i = T + 2
    BY <1>1, SMTT(20)
  <1>5. /\ cc[T + 2] = k /\ BB[T + 2] = t
        /\ \A i \in 1..(T + 1) : cc[i] = c[i] /\ BB[i] = B[i]
    BY <1>1, SMTT(20)
  <1> HIDE DEF cc, BB
  <1>7. 1 \in 1..(T + 1) /\ T + 1 \in 1..(T + 1)
    BY <1>1, SMTT(20)
  <1>8. cc[1] = 0 /\ BB[1] = B[1] /\ Sound(o)
    BY <1>5, <1>7 DEF Stream
  <1>9. \A i, j \in 1..(T + 2) : i <= j => cc[i] <= cc[j]
    <2>1. \A i \in 1..(T + 1) : c[i] <= c[T + 1] /\ c[i] \in Int /\ c[T + 1] \in Int
      BY <1>7, SMTT(20) DEF Stream
    <2>4. \A j \in 1..(T + 1) : ~ (T + 2 <= j)
      BY <1>1, SMTT(20)
    <2>. QED
      BY <2>4, <1>4, <1>5, <2>1, SMTT(20) DEF Stream
  <1>11. \A i \in 1..(T + 1) : Answers(o, sv, a[i], cc[i], BB[i], cc[i + 1], BB[i + 1])
    <2>1. ASSUME NEW i \in 1..T PROVE Answers(o, sv, a[i], cc[i], BB[i], cc[i + 1], BB[i + 1])
      BY <1>1, <1>2, <1>5, SMTT(20) DEF Stream
    <2>. QED
      BY <2>1, <1>2, <1>5, <1>7, <1>1, SMTT(20)
  <1>12. Stream(a, o, cc, BB, sv)
    BY <1>2, <1>8, <1>9, <1>11, <1>1, <1>4, <1>5, SMTT(20) DEF Stream, cc, BB
  <1>. QED
    BY <1>12, <1>5, <1>8 DEF a, Extended

LEMMA AfterItself == \A o, k, s : Fits(o, k, s) => Arrives(o, k, s, s)
  BY DEF Arrives, After, Fits

\* The backend passes over a message of the request.
LEMMA StreamPass ==
  ASSUME Facts, NEW M, NEW tr \in Seq(M), NEW o, NEW c, NEW B, NEW sv, Stream(tr, o, c, B, sv),
         c[Len(tr) + 1] < Len(o),
         Silent(Answered(o, c[Len(tr) + 1]), B[Len(tr) + 1])
  PROVE  \E BB : /\ Stream(tr, o, c, BB, sv) /\ BB[Len(tr) + 1] = PassOver(B[Len(tr) + 1])
                 /\ Arrives(o, 0, B[1], BB[1])
  <1> DEFINE T == Len(tr)
             k == c[T + 1]
             s == B[T + 1]
             t == PassOver(s)
             r == Answered(o, k)
             BB == [i \in 1..(T + 1) |-> IF i = T + 1 THEN t ELSE B[i]]
  <1>1. T \in Nat
    BY SeqLen
  <1>2. T + 1 \in 1..(T + 1) /\ 1 \in 1..(T + 1)
    BY <1>1, SMTT(20)
  <1>3. k \in 0..Len(o) /\ s \in Backends /\ Fits(o, k, s) /\ Sound(o) /\ k < Len(o) /\ k \in Nat
    BY <1>2, SMTT(20) DEF Stream
  <1>4. r \in Seq(MessageTypes) /\ WellFormed(r)
    BY <1>3, AnsweredIs
  <1> HIDE DEF k, s, r
  <1>5. \A f \in Fsms : InStep(r, f, s) => t \in Backends /\ InStep(r, f, t)
    BY <1>3, <1>4, PassFollowed DEF k, s, r
  <1>6. PICK f \in Fsms : InStep(r, f, s)
    BY <1>3 DEF Fits, r
  <1>7. t \in Backends /\ InStep(r, f, t)
    BY <1>5, <1>6
  <1> HIDE DEF t
  <1>10. \A x : Arrives(o, k, x, s) => Arrives(o, k, x, t)
    BY <1>3, <1>5, <1>4, <1>6, <1>7, OwesTheSame DEF Arrives, After, r
  <1>12. BB[T + 1] = t /\ \A i \in 1..T : BB[i] = B[i] /\ i # T + 1
    BY <1>1, <1>2, SMTT(20)
  <1>13. BB \in [1..(T + 1) -> Backends]
    BY <1>7 DEF Stream
  <1> HIDE DEF BB
  <1>14. \A i \in 1..(T + 1) : i \in 1..T \/ i = T + 1
    BY <1>1, SMTT(20)
  <1>16. ASSUME NEW i \in 1..T PROVE Answers(o, sv, tr[i], c[i], BB[i], c[i + 1], BB[i + 1])
    <2>1. Answers(o, sv, tr[i], c[i], B[i], c[i + 1], B[i + 1])
      BY DEF Stream
    <2>3. CASE i + 1 \in 1..T
      BY <2>1, <2>3, <1>12
    <2>4. CASE i + 1 = T + 1
      BY <1>12, <1>10, <2>4, <2>1 DEF k, s, Answers
    <2>. QED
      BY <2>3, <2>4, <1>1, SMTT(20)
  <1>17. Stream(tr, o, c, BB, sv)
    BY <1>13, <1>16, <1>12, <1>14, <1>3, <1>7 DEF Stream, k, Fits, r
  <1>18. Arrives(o, 0, B[1], BB[1])
    BY <1>2, <1>12, <1>10, <1>14, AfterItself DEF Stream, k, s
  <1>. QED
    BY <1>12, <1>17, <1>18 DEF t, s

\* The backend finishes a request.
LEMMA StreamServed ==
  ASSUME NEW tr, NEW o, NEW c, NEW B, NEW sv, NEW sw, Stream(tr, o, c, B, sv), sv \subseteq sw
  PROVE  Stream(tr, o, c, B, sw)
  BY DEF Answers, Stream

-----------------------------------------------------------------------------
(* The client, and the response that comes first *)

\* The backend is in state s for the first of the requests o, which are in flight.
Client(m, o, s) == o # <<>> =>
  /\ m.st = "reading" => InStep(RequestOf[o[1]], m.fsm, s)
  /\ m.st = "initial" => InStep(RequestOf[o[1]], Fresh, s)
  /\ m.st = "ignoring" => m.rfq = OwedRfqs(RequestOf[o[1]], s)

LEMMA NotEmpty ==
  ASSUME NEW o \in Seq(Execs)
  PROVE  Len(o) \in Nat /\ (o # <<>> <=> 0 < Len(o)) /\ Answered(o, 0) = RequestOf[o[1]]
  BY SeqLen, SeqEmpty, SMTT(20) DEF Answered

LEMMA ClientSame ==
  ASSUME NEW m, NEW o, NEW s, Client(m, o, s),
         NEW w, w.st = m.st, w.fsm = m.fsm, w.rfq = m.rfq
  PROVE  Client(w, o, s)
  BY DEF Client

LEMMA ClientArrives ==
  ASSUME NEW m \in Mpxs, NEW o, Sound(o), NEW s, NEW t, Client(m, o, s), Arrives(o, 0, s, t)
  PROVE  Client(m, o, t)
  <1>1. SUFFICES ASSUME o # <<>> PROVE Client(m, o, t)
    BY DEF Client
  <1>2. 0 < Len(o) /\ Answered(o, 0) = RequestOf[o[1]]
    BY <1>1, NotEmpty DEF Sound
  <1>5. o[1] \in Execs
    BY <1>2, AnsweredIs, SMTT(20)
  <1>7. Fresh \in Fsms
    BY SMTT(20) DEF Fresh, NewFsm, Fsms, FsmStates
  <1>. QED
    BY <1>1, <1>7, <1>2 DEF Client, After, Mpxs, Arrives

\* What is being read is the response of the first element in flight.
LEMMA FirstInFlight ==
  ASSUME NEW m, NEW ex, NEW dn, Queue(m, ex, dn), m.st # "initial", NEW o, InOrder(m, o)
  PROVE  o # <<>> /\ o[1] = m.elems[1].id
  BY PopIs, OrderPop, SMTT(20) DEF Queue, Shape, Mpxs, Front

LEMMA ClientCancel ==
  ASSUME Facts, NEW m, NEW ex, NEW dn, Queue(m, ex, dn), NEW o, Sound(o), InOrder(m, o),
         NEW s \in Backends, Client(m, o, s),
         NEW i \in 1..Len(m.elems), m.elems[i].st \in {"pending", "in_flight"}
  PROVE  Client(Cancel(m, i, RequestOf[m.elems[i].id]), o, s)
  <1> DEFINE r == RequestOf[m.elems[i].id]
             w == Cancel(m, i, r)
  <1>1. m \in Mpxs
    BY DEF Queue, Shape
  <1>3. r \in Seq(MessageTypes)
    BY RequestType, <1>1, OffsetIs DEF Queue, Shape, Elems
  <1>4. WellFormed(r)
    BY DEF Queue, Owned
  <1>5. /\ w.fsm = m.fsm
        /\ IF m.elems[i].st = "in_flight" /\ i = 1 /\ m.st = "reading"
           THEN w.st = "ignoring" /\ w.rfq = RemainingRfqs(r, m.fsm)
           ELSE w.st = m.st /\ w.rfq = m.rfq
    BY <1>1, <1>3, CancelIs, SMTT(20)
  <1> HIDE DEF w, r
  <1>6. CASE m.elems[i].st = "in_flight" /\ i = 1 /\ m.st = "reading"
    BY <1>6, <1>1, <1>3, <1>4, <1>5, FirstInFlight, OwesTheSame, SMTT(20) DEF r, Client, Mpxs, w
  <1>7. CASE ~ (m.elems[i].st = "in_flight" /\ i = 1 /\ m.st = "reading")
    BY <1>5, <1>7, ClientSame DEF w, r
  <1>. QED
    BY <1>6, <1>7

\* A response begins.
LEMMA ClientStart ==
  ASSUME Facts, NEW m, NEW ex, NEW dn, Queue(m, ex, dn), m.st = "initial",
         NEW o, Sound(o), o # <<>>, InOrder(m, o), NEW s \in Backends, Client(m, o, s),
         NEW w, w = StartResponse(m)
  PROVE  /\ Queue(w, ex, dn) /\ InOrder(w, o) /\ Client(w, o, s)
         /\ w.st # "initial"
  <1>1. PICK p \in 1..PendingOffset(m) : FirstAt(m, p) /\ m.elems[p].id = o[1]
    BY OrderFirst
  <1>2. Queue(w, ex, dn) /\ InOrder(w, o)
    BY <1>1, QueueStart, OrderStart
  <1>3. m \in Mpxs /\ m.numPending <= Len(m.elems)
    BY DEF Queue, Shape
  <1> DEFINE k == p - 1
  <1>5. k \in Nat /\ p = k + 1
    BY <1>3, OffsetIs, SMTT(20)
  <1> HIDE DEF k
  <1>6. IF m.elems[p].st = "abandoned_in_flight"
        THEN w.st = "ignoring" /\ w.rfq = m.elems[p].rfq
        ELSE w.st = "reading" /\ w.fsm = Fresh
    <2>1. Starts(m, w, k)
      BY <1>1, <1>3, <1>5, StartIs
    <2>. QED
      BY <2>1, <1>5 DEF Starts
  <1>7. InStep(RequestOf[o[1]], Fresh, s)
    BY DEF Client
  <1>8. CASE m.elems[p].st = "abandoned_in_flight"
    <2>1. p \in 1..Len(m.elems)
      BY <1>1 DEF FirstAt
    <2>2. m.elems[p].rfq = GetExpectedRfqs(RequestOf[o[1]], 1) /\ WellFormed(RequestOf[o[1]])
      BY <2>1, <1>1, <1>8 DEF Queue, Owned
    <2>4. Fresh \in Fsms /\ Fresh.cur = 1
      BY SMTT(20) DEF Fresh, NewFsm, Fsms, FsmStates
    <2>5. RemainingRfqs(RequestOf[o[1]], Fresh) = OwedRfqs(RequestOf[o[1]], s)
      BY <2>2, <2>4, <1>7, RequestType, OwesTheSame, <2>1, <1>1, <1>3, OffsetIs DEF Elems
    <2>. QED
      BY <1>2, <2>2, <2>4, <2>5, <1>6, <1>8 DEF Client, RemainingRfqs
  <1>9. CASE m.elems[p].st # "abandoned_in_flight"
    BY <1>6, <1>9, <1>2, <1>7 DEF Client
  <1>. QED
    BY <1>8, <1>9

Popped(m, w) ==
  /\ w \in Mpxs /\ w.elems = Tail(m.elems) /\ w.numPending = m.numPending
  /\ w.st = "initial"

\* The client goes from m to w with the requests o still in flight.
Goes(m, w, ex, dn, o, s) ==
  Queue(w, ex, dn) /\ InOrder(w, o) /\ Client(w, o, s) /\ w.elems = m.elems

LEMMA OrderFields ==
  ASSUME NEW m, NEW o, InOrder(m, o), NEW w, w.elems = m.elems, w.numPending = m.numPending
  PROVE  InOrder(w, o)
  BY DEF InOrder, PendingOffset

LEMMA InStepGoesOn ==
  ASSUME NEW r \in Seq(MessageTypes), NEW f \in Fsms, NEW s \in Backends, InStep(r, f, s)
  PROVE  ~ Finished(r, s)
  BY SeqLen, SMTT(20) DEF Follows, Skips, InStep, Finished

\* A message of a response that somebody waits for.
\* The first response goes on, or ends with out.ec.
KeepsUp(m, ex, dn, o, r, s, out) ==
  \/ /\ out.done = {} /\ out.ec = "ok" /\ ~ Finished(r, s)
     /\ Goes(m, out.mpx, ex, dn, o, s)
  \/ /\ out.done = {<<o[1], out.ec>>} /\ Popped(m, out.mpx)
     /\ out.ec = "ok" => Finished(r, s)

LEMMA FollowKeeps ==
  ASSUME Facts, NEW m, NEW ex, NEW dn, Queue(m, ex, dn), m.st = "reading",
         NEW o, Sound(o), InOrder(m, o), NEW s \in Backends, Client(m, o, s),
         NEW r, r = RequestOf[o[1]], NEW reply \in Replies(r, s),
         NEW out, out = Follow(m, r, reply[1])
  PROVE  KeepsUp(m, ex, dn, o, r, reply[2], out)
  <1> DEFINE res == Resume(r, m.fsm, reply[1])
  <1>1. m \in Mpxs /\ m.fsm \in Fsms /\ m.elems # <<>>
    BY DEF Queue, Shape, Front, Mpxs
  <1>2. o # <<>> /\ o[1] = m.elems[1].id
    BY FirstInFlight
  <1>3. r \in Seq(MessageTypes) /\ WellFormed(r)
    BY <1>2, NotEmpty, AnsweredIs DEF Sound
  <1>5. Kept(r, res, reply[2])
    BY <1>1, <1>3, ReplyFollowed, <1>2 DEF Client
  <1>6. res.fsm \in Fsms /\ reply[2] \in Backends
    BY <1>5 DEF Kept
  <1> HIDE DEF res
  <1> DEFINE f == res.fsm
             w == [m EXCEPT !.fsm = f]
  <1>8. /\ w \in Mpxs /\ w.elems = m.elems /\ w.numPending = m.numPending
        /\ w.st = m.st /\ w.fsm = f /\ w.rfq = m.rfq
    BY <1>1, <1>6, FsmChanges
  <1>9. InStep(r, f, reply[2]) => Queue(w, ex, dn)
    BY <1>2, <1>6, QueueFollow
  <1>10. InOrder(w, o)
    BY <1>8, OrderFields
  <1>11. InStep(r, f, reply[2]) => Client(w, o, reply[2])
    BY <1>8 DEF Client
  <1>12. Popped(m, Pop(w))
    BY <1>1, <1>8, PopIs DEF Popped
  <1>13. IF res.type = "done"
         THEN out.mpx = Pop(w) /\ out.ec = res.ec /\ out.done = {<<o[1], res.ec>>}
         ELSE out.mpx = w /\ out.ec = "ok" /\ out.done = {}
    BY <1>2 DEF Follow, res
  <1> HIDE DEF w
  <1>14. CASE res.type = "read" /\ res.ec = "ok" /\ InStep(r, f, reply[2])
    BY <1>14, <1>3, <1>6, <1>8, <1>9, <1>10, <1>11, <1>13, InStepGoesOn DEF Goes, KeepsUp
  <1>15. CASE res.type = "done" /\ (res.ec = "ok" => Finished(r, reply[2]))
    BY <1>12, <1>13, <1>15 DEF KeepsUp
  <1>. QED
    BY <1>5, <1>14, <1>15 DEF Kept

\* A message of a response that nobody waits for any more.
LEMMA IgnoreKeeps ==
  ASSUME Facts, NEW m, NEW ex, NEW dn, Queue(m, ex, dn), m.st = "ignoring",
         NEW o, Sound(o), InOrder(m, o), NEW s \in Backends, Client(m, o, s),
         Fits(o, 0, s), NEW r, r = RequestOf[o[1]], NEW reply \in Replies(r, s),
         NEW w, w = Ignore(m, reply[1])
  PROVE  IF Finished(r, reply[2]) THEN Popped(m, w) ELSE Goes(m, w, ex, dn, o, reply[2])
  <1> DEFINE k == reply[1]
             t == reply[2]
  <1>1. m \in Mpxs /\ m.rfq \in Nat /\ m.rfq > 0 /\ m.elems # <<>>
    BY DEF Queue, Shape, Front, Mpxs
  <1>2. o # <<>> /\ o[1] = m.elems[1].id
    BY FirstInFlight
  <1>3. 0 \in Nat /\ 0 < Len(o) /\ Answered(o, 0) = r
    BY <1>2, NotEmpty DEF Sound
  <1>4. r \in Seq(MessageTypes) /\ WellFormed(r)
    BY <1>3, AnsweredIs
  <1>5. PICK f \in Fsms : InStep(r, f, s)
    BY <1>3 DEF Fits
  <1>6. m.rfq = OwedRfqs(r, s)
    BY <1>2 DEF Client
  <1>7. OwedRfqs(r, s) = OwedRfqs(r, t) + (IF k = "ready_for_query" THEN 1 ELSE 0)
    BY <1>4, <1>5, ReplyCounts
  <1>8. t \in Backends /\ (~ Finished(r, t) => \E h \in Fsms : InStep(r, h, t))
    BY <1>4, <1>5, ReplyLeads
  <1> HIDE DEF k, t
  <1>9. CASE Finished(r, t)
    <2>2. m.rfq = 1 /\ k = "ready_for_query"
      BY <1>1, <1>6, <1>7, <1>4, <1>8, <1>9, NothingOwed, SMTT(20)
    <2>4. Popped(m, Pop(m))
      BY <1>1, PopIs DEF Popped
    <2>. QED
      BY <1>9, <2>4, RfqChanges, <2>2 DEF t, Popped, Ignore, k
  <1>10. CASE ~ Finished(r, t)
    <2>1. PICK h \in Fsms : InStep(r, h, t)
      BY <1>8, <1>10
    <2> DEFINE n == OwedRfqs(r, t)
    <2>3. n \in Nat /\ n > 0
      BY <2>1, <1>4, <1>8, OwesTheSame, RemainingType
    <2> HIDE DEF n
    <2>4. CASE k = "ready_for_query"
      <3>3. w = [m EXCEPT !.rfq = n]
        BY <2>4, <2>3, <1>6, <1>7, SMTT(20) DEF Ignore, k, n
      <3>5. w.elems = m.elems /\ w.numPending = m.numPending /\ w.st = m.st /\ w.rfq = n
        BY <3>3, <2>3, <1>1, RfqChanges, SMTT(20)
      <3>6. InOrder(w, o) /\ Client(w, o, t)
        BY <3>5, OrderFields DEF Client, n
      <3>. QED
        BY <3>5, <3>6, <1>10, <3>3, <2>3, QueueIgnore, SMTT(20) DEF Goes, t
    <2>5. CASE k # "ready_for_query"
      BY <1>6, <1>7, <1>10, <2>5, <2>3, SMTT(20) DEF Ignore, k, n, Client, Goes, t
    <2>. QED
      BY <2>4, <2>5
  <1>. QED
    BY <1>9, <1>10

\* The response ends, and the next one begins.
LEMMA ClientPop ==
  ASSUME Facts, NEW o, Sound(o), o # <<>>, NEW w, w.st = "initial", NEW t, Arrives(o, 1, NewBackend, t)
  PROVE  Client(w, Tail(o), t)
  BY SeqLen, SeqTail, SeqEmpty, AnsweredIs, FreshInStep, SMTT(20) DEF Sound, Client, Answered, Arrives,
     After

-----------------------------------------------------------------------------
(* The queue mirrors the connection *)

\* The pending elements of w are pending in m.
Within(w, m) ==
  \A i \in 1..Len(w.elems) : w.elems[i].st = "pending" =>
    \E j \in 1..Len(m.elems) : m.elems[j].st = "pending" /\ m.elems[j].id = w.elems[i].id

\* The requests bl, which the backend has, and bf, which are still to leave, come
\* after the first k of the requests o.
Ahead(o, k, bl, bf) ==
  /\ bl \in Seq(Execs) /\ bf \in Seq(Execs) /\ Len(o) = k + Len(bl) + Len(bf)
  /\ \A j \in 1..Len(bl) : o[k + j] = bl[j]
  /\ \A j \in 1..Len(bf) : o[k + Len(bl) + j] = bf[j]

\* The requests in flight are those that the messages tr, and what comes after
\* them, answer.
Mirrored(m, tr, o, c, B, sv) == InOrder(m, o) /\ Stream(tr, o, c, B, sv) /\ Client(m, o, B[1])

Ends(tr, o, c, B, sr, bl, bf) == B[Len(tr) + 1] = sr /\ Ahead(o, c[Len(tr) + 1], bl, bf)

LEMMA StreamTypes ==
  ASSUME NEW M, NEW tr \in Seq(M), NEW o, NEW c, NEW B, NEW sv, Stream(tr, o, c, B, sv)
  PROVE  /\ Len(tr) \in Nat /\ Len(o) \in Nat /\ o \in Seq(Execs) /\ Sound(o)
         /\ \A i \in 1..(Len(tr) + 1) :
              c[i] \in 0..Len(o) /\ c[i] \in Nat /\ B[i] \in Backends /\ Fits(o, c[i], B[i])
         /\ c[1] = 0 /\ B[1] \in Backends /\ Fits(o, 0, B[1])
  <1>3. \A i \in 1..(Len(tr) + 1) : c[i] \in 0..Len(o) /\ B[i] \in Backends
    BY DEF Stream
  <1>. QED
    BY <1>3, SeqLen, SMTT(20) DEF Stream, Sound

\* What the first message of the stream is.
LEMMA FirstMessage ==
  ASSUME Facts, NEW M, NEW tr \in Seq(M), NEW o, NEW c, NEW B, NEW sv, Stream(tr, o, c, B, sv),
         tr # <<>>, NEW msg, msg = Head(tr)
  PROVE  /\ msg.kind \in AsyncKinds => c[2] = 0 /\ Arrives(o, 0, B[1], B[2])
         /\ msg.kind \notin AsyncKinds =>
              /\ o # <<>>
              /\ \E reply \in Replies(RequestOf[o[1]], B[1]) :
                   /\ reply[1] = msg.kind
                   /\ IF Finished(RequestOf[o[1]], reply[2])
                      THEN c[2] = 1 /\ o[1] \in sv /\ Arrives(o, 1, NewBackend, B[2])
                      ELSE c[2] = 0 /\ Arrives(o, 0, reply[2], B[2])
  <1>1. msg = tr[1] /\ Len(tr) \in Nat /\ Len(tr) >= 1
    BY SeqLen, SeqEmpty, SeqTail, SMTT(20)
  <1>2. /\ o \in Seq(Execs) /\ Sound(o) /\ c[1] = 0 /\ B[1] \in Backends /\ Fits(o, 0, B[1])
    BY StreamTypes
  <1>3. 1 \in 1..Len(tr) /\ 1 + 1 = 2 /\ 0 + 1 = 1
    BY <1>1, SMTT(20)
  <1>5. Answers(o, sv, msg, 0, B[1], c[2], B[2])
    BY <1>1, <1>2, <1>3 DEF Stream
  <1>6. Len(o) \in Nat /\ (o # <<>> <=> 0 < Len(o)) /\ Answered(o, 0) = RequestOf[o[1]]
    BY <1>2, NotEmpty
  <1>7. CASE msg.owner = None /\ msg.kind \in AsyncKinds /\ c[2] = 0 /\ Arrives(o, 0, B[1], B[2])
    BY <1>7
  <1>8. CASE /\ 0 < Len(o)
             /\ \E reply \in Replies(Answered(o, 0), B[1]) :
                  /\ reply[1] = msg.kind
                  /\ IF Finished(Answered(o, 0), reply[2])
                     THEN c[2] = 0 + 1 /\ o[0 + 1] \in sv /\ Arrives(o, 0 + 1, NewBackend, B[2])
                     ELSE c[2] = 0 /\ Arrives(o, 0, reply[2], B[2])
    BY <1>3, <1>6, <1>8, <1>2, AnsweredIs, ReplyLeads DEF Fits
  <1>. QED
    BY <1>5, <1>7, <1>8 DEF Answers

\* It is of kind k and part of the answer to the first request.
FirstReplies(k, o, c, B, sv) ==
  /\ o # <<>>
  /\ \E reply \in Replies(RequestOf[o[1]], B[1]) :
       /\ reply[1] = k
       /\ IF Finished(RequestOf[o[1]], reply[2])
          THEN c[2] = 1 /\ o[1] \in sv /\ Arrives(o, 1, NewBackend, B[2])
          ELSE c[2] = 0 /\ Arrives(o, 0, reply[2], B[2])

LEMMA FirstReply ==
  ASSUME Facts, NEW M, NEW tr \in Seq(M), NEW o, NEW c, NEW B, NEW sv, Stream(tr, o, c, B, sv),
         tr # <<>>, Head(tr).kind \notin AsyncKinds
  PROVE  FirstReplies(Head(tr).kind, o, c, B, sv)
  BY FirstMessage, SMTT(20) DEF FirstReplies

\* The first message has been read.
LEMMA AheadSkip ==
  ASSUME NEW M, NEW tr \in Seq(M), NEW o, NEW c, NEW B, NEW sv, Stream(tr, o, c, B, sv),
         tr # <<>>, c[2] = 0
  PROVE  \E cc, BB : /\ Stream(Tail(tr), o, cc, BB, sv) /\ BB[1] = B[2]
                     /\ \A sr, bl, bf : Ends(tr, o, c, B, sr, bl, bf) =>
                                          Ends(Tail(tr), o, cc, BB, sr, bl, bf)
  <1> DEFINE T == Len(tr)
             cc == [i \in 1..T |-> c[i + 1]]
             BB == [i \in 1..T |-> B[i + 1]]
  <1>1. Stream(Tail(tr), o, cc, BB, sv)
    BY StreamSkip
  <1> HIDE DEF cc, BB
  <1>. QED
    BY <1>1, SeqLen, SeqEmpty, SeqTail, SMTT(20) DEF Ends, cc, BB

LEMMA AheadFinish ==
  ASSUME NEW M, NEW tr \in Seq(M), NEW o, NEW c, NEW B, NEW sv, Stream(tr, o, c, B, sv),
         tr # <<>>, c[2] = 1, o # <<>>
  PROVE  \E cc, BB : /\ Stream(Tail(tr), Tail(o), cc, BB, sv) /\ BB[1] = B[2]
                     /\ \A sr, bl, bf : Ends(tr, o, c, B, sr, bl, bf) =>
                                          Ends(Tail(tr), Tail(o), cc, BB, sr, bl, bf)
  <1> DEFINE T == Len(tr)
             n == Len(o)
             cc == [i \in 1..T |-> c[i + 1] - 1]
             BB == [i \in 1..T |-> B[i + 1]]
  <1>1. Stream(Tail(tr), Tail(o), cc, BB, sv)
    BY StreamFinish
  <1>2. T \in Nat /\ T >= 1 /\ Len(Tail(tr)) = T - 1
    BY SeqLen, SeqEmpty, SeqTail, SMTT(20)
  <1>3. Len(Tail(tr)) + 1 = T /\ 1 \in 1..T /\ T \in 1..T /\ 1 + 1 = 2
    BY <1>2, SMTT(20)
  <1>4. BB[1] = B[2] /\ cc[T] = c[T + 1] - 1 /\ BB[T] = B[T + 1]
    BY <1>3
  <1> HIDE DEF cc, BB
  <1>7. \A k \in 1..n : \A bl, bf : Ahead(o, k, bl, bf) => Ahead(Tail(o), k - 1, bl, bf)
    BY SeqLen, StreamTypes, SeqEmpty, SeqTail, SMTT(20) DEF Ahead
  <1>8. \A sr, bl, bf : Ends(tr, o, c, B, sr, bl, bf) =>
                          Ends(Tail(tr), Tail(o), cc, BB, sr, bl, bf)
    BY <1>3, <1>4, <1>7, <1>2, SMTT(20) DEF Ends, Stream
  <1>. QED
    BY <1>1, <1>4, <1>8

\* No call has two requests in flight.
LEMMA OrderDistinct ==
  ASSUME NEW m, Shape(m), NEW o, InOrder(m, o)
  PROVE  \A i, j \in 1..Len(o) : o[i] = o[j] => i = j
  <1>3. PICK h : Places(m.elems, 1, PendingOffset(m), InFlightStatuses, o, h)
    BY DEF InOrder, Lists
  <1>4. \A i \in 1..Len(o) : h[i] \in 1..Len(m.elems) /\ h[i] \in Int
    BY <1>3, OffsetIs, SMTT(20) DEF Places, Shape
  <1>5. SUFFICES ASSUME NEW i \in 1..Len(o), NEW j \in 1..Len(o), o[i] = o[j], i < j PROVE FALSE
    BY <1>5, SeqLen, SMTT(20) DEF InOrder, Lists
  <1>7. m.elems[h[i]].id = m.elems[h[j]].id
    BY <1>3, <1>5 DEF Places
  <1>8. h[i] = h[j]
    BY <1>4, <1>5, <1>7, ZenonT(30) DEF Shape
  <1>9. h[i] < h[j]
    BY <1>3, <1>5, ZenonT(30) DEF Places
  <1>10. h[i] \in Int /\ h[j] \in Int
    BY <1>4, <1>5, ZenonT(30)
  <1>. QED
    BY <1>8, <1>9, <1>10, SMTT(20)

\* The response that has ended leaves no message behind.
LEMMA NoneLeft ==
  ASSUME NEW M, NEW tr \in Seq(M), NEW o, NEW c, NEW B, NEW sv, Stream(tr, o, c, B, sv),
         tr # <<>>, c[2] = 1, o # <<>>, \A i, j \in 1..Len(o) : o[i] = o[j] => i = j
  PROVE  \A i \in 1..Len(Tail(tr)) : Tail(tr)[i].owner # o[1]
  <1> DEFINE T == Len(tr)
  <1>1. T \in Nat /\ T >= 1 /\ Len(Tail(tr)) = T - 1 /\ \A i \in 1..(T - 1) : Tail(tr)[i] = tr[i + 1]
    BY SeqLen, SeqEmpty, SeqTail, SMTT(20)
  <1>2. o \in Seq(Execs) /\ Len(o) \in Nat /\ Len(o) # 0
    BY StreamTypes, SeqEmpty
  <1>3. SUFFICES ASSUME NEW i \in 1..(T - 1) PROVE tr[i + 1].owner # o[1]
    BY <1>1
  <1>4. i + 1 \in 1..T /\ i + 1 \in 1..(T + 1) /\ 2 \in 1..(T + 1) /\ 2 <= i + 1
    BY <1>1, SMTT(20)
  <1> DEFINE k == c[i + 1]
  <1>5. c[2] <= k /\ k \in 0..Len(o)
    BY <1>4 DEF Stream
  <1> HIDE DEF k
  <1>8. o[1] \in Execs /\ 1 \in 1..Len(o)
    BY <1>2, SeqElem, SMTT(20)
  <1>9. CASE k < Len(o) /\ tr[i + 1].owner = o[k + 1]
    BY <1>5, <1>9, <1>2, <1>8, SMTT(20)
  <1>. QED
    BY <1>8, <1>9, NoneIsNoCall, <1>4, SMTT(20) DEF Answers, Stream, k

LEMMA StartWithin ==
  ASSUME NEW m, NEW ex, NEW dn, Queue(m, ex, dn), m.st = "initial",
         NEW o, o # <<>>, InOrder(m, o)
  PROVE  Within(StartResponse(m), m)
  <1> DEFINE w == StartResponse(m)
  <1>1. PICK p \in 1..PendingOffset(m) : FirstAt(m, p)
    BY OrderFirst
  <1>2. m \in Mpxs /\ m.numPending <= Len(m.elems)
    BY DEF Queue, Shape
  <1>3. PendingOffset(m) \in 0..Len(m.elems) /\ Len(m.elems) \in Nat
    BY <1>2, OffsetIs
  <1> DEFINE k == p - 1
  <1>4. k \in Nat /\ p = k + 1 /\ k <= Len(m.elems)
    BY <1>3, SMTT(20)
  <1> HIDE DEF k, w
  <1>5. Len(w.elems) = Len(m.elems) - k /\ \A i \in 1..Len(w.elems) : w.elems[i] = m.elems[k + i]
    <2>1. Starts(m, w, k)
      BY <1>1, <1>2, <1>4, StartIs DEF w
    <2>. QED
      BY <2>1 DEF Starts
  <1>6. ASSUME NEW i \in 1..Len(w.elems) PROVE k + i \in 1..Len(m.elems)
    BY <1>3, <1>4, <1>5, SMTT(20)
  <1>7. Within(w, m)
    BY <1>5, <1>6 DEF Within
  <1>. QED
    BY <1>7 DEF w

LEMMA WithinTrans ==
  ASSUME NEW x, NEW w, NEW m, Within(x, w), Within(w, m)
  PROVE  Within(x, m)
  BY DEF Within

LEMMA PoppedWithin ==
  ASSUME NEW m \in Mpxs, m.elems # <<>>, NEW w, Popped(m, w)
  PROVE  Within(w, m)
  BY SeqTail, SeqLen, SMTT(20) DEF Mpxs, Popped, Within

\* A response begins, if none has.
LEMMA StartedIs ==
  ASSUME Facts, NEW m, NEW ex, NEW dn, Queue(m, ex, dn),
         NEW o, Sound(o), o # <<>>, InOrder(m, o), NEW s \in Backends, Client(m, o, s),
         NEW w, w = IF m.st = "initial" THEN StartResponse(m) ELSE m
  PROVE  /\ Queue(w, ex, dn) /\ InOrder(w, o) /\ Client(w, o, s)
         /\ w.st \in {"reading", "ignoring"} /\ Within(w, m)
  <1>1. CASE m.st = "initial"
    <2>1. /\ w = StartResponse(m) /\ Queue(w, ex, dn) /\ InOrder(w, o) /\ Client(w, o, s)
          /\ w.st # "initial"
      BY <1>1, ClientStart
    <2>. QED
      BY <2>1, <1>1, StartWithin DEF Queue, Shape, Mpxs
  <1>2. CASE m.st # "initial"
    BY <1>2 DEF Queue, Shape, Mpxs, Within
  <1>. QED
    BY <1>1, <1>2

\* The reader goes on with w after the first of the messages tr.
Delivered(w, tr, o, c, B, sv) ==
  \E oo, cc, BB :
    /\ Mirrored(w, Tail(tr), oo, cc, BB, sv)
    /\ \A sr, bl, bf : Ends(tr, o, c, B, sr, bl, bf) => Ends(Tail(tr), oo, cc, BB, sr, bl, bf)

LEMMA DeliverAsync ==
  ASSUME Facts, NEW M, NEW tr \in Seq(M), tr # <<>>, NEW m \in Mpxs, NEW o, NEW c, NEW B, NEW sv,
         Mirrored(m, tr, o, c, B, sv), Head(tr).kind \in AsyncKinds
  PROVE  Delivered(m, tr, o, c, B, sv)
  <1>1. Stream(tr, o, c, B, sv) /\ InOrder(m, o) /\ Client(m, o, B[1])
    BY DEF Mirrored
  <1>2. c[2] = 0 /\ Arrives(o, 0, B[1], B[2])
    BY <1>1, FirstMessage, ZenonT(30)
  <1>3. Client(m, o, B[2])
    BY <1>1, <1>2, StreamTypes, ClientArrives, ZenonT(30)
  <1>4. PICK cc, BB : /\ Stream(Tail(tr), o, cc, BB, sv) /\ BB[1] = B[2]
                      /\ \A sr, bl, bf : Ends(tr, o, c, B, sr, bl, bf) =>
                                           Ends(Tail(tr), o, cc, BB, sr, bl, bf)
    BY <1>1, <1>2, AheadSkip, ZenonT(30)
  <1>5. Mirrored(m, Tail(tr), o, cc, BB, sv)
    BY <1>1, <1>3, <1>4, ZenonT(30) DEF Mirrored
  <1>. QED
    BY <1>4, <1>5, ZenonT(30) DEF Delivered

LEMMA DeliverPopped ==
  ASSUME Facts, NEW M, NEW tr \in Seq(M), tr # <<>>, NEW m, NEW ex, NEW dn, Queue(m, ex, dn),
         m.st # "initial", NEW o, NEW c, NEW B, NEW sv, Mirrored(m, tr, o, c, B, sv),
         NEW w, Popped(m, w), c[2] = 1, Arrives(o, 1, NewBackend, B[2])
  PROVE  Delivered(w, tr, o, c, B, sv)
  <1>1. Stream(tr, o, c, B, sv) /\ InOrder(m, o) /\ w.st = "initial"
    BY DEF Mirrored, Popped
  <1>2. o # <<>> /\ InOrder(w, Tail(o))
    BY <1>1, OrderPop DEF Popped
  <1>3. Client(w, Tail(o), B[2])
    BY <1>1, <1>2, StreamTypes, ClientPop
  <1>4. PICK cc, BB : /\ Stream(Tail(tr), Tail(o), cc, BB, sv) /\ BB[1] = B[2]
                      /\ \A sr, bl, bf : Ends(tr, o, c, B, sr, bl, bf) =>
                                           Ends(Tail(tr), Tail(o), cc, BB, sr, bl, bf)
    BY <1>1, <1>2, AheadFinish
  <1>5. Mirrored(w, Tail(tr), Tail(o), cc, BB, sv)
    BY <1>2, <1>3, <1>4 DEF Mirrored
  <1>. QED
    BY <1>4, <1>5 DEF Delivered

LEMMA DeliverGoes ==
  ASSUME NEW M, NEW tr \in Seq(M), tr # <<>>, NEW m, NEW ex, NEW dn,
         NEW o, NEW c, NEW B, NEW sv, Stream(tr, o, c, B, sv),
         NEW w, NEW t, Goes(m, w, ex, dn, o, t), c[2] = 0, Arrives(o, 0, t, B[2])
  PROVE  Delivered(w, tr, o, c, B, sv) /\ Queue(w, ex, dn) /\ Within(w, m)
  BY StreamTypes, ClientArrives, AheadSkip DEF Goes, Within, Queue, Shape, Mirrored, Delivered

\* A response that nobody waits for ends.
LEMMA QueueIgnored ==
  ASSUME NEW m, NEW ex, NEW dn, Queue(m, ex, dn), m.st = "ignoring", NEW w, Popped(m, w)
  PROVE  Queue(w, ex, dn)
  <1>5. \A e \in Execs : Waits(ex, dn, e) <=> Waits(ex, dn, e) /\ e # m.elems[1].id
    BY SeqEmpty, SeqLen, SMTT(20) DEF Queue, Owned, Mpxs, Shape, Front
  <1>. QED
    BY <1>5, QueuePop DEF Popped

\* A message that belongs to a response.
LEMMA DeliverReply ==
  ASSUME Facts, NEW M, NEW tr \in Seq(M), tr # <<>>, NEW m, NEW ex, NEW dn, Queue(m, ex, dn),
         NEW o, NEW c, NEW B, NEW sv, Mirrored(m, tr, o, c, B, sv),
         NEW k, k = Head(tr).kind, k \notin AsyncKinds,
         NEW out, out = OnMessage(m, RequestOf, k)
  PROVE  \/ /\ out.done = {} /\ out.ec = "ok" /\ Queue(out.mpx, ex, dn) /\ Within(out.mpx, m)
            /\ Delivered(out.mpx, tr, o, c, B, sv)
         \/ /\ out.done = {<<o[1], out.ec>>} /\ Within(out.mpx, m) /\ o[1] \in Execs
            /\ \E x : /\ Queue(x, ex, dn) /\ x.st # "initial" /\ x.elems[1].id = o[1]
                      /\ Popped(x, out.mpx)
            /\ out.ec = "ok" => /\ o[1] \in sv /\ Delivered(out.mpx, tr, o, c, B, sv)
                                /\ \A i \in 1..Len(Tail(tr)) : Tail(tr)[i].owner # o[1]
  <1> DEFINE r == RequestOf[o[1]]
             x == IF m.st = "initial" THEN StartResponse(m) ELSE m
  <1>1. Stream(tr, o, c, B, sv) /\ InOrder(m, o) /\ Client(m, o, B[1])
    BY DEF Mirrored
  <1>2. Sound(o) /\ o \in Seq(Execs) /\ B[1] \in Backends /\ Fits(o, 0, B[1])
    BY <1>1, StreamTypes
  <1>3. /\ o # <<>>
        /\ \E reply \in Replies(r, B[1]) :
             /\ reply[1] = k
             /\ IF Finished(r, reply[2])
                THEN c[2] = 1 /\ o[1] \in sv /\ Arrives(o, 1, NewBackend, B[2])
                ELSE c[2] = 0 /\ Arrives(o, 0, reply[2], B[2])
    <2>1. Head(tr).kind \notin AsyncKinds
      BY ZenonT(30)
    <2>2. FirstReplies(k, o, c, B, sv)
      BY <1>1, <2>1, FirstReply, ZenonT(30)
    <2>. QED
      BY <2>2, ZenonT(30) DEF FirstReplies
  <1>4. PICK reply \in Replies(r, B[1]) :
          /\ reply[1] = k
          /\ IF Finished(r, reply[2])
             THEN c[2] = 1 /\ o[1] \in sv /\ Arrives(o, 1, NewBackend, B[2])
             ELSE c[2] = 0 /\ Arrives(o, 0, reply[2], B[2])
    BY <1>3
  <1>5. /\ Queue(x, ex, dn) /\ InOrder(x, o) /\ Client(x, o, B[1])
        /\ x.st \in {"reading", "ignoring"} /\ Within(x, m)
    BY <1>1, <1>2, <1>3, StartedIs
  <1>6. out = CASE x.st = "reading" -> Follow(x, RequestOf[x.elems[1].id], k)
                [] x.st = "ignoring" -> [mpx |-> Ignore(x, k), ec |-> "ok", done |-> {}]
    BY <1>5 DEF OnMessage
  <1> HIDE DEF x
  <1>7. x.elems[1].id = o[1] /\ x.st # "initial" /\ x \in Mpxs /\ x.elems # <<>>
    BY <1>5, FirstInFlight DEF Queue, Shape, Front
  <1>8. Mirrored(x, tr, o, c, B, sv)
    BY <1>1, <1>5 DEF Mirrored
  <1>9. o[1] \in Execs
    BY <1>2, <1>3, SeqLen, SeqEmpty, SeqElem, SMTT(20)
  <1> HIDE DEF r
  <1>10. CASE x.st = "reading"
    <2>1. out = Follow(x, r, reply[1])
      BY <1>4, <1>6, <1>7, <1>10 DEF r
    <2>2. \/ /\ out.done = {} /\ out.ec = "ok" /\ ~ Finished(r, reply[2])
             /\ Goes(x, out.mpx, ex, dn, o, reply[2])
          \/ /\ out.done = {<<o[1], out.ec>>} /\ Popped(x, out.mpx)
             /\ out.ec = "ok" => Finished(r, reply[2])
      <3>1. KeepsUp(x, ex, dn, o, r, reply[2], out)
        BY <2>1, <1>2, <1>5, <1>10, FollowKeeps DEF r
      <3>. QED
        BY <3>1 DEF KeepsUp
    <2>3. CASE /\ out.done = {} /\ out.ec = "ok" /\ ~ Finished(r, reply[2])
               /\ Goes(x, out.mpx, ex, dn, o, reply[2])
      <3>1. Delivered(out.mpx, tr, o, c, B, sv) /\ Queue(out.mpx, ex, dn) /\ Within(out.mpx, x)
        BY <2>3, <1>1, <1>4, DeliverGoes
      <3>. QED
        BY <2>3, <3>1, <1>5, WithinTrans
    <2>4. CASE /\ out.done = {<<o[1], out.ec>>} /\ Popped(x, out.mpx)
               /\ out.ec = "ok" => Finished(r, reply[2])
      <3>3. ASSUME out.ec = "ok"
            PROVE  /\ o[1] \in sv /\ Delivered(out.mpx, tr, o, c, B, sv)
                   /\ \A i \in 1..Len(Tail(tr)) : Tail(tr)[i].owner # o[1]
        <4>1. c[2] = 1 /\ o[1] \in sv /\ Arrives(o, 1, NewBackend, B[2])
          BY <3>3, <2>4, <1>4
        <4>4. \A i \in 1..Len(Tail(tr)) : Tail(tr)[i].owner # o[1]
          <5>1. \A i, j \in 1..Len(o) : o[i] = o[j] => i = j
            BY <1>5, OrderDistinct DEF Queue
          <5>. QED
            BY <5>1, <4>1, <1>1, <1>3, NoneLeft
        <4>. QED
          BY <4>1, <4>4, <2>4, <1>5, <1>7, <1>8, DeliverPopped
      <3>. QED
        BY <2>4, <3>3, <1>9, <1>5, WithinTrans, <1>7, PoppedWithin
    <2>. QED
      BY <2>2, <2>3, <2>4
  <1>11. CASE x.st = "ignoring"
    <2> DEFINE w == Ignore(x, reply[1])
    <2>1. out.mpx = w /\ out.ec = "ok" /\ out.done = {}
      BY <1>4, <1>6, <1>11, SMTT(20)
    <2>2. IF Finished(r, reply[2]) THEN Popped(x, w) ELSE Goes(x, w, ex, dn, o, reply[2])
      BY <1>2, <1>5, <1>11, IgnoreKeeps DEF r
    <2> HIDE DEF w
    <2>3. CASE Finished(r, reply[2])
      <3>1. Popped(x, w) /\ c[2] = 1 /\ Arrives(o, 1, NewBackend, B[2])
        BY <2>2, <2>3, <1>4
      <3>4. Delivered(w, tr, o, c, B, sv)
        BY <3>1, <1>5, <1>7, <1>8, DeliverPopped
      <3>. QED
        BY <2>1, <3>4, <3>1, <1>5, <1>11, QueueIgnored, <1>7, PoppedWithin, WithinTrans
    <2>4. CASE ~ Finished(r, reply[2])
      <3>1. Delivered(w, tr, o, c, B, sv) /\ Queue(w, ex, dn) /\ Within(w, x)
        BY <2>2, <2>4, <1>1, <1>4, DeliverGoes
      <3>. QED
        BY <2>1, <3>1, <1>5, WithinTrans
    <2>. QED
      BY <2>3, <2>4
  <1>. QED
    BY <1>5, <1>10, <1>11

\* A connection begins.
LEMMA MirrorBegins ==
  ASSUME NEW m, PendingOffset(m) = 0, NEW sv
  PROVE  \E o, c, B : Mirrored(m, <<>>, o, c, B, sv) /\ Ends(<<>>, o, c, B, NewBackend, <<>>, <<>>)
  <1> DEFINE o == <<>>
             c == [i \in 1..1 |-> 0]
             B == [i \in 1..1 |-> NewBackend]
  <1>1. /\ o \in Seq(Execs) /\ Len(o) = 0
    BY SeqEmpty
  <1>4. /\ c \in [1..(0 + 1) -> 0..Len(o)] /\ B \in [1..(0 + 1) -> Backends]
        /\ c[1] = 0 /\ B[1] = NewBackend /\ \A i \in 1..(0 + 1) : i = 1
    BY <1>1, SMTT(20) DEF NewBackend, Backends, BackendPhases
  <1> HIDE DEF c, B
  <1>7. Len(<<>>) = 0
    OBVIOUS
  <1>8. Stream(<<>>, o, c, B, sv)
    BY <1>4, <1>7, <1>1, SMTT(20) DEF Stream, Sound, Fits
  <1>10. Ends(<<>>, o, c, B, NewBackend, <<>>, <<>>)
    BY <1>4, <1>7, <1>1, SMTT(20) DEF Ends, Ahead
  <1>. QED
    BY <1>8, <1>10, OrderEmpty DEF Mirrored, Client, B

LEMMA MirrorAdd ==
  ASSUME NEW m, NEW ex, NEW dn, Queue(m, ex, dn), NEW e \in Execs,
         NEW tr, NEW o, NEW c, NEW B, NEW sv, Mirrored(m, tr, o, c, B, sv)
  PROVE  Mirrored(Add(m, e), tr, o, c, B, sv)
  <1>2. m \in Mpxs
    BY DEF Queue, Shape
  <1>3. Add(m, e).st = m.st /\ Add(m, e).fsm = m.fsm /\ Add(m, e).rfq = m.rfq
    BY <1>2, AddIs
  <1>. QED
    BY OrderAdd, <1>3, ClientSame DEF Mirrored

LEMMA MirrorCancel ==
  ASSUME Facts, NEW m, NEW ex, NEW dn, Queue(m, ex, dn),
         NEW i \in 1..Len(m.elems), m.elems[i].st \in {"pending", "in_flight"},
         NEW M, NEW tr \in Seq(M), NEW o, NEW c, NEW B, NEW sv, Mirrored(m, tr, o, c, B, sv)
  PROVE  Mirrored(Cancel(m, i, RequestOf[m.elems[i].id]), tr, o, c, B, sv)
  <1>2. RequestOf[m.elems[i].id] \in Seq(MessageTypes)
    BY RequestType, OffsetIs DEF Queue, Shape, Elems
  <1>. QED
    BY <1>2, OrderCancel, ClientCancel, StreamTypes DEF Mirrored

\* What prepare_write() writes.
\* b holds pending requests of m, none of them twice.
PendingOnce(m, b) ==
  /\ Sound(b) /\ b \in Seq(Execs) /\ Len(b) \in Nat
  /\ \A j \in 1..Len(b) : \E i \in 1..Len(m.elems) :
       m.elems[i].id = b[j] /\ m.elems[i].st = "pending"
  /\ \A j, k \in 1..Len(b) : b[j] = b[k] => j = k

LEMMA BufferIs ==
  ASSUME Facts, NEW m, NEW ex, NEW dn, Queue(m, ex, dn), NEW b, b = PrepareWrite(m).buffer
  PROVE  PendingOnce(m, b)
  <1>1. m \in Mpxs /\ m.numPending <= Len(m.elems)
    BY DEF Queue, Shape
  <1>3. Lists(m.elems, PendingOffset(m) + 1, Len(m.elems), {"pending"}, b)
    BY <1>1, WriteBufferLists
  <1>4. PICK h : Places(m.elems, PendingOffset(m) + 1, Len(m.elems), {"pending"}, b, h)
    BY <1>3 DEF Lists
  <1>5. b \in Seq(Execs) /\ Len(b) \in Nat
    BY <1>3, SeqLen DEF Lists
  <1>6. \A j \in 1..Len(b) : /\ h[j] \in 1..Len(m.elems) /\ h[j] \in Int
                             /\ m.elems[h[j]].id = b[j] /\ m.elems[h[j]].st = "pending"
    BY <1>4, <1>1, OffsetIs, SMTT(20) DEF Places
  <1>7. \A j \in 1..Len(b) : WellFormed(RequestOf[b[j]])
    BY <1>6 DEF Queue, Owned
  <1>8. ASSUME NEW j \in 1..Len(b), NEW k \in 1..Len(b), b[j] = b[k] PROVE j = k
    <2>1. h[j] = h[k]
      BY <1>6, <1>8, SMTT(20) DEF Queue, Shape
    <2>. QED
      BY <2>1, <1>6, <1>4, <1>5, SMTT(20) DEF Places
  <1>. QED
    BY <1>5, <1>6, <1>7, <1>8 DEF Sound, PendingOnce

LEMMA MirrorWrite ==
  ASSUME Facts, NEW m, NEW ex, NEW dn, Queue(m, ex, dn),
         NEW M, NEW tr \in Seq(M), NEW o, NEW c, NEW B, NEW sv, Mirrored(m, tr, o, c, B, sv),
         NEW w, w = PrepareWrite(m).mpx, NEW b, b = PrepareWrite(m).buffer
  PROVE  /\ Mirrored(w, tr, o \o b, c, B, sv)
         /\ \A sr, bl : Ends(tr, o, c, B, sr, bl, <<>>) => Ends(tr, o \o b, c, B, sr, bl, b)
  <1>1. Stream(tr, o, c, B, sv) /\ InOrder(m, o) /\ Client(m, o, B[1])
    BY DEF Mirrored
  <1>2. Sound(b) /\ b \in Seq(Execs) /\ Len(b) \in Nat
    BY BufferIs DEF PendingOnce
  <1>6. w.st = m.st /\ w.fsm = m.fsm /\ w.rfq = m.rfq
    BY PrepareIs DEF Queue, Shape
  <1>7. /\ Sound(o) /\ o \in Seq(Execs) /\ Len(o) \in Nat /\ Fits(o, 0, B[1]) /\ Len(tr) \in Nat
        /\ c[Len(tr) + 1] \in Nat
    BY <1>1, SeqLen, StreamTypes, SMTT(20)
  <1>8. /\ Len(o \o b) = Len(o) + Len(b)
        /\ \A i \in 1..Len(o) : (o \o b)[i] = o[i]
        /\ \A i \in 1..Len(b) : (o \o b)[Len(o) + i] = b[i]
    BY <1>2, <1>7, SeqConcat, SMTT(20)
  <1>9. Client(w, o \o b, B[1])
    <2>1. CASE o # <<>>
      BY <1>7, <1>8, <1>1, <1>6, <2>1, SeqEmpty, SMTT(20) DEF Client
    <2>2. CASE o = <<>>
      <3>4. ASSUME b # <<>> PROVE InStep(RequestOf[b[1]], Fresh, NewBackend)
        BY <1>2, <3>4, SeqEmpty, SeqElem, RequestType, FreshInStep, SMTT(20) DEF Sound
      <3>. QED
        BY <2>2, <1>2, SeqConcat, <1>7, <3>4, <1>6, <1>1, FirstInFlight, SMTT(20) DEF Fits, Client
    <2>. QED
      BY <2>1, <2>2
  <1>10. \A k \in Nat : \A bl : Ahead(o, k, bl, <<>>) => Ahead(o \o b, k, bl, b)
    BY <1>8, <1>2, SeqLen, SMTT(20) DEF Ahead
  <1>. QED
    BY <1>7, <1>10, <1>9, <1>1, <1>2, StreamExtend, OrderPrepare DEF Ends, Mirrored

\* The first request that the backend has is the first that is not answered.
LEMMA AheadFirst ==
  ASSUME NEW o \in Seq(Execs), NEW k \in Nat, NEW bl, NEW bf, Ahead(o, k, bl, bf), bl # <<>>
  PROVE  /\ k < Len(o) /\ Head(bl) = o[k + 1] /\ Answered(o, k) = RequestOf[Head(bl)]
         /\ Ahead(o, k + 1, Tail(bl), bf)
  <1>1. bl \in Seq(Execs) /\ bf \in Seq(Execs) /\ Len(o) = k + Len(bl) + Len(bf)
    BY DEF Ahead
  <1>2. Len(bl) \in Nat /\ Len(bf) \in Nat /\ Len(bl) # 0
    BY <1>1, SeqLen, SeqEmpty
  <1>3. /\ Head(bl) = bl[1] /\ Tail(bl) \in Seq(Execs) /\ Len(Tail(bl)) = Len(bl) - 1
        /\ \A j \in 1..(Len(bl) - 1) : Tail(bl)[j] = bl[j + 1]
    BY <1>1, SeqTail, SMTT(20)
  <1>7. ASSUME NEW j \in 1..Len(Tail(bl)) PROVE o[(k + 1) + j] = Tail(bl)[j]
    BY <1>2, <1>3, SMTT(20) DEF Ahead
  <1>8. ASSUME NEW j \in 1..Len(bf) PROVE o[(k + 1) + Len(Tail(bl)) + j] = bf[j]
    BY <1>2, <1>3, SMTT(20) DEF Ahead
  <1>. QED
    BY <1>1, <1>3, <1>7, <1>8, <1>2, SMTT(20) DEF Ahead, Answered

\* A request leaves the write buffer.
LEMMA AheadTransmit ==
  ASSUME NEW o \in Seq(Execs), NEW k \in Nat, NEW bl, NEW bf, Ahead(o, k, bl, bf), bf # <<>>
  PROVE  Ahead(o, k, Append(bl, Head(bf)), Tail(bf))
  <1> DEFINE x == Append(bl, Head(bf))
             n == Len(bl)
  <1>1. bl \in Seq(Execs) /\ bf \in Seq(Execs) /\ Len(o) = k + n + Len(bf)
    BY DEF Ahead
  <1>2. n \in Nat /\ Len(bf) \in Nat /\ Len(bf) # 0
    BY <1>1, SeqLen, SeqEmpty
  <1>3. /\ Head(bf) = bf[1] /\ Head(bf) \in Execs /\ Tail(bf) \in Seq(Execs)
        /\ Len(Tail(bf)) = Len(bf) - 1
        /\ \A j \in 1..(Len(bf) - 1) : Tail(bf)[j] = bf[j + 1]
    BY <1>1, SeqTail, SMTT(20)
  <1>4. x \in Seq(Execs) /\ Len(x) = n + 1 /\ x[n + 1] = Head(bf) /\ \A j \in 1..n : x[j] = bl[j]
    BY <1>1, <1>3, SeqAppend, SMTT(20)
  <1> HIDE DEF x
  <1>6. ASSUME NEW j \in 1..Len(x) PROVE o[k + j] = x[j]
    <2>1. CASE j \in 1..n
      BY <2>1, <1>4 DEF Ahead
    <2>2. CASE j = n + 1
      BY <1>2, <1>3, <1>4, <2>2, SMTT(20) DEF Ahead
    <2>. QED
      BY <2>1, <2>2, <1>2, <1>4, SMTT(20)
  <1>7. ASSUME NEW j \in 1..Len(Tail(bf)) PROVE o[k + Len(x) + j] = Tail(bf)[j]
    <2>1. /\ j + 1 \in 1..Len(bf) /\ j \in 1..(Len(bf) - 1)
          /\ k + Len(x) + j = k + n + (j + 1)
      BY <1>2, <1>3, <1>4, SMTT(20)
    <2>2. o[k + n + (j + 1)] = bf[j + 1]
      BY <2>1 DEF Ahead
    <2>. QED
      BY <2>1, <2>2, <1>3
  <1>. QED
    BY <1>3, <1>4, <1>6, <1>7, <1>1, <1>2, SMTT(20) DEF x, Ahead

LEMMA EndTypes ==
  ASSUME NEW M, NEW tr \in Seq(M), NEW m, NEW o, NEW c, NEW B, NEW sv, Mirrored(m, tr, o, c, B, sv)
  PROVE  /\ Stream(tr, o, c, B, sv) /\ InOrder(m, o) /\ Client(m, o, B[1])
         /\ Sound(o) /\ o \in Seq(Execs) /\ Len(o) \in Nat /\ Len(tr) \in Nat
         /\ c[Len(tr) + 1] \in 0..Len(o) /\ c[Len(tr) + 1] \in Nat
         /\ B[Len(tr) + 1] \in Backends /\ Fits(o, c[Len(tr) + 1], B[Len(tr) + 1])
  BY SeqLen, StreamTypes, SMTT(20) DEF Mirrored

LEMMA MirrorTransmit ==
  ASSUME NEW M, NEW tr \in Seq(M), NEW m, NEW o, NEW c, NEW B, NEW sv, Mirrored(m, tr, o, c, B, sv),
         NEW sr, NEW bl, NEW bf, Ends(tr, o, c, B, sr, bl, bf), bf # <<>>
  PROVE  Ends(tr, o, c, B, sr, Append(bl, Head(bf)), Tail(bf))
  BY EndTypes, AheadTransmit DEF Ends

LEMMA MirrorPass ==
  ASSUME Facts, NEW M, NEW tr \in Seq(M), NEW m \in Mpxs, NEW o, NEW c, NEW B, NEW sv,
         Mirrored(m, tr, o, c, B, sv),
         NEW sr, NEW bl, NEW bf, Ends(tr, o, c, B, sr, bl, bf),
         bl # <<>>, Silent(RequestOf[Head(bl)], sr)
  PROVE  \E BB : Mirrored(m, tr, o, c, BB, sv) /\ Ends(tr, o, c, BB, PassOver(sr), bl, bf)
  BY EndTypes, AheadFirst, StreamPass, ClientArrives, SMTT(20) DEF Ends, Mirrored

\* The backend has sent a message and is in state s, in the response to r.
Continues(m, tr, o, sv, bl, bf, r, s) ==
  \E cc, BB :
    IF Finished(r, s)
    THEN /\ Mirrored(m, tr, o, cc, BB, sv \cup {Head(bl)})
         /\ Ends(tr, o, cc, BB, NewBackend, Tail(bl), bf)
    ELSE Mirrored(m, tr, o, cc, BB, sv) /\ Ends(tr, o, cc, BB, s, bl, bf)

LEMMA MirrorReply ==
  ASSUME Facts, NEW M, NEW tr \in Seq(M), NEW m \in Mpxs, NEW o, NEW c, NEW B, NEW sv,
         Mirrored(m, tr, o, c, B, sv),
         NEW sr, NEW bl, NEW bf, Ends(tr, o, c, B, sr, bl, bf), bl # <<>>,
         NEW r, r = RequestOf[Head(bl)], NEW reply \in Replies(r, sr),
         NEW msg \in M, msg.owner = Head(bl), msg.kind = reply[1]
  PROVE  Continues(m, Append(tr, msg), o, sv, bl, bf, r, reply[2])
  <1> DEFINE T == Len(tr)
             k == c[T + 1]
             s == B[T + 1]
             a == Append(tr, msg)
             sw == sv \cup {Head(bl)}
  <1>1. /\ Stream(tr, o, c, B, sv) /\ InOrder(m, o) /\ Client(m, o, B[1]) /\ Sound(o) /\ T \in Nat
        /\ o \in Seq(Execs) /\ Len(o) \in Nat /\ k \in Nat /\ s \in Backends /\ Fits(o, k, s)
        /\ k \in 0..Len(o)
    BY EndTypes
  <1>2. s = sr /\ Ahead(o, k, bl, bf)
    BY DEF Ends
  <1>3. /\ k < Len(o) /\ Head(bl) = o[k + 1] /\ Answered(o, k) = r
        /\ Ahead(o, k + 1, Tail(bl), bf)
    BY <1>1, <1>2, AheadFirst
  <1>5. PICK f \in Fsms : InStep(r, f, s)
    BY <1>1, <1>3 DEF Fits
  <1>6. reply[2] \in Backends /\ (~ Finished(r, reply[2]) => \E h \in Fsms : InStep(r, h, reply[2]))
    BY <1>1, <1>2, <1>5, ReplyLeads, <1>3, AnsweredIs
  <1>7. Len(a) = T + 1 /\ Len(a) + 1 = T + 2
    <2>1. Len(a) = T + 1
      BY SeqAppend
    <2>2. T \in Nat
      BY <1>1
    <2> HIDE DEF a, T
    <2>. QED
      BY <2>1, <2>2, SMTT(20)
  <1>8. Stream(tr, o, c, B, sw)
    BY <1>1, StreamServed
  <1> HIDE DEF a, sw, k, s
  <1>9. CASE Finished(r, reply[2])
    <2>1. k + 1 \in 0..Len(o) /\ k <= k + 1 /\ k + 1 \in Nat
      BY <1>1, <1>3, SMTT(20)
    <2>2. Fits(o, k + 1, NewBackend) /\ Arrives(o, k + 1, NewBackend, NewBackend)
      BY <2>1, <1>1, FreshFits
    <2>5. NewBackend \in Backends
      BY SMTT(20) DEF NewBackend, Backends, BackendPhases
    <2>6. PICK cc, BB : /\ Stream(a, o, cc, BB, sw) /\ BB[1] = B[1]
                        /\ cc[T + 2] = k + 1 /\ BB[T + 2] = NewBackend
      <3>1. o[k + 1] \in sw
        BY <1>3 DEF sw
      <3>2. Answers(o, sw, msg, k, s, k + 1, NewBackend)
        BY <2>2, <1>2, <1>3, <1>9, <3>1 DEF Answers
      <3>3. Extended(tr, msg, o, B, sw, k + 1, NewBackend)
        BY <2>1, <2>2, <2>5, <3>2, <1>8, StreamAppend DEF k, s
      <3>. QED
        BY <3>3 DEF a, Extended
    <2>. QED
      BY <1>9, <2>6, <1>1, <1>3, <1>7 DEF a, sw, Continues, Mirrored, Ends
  <1>10. CASE ~ Finished(r, reply[2])
    <2>1. Fits(o, k, reply[2])
      BY <1>3, <1>6, <1>10 DEF Fits
    <2>3. Answers(o, sv, msg, k, s, k, reply[2])
      BY <1>2, <1>3, <1>10, <2>1, AfterItself DEF Answers
    <2>4. k <= k
      BY <1>1, SMTT(20)
    <2>5. PICK cc, BB : /\ Stream(a, o, cc, BB, sv) /\ BB[1] = B[1]
                        /\ cc[T + 2] = k /\ BB[T + 2] = reply[2]
      <3>1. Extended(tr, msg, o, B, sv, k, reply[2])
        BY <2>1, <2>3, <2>4, <1>1, <1>6, StreamAppend DEF k, s
      <3>. QED
        BY <3>1 DEF a, Extended
    <2>. QED
      BY <1>10, <2>5, <1>1, <1>2, <1>7 DEF a, Continues, Mirrored, Ends
  <1>. QED
    BY <1>9, <1>10

LEMMA MirrorInterject ==
  ASSUME NEW M, NEW tr \in Seq(M), NEW m \in Mpxs, NEW o, NEW c, NEW B, NEW sv,
         Mirrored(m, tr, o, c, B, sv),
         NEW msg \in M, msg.owner = None, msg.kind \in AsyncKinds
  PROVE  \E cc, BB :
           /\ Mirrored(m, Append(tr, msg), o, cc, BB, sv)
           /\ \A sr, bl, bf : Ends(tr, o, c, B, sr, bl, bf) =>
                                Ends(Append(tr, msg), o, cc, BB, sr, bl, bf)
  <1> DEFINE T == Len(tr)
             k == c[T + 1]
             s == B[T + 1]
             a == Append(tr, msg)
  <1>1. /\ Stream(tr, o, c, B, sv) /\ InOrder(m, o) /\ Client(m, o, B[1]) /\ T \in Nat
        /\ k \in 0..Len(o) /\ k \in Nat /\ s \in Backends /\ Fits(o, k, s)
    BY EndTypes
  <1>2. Len(a) = T + 1
    BY SeqAppend
  <1> HIDE DEF a, k, s
  <1>3. k <= k /\ Len(a) + 1 = T + 2
    BY <1>1, <1>2, SMTT(20)
  <1>4. Answers(o, sv, msg, k, s, k, s)
    BY <1>1, AfterItself DEF Answers
  <1>5. PICK cc, BB : /\ Stream(a, o, cc, BB, sv) /\ BB[1] = B[1]
                      /\ cc[T + 2] = k /\ BB[T + 2] = s
    <2>1. Extended(tr, msg, o, B, sv, k, s)
      BY <1>1, <1>3, <1>4, StreamAppend DEF k, s
    <2>. QED
      BY <2>1 DEF a, Extended
  <1>6. Mirrored(m, a, o, cc, BB, sv)
    BY <1>1, <1>5 DEF Mirrored
  <1>7. \A sr, bl, bf : Ends(tr, o, c, B, sr, bl, bf) => Ends(a, o, cc, BB, sr, bl, bf)
    BY <1>3, <1>5 DEF Ends, k, s
  <1>. QED
    BY <1>6, <1>7 DEF a

LEMMA MirrorLost ==
  ASSUME NEW M, NEW tr \in Seq(M), NEW m, NEW o, NEW c, NEW B, NEW sv,
         Mirrored(m, tr, o, c, B, sv), NEW n \in 0..Len(tr)
  PROVE  \E cc, BB : Mirrored(m, SubSeq(tr, 1, n), o, cc, BB, sv)
  <1> DEFINE cc == [i \in 1..(n + 1) |-> c[i]]
             BB == [i \in 1..(n + 1) |-> B[i]]
  <1> HIDE DEF cc, BB
  <1>6. Mirrored(m, SubSeq(tr, 1, n), o, cc, BB, sv)
    BY StreamTruncate, EndTypes, SeqLen, SMTT(20) DEF Mirrored, cc, BB
  <1>. QED
    BY <1>6
=============================================================================
