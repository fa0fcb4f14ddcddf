------------------- MODULE MultiplexedConnection_proofs -------------------
(***************************************************************************)
(* Proofs about the multiplexed connection, for any number of calls to     *)
(* exec() with any requests, any number of losses of the connection, any   *)
(* messages that the server sends unasked and any capacity of the network. *)
(***************************************************************************)
EXTENDS MultiplexedConnection_steps, ReadResponseFsm_proofs

-----------------------------------------------------------------------------
(* The theorems *)

\* What the lemmas take from the proofs about read_response_fsm and from the theory
\* of finite sets.
LEMMA FactsHold == Facts
  <1>1. LeastNumber
    BY Least DEF LeastNumber
  <1>2. SmallSets
    BY FS_EmptySet, FS_Singleton DEF SmallSets
  <1>3. RfqsAreCounted
    <2>1. SUFFICES ASSUME NEW r \in Seq(MessageTypes), NEW i \in Int
                   PROVE  GetExpectedRfqs(r, i) \in Nat
      BY DEF RfqsAreCounted
    <2>2. IsFiniteSet(i..Len(r)) /\ RfqPositions(r, i) \subseteq i..Len(r)
      BY FS_Interval, SeqLen DEF RfqPositions
    <2>. QED
      BY <2>2, FS_Subset, FS_CardinalityType DEF GetExpectedRfqs
  <1>4. UnitsAreChecked
    BY CheckRequestExact DEF UnitsAreChecked
  <1>5. MachineFollows
    <2>1. SUFFICES ASSUME NEW r \in Seq(MessageTypes), NEW f \in Fsms, NEW s \in Backends,
                          WellFormed(r), InStep(r, f, s)
                   PROVE  /\ Owes(r, f, s) /\ Passes(r, f, s)
                          /\ \A reply \in Replies(r, s) : Replied(r, f, s, reply)
      BY DEF MachineFollows
    <2>2. Owes(r, f, s)
      BY <2>1, OwedIsRemaining DEF Owes
    <2>3. Passes(r, f, s)
      BY <2>1, PassOverKept DEF Passes
    <2>4. ASSUME NEW reply \in Replies(r, s) PROVE Replied(r, f, s, reply)
      BY <2>1, ReplyKept, ReplyFits, OwedStep DEF Replied
    <2>. QED
      BY <2>2, <2>3, <2>4
  <1>6. EndOwesNothing
    BY OwedAtEnd DEF EndOwesNothing
  <1>. QED
    BY <1>1, <1>2, <1>3, <1>4, <1>5, <1>6 DEF Facts

\* The invariant behind the theorems of this module: the queue has its shape, each call
\* owns its element, a request is written once, and what is on its way is what the
\* front of the queue waits for.
THEOREM MultiplexerInvariant == Spec => []IInv
  <1>1. IInv /\ [Next]_vars => IInv'
    BY FactsHold, Inductive
  <1>. QED
    BY <1>1, Initially, PTL DEF Spec

\* A request is sent once at most, whatever is cancelled and however often the
\* connection is lost: prepare_write() moves a request out of the pending ones.
THEOREM SentOnceHolds == Spec => []SentOnce
  <1>1. IInv => SentOnce
    <2>1. ASSUME IInv PROVE \A e \in Execs : sent[e] \in 0..1
      BY <2>1 DEF IInv, Sending
    <2>2. ASSUME IInv PROVE \A e \in Execs : sent[e] <= 1
      BY <2>1, <2>2
    <2>. QED
      BY <2>2 DEF SentOnce
  <1>. QED
    BY <1>1, MultiplexerInvariant, PTL

\* exec() returns success only for a request that the backend has finished, and
\* nothing of its response is on its way: on_message() pops an element at its end.
THEOREM SuccessIsCompleteHolds == Spec => []SuccessIsComplete
  <1>1. IInv => SuccessIsComplete
    BY DEF IInv
  <1>. QED
    BY <1>1, MultiplexerInvariant, PTL

\* The multiplexer keeps a reference to a call exactly while exec() waits, and
\* follows a response only for such a call: cancel(), on_message() and cleanup()
\* leave no element behind and take none away too early.
THEOREM ReferencesAreAliveHolds == Spec => []ReferencesAreAlive
  <1>1. IInv => ReferencesAreAlive
    BY FactsHold, HoldsReferences
  <1>. QED
    BY <1>1, MultiplexerInvariant, PTL

\* Once exec() has returned, its request is not written any more: a call that is
\* cancelled before its request was written leaves an abandoned element, which
\* prepare_write() passes over.
THEOREM NotSentAfterReturnHolds == Spec => NotSentAfterReturn
  <1> DEFINE A == \A e \in Execs : exec[e] = "returned" => sent'[e] = sent[e]
  <1>1. IInv /\ [Next]_vars => [A]_vars
    BY FactsHold, WritesForNone
  <1>. QED
    BY <1>1, MultiplexerInvariant, PTL DEF Spec, NotSentAfterReturn

\* As long as the server only answers requests, the assertion of
\* read_response_stream_fsm::on_message() holds: a response begins when the first
\* element that is not abandoned has been written.
THEOREM FrontIsInFlightHolds == Spec => []FrontIsInFlight
  <1>1. IInv => FrontIsInFlight
    BY FactsHold, FrontFlies
  <1>. QED
    BY <1>1, MultiplexerInvariant, PTL

\* The elements in flight, cancelled ones included, are the requests whose response
\* is not complete, in the order in which the responses come: on_message() thus gives
\* every message to the request it answers, whatever calls are cancelled and when.
THEOREM QueueMirrorsConnectionHolds == Spec => []QueueMirrorsConnection
  <1>1. IInv => QueueMirrorsConnection
    BY FactsHold, QueueMirrors
  <1>. QED
    BY <1>1, MultiplexerInvariant, PTL
=============================================================================
