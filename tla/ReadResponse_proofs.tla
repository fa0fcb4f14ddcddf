------------------------ MODULE ReadResponse_proofs ------------------------
(***************************************************************************)
(* For every request, every choice of handlers and every answer of the     *)
(* server: the operation ends exactly with the response, and what is left  *)
(* of it can be counted at any point.                                      *)
(***************************************************************************)
EXTENDS ReadResponse, ReadResponseFsm_proofs

\* The time, in seconds, that a prover may take for a leaf.
USE SMTT(20), ZenonT(20)

\* The inductive invariant: while the response is read, the machine is in step
\* with the server, which is why it is done when the server is.
ResponseInv ==
  /\ req \in Seq(MessageTypes) /\ fsm \in Fsms /\ srv \in Backends
  /\ phase \in {"setup", "rejected", "reading", "done"}
  /\ phase = "setup" => fsm.cur = 1 /\ fsm.st = "msg_first" /\ srv = NewBackend
  /\ phase = "reading" => WellFormed(req) /\ ec = "ok" /\ InStep(req, fsm, srv)
  /\ phase = "done" => \/ ec = "ok" /\ Finished(req, srv)
                       \/ ec = "copy_not_allowed" /\ ~ fsm.copy

LEMMA InitInv == Init => ResponseInv
<1>1. SUFFICES ASSUME Init PROVE ResponseInv
  OBVIOUS
<1>2. req \in Seq(MessageTypes)
  BY <1>1, ResponseParams DEF Init
<1>3. PICK copy \in BOOLEAN : fsm = NewFsm(copy)
  BY <1>1 DEF Init
<1>4. fsm \in Fsms /\ fsm.cur = 1 /\ fsm.st = "msg_first"
  BY <1>3 DEF NewFsm, Fsms, FsmStates
<1>5. srv = NewBackend /\ srv \in Backends
  BY <1>1 DEF Init, NewBackend, Backends, BackendPhases
<1> QED BY SMTT(30), <1>1, <1>2, <1>4, <1>5 DEF Init, ResponseInv

\* The answer that ends a resumption, from what resuming the machine keeps.
LEMMA DeliveredInv ==
  ASSUME ResponseInv, WellFormed(req), req' = req,
         NEW k, NEW data, Deliver(k, data), Kept(req, Resume(req, fsm, k), srv')
  PROVE  ResponseInv'
<1> DEFINE out == Resume(req, fsm, k)
<1>1. fsm' = out.fsm /\ ec' = out.ec /\ phase' = (IF out.type = "done" THEN "done" ELSE "reading")
  BY DEF Deliver
<1> HIDE DEF out
<1>2. /\ out.fsm \in Fsms /\ srv' \in Backends
      /\ \/ out.type = "read" /\ out.ec = "ok" /\ InStep(req, out.fsm, srv')
         \/ out.type = "done" /\ out.ec = "ok" /\ Finished(req, srv')
         \/ out.type = "done" /\ out.ec = "copy_not_allowed" /\ ~ out.fsm.copy
  BY DEF Kept, out
<1>3. req' \in Seq(MessageTypes) /\ fsm' \in Fsms /\ srv' \in Backends
      /\ phase' \in {"reading", "done"}
  BY <1>1, <1>2 DEF ResponseInv
<1>4. phase' = "reading" => WellFormed(req') /\ ec' = "ok" /\ InStep(req', fsm', srv')
  BY <1>1, <1>2
<1>5. phase' = "done" => \/ ec' = "ok" /\ Finished(req', srv')
                         \/ ec' = "copy_not_allowed" /\ ~ fsm'.copy
  BY <1>1, <1>2
<1> QED BY SMTT(30), <1>3, <1>4, <1>5 DEF ResponseInv

LEMMA NextInv == ResponseInv /\ [Next]_vars => ResponseInv'
<1>1. SUFFICES ASSUME ResponseInv, [Next]_vars PROVE ResponseInv'
  OBVIOUS
<1>2. CASE Setup
  <2>1. PICK res \in SetupRequest(req, resp.handlers) :
          ec' = res.ec /\ phase' = (IF ec' = "ok" THEN "reading" ELSE "rejected")
    BY <1>2 DEF Setup
  <2>2. UNCHANGED <<req, fsm, srv>> /\ phase = "setup"
    BY <1>2 DEF Setup
  <2>3. CASE ec' # "ok"
    BY SMTT(30), <2>1, <2>2, <2>3, <1>1 DEF ResponseInv
  <2>4. CASE ec' = "ok"
    <3>1. CheckRequest(req) = "ok"
      <4>1. SUFFICES ASSUME CheckRequest(req) # "ok" PROVE FALSE
        OBVIOUS
      <4>2. res = [ec |-> CheckRequest(req), offsets |-> <<>>]
        BY <4>1, <2>1 DEF SetupRequest
      <4> QED BY SMTT(30), <4>1, <4>2, <2>1, <2>4
    <3>2. WellFormed(req) /\ req \in Seq(MessageTypes)
      BY SMTT(30), <3>1, <1>1, CheckRequestExact DEF ResponseInv
    <3>3. 1 \in 1..Len(req)
      BY <3>2 DEF WellFormed
    <3>4. srv = [pos |-> 1, ph |-> "start", skip |-> FALSE] /\ fsm.cur = 1 /\ fsm.st = "msg_first"
      BY <2>2, <1>1 DEF ResponseInv, NewBackend
    <3>5. Follows(req, fsm, srv)
      BY <3>3, <3>4 DEF Follows, Agree
    <3> QED BY SMTT(30), <3>2, <3>5, <2>1, <2>2, <2>4, <1>1 DEF ResponseInv, InStep
  <2> QED BY <2>3, <2>4
<1>3. CASE BackendPassesOver
  <2>1. phase = "reading" /\ Silent(req, srv) /\ srv' = PassOver(srv)
        /\ UNCHANGED <<req, phase, ec, fsm>>
    BY <1>3 DEF BackendPassesOver
  <2>2. srv' \in Backends /\ InStep(req, fsm, srv')
    BY SMTT(30), <2>1, <1>1, PassOverKept DEF ResponseInv
  <2> QED BY SMTT(30), <2>1, <2>2, <1>1 DEF ResponseInv
<1>4. CASE BackendReplies
  <2>1. PICK reply \in Replies(req, srv) : srv' = reply[2] /\ \E data \in DataOf(reply[1]) : Deliver(reply[1], data)
    BY <1>4 DEF BackendReplies
  <2>2. PICK data \in DataOf(reply[1]) : Deliver(reply[1], data)
    BY <2>1
  <2>3. phase = "reading" /\ req' = req
    BY <1>4 DEF BackendReplies
  <2>4. Kept(req, Resume(req, fsm, reply[1]), srv')
    BY SMTT(30), <2>1, <2>3, <1>1, ReplyKept DEF ResponseInv
  <2>5. WellFormed(req)
    BY SMTT(30), <2>3, <1>1 DEF ResponseInv
  <2> QED BY SMTT(30), <2>2, <2>3, <2>4, <2>5, <1>1, DeliveredInv
<1>5. CASE BackendInterjects
  <2>1. PICK k \in AsyncKinds : Deliver(k, <<>>)
    BY <1>5 DEF BackendInterjects
  <2>2. phase = "reading" /\ req' = req /\ srv' = srv
    BY <1>5 DEF BackendInterjects
  <2>3. fsm \in Fsms /\ srv \in Backends /\ InStep(req, fsm, srv) /\ WellFormed(req)
    BY <2>2, <1>1 DEF ResponseInv
  <2>4. Resume(req, fsm, k) = Read(fsm, fsm.st, <<>>)
    BY DEF Resume
  <2>5. [fsm EXCEPT !.st = fsm.st] = fsm
    BY <2>3 DEF Fsms
  <2>6. Kept(req, Resume(req, fsm, k), srv')
    BY SMTT(30), <2>2, <2>3, <2>4, <2>5 DEF Kept, Read
  <2> QED BY SMTT(30), <2>1, <2>2, <2>3, <2>6, <1>1, DeliveredInv
<1>6. CASE UNCHANGED vars
  BY <1>6, <1>1 DEF vars, ResponseInv
<1> QED BY SMTT(30), <1>1, <1>2, <1>3, <1>4, <1>5, <1>6 DEF Next

\* The machine and the server stay in step, for every request and response.
THEOREM ResponseInvariant == Spec => []ResponseInv
BY InitInv, NextInv, PTL DEF Spec

\* For every request, whatever handlers it has and whatever the server answers:
\* read_response_fsm is done exactly with the last message of the response, and
\* the only message it refuses is a COPY OUT that the caller did not allow.
THEOREM EndsWithResponseHolds == Spec => []EndsWithResponse
<1>1. ResponseInv => EndsWithResponse
  <2>1. SUFFICES ASSUME ResponseInv PROVE EndsWithResponse
    OBVIOUS
  <2>2. InStep(req, fsm, srv) => ~ Finished(req, srv)
    BY SMTT(30), <2>1 DEF ResponseInv, InStep, Follows, Skips, Finished
  <2> QED BY <2>1, <2>2 DEF ResponseInv, EndsWithResponse
<1> QED BY <1>1, ResponseInvariant, PTL

\* For every request, at every point of its response: abandoning it leaves as
\* many ReadyForQuery messages to wait for as the server still sends, and at
\* least one.
THEOREM RfqsMatchHolds == Spec => []RfqsMatch
<1>1. ResponseInv => RfqsMatch
  BY OwedIsRemaining DEF ResponseInv, RfqsMatch
<1> QED BY <1>1, ResponseInvariant, PTL

-----------------------------------------------------------------------------
(* What the handlers have been told goes with the place of the machine.    *)

\* What the handler has been told of the message that the machine is at.
Told(t) ==
  {<<"msg_first", "nothing">>} \cup
  (IF t = "execute"
   THEN {<<"msg_first", "open">>, <<"exec_copy_out", "open">>,
         <<"exec_copy_out_needs_command_complete", "open">>}
   ELSE IF t = "query"
   THEN {<<"query_first", "between">>, <<"query_rows", "open">>, <<"query_copy_out", "open">>,
         <<"query_copy_out_needs_command_complete", "open">>, <<"query_needs_ready", "ended">>}
   ELSE {})

\* What it has been told of a message that the machine has left behind.
Reported(t) ==
  IF t \in {"flush", "sync"} THEN {"nothing"}
  ELSE IF t = "query" THEN {"ended", "between"} ELSE {"ended"}

Informed(r, f, s) ==
  /\ s \in [1..Len(r) -> HandlerStates]
  /\ \A i \in 1..Len(r) :
       /\ i > f.cur => s[i] = "nothing"
       /\ i < f.cur => s[i] \in Reported(r[i])
       /\ i = f.cur => <<f.st, s[i]>> \in Told(r[i])

\* The machine is at a message of the request.
AtMessage(f) ==
  /\ req \in Seq(MessageTypes) /\ f \in Fsms /\ f.cur \in 1..Len(req)
  /\ Informed(req, f, seen)

Tells(out) == Informed(req, out.fsm, AfterCalls(out.calls))

\* The calls that concern a message: none, one, or two.
LEMMA NoCall ==
  ASSUME NEW calls, NEW i \in DOMAIN seen, \A n \in DOMAIN calls : calls[n][1] # i
  PROVE  AfterCalls(calls)[i] = seen[i]
<1>1. {j \in DOMAIN calls : calls[j][1] = i} = {}
  OBVIOUS
<1> QED BY <1>1 DEF AfterCalls

LEMMA OneCall ==
  ASSUME NEW calls, NEW i \in DOMAIN seen, NEW n \in Int, n \in DOMAIN calls,
         \A m \in DOMAIN calls : calls[m][1] = i <=> m = n
  PROVE  AfterCalls(calls)[i] = After(req[i], seen[i], calls[n][2])
<1> DEFINE mine == {j \in DOMAIN calls : calls[j][1] = i}
<1>1. mine = {n}
  OBVIOUS
<1>2. Min({n}) = n /\ Max({n}) = n
  BY DEF Min, Max
<1>3. AfterCalls(calls)[i] = LET one == After(req[i], seen[i], calls[Min(mine)][2])
                             IN IF mine = {} THEN seen[i]
                                ELSE IF Min(mine) = Max(mine) THEN one ELSE After(req[i], one, calls[Max(mine)][2])
  BY DEF AfterCalls
<1> HIDE DEF mine
<1> QED BY <1>1, <1>2, <1>3

LEMMA TwoCalls ==
  ASSUME NEW calls, NEW i \in DOMAIN seen, DOMAIN calls = 1..2,
         calls[1][1] = i, calls[2][1] = i
  PROVE  AfterCalls(calls)[i] = After(req[i], After(req[i], seen[i], calls[1][2]), calls[2][2])
<1> DEFINE mine == {j \in DOMAIN calls : calls[j][1] = i}
<1>1. mine = {1, 2}
  OBVIOUS
<1>2. Min({1, 2}) = 1 /\ Max({1, 2}) = 2
  BY DEF Min, Max
<1>3. AfterCalls(calls)[i] = LET one == After(req[i], seen[i], calls[Min(mine)][2])
                             IN IF mine = {} THEN seen[i]
                                ELSE IF Min(mine) = Max(mine) THEN one ELSE After(req[i], one, calls[Max(mine)][2])
  BY DEF AfterCalls
<1> HIDE DEF mine
<1> QED BY <1>1, <1>2, <1>3

LEMMA AfterIsState ==
  ASSUME NEW t, NEW s, NEW k
  PROVE  After(t, s, k) \in HandlerStates
BY DEF After, HandlerStates

LEMMA AfterCallsTyped ==
  ASSUME NEW calls, seen \in [1..Len(req) -> HandlerStates]
  PROVE  AfterCalls(calls) \in [1..Len(req) -> HandlerStates]
BY AfterIsState DEF AfterCalls

\* The machine stays at its message, or leaves it, and the handler has been told
\* of no other.
LEMMA StayInformed ==
  ASSUME NEW f, AtMessage(f), NEW out,
         out.fsm.cur = f.cur,
         \A i \in 1..Len(req) : i # f.cur => AfterCalls(out.calls)[i] = seen[i],
         <<out.fsm.st, AfterCalls(out.calls)[f.cur]>> \in Told(req[f.cur])
  PROVE  Tells(out)
<1>1. AfterCalls(out.calls) \in [1..Len(req) -> HandlerStates]
  BY AfterCallsTyped DEF AtMessage, Informed
<1>2. \A i \in 1..Len(req) : (i > f.cur \/ i < f.cur) => i # f.cur
  BY DEF AtMessage, Fsms
<1>3. \A i \in 1..Len(req) : i > f.cur => AfterCalls(out.calls)[i] = "nothing"
  BY <1>2, ZenonT(30) DEF AtMessage, Informed
<1>4. \A i \in 1..Len(req) : i < f.cur => AfterCalls(out.calls)[i] \in Reported(req[i])
  BY <1>2, ZenonT(30) DEF AtMessage, Informed
<1> QED BY <1>1, <1>3, <1>4 DEF Tells, Informed

LEMMA LeaveInformed ==
  ASSUME NEW f, AtMessage(f), NEW out,
         out.fsm.cur = f.cur + 1, out.fsm.st = "msg_first",
         \A i \in 1..Len(req) : i # f.cur => AfterCalls(out.calls)[i] = seen[i],
         AfterCalls(out.calls)[f.cur] \in Reported(req[f.cur])
  PROVE  Tells(out)
<1>1. AfterCalls(out.calls) \in [1..Len(req) -> HandlerStates]
  BY AfterCallsTyped DEF AtMessage, Informed
<1>2. \A i \in 1..Len(req) : /\ i > f.cur + 1 => i # f.cur /\ i > f.cur
                             /\ i < f.cur + 1 => i = f.cur \/ i < f.cur
                             /\ i = f.cur + 1 => i # f.cur /\ i > f.cur
  BY DEF AtMessage, Fsms
<1>3. \A i \in 1..Len(req) : i > f.cur + 1 \/ i = f.cur + 1 => AfterCalls(out.calls)[i] = "nothing"
  BY <1>2, ZenonT(30) DEF AtMessage, Informed
<1>4. \A i \in 1..Len(req) : i < f.cur + 1 => AfterCalls(out.calls)[i] \in Reported(req[i])
  BY <1>2, ZenonT(30) DEF AtMessage, Informed
<1>5. \A t : <<"msg_first", "nothing">> \in Told(t)
  BY DEF Told
<1> QED BY <1>1, <1>3, <1>4, <1>5 DEF Tells, Informed

\* The calls of Read() and Advance(), which are all about the message at hand.
LEMMA CallsHere ==
  ASSUME NEW f, AtMessage(f), NEW kinds, NEW calls,
         calls = [i \in 1..Len(kinds) |-> <<f.cur, kinds[i]>>]
  PROVE  \A i \in 1..Len(req) : i # f.cur => AfterCalls(calls)[i] = seen[i]
<1>1. DOMAIN seen = 1..Len(req)
  BY DEF AtMessage, Informed
<1>2. \A n \in DOMAIN calls : calls[n][1] = f.cur
  OBVIOUS
<1> QED BY <1>1, <1>2, NoCall

LEMMA NoCallHere ==
  ASSUME NEW f, AtMessage(f), NEW calls,
         calls = [i \in 1..Len(<<>>) |-> <<f.cur, <<>>[i]>>]
  PROVE  \A i \in 1..Len(req) : AfterCalls(calls)[i] = seen[i]
<1>1. DOMAIN seen = 1..Len(req)
  BY DEF AtMessage, Informed
<1>2. DOMAIN calls = {}
  OBVIOUS
<1> QED BY <1>1, <1>2, NoCall

LEMMA OneCallHere ==
  ASSUME NEW f, AtMessage(f), NEW k, NEW calls,
         calls = [i \in 1..Len(<<k>>) |-> <<f.cur, <<k>>[i]>>]
  PROVE  AfterCalls(calls)[f.cur] = After(req[f.cur], seen[f.cur], k)
<1>1. f.cur \in DOMAIN seen
  BY DEF AtMessage, Informed
<1>2. 1 \in DOMAIN calls /\ calls[1][2] = k /\ \A m \in DOMAIN calls : calls[m][1] = f.cur <=> m = 1
  OBVIOUS
<1> QED BY <1>1, <1>2, OneCall

LEMMA TwoCallsHere ==
  ASSUME NEW f, AtMessage(f), NEW k, NEW l, NEW calls,
         calls = [i \in 1..Len(<<k, l>>) |-> <<f.cur, <<k, l>>[i]>>]
  PROVE  AfterCalls(calls)[f.cur] = After(req[f.cur], After(req[f.cur], seen[f.cur], k), l)
<1>1. f.cur \in DOMAIN seen
  BY DEF AtMessage, Informed
<1>2. /\ DOMAIN calls = 1..2
      /\ calls[1] = <<f.cur, k>> /\ calls[2] = <<f.cur, l>>
  OBVIOUS
<1> QED BY <1>1, <1>2, TwoCalls

\* return read, after one, two or no calls
LEMMA ReadInformed ==
  ASSUME NEW f, AtMessage(f), NEW st, NEW kinds,
         <<st, AfterCalls(Read(f, st, kinds).calls)[f.cur]>> \in Told(req[f.cur])
  PROVE  Tells(Read(f, st, kinds))
<1> DEFINE out == Read(f, st, kinds)
<1>1. /\ out.fsm.cur = f.cur /\ out.fsm.st = st
      /\ out.calls = [i \in 1..Len(kinds) |-> <<f.cur, kinds[i]>>]
  BY DEF Read, AtMessage, Fsms
<1>2. <<st, AfterCalls(out.calls)[f.cur]>> \in Told(req[f.cur])
  OBVIOUS
<1> HIDE DEF out
<1>3. \A i \in 1..Len(req) : i # f.cur => AfterCalls(out.calls)[i] = seen[i]
  BY <1>1, CallsHere
<1>4. Tells(out)
  BY <1>1, <1>2, <1>3, StayInformed, ZenonT(30)
<1> QED BY <1>4 DEF out

\* advance(), after one call or none
LEMMA AdvanceInformed ==
  ASSUME NEW f, AtMessage(f), NEW kinds,
         AfterCalls(Advance(req, f, kinds).calls)[f.cur] \in Reported(req[f.cur])
  PROVE  Tells(Advance(req, f, kinds))
<1> DEFINE out == Advance(req, f, kinds)
<1>1. /\ out.fsm.cur = f.cur + 1 /\ out.fsm.st = "msg_first"
      /\ out.calls = [i \in 1..Len(kinds) |-> <<f.cur, kinds[i]>>]
  BY ZenonT(30) DEF Advance, AtMessage, Fsms
<1>2. AfterCalls(out.calls)[f.cur] \in Reported(req[f.cur])
  OBVIOUS
<1> HIDE DEF out
<1>3. \A i \in 1..Len(req) : i # f.cur => AfterCalls(out.calls)[i] = seen[i]
  BY <1>1, CallsHere
<1>4. Tells(out)
  BY <1>1, <1>2, <1>3, LeaveInformed, ZenonT(30)
<1> QED BY <1>4 DEF out

LEMMA ReadNone ==
  ASSUME NEW f, AtMessage(f), NEW st, <<st, seen[f.cur]>> \in Told(req[f.cur])
  PROVE  Tells(Read(f, st, <<>>))
<1>1. AfterCalls(Read(f, st, <<>>).calls)[f.cur] = seen[f.cur]
  <2> DEFINE calls == Read(f, st, <<>>).calls
  <2>1. calls = [i \in 1..Len(<<>>) |-> <<f.cur, <<>>[i]>>]
    BY DEF Read
  <2> HIDE DEF calls
  <2>2. AfterCalls(calls)[f.cur] = seen[f.cur]
    BY <2>1, NoCallHere, ZenonT(30) DEF AtMessage
  <2> QED BY <2>2 DEF calls
<1> QED BY <1>1, ReadInformed

LEMMA ReadOne ==
  ASSUME NEW f, AtMessage(f), NEW st, NEW k,
         <<st, After(req[f.cur], seen[f.cur], k)>> \in Told(req[f.cur])
  PROVE  Tells(Read(f, st, <<k>>))
<1>1. AfterCalls(Read(f, st, <<k>>).calls)[f.cur] = After(req[f.cur], seen[f.cur], k)
  <2> DEFINE calls == Read(f, st, <<k>>).calls
  <2>1. calls = [i \in 1..Len(<<k>>) |-> <<f.cur, <<k>>[i]>>]
    BY DEF Read
  <2> HIDE DEF calls
  <2>2. AfterCalls(calls)[f.cur] = After(req[f.cur], seen[f.cur], k)
    BY <2>1, OneCallHere
  <2> QED BY <2>2 DEF calls
<1> QED BY <1>1, ReadInformed

LEMMA ReadTwo ==
  ASSUME NEW f, AtMessage(f), NEW st, NEW k, NEW l,
         <<st, After(req[f.cur], After(req[f.cur], seen[f.cur], k), l)>> \in Told(req[f.cur])
  PROVE  Tells(Read(f, st, <<k, l>>))
<1>1. AfterCalls(Read(f, st, <<k, l>>).calls)[f.cur]
        = After(req[f.cur], After(req[f.cur], seen[f.cur], k), l)
  <2> DEFINE calls == Read(f, st, <<k, l>>).calls
  <2>1. calls = [i \in 1..Len(<<k, l>>) |-> <<f.cur, <<k, l>>[i]>>]
    BY DEF Read
  <2> HIDE DEF calls
  <2>2. AfterCalls(calls)[f.cur] = After(req[f.cur], After(req[f.cur], seen[f.cur], k), l)
    BY <2>1, TwoCallsHere
  <2> QED BY <2>2 DEF calls
<1> QED BY <1>1, ReadInformed

LEMMA AdvanceNone ==
  ASSUME NEW f, AtMessage(f), seen[f.cur] \in Reported(req[f.cur])
  PROVE  Tells(Advance(req, f, <<>>))
<1>1. AfterCalls(Advance(req, f, <<>>).calls)[f.cur] = seen[f.cur]
  <2> DEFINE calls == Advance(req, f, <<>>).calls
  <2>1. calls = [i \in 1..Len(<<>>) |-> <<f.cur, <<>>[i]>>]
    BY DEF Advance
  <2> HIDE DEF calls
  <2>2. AfterCalls(calls)[f.cur] = seen[f.cur]
    BY <2>1, NoCallHere, ZenonT(30) DEF AtMessage
  <2> QED BY <2>2 DEF calls
<1> QED BY <1>1, AdvanceInformed

LEMMA AdvanceOne ==
  ASSUME NEW f, AtMessage(f), NEW k,
         After(req[f.cur], seen[f.cur], k) \in Reported(req[f.cur])
  PROVE  Tells(Advance(req, f, <<k>>))
<1>1. AfterCalls(Advance(req, f, <<k>>).calls)[f.cur] = After(req[f.cur], seen[f.cur], k)
  <2> DEFINE calls == Advance(req, f, <<k>>).calls
  <2>1. calls = [i \in 1..Len(<<k>>) |-> <<f.cur, <<k>>[i]>>]
    BY DEF Advance
  <2> HIDE DEF calls
  <2>2. AfterCalls(calls)[f.cur] = After(req[f.cur], seen[f.cur], k)
    BY <2>1, OneCallHere
  <2> QED BY <2>2 DEF calls
<1> QED BY <1>1, AdvanceInformed

\* return an error
LEMMA FailInformed ==
  ASSUME NEW f, AtMessage(f), NEW e
  PROVE  Tells(Fail(f, e))
<1> DEFINE out == Fail(f, e)
<1>1. out.fsm = f /\ out.calls = <<>>
  BY DEF Fail
<1> HIDE DEF out
<1>2. DOMAIN seen = 1..Len(req) /\ f.cur \in 1..Len(req) /\ DOMAIN out.calls = {}
  BY <1>1 DEF AtMessage, Informed
<1>3. \A i \in 1..Len(req) : AfterCalls(out.calls)[i] = seen[i]
  BY <1>2, NoCall
<1>4. <<f.st, seen[f.cur]>> \in Told(req[f.cur])
  BY DEF AtMessage, Informed
<1>5. Tells(out)
  BY <1>1, <1>2, <1>3, <1>4, StayInformed
<1> QED BY <1>5 DEF out

\* handle_error(): the message has failed, what follows is reported as skipped up
\* to the sync that the machine goes to.
LEMMA ErrorInformed ==
  ASSUME NEW f, AtMessage(f), WellFormed(req), req[f.cur] \in ExtendedTypes \ {"flush"},
         seen[f.cur] \in {"nothing", "open"}
  PROVE  Tells(HandleError(req, f))
<1> DEFINE out == HandleError(req, f)
           c == f.cur
           n == NextSync(req, c)
           q == Skipped(req, c)[n - 1]
           calls == <<<<c, "error_response">>>> \o q
           next == AfterCalls(calls)
<1>1. req \in Seq(MessageTypes) /\ c \in 1..Len(req)
  BY DEF AtMessage
<1>2. \E j \in (c + 1)..Len(req) : req[j] = "sync"
  <2>1. PICK j \in c..Len(req) : req[j] = "sync"
    BY <1>1 DEF WellFormed
  <2>2. j # c
    BY <2>1 DEF ExtendedTypes
  <2> QED BY <2>1, <2>2, <1>1
<1>3. n \in (c + 1)..Len(req) /\ req[n] = "sync" /\ \A k \in (c + 1)..(n - 1) : req[k] # "sync"
  BY <1>1, <1>2, NextSyncIs
<1>4. out.fsm.cur = n /\ out.fsm.st = "msg_first" /\ out.calls = calls
  BY ZenonT(30) DEF HandleError, AtMessage, Fsms
<1>5. TellSkipped(req, c, n - 1, q)
  BY <1>1, <1>3, SkippedTold
<1>6. /\ seen \in [1..Len(req) -> HandlerStates]
      /\ \A i \in 1..Len(req) : /\ i > c => seen[i] = "nothing"
                                /\ i < c => seen[i] \in Reported(req[i])
  BY ZenonT(30) DEF AtMessage, Informed
<1> HIDE DEF q, n, out, c
<1>7. /\ q \in Seq(Int \X {"message_skipped"}) /\ Len(q) \in Nat
      /\ \A m \in 1..Len(q) : /\ q[m][1] \in (c + 1)..(n - 1) /\ req[q[m][1]] # "flush"
                              /\ q[m][2] = "message_skipped"
      /\ \A i \in (c + 1)..(n - 1) : req[i] # "flush" => \E m \in 1..Len(q) : q[m][1] = i
      /\ \A l, m \in 1..Len(q) : l # m => q[l][1] # q[m][1]
  BY <1>5 DEF TellSkipped
<1>8. /\ DOMAIN calls = 1..(Len(q) + 1) /\ calls[1] = <<c, "error_response">>
      /\ \A m \in 1..Len(q) : calls[m + 1] = q[m]
  BY <1>7
<1>9. \A m \in DOMAIN calls : m = 1 \/ (m - 1 \in 1..Len(q) /\ calls[m] = q[m - 1])
  <2> HIDE DEF calls
  <2>1. \A m \in 1..(Len(q) + 1) : m = 1 \/ (m - 1 \in 1..Len(q) /\ m = (m - 1) + 1)
    BY <1>7
  <2> QED BY <2>1, <1>8
<1> HIDE DEF calls
<1>10. \A m \in DOMAIN calls : m = 1 \/ (calls[m][1] \in (c + 1)..(n - 1) /\ req[calls[m][1]] # "flush")
  BY <1>7, <1>9
<1>11. \A i \in 1..Len(req) : i < c \/ i >= n => next[i] = seen[i]
  <2>1. SUFFICES ASSUME NEW i \in 1..Len(req), i < c \/ i >= n PROVE next[i] = seen[i]
    OBVIOUS
  <2>2. i # c /\ i \notin (c + 1)..(n - 1)
    BY <2>1, <1>1, <1>3
  <2>3. \A m \in DOMAIN calls : calls[m][1] # i
    BY <2>2, <1>8, <1>10
  <2> QED BY <2>3, <1>6, NoCall
<1>12. next[c] = "ended"
  <2>1. \A m \in DOMAIN calls : calls[m][1] = c <=> m = 1
    BY <1>1, <1>3, <1>8, <1>10
  <2>2. 1 \in DOMAIN calls /\ calls[1][2] = "error_response" /\ c \in DOMAIN seen
    BY <1>1, <1>6, <1>7, <1>8
  <2>3. next[c] = After(req[c], seen[c], "error_response")
    BY <2>1, <2>2, OneCall
  <2>4. seen[c] \in {"nothing", "open"}
    BY DEF c
  <2> QED BY <2>3, <2>4 DEF After
<1>13. \A i \in (c + 1)..(n - 1) : req[i] = "flush" => next[i] = "nothing"
  <2>1. SUFFICES ASSUME NEW i \in (c + 1)..(n - 1), req[i] = "flush" PROVE next[i] = "nothing"
    OBVIOUS
  <2>2. i \in 1..Len(req) /\ i > c
    BY <1>1, <1>3
  <2>3. \A m \in DOMAIN calls : calls[m][1] # i
    BY <2>1, <2>2, <1>1, <1>8, <1>10
  <2> QED BY <2>2, <2>3, <1>6, NoCall
<1>14. \A i \in (c + 1)..(n - 1) : req[i] # "flush" => next[i] = "ended"
  <2>1. SUFFICES ASSUME NEW i \in (c + 1)..(n - 1), req[i] # "flush" PROVE next[i] = "ended"
    OBVIOUS
  <2>2. i \in 1..Len(req) /\ i > c
    BY <1>1, <1>3
  <2>3. PICK m \in 1..Len(q) : q[m][1] = i
    BY <2>1, <1>7
  <2>4. m + 1 \in DOMAIN calls /\ calls[m + 1] = q[m] /\ m + 1 \in Int
    BY <2>3, <1>7, <1>8
  <2>5. \A l \in DOMAIN calls : calls[l][1] = i <=> l = m + 1
    <3>1. ASSUME NEW l \in DOMAIN calls, calls[l][1] = i PROVE l = m + 1
      <4>1. l # 1
        BY <3>1, <2>2, <1>1, <1>8
      <4>2. l - 1 \in 1..Len(q) /\ q[l - 1][1] = i
        BY <3>1, <4>1, <1>9
      <4>3. l - 1 = m
        BY <4>2, <2>3, <1>7
      <4>4. l \in Int
        BY <3>1, <1>7, <1>8
      <4> QED BY <4>3, <4>4
    <3> QED BY <3>1, <2>3, <2>4
  <2>6. next[i] = After(req[i], seen[i], calls[m + 1][2])
    BY <2>2, <2>4, <2>5, <1>6, OneCall
  <2>7. seen[i] = "nothing" /\ calls[m + 1][2] = "message_skipped"
    BY <2>2, <2>3, <2>4, <1>6, <1>7
  <2> QED BY <2>6, <2>7 DEF After
<1>15. next \in [1..Len(req) -> HandlerStates]
  BY <1>6, AfterCallsTyped
<1> HIDE DEF next
<1>16. \A i \in 1..Len(req) : i > n \/ i = n => next[i] = "nothing"
  BY <1>1, <1>3, <1>6, <1>11
<1>17. \A i \in 1..Len(req) : i < n => next[i] \in Reported(req[i])
  <2>1. SUFFICES ASSUME NEW i \in 1..Len(req), i < n PROVE next[i] \in Reported(req[i])
    OBVIOUS
  <2>2. CASE i < c
    BY <2>2, <1>6, <1>11
  <2>3. CASE i = c
    <3>1. req[c] \in ExtendedTypes \ {"flush"}
      BY DEF c
    <3> QED BY <2>3, <3>1, <1>12 DEF Reported, ExtendedTypes, MessageTypes
  <2>4. CASE i > c
    <3>1. i \in (c + 1)..(n - 1)
      BY <2>1, <2>4, <1>1, <1>3
    <3> QED BY <3>1, <1>3, <1>13, <1>14 DEF Reported
  <2> QED BY <2>2, <2>3, <2>4, <1>1
<1>18. <<"msg_first", "nothing">> \in Told("sync")
  BY DEF Told
<1>19. Tells(out)
  BY <1>3, <1>4, <1>15, <1>16, <1>17, <1>18 DEF Tells, Informed, next
<1> QED BY <1>19 DEF out

-----------------------------------------------------------------------------
(* One message of the server, by the type of the message it is about.      *)

LEMMA SingleInformed ==
  ASSUME NEW f, AtMessage(f), WellFormed(req), NEW k
  PROVE  /\ req[f.cur] = "bind" => Tells(HandleBind(req, f, k))
         /\ req[f.cur] = "close" => Tells(HandleClose(req, f, k))
         /\ req[f.cur] = "parse" => Tells(HandleParse(req, f, k))
         /\ req[f.cur] = "describe" => Tells(HandleDescribe(req, f, k))
         /\ req[f.cur] = "sync" => Tells(HandleSync(req, f, k))
<1> DEFINE t == req[f.cur]
<1>1. <<f.st, seen[f.cur]>> \in Told(t)
  BY DEF AtMessage, Informed
<1>2. t \in {"bind", "close", "parse", "describe", "sync"} => seen[f.cur] = "nothing"
  BY <1>1 DEF Told
<1>3. t \in {"bind", "close", "parse", "describe"} => Tells(HandleError(req, f))
  BY <1>2, ErrorInformed DEF ExtendedTypes, MessageTypes
<1>4. Tells(Unexpected(f))
  BY FailInformed DEF Unexpected
<1>5. ASSUME t \in {"bind", "close", "parse", "describe"},
             NEW l \in {"bind_complete", "close_complete", "parse_complete", "row_description"}
      PROVE  Tells(Advance(req, f, <<l>>))
  <2>1. After(t, "nothing", l) = "ended" /\ "ended" \in Reported(t)
    BY <1>5 DEF After, Reported
  <2> QED BY <2>1, <1>2, <1>5, AdvanceOne
<1>6. t = "sync" => Tells(Advance(req, f, <<>>))
  BY <1>2, AdvanceNone DEF Reported
<1> HIDE DEF t
<1>7. t = "bind" => Tells(HandleBind(req, f, k))
  BY <1>3, <1>4, <1>5 DEF HandleBind
<1>8. t = "close" => Tells(HandleClose(req, f, k))
  BY <1>3, <1>4, <1>5 DEF HandleClose
<1>9. t = "parse" => Tells(HandleParse(req, f, k))
  BY <1>3, <1>4, <1>5 DEF HandleParse
<1>10. t = "describe" => Tells(HandleDescribe(req, f, k))
  BY <1>3, <1>4, <1>5 DEF HandleDescribe
<1>11. t = "sync" => Tells(HandleSync(req, f, k))
  BY <1>4, <1>6 DEF HandleSync
<1> QED BY <1>7, <1>8, <1>9, <1>10, <1>11 DEF t

LEMMA ExecuteInformed ==
  ASSUME NEW f, AtMessage(f), WellFormed(req), NEW k, req[f.cur] = "execute"
  PROVE  Tells(HandleExecute(req, f, k))
<1>1. <<f.st, seen[f.cur]>> \in Told("execute")
  BY DEF AtMessage, Informed
<1>2. /\ f.st \in {"msg_first", "exec_copy_out", "exec_copy_out_needs_command_complete"}
      /\ seen[f.cur] \in {"nothing", "open"}
      /\ f.st # "msg_first" => seen[f.cur] = "open"
  BY <1>1 DEF Told
<1>3. Tells(HandleError(req, f))
  BY <1>2, ErrorInformed DEF ExtendedTypes, MessageTypes
<1>4. Tells(Unexpected(f)) /\ Tells(Fail(f, "copy_not_allowed"))
  BY FailInformed DEF Unexpected
<1>5. ASSUME NEW l \in {"command_complete", "empty_query_response", "portal_suspended"}
      PROVE  Tells(Advance(req, f, <<l>>))
  <2>1. After("execute", seen[f.cur], l) = "ended" /\ "ended" \in Reported("execute")
    BY <1>2 DEF After, Reported
  <2> QED BY <2>1, AdvanceOne
<1>6. Tells(Read(f, "exec_copy_out", <<"row_description">>))
  <2>1. After("execute", seen[f.cur], "row_description") = "open"
        /\ <<"exec_copy_out", "open">> \in Told("execute")
    BY <1>2 DEF After, Told
  <2> QED BY <2>1, ReadOne
<1>7. f.st = "msg_first" => Tells(Read(f, f.st, <<"data_row">>))
  <2>1. After("execute", seen[f.cur], "data_row") = "open"
        /\ <<"msg_first", "open">> \in Told("execute")
    BY <1>2 DEF After, Told
  <2> QED BY <2>1, ReadOne
<1>8. f.st = "exec_copy_out" => Tells(Read(f, f.st, <<>>))
  BY <1>1, ReadNone
<1>9. f.st = "exec_copy_out" => Tells(Read(f, "exec_copy_out_needs_command_complete", <<>>))
  <2>1. <<"exec_copy_out_needs_command_complete", "open">> \in Told("execute")
    BY DEF Told
  <2> QED BY <2>1, <1>2, ReadNone
<1> QED BY <1>2, <1>3, <1>4, <1>5, <1>6, <1>7, <1>8, <1>9 DEF HandleExecute, StartCopy

LEMMA QueryInformed ==
  ASSUME NEW f, AtMessage(f), NEW k, req[f.cur] = "query"
  PROVE  Tells(HandleQuery(req, f, k))
<1> DEFINE s == seen[f.cur]
           first == f.st \in {"msg_first", "query_first"}
           inside == f.st \in {"query_rows", "query_copy_out", "query_copy_out_needs_command_complete"}
<1>1. <<f.st, s>> \in Told("query")
  BY DEF AtMessage, Informed
<1>2. /\ f.st = "msg_first" => s = "nothing"
      /\ f.st = "query_first" => s = "between"
      /\ inside => s = "open"
      /\ f.st = "query_needs_ready" => s = "ended"
  BY <1>1 DEF Told
<1>3. Tells(Unexpected(f)) /\ Tells(Fail(f, "copy_not_allowed"))
  BY FailInformed DEF Unexpected
<1>4. /\ <<"query_needs_ready", "ended">> \in Told("query")
      /\ <<"query_first", "between">> \in Told("query")
      /\ \A st \in {"query_rows", "query_copy_out", "query_copy_out_needs_command_complete"} :
           <<st, "open">> \in Told("query")
  BY DEF Told
<1>5. first \/ inside => Tells(Read(f, "query_needs_ready", <<"error_response">>))
  <2>1. first \/ inside => After("query", s, "error_response") = "ended"
    BY <1>2 DEF After
  <2> QED BY <2>1, <1>4, ReadOne
<1>6. first => /\ Tells(Read(f, "query_copy_out", <<"row_description">>))
               /\ Tells(Read(f, "query_rows", <<"row_description">>))
  <2>1. first => After("query", s, "row_description") = "open"
    BY <1>2 DEF After
  <2> QED BY <2>1, <1>4, ReadOne
<1>7. first => Tells(Read(f, "query_first", <<"row_description", "command_complete">>))
  <2>1. first => After("query", s, "row_description") = "open"
    BY <1>2 DEF After
  <2>2. After("query", "open", "command_complete") = "between"
    BY DEF After
  <2> QED BY <2>1, <2>2, <1>4, ReadTwo
<1>8. f.st = "msg_first" => Tells(Read(f, "query_needs_ready", <<"empty_query_response">>))
  <2>1. After("query", "nothing", "empty_query_response") = "ended"
    BY DEF After
  <2> QED BY <2>1, <1>2, <1>4, ReadOne
<1>9. f.st \in {"query_first", "query_needs_ready"} => Tells(Advance(req, f, <<>>))
  BY <1>2, AdvanceNone DEF Reported
<1>10. f.st = "query_rows" => Tells(Read(f, f.st, <<"data_row">>))
  <2>1. After("query", "open", "data_row") = "open"
    BY DEF After
  <2> QED BY <2>1, <1>2, <1>4, ReadOne
<1>11. inside => Tells(Read(f, "query_first", <<"command_complete">>))
  <2>1. After("query", "open", "command_complete") = "between"
    BY DEF After
  <2> QED BY <2>1, <1>2, <1>4, ReadOne
<1>12. f.st = "query_copy_out" => Tells(Read(f, f.st, <<>>))
  BY <1>1, ReadNone
<1>13. f.st = "query_copy_out" => Tells(Read(f, "query_copy_out_needs_command_complete", <<>>))
  BY <1>2, <1>4, ReadNone
<1> HIDE DEF s
<1> QED BY <1>3, <1>5, <1>6, <1>7, <1>8, <1>9, <1>10, <1>11, <1>12, <1>13 DEF HandleQuery, StartCopy

\* resume() leaves the flushes behind, of which the handler is told nothing.
LEMMA FlushInformed ==
  ASSUME NEW f \in Fsms, req \in Seq(MessageTypes), Informed(req, f, seen),
         NEW p \in 1..Len(req), f.cur \in 1..p,
         req[p] # "flush", \A k \in f.cur..(p - 1) : req[k] = "flush"
  PROVE  AtMessage([f EXCEPT !.cur = p])
<1> DEFINE g == [f EXCEPT !.cur = p]
<1>1. g \in Fsms /\ g.cur = p /\ g.st = f.st
  BY DEF Fsms
<1>2. f.cur \in 1..Len(req)
  OBVIOUS
<1>3. /\ seen \in [1..Len(req) -> HandlerStates]
      /\ \A i \in 1..Len(req) : /\ i > f.cur => seen[i] = "nothing"
                                /\ i < f.cur => seen[i] \in Reported(req[i])
      /\ <<f.st, seen[f.cur]>> \in Told(req[f.cur])
  BY <1>2, ZenonT(30) DEF Informed
<1>4. CASE f.cur = p
  <2>1. g = f
    BY <1>4 DEF Fsms
  <2> HIDE DEF g
  <2>2. AtMessage(f)
    BY <1>2 DEF AtMessage
  <2>3. AtMessage(g)
    BY <2>1, <2>2
  <2> QED BY <2>3 DEF g
<1>5. CASE f.cur < p
  <2>1. req[f.cur] = "flush"
    BY <1>5
  <2>2. f.st = "msg_first" /\ seen[f.cur] = "nothing"
    BY <2>1, <1>3 DEF Told
  <2>3. \A i \in 1..Len(req) : i > p \/ i = p => seen[i] = "nothing"
    BY <1>3, <1>5
  <2>4. \A i \in 1..Len(req) : i < p => seen[i] \in Reported(req[i])
    <3>1. SUFFICES ASSUME NEW i \in 1..Len(req), i < p PROVE seen[i] \in Reported(req[i])
      OBVIOUS
    <3>2. CASE i < f.cur
      BY <3>2, <1>3
    <3>3. CASE i >= f.cur
      <4>1. i \in f.cur..(p - 1) /\ (i = f.cur \/ i > f.cur)
        BY <3>1, <3>3, <1>2
      <4>2. req[i] = "flush" /\ seen[i] = "nothing"
        BY <4>1, <2>2, <1>3
      <4> QED BY <4>2 DEF Reported
    <3> QED BY <3>2, <3>3, <1>2
  <2>5. <<"msg_first", "nothing">> \in Told(req[p])
    BY DEF Told
  <2> HIDE DEF g
  <2>6. AtMessage(g)
    BY <2>2, <2>3, <2>4, <2>5, <1>1, <1>3, ZenonT(30) DEF AtMessage, Informed
  <2> QED BY <2>6 DEF g
<1> QED BY <1>4, <1>5, <1>2

\* resume(), for whatever message of the server
LEMMA ResumeInformed ==
  ASSUME req \in Seq(MessageTypes), WellFormed(req), NEW f \in Fsms, f.cur \in 1..Len(req),
         Informed(req, f, seen), NEW k
  PROVE  Tells(Resume(req, f, k))
<1>1. AtMessage(f)
  BY DEF AtMessage
<1>2. CASE k \in AsyncKinds
  <2>1. <<f.st, seen[f.cur]>> \in Told(req[f.cur])
    BY DEF Informed
  <2>2. Resume(req, f, k) = Read(f, f.st, <<>>)
    BY <1>2 DEF Resume
  <2> QED BY <2>1, <2>2, <1>1, ReadNone
<1>3. CASE k \notin AsyncKinds
  <2> DEFINE S == {j \in f.cur..Len(req) : req[j] # "flush"}
  <2>1. S \in SUBSET Nat
    OBVIOUS
  <2>2. S # {}
    <3>1. CASE req[f.cur] # "flush"
      BY <3>1
    <3>2. CASE req[f.cur] = "flush"
      <4>1. PICK j \in f.cur..Len(req) : req[j] = "sync"
        BY <3>2 DEF WellFormed, ExtendedTypes, MessageTypes
      <4> QED BY <4>1
    <3> QED BY <3>1, <3>2
  <2>3. PICK p \in S : \A j \in S : p <= j
    <3> HIDE DEF S
    <3> QED BY <2>1, <2>2, Least
  <2>4. p \in f.cur..Len(req) /\ req[p] # "flush" /\ \A j \in f.cur..(p - 1) : req[j] = "flush"
    BY <2>3
  <2> HIDE DEF S
  <2> DEFINE g == [f EXCEPT !.cur = p]
  <2>5. SkipFlush(req, f.cur) = p
    BY <2>4, SkipFlushIs
  <2>6. AtMessage(g)
    BY <2>4, FlushInformed
  <2>7. g.cur = p
    BY DEF Fsms
  <2>8. g = [f EXCEPT !.cur = SkipFlush(req, @)]
    BY <2>5
  <2> HIDE DEF g
  <2>9. req[p] \in MessageTypes \ {"flush"}
    BY <2>4
  <2>10. /\ req[p] = "bind" => Tells(HandleBind(req, g, k))
         /\ req[p] = "close" => Tells(HandleClose(req, g, k))
         /\ req[p] = "parse" => Tells(HandleParse(req, g, k))
         /\ req[p] = "describe" => Tells(HandleDescribe(req, g, k))
         /\ req[p] = "sync" => Tells(HandleSync(req, g, k))
    BY <2>6, <2>7, SingleInformed
  <2>11. req[p] = "execute" => Tells(HandleExecute(req, g, k))
    BY <2>6, <2>7, ExecuteInformed
  <2>12. req[p] = "query" => Tells(HandleQuery(req, g, k))
    BY <2>6, <2>7, QueryInformed
  <2>13. Resume(req, f, k) =
           CASE req[p] = "bind"     -> HandleBind(req, g, k)
             [] req[p] = "close"    -> HandleClose(req, g, k)
             [] req[p] = "describe" -> HandleDescribe(req, g, k)
             [] req[p] = "execute"  -> HandleExecute(req, g, k)
             [] req[p] = "parse"    -> HandleParse(req, g, k)
             [] req[p] = "query"    -> HandleQuery(req, g, k)
             [] req[p] = "sync"     -> HandleSync(req, g, k)
    BY <2>7, <2>8, <2>9, <1>3 DEF Resume, MessageTypes
  <2> QED BY <2>9, <2>10, <2>11, <2>12, <2>13 DEF MessageTypes
<1> QED BY <1>2, <1>3

\* The inductive invariant: until the request is rejected, what the handlers have
\* been told goes with the place of the machine.
InformedInv == phase # "rejected" => Informed(req, fsm, seen)

LEMMA InitInformed == Init => InformedInv
<1>1. SUFFICES ASSUME Init PROVE InformedInv
  OBVIOUS
<1>2. req \in Seq(MessageTypes)
  BY <1>1, ResponseParams DEF Init
<1>3. fsm.cur = 1 /\ fsm.st = "msg_first"
  BY <1>1 DEF Init, NewFsm
<1>4. seen = [i \in 1..Len(req) |-> "nothing"]
  BY <1>1 DEF Init
<1>5. seen \in [1..Len(req) -> HandlerStates]
  BY <1>4 DEF HandlerStates
<1>6. \A i \in 1..Len(req) : seen[i] = "nothing" /\ <<"msg_first", "nothing">> \in Told(req[i]) /\ ~ (i < 1)
  BY <1>2, <1>4 DEF Told
<1> QED BY <1>3, <1>5, <1>6 DEF InformedInv, Informed

LEMMA NextInformed == ResponseInv /\ InformedInv /\ [Next]_vars => InformedInv'
<1>1. SUFFICES ASSUME ResponseInv, InformedInv, [Next]_vars PROVE InformedInv'
  OBVIOUS
<1>2. ASSUME NEW k, NEW data, phase = "reading", req' = req, Deliver(k, data)
      PROVE  InformedInv'
  <2>1. /\ req \in Seq(MessageTypes) /\ WellFormed(req) /\ fsm \in Fsms
        /\ InStep(req, fsm, srv) /\ Informed(req, fsm, seen)
    BY <1>1, <1>2 DEF ResponseInv, InformedInv
  <2>2. fsm.cur \in 1..Len(req)
    BY <2>1 DEF InStep, Follows, Skips
  <2>3. Tells(Resume(req, fsm, k))
    BY <2>1, <2>2, ResumeInformed
  <2>4. fsm' = Resume(req, fsm, k).fsm /\ seen' = AfterCalls(Resume(req, fsm, k).calls)
    BY <1>2 DEF Deliver
  <2>5. Informed(req, fsm', seen')
    BY <2>3, <2>4 DEF Tells
  <2> QED BY <2>5, <1>2 DEF InformedInv
<1>3. CASE Setup
  <2>1. phase = "setup" /\ UNCHANGED <<req, fsm, seen>>
    BY <1>3 DEF Setup
  <2>2. Informed(req, fsm, seen)
    BY <2>1, <1>1 DEF InformedInv
  <2> QED BY <2>1, <2>2 DEF InformedInv
<1>4. CASE BackendPassesOver
  <2>1. UNCHANGED <<req, phase, fsm, seen>>
    BY <1>4 DEF BackendPassesOver
  <2> QED BY <2>1, <1>1 DEF InformedInv
<1>5. CASE BackendReplies
  <2>1. PICK reply \in Replies(req, srv) : \E data \in DataOf(reply[1]) : Deliver(reply[1], data)
    BY <1>5 DEF BackendReplies
  <2>2. PICK data \in DataOf(reply[1]) : Deliver(reply[1], data)
    BY <2>1
  <2>3. phase = "reading" /\ req' = req
    BY <1>5 DEF BackendReplies
  <2> QED BY <2>2, <2>3, <1>2
<1>6. CASE BackendInterjects
  <2>1. PICK k \in AsyncKinds : Deliver(k, <<>>)
    BY <1>6 DEF BackendInterjects
  <2>2. phase = "reading" /\ req' = req
    BY <1>6 DEF BackendInterjects
  <2> QED BY <2>1, <2>2, <1>2
<1>7. CASE UNCHANGED vars
  BY <1>7, <1>1 DEF vars, InformedInv
<1> QED BY <1>1, <1>3, <1>4, <1>5, <1>6, <1>7 DEF Next

\* For every request and every response, also when errors make the server skip
\* messages: read_response_fsm tells the handler of the messages of the request
\* in order, of each one completely and once.
THEOREM HandlerContractHolds == Spec => []HandlerContract
<1>1. ResponseInv /\ InformedInv => HandlerContract
  <2>1. SUFFICES ASSUME ResponseInv, InformedInv, phase \in {"reading", "done"}, NEW i \in 1..Len(req)
        PROVE  /\ seen[i] # "broken"
               /\ i > fsm.cur \/ req[i] \in {"flush", "sync"} => seen[i] = "nothing"
               /\ i < fsm.cur /\ req[i] \notin {"flush", "sync"} =>
                    seen[i] = "ended" \/ (req[i] = "query" /\ seen[i] = "between")
    BY DEF HandlerContract
  <2>2. /\ i > fsm.cur => seen[i] = "nothing"
        /\ i < fsm.cur => seen[i] \in Reported(req[i])
        /\ i = fsm.cur => <<fsm.st, seen[i]>> \in Told(req[i])
    BY <2>1 DEF InformedInv, Informed
  <2>3. i > fsm.cur \/ i < fsm.cur \/ i = fsm.cur
    BY <2>1 DEF ResponseInv, Fsms
  <2>4. i < fsm.cur => /\ seen[i] # "broken"
                       /\ req[i] \in {"flush", "sync"} => seen[i] = "nothing"
                       /\ req[i] \notin {"flush", "sync"} =>
                            seen[i] = "ended" \/ (req[i] = "query" /\ seen[i] = "between")
    BY <2>2 DEF Reported
  <2>5. i = fsm.cur => /\ seen[i] # "broken"
                       /\ req[i] \in {"flush", "sync"} => seen[i] = "nothing"
    BY <2>2 DEF Told
  <2>6. i = fsm.cur => ~ (i < fsm.cur) /\ ~ (i > fsm.cur)
    BY <2>1 DEF ResponseInv, Fsms
  <2>7. i > fsm.cur => ~ (i < fsm.cur)
    BY <2>1 DEF ResponseInv, Fsms
  <2> QED BY <2>2, <2>3, <2>4, <2>5, <2>6, <2>7
<1>2. Spec => []InformedInv
  BY InitInformed, NextInformed, ResponseInvariant, PTL DEF Spec
<1> QED BY <1>1, <1>2, ResponseInvariant, PTL

-----------------------------------------------------------------------------
(* What the setup() functions of the handlers answer.                      *)

\* What a setup() may answer: an offset, or that the response does not fit.
Answers == [ec : {"ok", "incompatible_response_type"}, offset : Nat]

LEMMA MaxOfTwo ==
  ASSUME NEW i \in Int, NEW j \in Int
  PROVE  Max({i, j}) = IF i >= j THEN i ELSE j
<1> DEFINE m == IF i >= j THEN i ELSE j
<1>1. m \in {i, j} /\ \A y \in {i, j} : m >= y
  OBVIOUS
<1>2. \A x \in {i, j} : (\A y \in {i, j} : x >= y) => x = m
  OBVIOUS
<1> QED BY <1>1, <1>2 DEF Max

LEMMA SkipSyncsIs ==
  ASSUME NEW r \in Seq(MessageTypes), NEW i \in Nat
  PROVE  SkipSyncs(r, i) \in Nat /\ SkipSyncs(r, i) >= i
<1> DEFINE m == Max({i, Len(r) + 1})
           P(j) == /\ j <= Len(r) => r[j] \notin {"sync", "flush"}
                   /\ \A k \in i..(j - 1) : r[k] \in {"sync", "flush"}
           S == {j \in i..m : j <= Len(r) => r[j] \notin {"sync", "flush"}}
<1>1. m = (IF i >= Len(r) + 1 THEN i ELSE Len(r) + 1) /\ m \in Nat /\ m >= i /\ m > Len(r)
  BY MaxOfTwo
<1> HIDE DEF m
<1>2. m \in S /\ S \in SUBSET Nat
  BY <1>1
<1>3. PICK p \in S : \A j \in S : p <= j
  <2>1. S # {}
    BY <1>2
  <2> HIDE DEF S
  <2> QED BY <2>1, <1>2, Least
<1>4. \A k \in i..(p - 1) : k \in i..m /\ ~ (p <= k)
  BY <1>1, <1>3
<1>5. \A k \in i..(p - 1) : r[k] \in {"sync", "flush"}
  BY <1>3, <1>4
<1>6. p \in i..m /\ P(p)
  BY <1>3, <1>5
<1>7. SkipSyncs(r, i) = CHOOSE j \in i..m : P(j)
  BY DEF SkipSyncs, m
<1>8. SkipSyncs(r, i) \in i..m
  BY <1>6, <1>7
<1> QED BY <1>1, <1>8

LEMMA MinOfSome ==
  ASSUME NEW S \in SUBSET Nat, S # {}
  PROVE  Min(S) \in S
BY Least, ZenonT(30) DEF Min

\* resultset_setup() goes on from where it was called.
LEMMA ResultsetSetupGoesOn ==
  ASSUME NEW r \in Seq(MessageTypes), NEW offset \in Nat,
         NEW res \in ResultsetSetup(r, offset)
  PROVE  res \in Answers /\ (res.ec = "ok" => res.offset > offset)
<1> DEFINE it == SkipSyncs(r, offset + 1)
           executes == {i \in it..Len(r) : r[i] = "execute"}
           e == Min(executes)
           end == SkipSyncs(r, e + 1) - 1
<1>1. it \in Nat /\ it >= offset + 1
  BY SkipSyncsIs
<1>2. executes # {} => e \in Nat /\ e >= it
  <2>1. executes \in SUBSET Nat
    BY <1>1
  <2>2. executes # {} => e \in executes
    <3> HIDE DEF executes
    <3> QED BY <2>1, MinOfSome
  <2> QED BY <2>2, <1>1
<1>3. executes # {} => end \in Nat /\ end > offset
  <2> HIDE DEF it, executes, e
  <2> DEFINE s == SkipSyncs(r, e + 1)
  <2>1. executes # {} => e + 1 \in Nat
    BY <1>2
  <2>2. executes # {} => s \in Nat /\ s >= e + 1
    BY <2>1, SkipSyncsIs, Zenon
  <2> HIDE DEF s
  <2>3. executes # {} => s - 1 \in Nat /\ s - 1 > offset
    BY <2>2, <1>1, <1>2
  <2> QED BY <2>3 DEF s
<1>4. \/ res = Incompatible
      \/ res = UpTo(it)
      \/ executes # {} /\ res = UpTo(end)
  BY DEF ResultsetSetup
<1> HIDE DEF it, executes, e, end
<1> QED BY <1>1, <1>3, <1>4 DEF Incompatible, UpTo, Answers

LEMMA CheckSetupAnswers ==
  ASSUME NEW r \in Seq(MessageTypes), NEW offset \in Nat, NEW type,
         NEW res \in CheckSetup(r, offset, type)
  PROVE  res \in Answers
<1> DEFINE it == SkipSyncs(r, offset + 1)
           end == SkipSyncs(r, it + 1) - 1
<1>1. it \in Nat
  BY SkipSyncsIs
<1>2. end \in Nat
  <2> HIDE DEF it
  <2> QED BY <1>1, SkipSyncsIs
<1>3. res = Incompatible \/ res = UpTo(end)
  BY DEF CheckSetup
<1> HIDE DEF end
<1> QED BY <1>2, <1>3 DEF Incompatible, UpTo, Answers

\* The loop of resultsets_handler::setup(), one round.
ResultsetsRound(r, from, o) ==
  UNION {IF res.ec # "ok" \/ res.offset >= Len(r) THEN {res} ELSE from[res.offset] :
         res \in ResultsetSetup(r, o)}

LEMMA RoundLooksAhead ==
  ASSUME NEW r \in Seq(MessageTypes), NEW o \in Nat, NEW F, NEW G, 
         \A p \in (o + 1)..Len(r) : F[p] = G[p]
  PROVE  ResultsetsRound(r, F, o) = ResultsetsRound(r, G, o)
<1> DEFINE V(f, res) == IF res.ec # "ok" \/ res.offset >= Len(r) THEN {res} ELSE f[res.offset]
           S == ResultsetSetup(r, o)
<1>1. \A res \in S : V(F, res) = V(G, res)
  <2>1. SUFFICES ASSUME NEW res \in S, ~ (res.ec # "ok" \/ res.offset >= Len(r))
                 PROVE  F[res.offset] = G[res.offset]
    OBVIOUS
  <2>2. res \in Answers /\ res.offset > o
    BY <2>1, ResultsetSetupGoesOn
  <2>3. res.offset \in (o + 1)..Len(r)
    BY <2>1, <2>2 DEF Answers
  <2> QED BY <2>3
<1> HIDE DEF S
<1>2. {V(F, res) : res \in S} = {V(G, res) : res \in S}
  <2> HIDE DEF V
  <2> QED BY <1>1
<1>3. ResultsetsRound(r, F, o) = UNION {V(F, res) : res \in S}
  BY DEF ResultsetsRound, S
<1>4. ResultsetsRound(r, G, o) = UNION {V(G, res) : res \in S}
  BY DEF ResultsetsRound, S
<1> QED BY <1>2, <1>3, <1>4, ZenonT(30)

\* The loop comes to an end, because every round goes on in the request.
LEMMA ResultsetsSetupStep ==
  ASSUME NEW r \in Seq(MessageTypes), NEW offset \in Nat
  PROVE  \E from : /\ \A o \in 0..Max({offset, Len(r)}) : from[o] = ResultsetsRound(r, from, o)
                   /\ ResultsetsSetup(r, offset) = from[offset]
<1> DEFINE m == Max({offset, Len(r)})
           Has(d) == \E F : \A o \in (m - d)..m : F[o] = ResultsetsRound(r, F, o)
           S == {d \in 0..m : ~ Has(d)}
<1>1. m \in Nat /\ m >= Len(r) /\ m >= offset /\ Len(r) \in Nat
  BY MaxOfTwo
<1> HIDE DEF m
<1>2. S = {}
  <2>1. SUFFICES ASSUME S # {} PROVE FALSE
    OBVIOUS
  <2>2. PICK d \in S : \A q \in S : d <= q
    <3>1. S \in SUBSET Nat /\ S # {}
      BY <2>1
    <3> HIDE DEF S
    <3> QED BY <3>1, Least
  <2>3. d \in 0..m /\ ~ Has(d) /\ \A n \in 0..m : n < d => Has(n)
    <3> HIDE DEF Has
    <3> QED BY <2>2
  <2> HIDE DEF S
  <2>4. PICK F : \A o \in (m - d + 1)..m : F[o] = ResultsetsRound(r, F, o)
    <3>1. CASE d = 0
      <4>1. (m - d + 1)..m = {}
        BY <3>1, <1>1
      <4> QED BY <4>1
    <3>2. CASE d # 0
      <4>1. d - 1 \in 0..m /\ d - 1 < d /\ m - (d - 1) = m - d + 1
        BY <3>2, <2>3, <1>1
      <4>2. Has(d - 1)
        <5> HIDE DEF Has
        <5> QED BY <4>1, <2>3
      <4> QED BY <4>1, <4>2
    <3> QED BY <3>1, <3>2
  <2> DEFINE a == m - d
             b == ResultsetsRound(r, F, a)
             G == [o \in a..m |-> IF o = a THEN b ELSE F[o]]
  <2>5. /\ a \in Nat /\ a \in a..m /\ G[a] = b
        /\ \A o \in (a + 1)..m : o # a /\ o \in a..m /\ G[o] = F[o]
        /\ \A o \in a..m : o \in Nat /\ (o = a \/ o \in (a + 1)..m)
        /\ \A o \in a..m : \A p \in (o + 1)..Len(r) : p \in (a + 1)..m
    BY <2>3, <1>1
  <2>6. b = ResultsetsRound(r, F, a)
    OBVIOUS
  <2> HIDE DEF G, b
  <2>7. \A o \in a..m : \A p \in (o + 1)..Len(r) : F[p] = G[p]
    BY <2>5
  <2>8. \A o \in a..m : ResultsetsRound(r, F, o) = ResultsetsRound(r, G, o)
    BY <2>5, <2>7, RoundLooksAhead
  <2>9. \A o \in a..m : G[o] = ResultsetsRound(r, G, o)
    <3> HIDE DEF a
    <3>1. \A o \in (a + 1)..m : F[o] = ResultsetsRound(r, F, o)
      BY <2>4 DEF a
    <3> QED BY <3>1, <2>5, <2>6, <2>8
  <2>10. Has(d)
    BY <2>9
  <2> QED BY <2>3, <2>10
<1>3. Has(m)
  <2> HIDE DEF Has
  <2> QED BY <1>1, <1>2
<1>4. PICK F : \A o \in 0..m : F[o] = ResultsetsRound(r, F, o)
  <2>1. m - m = 0
    BY <1>1
  <2> QED BY <1>3, <2>1
<1> DEFINE Loop(f) == [o \in 0..m |-> ResultsetsRound(r, f, o)]
           W == [o \in 0..m |-> F[o]]
<1>5. W = Loop(W)
  <2>1. \A o \in 0..m : W[o] = F[o] /\ o \in Nat /\ \A p \in (o + 1)..Len(r) : p \in 0..m
    BY <1>1
  <2>2. \A o \in 0..m : \A p \in (o + 1)..Len(r) : F[p] = W[p]
    BY <2>1
  <2>3. \A o \in 0..m : F[o] = ResultsetsRound(r, W, o)
    <3> HIDE DEF W
    <3> QED BY <1>4, <2>1, <2>2, RoundLooksAhead
  <2> QED BY <2>3
<1> DEFINE from == CHOOSE f : f = Loop(f)
<1>6. from = Loop(from)
  BY <1>5, ZenonT(30)
<1>7. ResultsetsSetup(r, offset) = from[offset]
  BY DEF ResultsetsSetup, ResultsetsRound, m
<1> HIDE DEF from
<1>8. \A o \in 0..m : from[o] = ResultsetsRound(r, from, o)
  BY <1>6, ZenonT(30)
<1> QED BY <1>7, <1>8, ZenonT(30) DEF m

LEMMA ResultsetsSetupAnswers ==
  ASSUME NEW r \in Seq(MessageTypes), NEW offset \in Nat
  PROVE  ResultsetsSetup(r, offset) \subseteq Answers
<1> DEFINE m == Max({offset, Len(r)})
<1>1. m \in Nat /\ m >= Len(r) /\ m >= offset /\ Len(r) \in Nat
  BY MaxOfTwo
<1>2. PICK from : /\ \A o \in 0..m : from[o] = ResultsetsRound(r, from, o)
                  /\ ResultsetsSetup(r, offset) = from[offset]
  BY ResultsetsSetupStep
<1> DEFINE S == {d \in 0..m : ~ (from[m - d] \subseteq Answers)}
<1> HIDE DEF m
<1>3. S = {}
  <2>1. SUFFICES ASSUME S # {} PROVE FALSE
    OBVIOUS
  <2>2. PICK d \in S : \A q \in S : d <= q
    <3>1. S \in SUBSET Nat /\ S # {}
      BY <2>1
    <3> HIDE DEF S
    <3> QED BY <3>1, Least
  <2>3. /\ d \in 0..m /\ ~ (from[m - d] \subseteq Answers)
        /\ \A n \in 0..m : n < d => from[m - n] \subseteq Answers
    BY <2>2
  <2>4. \A p \in (m - d + 1)..m : from[p] \subseteq Answers
    <3>1. \A p \in (m - d + 1)..m : m - p \in 0..m /\ m - p < d /\ m - (m - p) = p
      BY <2>3, <1>1
    <3> QED BY <3>1, <2>3
  <2>5. m - d \in 0..m /\ m - d \in Nat
    BY <2>3, <1>1
  <2>6. ResultsetsRound(r, from, m - d) \subseteq Answers
    <3>1. SUFFICES ASSUME NEW res \in ResultsetSetup(r, m - d)
                   PROVE  (IF res.ec # "ok" \/ res.offset >= Len(r) THEN {res} ELSE from[res.offset])
                            \subseteq Answers
      BY DEF ResultsetsRound
    <3>2. res \in Answers /\ (res.ec = "ok" => res.offset > m - d)
      BY <2>5, ResultsetSetupGoesOn
    <3>3. ASSUME ~ (res.ec # "ok" \/ res.offset >= Len(r)) PROVE res.offset \in (m - d + 1)..m
      BY <3>2, <3>3, <2>5, <1>1 DEF Answers
    <3> QED BY <3>2, <3>3, <2>4
  <2> QED BY <2>3, <2>5, <2>6, <1>2
<1>4. m - offset \in 0..m /\ m - (m - offset) = offset
  BY <1>1
<1> QED BY <1>2, <1>3, <1>4

LEMMA HandlerSetupAnswers ==
  ASSUME NEW r \in Seq(MessageTypes), NEW offset \in Nat, NEW kind \in Kinds
  PROVE  HandlerSetup(kind, r, offset) \subseteq Answers
<1>1. {UpTo(Len(r))} \subseteq Answers
  BY DEF UpTo, Answers
<1>2. \A type : CheckSetup(r, offset, type) \subseteq Answers
  BY CheckSetupAnswers
<1>3. ResultsetsSetup(r, offset) \subseteq Answers /\ ResultsetSetup(r, offset) \subseteq Answers
  BY ResultsetsSetupAnswers, ResultsetSetupGoesOn
<1> QED BY <1>1, <1>2, <1>3 DEF HandlerSetup, Kinds

\* The handlers of a response, which response::setup() asks one after another.
AreHandlers(hs) == Len(hs) \in Nat /\ \A i \in 1..Len(hs) : hs[i].kind \in Kinds

\* The loop of response_setup(), one handler.
Asked(r, hs, i, p) ==
  IF p.ec # "ok" THEN {p}
  ELSE {[ec |-> res.ec, offsets |-> Append(p.offsets, res.offset)] :
          res \in HandlerSetup(hs[i].kind, r, IF i = 1 THEN 0 ELSE p.offsets[i - 1])}

ResponseRound(r, hs, upto, i) ==
  IF i = 0 THEN {[ec |-> "ok", offsets |-> <<>>]}
  ELSE UNION {Asked(r, hs, i, p) : p \in upto[i - 1]}

LEMMA ResponseSetupStep ==
  ASSUME NEW r, NEW hs, AreHandlers(hs)
  PROVE  \E upto : /\ \A i \in 0..Len(hs) : upto[i] = ResponseRound(r, hs, upto, i)
                   /\ ResponseSetup(r, hs) = upto[Len(hs)]
<1> DEFINE m == Len(hs)
           Body(F, i) == ResponseRound(r, hs, F, i)
           Has(n) == \E F : \A i \in 0..n : F[i] = Body(F, i)
           S == {n \in 0..m : ~ Has(n)}
<1>1. m \in Nat
  BY DEF AreHandlers
<1>2. \A F, G, i : (i # 0 => F[i - 1] = G[i - 1]) => Body(F, i) = Body(G, i)
  BY ZenonT(30) DEF ResponseRound
<1>3. ResponseSetup(r, hs) = LET upto == CHOOSE f : f = [i \in 0..m |-> Body(f, i)] IN upto[m]
  BY DEF ResponseSetup, ResponseRound, Asked
<1> HIDE DEF m, Body
<1>4. S = {}
  <2>1. SUFFICES ASSUME S # {} PROVE FALSE
    OBVIOUS
  <2>2. PICK p \in S : \A q \in S : p <= q
    <3>1. S \in SUBSET Nat /\ S # {}
      BY <2>1
    <3> HIDE DEF S
    <3> QED BY <3>1, Least
  <2>3. p \in 0..m /\ ~ Has(p) /\ \A n \in 0..m : n < p => Has(n)
    <3> HIDE DEF Has
    <3> QED BY <2>2
  <2> HIDE DEF S
  <2>4. PICK F : \A i \in 0..(p - 1) : F[i] = Body(F, i)
    <3>1. CASE p = 0
      <4>1. 0..(p - 1) = {}
        BY <3>1
      <4> QED BY <4>1
    <3>2. CASE p # 0
      <4>1. p - 1 \in 0..m /\ p - 1 < p
        BY <3>2, <2>3, <1>1
      <4>2. Has(p - 1)
        <5> HIDE DEF Has
        <5> QED BY <4>1, <2>3
      <4> QED BY <4>2
    <3> QED BY <3>1, <3>2
  <2> DEFINE b == Body(F, p)
             G == [i \in 0..p |-> IF i = p THEN b ELSE F[i]]
  <2>5. /\ p \in 0..p /\ G[p] = b
        /\ \A i \in 0..(p - 1) : G[i] = F[i]
        /\ \A i \in 0..p : /\ i = p \/ i \in 0..(p - 1)
                           /\ i # 0 => i - 1 \in 0..(p - 1)
    BY <2>3
  <2>6. b = Body(F, p)
    OBVIOUS
  <2> HIDE DEF G, b
  <2>7. \A i \in 0..p : Body(F, i) = Body(G, i)
    BY <2>5, <1>2
  <2>8. \A i \in 0..p : G[i] = Body(G, i)
    BY <2>4, <2>5, <2>6, <2>7
  <2> QED BY <2>3, <2>8
<1>5. Has(m)
  <2> HIDE DEF Has
  <2> QED BY <1>1, <1>4
<1>6. PICK F : \A i \in 0..m : F[i] = Body(F, i)
  BY <1>5
<1> DEFINE Loop(f) == [i \in 0..m |-> Body(f, i)]
           W == [i \in 0..m |-> F[i]]
<1>7. W = Loop(W)
  <2>1. \A i \in 0..m : W[i] = F[i] /\ (i # 0 => F[i - 1] = W[i - 1])
    BY <1>1
  <2>2. \A i \in 0..m : Body(F, i) = Body(W, i)
    <3> HIDE DEF W
    <3> QED BY <2>1, <1>2
  <2> QED BY <2>2, <1>6
<1> DEFINE upto == CHOOSE f : f = Loop(f)
<1>8. upto = Loop(upto)
  BY <1>7, ZenonT(30)
<1>9. ResponseSetup(r, hs) = upto[m]
  BY <1>3
<1> HIDE DEF upto
<1>10. \A i \in 0..m : upto[i] = Body(upto, i)
  BY <1>8, ZenonT(30)
<1> QED BY <1>9, <1>10 DEF m, Body

\* What the handlers up to the i-th have answered.
Partial(i) ==
  {p \in [ec : {"ok", "incompatible_response_type"}, offsets : Seq(Nat)] :
     p.ec = "ok" => Len(p.offsets) = i}

LEMMA AskedPartial ==
  ASSUME NEW r \in Seq(MessageTypes), NEW hs, AreHandlers(hs), NEW i \in 1..Len(hs),
         NEW p \in Partial(i - 1)
  PROVE  Asked(r, hs, i, p) \subseteq Partial(i)
<1>1. CASE p.ec # "ok"
  <2>1. p \in Partial(i)
    BY <1>1 DEF Partial
  <2>2. Asked(r, hs, i, p) = {p}
    BY <1>1 DEF Asked
  <2> QED BY <2>1, <2>2
<1>2. CASE p.ec = "ok"
  <2> DEFINE o == IF i = 1 THEN 0 ELSE p.offsets[i - 1]
  <2>1. p.offsets \in Seq(Nat) /\ Len(p.offsets) = i - 1 /\ i \in Nat
    BY <1>2 DEF Partial, AreHandlers
  <2>2. o \in Nat
    <3>1. i # 1 => i - 1 \in 1..Len(p.offsets)
      BY <2>1 DEF AreHandlers
    <3> QED BY <3>1, <2>1
  <2>3. hs[i].kind \in Kinds
    BY DEF AreHandlers
  <2> HIDE DEF o
  <2>4. ASSUME NEW res \in HandlerSetup(hs[i].kind, r, o)
        PROVE  [ec |-> res.ec, offsets |-> Append(p.offsets, res.offset)] \in Partial(i)
    <3>1. res \in Answers
      BY <2>2, <2>3, <2>4, HandlerSetupAnswers
    <3>2. res.ec \in {"ok", "incompatible_response_type"} /\ res.offset \in Nat
      BY <3>1 DEF Answers
    <3>3. Append(p.offsets, res.offset) \in Seq(Nat) /\ Len(Append(p.offsets, res.offset)) = i
      BY <3>2, <2>1
    <3> QED BY <3>2, <3>3 DEF Partial
  <2>5. Asked(r, hs, i, p) = {[ec |-> res.ec, offsets |-> Append(p.offsets, res.offset)] :
                                res \in HandlerSetup(hs[i].kind, r, o)}
    BY <1>2 DEF Asked, o
  <2> QED BY <2>4, <2>5
<1> QED BY <1>1, <1>2

LEMMA ResponseSetupAnswers ==
  ASSUME NEW r \in Seq(MessageTypes), NEW hs, AreHandlers(hs)
  PROVE  ResponseSetup(r, hs) \subseteq Partial(Len(hs))
<1> DEFINE m == Len(hs)
<1>1. m \in Nat
  BY DEF AreHandlers
<1>2. PICK upto : /\ \A i \in 0..m : upto[i] = ResponseRound(r, hs, upto, i)
                  /\ ResponseSetup(r, hs) = upto[m]
  BY ResponseSetupStep
<1> DEFINE S == {i \in 0..m : ~ (upto[i] \subseteq Partial(i))}
<1>3. S = {}
  <2> HIDE DEF m
  <2>1. SUFFICES ASSUME S # {} PROVE FALSE
    OBVIOUS
  <2>2. PICK i \in S : \A q \in S : i <= q
    <3>1. S \in SUBSET Nat /\ S # {}
      BY <2>1
    <3> HIDE DEF S
    <3> QED BY <3>1, Least
  <2>3. /\ i \in 0..m /\ ~ (upto[i] \subseteq Partial(i))
        /\ \A n \in 0..m : n < i => upto[n] \subseteq Partial(n)
    BY <2>2
  <2> HIDE DEF S
  <2>4. CASE i = 0
    <3>1. upto[i] = {[ec |-> "ok", offsets |-> <<>>]}
      BY <2>3, <2>4, <1>2, ZenonT(30) DEF ResponseRound
    <3>2. [ec |-> "ok", offsets |-> <<>>] \in Partial(0)
      BY DEF Partial
    <3> QED BY <3>1, <3>2, <2>3, <2>4
  <2>5. CASE i # 0
    <3>1. i - 1 \in 0..m /\ i - 1 < i /\ i \in 1..m
      BY <2>3, <2>5, <1>1
    <3>2. upto[i] = UNION {Asked(r, hs, i, p) : p \in upto[i - 1]}
      BY <2>3, <2>5, <1>2, ZenonT(30) DEF ResponseRound
    <3>3. \A p \in upto[i - 1] : p \in Partial(i - 1)
      BY <2>3, <3>1
    <3>4. \A p \in upto[i - 1] : Asked(r, hs, i, p) \subseteq Partial(i)
      BY <3>1, <3>3, AskedPartial DEF m
    <3> QED BY <3>2, <3>4, <2>3
  <2> QED BY <2>4, <2>5
<1>4. m \in 0..m
  BY <1>1
<1> QED BY <1>2, <1>3, <1>4

LEMMA SetupRequestAnswers ==
  ASSUME NEW r \in Seq(MessageTypes), NEW hs, AreHandlers(hs), NEW res \in SetupRequest(r, hs)
  PROVE  IF CheckRequest(r) = "ok"
         THEN res.ec \in {"ok", "incompatible_response_type", "incompatible_response_length"}
         ELSE res.ec = CheckRequest(r)
<1>1. CASE CheckRequest(r) # "ok"
  <2>1. res = [ec |-> CheckRequest(r), offsets |-> <<>>]
    BY <1>1 DEF SetupRequest
  <2> QED BY <2>1, <1>1
<1>2. CASE CheckRequest(r) = "ok"
  <2>1. PICK p \in ResponseSetup(r, hs) :
          res = [p EXCEPT !.ec = IF @ = "ok" /\ p.offsets[Len(p.offsets)] # Len(r)
                                 THEN "incompatible_response_length" ELSE @]
    BY <1>2 DEF SetupRequest
  <2>2. p \in Partial(Len(hs))
    BY <2>1, ResponseSetupAnswers
  <2>3. /\ p \in [ec : {"ok", "incompatible_response_type"}, offsets : Seq(Nat)]
        /\ p.ec \in {"ok", "incompatible_response_type"}
    BY <2>2 DEF Partial
  <2>4. res.ec = IF p.ec = "ok" /\ p.offsets[Len(p.offsets)] # Len(r) THEN "incompatible_response_length" ELSE p.ec
    BY <2>1, <2>3
  <2> QED BY <2>3, <2>4, <1>2
<1> QED BY <1>1, <1>2

\* The inductive invariant: the handlers are asked as they were made.
AcceptsInv == AcceptsWholeUnits /\ (phase = "setup" => AreHandlers(resp.handlers))

LEMMA InitAccepts == Init => AcceptsInv
<1>1. SUFFICES ASSUME Init PROVE AcceptsInv
  OBVIOUS
<1>2. PICK job \in Jobs, new \in BOOLEAN :
        resp = NewResponse([i \in DOMAIN job.kinds |->
                 IF new THEN NewHandler(job.kinds[i]) ELSE UsedHandler(job.kinds[i])])
  BY <1>1 DEF Init
<1>3. job.kinds \in Seq(Kinds)
  BY ResponseParams
<1> DEFINE h(i) == IF new THEN NewHandler(job.kinds[i]) ELSE UsedHandler(job.kinds[i])
           hs == [i \in DOMAIN job.kinds |-> h(i)]
           T == {h(i) : i \in DOMAIN job.kinds}
<1>4. resp.handlers = hs
  BY <1>2 DEF NewResponse
<1>5. Len(job.kinds) \in Nat /\ DOMAIN job.kinds = 1..Len(job.kinds)
  BY <1>3
<1>6. \A i \in DOMAIN job.kinds : h(i).kind = job.kinds[i] /\ job.kinds[i] \in Kinds
  BY <1>3 DEF NewHandler, UsedHandler
<1>7. hs \in Seq(T) /\ Len(hs) = Len(job.kinds)
  <2> HIDE DEF h
  <2>1. hs \in [1..Len(job.kinds) -> T]
    BY <1>5
  <2> QED BY <2>1, <1>5
<1>8. AreHandlers(hs)
  <2>1. \A i \in 1..Len(hs) : hs[i] = h(i)
    BY <1>5, <1>7
  <2> HIDE DEF hs, h
  <2> QED BY <2>1, <1>5, <1>6, <1>7 DEF AreHandlers
<1>9. phase = "setup"
  BY <1>1 DEF Init
<1> QED BY <1>4, <1>8, <1>9 DEF AcceptsInv, AcceptsWholeUnits

LEMMA NextAccepts == ResponseInv /\ AcceptsInv /\ [Next]_vars => AcceptsInv'
<1>1. SUFFICES ASSUME ResponseInv, AcceptsInv, [Next]_vars PROVE AcceptsInv'
  OBVIOUS
<1>2. ASSUME NEW k, NEW data, phase = "reading", req' = req, Deliver(k, data)
      PROVE  AcceptsInv'
  <2>1. WellFormed(req)
    BY <1>1, <1>2 DEF ResponseInv
  <2>2. phase' \in {"reading", "done"}
    BY <1>2 DEF Deliver
  <2> QED BY <2>1, <2>2, <1>2 DEF AcceptsInv, AcceptsWholeUnits
<1>3. CASE Setup
  <2>1. req \in Seq(MessageTypes) /\ AreHandlers(resp.handlers) /\ req' = req
    BY <1>1, <1>3 DEF ResponseInv, AcceptsInv, Setup
  <2>2. PICK res \in SetupRequest(req, resp.handlers) :
          ec' = res.ec /\ phase' = (IF ec' = "ok" THEN "reading" ELSE "rejected")
    BY <1>3 DEF Setup
  <2>3. IF CheckRequest(req) = "ok"
        THEN ec' \in {"ok", "incompatible_response_type", "incompatible_response_length"}
        ELSE ec' = CheckRequest(req)
    BY <2>1, <2>2, SetupRequestAnswers
  <2>4. WellFormed(req) <=> CheckRequest(req) = "ok"
    BY <2>1, CheckRequestExact
  <2>5. CheckRequest(req) \in {"ok", "empty_request", "request_mixes_simple_advanced_protocols",
                               "request_ends_without_sync"}
    BY DEF CheckRequest
  <2>6. phase' # "setup" /\ (~ WellFormed(req) <=>
          phase' = "rejected" /\ ec' \notin {"incompatible_response_type", "incompatible_response_length"})
    BY <2>2, <2>3, <2>4, <2>5
  <2> QED BY <2>1, <2>6 DEF AcceptsInv, AcceptsWholeUnits
<1>4. CASE BackendPassesOver
  <2>1. UNCHANGED <<req, phase, ec>> /\ phase = "reading"
    BY <1>4 DEF BackendPassesOver
  <2> QED BY <2>1, <1>1 DEF AcceptsInv, AcceptsWholeUnits
<1>5. CASE BackendReplies
  <2>1. PICK reply \in Replies(req, srv) : \E data \in DataOf(reply[1]) : Deliver(reply[1], data)
    BY <1>5 DEF BackendReplies
  <2>2. PICK data \in DataOf(reply[1]) : Deliver(reply[1], data)
    BY <2>1
  <2>3. phase = "reading" /\ req' = req
    BY <1>5 DEF BackendReplies
  <2> QED BY <2>2, <2>3, <1>2
<1>6. CASE BackendInterjects
  <2>1. PICK k \in AsyncKinds : Deliver(k, <<>>)
    BY <1>6 DEF BackendInterjects
  <2>2. phase = "reading" /\ req' = req
    BY <1>6 DEF BackendInterjects
  <2> QED BY <2>1, <2>2, <1>2
<1>7. CASE UNCHANGED vars
  BY <1>7, <1>1 DEF vars, AcceptsInv, AcceptsWholeUnits
<1> QED BY <1>1, <1>3, <1>4, <1>5, <1>6, <1>7 DEF Next

\* For every request and whatever handlers it has: setup_request() refuses it for
\* its messages exactly when they are not whole units, whatever the handlers answer.
THEOREM AcceptsWholeUnitsHolds == Spec => []AcceptsWholeUnits
<1>1. Spec => []AcceptsInv
  BY InitAccepts, NextAccepts, ResponseInvariant, PTL DEF Spec
<1>2. AcceptsInv => AcceptsWholeUnits
  BY DEF AcceptsInv
<1> QED BY <1>1, <1>2, PTL
=============================================================================
