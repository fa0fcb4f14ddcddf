------------------------------ MODULE Request ------------------------------
(***************************************************************************)
(* A request: the sequence of types that request::messages() returns, and  *)
(* the two scans that the library makes over it before and after sending.  *)
(***************************************************************************)
EXTENDS Integers, Sequences, FiniteSets

MessageTypes ==
  {"bind", "close", "describe", "execute", "flush", "parse", "query", "sync"}

\* The types of the extended query protocol, which open a batch.
ExtendedTypes == MessageTypes \ {"query", "sync"}

\* The loop of check_request(): InBatch(r)[i] is is_extended_batch after i messages.
InBatch(r) ==
  LET inBatch[i \in 0..Len(r)] ==
        IF i = 0 THEN FALSE
        ELSE IF r[i] = "sync" THEN FALSE
        ELSE IF r[i] = "query" THEN inBatch[i - 1]
        ELSE TRUE
  IN  inBatch

QueryNotInspected(r) ==  \* mutant: a query in the middle of a batch is let through
  IF r = <<>> THEN "empty_request"
  ELSE IF InBatch(r)[Len(r)] THEN "request_ends_without_sync" ELSE "ok"

\* check_request()
CheckRequest(r) ==
  IF r = <<>> THEN "empty_request"
  ELSE IF \E i \in 1..Len(r) : r[i] = "query" /\ InBatch(r)[i - 1]
       THEN "request_mixes_simple_advanced_protocols"
  ELSE IF InBatch(r)[Len(r)] THEN "request_ends_without_sync" ELSE "ok"

\* What setup_request() may return for a handler that may not fit the request.
SetupOutcomes(r) ==
  IF CheckRequest(r) # "ok" THEN {CheckRequest(r)} ELSE {"ok", "incompatible_response"}

\* What check_request() is for: every extended message belongs to a batch that
\* a sync closes and no query interrupts.
WellFormed(r) ==
  /\ r # <<>>
  /\ \A i \in 1..Len(r) : r[i] \in ExtendedTypes =>
       \E j \in i..Len(r) : r[j] = "sync" /\ \A k \in i..j : r[k] # "query"

\* get_expected_rfqs(msgs.subspan(from)): how many ReadyForQuery messages the
\* server owes for the messages of r that start at position from.
RfqPositions(r, from) == {i \in from..Len(r) : r[i] \in {"query", "sync"}}

CountSyncsOnly(r, from) ==  \* mutant: simple queries are forgotten
  Cardinality({i \in from..Len(r) : r[i] = "sync"})

GetExpectedRfqs(r, from) == Cardinality(RfqPositions(r, from))
=============================================================================
