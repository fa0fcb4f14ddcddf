---------------------- MODULE MCMultiplexedConnection ----------------------
EXTENDS MultiplexedConnection

CONSTANTS e1, e2, e3

\* A request with two batches, where an error in the first skips the rest of the
\* first only, a query, and a request that check_request() rejects.
MixedRequests ==
  [e \in {e1, e2, e3} |->
     CASE e = e1 -> <<"parse", "bind", "sync", "describe", "sync">>
       [] e = e2 -> <<"query">>
       [] e = e3 -> <<"parse", "query">>]

\* Short requests: one with a batch that is skipped after an error, and single
\* syncs.
Short(e) == IF e = e1 THEN <<"parse", "sync", "sync">> ELSE <<"sync">>

ShortRequests == [e \in Execs |-> Short(e)]
=============================================================================
