--------------------------- MODULE MCCoConnection ---------------------------
(***************************************************************************)
(* A query that may answer with COPY OUT and a call after it; and a        *)
(* pipeline, two requests that are refused and a pipeline with a flush.    *)
(***************************************************************************)
EXTENDS CoConnection

Copying ==
  <<[api |-> "exec_some", req |-> <<"query">>], [api |-> "exec", req |-> <<"sync">>]>>

Mixed ==
  <<[api |-> "exec_some", req |-> <<"bind", "execute", "sync">>],
    [api |-> "exec_some", req |-> <<"bind">>],
    [api |-> "exec", req |-> <<>>],
    [api |-> "exec", req |-> <<"parse", "flush", "sync">>]>>

MixedPlans == {Copying, Mixed}
=============================================================================
