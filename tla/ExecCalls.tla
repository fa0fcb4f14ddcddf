----------------------------- MODULE ExecCalls -----------------------------
(***************************************************************************)
(* The calls to exec() that share a multiplexed connection.                *)
(***************************************************************************)
EXTENDS Request

CONSTANTS
  Execs,    \* the calls to exec(), each made at most once
  RequestOf \* the request of each call

ASSUME ExecParams == RequestOf \in [Execs -> Seq(MessageTypes)]

None == "none"  \* owner of the messages that answer no request

ASSUME NoneIsNoCall == None \notin Execs
=============================================================================
