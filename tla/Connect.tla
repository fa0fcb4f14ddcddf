------------------------------ MODULE Connect ------------------------------
(***************************************************************************)
(* co_connection::connect(): connect_fsm, startup_fsm, startup_fsm_impl and *)
(* scram_sha256_fsm over a socket, against a server that may approve,       *)
(* refuse, ask for any authentication method, answer out of order or break  *)
(* the connection.  An application calls connect() several times, on the    *)
(* connection object of the last call (as the pool and the multiplexed      *)
(* connection do) or on a new one.                                          *)
(*                                                                         *)
(* A step of the client is one resumption of connect_fsm up to the next     *)
(* read or write, except that each message that is handled is a step.  The  *)
(* unit of the stream is a message; CoConnection cuts it into bytes.        *)
(***************************************************************************)
EXTENDS Scram

CONSTANTS
  Passwords,       \* passwords; the client's is "p1"
  Nonces,          \* what generate_nonce() may return
  MaxAttempts,     \* bound: calls of connect()
  MaxExtra,        \* bound: parameter_status and notice messages per session
  Faulty           \* does the server also send what no server should?

ASSUME ConnectParams ==
  /\ "p1" \in Passwords
  /\ Nonces # {} /\ Nonces \cap {Comma, "unprintable", "other_nonce"} = {}
  /\ MaxAttempts \in Nat /\ MaxExtra \in Nat
  /\ Faulty \in BOOLEAN

VARIABLES
  pc,        \* "idle", "connecting", "writing", "reading", "parsing", "up"
  sock,      \* "closed" or "open"
  impl,      \* startup_fsm_impl: [rp, scram]
  st,        \* connection_state: [wbuf, rbuf, key, diag]
  srv,       \* the server's session; sess counts sessions, 0: none yet
  inflight,  \* messages sent and not read
  attempt,   \* calls of connect() so far
  ret,       \* the last result: [ec, diag]
  fresh      \* history: the last call of connect() found its read buffer empty

vars == <<pc, sock, impl, st, srv, inflight, attempt, ret, fresh>>

Password == "p1"
UnknownAuth ==
  {"authentication_kerberos_v5", "authentication_cleartext_password",
   "authentication_md5_password", "authentication_gss", "authentication_sspi"}

NoKey    == 0
NewState == [wbuf |-> [bytes |-> <<>>, proof |-> {}], rbuf |-> <<>>, key |-> NoKey, diag |-> 0]
NewImpl  == [rp |-> 0, scram |-> NewScram]
NoServer == [sess |-> 0, state |-> "none", pw |-> Password, bare |-> <<>>, first |-> <<>>,
             sig |-> {}, honest |-> TRUE, quiet |-> TRUE, extra |-> 0]

Init ==
  /\ pc = "idle" /\ sock = "closed"
  /\ impl = NewImpl /\ st = NewState
  /\ srv = NoServer /\ inflight = <<>>
  /\ attempt = 0 /\ ret = [ec |-> "none", diag |-> 0] /\ fresh = TRUE

-----------------------------------------------------------------------------
(* The server (external): a session of PostgreSQL, or, if Faulty, of        *)
(* something that does not follow its protocol.                             *)

Msg(k) == [kind |-> k, sess |-> srv.sess]

Send(msgs, next) ==
  /\ inflight' = inflight \o msgs
  /\ srv' = next
  /\ UNCHANGED <<pc, sock, impl, st, attempt, ret, fresh>>

SaslFirst(nonce, count) ==
  <<"r=">> \o nonce \o <<Comma, "s=", "salt", Comma, "i=", count>>

\* Messages that break the protocol at any point of the authentication.
Stray == {"data_row", "ready_for_query", "malformed"}
ServerMisbehaves ==
  /\ Faulty
  /\ srv.state \in {"startup", "sasl_first", "sasl_final", "approved"}
  /\ \E k \in Stray \ (IF srv.state = "approved" THEN {"ready_for_query"} ELSE {}) :
       Send(<<Msg(k)>>, [srv EXCEPT !.state = "stopped", !.honest = FALSE])

\* The authentication request that answers the startup message.
ServerAsks ==
  /\ srv.state = "startup"
  /\ \/ \E k \in UnknownAuth : Send(<<Msg(k)>>, [srv EXCEPT !.state = "stopped"])
     \/ \E scram \in BOOLEAN :
          Send(<<[kind |-> "authentication_sasl", sess |-> srv.sess,
                  mechanisms |-> IF scram THEN {"SCRAM-SHA-256-PLUS", "SCRAM-SHA-256"}
                                          ELSE {"SCRAM-SHA-256-PLUS"}]>>,
               [srv EXCEPT !.state = IF scram THEN "sasl" ELSE "stopped"])

\* Approval: at once (trust), or by Verify below.
ServerTrusts ==
  /\ srv.state = "startup"
  /\ Send(<<Msg("authentication_ok")>>, [srv EXCEPT !.state = "approved"])

ServerRefuses ==
  /\ srv.state \in {"startup", "sasl_first", "sasl_final", "approved"}
  /\ Send(<<Msg("error_response")>>, [srv EXCEPT !.state = "refused"])

\* server-first-message: well formed, or not.
ServerFirsts ==
  LET nonce == SubSeq(srv.bare, 2, Len(srv.bare)) \o <<"server_nonce">>
  IN  {[ok |-> TRUE, data |-> SaslFirst(nonce, "2")],
       [ok |-> TRUE, data |-> SaslFirst(nonce, "2") \o <<Comma, "x=">>]} \cup
      (IF ~Faulty THEN {}
       ELSE {[ok |-> FALSE, data |-> d] : d \in
              {SaslFirst(nonce, c) : c \in {"0", "too_many", "NaN"}} \cup
              {SaslFirst(n, "2") : n \in {<<>>, <<"other_nonce">>, <<"unprintable">>}} \cup
              {SubSeq(SaslFirst(nonce, "2"), 1, i) : i \in 0..7} \cup
              {<<"m=", Comma>>, <<"m", Comma>>}})

ServerContinues ==
  /\ srv.state = "sasl_first"
  /\ \E f \in ServerFirsts :
       Send(<<[kind |-> "authentication_sasl_continue", sess |-> srv.sess, data |-> f.data]>>,
            [srv EXCEPT !.state = IF f.ok THEN "sasl" ELSE "stopped", !.first = f.data,
                        !.honest = @ /\ f.ok])

Final(tag, good, sig) ==
  [kind |-> "authentication_sasl_final", sess |-> srv.sess,
   data |-> [tag |-> tag, base64 |-> good, signature |-> sig]]

\* The proof was verified: the server signs and approves.
ServerSigns ==
  /\ srv.state = "verified"
  /\ Send(<<Final("v=", TRUE, srv.sig), Msg("authentication_ok")>>,
          [srv EXCEPT !.state = "approved"])

\* A server that cannot sign, and goes on.
ServerForges ==
  /\ Faulty /\ srv.state = "sasl_final"
  /\ \E f \in {Final("v=", TRUE, {}), Final("v=", FALSE, {}), Final("e=", TRUE, {})} :
       Send(<<f, Msg("authentication_ok"), Msg("ready_for_query")>>,
            [srv EXCEPT !.state = "stopped", !.honest = FALSE])

\* Parameters, the key and notices after the approval; notices before it.
ServerExtras ==
  /\ srv.state \in {"startup", "sasl_first", "approved"}
  /\ srv.extra < MaxExtra
  /\ \E k \in IF srv.state = "approved" THEN {"parameter_status", "notice_response", "backend_key_data"}
              ELSE {"notice_response"} :
       Send(<<Msg(k)>>, [srv EXCEPT !.extra = @ + 1, !.quiet = @ /\ srv.state = "approved"])

ServerReady ==
  /\ srv.state = "approved"
  /\ Send(<<Msg("ready_for_query")>>, [srv EXCEPT !.state = "ready"])

\* What the server does with a message of the client: the startup message, a
\* client-first-message, or a client-final-message, whose proof it verifies:
\* it recovers the client key and compares its hash with the stored key.  A
\* message that it does not wait for ends the dialogue.
Verified(bytes, proof) ==
  LET auth  == srv.bare \o <<Comma>> \o srv.first \o <<Comma>> \o WithoutProof(bytes)
      salted == ComputeHi(NormalizePassword(srv.pw), <<"salt">>, 2)
      stored == Sha256(ClientKey(salted))
      key    == ComputeXor(proof, Hmac(stored, auth))
      nonce  == SubSeq(srv.first, 2, CommaFrom(srv.first, 1) - 1)
  IN  Sha256(key) = stored /\ WithoutProof(bytes) = WithoutProof(ClientFinal(nonce))

Signature(bytes) ==
  LET auth == srv.bare \o <<Comma>> \o srv.first \o <<Comma>> \o WithoutProof(bytes)
  IN  ComputeProofs(srv.pw, <<"salt">>, 2, auth).signature

ServerReceives(wbuf) ==
  IF srv.state \notin {"open", "sasl"} THEN [srv EXCEPT !.state = "stopped"]
  ELSE IF wbuf.bytes = <<"startup">> THEN [srv EXCEPT !.state = "startup"]
  ELSE IF wbuf.proof = {}
  THEN [srv EXCEPT !.state = "sasl_first", !.bare = SubSeq(wbuf.bytes, BareFirst, Len(wbuf.bytes))]
  ELSE IF Verified(wbuf.bytes, wbuf.proof)
  THEN [srv EXCEPT !.state = "verified", !.sig = Signature(wbuf.bytes)]
  ELSE [srv EXCEPT !.state = "sasl_final"]

ServerStep ==
  \/ ServerAsks \/ ServerTrusts \/ ServerRefuses \/ ServerContinues
  \/ ServerSigns \/ ServerExtras \/ ServerReady

-----------------------------------------------------------------------------
(* startup_fsm_impl::resume(): [type, ec, rp, scram, st] for the message m.  *)

Done(ec, s)  == [type |-> "done", ec |-> ec, impl |-> impl, st |-> s]
Yields(t, rp, s) == [type |-> t, ec |-> "ok", impl |-> [impl EXCEPT !.rp = rp], st |-> s]

\* process_error: the diagnostics are those of the session that sent the error
ProcessError(m) == Done("sqlstate", [st EXCEPT !.diag = m.sess])

\* handle_auth_response
HandleAuthResponse(m) ==
  IF m.kind = "error_response" THEN ProcessError(m)
  ELSE IF m.kind = "authentication_ok" THEN Yields("read", 8, st)
  ELSE Done("unexpected_message", st)

\* The first message of the server; supports_scram_sha256, check_unknown_auth_methods
OnAuthRequest(m, nonce) ==
  IF m.kind = "authentication_sasl"
  THEN IF "SCRAM-SHA-256" \notin m.mechanisms THEN Done("scram_mechanisms_unsupported", st)
       ELSE LET i == OnInit(nonce)
            IN  [type |-> "write", ec |-> "ok", impl |-> [rp |-> 3, scram |-> i.scram],
                 st |-> [st EXCEPT !.wbuf = i.wbuf]]
  ELSE IF m.kind \in UnknownAuth THEN Done(m.kind, st)
  ELSE HandleAuthResponse(m)

OnSaslContinue(m) ==
  IF m.kind = "error_response" THEN ProcessError(m)
  ELSE IF m.kind # "authentication_sasl_continue" THEN Done("unexpected_message", st)
  ELSE LET r == OnServerFirst(impl.scram, st.wbuf, m.data, Password)
       IN  IF r.ec # "ok" THEN Done(r.ec, st)
           ELSE [type |-> "write", ec |-> "ok", impl |-> [rp |-> 5, scram |-> r.scram],
                 st |-> [st EXCEPT !.wbuf = r.wbuf]]

OnSaslFinal(m) ==
  IF m.kind = "error_response" THEN ProcessError(m)
  ELSE IF m.kind # "authentication_sasl_final" THEN Done("unexpected_message", st)
  ELSE LET ec == OnServerFinal(impl.scram, m.data)
       IN  IF ec # "ok" THEN Done(ec, st) ELSE Yields("read", 7, st)

\* The loop that waits for ReadyForQuery
NoticeIsError(m) ==  \* mutant: a notice ends the login
  CASE m.kind = "backend_key_data" -> Yields("read", 8, [st EXCEPT !.key = m.sess])
    [] m.kind = "parameter_status" -> Yields("read", 8, st)
    [] m.kind = "error_response" -> ProcessError(m)
    [] m.kind = "ready_for_query" -> Done("ok", st)
    [] OTHER -> Done("unexpected_message", st)

WaitReady(m) ==
  CASE m.kind = "backend_key_data" -> Yields("read", 8, [st EXCEPT !.key = m.sess])
    [] m.kind \in {"parameter_status", "notice_response"} -> Yields("read", 8, st)
    [] m.kind = "error_response" -> ProcessError(m)
    [] m.kind = "ready_for_query" -> Done("ok", st)
    [] OTHER -> Done("unexpected_message", st)

OnMessage(m, nonce) ==
  CASE impl.rp = 2 -> OnAuthRequest(m, nonce)
    [] impl.rp = 4 -> OnSaslContinue(m)
    [] impl.rp = 6 -> OnSaslFinal(m)
    [] impl.rp = 7 -> HandleAuthResponse(m)
    [] impl.rp = 8 -> WaitReady(m)

-----------------------------------------------------------------------------
(* connect_fsm and co_connection::connect() *)

\* connect_fsm closes the socket before it returns an error.
Returns(ec, diag) ==
  /\ ret' = [ec |-> ec, diag |-> diag]
  /\ IF ec = "ok" THEN pc' = "up" /\ UNCHANGED <<sock, srv, inflight>>
     ELSE /\ pc' = "idle" /\ sock' = "closed"
          /\ srv' = [srv EXCEPT !.state = "none"] /\ inflight' = <<>>

\* On the object of the last call nothing of the connection state is reset.
CallConnect ==
  /\ pc = "idle" /\ attempt < MaxAttempts
  /\ attempt' = attempt + 1
  /\ pc' = "connecting"
  /\ impl' = NewImpl
  /\ st' \in {st, NewState}
  /\ fresh' = (st'.rbuf = <<>>)
  /\ ret' = [ec |-> "none", diag |-> 0]
  /\ UNCHANGED <<sock, srv, inflight>>

\* physical_connect(): resolution and connection succeed, and startup_fsm
\* composes the startup message; or one of them fails.
PhysicalConnected ==
  /\ pc = "connecting"
  /\ sock' = "open"
  /\ \E pw \in Passwords : srv' = [NoServer EXCEPT !.sess = srv.sess + 1, !.state = "open", !.pw = pw]
  /\ impl' = [impl EXCEPT !.rp = 1]
  /\ st' = [st EXCEPT !.wbuf = [bytes |-> <<"startup">>, proof |-> {}]]
  /\ pc' = "writing"
  /\ UNCHANGED <<inflight, attempt, ret, fresh>>

PhysicalFails ==
  /\ pc = "connecting"
  /\ Returns("io_error", st.diag)
  /\ UNCHANGED <<impl, st, attempt, fresh>>

\* A write ends; startup_fsm_impl asks for a read.
WriteDone ==
  /\ pc = "writing"
  /\ srv' = ServerReceives(st.wbuf)
  /\ impl' = [impl EXCEPT !.rp = @ + 1]
  /\ pc' = "parsing"
  /\ UNCHANGED <<sock, st, inflight, attempt, ret, fresh>>

\* A read or a write fails, or is cancelled (connect_timeout of the pool).
IoFails ==
  /\ pc \in {"writing", "reading"}
  /\ Returns("io_error", st.diag)
  /\ UNCHANGED <<impl, st, attempt, fresh>>

ReadDone ==
  /\ pc = "reading"
  /\ \E n \in 1..Len(inflight) :
       /\ st' = [st EXCEPT !.rbuf = @ \o SubSeq(inflight, 1, n)]
       /\ inflight' = SubSeq(inflight, n + 1, Len(inflight))
  /\ pc' = "parsing"
  /\ UNCHANGED <<sock, impl, srv, attempt, ret, fresh>>

\* One pass of the read loop of startup_fsm: a cached message is handled, then
\* consumed; with none, more is read; one that cannot be parsed ends the login.
HandleMessage(m) == \E nonce \in Nonces :
  LET r == OnMessage(m, <<nonce>>)
      s == [r.st EXCEPT !.rbuf = Tail(@)]
  IN  /\ st' = s
      /\ impl' = r.impl
      /\ IF r.type = "done" THEN Returns(r.ec, s.diag)
         ELSE /\ pc' = IF r.type = "write" THEN "writing" ELSE "parsing"
              /\ UNCHANGED <<sock, srv, inflight, ret>>

RetriesMalformed ==  \* mutant: a message that cannot be parsed is tried again
  /\ pc = "parsing"
  /\ IF st.rbuf = <<>>
     THEN pc' = "reading" /\ UNCHANGED <<sock, impl, st, srv, inflight, ret>>
     ELSE IF Head(st.rbuf).kind = "malformed" THEN UNCHANGED vars
     ELSE HandleMessage(Head(st.rbuf))
  /\ UNCHANGED <<attempt, fresh>>

ParseOne ==
  /\ pc = "parsing"
  /\ IF st.rbuf = <<>>
     THEN pc' = "reading" /\ UNCHANGED <<sock, impl, st, srv, inflight, ret>>
     ELSE IF Head(st.rbuf).kind = "malformed"
     THEN Returns("protocol_value_error", st.diag) /\ UNCHANGED <<impl, st>>
     ELSE HandleMessage(Head(st.rbuf))
  /\ UNCHANGED <<attempt, fresh>>

\* The session is used and then lost, with bytes read and not handled.
SessionLost ==
  /\ pc = "up" /\ attempt < MaxAttempts
  /\ \E rest \in {<<>>, <<Msg("data_row")>>, <<Msg("error_response")>>} :
       st' = [st EXCEPT !.rbuf = rest]
  /\ pc' = "idle" /\ sock' = "closed" /\ srv' = [srv EXCEPT !.state = "none"] /\ inflight' = <<>>
  /\ UNCHANGED <<impl, attempt, ret, fresh>>

ClientStep == PhysicalConnected \/ WriteDone \/ ReadDone \/ ParseOne
Next ==
  \/ CallConnect \/ ClientStep \/ PhysicalFails \/ IoFails \/ SessionLost
  \/ ServerStep \/ ServerMisbehaves \/ ServerForges

Spec == Init /\ [][Next]_vars

\* Reads and writes end, by a success or by a failure: a server that has
\* nothing more to say is cut off (the peer closes, or the timeout fires).
FairSpec == Spec /\ WF_vars(ClientStep \/ IoFails \/ PhysicalFails)

-----------------------------------------------------------------------------
(* Properties *)

States == {"none", "open", "startup", "sasl", "sasl_first", "sasl_final", "verified",
           "approved", "ready", "refused", "stopped"}

TypeOK ==
  /\ pc \in {"idle", "connecting", "writing", "reading", "parsing", "up"}
  /\ sock \in {"open", "closed"}
  /\ impl.rp \in 0..8
  /\ st.key \in 0..MaxAttempts /\ st.diag \in 0..MaxAttempts
  /\ srv.state \in States /\ srv.sess \in 0..MaxAttempts
  /\ attempt \in 0..MaxAttempts /\ fresh \in BOOLEAN
  /\ pc = "parsing" => impl.rp \in {2, 4, 6, 7, 8}

\* A client that authenticated with SCRAM, in a call that began with an empty
\* read buffer, is up only when the server has verified its proof, and has shown
\* with its signature that it knows the client's password: neither side accepts
\* the other on a nonce, a message or a password that they do not share.  (Every
\* variable has its type too.)
MutualProof == TypeOK /\
  ((fresh /\ pc = "up" /\ impl.scram.signature # {}) =>
     /\ srv.pw = Password
     /\ srv.sig = impl.scram.signature)

\* Against a server that follows the protocol, has the same password and sends
\* no notice during the authentication, a connect() that began with an empty read
\* buffer fails only because the connection broke, the server refused, or it
\* wanted something unsupported.
Causes == UnknownAuth \cup {"none", "ok", "io_error", "sqlstate", "scram_mechanisms_unsupported"}
FailsForCause == (fresh /\ srv.honest /\ srv.quiet) => ret.ec \in Causes

\* A server with the client's password never rejects the proof of a client whose
\* connect() began with an empty read buffer.
ProofAccepted == (fresh /\ srv.pw = Password) => srv.state # "sasl_final"

\* connect() implements the promise of module Login.  A closed socket has no
\* server behind it.  A call that began with the bytes of a lost session takes
\* them for its server's answers: it promises only that it comes to an end, and
\* what it returns counts as "down".
Promise == INSTANCE Login WITH
  client <- IF pc = "idle" \/ (pc = "up" /\ ~fresh) THEN "down"
            ELSE IF pc = "up" THEN "up" ELSE "logging_in",
  server <- IF sock = "closed" \/ (pc = "up" /\ ~fresh) THEN "none"
            ELSE IF ~fresh THEN "deciding"
            ELSE IF srv.state \in {"none", "approved", "ready"} THEN srv.state
            ELSE IF srv.state \in {"refused", "stopped"} THEN "refused" ELSE "deciding"

\* Every step of connect() and of its server is one of Login's, and a login whose
\* server answers ends: the caller is told, whatever is sent in between, and a
\* call that fails leaves no socket open.
ImplementsLogin == Promise!FairSpec

=============================================================================
